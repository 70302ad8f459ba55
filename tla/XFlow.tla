------------------------------- MODULE XFlow -------------------------------
(***************************************************************************)
(* One execution of a flow (xflow/flow.rs).  Flow::execute runs the        *)
(* processors in order on the caller's data; a strong one that fails stops *)
(* it and rolls back, in reverse, all that ran before; a weak one that     *)
(* fails is recorded and counted among those to roll back.  A panic in a   *)
(* processor is a failure; a panic in a monitor callback is not caught and *)
(* unwinds through execute.                                                *)
(***************************************************************************)
EXTENDS Integers, Sequences

CONSTANTS
    N,          \* the number of processors, numbered in the order of step()
    Weak,       \* those whose dependency() is Dependency::Weak
    Monitored   \* whether resolve_monitor() finds a monitor

Steps == 1 .. N

ASSUME FlowAssumption ==
    /\ N \in Nat
    /\ Weak \subseteq Steps
    /\ Monitored \in BOOLEAN

VARIABLES
    pc,              \* where execute is
    i,               \* the processor at hand in the loop
    outcome,         \* what safe_process or safe_rollback returned last
    succeeded,       \* succeeded_indices
    cursor,          \* how many of succeeded the reverse loop has left
    err,             \* ExecuteResult::err: the processor it names, 0 for None
    skipped,         \* ExecuteResult::skipped_errors
    rollbackErrors,  \* ExecuteResult::rollback_errors
    rolled,          \* ExecuteResult::rolled
    dirty,           \* history: the processors whose changes to the data are there
    failed,          \* history: the processors whose process failed
    undone           \* history: the processors rolled back, in order, with the result

vars == <<pc, i, outcome, succeeded, cursor, err, skipped, rollbackErrors, rolled,
          dirty, failed, undone>>
resultVars == <<err, skipped, rollbackErrors, rolled>>

Outcomes == {"ok", "err"}
-----------------------------------------------------------------------------
Init ==
    /\ pc = "process" /\ i = 1 /\ outcome = "ok"
    /\ succeeded = <<>> /\ cursor = 0
    /\ err = 0 /\ skipped = <<>> /\ rollbackErrors = <<>> /\ rolled = FALSE
    /\ dirty = {} /\ failed = {} /\ undone = <<>>

\* safe_process: the closure returned, or panicked, which is an error.  One that
\* fails may have changed the data before it did.
Process(r) ==
    /\ pc = "process" /\ i \in Steps
    /\ outcome' = r
    /\ pc' = "processed"
    /\ dirty' \in (IF r = "ok" THEN {dirty \cup {i}} ELSE {dirty, dirty \cup {i}})
    /\ failed' = IF r = "ok" THEN failed ELSE failed \cup {i}
    /\ UNCHANGED <<i, succeeded, cursor, resultVars, undone>>

\* Mutant: a weak failure is not put among the steps to roll back.
WeakForgotten ==
    /\ pc = "processed" /\ outcome = "err" /\ i \in Weak
    /\ skipped' = Append(skipped, i)
    /\ i' = i + 1 /\ pc' = "process"
    /\ UNCHANGED <<outcome, succeeded, cursor, err, rollbackErrors, rolled, dirty, failed, undone>>

\* Mutant: a strong failure does not stop the loop.
StrongGoesOn ==
    /\ pc = "processed" /\ outcome = "err" /\ i \notin Weak
    /\ err' = i
    /\ i' = i + 1 /\ pc' = "process"
    /\ UNCHANGED <<outcome, succeeded, cursor, skipped, rollbackErrors, rolled, dirty, failed, undone>>

\* The match on the outcome, after on_process_done: Ok.
Succeed ==
    /\ pc = "processed" /\ outcome = "ok"
    /\ succeeded' = Append(succeeded, i)
    /\ i' = i + 1 /\ pc' = "process"
    /\ UNCHANGED <<outcome, cursor, resultVars, dirty, failed, undone>>

\* Err, weak: recorded, and still to be rolled back should a later step fail.
SkipWeak ==
    /\ pc = "processed" /\ outcome = "err" /\ i \in Weak
    /\ skipped' = Append(skipped, i)
    /\ succeeded' = Append(succeeded, i)
    /\ i' = i + 1 /\ pc' = "process"
    /\ UNCHANGED <<outcome, cursor, err, rollbackErrors, rolled, dirty, failed, undone>>

\* Err, strong: rollback() begins; the failed processor itself is not part of it.
FailStrong ==
    /\ pc = "processed" /\ outcome = "err" /\ i \notin Weak
    /\ err' = i
    /\ rolled' = TRUE
    /\ cursor' = Len(succeeded)
    /\ pc' = "rollback"
    /\ UNCHANGED <<i, outcome, succeeded, skipped, rollbackErrors, dirty, failed, undone>>

\* Mutant: the rollback goes first to last.
RollbackForwards(r) ==
    /\ pc = "rollback" /\ cursor > 0
    /\ outcome' = r
    /\ pc' = "rolledback"
    /\ undone' = Append(undone, <<succeeded[Len(succeeded) + 1 - cursor], r>>)
    /\ dirty' \in (IF r = "ok" THEN {dirty \ {succeeded[cursor]}}
                   ELSE {dirty, dirty \ {succeeded[cursor]}})
    /\ UNCHANGED <<i, succeeded, cursor, resultVars, failed>>

\* safe_rollback of the last processor left: it undoes its changes, or fails, or
\* panics, having undone them or not.
Rollback(r) ==
    /\ pc = "rollback" /\ cursor > 0
    /\ outcome' = r
    /\ pc' = "rolledback"
    /\ undone' = Append(undone, <<succeeded[cursor], r>>)
    /\ dirty' \in (IF r = "ok" THEN {dirty \ {succeeded[cursor]}}
                   ELSE {dirty, dirty \ {succeeded[cursor]}})
    /\ UNCHANGED <<i, succeeded, cursor, resultVars, failed>>

\* Mutant: the first rollback that fails ends the rollback.
RolledBackStops ==
    /\ pc = "rolledback"
    /\ cursor' = IF outcome = "ok" THEN cursor - 1 ELSE 0
    /\ rollbackErrors' = IF outcome = "ok" THEN rollbackErrors
                         ELSE Append(rollbackErrors, succeeded[cursor])
    /\ pc' = "rollback"
    /\ UNCHANGED <<i, outcome, succeeded, err, skipped, rolled, dirty, failed, undone>>

\* Mutant: the error of a rollback is not kept.
RolledBackSilent ==
    /\ pc = "rolledback"
    /\ cursor' = cursor - 1
    /\ pc' = "rollback"
    /\ UNCHANGED <<i, outcome, succeeded, resultVars, dirty, failed, undone>>

\* After on_rollback_done: an error is recorded, and the loop goes on either way.
RolledBack ==
    /\ pc = "rolledback"
    /\ cursor' = cursor - 1
    /\ rollbackErrors' = IF outcome = "ok" THEN rollbackErrors
                         ELSE Append(rollbackErrors, succeeded[cursor])
    /\ pc' = "rollback"
    /\ UNCHANGED <<i, outcome, succeeded, err, skipped, rolled, dirty, failed, undone>>

\* Either loop is over: on_flow_done, then the result is returned.
LoopOver == (pc = "process" /\ i > N) \/ (pc = "rollback" /\ cursor = 0)

Return ==
    /\ LoopOver
    /\ pc' = "returned"
    /\ UNCHANGED <<i, outcome, succeeded, cursor, resultVars, dirty, failed, undone>>

\* on_process_done, on_rollback_done or on_flow_done panics: nothing catches it.
Unwind ==
    /\ Monitored
    /\ pc \in {"processed", "rolledback"} \/ LoopOver
    /\ pc' = "unwound"
    /\ UNCHANGED <<i, outcome, succeeded, cursor, resultVars, dirty, failed, undone>>

Next ==
    \/ \E r \in Outcomes : Process(r)
    \/ Succeed
    \/ SkipWeak
    \/ FailStrong
    \/ \E r \in Outcomes : Rollback(r)
    \/ RolledBack
    \/ Return
    \/ Unwind

\* execute is one thread's straight-line code; processors are taken to return.
Spec == Init /\ [][Next]_vars /\ WF_vars(Next)
-----------------------------------------------------------------------------
TypeOK ==
    /\ pc \in {"process", "processed", "rollback", "rolledback", "returned", "unwound"}
    /\ i \in 1 .. N + 1
    /\ outcome \in Outcomes
    /\ succeeded \in Seq(Steps)
    /\ cursor \in 0 .. Len(succeeded)
    /\ err \in 0 .. N
    /\ skipped \in Seq(Weak) /\ rollbackErrors \in Seq(Steps)
    /\ rolled \in BOOLEAN
    /\ dirty \subseteq Steps /\ failed \subseteq Steps
    /\ undone \in Seq(Steps \X Outcomes)

\* A flow that returned an error has rolled back every processor that ran before
\* the failed one, the weak ones that failed among them, once each and last first,
\* whether or not some rollbacks failed (flow.rs: rollback, succeeded_indices).
AbortUndoesAll ==
    pc = "returned" /\ err # 0 =>
        /\ Len(undone) = err - 1
        /\ \A k \in 1 .. err - 1 : undone[k][1] = err - k

\* s lists the members of S, each once, from the first step to the last; or from the
\* last to the first.
ListsUp(s, S) ==
    /\ {s[k] : k \in DOMAIN s} = S
    /\ \A j, k \in DOMAIN s : j < k => s[j] < s[k]

ListsDown(s, S) ==
    /\ {s[k] : k \in DOMAIN s} = S
    /\ \A j, k \in DOMAIN s : j < k => s[j] > s[k]

\* The steps whose rollback failed, among the first n of the rollbacks u.
FailedRollbacks(u, n) == {u[k][1] : k \in {k \in 1 .. n : u[k][2] = "err"}}

\* The result tells what happened: err names the only strong processor that failed
\* and the last that ran, skipped_errors the weak ones that failed and
\* rollback_errors the rollbacks that did, in the order they did (flow.rs: execute).
ResultIsHonest ==
    pc = "returned" =>
        /\ failed \ Weak = IF err = 0 THEN {} ELSE {err}
        /\ ListsUp(skipped, failed \cap Weak)
        /\ ListsDown(rollbackErrors, FailedRollbacks(undone, Len(undone)))
        /\ rolled = (err # 0)
        /\ Len(succeeded) = IF err = 0 THEN N ELSE err - 1

\* When no rollback failed, the only changes an error leaves in the caller's data
\* are those of the processor that failed (flow.rs: it is not in succeeded_indices).
AbortLeavesLittle ==
    pc = "returned" /\ err # 0 /\ rollbackErrors = <<>> => dirty \subseteq {err}

\* What a flow does is a saga: all steps, or the done ones undone last first.
Mode ==
    IF pc = "unwound" THEN "abandoned"
    ELSE IF pc = "returned" THEN IF rolled THEN "aborted" ELSE "committed"
    ELSE IF rolled THEN "backward" ELSE "forward"

Standing == IF rolled THEN SubSeq(succeeded, 1, cursor) ELSE succeeded

S == INSTANCE Saga WITH mode <- Mode, stack <- Standing

ImplementsSaga == S!SagaSpec
=============================================================================
