------------------------------- MODULE XHook -------------------------------
(***************************************************************************)
(* The hook manager of the framework (xhook/manager.rs, xhook/options.rs). *)
(*                                                                         *)
(* Modules and users register closures that run before the service starts  *)
(* or before it stops.  An invocation takes the whole list of its phase    *)
(* under the manager's mutex, sorts it by order, and runs the closures one *)
(* at a time, each on a thread of its own that it waits for no longer than *)
(* the hook's timeout.  A hook that times out is abandoned, not cancelled: *)
(* its thread goes on while the invocation moves to the next hook.         *)
(***************************************************************************)
EXTENDS Integers, Sequences, FiniteSets

CONSTANTS
    Hooks,       \* the closures; each is an FnOnce, registered at most once
    PhaseOf,     \* the list each is registered in: _before_start, _before_stop
    Callers,     \* the threads that invoke the hooks of a phase
    Order,       \* HookOptions::order of each hook
    Must,        \* HookOptions::must_invoke_success of each hook
    MaxHookNum   \* MAX_HOOK_NUM, the limit of each list

Phases == {"start", "stop"}

ASSUME HookAssumption ==
    /\ IsFiniteSet(Hooks)
    /\ PhaseOf \in [Hooks -> Phases]
    /\ Order \in [Hooks -> Int]
    /\ Must \in [Hooks -> BOOLEAN]
    /\ MaxHookNum \in Nat

VARIABLES
    registry,    \* HookManager: the list of registered hooks of each phase
    regNo,       \* history: the rank of a hook among the registrations accepted
    closure,     \* what became of each closure
    verdict,     \* what invoke_hook_with_timeout returned for each hook
    pc,          \* per caller: "idle", "loop", "wait", or its result "ok", "err"
    phase,       \* per caller: the phase its current or last invocation is for
    batch,       \* per caller: the sorted Vec<Hook> it took
    pos          \* per caller: the index in batch of the hook at hand

vars == <<registry, regNo, closure, verdict, pc, phase, batch, pos>>
callVars == <<pc, phase, batch, pos>>

ClosureStates == {"unregistered", "held", "running", "ok", "err", "dropped"}
Verdicts == {"none", "ok", "err", "timeout"}

-----------------------------------------------------------------------------
(* slice::sort_by_key is stable: ties keep the order of registration.      *)

\* Mutant: an unstable sort, ties come out in reverse.
PrecedesUnstable(s, i, j) ==
    \/ Order[s[i]] < Order[s[j]]
    \/ Order[s[i]] = Order[s[j]] /\ i > j

Precedes(s, i, j) ==
    \/ Order[s[i]] < Order[s[j]]
    \/ Order[s[i]] = Order[s[j]] /\ i < j

Rank(s, i) == Cardinality({j \in DOMAIN s : Precedes(s, j, i)}) + 1

\* Mutant: the hooks are not sorted.
Unsorted(s) == s

StableSort(s) ==
    [k \in DOMAIN s |-> s[CHOOSE i \in DOMAIN s : Rank(s, i) = k]]

Registrations == Cardinality({h \in Hooks : regNo[h] > 0})

-----------------------------------------------------------------------------
Init ==
    /\ registry = [p \in Phases |-> <<>>]
    /\ regNo = [h \in Hooks |-> 0]
    /\ closure = [h \in Hooks |-> "unregistered"]
    /\ verdict = [h \in Hooks |-> "none"]
    /\ pc = [c \in Callers |-> "idle"]
    /\ phase = [c \in Callers |-> "start"]
    /\ batch = [c \in Callers |-> <<>>]
    /\ pos = [c \in Callers |-> 1]

\* register_hook under the mutex, at the limit: the closure is dropped, the
\* caller is not told.
RegisterRefused(h) ==
    /\ closure[h] = "unregistered"
    /\ Len(registry[PhaseOf[h]]) >= MaxHookNum
    /\ closure' = [closure EXCEPT ![h] = "dropped"]
    /\ UNCHANGED <<registry, regNo, verdict, callVars>>

\* register_hook below the limit.
RegisterAccepted(h) ==
    /\ closure[h] = "unregistered"
    /\ Len(registry[PhaseOf[h]]) < MaxHookNum
    /\ registry' = [registry EXCEPT ![PhaseOf[h]] = Append(@, h)]
    /\ regNo' = [regNo EXCEPT ![h] = Registrations + 1]
    /\ closure' = [closure EXCEPT ![h] = "held"]
    /\ UNCHANGED <<verdict, callVars>>

Register(h) == RegisterRefused(h) \/ RegisterAccepted(h)

\* Mutant: the list is cloned, not taken.
TakeClone(c, p) ==
    /\ pc[c] \in {"idle", "ok", "err"}
    /\ phase' = [phase EXCEPT ![c] = p]
    /\ batch' = [batch EXCEPT ![c] = StableSort(registry[p])]
    /\ pos' = [pos EXCEPT ![c] = 1]
    /\ pc' = [pc EXCEPT ![c] = "loop"]
    /\ UNCHANGED <<registry, regNo, closure, verdict>>

\* Mutant: the manager is taken whole, with the list of the other phase.
TakeBoth(c, p) ==
    /\ pc[c] \in {"idle", "ok", "err"}
    /\ phase' = [phase EXCEPT ![c] = p]
    /\ batch' = [batch EXCEPT ![c] = StableSort(registry[p])]
    /\ registry' = [q \in Phases |-> <<>>]
    /\ pos' = [pos EXCEPT ![c] = 1]
    /\ pc' = [pc EXCEPT ![c] = "loop"]
    /\ UNCHANGED <<regNo, closure, verdict>>

\* take_sorted_hooks: sort and std::mem::take in one critical section.
TakeSorted(c, p) ==
    /\ pc[c] \in {"idle", "ok", "err"}
    /\ phase' = [phase EXCEPT ![c] = p]
    /\ batch' = [batch EXCEPT ![c] = StableSort(registry[p])]
    /\ registry' = [registry EXCEPT ![p] = <<>>]
    /\ pos' = [pos EXCEPT ![c] = 1]
    /\ pc' = [pc EXCEPT ![c] = "loop"]
    /\ UNCHANGED <<regNo, closure, verdict>>

Current(c) == batch[c][pos[c]]

\* invoke_hook_with_timeout: the closure moves to a thread of its own.
SpawnHook(c) ==
    /\ pc[c] = "loop"
    /\ pos[c] \in DOMAIN batch[c]
    /\ closure' = [closure EXCEPT ![Current(c)] = "running"]
    /\ pc' = [pc EXCEPT ![c] = "wait"]
    /\ UNCHANGED <<registry, regNo, verdict, phase, batch, pos>>

\* safe_invoke_hook and the send of its result: the closure returned Ok, or
\* returned Err or panicked.  A closure that never gets here hangs.
HookReturns(h, r) ==
    /\ closure[h] = "running"
    /\ closure' = [closure EXCEPT ![h] = r]
    /\ UNCHANGED <<registry, regNo, verdict, callVars>>

\* Mutants: no failure is fatal; a failure is fatal in the stop phase too.
NeverFatal(c, v) == FALSE
FatalInBothPhases(c, v) == v # "ok" /\ Must[Current(c)]

\* invoke_hooks is fail-fast in the start phase only, and only for a hook that
\* must succeed.
Fatal(c, v) == v # "ok" /\ phase[c] = "start" /\ Must[Current(c)]

\* The part of the batch an early return drops without running it.
Unstarted(c) == {batch[c][i] : i \in pos[c] + 1 .. Len(batch[c])}

\* Mutant: a hook that timed out is waited for again.
JudgeRetry(c, v) ==
    /\ verdict' = [verdict EXCEPT ![Current(c)] = v]
    /\ pc' = [pc EXCEPT ![c] = IF v = "timeout" THEN "wait" ELSE "loop"]
    /\ pos' = [pos EXCEPT ![c] = IF v = "timeout" THEN @ ELSE @ + 1]
    /\ UNCHANGED <<registry, regNo, closure, phase, batch>>

\* Mutant: the loop is left, but what is left of the batch is kept for later.
JudgeKeeps(c, v) ==
    /\ verdict' = [verdict EXCEPT ![Current(c)] = v]
    /\ \/ /\ Fatal(c, v)
          /\ pc' = [pc EXCEPT ![c] = "err"]
          /\ UNCHANGED pos
       \/ /\ ~Fatal(c, v)
          /\ pc' = [pc EXCEPT ![c] = "loop"]
          /\ pos' = [pos EXCEPT ![c] = @ + 1]
    /\ UNCHANGED <<registry, regNo, closure, phase, batch>>

\* The match on the result of invoke_hook_with_timeout.
Judge(c, v) ==
    /\ verdict' = [verdict EXCEPT ![Current(c)] = v]
    /\ \/ /\ Fatal(c, v)
          /\ pc' = [pc EXCEPT ![c] = "err"]
          /\ closure' = [h \in Hooks |->
                            IF h \in Unstarted(c) THEN "dropped" ELSE closure[h]]
          /\ UNCHANGED pos
       \/ /\ ~Fatal(c, v)
          /\ pc' = [pc EXCEPT ![c] = "loop"]
          /\ pos' = [pos EXCEPT ![c] = @ + 1]
          /\ UNCHANGED closure
    /\ UNCHANGED <<registry, regNo, phase, batch>>

\* recv_timeout found the thread's result.
Receive(c) ==
    /\ pc[c] = "wait"
    /\ closure[Current(c)] \in {"ok", "err"}
    /\ Judge(c, closure[Current(c)])

\* Mutant: recv() without a timeout.
NoTimeOut(c) == FALSE

\* recv_timeout ran out with the channel empty.
TimeOut(c) ==
    /\ pc[c] = "wait"
    /\ closure[Current(c)] = "running"
    /\ Judge(c, "timeout")

\* The loop over the batch ends: invoke_hooks returns Ok.
FinishOk(c) ==
    /\ pc[c] = "loop"
    /\ pos[c] \notin DOMAIN batch[c]
    /\ pc' = [pc EXCEPT ![c] = "ok"]
    /\ UNCHANGED <<registry, regNo, closure, verdict, phase, batch, pos>>

\* reset_hooks (hidden, for tests): both lists are cleared.
ResetHooks ==
    /\ \E p \in Phases : registry[p] # <<>>
    /\ closure' = [h \in Hooks |->
                      IF \E i \in DOMAIN registry[PhaseOf[h]] : registry[PhaseOf[h]][i] = h
                      THEN "dropped" ELSE closure[h]]
    /\ registry' = [p \in Phases |-> <<>>]
    /\ UNCHANGED <<regNo, verdict, callVars>>

Next ==
    \/ \E h \in Hooks : Register(h)
    \/ \E h \in Hooks, r \in {"ok", "err"} : HookReturns(h, r)
    \/ \E c \in Callers, p \in Phases : TakeSorted(c, p)
    \/ \E c \in Callers : SpawnHook(c)
    \/ \E c \in Callers : Receive(c)
    \/ \E c \in Callers : TimeOut(c)
    \/ \E c \in Callers : FinishOk(c)
    \/ ResetHooks

\* A caller's own steps are scheduled, and recv_timeout returns once the
\* timeout is over.  Nothing obliges a hook to return.
CallerSteps(c) == SpawnHook(c) \/ Receive(c) \/ TimeOut(c) \/ FinishOk(c)
Fairness == \A c \in Callers : WF_vars(CallerSteps(c))

Spec == Init /\ [][Next]_vars /\ Fairness

-----------------------------------------------------------------------------
TypeOK ==
    /\ registry \in [Phases -> Seq(Hooks)]
    /\ regNo \in [Hooks -> Nat]
    /\ closure \in [Hooks -> ClosureStates]
    /\ verdict \in [Hooks -> Verdicts]
    /\ pc \in [Callers -> {"idle", "loop", "wait", "ok", "err"}]
    /\ phase \in [Callers -> Phases]
    /\ batch \in [Callers -> Seq(Hooks)]
    /\ pos \in [Callers -> Nat \ {0}]

\* The indices of the part of a caller's batch it has still to start.
Pending ==
    [c \in Callers |->
        IF pc[c] = "loop" THEN pos[c] .. Len(batch[c])
        ELSE IF pc[c] = "wait" THEN pos[c] + 1 .. Len(batch[c])
        ELSE {}]

\* The places a closure that has not run can be in: a slot of a list, or a slot
\* of the part of a batch still to be started.
Slots(h) ==
    {<<"list", i>> : i \in {i \in DOMAIN registry[PhaseOf[h]] : registry[PhaseOf[h]][i] = h}}
    \cup UNION {{<<c, i>> : i \in {i \in Pending[c] : batch[c][i] = h}} : c \in Callers}

\* No closure is lost or handed out twice: one that was accepted and has neither
\* been started nor dropped sits in exactly one slot, and one that was started or
\* dropped sits in none, whatever registrations and invocations overlap
\* (manager.rs: register_hook, take_sorted_hooks, the early return of invoke_hooks).
HeldInOneSlot ==
    \A h \in Hooks : Cardinality(Slots(h)) = IF closure[h] = "held" THEN 1 ELSE 0

\* g comes before h in an invocation: by order, and on a tie by registration.
Prior(g, h) ==
    \/ Order[g] < Order[h]
    \/ Order[g] = Order[h] /\ regNo[g] < regNo[h]

Started(h) == closure[h] \in {"running", "ok", "err"}
InBatch(c, h) == \E i \in DOMAIN batch[c] : batch[c][i] = h

\* The hooks of one invocation run in order and never overlap, except that one
\* whose timeout ran out may still be running when the next ones start
\* (options.rs: order; manager.rs: take_sorted_hooks, recv_timeout).
RunsInOrder ==
    \A c \in Callers : \A g, h \in Hooks :
        InBatch(c, g) /\ InBatch(c, h) /\ Prior(g, h) /\ Started(h)
            => closure[g] \in {"ok", "err"} \/ verdict[g] = "timeout"

\* An invocation of the start phase that returned Ok ran each hook of its batch,
\* and each hook that must succeed did return Ok within its timeout; what init()
\* reports rests on this (manager.rs: invoke_hooks).
OkMeansMustHooksOk ==
    \A c \in Callers : pc[c] = "ok" =>
        \A h \in Hooks : InBatch(c, h) =>
            /\ Started(h)
            /\ verdict[h] # "none"
            /\ phase[c] = "start" /\ Must[h] => verdict[h] = "ok"

\* An invocation returns Err only from the start phase, only on a hook that must
\* succeed and did not, and then nothing behind that hook ever runs
\* (manager.rs: fail_fast).
ErrMeansFailFast ==
    \A c \in Callers : pc[c] = "err" =>
        /\ phase[c] = "start"
        /\ Must[Current(c)]
        /\ verdict[Current(c)] \in {"err", "timeout"}
        /\ \A i \in DOMAIN batch[c] :
               /\ i < pos[c] /\ Must[batch[c][i]] => verdict[batch[c][i]] = "ok"
               /\ i > pos[c] => closure[batch[c][i]] = "dropped"

\* A late result changes nothing: once a hook was given up or answered, the
\* verdict stands (manager.rs: the receiver is dropped with the timeout).
VerdictIsFinal ==
    [][\A h \in Hooks : verdict[h] # "none" => verdict'[h] = verdict[h]]_vars

\* An invocation always ends, even when hooks hang: each wait is bounded by the
\* hook's timeout (manager.rs: recv_timeout).
InvocationEnds ==
    \A c \in Callers : pc[c] \in {"loop", "wait"} ~> pc[c] \in {"ok", "err"}
=============================================================================
