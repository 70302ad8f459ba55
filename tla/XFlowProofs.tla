---------------------------- MODULE XFlowProofs ----------------------------
(***************************************************************************)
(* Proofs about one execution of a flow, for any number of processors and  *)
(* any choice of weak ones: the rollback covers everything that ran, and   *)
(* the execution implements the saga.                                      *)
(***************************************************************************)
EXTENDS XFlow, TLAPS

\* The processors recorded so far are 1 .. i - 1, in order.
Prefix ==
    /\ Len(succeeded) = i - 1
    /\ \A k \in 1 .. i - 1 : succeeded[k] = k

\* While the first loop runs nothing has failed for good.
GoingForward ==
    pc \in {"process", "processed"} =>
        /\ err = 0 /\ ~rolled /\ cursor = 0 /\ undone = <<>> /\ rollbackErrors = <<>>
        /\ pc = "processed" => i \in Steps

\* The entries of undone are the processors before the failed one, from the last.
Reversed(len) ==
    /\ Len(undone) = len
    /\ \A k \in 1 .. len : undone[k][1] = i - k

GoingBack ==
    /\ pc \in {"rollback", "rolledback"} => i \in Steps /\ err = i /\ rolled
    /\ pc = "rollback" => Reversed(i - 1 - cursor)
    /\ pc = "rolledback" => cursor > 0 /\ Reversed(i - cursor)

Returned ==
    pc = "returned" =>
        \/ err = 0 /\ ~rolled /\ i = N + 1
        \/ i \in Steps /\ err = i /\ rolled /\ cursor = 0 /\ Reversed(i - 1)

\* What can still be changed in the data: by the processors that have not been
\* undone, and by the one that failed.
Residue ==
    /\ pc = "process" => dirty \subseteq 1 .. i - 1
    /\ pc = "processed" => dirty \subseteq 1 .. i
    /\ pc = "rollback" /\ rollbackErrors = <<>> => dirty \subseteq 1 .. cursor \cup {i}
    /\ pc = "rolledback" /\ rollbackErrors = <<>> /\ outcome = "ok" =>
           dirty \subseteq 1 .. cursor - 1 \cup {i}
    /\ pc = "returned" /\ rolled /\ rollbackErrors = <<>> => dirty \subseteq {i}

IInv == TypeOK /\ Prefix /\ GoingForward /\ GoingBack /\ Returned /\ Residue
-----------------------------------------------------------------------------
\* The initial state has all the parts of the invariant.
LEMMA InitInv == Init => IInv
<1> SUFFICES ASSUME Init PROVE IInv
  OBVIOUS
<1> USE FlowAssumption DEF Init, Steps
<1>1. TypeOK
  <2>1. <<>> \in Seq(1 .. N) /\ <<>> \in Seq(Weak) /\ <<>> \in Seq((1 .. N) \X Outcomes)
    OBVIOUS
  <2>2. "ok" \in Outcomes
    BY DEF Outcomes
  <2>3. 1 \in 1 .. N + 1 /\ 0 \in 0 .. N /\ 0 \in 0 .. Len(succeeded)
    OBVIOUS
  <2> QED
    BY <2>1, <2>2, <2>3 DEF TypeOK
<1>2. Prefix /\ GoingForward /\ GoingBack /\ Returned
  BY DEF Prefix, GoingForward, GoingBack, Returned
<1>3. Residue
  BY DEF Residue
<1> QED
  BY <1>1, <1>2, <1>3 DEF IInv

\* Each action of the first loop preserves the invariant.
LEMMA ProcessInv == ASSUME IInv, NEW r \in Outcomes, Process(r) PROVE IInv'
<1> USE FlowAssumption DEF Steps, Process, resultVars
<1>1. TypeOK'
  BY DEF IInv, TypeOK, Outcomes
<1>2. Prefix' /\ GoingForward' /\ GoingBack' /\ Returned'
  BY DEF IInv, Prefix, GoingForward, GoingBack, Returned
<1>3. Residue'
  <2>1. dirty \subseteq 1 .. i - 1 /\ i \in 1 .. N
    BY DEF IInv, Residue
  <2>2. dirty' \subseteq dirty \cup {i}
    OBVIOUS
  <2>3. dirty' \subseteq 1 .. i'
    BY <2>1, <2>2
  <2> QED
    BY <2>3 DEF Residue
<1> QED
  BY <1>1, <1>2, <1>3 DEF IInv

\* The part Succeed and SkipWeak share.
LEMMA RecordInv ==
    ASSUME IInv, pc = "processed", pc' = "process", i' = i + 1,
           succeeded' = Append(succeeded, i), skipped' \in Seq(Weak),
           UNCHANGED <<outcome, cursor, err, rollbackErrors, rolled, dirty, failed, undone>>
    PROVE  IInv'
<1> USE FlowAssumption DEF Steps
<1>0. i \in 1 .. N /\ cursor = 0
  BY DEF IInv, GoingForward
<1>1. TypeOK'
  BY <1>0 DEF IInv, TypeOK
<1>2. Prefix'
  BY <1>0 DEF IInv, Prefix, TypeOK
<1>3. GoingForward' /\ GoingBack' /\ Returned'
  BY <1>0 DEF IInv, GoingForward, GoingBack, Returned
<1>4. Residue'
  BY <1>0 DEF IInv, Residue
<1> QED
  BY <1>1, <1>2, <1>3, <1>4 DEF IInv

\* A step that succeeds keeps the invariant.
LEMMA SucceedInv == ASSUME IInv, Succeed PROVE IInv'
<1>1. skipped' \in Seq(Weak)
  BY DEF IInv, TypeOK, Succeed, resultVars
<1> QED
  BY <1>1, RecordInv DEF Succeed, resultVars

\* A weak step that fails keeps it: it is recorded like the others.
LEMMA SkipWeakInv == ASSUME IInv, SkipWeak PROVE IInv'
<1>1. skipped' \in Seq(Weak)
  BY DEF IInv, TypeOK, SkipWeak
<1> QED
  BY <1>1, RecordInv DEF SkipWeak

\* A strong step that fails keeps it: the reverse loop starts at the last recorded step.
LEMMA FailStrongInv == ASSUME IInv, FailStrong PROVE IInv'
<1> USE FlowAssumption DEF Steps, FailStrong
<1>0. i \in 1 .. N /\ undone = <<>> /\ Len(succeeded) = i - 1
  BY DEF IInv, GoingForward, Prefix
<1>1. TypeOK'
  BY <1>0 DEF IInv, TypeOK
<1>2. Prefix' /\ GoingForward' /\ GoingBack' /\ Returned'
  BY <1>0 DEF IInv, Prefix, GoingForward, GoingBack, Returned, Reversed
<1>3. Residue'
  <2>1. dirty \subseteq 1 .. i
    BY DEF IInv, Residue
  <2>2. dirty' \subseteq 1 .. i - 1 \cup {i}
    BY <2>1, <1>0
  <2> QED
    BY <1>0, <2>2 DEF Residue
<1> QED
  BY <1>1, <1>2, <1>3 DEF IInv

\* Each action of the rollback does.
LEMMA RollbackInv == ASSUME IInv, NEW r \in Outcomes, Rollback(r) PROVE IInv'
<1> USE FlowAssumption DEF Steps, Rollback, resultVars
<1>0. /\ i \in 1 .. N /\ cursor \in 1 .. i - 1 /\ succeeded[cursor] = cursor
      /\ undone \in Seq((1 .. N) \X Outcomes)
  BY DEF IInv, GoingBack, Prefix, TypeOK
<1>1. TypeOK'
  <2>1. <<succeeded[cursor], r>> \in (1 .. N) \X Outcomes
    BY <1>0
  <2>2. undone' \in Seq((1 .. N) \X Outcomes)
    BY <1>0, <2>1
  <2> QED
    BY <1>0, <2>2 DEF IInv, TypeOK
<1>2. Prefix' /\ GoingForward' /\ Returned'
  BY <1>0 DEF IInv, Prefix, GoingForward, Returned
<1>3. GoingBack'
  <2>1. Reversed(i - 1 - cursor)
    BY DEF IInv, GoingBack
  <2>2. Len(undone') = i - cursor
    BY <1>0, <2>1 DEF Reversed
  <2>3. \A k \in 1 .. i - cursor : undone'[k][1] = i - k
    <3> TAKE k \in 1 .. i - cursor
    <3>1. CASE k = i - cursor
      BY <3>1, <2>1, <1>0 DEF Reversed
    <3>2. CASE k # i - cursor
      BY <3>2, <2>1, <1>0 DEF Reversed
    <3> QED
      BY <3>1, <3>2
  <2> QED
    BY <1>0, <2>2, <2>3 DEF IInv, GoingBack, Reversed
<1>4. Residue'
  <2>1. rollbackErrors = <<>> => dirty \subseteq 1 .. cursor \cup {i}
    BY DEF IInv, Residue
  <2>2. r = "ok" => dirty' = dirty \ {cursor}
    BY <1>0
  <2>3. rollbackErrors = <<>> /\ r = "ok" => dirty' \subseteq 1 .. cursor - 1 \cup {i}
    BY <2>1, <2>2, <1>0
  <2> QED
    BY <2>3 DEF Residue
<1> QED
  BY <1>1, <1>2, <1>3, <1>4 DEF IInv

\* A turn of the reverse loop keeps it: the cursor moves down by one.
LEMMA RolledBackInv == ASSUME IInv, RolledBack PROVE IInv'
<1> USE FlowAssumption DEF Steps, RolledBack
<1>0. /\ i \in 1 .. N /\ cursor \in 1 .. i - 1 /\ succeeded[cursor] = cursor
      /\ Len(succeeded) = i - 1 /\ err = i /\ rolled
      /\ rollbackErrors \in Seq(1 .. N) /\ outcome \in Outcomes
  BY DEF IInv, GoingBack, Prefix, TypeOK
<1>1. TypeOK'
  <2>1. succeeded[cursor] \in 1 .. N
    BY <1>0
  <2>2. Append(rollbackErrors, succeeded[cursor]) \in Seq(1 .. N)
    BY <1>0, <2>1
  <2>3. rollbackErrors' \in Seq(1 .. N)
    BY <1>0, <2>2
  <2> QED
    BY <1>0, <2>3 DEF IInv, TypeOK
<1>2. Prefix' /\ GoingForward' /\ GoingBack' /\ Returned'
  <2>1. Reversed(i - cursor)
    BY DEF IInv, GoingBack
  <2>2. i' - 1 - cursor' = i - cursor
    BY <1>0
  <2> QED
    BY <1>0, <2>1, <2>2 DEF IInv, Prefix, GoingForward, GoingBack, Returned, Reversed
<1>3. Residue'
  <2>1. rollbackErrors' = <<>> => rollbackErrors = <<>> /\ outcome = "ok"
    BY <1>0 DEF Outcomes
  <2> QED
    BY <1>0, <2>1 DEF IInv, Residue
<1> QED
  BY <1>1, <1>2, <1>3 DEF IInv

\* Returning and unwinding do.
LEMMA ReturnInv == ASSUME IInv, Return PROVE IInv'
<1> USE FlowAssumption DEF Steps, Return, LoopOver, resultVars
<1>1. TypeOK' /\ Prefix' /\ GoingForward' /\ GoingBack'
  BY DEF IInv, TypeOK, Prefix, GoingForward, GoingBack
<1>2. Returned'
  <2>1. CASE pc = "process"
    BY <2>1 DEF IInv, TypeOK, GoingForward, Returned
  <2>2. CASE pc = "rollback"
    <3>1. i \in 1 .. N /\ err = i /\ rolled /\ cursor = 0 /\ Reversed(i - 1)
      BY <2>2 DEF IInv, TypeOK, GoingBack
    <3> QED
      BY <3>1 DEF Returned, Reversed
  <2> QED
    BY <2>1, <2>2
<1>3. Residue'
  BY DEF IInv, Residue, GoingForward, TypeOK
<1> QED
  BY <1>1, <1>2, <1>3 DEF IInv

\* A panic of a monitor keeps it.
LEMMA UnwindInv == ASSUME IInv, Unwind PROVE IInv'
BY DEF IInv, Unwind, resultVars, TypeOK, Prefix, GoingForward, GoingBack, Returned, Residue

\* A stuttering step keeps it.
LEMMA StutterInv == ASSUME IInv, UNCHANGED vars PROVE IInv'
BY DEF IInv, vars, resultVars, TypeOK, Prefix, GoingForward, GoingBack, Returned,
       Reversed, Residue

\* Every step keeps the invariant.
LEMMA NextInv == IInv /\ [Next]_vars => IInv'
BY ProcessInv, SucceedInv, SkipWeakInv, FailStrongInv, RollbackInv, RolledBackInv,
   ReturnInv, UnwindInv, StutterInv DEF Next

\* Every state of every execution satisfies the invariant (flow.rs: execute, rollback).
THEOREM Invariance == Spec => []IInv
BY InitInv, NextInv, PTL DEF Spec
-----------------------------------------------------------------------------
\* The variables keep their types (flow.rs: Flow, ExecuteResult).
THEOREM TypeCorrect == Spec => []TypeOK
<1>1. IInv => TypeOK
  BY DEF IInv
<1> QED
  BY <1>1, Invariance, PTL

\* A flow that returned an error has rolled back all that ran before the failed
\* processor, once each and last first (flow.rs: succeeded_indices, rollback).
THEOREM RollsBackAll == Spec => []AbortUndoesAll
<1>1. IInv => AbortUndoesAll
  BY FlowAssumption DEF IInv, TypeOK, Returned, Reversed, AbortUndoesAll, Steps
<1> QED
  BY <1>1, Invariance, PTL

\* When no rollback failed, only the failed processor's changes can be left in the
\* data (flow.rs: the failed strong processor is not rolled back).
THEOREM LeavesLittle == Spec => []AbortLeavesLittle
<1>1. IInv => AbortLeavesLittle
  BY FlowAssumption DEF IInv, TypeOK, Returned, Residue, AbortLeavesLittle, Steps
<1> QED
  BY <1>1, Invariance, PTL
-----------------------------------------------------------------------------
(* What the result says.  The lists in it grow at one end while the loops      *)
(* advance, so their order rests on the bounds of what was listed before.      *)

\* What has failed so far: weak processors behind the one at hand, and that one.
Failures ==
    /\ pc = "process" => failed \subseteq Weak \cap 1 .. i - 1
    /\ pc = "processed" =>
           /\ failed \ {i} \subseteq Weak \cap 1 .. i - 1
           /\ i \in failed <=> outcome = "err"
    /\ rolled => i \notin Weak /\ failed \ Weak = {i}
    /\ pc = "returned" /\ ~rolled => failed \subseteq Weak

Skips ==
    /\ pc = "processed" => ListsUp(skipped, (failed \ {i}) \cap Weak)
    /\ pc \notin {"processed", "unwound"} => ListsUp(skipped, failed \cap Weak)

\* While a rollback is judged its result is in undone and not yet in rollback_errors.
Recorded ==
    /\ pc \in {"rollback", "returned"} => ListsDown(rollbackErrors, FailedRollbacks(undone, Len(undone)))
    /\ pc = "rolledback" =>
           /\ ListsDown(rollbackErrors, FailedRollbacks(undone, Len(undone) - 1))
           /\ undone[Len(undone)] = <<cursor, outcome>>

HInv == Failures /\ Skips /\ Recorded

\* A step listed at the end keeps a list in order when it is beyond all that is listed.
LEMMA ListsUpAppend ==
  ASSUME NEW s \in Seq(Nat), NEW M, NEW x \in Nat, ListsUp(s, M), \A y \in M : y < x
  PROVE  ListsUp(Append(s, x), M \cup {x})
<1> DEFINE t == Append(s, x)
           n == Len(s)
<1>1. /\ n \in Nat /\ DOMAIN s = 1 .. n /\ DOMAIN t = 1 .. n + 1
      /\ t[n + 1] = x /\ \A k \in 1 .. n : t[k] = s[k] /\ s[k] \in M
  BY DEF ListsUp
<1> HIDE DEF t, n
<1>2. {t[k] : k \in 1 .. n + 1} = M \cup {x}
  <2>1. M = {s[k] : k \in 1 .. n}
    BY <1>1 DEF ListsUp
  <2>2. 1 .. n + 1 = 1 .. n \cup {n + 1}
    BY <1>1
  <2>3. {t[k] : k \in 1 .. n + 1} = {t[k] : k \in 1 .. n} \cup {t[n + 1]}
    BY <2>2
  <2>4. {t[k] : k \in 1 .. n} = {s[k] : k \in 1 .. n}
    BY <1>1
  <2> QED  BY <1>1, <2>1, <2>3, <2>4
<1>3. ASSUME NEW j \in 1 .. n + 1, NEW k \in 1 .. n + 1, j < k
      PROVE  t[j] < t[k]
  <2>1. j \in 1 .. n /\ (k \in 1 .. n \/ k = n + 1)
    BY <1>1, <1>3
  <2> QED  BY <1>1, <1>3, <2>1 DEF ListsUp
<1> QED  BY <1>1, <1>2, <1>3 DEF ListsUp, t

\* The same for a list that goes down.
LEMMA ListsDownAppend ==
  ASSUME NEW s \in Seq(Nat), NEW M, NEW x \in Nat, ListsDown(s, M), \A y \in M : y > x
  PROVE  ListsDown(Append(s, x), M \cup {x})
<1> DEFINE t == Append(s, x)
           n == Len(s)
<1>1. /\ n \in Nat /\ DOMAIN s = 1 .. n /\ DOMAIN t = 1 .. n + 1
      /\ t[n + 1] = x /\ \A k \in 1 .. n : t[k] = s[k] /\ s[k] \in M
  BY DEF ListsDown
<1> HIDE DEF t, n
<1>2. {t[k] : k \in 1 .. n + 1} = M \cup {x}
  <2>1. M = {s[k] : k \in 1 .. n}
    BY <1>1 DEF ListsDown
  <2>2. 1 .. n + 1 = 1 .. n \cup {n + 1}
    BY <1>1
  <2>3. {t[k] : k \in 1 .. n + 1} = {t[k] : k \in 1 .. n} \cup {t[n + 1]}
    BY <2>2
  <2>4. {t[k] : k \in 1 .. n} = {s[k] : k \in 1 .. n}
    BY <1>1
  <2> QED  BY <1>1, <2>1, <2>3, <2>4
<1>3. ASSUME NEW j \in 1 .. n + 1, NEW k \in 1 .. n + 1, j < k
      PROVE  t[j] > t[k]
  <2>1. j \in 1 .. n /\ (k \in 1 .. n \/ k = n + 1)
    BY <1>1, <1>3
  <2> QED  BY <1>1, <1>3, <2>1 DEF ListsDown
<1> QED  BY <1>1, <1>2, <1>3 DEF ListsDown, t

\* In the initial state nothing has failed.
LEMMA InitHInv == Init => HInv
<1> SUFFICES ASSUME Init PROVE HInv
  OBVIOUS
<1>1. ListsUp(skipped, {}) /\ ListsDown(rollbackErrors, {})
  BY DEF Init, ListsUp, ListsDown
<1> QED
  BY <1>1 DEF Init, HInv, Failures, Skips, Recorded

\* Running a processor decides whether it is among those that failed.
LEMMA ProcessHonest == ASSUME IInv, HInv, NEW r \in Outcomes, Process(r) PROVE HInv'
<1> USE DEF Process, resultVars
<1>0. /\ pc = "process" /\ ~rolled /\ i \in Nat /\ i \notin failed
      /\ failed \subseteq Weak \cap 1 .. i - 1
  BY DEF IInv, TypeOK, GoingForward, HInv, Failures
<1>1. failed' \ {i} = failed /\ (i \in failed' <=> r = "err")
  BY <1>0 DEF Outcomes
<1>2. Failures'
  BY <1>0, <1>1 DEF Failures
<1>3. Skips'
  BY <1>0, <1>1 DEF HInv, Skips
<1> QED
  BY <1>0, <1>2, <1>3 DEF HInv, Recorded

\* A processor that succeeded adds nothing to the result.
LEMMA SucceedHonest == ASSUME IInv, HInv, Succeed PROVE HInv'
<1> USE DEF Succeed, resultVars
<1>0. /\ pc = "processed" /\ ~rolled /\ i \in 1 .. N /\ failed \ {i} = failed
      /\ failed \subseteq Weak \cap 1 .. i - 1
  BY DEF IInv, GoingForward, Steps, HInv, Failures
<1>1. failed \subseteq Weak \cap 1 .. i' - 1
  BY <1>0
<1>2. Failures' /\ Skips'
  BY <1>0, <1>1 DEF HInv, Failures, Skips
<1> QED
  BY <1>2 DEF HInv, Recorded

\* A weak processor that failed is listed behind those that failed before it.
LEMMA SkipWeakHonest == ASSUME IInv, HInv, SkipWeak PROVE HInv'
<1> USE FlowAssumption DEF SkipWeak
<1>0. /\ pc = "processed" /\ ~rolled /\ i \in 1 .. N /\ i \in failed /\ i \in Weak
      /\ failed \ {i} \subseteq Weak \cap 1 .. i - 1
      /\ skipped \in Seq(Nat) /\ ListsUp(skipped, (failed \ {i}) \cap Weak)
  <2>1. skipped \in Seq(Weak) /\ \A w \in Weak : w \in Nat
    BY DEF IInv, TypeOK, Steps
  <2>2. skipped \in Seq(Nat)
    BY <2>1
  <2> QED  BY <2>2 DEF IInv, GoingForward, Steps, HInv, Failures, Skips
<1>1. failed \subseteq Weak \cap 1 .. i' - 1
  BY <1>0
<1>2. ((failed \ {i}) \cap Weak) \cup {i} = failed \cap Weak
  BY <1>0
<1>3. ListsUp(Append(skipped, i), ((failed \ {i}) \cap Weak) \cup {i})
  <2>1. \A y \in (failed \ {i}) \cap Weak : y < i
    BY <1>0
  <2>2. i \in Nat /\ skipped \in Seq(Nat) /\ ListsUp(skipped, (failed \ {i}) \cap Weak)
    BY <1>0
  <2> QED  BY <2>1, <2>2, ListsUpAppend
<1>4. Failures' /\ Skips'
  BY <1>0, <1>1, <1>2, <1>3 DEF Failures, Skips
<1> QED
  BY <1>4 DEF HInv, Recorded

\* The first strong failure ends the forward loop.
LEMMA FailStrongHonest == ASSUME IInv, HInv, FailStrong PROVE HInv'
<1> USE DEF FailStrong
<1>0. /\ pc = "processed" /\ i \in failed /\ i \notin Weak
      /\ failed \ {i} \subseteq Weak /\ undone = <<>> /\ rollbackErrors = <<>>
  BY DEF IInv, GoingForward, HInv, Failures
<1>1. failed \ Weak = {i} /\ (failed \ {i}) \cap Weak = failed \cap Weak
  BY <1>0
<1>2. Failures' /\ Skips'
  BY <1>0, <1>1 DEF HInv, Failures, Skips
<1>3. ListsDown(<<>>, FailedRollbacks(<<>>, 0))
  BY DEF ListsDown, FailedRollbacks
<1>4. Recorded'
  BY <1>0, <1>3 DEF Recorded
<1> QED
  BY <1>2, <1>4 DEF HInv

\* A rollback appends its result to undone; the errors before it stay what they are.
LEMMA RollbackHonest == ASSUME IInv, HInv, NEW r \in Outcomes, Rollback(r) PROVE HInv'
<1> USE DEF Rollback, resultVars
<1>0. /\ pc = "rollback" /\ cursor \in 1 .. i - 1 /\ succeeded[cursor] = cursor
      /\ undone \in Seq(Steps \X Outcomes)
      /\ undone' = Append(undone, <<cursor, r>>)
  BY FlowAssumption DEF IInv, TypeOK, GoingBack, Prefix, Steps
<1>1. /\ Len(undone') = Len(undone) + 1 /\ Len(undone) \in Nat
      /\ undone'[Len(undone')] = <<cursor, r>>
      /\ \A k \in 1 .. Len(undone) : undone'[k] = undone[k]
  BY <1>0
<1>2. FailedRollbacks(undone', Len(undone') - 1) = FailedRollbacks(undone, Len(undone))
  <2>1. Len(undone') - 1 = Len(undone)
    BY <1>1
  <2> QED  BY <1>1, <2>1 DEF FailedRollbacks
<1>3. ListsDown(rollbackErrors, FailedRollbacks(undone, Len(undone)))
  BY <1>0 DEF HInv, Recorded
<1>4. Recorded'
  BY <1>0, <1>1, <1>2, <1>3 DEF Recorded
<1>5. Failures' /\ Skips'
  BY <1>0 DEF HInv, Failures, Skips
<1> QED
  BY <1>4, <1>5 DEF HInv

\* A rollback that failed is listed behind those that failed before it, which were of
\* later processors.
LEMMA RolledBackHonest == ASSUME IInv, HInv, RolledBack PROVE HInv'
<1> USE FlowAssumption DEF RolledBack
<1> DEFINE n == Len(undone)
<1>0. /\ pc = "rolledback" /\ i \in Steps /\ cursor \in 1 .. i - 1 /\ succeeded[cursor] = cursor
      /\ rollbackErrors \in Seq(Nat) /\ n \in Nat /\ n = i - cursor
      /\ \A k \in 1 .. n : undone[k][1] = i - k
      /\ undone[n] = <<cursor, outcome>> /\ outcome \in Outcomes
      /\ ListsDown(rollbackErrors, FailedRollbacks(undone, n - 1))
  <2>1. rollbackErrors \in Seq(Nat)
    BY DEF IInv, TypeOK, Steps
  <2>2. pc = "rolledback" /\ i \in Steps /\ cursor \in 1 .. i - 1 /\ succeeded[cursor] = cursor
    BY DEF IInv, TypeOK, GoingBack, Prefix, Steps
  <2>3. Reversed(i - cursor)
    BY DEF IInv, GoingBack
  <2>4. i \in Nat /\ cursor \in Nat /\ i - cursor \in Nat
    BY <2>2 DEF Steps
  <2>5. n = i - cursor /\ \A k \in 1 .. n : undone[k][1] = i - k
    BY <2>3, <2>4 DEF Reversed
  <2>6. undone[n] = <<cursor, outcome>> /\ ListsDown(rollbackErrors, FailedRollbacks(undone, n - 1))
    BY <2>2 DEF HInv, Recorded
  <2>7. outcome \in Outcomes
    BY DEF IInv, TypeOK
  <2> QED  BY ONLY <2>1, <2>2, <2>4, <2>5, <2>6, <2>7
<1> HIDE DEF n
<1>1. FailedRollbacks(undone, n) = IF outcome = "ok" THEN FailedRollbacks(undone, n - 1)
                           ELSE FailedRollbacks(undone, n - 1) \cup {cursor}
  <2>1. 1 .. n = 1 .. n - 1 \cup {n} /\ n \in 1 .. n
    BY <1>0 DEF Steps
  <2> QED  BY <1>0, <2>1 DEF FailedRollbacks, Outcomes
<1>2. \A y \in FailedRollbacks(undone, n - 1) : y > cursor
  <2> SUFFICES ASSUME NEW k \in 1 .. n - 1
               PROVE  undone[k][1] > cursor
    BY DEF FailedRollbacks
  <2>1. k \in 1 .. n /\ i \in Int /\ cursor \in Int
    BY <1>0 DEF Steps
  <2> QED  BY <1>0, <2>1
<1>3. ListsDown(rollbackErrors', FailedRollbacks(undone, n))
  <2>1. CASE outcome = "ok"
    BY <1>0, <1>1, <2>1
  <2>2. CASE outcome = "err"
    BY <1>0, <1>1, <1>2, <2>2, ListsDownAppend
  <2> QED  BY <1>0, <2>1, <2>2 DEF Outcomes
<1>4. Recorded'
  BY <1>3 DEF Recorded, n
<1>5. Failures' /\ Skips'
  BY <1>0 DEF HInv, Failures, Skips
<1> QED
  BY <1>4, <1>5 DEF HInv

\* Returning reports what was listed.
LEMMA ReturnHonest == ASSUME IInv, HInv, Return PROVE HInv'
<1> USE DEF Return, resultVars, LoopOver
<1>1. ListsDown(rollbackErrors, FailedRollbacks(undone, Len(undone)))
  <2>1. CASE pc = "process"
    BY <2>1 DEF IInv, GoingForward, ListsDown, FailedRollbacks
  <2> QED  BY <2>1 DEF HInv, Recorded
<1>2. Recorded'
  BY <1>1 DEF Recorded
<1>3. pc = "rollback" => rolled
  BY DEF IInv, GoingBack
<1>4. Failures' /\ Skips'
  BY <1>3 DEF HInv, Failures, Skips
<1> QED
  BY <1>2, <1>4 DEF HInv

\* A panic of a monitor leaves no result behind.
LEMMA UnwindHonest == ASSUME HInv, Unwind PROVE HInv'
BY DEF HInv, Unwind, resultVars, Failures, Skips, Recorded

\* A stuttering step keeps what the result says.
LEMMA StutterHonest == ASSUME HInv, UNCHANGED vars PROVE HInv'
BY DEF HInv, vars, resultVars, Failures, Skips, Recorded

\* The result of every execution says what happened: which strong processor failed,
\* which weak ones did before it, and which rollbacks failed, in the order they did
\* (flow.rs: ExecuteResult, skipped_errors, rollback_errors).
THEOREM ResultsAreHonest == Spec => []ResultIsHonest
<1>1. Init => IInv /\ HInv
  BY InitInv, InitHInv
<1>2. IInv /\ HInv /\ [Next]_vars => (IInv /\ HInv)'
  BY NextInv, ProcessHonest, SucceedHonest, SkipWeakHonest, FailStrongHonest, RollbackHonest,
     RolledBackHonest, ReturnHonest, UnwindHonest, StutterHonest DEF Next
<1>3. ASSUME IInv, HInv
      PROVE  ResultIsHonest
  <2> SUFFICES ASSUME pc = "returned"
               PROVE  /\ failed \ Weak = IF err = 0 THEN {} ELSE {err}
                      /\ ListsUp(skipped, failed \cap Weak)
                      /\ ListsDown(rollbackErrors, FailedRollbacks(undone, Len(undone)))
                      /\ rolled = (err # 0)
                      /\ Len(succeeded) = IF err = 0 THEN N ELSE err - 1
    BY DEF ResultIsHonest
  <2>1. \/ err = 0 /\ ~rolled /\ i = N + 1
        \/ i \in 1 .. N /\ err = i /\ rolled
    BY <1>3 DEF IInv, Returned, Steps
  <2>2. rolled \in BOOLEAN /\ N \in Nat /\ Len(succeeded) = i - 1
    BY <1>3, FlowAssumption DEF IInv, TypeOK, Prefix
  <2>3. failed \ Weak = IF err = 0 THEN {} ELSE {err}
    BY <1>3, <2>1 DEF HInv, Failures
  <2> QED  BY <1>3, <2>1, <2>2, <2>3 DEF HInv, Skips, Recorded
<1> QED
  BY <1>1, <1>2, <1>3, PTL DEF Spec
-----------------------------------------------------------------------------
(* The refinement: every step of an execution is a step of the saga or leaves  *)
(* it where it is.                                                             *)

\* A flow begins where the saga begins.
LEMMA InitRefines == Init => S!SagaInit
BY DEF Init, S!SagaInit, Mode, Standing

\* Recording the processor at hand is the saga's Advance.
LEMMA RecordRefines ==
    ASSUME IInv, pc = "processed", pc' = "process", succeeded' = Append(succeeded, i),
           rolled' = rolled
    PROVE  S!Advance
<1>1. ~rolled /\ i \in 1 .. N /\ Len(succeeded) = i - 1
  BY DEF IInv, GoingForward, Prefix, Steps
<1> QED
  BY <1>1, FlowAssumption DEF S!Advance, Mode, Standing

\* Entering the rollback is Fail: all that was recorded still stands.
LEMMA FailRefines == ASSUME IInv, FailStrong PROVE S!Fail
<1>1. ~rolled /\ i \in 1 .. N /\ Len(succeeded) = i - 1 /\ succeeded \in Seq(Steps)
  BY DEF IInv, TypeOK, GoingForward, Prefix, FailStrong, Steps
<1>2. SubSeq(succeeded, 1, Len(succeeded)) = succeeded
  BY <1>1
<1> QED
  BY <1>1, <1>2, FlowAssumption DEF S!Fail, Mode, Standing, FailStrong

\* The end of one rollback, failed or not, is Undo.
LEMMA UndoRefines == ASSUME IInv, RolledBack PROVE S!Undo
<1>1. rolled /\ cursor \in 1 .. Len(succeeded) /\ succeeded \in Seq(Steps)
  BY DEF IInv, TypeOK, GoingBack, RolledBack
<1> DEFINE before == SubSeq(succeeded, 1, cursor)
<1>2. before \in Seq(Steps) /\ Len(before) = cursor
  BY <1>1
<1>3. SubSeq(before, 1, cursor - 1) = SubSeq(succeeded, 1, cursor - 1)
  BY <1>1
<1>4. Standing = before /\ Standing' = SubSeq(succeeded, 1, cursor - 1)
  BY <1>1 DEF Standing, RolledBack
<1>5. Mode = "backward" /\ Mode' = "backward"
  BY <1>1 DEF Mode, RolledBack
<1> HIDE DEF before
<1>6. before # <<>>
  BY <1>1, <1>2
<1> QED
  BY <1>2, <1>3, <1>4, <1>5, <1>6 DEF S!Undo

\* Returning is Commit or Abort, by the loop that ended.
LEMMA ReturnRefines == ASSUME IInv, Return PROVE S!Commit \/ S!Abort
<1>1. CASE pc = "process"
  <2>1. ~rolled /\ Len(succeeded) = N
    BY <1>1, FlowAssumption DEF IInv, TypeOK, GoingForward, Prefix, Return, LoopOver, Steps
  <2> QED
    BY <1>1, <2>1 DEF S!Commit, Mode, Standing, Return, resultVars
<1>2. CASE pc = "rollback"
  <2>1. rolled /\ cursor = 0 /\ succeeded \in Seq(Steps)
    BY <1>2 DEF IInv, TypeOK, GoingBack, Return, LoopOver
  <2>2. SubSeq(succeeded, 1, 0) = <<>>
    BY <2>1
  <2> QED
    BY <1>2, <2>1, <2>2 DEF S!Abort, Mode, Standing, Return, resultVars
<1> QED
  BY <1>1, <1>2 DEF Return, LoopOver

\* A panic of a monitor is the saga's being abandoned.
LEMMA UnwindRefines == ASSUME Unwind PROVE S!Abandon
BY DEF Unwind, LoopOver, S!Abandon, Mode, Standing, resultVars

\* Running a processor's process or rollback is not seen by the saga.
LEMMA StepStutters ==
    ASSUME \/ \E r \in Outcomes : Process(r) \/ Rollback(r)
           \/ UNCHANGED vars
    PROVE  UNCHANGED S!sagaVars
BY DEF Process, Rollback, vars, resultVars, S!sagaVars, Mode, Standing

\* Every step of a flow is a step of the saga or a stutter.
LEMMA NextRefines == IInv /\ [Next]_vars => [S!SagaNext]_(S!sagaVars)
<1> SUFFICES ASSUME IInv, [Next]_vars PROVE S!SagaNext \/ UNCHANGED S!sagaVars
  OBVIOUS
<1>1. CASE Succeed \/ SkipWeak
  BY <1>1, RecordRefines DEF Succeed, SkipWeak, resultVars, S!SagaNext
<1>2. CASE FailStrong
  BY <1>2, FailRefines DEF S!SagaNext
<1>3. CASE RolledBack
  BY <1>3, UndoRefines DEF S!SagaNext
<1>4. CASE Return
  BY <1>4, ReturnRefines DEF S!SagaNext
<1>5. CASE Unwind
  BY <1>5, UnwindRefines DEF S!SagaNext
<1> QED
  BY <1>1, <1>2, <1>3, <1>4, <1>5, StepStutters DEF Next

\* An execution is a saga: the safety part of ImplementsSaga, for every N.
THEOREM FlowImplementsSaga == Spec => S!SagaSafety
BY InitRefines, NextRefines, Invariance, PTL DEF Spec, S!SagaSafety
=============================================================================
