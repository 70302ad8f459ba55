--------------------------- MODULE XServerProofs ---------------------------
(***************************************************************************)
(* Theorems about the hook manager, for every set of hooks and callers, and *)
(* about the life cycle above it, for any modules.  The second stand on the *)
(* invariants of the manager: a step of the life cycle is a step of the     *)
(* manager or leaves its variables alone.                                   *)
(***************************************************************************)
EXTENDS XServer, FiniteSetTheorems, TLAPS

-----------------------------------------------------------------------------
(* The sort.                                                               *)

\* The relation the sort goes by is a strict total order on the positions.
LEMMA PrecedesIsTotalOrder ==
  ASSUME NEW s \in Seq(Hooks)
  PROVE  /\ \A i \in DOMAIN s : ~Precedes(s, i, i)
         /\ \A i, j, k \in DOMAIN s :
                Precedes(s, i, j) /\ Precedes(s, j, k) => Precedes(s, i, k)
         /\ \A i, j \in DOMAIN s : i # j => Precedes(s, i, j) \/ Precedes(s, j, i)
<1>1. \A i \in DOMAIN s : i \in Int /\ Order[s[i]] \in Int
  BY HookAssumption
<1> QED  BY <1>1 DEF Precedes

\* Rank numbers the positions of a list from 1 to its length, one each.
LEMMA RankIsBijective ==
  ASSUME NEW s \in Seq(Hooks)
  PROVE  /\ \A i \in DOMAIN s : Rank(s, i) \in DOMAIN s
         /\ \A i, j \in DOMAIN s : Precedes(s, i, j) => Rank(s, i) < Rank(s, j)
         /\ \A k \in DOMAIN s : \E i \in DOMAIN s : Rank(s, i) = k
<1> DEFINE D == DOMAIN s
           Before(i) == {j \in D : Precedes(s, j, i)}
<1>1. PICK n \in Nat : D = 1 .. n
  OBVIOUS
<1>2. IsFiniteSet(D) /\ Cardinality(D) = n
  BY <1>1, FS_Interval
<1>3. ASSUME NEW i \in D
      PROVE  /\ IsFiniteSet(Before(i))
             /\ Cardinality(Before(i)) \in 0 .. n - 1
             /\ Rank(s, i) = Cardinality(Before(i)) + 1
  <2>1. Before(i) \in SUBSET (D \ {i})
    BY PrecedesIsTotalOrder
  <2>2. IsFiniteSet(D \ {i}) /\ Cardinality(D \ {i}) = n - 1
    BY <1>2, FS_RemoveElement
  <2>3. IsFiniteSet(Before(i)) /\ Cardinality(Before(i)) <= n - 1
    BY <2>1, <2>2, FS_Subset
  <2>4. Cardinality(Before(i)) \in Nat
    BY <2>3, FS_CardinalityType
  <2> QED  BY <2>3, <2>4 DEF Rank
<1>4. ASSUME NEW i \in D, NEW j \in D, Precedes(s, i, j)
      PROVE  Rank(s, i) < Rank(s, j)
  <2>1. Before(i) \in SUBSET Before(j)
    BY <1>4, PrecedesIsTotalOrder
  <2>2. i \in Before(j) /\ i \notin Before(i)
    BY <1>4, PrecedesIsTotalOrder
  <2>3. /\ Cardinality(Before(i)) <= Cardinality(Before(j))
        /\ Cardinality(Before(j)) # Cardinality(Before(i))
    BY <1>3, <2>1, <2>2, FS_Subset
  <2> HIDE DEF Before
  <2>4. /\ Cardinality(Before(i)) \in Int /\ Rank(s, i) = Cardinality(Before(i)) + 1
        /\ Cardinality(Before(j)) \in Int /\ Rank(s, j) = Cardinality(Before(j)) + 1
    BY <1>3
  <2> QED  BY <2>3, <2>4
<1>5. \A i \in D : Rank(s, i) \in D
  <2> SUFFICES ASSUME NEW i \in D
               PROVE  Rank(s, i) \in D
    OBVIOUS
  <2> HIDE DEF Before
  <2> QED  BY <1>1, <1>3
<1>6. [i \in D |-> Rank(s, i)] \in Injection(D, D)
  <2>1. ASSUME NEW i \in D, NEW j \in D, i # j
        PROVE  Rank(s, i) # Rank(s, j)
    <3> HIDE DEF D
    <3>1. Rank(s, i) \in Int /\ Rank(s, j) \in Int
      BY <1>1, <1>5
    <3>2. Rank(s, i) < Rank(s, j) \/ Rank(s, j) < Rank(s, i)
      BY <2>1, <1>4, PrecedesIsTotalOrder DEF D
    <3> QED  BY <3>1, <3>2
  <2> QED  BY <2>1, <1>5 DEF Injection, IsInjective
<1>7. [i \in D |-> Rank(s, i)] \in Surjection(D, D)
  BY <1>2, <1>6, FS_Injection
<1>8. \A k \in D : \E i \in D : Rank(s, i) = k
  BY <1>7 DEF Surjection
<1> QED  BY <1>4, <1>5, <1>8

\* StableSort returns the same hooks, each as often as it was there, in the order
\* of their order option and, on a tie, of their positions.
LEMMA StableSortSorts ==
  ASSUME NEW s \in Seq(Hooks)
  PROVE  /\ StableSort(s) \in Seq(Hooks)
         /\ DOMAIN StableSort(s) = DOMAIN s
         /\ \E f \in Bijection(DOMAIN s, DOMAIN s) :
               /\ \A k \in DOMAIN s : StableSort(s)[k] = s[f[k]]
               /\ \A k, m \in DOMAIN s : k < m => Precedes(s, f[k], f[m])
<1> DEFINE D == DOMAIN s
           at(k) == CHOOSE i \in D : Rank(s, i) = k
           f == [k \in D |-> at(k)]
<1>1. \A k \in D : at(k) \in D /\ Rank(s, at(k)) = k
  BY RankIsBijective
<1>2. \A i, j \in D : Rank(s, i) = Rank(s, j) => i = j
  <2> SUFFICES ASSUME NEW i \in D, NEW j \in D, i # j
               PROVE  Rank(s, i) # Rank(s, j)
    OBVIOUS
  <2>1. Rank(s, i) \in Int /\ Rank(s, j) \in Int
    BY RankIsBijective
  <2>2. Rank(s, i) < Rank(s, j) \/ Rank(s, j) < Rank(s, i)
    BY RankIsBijective, PrecedesIsTotalOrder
  <2> QED  BY <2>1, <2>2
<1>3. \A i \in D : at(Rank(s, i)) = i
  BY <1>1, <1>2, RankIsBijective
<1>4. f \in Bijection(D, D)
  <2>1. f \in [D -> D]
    BY <1>1
  <2>2. \A k, m \in D : f[k] = f[m] => k = m
    BY <1>1
  <2>3. \A i \in D : \E k \in D : f[k] = i
    BY <1>3, RankIsBijective
  <2> QED  BY <2>1, <2>2, <2>3 DEF Bijection, Injection, Surjection, IsInjective
<1>5. \A k, m \in D : k < m => Precedes(s, f[k], f[m])
  <2> SUFFICES ASSUME NEW k \in D, NEW m \in D, k < m
               PROVE  Precedes(s, at(k), at(m))
    OBVIOUS
  <2>1. k \in Int /\ m \in Int
    OBVIOUS
  <2>2. at(k) # at(m)
    BY <1>1, <2>1
  <2>3. ~Precedes(s, at(m), at(k))
    <3>1. Rank(s, at(k)) = k /\ Rank(s, at(m)) = m /\ at(k) \in D /\ at(m) \in D
      BY <1>1
    <3>2. Precedes(s, at(m), at(k)) => Rank(s, at(m)) < Rank(s, at(k))
      BY <3>1, RankIsBijective
    <3> QED  BY <2>1, <3>1, <3>2
  <2> QED  BY <1>1, <2>2, <2>3, PrecedesIsTotalOrder
<1>6. StableSort(s) = [k \in D |-> s[f[k]]]
  BY DEF StableSort
<1>7. StableSort(s) \in Seq(Hooks)
  <2>1. PICK n \in Nat : D = 1 .. n
    OBVIOUS
  <2>2. \A k \in D : s[f[k]] \in Hooks
    BY <1>1
  <2>3. StableSort(s) \in [1 .. n -> Hooks]
    BY <1>6, <2>1, <2>2
  <2> QED  BY <2>3
<1> QED  BY <1>4, <1>5, <1>6, <1>7

-----------------------------------------------------------------------------
(* The inductive invariant.  The properties of XHook follow from it, but    *)
(* none of them is inductive: what a step does to a hook depends on where   *)
(* the hook is, so the invariant says of every list and every batch which   *)
(* hooks it holds and what has become of them.                              *)

\* A list holds hooks of its own phase that have not run, each once.
ListsHold ==
    \A p \in Phases : \A i \in DOMAIN registry[p] :
        /\ closure[registry[p][i]] = "held"
        /\ PhaseOf[registry[p][i]] = p
        /\ \A j \in DOMAIN registry[p] : registry[p][i] = registry[p][j] => i = j

\* A batch holds each hook once; the ones still to be started have not run, are in
\* no list, and are not still to be started by anyone else.
BatchDistinct ==
    \A c \in Callers : \A i, j \in DOMAIN batch[c] : batch[c][i] = batch[c][j] => i = j

PendingHeld ==
    \A c \in Callers : \A i \in Pending[c] :
        i \in DOMAIN batch[c] /\ closure[batch[c][i]] = "held"

PendingNotListed ==
    \A c \in Callers : \A i \in Pending[c] :
        \A p \in Phases : \A j \in DOMAIN registry[p] : batch[c][i] # registry[p][j]

PendingDisjoint ==
    \A c, d \in Callers : \A i \in Pending[c], j \in Pending[d] :
        batch[c][i] = batch[d][j] => c = d

\* A hook that has not run is somewhere.
HeldSomewhere ==
    \A h \in Hooks : closure[h] = "held" =>
        \/ \E i \in DOMAIN registry[PhaseOf[h]] : registry[PhaseOf[h]][i] = h
        \/ \E c \in Callers : \E i \in Pending[c] : batch[c][i] = h

\* A hook without a thread has no verdict; one that is waited for has none yet,
\* and only one caller waits for it.
Unanswered == \A h \in Hooks : ~Started(h) => verdict[h] = "none"

Waiting ==
    \A c \in Callers : pc[c] = "wait" =>
        /\ pos[c] \in DOMAIN batch[c]
        /\ Started(Current(c))
        /\ verdict[Current(c)] = "none"

WaitDisjoint ==
    \A c, d \in Callers :
        pc[c] = "wait" /\ pc[d] = "wait" /\ Current(c) = Current(d) => c = d

\* The hooks before the one at hand have been run and judged.
Answered ==
    \A c \in Callers : \A i \in DOMAIN batch[c] : i < pos[c] =>
        /\ Started(batch[c][i])
        /\ verdict[batch[c][i]] # "none"
        /\ phase[c] = "start" /\ Must[batch[c][i]] => verdict[batch[c][i]] = "ok"

AtOk == \A c \in Callers : pc[c] = "ok" => \A i \in DOMAIN batch[c] : i < pos[c]

AtErr ==
    \A c \in Callers : pc[c] = "err" =>
        /\ pos[c] \in DOMAIN batch[c]
        /\ phase[c] = "start"
        /\ Must[Current(c)]
        /\ Started(Current(c))
        /\ verdict[Current(c)] \in {"err", "timeout"}
        /\ \A i \in DOMAIN batch[c] : i > pos[c] => closure[batch[c][i]] = "dropped"

\* A verdict other than a timeout is the closure's own result.
VerdictTrue ==
    \A h \in Hooks : verdict[h] \in {"ok", "err"} => closure[h] = verdict[h]

SlotInv == ListsHold /\ BatchDistinct /\ PendingHeld /\ PendingNotListed
           /\ PendingDisjoint /\ HeldSomewhere
ProgressInv == Unanswered /\ Waiting /\ WaitDisjoint /\ Answered /\ AtOk /\ AtErr
               /\ VerdictTrue
IInv == TypeOK /\ SlotInv /\ ProgressInv

-----------------------------------------------------------------------------
(* Types.                                                                  *)

\* The initial state has the types.
LEMMA InitType == Init => TypeOK
BY HookAssumption DEF Init, TypeOK, ClosureStates, Verdicts, Phases

\* Every step of register_hook, take_sorted_hooks and the invocation keeps the types.
LEMMA NextType == TypeOK /\ [Next]_vars => TypeOK'
<1> SUFFICES ASSUME TypeOK, [Next]_vars
             PROVE  TypeOK'
  OBVIOUS
<1> USE HookAssumption DEF TypeOK
<1>1. ASSUME NEW h \in Hooks, Register(h)
      PROVE  TypeOK'
  <2>1. CASE RegisterRefused(h)
    BY <2>1 DEF RegisterRefused, ClosureStates, callVars
  <2>2. CASE RegisterAccepted(h)
    <3>1. PhaseOf[h] \in Phases
      OBVIOUS
    <3>2. Registrations \in Nat
      <4>1. IsFiniteSet({g \in Hooks : regNo[g] > 0})
        BY FS_Subset
      <4> QED  BY <4>1, FS_CardinalityType DEF Registrations
    <3>3. registry' \in [Phases -> Seq(Hooks)]
      BY <2>2, <3>1 DEF RegisterAccepted
    <3> QED  BY <2>2, <3>2, <3>3 DEF RegisterAccepted, ClosureStates, callVars
  <2> QED  BY <1>1, <2>1, <2>2 DEF Register
<1>2. ASSUME NEW h \in Hooks, NEW r \in {"ok", "err"}, HookReturns(h, r)
      PROVE  TypeOK'
  BY <1>2 DEF HookReturns, ClosureStates, callVars
<1>3. ASSUME NEW c \in Callers, NEW p \in Phases, TakeSorted(c, p)
      PROVE  TypeOK'
  <2>1. StableSort(registry[p]) \in Seq(Hooks)
    BY StableSortSorts
  <2> QED  BY <1>3, <2>1 DEF TakeSorted
<1>4. ASSUME NEW c \in Callers, SpawnHook(c)
      PROVE  TypeOK'
  <2>1. Current(c) \in Hooks
    BY <1>4 DEF SpawnHook, Current
  <2> QED  BY <1>4, <2>1 DEF SpawnHook, ClosureStates
<1>5. ASSUME NEW c \in Callers, NEW v \in Verdicts, Judge(c, v)
      PROVE  TypeOK'
  <2>1. verdict' \in [Hooks -> Verdicts]
    BY <1>5 DEF Judge
  <2>2. closure' \in [Hooks -> ClosureStates]
    BY <1>5 DEF Judge, ClosureStates
  <2>3. pc' \in [Callers -> {"idle", "loop", "wait", "ok", "err"}]
    BY <1>5 DEF Judge
  <2>4. pos' \in [Callers -> Nat \ {0}]
    <3>1. pos[c] + 1 \in Nat \ {0}
      OBVIOUS
    <3>2. pos' = pos \/ pos' = [pos EXCEPT ![c] = pos[c] + 1]
      BY <1>5 DEF Judge
    <3> QED  BY <3>1, <3>2
  <2> QED  BY <1>5, <2>1, <2>2, <2>3, <2>4 DEF Judge
<1>6. ASSUME NEW c \in Callers, Receive(c)
      PROVE  TypeOK'
  BY <1>5, <1>6 DEF Receive, Verdicts
<1>7. ASSUME NEW c \in Callers, TimeOut(c)
      PROVE  TypeOK'
  BY <1>5, <1>7 DEF TimeOut, Verdicts
<1>8. ASSUME NEW c \in Callers, FinishOk(c)
      PROVE  TypeOK'
  BY <1>8 DEF FinishOk
<1>9. CASE ResetHooks
  <2>1. closure' \in [Hooks -> ClosureStates]
    BY <1>9 DEF ResetHooks, ClosureStates
  <2>2. registry' \in [Phases -> Seq(Hooks)]
    BY <1>9 DEF ResetHooks
  <2> QED  BY <1>9, <2>1, <2>2 DEF ResetHooks, callVars
<1>10. CASE UNCHANGED vars
  BY <1>10 DEF vars
<1> QED
  BY <1>1, <1>2, <1>3, <1>4, <1>6, <1>7, <1>8, <1>9, <1>10 DEF Next

\* Every variable keeps the type the manager gives it, whatever the hooks, their
\* orders and the number of callers.
THEOREM TypeCorrect == Spec => []TypeOK
<1>1. Init => TypeOK
  BY InitType
<1>2. TypeOK /\ [Next]_vars => TypeOK'
  BY NextType
<1> QED  BY <1>1, <1>2, PTL DEF Spec

-----------------------------------------------------------------------------
(* Each action preserves the invariant.                                    *)

\* A step that moves no caller and only lets closures go on keeps what is known
\* about the progress of the invocations.
LEMMA ProgressFrame ==
  ASSUME TypeOK, ProgressInv,
         UNCHANGED <<verdict, pc, phase, batch, pos>>,
         \A h \in Hooks :
             /\ Started(h) => closure'[h] \in {"running", "ok", "err"}
             /\ closure[h] \in {"ok", "err", "dropped"} => closure'[h] = closure[h]
  PROVE  ProgressInv'
<1> USE DEF TypeOK, ProgressInv, Started
<1>1. Unanswered'
  BY DEF Unanswered
<1>2. Waiting'
  BY DEF Waiting, Current
<1>3. WaitDisjoint'
  BY DEF WaitDisjoint, Current
<1>4. Answered'
  BY DEF Answered
<1>5. AtOk'
  BY DEF AtOk
<1>6. AtErr'
  <2>1. \A c \in Callers : \A i \in DOMAIN batch[c] : batch[c][i] \in Hooks
    OBVIOUS
  <2> QED  BY <2>1 DEF AtErr, Current
<1>7. VerdictTrue'
  BY DEF VerdictTrue
<1> QED  BY <1>1, <1>2, <1>3, <1>4, <1>5, <1>6, <1>7

\* A step that moves no hook and no caller keeps what is known about the slots.
LEMMA SlotFrame ==
  ASSUME TypeOK, SlotInv, UNCHANGED <<registry, batch>>, Pending' = Pending,
         \A h \in Hooks : closure[h] = "held" <=> closure'[h] = "held"
  PROVE  SlotInv'
<1>1. /\ \A q \in Phases : \A i \in DOMAIN registry[q] : registry[q][i] \in Hooks
      /\ \A c \in Callers : \A i \in DOMAIN batch[c] : batch[c][i] \in Hooks
  BY DEF TypeOK
<1>2. ListsHold' /\ PendingHeld'
  BY <1>1 DEF SlotInv, ListsHold, PendingHeld
<1>3. HeldSomewhere'
  BY Zenon DEF SlotInv, HeldSomewhere
<1>4. BatchDistinct' /\ PendingNotListed'
  BY DEF SlotInv, BatchDistinct, PendingNotListed
<1>5. PendingDisjoint'
  BY Zenon DEF SlotInv, PendingDisjoint
<1> QED  BY <1>2, <1>3, <1>4, <1>5 DEF SlotInv

\* A registration adds a hook that was nowhere.
LEMMA RegisterKeeps ==
  ASSUME TypeOK, SlotInv, ProgressInv, NEW h \in Hooks, Register(h)
  PROVE  SlotInv' /\ ProgressInv'
<1> USE HookAssumption DEF TypeOK
<1> DEFINE p == PhaseOf[h]
<1>1. /\ UNCHANGED <<verdict, pc, phase, batch, pos>>
      /\ closure[h] = "unregistered"
  BY DEF Register, RegisterRefused, RegisterAccepted, callVars
<1>2. Pending' = Pending
  BY <1>1 DEF Pending
<1>3. ProgressInv'
  BY <1>1, ProgressFrame DEF Register, RegisterRefused, RegisterAccepted, Started
<1>4. CASE RegisterRefused(h)
  <2>1. /\ registry' = registry
        /\ closure' = [closure EXCEPT ![h] = "dropped"]
    BY <1>4 DEF RegisterRefused
  <2> QED  BY <1>1, <1>2, <1>3, <2>1, SlotFrame
<1>5. CASE RegisterAccepted(h)
  <2>1. /\ p \in Phases
        /\ registry' = [registry EXCEPT ![p] = Append(registry[p], h)]
        /\ closure' = [closure EXCEPT ![h] = "held"]
    BY <1>5 DEF RegisterAccepted
  <2>2. \A q \in Phases \ {p} : registry'[q] = registry[q]
    BY <2>1
  <2>3. /\ registry'[p] \in Seq(Hooks)
        /\ \A i \in DOMAIN registry[p] :
              i \in DOMAIN registry'[p] /\ registry'[p][i] = registry[p][i]
        /\ \A i \in DOMAIN registry'[p] :
              i \in DOMAIN registry[p] \/ (i = Len(registry[p]) + 1 /\ registry'[p][i] = h)
        /\ Len(registry[p]) + 1 \in DOMAIN registry'[p]
        /\ registry'[p][Len(registry[p]) + 1] = h
    BY <2>1
  <2>4. \A q \in Phases : \A i \in DOMAIN registry[q] : registry[q][i] \in Hooks \ {h}
    BY <1>1 DEF SlotInv, ListsHold
  <2>5. \A c \in Callers : \A i \in Pending[c] : batch[c][i] \in Hooks \ {h}
    BY <1>1 DEF SlotInv, PendingHeld
  <2>6. \A g \in Hooks \ {h} : closure'[g] = closure[g]
    BY <2>1
  <2>7. closure'[h] = "held"
    BY <2>1
  <2>8. ListsHold'
    <3> SUFFICES ASSUME NEW q \in Phases, NEW i \in DOMAIN registry'[q]
                 PROVE  /\ closure'[registry'[q][i]] = "held"
                        /\ PhaseOf[registry'[q][i]] = q
                        /\ \A j \in DOMAIN registry'[q] :
                               registry'[q][i] = registry'[q][j] => i = j
      BY DEF ListsHold
    <3>1. CASE q # p
      BY <2>2, <2>4, <2>6, <3>1 DEF SlotInv, ListsHold
    <3>2. CASE q = p
      <4>1. \A k \in DOMAIN registry[p] :
              /\ closure[registry[p][k]] = "held"
              /\ PhaseOf[registry[p][k]] = p
              /\ registry[p][k] \in Hooks \ {h}
              /\ \A j \in DOMAIN registry[p] : registry[p][k] = registry[p][j] => k = j
        BY <2>1, <2>4 DEF SlotInv, ListsHold
      <4>2. CASE i \in DOMAIN registry[p]
        BY <2>3, <2>6, <3>2, <4>1, <4>2
      <4>3. CASE i = Len(registry[p]) + 1
        BY <2>3, <2>7, <3>2, <4>1, <4>3
      <4> QED  BY <2>3, <3>2, <4>2, <4>3
    <3> QED  BY <3>1, <3>2
  <2>9. BatchDistinct'
    BY <1>1 DEF SlotInv, BatchDistinct
  <2>10. PendingHeld'
    BY <1>1, <1>2, <2>5, <2>6 DEF SlotInv, PendingHeld
  <2>11. PendingNotListed'
    <3> SUFFICES ASSUME NEW c \in Callers, NEW i \in Pending[c],
                        NEW q \in Phases, NEW j \in DOMAIN registry'[q]
                 PROVE  batch[c][i] # registry'[q][j]
      BY <1>1, <1>2 DEF PendingNotListed
    <3>0. \A k \in DOMAIN registry[q] : batch[c][i] # registry[q][k]
      BY DEF SlotInv, PendingNotListed
    <3>1. CASE q # p
      BY <2>2, <3>0, <3>1
    <3>2. CASE q = p
      BY <2>3, <2>5, <3>0, <3>2
    <3> QED  BY <3>1, <3>2
  <2>12. PendingDisjoint'
    BY <1>1, <1>2 DEF SlotInv, PendingDisjoint
  <2>13. HeldSomewhere'
    <3> SUFFICES ASSUME NEW g \in Hooks, closure'[g] = "held"
                 PROVE  \/ \E i \in DOMAIN registry'[PhaseOf[g]] : registry'[PhaseOf[g]][i] = g
                        \/ \E c \in Callers : \E i \in Pending[c] : batch[c][i] = g
      BY <1>1, <1>2 DEF HeldSomewhere
    <3>1. CASE g = h
      BY <2>3, <3>1
    <3>2. CASE g # h
      <4>1. closure[g] = "held" /\ PhaseOf[g] \in Phases
        BY <2>6, <3>2
      <4>2. \/ \E i \in DOMAIN registry[PhaseOf[g]] : registry[PhaseOf[g]][i] = g
            \/ \E c \in Callers : \E i \in Pending[c] : batch[c][i] = g
        BY <4>1 DEF SlotInv, HeldSomewhere
      <4> QED  BY <2>2, <2>3, <4>1, <4>2
    <3> QED  BY <3>1, <3>2
  <2> QED  BY <1>3, <2>8, <2>9, <2>10, <2>11, <2>12, <2>13 DEF SlotInv
<1> QED  BY <1>4, <1>5 DEF Register

\* A hook that returns was running, so it is in no list and pending nowhere.
LEMMA HookReturnsKeeps ==
  ASSUME TypeOK, SlotInv, ProgressInv,
         NEW h \in Hooks, NEW r \in {"ok", "err"}, HookReturns(h, r)
  PROVE  SlotInv' /\ ProgressInv'
<1> USE HookAssumption DEF TypeOK
<1>1. /\ UNCHANGED <<registry, verdict, pc, phase, batch, pos>>
      /\ closure[h] = "running"
      /\ closure' = [closure EXCEPT ![h] = r]
  BY DEF HookReturns, callVars
<1>2. Pending' = Pending
  BY <1>1 DEF Pending
<1>3. ProgressInv'
  BY <1>1, ProgressFrame DEF Started
<1>4. \A g \in Hooks : closure[g] = "held" <=> closure'[g] = "held"
  BY <1>1
<1>5. SlotInv'
  BY <1>1, <1>2, <1>4, SlotFrame
<1> QED  BY <1>3, <1>5

\* An invocation that takes a list takes over exactly its hooks.
LEMMA TakeSortedKeeps ==
  ASSUME TypeOK, SlotInv, ProgressInv,
         NEW c \in Callers, NEW p \in Phases, TakeSorted(c, p)
  PROVE  SlotInv' /\ ProgressInv'
<1> DEFINE t == StableSort(registry[p])
<1>1. /\ UNCHANGED <<closure, verdict>>
      /\ pc[c] \in {"idle", "ok", "err"} /\ pc' = [pc EXCEPT ![c] = "loop"]
      /\ phase' = [phase EXCEPT ![c] = p] /\ pos' = [pos EXCEPT ![c] = 1]
      /\ batch' = [batch EXCEPT ![c] = t] /\ registry' = [registry EXCEPT ![p] = <<>>]
  BY DEF TakeSorted
<1>2. t \in Seq(Hooks) /\ DOMAIN t = DOMAIN registry[p]
  BY StableSortSorts DEF TypeOK
<1>3. PICK f \in Bijection(DOMAIN t, DOMAIN t) : \A k \in DOMAIN t : t[k] = registry[p][f[k]]
  <2>1. registry[p] \in Seq(Hooks)
    BY DEF TypeOK
  <2>2. \E f \in Bijection(DOMAIN registry[p], DOMAIN registry[p]) :
           \A k \in DOMAIN registry[p] : t[k] = registry[p][f[k]]
    BY <2>1, StableSortSorts
  <2> QED  BY <1>2, <2>2
<1>4. /\ \A k \in DOMAIN t : f[k] \in DOMAIN registry[p]
      /\ \A i, j \in DOMAIN t : f[i] = f[j] => i = j
      /\ \A i \in DOMAIN registry[p] : \E k \in DOMAIN t : f[k] = i
  BY <1>2 DEF Bijection, Injection, Surjection, IsInjective
<1> HIDE DEF t
<1>5. \A k \in DOMAIN t : /\ t[k] \in Hooks
                         /\ closure[t[k]] = "held"
                         /\ PhaseOf[t[k]] = p
                         /\ \E i \in DOMAIN registry[p] : t[k] = registry[p][i]
  <2> SUFFICES ASSUME NEW k \in DOMAIN t
               PROVE  /\ t[k] \in Hooks /\ closure[t[k]] = "held" /\ PhaseOf[t[k]] = p
                      /\ \E i \in DOMAIN registry[p] : t[k] = registry[p][i]
    OBVIOUS
  <2>1. f[k] \in DOMAIN registry[p] /\ t[k] = registry[p][f[k]]
    BY <1>3, <1>4
  <2>2. t[k] \in Hooks
    BY <1>2
  <2> QED  BY <2>1, <2>2 DEF SlotInv, ListsHold
<1>6. /\ pc'[c] = "loop" /\ pos'[c] = 1 /\ batch'[c] = t /\ phase'[c] = p
      /\ registry'[p] = <<>>
      /\ \A q \in Phases \ {p} : registry'[q] = registry[q]
      /\ \A d \in Callers \ {c} : /\ pc'[d] = pc[d] /\ pos'[d] = pos[d]
                                  /\ batch'[d] = batch[d] /\ phase'[d] = phase[d]
  BY <1>1 DEF TypeOK
<1>7. /\ Pending[c] = {} /\ Pending'[c] = DOMAIN t
      /\ \A d \in Callers \ {c} : Pending'[d] = Pending[d]
  <2>1. Pending[c] = {}
    BY <1>1 DEF Pending
  <2>2. Pending'[c] = DOMAIN t
    BY <1>2, <1>6 DEF Pending
  <2> QED  BY <1>6, <2>1, <2>2 DEF Pending
<1>8. ListsHold'
  <2> SUFFICES ASSUME NEW q \in Phases, NEW i \in DOMAIN registry'[q]
               PROVE  /\ closure'[registry'[q][i]] = "held"
                      /\ PhaseOf[registry'[q][i]] = q
                      /\ \A j \in DOMAIN registry'[q] :
                             registry'[q][i] = registry'[q][j] => i = j
    BY DEF ListsHold
  <2>1. q # p
    BY <1>6
  <2> QED  BY <1>1, <1>6, <2>1 DEF SlotInv, ListsHold
<1>9. BatchDistinct'
  <2> SUFFICES ASSUME NEW d \in Callers, NEW i \in DOMAIN batch'[d], NEW j \in DOMAIN batch'[d],
                      batch'[d][i] = batch'[d][j]
               PROVE  i = j
    BY DEF BatchDistinct
  <2>1. CASE d = c
    <3>1. registry[p][f[i]] = registry[p][f[j]] /\ i \in DOMAIN t /\ j \in DOMAIN t
      BY <1>3, <1>6, <2>1
    <3> QED  BY <1>4, <3>1 DEF SlotInv, ListsHold
  <2>2. CASE d # c
    BY <1>6, <2>2 DEF SlotInv, BatchDistinct
  <2> QED  BY <2>1, <2>2
<1>10. PendingHeld'
  <2> SUFFICES ASSUME NEW d \in Callers, NEW i \in Pending'[d]
               PROVE  i \in DOMAIN batch'[d] /\ closure'[batch'[d][i]] = "held"
    BY DEF PendingHeld
  <2>1. CASE d = c
    BY <1>1, <1>5, <1>6, <1>7, <2>1
  <2>2. CASE d # c
    BY <1>1, <1>6, <1>7, <2>2 DEF SlotInv, PendingHeld
  <2> QED  BY <2>1, <2>2
<1>11. PendingNotListed'
  <2> SUFFICES ASSUME NEW d \in Callers, NEW i \in Pending'[d],
                      NEW q \in Phases, NEW j \in DOMAIN registry'[q]
               PROVE  batch'[d][i] # registry'[q][j]
    BY DEF PendingNotListed
  <2>1. q # p /\ registry'[q] = registry[q]
    BY <1>6
  <2>2. CASE d = c
    <3>1. PhaseOf[batch'[d][i]] = p
      BY <1>5, <1>6, <1>7, <2>2
    <3>2. PhaseOf[registry[q][j]] = q
      BY <2>1 DEF SlotInv, ListsHold
    <3> QED  BY <2>1, <3>1, <3>2
  <2>3. CASE d # c
    BY <1>6, <1>7, <2>1, <2>3 DEF SlotInv, PendingNotListed
  <2> QED  BY <2>2, <2>3
<1>12. PendingDisjoint'
  <2> SUFFICES ASSUME NEW d \in Callers, NEW e \in Callers, d # e,
                      NEW i \in Pending'[d], NEW j \in Pending'[e]
               PROVE  batch'[d][i] # batch'[e][j]
    BY DEF PendingDisjoint
  <2>1. ASSUME NEW g \in Callers \ {c}, NEW m \in Pending[g], NEW k \in DOMAIN t
        PROVE  batch[g][m] # t[k]
    BY <1>5, <2>1 DEF SlotInv, PendingNotListed
  <2>2. CASE d = c
    BY <1>6, <1>7, <2>1, <2>2
  <2>3. CASE e = c
    BY <1>6, <1>7, <2>1, <2>3
  <2>4. CASE d # c /\ e # c
    BY <1>6, <1>7, <2>4 DEF SlotInv, PendingDisjoint
  <2> QED  BY <2>2, <2>3, <2>4
<1>13. HeldSomewhere'
  <2> SUFFICES ASSUME NEW g \in Hooks, closure[g] = "held"
               PROVE  \/ \E i \in DOMAIN registry'[PhaseOf[g]] : registry'[PhaseOf[g]][i] = g
                      \/ \E d \in Callers : \E i \in Pending'[d] : batch'[d][i] = g
    BY <1>1 DEF HeldSomewhere
  <2>0. PhaseOf[g] \in Phases
    BY HookAssumption
  <2>1. CASE \E i \in DOMAIN registry[PhaseOf[g]] : registry[PhaseOf[g]][i] = g
    <3>1. CASE PhaseOf[g] # p
      BY <1>6, <2>0, <2>1, <3>1
    <3>2. CASE PhaseOf[g] = p
      <4>1. PICK k \in DOMAIN t : t[k] = g
        BY <1>3, <1>4, <2>1, <3>2
      <4> QED  BY <1>6, <1>7, <4>1
    <3> QED  BY <3>1, <3>2
  <2>2. CASE \E d \in Callers : \E i \in Pending[d] : batch[d][i] = g
    <3>1. PICK d \in Callers : \E i \in Pending[d] : batch[d][i] = g
      BY <2>2
    <3>2. d # c
      BY <1>7, <3>1
    <3> QED  BY <1>6, <1>7, <3>1, <3>2
  <2> QED  BY <2>1, <2>2 DEF SlotInv, HeldSomewhere
<1>14. Unanswered' /\ VerdictTrue'
  BY <1>1 DEF ProgressInv, Unanswered, VerdictTrue, Started
<1>15. Waiting' /\ WaitDisjoint'
  BY <1>1, <1>6 DEF ProgressInv, Waiting, WaitDisjoint, Current, Started
<1>16. Answered'
  <2> SUFFICES ASSUME NEW d \in Callers, NEW i \in DOMAIN batch'[d], i < pos'[d]
               PROVE  /\ closure[batch'[d][i]] \in {"running", "ok", "err"}
                      /\ verdict[batch'[d][i]] # "none"
                      /\ phase'[d] = "start" /\ Must[batch'[d][i]] => verdict[batch'[d][i]] = "ok"
    BY <1>1 DEF Answered, Started
  <2>1. CASE d = c
    BY <1>2, <1>6, <2>1
  <2>2. CASE d # c
    BY <1>6, <2>2 DEF ProgressInv, Answered, Started
  <2> QED  BY <2>1, <2>2
<1>17. AtOk' /\ AtErr'
  <2>1. \A d \in Callers : pc'[d] \in {"ok", "err"} => d # c
    BY <1>6
  <2> QED  BY <1>1, <1>6, <2>1 DEF ProgressInv, AtOk, AtErr, Current, Started
<1> QED  BY <1>8, <1>9, <1>10, <1>11, <1>12, <1>13, <1>14, <1>15, <1>16, <1>17
         DEF SlotInv, ProgressInv

\* A hook that is started leaves its slot, the only one it had.
LEMMA SpawnHookKeeps ==
  ASSUME TypeOK, SlotInv, ProgressInv, NEW c \in Callers, SpawnHook(c)
  PROVE  SlotInv' /\ ProgressInv'
<1> DEFINE h == batch[c][pos[c]]
<1>1. /\ UNCHANGED <<registry, verdict, phase, batch, pos>>
      /\ pc[c] = "loop" /\ pc' = [pc EXCEPT ![c] = "wait"]
      /\ pos[c] \in DOMAIN batch[c]
      /\ closure' = [closure EXCEPT ![h] = "running"]
  BY DEF SpawnHook, Current
<1>2. h \in Hooks
  BY <1>1 DEF TypeOK
<1>3. /\ pos[c] \in Pending[c]
      /\ Pending'[c] = Pending[c] \ {pos[c]}
      /\ \A d \in Callers \ {c} : Pending'[d] = Pending[d]
  <2>1. pos[c] \in Nat /\ Len(batch[c]) \in Nat /\ DOMAIN batch[c] = 1 .. Len(batch[c])
    BY DEF TypeOK
  <2>2. pc'[c] = "wait" /\ \A d \in Callers \ {c} : pc'[d] = pc[d]
    BY <1>1 DEF TypeOK
  <2> QED  BY <1>1, <2>1, <2>2 DEF Pending
<1>4. \A d \in Callers : Pending'[d] \subseteq Pending[d]
  BY <1>3
<1>5. closure[h] = "held" /\ verdict[h] = "none"
  BY <1>2, <1>3 DEF SlotInv, PendingHeld, ProgressInv, Unanswered, Started
<1>6. closure'[h] = "running" /\ \A g \in Hooks \ {h} : closure'[g] = closure[g]
  BY <1>1, <1>2 DEF TypeOK
<1> HIDE DEF h
<1>7. \A q \in Phases : \A i \in DOMAIN registry[q] : registry[q][i] \in Hooks \ {h}
  <2>1. \A q \in Phases : \A i \in DOMAIN registry[q] : registry[q][i] \in Hooks
    BY DEF TypeOK
  <2> QED  BY <1>3, <2>1 DEF SlotInv, PendingNotListed, h
<1>8. \A d \in Callers : \A i \in Pending'[d] : batch[d][i] \in Hooks \ {h}
  <2> SUFFICES ASSUME NEW d \in Callers, NEW i \in Pending'[d]
               PROVE  batch[d][i] \in Hooks \ {h}
    OBVIOUS
  <2>1. i \in Pending[d] /\ i \in DOMAIN batch[d] /\ batch[d][i] \in Hooks
    BY <1>4 DEF SlotInv, PendingHeld, TypeOK
  <2>2. CASE d = c
    BY <1>1, <1>3, <2>1, <2>2 DEF SlotInv, BatchDistinct, h
  <2>3. CASE d # c
    BY <1>3, <2>1, <2>3 DEF SlotInv, PendingDisjoint, h
  <2> QED  BY <2>1, <2>2, <2>3
<1>9. ListsHold' /\ BatchDistinct'
  BY <1>1, <1>6, <1>7 DEF SlotInv, ListsHold, BatchDistinct
<1>10. PendingHeld'
  BY <1>1, <1>4, <1>6, <1>8 DEF SlotInv, PendingHeld
<1>11. PendingNotListed' /\ PendingDisjoint'
  <2>1. PendingNotListed'
    BY <1>1, <1>4 DEF SlotInv, PendingNotListed
  <2>2. PendingDisjoint'
    BY <1>1, <1>4 DEF SlotInv, PendingDisjoint
  <2> QED  BY <2>1, <2>2
<1>12. HeldSomewhere'
  <2> SUFFICES ASSUME NEW g \in Hooks, closure'[g] = "held"
               PROVE  \/ \E i \in DOMAIN registry[PhaseOf[g]] : registry[PhaseOf[g]][i] = g
                      \/ \E d \in Callers : \E i \in Pending'[d] : batch[d][i] = g
    BY <1>1 DEF HeldSomewhere
  <2>1. g # h /\ closure[g] = "held"
    BY <1>6
  <2>2. CASE \E d \in Callers : \E i \in Pending[d] : batch[d][i] = g
    <3>1. PICK d \in Callers : \E i \in Pending[d] : batch[d][i] = g
      BY <2>2
    <3>2. PICK i \in Pending[d] : batch[d][i] = g
      BY <3>1
    <3>3. i \in Pending'[d]
      BY <1>3, <2>1, <3>2 DEF h
    <3> QED  BY <3>2, <3>3
  <2> QED  BY <2>1, <2>2 DEF SlotInv, HeldSomewhere
<1>13. \A g \in Hooks : closure[g] # "held" => closure'[g] = closure[g]
  BY <1>5, <1>6
<1>14. Unanswered' /\ VerdictTrue'
  BY <1>1, <1>5, <1>6 DEF ProgressInv, Unanswered, VerdictTrue, Started
<1>15. /\ pc'[c] = "wait" /\ batch[c][pos[c]] = h
       /\ \A d \in Callers \ {c} : pc'[d] = pc[d]
  BY <1>1 DEF TypeOK, h
<1>16. \A d \in Callers : pc[d] = "wait" =>
         batch[d][pos[d]] \in Hooks \ {h} /\ closure[batch[d][pos[d]]] # "held"
  <2> SUFFICES ASSUME NEW d \in Callers, pc[d] = "wait"
               PROVE  batch[d][pos[d]] \in Hooks \ {h} /\ closure[batch[d][pos[d]]] # "held"
    OBVIOUS
  <2>1. pos[d] \in DOMAIN batch[d] /\ closure[batch[d][pos[d]]] \in {"running", "ok", "err"}
    BY DEF ProgressInv, Waiting, Current, Started
  <2>2. batch[d][pos[d]] \in Hooks
    BY <2>1 DEF TypeOK
  <2> QED  BY <1>5, <2>1, <2>2
<1>17. Waiting'
  <2> SUFFICES ASSUME NEW d \in Callers, pc'[d] = "wait"
               PROVE  /\ pos[d] \in DOMAIN batch[d]
                      /\ closure'[batch[d][pos[d]]] \in {"running", "ok", "err"}
                      /\ verdict[batch[d][pos[d]]] = "none"
    BY <1>1 DEF Waiting, Current, Started
  <2>1. CASE d = c
    BY <1>1, <1>5, <1>6, <1>15, <2>1
  <2>2. CASE d # c
    BY <1>13, <1>15, <1>16, <2>2 DEF ProgressInv, Waiting, Current, Started
  <2> QED  BY <2>1, <2>2
<1>18. WaitDisjoint'
  BY <1>1, <1>15, <1>16 DEF ProgressInv, WaitDisjoint, Current
<1>19. Answered'
  <2>1. \A d \in Callers : \A i \in DOMAIN batch[d] : batch[d][i] \in Hooks
    BY DEF TypeOK
  <2> QED  BY <1>1, <1>13, <2>1 DEF ProgressInv, Answered, Started
<1>20. AtOk' /\ AtErr'
  <2>1. \A d \in Callers : pc'[d] \in {"ok", "err"} => d # c /\ pc[d] = pc'[d]
    BY <1>15
  <2>2. AtOk'
    BY <1>1, <2>1 DEF ProgressInv, AtOk
  <2>3. \A d \in Callers : \A i \in DOMAIN batch[d] : batch[d][i] \in Hooks
    BY DEF TypeOK
  <2>4. AtErr'
    BY <1>1, <1>13, <2>1, <2>3 DEF ProgressInv, AtErr, Current, Started
  <2> QED  BY <2>2, <2>4
<1> QED  BY <1>9, <1>10, <1>11, <1>12, <1>14, <1>17, <1>18, <1>19, <1>20
         DEF SlotInv, ProgressInv

\* What the match on a result does, when v is a result the hook at hand can have.
LEMMA JudgePreserves ==
  ASSUME TypeOK, SlotInv, ProgressInv, NEW c \in Callers, NEW v \in {"ok", "err", "timeout"},
         pc[c] = "wait", Judge(c, v),
         v \in {"ok", "err"} => closure[Current(c)] = v
  PROVE  SlotInv' /\ ProgressInv'
<1> DEFINE h == batch[c][pos[c]]
           Gone == IF Fatal(c, v) THEN Unstarted(c) ELSE {}
<1>1. /\ UNCHANGED <<registry, phase, batch>>
      /\ verdict' = [verdict EXCEPT ![h] = v]
  BY DEF Judge, Current
<1>2. /\ pos[c] \in DOMAIN batch[c] /\ h \in Hooks
      /\ closure[h] \in {"running", "ok", "err"} /\ verdict[h] = "none"
  BY DEF ProgressInv, Waiting, Current, Started, TypeOK
<1>3. /\ pos[c] \in Nat \ {0} /\ Len(batch[c]) \in Nat
      /\ DOMAIN batch[c] = 1 .. Len(batch[c]) /\ Pending[c] = pos[c] + 1 .. Len(batch[c])
  BY DEF TypeOK, Pending
<1>4. Unstarted(c) = {batch[c][i] : i \in Pending[c]}
  BY <1>3 DEF Unstarted
<1>5. \A g \in Unstarted(c) : g \in Hooks /\ closure[g] = "held"
  <2> SUFFICES ASSUME NEW i \in Pending[c]
               PROVE  batch[c][i] \in Hooks /\ closure[batch[c][i]] = "held"
    BY <1>4
  <2>1. i \in DOMAIN batch[c] /\ closure[batch[c][i]] = "held"
    BY DEF SlotInv, PendingHeld
  <2> QED  BY <2>1 DEF TypeOK
<1>6. \A g \in Hooks : closure'[g] = IF g \in Gone THEN "dropped" ELSE closure[g]
  BY DEF Judge
<1>7. \/ /\ Fatal(c, v) /\ pc' = [pc EXCEPT ![c] = "err"] /\ pos' = pos
      \/ /\ ~Fatal(c, v) /\ pc' = [pc EXCEPT ![c] = "loop"]
         /\ pos' = [pos EXCEPT ![c] = pos[c] + 1]
  BY DEF Judge
<1>8. /\ \A d \in Callers \ {c} : pc'[d] = pc[d] /\ pos'[d] = pos[d]
      /\ Fatal(c, v) => pc'[c] = "err" /\ pos'[c] = pos[c]
      /\ ~Fatal(c, v) => pc'[c] = "loop" /\ pos'[c] = pos[c] + 1
  BY <1>7 DEF TypeOK
<1>9. /\ \A d \in Callers \ {c} : Pending'[d] = Pending[d]
      /\ Fatal(c, v) => Pending'[c] = {}
      /\ ~Fatal(c, v) => Pending'[c] = Pending[c]
  BY <1>1, <1>3, <1>8 DEF Pending
<1>10. /\ verdict'[h] = v
       /\ \A g \in Hooks \ {h} : verdict'[g] = verdict[g]
  BY <1>1, <1>2 DEF TypeOK
<1>11. \A g \in Hooks : closure[g] # "held" => closure'[g] = closure[g]
  BY <1>5, <1>6
<1>12. \A g \in Hooks : verdict[g] # "none" => verdict'[g] = verdict[g]
  BY <1>2, <1>10
<1>13. \A d \in Callers : \A i \in DOMAIN batch[d] : batch[d][i] \in Hooks
  BY DEF TypeOK
<1>14. Fatal(c, v) <=> v # "ok" /\ phase[c] = "start" /\ Must[h]
  BY DEF Fatal, Current
<1>15. Fatal(c, v) => \A g \in Hooks : closure'[g] = IF g \in Unstarted(c) THEN "dropped"
                                                     ELSE closure[g]
  BY <1>6
<1>16. ~Fatal(c, v) => \A g \in Hooks : closure'[g] = closure[g]
  BY <1>6
<1> HIDE DEF h, Gone
<1>17. SlotInv'
  <2>1. CASE ~Fatal(c, v)
    <3>1. Pending' = Pending
      BY <1>9, <2>1 DEF Pending
    <3> QED  BY <1>1, <1>16, <2>1, <3>1, SlotFrame
  <2>2. CASE Fatal(c, v)
    <3>1. \A q \in Phases : \A i \in DOMAIN registry[q] : registry[q][i] \in Hooks \ Unstarted(c)
      <4>1. \A q \in Phases : \A i \in DOMAIN registry[q] : registry[q][i] \in Hooks
        BY DEF TypeOK
      <4> QED  BY <1>4, <4>1 DEF SlotInv, PendingNotListed
    <3>2. ListsHold' /\ BatchDistinct'
      BY <1>1, <1>15, <2>2, <3>1 DEF SlotInv, ListsHold, BatchDistinct
    <3>3. \A d \in Callers \ {c} : \A i \in Pending[d] : batch[d][i] \notin Unstarted(c)
      BY <1>4 DEF SlotInv, PendingDisjoint
    <3>4. PendingHeld'
      <4> SUFFICES ASSUME NEW d \in Callers, NEW i \in Pending'[d]
                   PROVE  i \in DOMAIN batch[d] /\ closure'[batch[d][i]] = "held"
        BY <1>1 DEF PendingHeld
      <4>1. d # c /\ i \in Pending[d]
        BY <1>9, <2>2
      <4>2. i \in DOMAIN batch[d] /\ closure[batch[d][i]] = "held" /\ batch[d][i] \in Hooks
        BY <1>13, <4>1 DEF SlotInv, PendingHeld
      <4> QED  BY <1>15, <2>2, <3>3, <4>1, <4>2
    <3>5. PendingNotListed' /\ PendingDisjoint'
      <4>1. \A d \in Callers : Pending'[d] \subseteq Pending[d]
        BY <1>9
      <4>2. PendingNotListed'
        BY <1>1, <4>1 DEF SlotInv, PendingNotListed
      <4>3. PendingDisjoint'
        BY <1>1, <4>1 DEF SlotInv, PendingDisjoint
      <4> QED  BY <4>2, <4>3
    <3>6. HeldSomewhere'
      <4> SUFFICES ASSUME NEW g \in Hooks, closure'[g] = "held"
                   PROVE  \/ \E i \in DOMAIN registry[PhaseOf[g]] : registry[PhaseOf[g]][i] = g
                          \/ \E d \in Callers : \E i \in Pending'[d] : batch[d][i] = g
        BY <1>1 DEF HeldSomewhere
      <4>1. closure[g] = "held" /\ g \notin Unstarted(c)
        BY <1>15, <2>2
      <4>2. CASE \E d \in Callers : \E i \in Pending[d] : batch[d][i] = g
        <5>1. PICK d \in Callers : \E i \in Pending[d] : batch[d][i] = g
          BY <4>2
        <5>2. d # c
          BY <1>4, <4>1, <5>1
        <5> QED  BY <1>9, <5>1, <5>2
      <4> QED  BY <4>1, <4>2 DEF SlotInv, HeldSomewhere
    <3> QED  BY <3>2, <3>4, <3>5, <3>6 DEF SlotInv
  <2> QED  BY <2>1, <2>2
<1>18. Unanswered'
  <2> SUFFICES ASSUME NEW g \in Hooks, closure'[g] \notin {"running", "ok", "err"}
               PROVE  verdict'[g] = "none"
    BY DEF Unanswered, Started
  <2>1. closure[g] \notin {"running", "ok", "err"}
    BY <1>11
  <2>2. g # h
    BY <1>2, <2>1
  <2> QED  BY <1>10, <2>1, <2>2 DEF ProgressInv, Unanswered, Started
<1>19. VerdictTrue'
  <2> SUFFICES ASSUME NEW g \in Hooks, verdict'[g] \in {"ok", "err"}
               PROVE  closure'[g] = verdict'[g]
    BY DEF VerdictTrue
  <2>1. CASE g = h
    <3>1. closure[h] = v
      BY <1>10, <2>1 DEF Current, h
    <3> QED  BY <1>2, <1>10, <1>11, <2>1, <3>1
  <2>2. CASE g # h
    BY <1>10, <1>11, <2>2 DEF ProgressInv, VerdictTrue
  <2> QED  BY <2>1, <2>2
<1>20. Waiting' /\ WaitDisjoint'
  <2>1. \A d \in Callers : pc'[d] = "wait" => d # c /\ pc[d] = "wait" /\ pos'[d] = pos[d]
    BY <1>8
  <2>2. Waiting'
    <3> SUFFICES ASSUME NEW d \in Callers, pc'[d] = "wait"
                 PROVE  /\ pos[d] \in DOMAIN batch[d]
                        /\ closure'[batch[d][pos[d]]] \in {"running", "ok", "err"}
                        /\ verdict'[batch[d][pos[d]]] = "none"
      BY <1>1, <2>1 DEF Waiting, Current, Started
    <3>1. /\ pos[d] \in DOMAIN batch[d]
          /\ closure[batch[d][pos[d]]] \in {"running", "ok", "err"}
          /\ verdict[batch[d][pos[d]]] = "none"
      BY <2>1 DEF ProgressInv, Waiting, Current, Started
    <3>2. batch[d][pos[d]] # h
      BY <2>1 DEF ProgressInv, WaitDisjoint, Current, h
    <3> QED  BY <1>10, <1>11, <1>13, <3>1, <3>2
  <2>3. WaitDisjoint'
    BY <1>1, <2>1 DEF ProgressInv, WaitDisjoint, Current
  <2> QED  BY <2>2, <2>3
<1>21. Answered'
  <2> SUFFICES ASSUME NEW d \in Callers, NEW i \in DOMAIN batch[d], i < pos'[d]
               PROVE  /\ closure'[batch[d][i]] \in {"running", "ok", "err"}
                      /\ verdict'[batch[d][i]] # "none"
                      /\ phase[d] = "start" /\ Must[batch[d][i]] => verdict'[batch[d][i]] = "ok"
    BY <1>1 DEF Answered, Started
  <2>1. CASE i < pos[d]
    <3>1. /\ closure[batch[d][i]] \in {"running", "ok", "err"}
          /\ verdict[batch[d][i]] # "none"
          /\ phase[d] = "start" /\ Must[batch[d][i]] => verdict[batch[d][i]] = "ok"
      BY <2>1 DEF ProgressInv, Answered, Started
    <3> QED  BY <1>11, <1>12, <1>13, <3>1
  <2>2. CASE ~(i < pos[d])
    <3>1. d = c /\ ~Fatal(c, v) /\ i = pos[c]
      <4>1. i \in Nat /\ pos[d] \in Nat
        BY DEF TypeOK
      <4>2. d = c /\ ~Fatal(c, v)
        BY <1>8, <2>2
      <4> QED  BY <1>8, <2>2, <4>1, <4>2
    <3>2. batch[d][i] = h
      BY <3>1 DEF h
    <3> QED  BY <1>2, <1>10, <1>11, <1>14, <3>1, <3>2
  <2> QED  BY <2>1, <2>2
<1>22. AtOk'
  <2>1. \A d \in Callers : pc'[d] = "ok" => d # c /\ pc[d] = "ok" /\ pos'[d] = pos[d]
    BY <1>8
  <2> QED  BY <1>1, <2>1 DEF ProgressInv, AtOk
<1>23. AtErr'
  <2> SUFFICES ASSUME NEW d \in Callers, pc'[d] = "err"
               PROVE  /\ pos'[d] \in DOMAIN batch[d]
                      /\ phase[d] = "start"
                      /\ Must[batch[d][pos'[d]]]
                      /\ closure'[batch[d][pos'[d]]] \in {"running", "ok", "err"}
                      /\ verdict'[batch[d][pos'[d]]] \in {"err", "timeout"}
                      /\ \A i \in DOMAIN batch[d] : i > pos'[d] => closure'[batch[d][i]] = "dropped"
    BY <1>1 DEF AtErr, Current, Started
  <2>1. CASE d = c
    <3>1. Fatal(c, v) /\ pos'[c] = pos[c]
      BY <1>8, <2>1
    <3>2. batch[c][pos[c]] = h
      BY DEF h
    <3>3. \A i \in DOMAIN batch[c] : i > pos[c] => batch[c][i] \in Unstarted(c)
      BY <1>3, <1>4
    <3> QED  BY <1>2, <1>10, <1>11, <1>13, <1>14, <1>15, <2>1, <3>1, <3>2, <3>3
  <2>2. CASE d # c
    <3>1. pc[d] = "err" /\ pos'[d] = pos[d]
      BY <1>8, <2>2
    <3>2. /\ pos[d] \in DOMAIN batch[d]
          /\ phase[d] = "start"
          /\ Must[batch[d][pos[d]]]
          /\ closure[batch[d][pos[d]]] \in {"running", "ok", "err"}
          /\ verdict[batch[d][pos[d]]] \in {"err", "timeout"}
          /\ \A i \in DOMAIN batch[d] : i > pos[d] => closure[batch[d][i]] = "dropped"
      BY <3>1 DEF ProgressInv, AtErr, Current, Started
    <3> QED  BY <1>11, <1>12, <1>13, <3>1, <3>2
  <2> QED  BY <2>1, <2>2
<1> QED  BY <1>17, <1>18, <1>19, <1>20, <1>21, <1>22, <1>23 DEF ProgressInv

\* The end of the loop changes nothing but the caller's state.
LEMMA FinishOkKeeps ==
  ASSUME TypeOK, SlotInv, ProgressInv, NEW c \in Callers, FinishOk(c)
  PROVE  SlotInv' /\ ProgressInv'
<1>1. /\ UNCHANGED <<registry, closure, verdict, phase, batch, pos>>
      /\ pc[c] = "loop" /\ pos[c] \notin DOMAIN batch[c]
      /\ pc' = [pc EXCEPT ![c] = "ok"]
  BY DEF FinishOk
<1>2. pc'[c] = "ok" /\ \A d \in Callers \ {c} : pc'[d] = pc[d]
  BY <1>1 DEF TypeOK
<1>3. \A i \in DOMAIN batch[c] : i < pos[c]
  BY <1>1 DEF TypeOK
<1>4. Pending' = Pending
  <2>1. pos[c] .. Len(batch[c]) = {}
    BY <1>1 DEF TypeOK
  <2> QED  BY <1>1, <1>2, <2>1 DEF Pending
<1>5. SlotInv'
  BY <1>1, <1>4, SlotFrame
<1>6. Unanswered' /\ VerdictTrue' /\ Answered'
  BY <1>1 DEF ProgressInv, Unanswered, VerdictTrue, Answered, Started
<1>7. Waiting' /\ WaitDisjoint'
  BY <1>1, <1>2 DEF ProgressInv, Waiting, WaitDisjoint, Current, Started
<1>8. AtOk' /\ AtErr'
  BY <1>1, <1>2, <1>3 DEF ProgressInv, AtOk, AtErr, Current, Started
<1> QED  BY <1>5, <1>6, <1>7, <1>8 DEF ProgressInv

\* What a reset drops was in a list, so nobody had started it or was about to.
LEMMA ResetHooksKeeps ==
  ASSUME TypeOK, SlotInv, ProgressInv, ResetHooks
  PROVE  SlotInv' /\ ProgressInv'
<1> DEFINE Listed(h) == \E i \in DOMAIN registry[PhaseOf[h]] : registry[PhaseOf[h]][i] = h
<1>1. /\ UNCHANGED <<verdict, pc, phase, batch, pos>>
      /\ registry' = [p \in Phases |-> <<>>]
      /\ closure' = [h \in Hooks |-> IF Listed(h) THEN "dropped" ELSE closure[h]]
  BY DEF ResetHooks, callVars
<1>2. \A h \in Hooks : PhaseOf[h] \in Phases
  BY HookAssumption
<1>3. \A h \in Hooks : Listed(h) => closure[h] = "held"
  BY <1>2 DEF SlotInv, ListsHold
<1>4. Pending' = Pending
  BY <1>1 DEF Pending
<1>5. \A c \in Callers : \A i \in Pending[c] :
        /\ i \in DOMAIN batch[c] /\ batch[c][i] \in Hooks
        /\ closure[batch[c][i]] = "held" /\ ~Listed(batch[c][i])
  <2> SUFFICES ASSUME NEW c \in Callers, NEW i \in Pending[c]
               PROVE  /\ i \in DOMAIN batch[c] /\ batch[c][i] \in Hooks
                      /\ closure[batch[c][i]] = "held" /\ ~Listed(batch[c][i])
    OBVIOUS
  <2>1. i \in DOMAIN batch[c] /\ closure[batch[c][i]] = "held"
    BY DEF SlotInv, PendingHeld
  <2>2. batch[c][i] \in Hooks
    BY <2>1 DEF TypeOK
  <2> QED  BY <1>2, <2>1, <2>2 DEF SlotInv, PendingNotListed
<1>6. \A q \in Phases : DOMAIN registry'[q] = {}
  BY <1>1
<1>7. ProgressInv'
  <2>1. \A h \in Hooks : closure[h] # "held" => closure'[h] = closure[h]
    BY <1>1, <1>3
  <2> QED  BY <1>1, <2>1, ProgressFrame DEF Started
<1>8. ListsHold' /\ PendingNotListed'
  BY <1>6 DEF ListsHold, PendingNotListed
<1>9. BatchDistinct' /\ PendingDisjoint'
  BY <1>1, <1>4 DEF SlotInv, BatchDistinct, PendingDisjoint
<1>10. PendingHeld'
  BY <1>1, <1>4, <1>5 DEF PendingHeld
<1>11. HeldSomewhere'
  <2> SUFFICES ASSUME NEW g \in Hooks, closure'[g] = "held"
               PROVE  \E c \in Callers : \E i \in Pending[c] : batch[c][i] = g
    BY <1>1, <1>4 DEF HeldSomewhere
  <2>1. closure[g] = "held" /\ ~Listed(g)
    BY <1>1
  <2> QED  BY <2>1 DEF SlotInv, HeldSomewhere
<1> QED  BY <1>7, <1>8, <1>9, <1>10, <1>11 DEF SlotInv

-----------------------------------------------------------------------------
(* The invariant and what follows from it.                                 *)

\* At first nothing is registered and nobody invokes, so every part holds.
LEMMA InitIInv == Init => IInv
<1> SUFFICES ASSUME Init
             PROVE  IInv
  OBVIOUS
<1>1. TypeOK
  BY InitType
<1>2. \A c \in Callers : Pending[c] = {} /\ pc[c] = "idle" /\ DOMAIN batch[c] = {}
  BY DEF Init, Pending
<1>3. \A q \in Phases : DOMAIN registry[q] = {}
  BY DEF Init
<1>4. \A h \in Hooks : closure[h] = "unregistered" /\ verdict[h] = "none"
  BY DEF Init
<1>5. SlotInv
  BY <1>2, <1>3, <1>4 DEF SlotInv, ListsHold, BatchDistinct, PendingHeld, PendingNotListed,
     PendingDisjoint, HeldSomewhere
<1>6. ProgressInv
  BY <1>2, <1>4 DEF ProgressInv, Unanswered, Waiting, WaitDisjoint, Answered, AtOk, AtErr,
     VerdictTrue
<1> QED  BY <1>1, <1>5, <1>6 DEF IInv

\* Every step keeps the invariant: one lemma above per action.
LEMMA NextIInv == IInv /\ [Next]_vars => IInv'
<1> SUFFICES ASSUME TypeOK, SlotInv, ProgressInv, [Next]_vars
             PROVE  SlotInv' /\ ProgressInv'
  BY NextType DEF IInv
<1>1. ASSUME NEW c \in Callers, Receive(c)
      PROVE  SlotInv' /\ ProgressInv'
  <2>1. pc[c] = "wait" /\ closure[Current(c)] \in {"ok", "err"} /\ Judge(c, closure[Current(c)])
    BY <1>1 DEF Receive
  <2> QED  BY <2>1, JudgePreserves
<1>2. ASSUME NEW c \in Callers, TimeOut(c)
      PROVE  SlotInv' /\ ProgressInv'
  BY <1>2, JudgePreserves DEF TimeOut
<1>3. CASE UNCHANGED vars
  <2>1. UNCHANGED <<registry, closure, verdict, pc, phase, batch, pos>>
    BY <1>3 DEF vars
  <2>2. Pending' = Pending
    BY <2>1 DEF Pending
  <2>3. SlotInv'
    BY <2>1, <2>2, SlotFrame
  <2>4. ProgressInv'
    BY <2>1, ProgressFrame DEF Started
  <2> QED  BY <2>3, <2>4
<1> QED
  BY <1>1, <1>2, <1>3, RegisterKeeps, HookReturnsKeeps, TakeSortedKeeps, SpawnHookKeeps,
     FinishOkKeeps, ResetHooksKeeps DEF Next

\* The strengthened invariant of the hook manager holds in every reachable state: the
\* lists and batches hold each closure once and what is known of hooks follows the callers.
THEOREM Invariance == Spec => []IInv
<1>1. Init => IInv
  BY InitIInv
<1>2. IInv /\ [Next]_vars => IInv'
  BY NextIInv
<1> QED  BY <1>1, <1>2, PTL DEF Spec

\* For any hooks, orders, callers and limits: an invocation of the start phase
\* that returned Ok has run each hook of its batch, and each that must succeed did.
THEOREM OkIsHonest == Spec => []OkMeansMustHooksOk
<1>1. IInv => OkMeansMustHooksOk
  <2> SUFFICES ASSUME IInv, NEW c \in Callers, pc[c] = "ok", NEW h \in Hooks, InBatch(c, h)
               PROVE  /\ Started(h)
                      /\ verdict[h] # "none"
                      /\ phase[c] = "start" /\ Must[h] => verdict[h] = "ok"
    BY DEF OkMeansMustHooksOk
  <2>1. PICK i \in DOMAIN batch[c] : batch[c][i] = h
    BY DEF InBatch
  <2>2. i < pos[c]
    BY DEF IInv, ProgressInv, AtOk
  <2> QED  BY <2>1, <2>2 DEF IInv, ProgressInv, Answered
<1> QED  BY <1>1, Invariance, PTL

\* For any hooks, orders, callers and limits: an invocation that returned Err did so
\* on a start hook that must succeed, and nothing behind that hook ever runs.
THEOREM ErrIsFailFast == Spec => []ErrMeansFailFast
<1>1. IInv => ErrMeansFailFast
  <2> SUFFICES ASSUME IInv, NEW c \in Callers, pc[c] = "err"
               PROVE  /\ phase[c] = "start"
                      /\ Must[Current(c)]
                      /\ verdict[Current(c)] \in {"err", "timeout"}
                      /\ \A i \in DOMAIN batch[c] :
                             /\ i < pos[c] /\ Must[batch[c][i]] => verdict[batch[c][i]] = "ok"
                             /\ i > pos[c] => closure[batch[c][i]] = "dropped"
    BY DEF ErrMeansFailFast
  <2>1. phase[c] = "start"
    BY DEF IInv, ProgressInv, AtErr
  <2>2. \A i \in DOMAIN batch[c] : i < pos[c] /\ Must[batch[c][i]] => verdict[batch[c][i]] = "ok"
    BY <2>1 DEF IInv, ProgressInv, Answered
  <2> QED  BY <2>1, <2>2 DEF IInv, ProgressInv, AtErr
<1> QED  BY <1>1, Invariance, PTL

\* No step changes a verdict that was given: the one who judges a hook waits for it.
LEMMA VerdictKept ==
  ASSUME IInv, [Next]_vars
  PROVE  \A h \in Hooks : verdict[h] # "none" => verdict'[h] = verdict[h]
<1> DEFINE Stands == \A h \in Hooks : verdict[h] # "none" => verdict'[h] = verdict[h]
<1>1. ASSUME NEW c \in Callers, NEW v, pc[c] = "wait", Judge(c, v)
      PROVE  Stands
  <2>1. Current(c) \in Hooks /\ verdict[Current(c)] = "none"
    BY <1>1 DEF IInv, ProgressInv, Waiting, TypeOK, Current
  <2>2. verdict' = [verdict EXCEPT ![Current(c)] = v]
    BY <1>1 DEF Judge
  <2> QED  BY <1>1, <2>1, <2>2 DEF IInv, TypeOK
<1>2. ASSUME NEW c \in Callers, Receive(c) \/ TimeOut(c)
      PROVE  Stands
  BY <1>1, <1>2 DEF Receive, TimeOut
<1>3. ASSUME verdict' = verdict
      PROVE  Stands
  BY <1>3
<1> QED
  BY <1>2, <1>3 DEF Next, Register, RegisterRefused, RegisterAccepted, HookReturns,
     TakeSorted, SpawnHook, FinishOk, ResetHooks, vars

\* A verdict, once given, stands, whatever the hook's thread does afterwards.
THEOREM VerdictStands == Spec => VerdictIsFinal
<1> DEFINE Stands == \A h \in Hooks : verdict[h] # "none" => verdict'[h] = verdict[h]
<1>1. IInv /\ [Next]_vars => [Stands]_vars
  BY VerdictKept
<1> QED  BY <1>1, Invariance, PTL DEF Spec, VerdictIsFinal

\* No closure is lost or handed out twice: what has not run sits in one slot.
THEOREM NothingLost == Spec => []HeldInOneSlot
<1>1. ASSUME SlotInv, TypeOK, NEW h \in Hooks, closure[h] # "held"
      PROVE  Slots(h) = {}
  <2>1. \A i \in DOMAIN registry[PhaseOf[h]] : registry[PhaseOf[h]][i] # h
    BY <1>1, HookAssumption DEF SlotInv, ListsHold
  <2>2. \A c \in Callers : \A i \in Pending[c] : batch[c][i] # h
    BY <1>1 DEF SlotInv, PendingHeld
  <2> QED  BY <2>1, <2>2, Zenon DEF Slots
<1>2. ASSUME SlotInv, TypeOK, NEW h \in Hooks, closure[h] = "held"
      PROVE  \E x : Slots(h) = {x}
  <2> DEFINE list == registry[PhaseOf[h]]
  <2>0. PhaseOf[h] \in Phases
    BY HookAssumption
  <2>1. CASE \E i \in DOMAIN list : list[i] = h
    <3>1. PICK i \in DOMAIN list : list[i] = h
      BY <2>1
    <3>2. \A j \in DOMAIN list : list[j] = h => j = i
      BY <1>2, <2>0, <3>1 DEF SlotInv, ListsHold
    <3>3. \A c \in Callers : \A j \in Pending[c] : batch[c][j] # h
      BY <1>2, <2>0, <3>1 DEF SlotInv, PendingNotListed
    <3>4. {j \in DOMAIN list : list[j] = h} = {i}
      BY <3>1, <3>2
    <3>5. \A c \in Callers : {<<c, j>> : j \in {j \in Pending[c] : batch[c][j] = h}} = {}
      BY <3>3
    <3>6. {<<"list", j>> : j \in {j \in DOMAIN list : list[j] = h}} = {<<"list", i>>}
      BY <3>4
    <3>7. Slots(h) = {<<"list", i>>}
      BY <3>5, <3>6 DEF Slots
    <3> QED  BY <3>7
  <2>2. CASE ~ \E i \in DOMAIN list : list[i] = h
    <3>1. PICK c \in Callers : \E i \in Pending[c] : batch[c][i] = h
      BY <1>2, <2>2 DEF SlotInv, HeldSomewhere
    <3>2. PICK i \in Pending[c] : batch[c][i] = h
      BY <3>1
    <3>3. \A d \in Callers : \A j \in Pending[d] : batch[d][j] = h => d = c
      BY <1>2, <3>2 DEF SlotInv, PendingDisjoint
    <3>4. \A j \in Pending[c] : batch[c][j] = h => j = i
      BY <1>2, <3>2 DEF SlotInv, PendingHeld, BatchDistinct
    <3>5. {j \in Pending[c] : batch[c][j] = h} = {i}
      BY <3>2, <3>4
    <3>6. {<<c, j>> : j \in {j \in Pending[c] : batch[c][j] = h}} = {<<c, i>>}
      BY <3>5
    <3>7. \A d \in Callers \ {c} : {<<d, j>> : j \in {j \in Pending[d] : batch[d][j] = h}} = {}
      BY <3>3
    <3>8. {<<"list", j>> : j \in {j \in DOMAIN list : list[j] = h}} = {}
      BY <2>2
    <3>9. Slots(h) = {<<c, i>>}
      BY <3>6, <3>7, <3>8 DEF Slots
    <3> QED  BY <3>9
  <2> QED  BY <2>1, <2>2
<1>3. IInv => HeldInOneSlot
  BY <1>1, <1>2, FS_EmptySet, FS_Singleton DEF IInv, HeldInOneSlot
<1> QED  BY <1>3, Invariance, PTL

-----------------------------------------------------------------------------
(* The order of a batch.  It is the order of the registrations that makes   *)
(* the sort's tie-break mean something, so this invariant adds to IInv what *)
(* the history variable regNo says of lists and batches.                    *)

\* Numbers are given out once, in increasing order, to hooks that were accepted.
Numbered ==
    /\ \A h \in Hooks : closure[h] = "unregistered" => regNo[h] = 0
    /\ \A h \in Hooks : regNo[h] <= Registrations

ListsOrdered ==
    \A p \in Phases : \A i, j \in DOMAIN registry[p] :
        i < j => regNo[registry[p][i]] < regNo[registry[p][j]]

BatchesOrdered ==
    \A c \in Callers : \A i, j \in DOMAIN batch[c] : i < j => Prior(batch[c][i], batch[c][j])

BatchKnown ==
    \A c \in Callers : \A i \in DOMAIN batch[c] : closure[batch[c][i]] # "unregistered"

\* A caller that has never invoked anything has no batch.
IdleEmpty == \A c \in Callers : pc[c] = "idle" => batch[c] = <<>>

OrderInv == Numbered /\ ListsOrdered /\ BatchesOrdered /\ BatchKnown /\ IdleEmpty

\* A closure that was ever registered stays so.
LEMMA KnownStays ==
  ASSUME IInv, [Next]_vars, NEW h \in Hooks, closure[h] # "unregistered"
  PROVE  closure'[h] # "unregistered"
<1> USE DEF IInv, TypeOK
<1>1. ASSUME NEW c \in Callers, NEW v, Judge(c, v)
      PROVE  closure'[h] # "unregistered"
  BY <1>1 DEF Judge
<1>2. ASSUME NEW c \in Callers, SpawnHook(c)
      PROVE  closure'[h] # "unregistered"
  BY <1>2 DEF SpawnHook
<1>3. ASSUME NEW g \in Hooks, Register(g)
      PROVE  closure'[h] # "unregistered"
  BY <1>3 DEF Register, RegisterRefused, RegisterAccepted
<1>4. ASSUME NEW g \in Hooks, NEW r \in {"ok", "err"}, HookReturns(g, r)
      PROVE  closure'[h] # "unregistered"
  BY <1>4 DEF HookReturns
<1>5. CASE ResetHooks
  BY <1>5 DEF ResetHooks
<1>6. CASE closure' = closure
  BY <1>6
<1> QED
  BY <1>1, <1>2, <1>3, <1>4, <1>5, <1>6
     DEF Next, Receive, TimeOut, TakeSorted, FinishOk, vars

\* A registration gives out the next number.
LEMMA RegisterKeepsOrder ==
  ASSUME IInv, IInv', OrderInv, NEW h \in Hooks, RegisterAccepted(h)
  PROVE  OrderInv'
<1> DEFINE p == PhaseOf[h]
<1>1. /\ UNCHANGED batch
      /\ closure[h] = "unregistered" /\ closure' = [closure EXCEPT ![h] = "held"]
      /\ p \in Phases /\ registry' = [registry EXCEPT ![p] = Append(registry[p], h)]
      /\ regNo' = [regNo EXCEPT ![h] = Registrations + 1]
  BY HookAssumption DEF RegisterAccepted, callVars
<1>2. /\ regNo \in [Hooks -> Nat] /\ regNo' \in [Hooks -> Nat]
      /\ closure \in [Hooks -> ClosureStates]
      /\ registry \in [Phases -> Seq(Hooks)] /\ batch \in [Callers -> Seq(Hooks)]
  BY DEF IInv, TypeOK
<1>3. Registrations \in Nat /\ Registrations' = Registrations + 1
  <2> DEFINE Old == {g \in Hooks : regNo[g] > 0}
             New == {g \in Hooks : regNo'[g] > 0}
  <2>1. IsFiniteSet(Old) /\ Cardinality(Old) \in Nat
    BY HookAssumption, FS_Subset, FS_CardinalityType
  <2>2. h \notin Old
    BY <1>1 DEF OrderInv, Numbered
  <2>3. New = Old \cup {h}
    <3>1. Registrations \in Nat
      BY <2>1 DEF Registrations
    <3>2. regNo'[h] > 0 /\ \A g \in Hooks \ {h} : regNo'[g] = regNo[g]
      BY <1>1, <1>2, <3>1
    <3> QED  BY <3>2
  <2>4. Cardinality(New) = Cardinality(Old) + 1
    BY <2>1, <2>2, <2>3, FS_AddElement
  <2> QED  BY <2>1, <2>4 DEF Registrations
<1> DEFINE n == Registrations
<1>4. n \in Nat /\ Registrations' = n + 1 /\ regNo' = [regNo EXCEPT ![h] = n + 1]
  BY <1>1, <1>3
<1>5. \A g \in Hooks : regNo[g] <= n
  BY DEF OrderInv, Numbered
<1> HIDE DEF n
<1>6. regNo'[h] = n + 1 /\ \A g \in Hooks \ {h} : regNo'[g] = regNo[g]
  BY <1>2, <1>4
<1>7. Numbered'
  <2>1. \A g \in Hooks : closure'[g] = "unregistered" => regNo'[g] = 0
    BY <1>1, <1>2, <1>6 DEF OrderInv, Numbered
  <2>2. \A g \in Hooks : regNo'[g] <= n + 1
    BY <1>2, <1>4, <1>5, <1>6
  <2> QED  BY <1>4, <2>1, <2>2 DEF Numbered
<1>8. ListsOrdered'
  <2> SUFFICES ASSUME NEW q \in Phases,
                      NEW i \in DOMAIN registry'[q], NEW j \in DOMAIN registry'[q], i < j
               PROVE  regNo'[registry'[q][i]] < regNo'[registry'[q][j]]
    BY DEF ListsOrdered
  <2>1. \A k \in DOMAIN registry[q] : registry[q][k] \in Hooks \ {h}
    <3>1. \A k \in DOMAIN registry[q] : registry[q][k] \in Hooks
      BY <1>2
    <3> QED  BY <1>1, <3>1 DEF IInv, SlotInv, ListsHold
  <2>2. CASE q # p
    <3>1. registry'[q] = registry[q]
      BY <1>1, <1>2, <2>2
    <3> QED  BY <1>6, <2>1, <3>1 DEF OrderInv, ListsOrdered
  <2>3. CASE q = p
    <3>1. registry'[q] = Append(registry[p], h)
      BY <1>1, <1>2, <2>3
    <3>2. /\ i \in DOMAIN registry[p] /\ registry'[q][i] = registry[p][i]
          /\ \/ j \in DOMAIN registry[p] /\ registry'[q][j] = registry[p][j]
             \/ registry'[q][j] = h
      BY <1>1, <1>2, <2>3, <3>1
    <3>3. CASE registry'[q][j] = h
      BY <1>2, <1>4, <1>5, <1>6, <2>1, <2>3, <3>2, <3>3
    <3>4. CASE j \in DOMAIN registry[p] /\ registry'[q][j] = registry[p][j]
      BY <1>6, <2>1, <2>3, <3>2, <3>4 DEF OrderInv, ListsOrdered
    <3> QED  BY <3>2, <3>3, <3>4
  <2> QED  BY <2>2, <2>3
<1>9. BatchKnown'
  <2>1. \A c \in Callers : \A i \in DOMAIN batch[c] : batch[c][i] \in Hooks
    BY <1>2
  <2> QED  BY <1>1, <1>2, <2>1 DEF OrderInv, BatchKnown
<1>10. BatchesOrdered'
  <2> SUFFICES ASSUME NEW c \in Callers, NEW i \in DOMAIN batch[c], NEW j \in DOMAIN batch[c],
                      i < j
               PROVE  \/ Order[batch[c][i]] < Order[batch[c][j]]
                      \/ /\ Order[batch[c][i]] = Order[batch[c][j]]
                         /\ regNo'[batch[c][i]] < regNo'[batch[c][j]]
    BY <1>1 DEF BatchesOrdered, Prior
  <2>1. batch[c][i] \in Hooks \ {h} /\ batch[c][j] \in Hooks \ {h}
    <3>1. batch[c][i] \in Hooks /\ batch[c][j] \in Hooks
      BY <1>2
    <3> QED  BY <1>1, <3>1 DEF OrderInv, BatchKnown
  <2> QED  BY <1>6, <2>1 DEF OrderInv, BatchesOrdered, Prior
<1>11. IdleEmpty'
  BY DEF OrderInv, IdleEmpty, RegisterAccepted, callVars
<1> QED  BY <1>7, <1>8, <1>9, <1>10, <1>11 DEF OrderInv

\* The sort turns a list in the order of registration into a batch in order.
LEMMA TakeSortedKeepsOrder ==
  ASSUME IInv, OrderInv, NEW c \in Callers, NEW p \in Phases, TakeSorted(c, p)
  PROVE  OrderInv'
<1> DEFINE s == registry[p]
           t == StableSort(s)
<1>1. /\ UNCHANGED <<regNo, closure>>
      /\ batch' = [batch EXCEPT ![c] = t] /\ registry' = [registry EXCEPT ![p] = <<>>]
  BY DEF TakeSorted
<1>2. s \in Seq(Hooks) /\ \A k \in DOMAIN s : s[k] \in Hooks
  BY DEF IInv, TypeOK
<1>3. t \in Seq(Hooks) /\ DOMAIN t = DOMAIN s
  BY <1>2, StableSortSorts
<1>4. PICK f \in Bijection(DOMAIN s, DOMAIN s) :
         /\ \A k \in DOMAIN s : t[k] = s[f[k]]
         /\ \A k, m \in DOMAIN s : k < m => Precedes(s, f[k], f[m])
  BY <1>2, StableSortSorts
<1>5. \A k \in DOMAIN s : f[k] \in DOMAIN s
  BY DEF Bijection, Injection
<1>6. \A k, m \in DOMAIN t : k < m => Prior(t[k], t[m])
  <2> SUFFICES ASSUME NEW k \in DOMAIN s, NEW m \in DOMAIN s, k < m
               PROVE  Prior(s[f[k]], s[f[m]])
    BY <1>3, <1>4
  <2>1. Precedes(s, f[k], f[m]) /\ f[k] \in DOMAIN s /\ f[m] \in DOMAIN s
    BY <1>4, <1>5
  <2> HIDE DEF s
  <2>2. f[k] < f[m] => regNo[s[f[k]]] < regNo[s[f[m]]]
    BY <2>1 DEF OrderInv, ListsOrdered, s
  <2> QED  BY <2>1, <2>2 DEF Precedes, Prior
<1>7. \A k \in DOMAIN t : t[k] \in Hooks /\ closure[t[k]] = "held"
  BY <1>2, <1>3, <1>4, <1>5 DEF IInv, SlotInv, ListsHold
<1> HIDE DEF s, t
<1>8. batch'[c] = t /\ \A d \in Callers \ {c} : batch'[d] = batch[d]
  BY <1>1 DEF IInv, TypeOK
<1>9. Numbered'
  BY <1>1 DEF OrderInv, Numbered, Registrations
<1>10. ListsOrdered'
  <2> SUFFICES ASSUME NEW q \in Phases,
                      NEW i \in DOMAIN registry'[q], NEW j \in DOMAIN registry'[q], i < j
               PROVE  regNo[registry'[q][i]] < regNo[registry'[q][j]]
    BY <1>1 DEF ListsOrdered
  <2>1. q # p /\ registry'[q] = registry[q]
    BY <1>1 DEF IInv, TypeOK
  <2> QED  BY <2>1 DEF OrderInv, ListsOrdered
<1>11. BatchesOrdered'
  <2> SUFFICES ASSUME NEW d \in Callers, NEW i \in DOMAIN batch'[d], NEW j \in DOMAIN batch'[d],
                      i < j
               PROVE  \/ Order[batch'[d][i]] < Order[batch'[d][j]]
                      \/ /\ Order[batch'[d][i]] = Order[batch'[d][j]]
                         /\ regNo[batch'[d][i]] < regNo[batch'[d][j]]
    BY <1>1 DEF BatchesOrdered, Prior
  <2>1. CASE d = c
    BY <1>6, <1>8, <2>1 DEF Prior
  <2>2. CASE d # c
    BY <1>8, <2>2 DEF OrderInv, BatchesOrdered, Prior
  <2> QED  BY <2>1, <2>2
<1>12. BatchKnown'
  BY <1>1, <1>7, <1>8 DEF OrderInv, BatchKnown
<1>13. IdleEmpty'
  BY DEF OrderInv, IdleEmpty, TakeSorted, IInv, TypeOK
<1> QED  BY <1>9, <1>10, <1>11, <1>12, <1>13 DEF OrderInv

\* Every other step leaves numbers and batches alone and can only empty the lists.
LEMMA OrderFrame ==
  ASSUME IInv, [Next]_vars, OrderInv, UNCHANGED <<regNo, batch>>,
         registry' = registry \/ \A q \in Phases : registry'[q] = <<>>,
         \A c \in Callers : pc'[c] = "idle" => pc[c] = "idle"
  PROVE  OrderInv'
<1>1. \A c \in Callers : \A i \in DOMAIN batch[c] : batch[c][i] \in Hooks
  BY DEF IInv, TypeOK
<1>2. Numbered'
  <2>1. \A h \in Hooks : closure'[h] = "unregistered" => closure[h] = "unregistered"
    BY KnownStays
  <2> QED  BY <2>1 DEF OrderInv, Numbered, Registrations
<1>3. ListsOrdered'
  BY DEF OrderInv, ListsOrdered
<1>4. BatchesOrdered'
  BY DEF OrderInv, BatchesOrdered, Prior
<1>5. BatchKnown'
  BY <1>1, KnownStays DEF OrderInv, BatchKnown
<1>6. IdleEmpty'
  BY DEF OrderInv, IdleEmpty
<1> QED  BY <1>2, <1>3, <1>4, <1>5, <1>6 DEF OrderInv

\* Every step keeps lists and batches in order.
LEMMA NextOrderInv == IInv /\ OrderInv /\ [Next]_vars => OrderInv'
<1> SUFFICES ASSUME IInv, IInv', OrderInv, [Next]_vars
             PROVE  OrderInv'
  BY NextIInv
<1>1. ASSUME NEW h \in Hooks, Register(h)
      PROVE  OrderInv'
  <2>1. CASE RegisterRefused(h)
    BY <2>1, OrderFrame DEF RegisterRefused, callVars
  <2>2. CASE RegisterAccepted(h)
    BY <2>2, RegisterKeepsOrder
  <2> QED  BY <1>1, <2>1, <2>2 DEF Register
<1>2. ASSUME NEW h \in Hooks, NEW r \in {"ok", "err"}, HookReturns(h, r)
      PROVE  OrderInv'
  BY <1>2, OrderFrame DEF HookReturns, callVars
<1>3. ASSUME NEW c \in Callers, NEW v, Judge(c, v)
      PROVE  OrderInv'
  BY <1>3, OrderFrame DEF Judge, IInv, TypeOK
<1>4. ASSUME NEW c \in Callers, SpawnHook(c) \/ FinishOk(c)
      PROVE  OrderInv'
  BY <1>4, OrderFrame DEF SpawnHook, FinishOk, IInv, TypeOK
<1>5. CASE ResetHooks
  <2>1. \A q \in Phases : registry'[q] = <<>>
    BY <1>5 DEF ResetHooks
  <2> QED  BY <1>5, <2>1, OrderFrame DEF ResetHooks, callVars
<1>6. CASE UNCHANGED vars
  BY <1>6, OrderFrame DEF vars
<1> QED
  BY <1>1, <1>2, <1>3, <1>4, <1>5, <1>6, TakeSortedKeepsOrder DEF Next, Receive, TimeOut

\* Empty lists and batches are in order.
LEMMA InitOrderInv == Init => OrderInv
<1> SUFFICES ASSUME Init
             PROVE  OrderInv
  OBVIOUS
<1>1. Registrations = 0
  <2>1. {h \in Hooks : regNo[h] > 0} = {}
    BY DEF Init
  <2> QED  BY <2>1, FS_EmptySet DEF Registrations
<1> QED  BY <1>1 DEF Init, OrderInv, Numbered, ListsOrdered, BatchesOrdered, BatchKnown, IdleEmpty

\* When a hook of a batch has been started, those before it have been judged.
LEMMA PriorJudged ==
  ASSUME IInv, OrderInv, NEW c \in Callers, NEW g \in Hooks, NEW h \in Hooks,
         InBatch(c, g), InBatch(c, h), Prior(g, h), Started(h)
  PROVE  verdict[g] # "none"
<1>1. PICK i \in DOMAIN batch[c] : batch[c][i] = g
  BY DEF InBatch
<1>2. PICK j \in DOMAIN batch[c] : batch[c][j] = h
  BY DEF InBatch
<1>3. i \in Nat /\ j \in Nat /\ pos[c] \in Nat /\ Len(batch[c]) \in Nat
      /\ DOMAIN batch[c] = 1 .. Len(batch[c])
  BY DEF IInv, TypeOK
<1>4. /\ Order[g] \in Int /\ Order[h] \in Int /\ regNo[g] \in Int /\ regNo[h] \in Int
  BY HookAssumption DEF IInv, TypeOK
<1>5. i < j
  <2>1. j < i => Prior(h, g)
    BY <1>1, <1>2 DEF OrderInv, BatchesOrdered
  <2>2. ~Prior(h, g) /\ g # h
    BY <1>4 DEF Prior
  <2> QED  BY <1>1, <1>2, <1>3, <2>1, <2>2
<1>6. j <= pos[c]
  <2>1. j \notin Pending[c]
    BY <1>2 DEF IInv, SlotInv, PendingHeld, Started
  <2>2. CASE pc[c] \in {"loop", "wait"}
    BY <1>3, <2>1, <2>2 DEF Pending
  <2>3. CASE pc[c] = "ok"
    BY <1>2, <1>3, <2>3 DEF IInv, ProgressInv, AtOk
  <2>4. CASE pc[c] = "err"
    BY <1>2, <1>3, <2>4 DEF IInv, ProgressInv, AtErr, Started
  <2>5. pc[c] # "idle"
    BY <1>2 DEF IdleEmpty, OrderInv
  <2> QED  BY <2>2, <2>3, <2>4, <2>5 DEF IInv, TypeOK
<1>7. verdict[g] # "none"
  BY <1>1, <1>3, <1>5, <1>6 DEF IInv, ProgressInv, Answered
<1> QED
  BY <1>7

\* For any hooks, orders, callers and limits: the hooks of one invocation run in the
\* order of their order option and then of their registration, and do not overlap
\* unless one ran out of time.
THEOREM HooksRunInOrder == Spec => []RunsInOrder
<1>1. ASSUME IInv, OrderInv
      PROVE  RunsInOrder
  <2> SUFFICES ASSUME NEW c \in Callers, NEW g \in Hooks, NEW h \in Hooks,
                      InBatch(c, g), InBatch(c, h), Prior(g, h), Started(h)
               PROVE  closure[g] \in {"ok", "err"} \/ verdict[g] = "timeout"
    BY DEF RunsInOrder
  <2>1. verdict[g] # "none"
    BY <1>1, PriorJudged
  <2> QED  BY <1>1, <2>1 DEF IInv, TypeOK, Verdicts, ProgressInv, VerdictTrue
<1> QED  BY <1>1, Invariance, InitOrderInv, NextOrderInv, PTL DEF Spec
-----------------------------------------------------------------------------
(* The manager below.                                                      *)

\* A step of the life cycle is a step of the hook manager or leaves its variables alone.
LEMMA LifeNextIsNext == [LifeNext]_allVars => [Next]_vars
<1> SUFFICES ASSUME [LifeNext]_allVars
             PROVE  Next \/ UNCHANGED vars
  OBVIOUS
<1>1. ASSUME NEW h \in Hooks, UserRegister(h)
      PROVE  Next
  BY <1>1 DEF UserRegister, Next
<1>2. ASSUME NEW h \in Hooks, NEW r \in {"ok", "err"}, HookDone(h, r)
      PROVE  Next
  BY <1>2 DEF HookDone, Next
<1>3. ASSUME NEW c \in Callers, RegisterBuiltin(c)
      PROVE  Next
  <2>1. \A k \in DOMAIN Builtin : Builtin[k] \in Hooks
    BY ServerAssumption
  <2> QED  BY <1>3, <2>1 DEF RegisterBuiltin, Next
<1>4. ASSUME NEW c \in Callers, InvokeStart(c) \/ InvokeStop(c)
      PROVE  Next
  BY <1>4 DEF InvokeStart, InvokeStop, Phases, Next
<1>5. ASSUME NEW c \in Callers, HookLoop(c)
      PROVE  Next
  BY <1>5 DEF HookLoop, CallerSteps, Next
<1>6. ASSUME NEW c \in Callers, BeginInit(c) \/ CachedInit(c) \/ EndInit(c) \/ EndStop(c)
      PROVE  UNCHANGED vars
  BY <1>6 DEF BeginInit, CachedInit, EndInit, EndStop
<1>7. ASSUME NEW c \in Runners, NEW r \in {"ok", "err"},
             TakeSignal(c) \/ StopServer(c, r) \/ RunEnds(c, r) \/ Drained(c, r)
      PROVE  UNCHANGED vars
  BY <1>7 DEF TakeSignal, StopServer, RunEnds, Drained
<1>8. ASSUME NEW c \in Manuals, ManualStop(c)
      PROVE  UNCHANGED vars
  BY <1>8 DEF ManualStop
<1>9. CASE Signal
  BY <1>9 DEF Signal
<1>10. CASE UNCHANGED allVars
  BY <1>10 DEF allVars
<1> QED
  BY <1>1, <1>2, <1>3, <1>4, <1>5, <1>6, <1>7, <1>8, <1>9, <1>10 DEF LifeNext

\* The steps of the manager in which no caller takes a list.
Turn == \/ \E h \in Hooks : Register(h)
        \/ \E h \in Hooks, r \in {"ok", "err"} : HookReturns(h, r)
        \/ \E c \in Callers : CallerSteps(c)

\* What they leave as it was: phases, batches, closures that were dropped.  A hook is
\* started, and judged, by a caller that has it in its batch.
TurnKeeps ==
    /\ UNCHANGED <<phase, batch>>
    /\ \A d \in Callers :
           /\ pc'[d] \in {"loop", "wait"} => pc[d] \in {"loop", "wait"}
           /\ pc'[d] = "idle" => pc[d] = "idle"
    /\ \A h \in Hooks :
           /\ closure[h] = "dropped" => closure'[h] = "dropped"
           /\ Started(h)' => Started(h) \/ \E c \in Callers : pc[c] = "loop" /\ InBatch(c, h)
           /\ verdict'[h] # verdict[h] => \E c \in Callers : pc[c] = "wait" /\ InBatch(c, h)

\* What a step of the manager in which no list is taken leaves as it was.
LEMMA TurnFrame == IInv /\ Turn => TurnKeeps
<1> SUFFICES ASSUME IInv, Turn
             PROVE  TurnKeeps
  OBVIOUS
<1> USE DEF IInv, TypeOK
<1>1. ASSUME NEW h \in Hooks, Register(h)
      PROVE  /\ UNCHANGED <<phase, batch, pc, verdict>>
             /\ closure[h] = "unregistered"
             /\ \A g \in Hooks : closure'[g] = closure[g]
                                 \/ (g = h /\ closure'[g] \in {"held", "dropped"})
  BY <1>1 DEF Register, RegisterRefused, RegisterAccepted, callVars
<1>2. ASSUME NEW h \in Hooks, NEW r \in {"ok", "err"}, HookReturns(h, r)
      PROVE  /\ UNCHANGED <<phase, batch, pc, verdict>>
             /\ closure[h] = "running"
             /\ \A g \in Hooks : closure'[g] = closure[g] \/ g = h
  BY <1>2 DEF HookReturns, callVars
<1>3. ASSUME NEW c \in Callers, SpawnHook(c)
      PROVE  /\ UNCHANGED <<phase, batch, verdict>>
             /\ pc[c] = "loop" /\ pc' = [pc EXCEPT ![c] = "wait"]
             /\ Current(c) \in Hooks /\ InBatch(c, Current(c)) /\ closure[Current(c)] = "held"
             /\ \A g \in Hooks : closure'[g] = closure[g] \/ g = Current(c)
  <2>1. pos[c] \in DOMAIN batch[c] /\ pc[c] = "loop"
    BY <1>3 DEF SpawnHook
  <2>2. pos[c] \in Pending[c]
    BY <2>1 DEF Pending
  <2>3. Current(c) \in Hooks /\ InBatch(c, Current(c)) /\ closure[Current(c)] = "held"
    BY <2>1, <2>2 DEF InBatch, Current, SlotInv, PendingHeld
  <2> QED  BY <1>3, <2>1, <2>3 DEF SpawnHook
<1>4. ASSUME NEW c \in Callers, NEW v, Judge(c, v), pc[c] = "wait"
      PROVE  /\ UNCHANGED <<phase, batch>>
             /\ Current(c) \in Hooks /\ InBatch(c, Current(c))
             /\ pc' \in {[pc EXCEPT ![c] = "loop"], [pc EXCEPT ![c] = "err"]}
             /\ \A g \in Hooks : closure'[g] \in {closure[g], "dropped"}
             /\ \A g \in Hooks : verdict'[g] = verdict[g] \/ g = Current(c)
  <2>1. pos[c] \in DOMAIN batch[c]
    BY <1>4 DEF ProgressInv, Waiting
  <2>2. Current(c) \in Hooks /\ InBatch(c, Current(c))
    BY <2>1 DEF InBatch, Current
  <2> QED  BY <1>4, <2>2 DEF Judge
<1>5. ASSUME NEW c \in Callers, FinishOk(c)
      PROVE  UNCHANGED <<phase, batch, closure, verdict>> /\ pc' = [pc EXCEPT ![c] = "ok"]
  BY <1>5 DEF FinishOk
<1>6. ASSUME NEW h \in Hooks, Register(h)
      PROVE  TurnKeeps
  BY <1>1, <1>6 DEF Started, TurnKeeps
<1>7. ASSUME NEW h \in Hooks, NEW r \in {"ok", "err"}, HookReturns(h, r)
      PROVE  TurnKeeps
  BY <1>2, <1>7 DEF Started, TurnKeeps
<1>8. ASSUME NEW c \in Callers, SpawnHook(c)
      PROVE  TurnKeeps
  BY <1>3, <1>8 DEF Started, TurnKeeps
<1>9. ASSUME NEW c \in Callers, NEW v, Judge(c, v), pc[c] = "wait"
      PROVE  TurnKeeps
  <2>1. \A d \in Callers :
          /\ pc'[d] \in {"loop", "wait"} => pc[d] \in {"loop", "wait"}
          /\ pc'[d] = "idle" => pc[d] = "idle"
    BY <1>4, <1>9
  <2>2. \A h \in Hooks : closure[h] = "dropped" => closure'[h] = "dropped"
    BY <1>4, <1>9
  <2>3. \A h \in Hooks : Started(h)' => Started(h)
    BY <1>4, <1>9 DEF Started
  <2> QED  BY <1>4, <1>9, <2>1, <2>2, <2>3 DEF TurnKeeps
<1>10. ASSUME NEW c \in Callers, FinishOk(c)
      PROVE  TurnKeeps
  BY <1>5, <1>10 DEF Started, TurnKeeps
<1> QED  BY <1>6, <1>7, <1>8, <1>9, <1>10 DEF Turn, CallerSteps, Receive, TimeOut

-----------------------------------------------------------------------------
(* The inductive invariant.                                                *)

Before == {"idle", "register", "start"}
After == {"serving", "stopping", "draining", "using", "closing", "stop"}

\* One caller fills the cell; the others wait, or act on what is in it.
InitInv ==
    \A c \in Callers :
        /\ stage[c] \in {"register", "start"} =>
               /\ initResult = "busy"
               /\ \A d \in Callers : stage[d] \in {"register", "start"} => c = d
        /\ stage[c] \in After => initResult = "ok"
        /\ stage[c] = "returned" =>
               initResult = IF phase[c] = "stop" \/ (c \in Runners /\ server[c] # "idle")
                            THEN "ok" ELSE "err"

\* A caller invokes hooks at two of its stages only, for the phase of that stage.
PhaseInv ==
    \A c \in Callers :
        /\ pc[c] \in {"loop", "wait"} => stage[c] \in {"start", "stop"}
        /\ stage[c] \in Before => phase[c] = "start"
        /\ stage[c] = "stop" => phase[c] = "stop"
        /\ phase[c] = "stop" => stage[c] \in {"stop", "returned"}

\* The run future exists from select! to the end of the drain.
ServerInv ==
    \A c \in Runners :
        /\ stage[c] \in Before <=> server[c] = "idle" /\ stage[c] # "returned"
        /\ server[c] = "running" => stage[c] \in {"serving", "stopping"}
        /\ server[c] = "told" => stage[c] = "draining"

\* A batch is of its caller's phase.  A stop hook that was started is still in the
\* batch it was started from, a start hook in that of init() until init() has ended.
BatchInv ==
    /\ \A c \in Callers : \A i \in DOMAIN batch[c] : PhaseOf[batch[c][i]] = phase[c]
    /\ \A h \in Hooks : Started(h) =>
           IF PhaseOf[h] = "stop"
           THEN \E d \in Callers : phase[d] = "stop" /\ InBatch(d, h)
           ELSE initResult \in {"ok", "err"} \/ \E d \in Callers : stage[d] = "start" /\ InBatch(d, h)

\* What init() has still to run, and what it has run.
StartInv ==
    /\ \A c \in Callers : stage[c] = "start" =>
           \A h \in StartHooks \cap BuiltinHooks : InBatch(c, h) \/ closure[h] = "dropped"
    /\ initResult = "ok" => \A h \in StartHooks :
           /\ h \in BuiltinHooks => verdict[h] # "none" \/ closure[h] = "dropped"
           /\ Must[h] => verdict[h] \in {"none", "ok"}

LInv == LifeTypeOK /\ InitInv /\ PhaseInv /\ ServerInv /\ BatchInv /\ StartInv

-----------------------------------------------------------------------------
(* Each step preserves the invariant.                                      *)

\* The initial state has all the parts of the invariant.
LEMMA InitLInv == LifeInit => LInv
<1> SUFFICES ASSUME LifeInit, TypeOK
             PROVE  LInv
  BY InitType DEF LifeInit
<1> USE ServerAssumption DEF LifeInit
<1>1. LifeTypeOK
  BY DEF LifeTypeOK, Stages
<1>2. InitInv /\ PhaseInv /\ ServerInv
  BY DEF InitInv, PhaseInv, ServerInv, Init, Before, After
<1>3. BatchInv /\ StartInv
  BY DEF BatchInv, StartInv, Init, Started
<1> QED  BY <1>1, <1>2, <1>3 DEF LInv

\* Every step keeps the types of the life cycle's variables.
LEMMA NextLifeType == IInv /\ LInv /\ [LifeNext]_allVars => LifeTypeOK'
<1> SUFFICES ASSUME LifeTypeOK, TypeOK', [LifeNext]_allVars
             PROVE  LifeTypeOK'
  BY LifeNextIsNext, NextIInv DEF IInv, LInv
<1> USE ServerAssumption DEF LifeTypeOK, Stages
<1>1. ASSUME NEW c \in Callers, NEW r \in {"ok", "err"}, AfterInit(c, r)
      PROVE  /\ stage' \in [Callers -> Stages]
             /\ server' \in [Runners -> {"idle", "running", "told", "ended", "dropped"}]
             /\ result' \in [Callers -> {"none", "ok", "err"}]
  BY <1>1 DEF AfterInit
<1>2. ASSUME NEW h \in Hooks, UserRegister(h)
      PROVE  LifeTypeOK'
  BY <1>2 DEF UserRegister, serverVars
<1>3. ASSUME NEW h \in Hooks, NEW r \in {"ok", "err"}, HookDone(h, r)
      PROVE  LifeTypeOK'
  <2>1. store' \in [Modules -> {"none", "open", "closed"}]
    BY <1>3 DEF HookDone, Opened, Closed
  <2> QED  BY <1>3, <2>1 DEF HookDone
<1>4. ASSUME NEW c \in Callers, BeginInit(c)
      PROVE  LifeTypeOK'
  BY <1>4 DEF BeginInit
<1>5. ASSUME NEW c \in Callers, CachedInit(c)
      PROVE  LifeTypeOK'
  BY <1>1, <1>5 DEF CachedInit
<1>6. ASSUME NEW c \in Callers, RegisterBuiltin(c) \/ HookLoop(c)
      PROVE  LifeTypeOK'
  BY <1>6 DEF RegisterBuiltin, HookLoop, serverVars
<1>7. ASSUME NEW c \in Callers, InvokeStart(c) \/ InvokeStop(c)
      PROVE  LifeTypeOK'
  BY <1>7 DEF InvokeStart, InvokeStop
<1>8. ASSUME NEW c \in Callers, EndInit(c)
      PROVE  LifeTypeOK'
  BY <1>1, <1>8 DEF EndInit
<1>9. ASSUME NEW c \in Runners, TakeSignal(c)
      PROVE  LifeTypeOK'
  BY <1>9 DEF TakeSignal
<1>10. ASSUME NEW c \in Runners, NEW r \in {"ok", "err"},
              StopServer(c, r) \/ RunEnds(c, r) \/ Drained(c, r)
       PROVE  LifeTypeOK'
  BY <1>10 DEF StopServer, RunEnds, Drained
<1>11. ASSUME NEW c \in Manuals, ManualStop(c)
       PROVE  LifeTypeOK'
  BY <1>11 DEF ManualStop, Manuals
<1>12. ASSUME NEW c \in Callers, EndStop(c)
       PROVE  LifeTypeOK'
  BY <1>12 DEF EndStop
<1>13. CASE Signal
  BY <1>13 DEF Signal
<1>14. CASE UNCHANGED allVars
  BY <1>14 DEF allVars, serverVars
<1> QED
  BY <1>2, <1>3, <1>4, <1>5, <1>6, <1>7, <1>8, <1>9, <1>10, <1>11, <1>12, <1>13, <1>14 DEF LifeNext

\* A turn of the manager moves no caller through its life cycle.
LEMMA TurnKeepsLife ==
  ASSUME IInv, LInv, Turn, UNCHANGED <<initResult, stage, server>>
  PROVE  InitInv' /\ PhaseInv' /\ ServerInv' /\ BatchInv' /\ StartInv'
<1> USE TurnFrame DEF TurnKeeps, LInv
<1>1. InitInv' /\ ServerInv'
  BY DEF InitInv, ServerInv
<1>2. PhaseInv'
  BY DEF PhaseInv
<1>3. BatchInv'
  <2>1. \A c \in Callers : \A h \in Hooks : InBatch(c, h) => PhaseOf[h] = phase[c]
    BY DEF BatchInv, InBatch
  <2>2. ASSUME NEW h \in Hooks, Started(h)'
        PROVE  IF PhaseOf[h] = "stop"
               THEN \E d \in Callers : phase[d] = "stop" /\ InBatch(d, h)
               ELSE initResult \in {"ok", "err"}
                    \/ \E d \in Callers : stage[d] = "start" /\ InBatch(d, h)
    <3>1. CASE Started(h)
      BY <3>1 DEF BatchInv
    <3>2. ASSUME NEW c \in Callers, pc[c] = "loop", InBatch(c, h)
          PROVE  (PhaseOf[h] = "stop" /\ phase[c] = "stop")
                 \/ (PhaseOf[h] # "stop" /\ stage[c] = "start")
      BY <2>1, <3>2 DEF PhaseInv, Before
    <3> QED  BY <2>2, <3>1, <3>2
  <2> QED  BY <2>2 DEF BatchInv, InBatch
<1>4. StartInv'
  <2>1. \A c \in Callers : \A h \in Hooks : InBatch(c, h)' <=> InBatch(c, h)
    BY DEF InBatch
  <2>2. ASSUME initResult = "ok", NEW h \in StartHooks
        PROVE  verdict'[h] = verdict[h]
    <3>1. \A c \in Callers : pc[c] = "wait" => phase[c] = "stop"
      BY <2>2 DEF PhaseInv, InitInv
    <3>2. \A c \in Callers : pc[c] = "wait" => ~InBatch(c, h)
      BY <3>1 DEF BatchInv, InBatch, StartHooks
    <3> QED  BY <3>2 DEF StartHooks
  <2> QED  BY <2>1, <2>2 DEF StartInv, StartHooks
<1> QED  BY <1>1, <1>2, <1>3, <1>4

\* A step that leaves the manager alone and does not end init() disturbs only what is
\* said of stages.
LEMMA StillKeepsBatches ==
  ASSUME LInv, UNCHANGED vars, \A c \in Callers : stage[c] = "start" <=> stage'[c] = "start",
         initResult' = initResult \/ (initResult = "unset" /\ initResult' = "busy")
  PROVE  BatchInv' /\ StartInv'
<1>1. BatchInv'
  BY DEF vars, LInv, BatchInv, InBatch, Started
<1>2. StartInv'
  BY DEF vars, LInv, StartInv, InBatch
<1> QED  BY <1>1, <1>2

\* The cell is filled: by its first caller, which goes on with what it filled in, or
\* for one that comes later.
LEMMA AfterInitKeeps ==
  ASSUME LInv, UNCHANGED <<pc, phase>>, NEW c \in Callers, initResult' \in {"ok", "err"},
         \/ stage[c] = "start" /\ pc[c] \in {"ok", "err"}
         \/ stage[c] = "idle" /\ initResult' = initResult,
         AfterInit(c, initResult')
  PROVE  InitInv' /\ PhaseInv' /\ ServerInv'
<1> USE ServerAssumption DEF LInv, LifeTypeOK
<1>1. /\ phase[c] # "stop" /\ pc[c] \notin {"loop", "wait"}
      /\ c \in Runners => server[c] = "idle"
      /\ initResult # initResult' => \A d \in Callers : stage[d] \notin After \cup {"returned"}
  <2>1. phase[c] # "stop" /\ pc[c] \notin {"loop", "wait"}
    BY DEF PhaseInv, Before
  <2>2. c \in Runners => server[c] = "idle"
    BY DEF ServerInv, Before
  <2>3. ASSUME initResult # initResult', NEW d \in Callers
        PROVE  stage[d] \notin After \cup {"returned"}
    <3>1. initResult = "busy"
      BY <2>3 DEF InitInv
    <3> QED  BY <3>1 DEF InitInv
  <2> QED  BY <2>1, <2>2, <2>3
<1>2. /\ \A d \in Callers \ {c} : stage'[d] = stage[d]
      /\ \A d \in Runners \ {c} : server'[d] = server[d]
      /\ stage'[c] \in {"serving", "using", "returned"}
      /\ stage'[c] \in {"serving", "using"} => initResult' = "ok"
      /\ stage'[c] = "returned" => initResult' = "err"
      /\ c \in Runners => /\ stage'[c] = "serving" <=> server'[c] = "running"
                          /\ stage'[c] \in {"serving", "returned"}
                          /\ server'[c] \in {"idle", "running"}
  BY <1>1 DEF AfterInit
<1>3. \A d \in Callers \ {c} : stage[d] \in {"register", "start"} => initResult = "busy" /\ stage[c] = "idle"
  BY DEF InitInv
<1>4. InitInv'
  <2>1. ASSUME NEW d \in Callers \ {c}
        PROVE  /\ stage[d] \notin {"register", "start"}
               /\ stage[d] \in After => initResult' = "ok"
               /\ stage[d] = "returned" =>
                      initResult' = IF phase[d] = "stop" \/ (d \in Runners /\ server[d] # "idle")
                                    THEN "ok" ELSE "err"
    BY <1>1, <1>3, <2>1 DEF InitInv, After
  <2>2. ASSUME NEW d \in Callers \ {c}
        PROVE  d \in Runners => server'[d] = server[d]
    BY <1>2
  <2> QED  BY <1>1, <1>2, <2>1, <2>2 DEF InitInv, After
<1>5. PhaseInv'
  <2>1. phase[c] = "start"
    BY DEF PhaseInv, Before
  <2> QED  BY <1>1, <1>2, <2>1 DEF PhaseInv, Before
<1>6. ServerInv'
  <2>1. ASSUME NEW d \in Runners \ {c}
        PROVE  stage'[d] = stage[d] /\ server'[d] = server[d]
    BY <1>2, <2>1
  <2>2. ASSUME c \in Runners
        PROVE  /\ stage'[c] \in Before <=> server'[c] = "idle" /\ stage'[c] # "returned"
               /\ server'[c] = "running" => stage'[c] \in {"serving", "stopping"}
               /\ server'[c] # "told"
    BY <1>2, <2>2 DEF Before
  <2> QED  BY <2>1, <2>2 DEF ServerInv
<1> QED  BY <1>4, <1>5, <1>6

\* The caller that enters get_or_init keeps the invariant: it is alone in there.
LEMMA BeginInitKeeps ==
  ASSUME LInv, NEW c \in Callers, BeginInit(c)
  PROVE  InitInv' /\ PhaseInv' /\ ServerInv' /\ BatchInv' /\ StartInv'
<1> USE ServerAssumption DEF LInv, LifeTypeOK, BeginInit, vars
<1>1. /\ \A d \in Callers \ {c} : stage'[d] = stage[d]
      /\ stage[c] = "idle" /\ stage'[c] = "register" /\ initResult = "unset" /\ initResult' = "busy"
      /\ UNCHANGED <<server, phase, pc>>
  OBVIOUS
<1>2. InitInv'
  <2>1. \A d \in Callers : stage[d] \notin {"register", "start", "returned"} \cup After
    BY <1>1 DEF InitInv
  <2> QED  BY <1>1, <2>1 DEF InitInv, After
<1>3. PhaseInv'
  BY <1>1 DEF PhaseInv, Before
<1>4. ServerInv'
  BY <1>1 DEF ServerInv, Before
<1>5. BatchInv' /\ StartInv'
  <2>1. \A d \in Callers : stage[d] = "start" <=> stage'[d] = "start"
    BY <1>1
  <2> QED  BY <1>1, <2>1, StillKeepsBatches
<1> QED  BY <1>2, <1>3, <1>4, <1>5

\* The steps of a caller that has its server or its use of the framework, and of the
\* signals.
LEMMA ServingKeeps ==
  ASSUME LInv, UNCHANGED <<vars, initResult>>, NEW c \in Callers, stage[c] \in After,
         stage' = [stage EXCEPT ![c] = stage'[c]],
         stage'[c] \in {"serving", "stopping", "draining", "using", "closing"}
             \/ (stage'[c] = "returned"
                    /\ (phase[c] = "stop" \/ (c \in Runners /\ server'[c] # "idle"))),
         stage[c] # "stop" \/ stage'[c] = "returned",
         pc[c] \notin {"loop", "wait"},
         \A d \in Runners \ {c} : server'[d] = server[d],
         c \in Runners =>
             /\ server'[c] # "idle"
             /\ server'[c] = "running" => stage'[c] \in {"serving", "stopping"}
             /\ server'[c] = "told" => stage'[c] = "draining"
  PROVE  InitInv' /\ PhaseInv' /\ ServerInv' /\ BatchInv' /\ StartInv'
<1> USE ServerAssumption DEF LInv, LifeTypeOK, vars
<1>1. /\ \A d \in Callers \ {c} : stage'[d] = stage[d]
      /\ initResult = "ok"
      /\ stage'[c] \in {"serving", "stopping", "draining", "using", "closing", "returned"}
  BY DEF InitInv
<1>2. InitInv'
  <2>1. \A d \in Callers \ {c} : d \in Runners => server'[d] = server[d]
    OBVIOUS
  <2> QED  BY <1>1, <2>1 DEF InitInv, After
<1>3. PhaseInv'
  <2>1. phase[c] = "stop" => stage[c] = "stop"
    BY DEF PhaseInv, After
  <2> QED  BY <1>1, <2>1 DEF PhaseInv, Before
<1>4. ServerInv'
  BY <1>1 DEF ServerInv, Before
<1>5. BatchInv' /\ StartInv'
  <2>1. \A d \in Callers : stage[d] = "start" <=> stage'[d] = "start"
    BY <1>1 DEF After
  <2> QED  BY <2>1, StillKeepsBatches
<1> QED  BY <1>2, <1>3, <1>4, <1>5

\* init() ends: it reports what the manager did, and Ok means that every hook of its
\* batch has answered and that those that must succeed have succeeded.
LEMMA EndInitKeeps ==
  ASSUME IInv, LInv, NEW c \in Callers, EndInit(c)
  PROVE  InitInv' /\ PhaseInv' /\ ServerInv' /\ BatchInv' /\ StartInv'
<1> USE DEF LInv, LifeTypeOK
<1>1. /\ stage[c] = "start" /\ pc[c] \in {"ok", "err"} /\ initResult' = pc[c]
      /\ UNCHANGED vars /\ AfterInit(c, initResult')
  BY DEF EndInit
<1>2. InitInv' /\ PhaseInv' /\ ServerInv'
  BY <1>1, AfterInitKeeps DEF vars
<1>3. \A d \in Callers : stage'[d] # "start"
  <2>1. \A d \in Callers \ {c} : stage[d] # "start"
    BY <1>1 DEF InitInv
  <2> QED  BY <1>1, <2>1 DEF AfterInit
<1>4. BatchInv'
  BY <1>1 DEF BatchInv, vars, Started, InBatch
<1>5. ASSUME pc[c] = "ok", NEW h \in StartHooks
      PROVE  /\ h \in BuiltinHooks => verdict[h] # "none" \/ closure[h] = "dropped"
             /\ Must[h] => verdict[h] \in {"none", "ok"}
  <2>1. phase[c] = "start"
    BY <1>1 DEF PhaseInv, Before
  <2>2. CASE InBatch(c, h)
    <3>1. PICK i \in DOMAIN batch[c] : batch[c][i] = h
      BY <2>2 DEF InBatch
    <3>2. i < pos[c]
      BY <1>5, <3>1 DEF IInv, ProgressInv, AtOk
    <3> QED  BY <2>1, <3>1, <3>2 DEF IInv, ProgressInv, Answered
  <2>3. CASE ~InBatch(c, h)
    <3>1. initResult = "busy" /\ \A d \in Callers : stage[d] = "start" => d = c
      BY <1>1 DEF InitInv
    <3>2. ~Started(h)
      BY <2>3, <3>1 DEF BatchInv, StartHooks
    <3>3. verdict[h] = "none"
      BY <3>2 DEF IInv, ProgressInv, Unanswered, StartHooks
    <3> QED  BY <1>1, <2>3, <3>3 DEF StartInv
  <2> QED  BY <2>2, <2>3
<1>6. StartInv'
  BY <1>1, <1>3, <1>5 DEF StartInv, vars
<1> QED  BY <1>2, <1>4, <1>6

\* A caller takes a list, and its batch holds the hooks of that list.
LEMMA TakenBatch ==
  ASSUME IInv, NEW c \in Callers, NEW p \in Phases, TakeSorted(c, p)
  PROVE  /\ \A h \in Hooks : InBatch(c, h)' <=>
                \E i \in DOMAIN registry[p] : registry[p][i] = h
         /\ \A i \in DOMAIN batch'[c] : PhaseOf[batch'[c][i]] = p
         /\ \A d \in Callers \ {c} :
                batch'[d] = batch[d] /\ phase'[d] = phase[d] /\ pc'[d] = pc[d]
         /\ phase'[c] = p /\ pc'[c] = "loop" /\ UNCHANGED <<closure, verdict>>
<1> DEFINE s == registry[p]
<1>1. s \in Seq(Hooks) /\ \A i \in DOMAIN s : PhaseOf[s[i]] = p
  BY DEF IInv, TypeOK, SlotInv, ListsHold
<1>2. /\ batch' = [batch EXCEPT ![c] = StableSort(s)] /\ phase' = [phase EXCEPT ![c] = p]
      /\ pc' = [pc EXCEPT ![c] = "loop"] /\ UNCHANGED <<closure, verdict>>
  BY DEF TakeSorted
<1>3. batch'[c] = StableSort(s)
  BY <1>2 DEF IInv, TypeOK
<1> HIDE DEF s
<1>4. PICK f \in Bijection(DOMAIN s, DOMAIN s) : \A k \in DOMAIN s : StableSort(s)[k] = s[f[k]]
  BY <1>1, StableSortSorts
<1>5. DOMAIN StableSort(s) = DOMAIN s
  BY <1>1, StableSortSorts
<1>6. /\ \A k \in DOMAIN s : f[k] \in DOMAIN s
      /\ \A i \in DOMAIN s : \E k \in DOMAIN s : f[k] = i
  BY DEF Bijection, Injection, Surjection
<1>7. \A h \in Hooks : InBatch(c, h)' <=> \E i \in DOMAIN s : s[i] = h
  BY <1>3, <1>4, <1>5, <1>6 DEF InBatch
<1>8. \A i \in DOMAIN batch'[c] : PhaseOf[batch'[c][i]] = p
  <2> SUFFICES ASSUME NEW i \in DOMAIN s
               PROVE  PhaseOf[StableSort(s)[i]] = p
    BY <1>3, <1>5
  <2>1. StableSort(s)[i] = s[f[i]] /\ f[i] \in DOMAIN s
    BY <1>4, <1>6
  <2> QED  BY <1>1, <2>1
<1>9. /\ \A d \in Callers \ {c} :
            batch'[d] = batch[d] /\ phase'[d] = phase[d] /\ pc'[d] = pc[d]
      /\ phase'[c] = p /\ pc'[c] = "loop"
  BY <1>2 DEF IInv, TypeOK
<1> QED  BY <1>2, <1>7, <1>8, <1>9 DEF s

\* A hook that was started is in the batch of another caller than the one that takes.
LEMMA TakingKeepsBatches ==
  ASSUME IInv, LInv, NEW c \in Callers, NEW p \in Phases, TakeSorted(c, p),
         phase[c] # "stop", stage[c] # "start", initResult' = initResult,
         \A d \in Callers \ {c} : stage'[d] = stage[d]
  PROVE  BatchInv'
<1>1. \A d \in Callers \ {c} : \A h \in Hooks : InBatch(d, h)' <=> InBatch(d, h)
  BY TakenBatch DEF InBatch
<1>2. \A d \in Callers : \A i \in DOMAIN batch'[d] : PhaseOf[batch'[d][i]] = phase'[d]
  BY TakenBatch DEF LInv, BatchInv
<1>3. ASSUME NEW h \in Hooks, Started(h)'
      PROVE  IF PhaseOf[h] = "stop"
             THEN \E d \in Callers : phase'[d] = "stop" /\ InBatch(d, h)'
             ELSE initResult \in {"ok", "err"}
                  \/ \E d \in Callers : stage'[d] = "start" /\ InBatch(d, h)'
  <2>1. Started(h)
    BY <1>3, TakenBatch DEF Started
  <2> QED  BY <1>1, <2>1, TakenBatch DEF LInv, BatchInv
<1> QED  BY <1>2, <1>3 DEF BatchInv

\* Taking the start hooks keeps the invariant: the modules' hooks are registered by then.
LEMMA InvokeStartKeeps ==
  ASSUME IInv, LInv, NEW c \in Callers, InvokeStart(c)
  PROVE  InitInv' /\ PhaseInv' /\ ServerInv' /\ BatchInv' /\ StartInv'
<1> USE DEF LInv, LifeTypeOK, Phases
<1>1. /\ stage[c] = "register" /\ stage' = [stage EXCEPT ![c] = "start"]
      /\ \A k \in DOMAIN Builtin : closure[Builtin[k]] # "unregistered"
      /\ TakeSorted(c, "start") /\ UNCHANGED <<initResult, server>>
  BY DEF InvokeStart, Unregistered
<1>2. /\ stage'[c] = "start" /\ \A d \in Callers \ {c} : stage'[d] = stage[d]
      /\ initResult = "busy" /\ \A d \in Callers : stage[d] \in {"register", "start"} => d = c
      /\ phase[c] = "start"
  BY <1>1 DEF InitInv, PhaseInv, Before
<1>3. InitInv'
  BY <1>1, <1>2, TakenBatch DEF InitInv, After
<1>4. PhaseInv'
  BY <1>1, <1>2, TakenBatch DEF PhaseInv, Before
<1>5. ServerInv'
  BY <1>1, <1>2 DEF ServerInv, Before
<1>6. BatchInv'
  BY <1>1, <1>2, TakingKeepsBatches
<1>7. ASSUME NEW h \in StartHooks \cap BuiltinHooks, closure'[h] # "dropped"
      PROVE  InBatch(c, h)'
  <2>1. h \in Hooks /\ PhaseOf[h] = "start" /\ closure[h] \notin {"unregistered", "dropped"}
    BY <1>1, <1>7, TakenBatch DEF StartHooks, BuiltinHooks
  <2>2. ~Started(h)
    BY <1>1, <1>2, <2>1 DEF BatchInv
  <2>3. closure[h] = "held"
    BY <2>1, <2>2 DEF Started, IInv, TypeOK, ClosureStates
  <2>4. \A d \in Callers : \A i \in Pending[d] : batch[d][i] # h
    <3> SUFFICES ASSUME NEW d \in Callers, NEW i \in Pending[d]
                 PROVE  batch[d][i] # h
      OBVIOUS
    <3>1. pc[d] \in {"loop", "wait"} /\ i \in DOMAIN batch[d]
      BY DEF Pending, IInv, SlotInv, PendingHeld
    <3>2. phase[d] = "stop"
      BY <1>1, <1>2, <3>1 DEF PhaseInv
    <3> QED  BY <2>1, <3>1, <3>2 DEF BatchInv
  <2>5. \E i \in DOMAIN registry["start"] : registry["start"][i] = h
    BY <2>1, <2>3, <2>4 DEF IInv, SlotInv, HeldSomewhere
  <2> QED  BY <1>1, <2>1, <2>5, TakenBatch
<1>8. StartInv'
  BY <1>1, <1>2, <1>7 DEF StartInv
<1> QED  BY <1>3, <1>4, <1>5, <1>6, <1>8

\* Taking the stop hooks keeps the invariant: the caller's own server has ended.
LEMMA InvokeStopKeeps ==
  ASSUME IInv, LInv, NEW c \in Callers, InvokeStop(c)
  PROVE  InitInv' /\ PhaseInv' /\ ServerInv' /\ BatchInv' /\ StartInv'
<1> USE DEF LInv, LifeTypeOK, Phases
<1>1. /\ stage[c] = "closing" /\ stage' = [stage EXCEPT ![c] = "stop"]
      /\ TakeSorted(c, "stop") /\ UNCHANGED <<initResult, server>>
  BY DEF InvokeStop
<1>2. /\ stage'[c] = "stop" /\ \A d \in Callers \ {c} : stage'[d] = stage[d]
      /\ initResult = "ok" /\ phase[c] # "stop"
  BY <1>1 DEF InitInv, PhaseInv, After
<1>3. InitInv'
  BY <1>1, <1>2, TakenBatch DEF InitInv, After
<1>4. PhaseInv'
  BY <1>1, <1>2, TakenBatch DEF PhaseInv, Before
<1>5. ServerInv'
  BY <1>1, <1>2 DEF ServerInv, Before
<1>6. BatchInv'
  BY <1>1, <1>2, TakingKeepsBatches
<1>7. StartInv'
  <2>1. \A d \in Callers : stage'[d] # "start"
    BY <1>1, <1>2 DEF InitInv
  <2> QED  BY <1>1, <1>2, <2>1, TakenBatch DEF StartInv
<1> QED  BY <1>3, <1>4, <1>5, <1>6, <1>7

\* Every step of the life cycle keeps its invariant.
LEMMA NextLInv == IInv /\ LInv /\ [LifeNext]_allVars => LInv'
<1> SUFFICES ASSUME IInv, LInv, LifeTypeOK', [LifeNext]_allVars
             PROVE  InitInv' /\ PhaseInv' /\ ServerInv' /\ BatchInv' /\ StartInv'
  BY NextLifeType DEF LInv
<1> USE ServerAssumption DEF LInv, LifeTypeOK
<1>1. ASSUME NEW h \in Hooks, UserRegister(h)
      PROVE  InitInv' /\ PhaseInv' /\ ServerInv' /\ BatchInv' /\ StartInv'
  BY <1>1, TurnKeepsLife DEF UserRegister, Turn, serverVars
<1>2. ASSUME NEW h \in Hooks, NEW r \in {"ok", "err"}, HookDone(h, r)
      PROVE  InitInv' /\ PhaseInv' /\ ServerInv' /\ BatchInv' /\ StartInv'
  BY <1>2, TurnKeepsLife DEF HookDone, Turn
<1>3. ASSUME NEW c \in Callers, RegisterBuiltin(c)
      PROVE  InitInv' /\ PhaseInv' /\ ServerInv' /\ BatchInv' /\ StartInv'
  <2>1. \A k \in DOMAIN Builtin : Builtin[k] \in Hooks
    OBVIOUS
  <2> QED  BY <1>3, <2>1, TurnKeepsLife DEF RegisterBuiltin, Turn, serverVars
<1>4. ASSUME NEW c \in Callers, HookLoop(c)
      PROVE  InitInv' /\ PhaseInv' /\ ServerInv' /\ BatchInv' /\ StartInv'
  BY <1>4, TurnKeepsLife DEF HookLoop, Turn, serverVars
<1>5. ASSUME NEW c \in Callers, BeginInit(c) \/ InvokeStart(c) \/ EndInit(c) \/ InvokeStop(c)
      PROVE  InitInv' /\ PhaseInv' /\ ServerInv' /\ BatchInv' /\ StartInv'
  BY <1>5, BeginInitKeeps, InvokeStartKeeps, EndInitKeeps, InvokeStopKeeps
<1>6. ASSUME NEW c \in Callers, CachedInit(c)
      PROVE  InitInv' /\ PhaseInv' /\ ServerInv' /\ BatchInv' /\ StartInv'
  <2>1. /\ stage[c] = "idle" /\ initResult \in {"ok", "err"} /\ AfterInit(c, initResult')
        /\ UNCHANGED <<vars, initResult>>
    BY <1>6 DEF CachedInit
  <2>2. InitInv' /\ PhaseInv' /\ ServerInv'
    BY <2>1, AfterInitKeeps DEF vars
  <2>3. \A d \in Callers : stage[d] = "start" <=> stage'[d] = "start"
    BY <2>1 DEF AfterInit
  <2>4. BatchInv' /\ StartInv'
    BY <2>1, <2>3, StillKeepsBatches
  <2> QED  BY <2>2, <2>4
<1>7. \A c \in Callers : stage[c] \in After /\ stage[c] # "stop" => pc[c] \notin {"loop", "wait"}
  BY DEF PhaseInv, After
<1>8. ASSUME NEW c \in Runners, TakeSignal(c)
      PROVE  InitInv' /\ PhaseInv' /\ ServerInv' /\ BatchInv' /\ StartInv'
  <2>1. /\ stage[c] = "serving" /\ stage' = [stage EXCEPT ![c] = "stopping"]
        /\ UNCHANGED <<vars, initResult, server>>
    BY <1>8 DEF TakeSignal
  <2>2. server[c] \notin {"idle", "told"}
    BY <2>1 DEF ServerInv, Before
  <2>3. c \in Callers /\ stage[c] \in After /\ stage'[c] = "stopping"
    BY <2>1 DEF After
  <2> QED  BY <1>7, <2>1, <2>2, <2>3, ServingKeeps
<1>9. ASSUME NEW c \in Runners, NEW r \in {"ok", "err"},
             StopServer(c, r) \/ RunEnds(c, r) \/ Drained(c, r)
      PROVE  InitInv' /\ PhaseInv' /\ ServerInv' /\ BatchInv' /\ StartInv'
  <2>1. /\ stage[c] \in {"serving", "stopping", "draining"} /\ UNCHANGED <<vars, initResult>>
        /\ \E v \in {"draining", "returned", "closing"} : stage' = [stage EXCEPT ![c] = v]
        /\ \E v \in {"told", "dropped", "ended"} : server' = [server EXCEPT ![c] = v]
        /\ server'[c] = "told" => stage'[c] = "draining"
    BY <1>9 DEF StopServer, RunEnds, Drained
  <2>2. /\ c \in Callers /\ stage[c] \in After /\ stage[c] # "stop"
        /\ stage'[c] \in {"draining", "returned", "closing"}
        /\ stage' = [stage EXCEPT ![c] = stage'[c]]
        /\ server'[c] \in {"told", "dropped", "ended"}
        /\ \A d \in Runners \ {c} : server'[d] = server[d]
    BY <2>1 DEF After
  <2> QED  BY <1>7, <2>1, <2>2, ServingKeeps
<1>10. ASSUME NEW c \in Manuals, ManualStop(c)
       PROVE  InitInv' /\ PhaseInv' /\ ServerInv' /\ BatchInv' /\ StartInv'
  <2>1. /\ stage[c] = "using" /\ stage' = [stage EXCEPT ![c] = "closing"]
        /\ UNCHANGED <<vars, initResult, server>>
    BY <1>10 DEF ManualStop
  <2>2. c \in Callers /\ c \notin Runners /\ stage[c] \in After /\ stage'[c] = "closing"
    BY <2>1 DEF After, Manuals
  <2> QED  BY <1>7, <2>1, <2>2, ServingKeeps
<1>11. ASSUME NEW c \in Callers, EndStop(c)
       PROVE  InitInv' /\ PhaseInv' /\ ServerInv' /\ BatchInv' /\ StartInv'
  <2>1. /\ stage[c] = "stop" /\ pc[c] \in {"ok", "err"}
        /\ stage' = [stage EXCEPT ![c] = "returned"]
        /\ UNCHANGED <<vars, initResult, server>>
    BY <1>11 DEF EndStop
  <2>2. /\ stage[c] \in After /\ stage'[c] = "returned" /\ phase[c] = "stop"
        /\ c \in Runners => server[c] \notin {"idle", "running", "told"}
    BY <2>1 DEF After, PhaseInv, ServerInv, Before
  <2> QED  BY <2>1, <2>2, ServingKeeps
<1>12. ASSUME UNCHANGED <<vars, initResult, stage, server>>
       PROVE  InitInv' /\ PhaseInv' /\ ServerInv' /\ BatchInv' /\ StartInv'
  <2>1. InitInv' /\ PhaseInv' /\ ServerInv'
    BY <1>12 DEF InitInv, PhaseInv, ServerInv, vars
  <2> QED  BY <1>12, <2>1, StillKeepsBatches
<1>13. CASE Signal \/ UNCHANGED allVars
  BY <1>12, <1>13 DEF Signal, allVars, serverVars
<1> QED
  BY <1>1, <1>2, <1>3, <1>4, <1>5, <1>6, <1>8, <1>9, <1>10, <1>11, <1>13 DEF LifeNext

-----------------------------------------------------------------------------
(* The release of resources.  What is open at the end was opened by a start *)
(* hook that answered late, or its stop hook did not do its part; so the    *)
(* invariant follows the stop hooks from their registration to their answer.*)

\* By the time the start hooks are taken the modules' hooks have been registered.
AllRegistered ==
    (initResult \in {"ok", "err"} \/ \E c \in Callers : stage[c] = "start") =>
        \A h \in BuiltinHooks : closure[h] # "unregistered"

\* When init() has ended no start hook is under way but those that ran out of time.
StartsJudged ==
    initResult \in {"ok", "err"} => \A h \in StartHooks : Started(h) => verdict[h] # "none"

\* The first shutdown() takes the stop hooks of all modules.
StopsTaken ==
    (\E c \in Callers : phase[c] = "stop") =>
        \A i \in DOMAIN registry["stop"] : registry["stop"][i] \notin BuiltinHooks

\* A stop hook is dropped by the limit and by nothing else.
StopsKept == \A h \in StopHooks : closure[h] = "dropped" => regNo[h] = 0

\* Behind a module's stop hook only a late start hook can open its resource again.
StoppedIsClosed ==
    \A h \in StopHooks : closure[h] \in {"ok", "err"} /\ ModuleOf[h] \in Modules =>
        \/ store[ModuleOf[h]] # "open"
        \/ \E g \in StartHooks : ModuleOf[g] = ModuleOf[h] /\ verdict[g] = "timeout"

HookInv == AllRegistered /\ StartsJudged /\ StopsTaken /\ StopsKept
RInv == HookInv /\ StoppedIsClosed

\* Nobody is past init() in the stop phase unless init() has succeeded.
LEMMA StopAfterOk ==
  ASSUME LInv, NEW c \in Callers, phase[c] = "stop"
  PROVE  initResult = "ok"
<1>1. stage[c] \in {"stop", "returned"}
  BY DEF LInv, PhaseInv
<1> QED  BY <1>1 DEF LInv, InitInv, After

\* In the initial state nothing has been registered.
LEMMA InitRInv == LifeInit => RInv
<1> SUFFICES ASSUME LifeInit
             PROVE  RInv
  OBVIOUS
<1>1. AllRegistered /\ StartsJudged
  BY DEF LifeInit, AllRegistered, StartsJudged
<1>2. StopsTaken
  BY DEF LifeInit, Init, StopsTaken
<1>3. StopsKept /\ StoppedIsClosed
  BY DEF LifeInit, Init, StopsKept, StoppedIsClosed, StopHooks
<1> QED  BY <1>1, <1>2, <1>3 DEF RInv, HookInv

\* What a turn of the manager does to lists and numbers.
LEMMA TurnRegisters ==
  ASSUME IInv, OrderInv, LInv, Turn
  PROVE  /\ \/ UNCHANGED <<registry, regNo>>
            \/ \E h \in Hooks : /\ closure[h] = "unregistered" /\ closure'[h] = "held"
                                /\ registry' = [registry EXCEPT ![PhaseOf[h]] = Append(@, h)]
                                /\ \A g \in Hooks \ {h} : regNo'[g] = regNo[g]
         /\ \A h \in StopHooks : closure'[h] = "dropped" /\ closure[h] # "dropped" =>
                closure[h] = "unregistered" /\ regNo'[h] = regNo[h]
<1> USE DEF IInv, TypeOK
<1>1. ASSUME NEW h \in Hooks, Register(h)
      PROVE  /\ \/ UNCHANGED <<registry, regNo>>
                \/ /\ closure[h] = "unregistered" /\ closure'[h] = "held"
                   /\ registry' = [registry EXCEPT ![PhaseOf[h]] = Append(@, h)]
                   /\ \A g \in Hooks \ {h} : regNo'[g] = regNo[g]
             /\ \A g \in Hooks : closure'[g] = "dropped" /\ closure[g] # "dropped" =>
                    closure[g] = "unregistered" /\ regNo'[g] = regNo[g]
  BY <1>1 DEF Register, RegisterRefused, RegisterAccepted
<1>2. ASSUME NEW h \in Hooks, NEW r \in {"ok", "err"}, HookReturns(h, r)
      PROVE  UNCHANGED <<registry, regNo>>
             /\ \A g \in Hooks : closure'[g] = "dropped" => closure[g] = "dropped"
  BY <1>2 DEF HookReturns
<1>3. ASSUME NEW c \in Callers, SpawnHook(c)
      PROVE  UNCHANGED <<registry, regNo>>
             /\ \A g \in Hooks : closure'[g] = "dropped" => closure[g] = "dropped"
  BY <1>3 DEF SpawnHook
<1>4. ASSUME NEW c \in Callers, NEW v, Judge(c, v)
      PROVE  UNCHANGED <<registry, regNo>>
             /\ \A g \in StopHooks : closure'[g] = "dropped" => closure[g] = "dropped"
  <2>1. UNCHANGED <<registry, regNo>>
    BY <1>4 DEF Judge
  <2>2. ASSUME phase[c] = "start"
        PROVE  \A g \in StopHooks : g \notin Unstarted(c)
    <3>1. pos[c] \in Nat /\ DOMAIN batch[c] = 1 .. Len(batch[c]) /\ Len(batch[c]) \in Nat
      OBVIOUS
    <3>2. \A i \in pos[c] + 1 .. Len(batch[c]) : i \in DOMAIN batch[c]
      BY <3>1
    <3>3. \A i \in DOMAIN batch[c] : PhaseOf[batch[c][i]] = "start"
      BY <2>2 DEF LInv, BatchInv
    <3> QED  BY <3>2, <3>3 DEF Unstarted, StopHooks, StartHooks
  <2>3. CASE Fatal(c, v)
    BY <1>4, <2>2, <2>3 DEF Judge, Fatal, StopHooks
  <2>4. CASE ~Fatal(c, v)
    BY <1>4, <2>4 DEF Judge
  <2> QED  BY <2>1, <2>3, <2>4
<1>5. ASSUME NEW c \in Callers, FinishOk(c)
      PROVE  UNCHANGED <<registry, regNo, closure>>
  BY <1>5 DEF FinishOk
<1>6. \A g \in StopHooks : g \in Hooks
  BY DEF StopHooks
<1> QED
  BY <1>1, <1>2, <1>3, <1>4, <1>5, <1>6 DEF Turn, CallerSteps, Receive, TimeOut

\* A turn of the manager neither starts start hooks behind init() nor gives modules'
\* hooks back to the lists.
LEMMA TurnKeepsHooks ==
  ASSUME IInv, OrderInv, LInv, RInv, Turn, [Next]_vars, UNCHANGED <<initResult, stage>>
  PROVE  HookInv'
<1> USE DEF RInv, HookInv
<1>1. AllRegistered'
  <2>1. \A h \in BuiltinHooks : h \in Hooks
    BY ServerAssumption DEF BuiltinHooks
  <2> QED  BY <2>1, KnownStays DEF AllRegistered
<1>2. StartsJudged'
  <2> SUFFICES ASSUME initResult \in {"ok", "err"}, NEW h \in StartHooks, Started(h)'
               PROVE  verdict'[h] # "none"
    BY DEF StartsJudged
  <2>1. h \in Hooks /\ PhaseOf[h] = "start"
    BY DEF StartHooks
  <2>2. ASSUME NEW c \in Callers, pc[c] = "loop", InBatch(c, h)
        PROVE  FALSE
    <3>1. stage[c] = "stop"
      BY <2>2 DEF LInv, PhaseInv, InitInv
    <3> QED  BY <2>1, <2>2, <3>1 DEF LInv, PhaseInv, BatchInv, InBatch
  <2>3. Started(h)
    BY <2>1, <2>2, TurnFrame DEF TurnKeeps
  <2> QED  BY <2>1, <2>3, VerdictKept DEF StartsJudged
<1>3. StopsTaken'
  <2> SUFFICES ASSUME NEW c \in Callers, phase[c] = "stop", NEW i \in DOMAIN registry'["stop"]
               PROVE  registry'["stop"][i] \notin BuiltinHooks
    BY TurnFrame DEF StopsTaken, TurnKeeps
  <2>1. \A h \in BuiltinHooks : closure[h] # "unregistered"
    BY StopAfterOk DEF AllRegistered
  <2>2. registry["stop"] \in Seq(Hooks)
    BY DEF IInv, TypeOK, Phases
  <2>3. CASE registry' = registry
    BY <2>3 DEF StopsTaken
  <2>4. ASSUME NEW h \in Hooks, closure[h] = "unregistered",
               registry' = [registry EXCEPT ![PhaseOf[h]] = Append(@, h)]
        PROVE  registry'["stop"][i] \notin BuiltinHooks
    <3>1. \/ registry'["stop"] = registry["stop"]
          \/ registry'["stop"] = Append(registry["stop"], h)
      BY <2>4 DEF IInv, TypeOK, Phases
    <3>2. \/ i \in DOMAIN registry["stop"] /\ registry'["stop"][i] = registry["stop"][i]
          \/ registry'["stop"][i] = h
      BY <2>2, <3>1
    <3> QED  BY <2>1, <2>4, <3>2 DEF StopsTaken
  <2> QED  BY <2>3, <2>4, TurnRegisters
<1>4. StopsKept'
  <2> SUFFICES ASSUME NEW h \in StopHooks, closure'[h] = "dropped"
               PROVE  regNo'[h] = 0
    BY DEF StopsKept
  <2>1. h \in Hooks
    BY DEF StopHooks
  <2>2. CASE closure[h] = "dropped"
    BY <2>1, <2>2, TurnRegisters DEF StopsKept
  <2>3. CASE closure[h] # "dropped"
    BY <2>1, <2>3, TurnRegisters DEF OrderInv, Numbered
  <2> QED  BY <2>2, <2>3
<1> QED  BY <1>1, <1>2, <1>3, <1>4

\* A step that leaves the manager and the resources alone and is not the first to know
\* how init() ended.
LEMMA StillKeepsHooks ==
  ASSUME RInv, StartsJudged', UNCHANGED <<vars, store>>,
         \A c \in Callers : stage'[c] = "start" => stage[c] = "start",
         initResult' \in {"ok", "err"} =>
             initResult \in {"ok", "err"} \/ \E c \in Callers : stage[c] = "start"
  PROVE  RInv'
<1> USE DEF RInv, HookInv, vars
<1>1. AllRegistered'
  BY DEF AllRegistered
<1>2. StopsTaken' /\ StopsKept' /\ StoppedIsClosed'
  BY DEF StopsTaken, StopsKept, StoppedIsClosed
<1> QED  BY <1>1, <1>2

\* When init() ends every start hook it has started has answered, or run out of time.
LEMMA EndInitKeepsHooks ==
  ASSUME IInv, LInv, RInv, NEW c \in Callers, EndInit(c)
  PROVE  RInv'
<1>1. /\ stage[c] = "start" /\ pc[c] \in {"ok", "err"} /\ UNCHANGED <<vars, store>>
      /\ AfterInit(c, pc[c]) /\ stage' = [stage EXCEPT ![c] = stage'[c]]
  BY DEF EndInit, AfterInit, LInv, LifeTypeOK
<1>2. initResult = "busy" /\ \A d \in Callers : stage[d] = "start" => d = c
  BY <1>1 DEF LInv, InitInv
<1>3. ASSUME NEW h \in StartHooks, Started(h)
      PROVE  verdict[h] # "none"
  <2>1. InBatch(c, h)
    BY <1>2, <1>3 DEF StartHooks, LInv, BatchInv
  <2>2. PICK i \in DOMAIN batch[c] : batch[c][i] = h
    BY <2>1 DEF InBatch
  <2>3. i < pos[c] => verdict[h] # "none"
    BY <2>2 DEF IInv, ProgressInv, Answered
  <2>4. CASE pc[c] = "ok"
    BY <2>2, <2>3, <2>4 DEF IInv, ProgressInv, AtOk
  <2>5. CASE pc[c] = "err"
    <3>1. /\ verdict[Current(c)] \in {"err", "timeout"}
          /\ i > pos[c] => closure[h] = "dropped"
      BY <2>2, <2>5 DEF IInv, ProgressInv, AtErr
    <3>2. i \in Int /\ pos[c] \in Int
      BY <2>2 DEF IInv, TypeOK
    <3>3. i = pos[c] => Current(c) = h
      BY <2>2 DEF Current
    <3> QED  BY <1>3, <2>3, <3>1, <3>2, <3>3 DEF Started
  <2> QED  BY <1>1, <2>4, <2>5
<1>4. StartsJudged'
  BY <1>1, <1>3 DEF StartsJudged, Started, vars
<1>5. \A d \in Callers : stage'[d] = "start" => stage[d] = "start"
  BY <1>1 DEF LInv, LifeTypeOK
<1> QED  BY <1>1, <1>4, <1>5, StillKeepsHooks

\* init() takes the start hooks when the modules' hooks have been registered.
LEMMA InvokeStartKeepsHooks ==
  ASSUME IInv, LInv, RInv, NEW c \in Callers, InvokeStart(c)
  PROVE  RInv'
<1> USE DEF RInv, HookInv, Phases
<1>1. /\ stage[c] = "register" /\ TakeSorted(c, "start") /\ UNCHANGED <<initResult, store>>
      /\ \A k \in DOMAIN Builtin : closure[Builtin[k]] # "unregistered"
      /\ UNCHANGED <<regNo, closure, verdict>> /\ registry'["stop"] = registry["stop"]
  BY DEF InvokeStart, Unregistered, TakeSorted, IInv, TypeOK
<1>2. initResult = "busy"
  BY <1>1 DEF LInv, InitInv
<1>3. AllRegistered'
  BY <1>1 DEF AllRegistered, BuiltinHooks
<1>4. StartsJudged'
  BY <1>1, <1>2 DEF StartsJudged
<1>5. StopsTaken'
  <2>1. \A d \in Callers : phase'[d] = "stop" => phase[d] = "stop"
    BY <1>1, TakenBatch
  <2> QED  BY <1>1, <2>1 DEF StopsTaken
<1>6. StopsKept' /\ StoppedIsClosed'
  BY <1>1 DEF StopsKept, StoppedIsClosed
<1> QED  BY <1>3, <1>4, <1>5, <1>6

\* shutdown() leaves no stop hook in the list.
LEMMA InvokeStopKeepsHooks ==
  ASSUME IInv, LInv, RInv, NEW c \in Callers, InvokeStop(c)
  PROVE  RInv'
<1> USE DEF RInv, HookInv, Phases
<1>1. /\ stage[c] = "closing" /\ UNCHANGED <<initResult, store>>
      /\ UNCHANGED <<regNo, closure, verdict>> /\ registry'["stop"] = <<>>
  BY DEF InvokeStop, TakeSorted, IInv, TypeOK
<1>2. initResult = "ok"
  BY <1>1 DEF LInv, InitInv, After
<1>3. AllRegistered'
  BY <1>1, <1>2 DEF AllRegistered
<1>4. StartsJudged'
  BY <1>1 DEF StartsJudged, Started
<1>5. StopsTaken'
  BY <1>1 DEF StopsTaken
<1>6. StopsKept' /\ StoppedIsClosed'
  BY <1>1 DEF StopsKept, StoppedIsClosed
<1> QED  BY <1>3, <1>4, <1>5, <1>6

\* The turns in which no closure is done open and close nothing.
LEMMA QuietTurnKeepsClosed ==
  ASSUME IInv, RInv, [Next]_vars, UNCHANGED store,
         \/ \E h \in Hooks : Register(h)
         \/ \E c \in Callers : CallerSteps(c)
  PROVE  StoppedIsClosed'
<1> USE DEF IInv, TypeOK
<1> DEFINE NoneDone ==
             \A h \in Hooks : closure'[h] \in {"ok", "err"} => closure[h] \in {"ok", "err"}
<1>1. NoneDone
  <2>1. ASSUME NEW g \in Hooks, Register(g)
        PROVE  NoneDone
    BY <2>1 DEF Register, RegisterRefused, RegisterAccepted
  <2>2. ASSUME NEW c \in Callers, SpawnHook(c)
        PROVE  NoneDone
    BY <2>2 DEF SpawnHook
  <2>3. ASSUME NEW c \in Callers, NEW v, Judge(c, v)
        PROVE  NoneDone
    BY <2>3 DEF Judge
  <2>4. ASSUME NEW c \in Callers, FinishOk(c)
        PROVE  NoneDone
    BY <2>4 DEF FinishOk
  <2> QED  BY <2>1, <2>2, <2>3, <2>4 DEF CallerSteps, Receive, TimeOut
<1>2. \A g \in Hooks : verdict[g] = "timeout" => verdict'[g] = "timeout"
  BY VerdictKept
<1> QED  BY <1>1, <1>2 DEF RInv, StoppedIsClosed, StopHooks, StartHooks

\* A stop hook closes its module's resource; a start hook that answers behind it has run
\* out of time before.
LEMMA HookDoneKeepsClosed ==
  ASSUME IInv, LInv, RInv, NEW g \in Hooks, NEW r \in {"ok", "err"}, HookDone(g, r)
  PROVE  StoppedIsClosed'
<1> USE DEF IInv, TypeOK
<1> SUFFICES ASSUME NEW h \in StopHooks, closure'[h] \in {"ok", "err"}, ModuleOf[h] \in Modules,
                    ~ \E k \in StartHooks : ModuleOf[k] = ModuleOf[h] /\ verdict'[k] = "timeout"
             PROVE  store'[ModuleOf[h]] # "open"
  BY DEF StoppedIsClosed
<1> DEFINE m == ModuleOf[h]
<1>1. /\ closure[g] = "running" /\ closure' = [closure EXCEPT ![g] = r] /\ verdict' = verdict
      /\ h \in Hooks /\ PhaseOf[h] # "start" /\ store \in [Modules -> {"none", "open", "closed"}]
  BY DEF HookDone, HookReturns, StopHooks, StartHooks, LInv, LifeTypeOK
<1>2. CASE ModuleOf[g] = m /\ PhaseOf[g] # "start"
  BY <1>1, <1>2 DEF HookDone, Closed
<1>3. ASSUME h # g
      PROVE  store[m] # "open"
  BY <1>1, <1>3 DEF RInv, StoppedIsClosed
<1>4. CASE ModuleOf[g] # m
  <2>1. store'[m] = store[m]
    BY <1>1, <1>4 DEF HookDone
  <2> QED  BY <1>3, <1>4, <2>1
<1>5. CASE ModuleOf[g] = m /\ PhaseOf[g] = "start"
  <2>1. h # g /\ Started(h) /\ Started(g) /\ PhaseOf[h] = "stop"
    BY <1>1, <1>5, HookAssumption DEF Started, Phases
  <2>2. initResult = "ok"
    BY <1>1, <2>1, StopAfterOk DEF LInv, BatchInv
  <2>3. g \in StartHooks /\ verdict[g] # "none"
    BY <1>5, <2>1, <2>2 DEF RInv, HookInv, StartsJudged, StartHooks
  <2>4. verdict[g] = "timeout"
    BY <1>1, <2>3 DEF ProgressInv, VerdictTrue, Verdicts
  <2> QED  BY <1>1, <1>5, <2>3, <2>4
<1> QED  BY <1>2, <1>4, <1>5

\* Every step of the life cycle keeps what is known of the resources.
LEMMA NextRInv == IInv /\ OrderInv /\ LInv /\ RInv /\ [LifeNext]_allVars => RInv'
<1> SUFFICES ASSUME IInv, OrderInv, LInv, RInv, [LifeNext]_allVars, [Next]_vars
             PROVE  RInv'
  BY LifeNextIsNext
<1> USE ServerAssumption DEF LInv, LifeTypeOK
<1>1. ASSUME Turn, UNCHANGED <<initResult, stage>>, StoppedIsClosed'
      PROVE  RInv'
  BY <1>1, TurnKeepsHooks DEF RInv
<1>2. ASSUME NEW h \in Hooks, Register(h), UNCHANGED serverVars
      PROVE  RInv'
  BY <1>1, <1>2, QuietTurnKeepsClosed DEF Turn, serverVars
<1>3. ASSUME NEW c \in Callers, HookLoop(c)
      PROVE  RInv'
  BY <1>1, <1>3, QuietTurnKeepsClosed DEF HookLoop, Turn, serverVars
<1>4. ASSUME NEW h \in Hooks, NEW r \in {"ok", "err"}, HookDone(h, r)
      PROVE  RInv'
  BY <1>1, <1>4, HookDoneKeepsClosed DEF HookDone, Turn
<1>5. ASSUME NEW c \in Callers, RegisterBuiltin(c)
      PROVE  RInv'
  <2>1. \A k \in DOMAIN Builtin : Builtin[k] \in Hooks
    OBVIOUS
  <2> QED  BY <1>2, <1>5, <2>1 DEF RegisterBuiltin
<1>6. ASSUME UNCHANGED <<vars, store>>,
             \A c \in Callers : stage'[c] = "start" => stage[c] = "start",
             initResult' \in {"ok", "err"} => initResult' = initResult
      PROVE  RInv'
  <2>1. StartsJudged'
    BY <1>6 DEF RInv, HookInv, StartsJudged, Started, vars
  <2> QED  BY <1>6, <2>1, StillKeepsHooks
<1>7. ASSUME NEW c \in Callers, BeginInit(c) \/ CachedInit(c) \/ EndStop(c)
      PROVE  RInv'
  BY <1>6, <1>7 DEF BeginInit, CachedInit, AfterInit, EndStop
<1>8. ASSUME NEW c \in Runners, NEW r \in {"ok", "err"},
             TakeSignal(c) \/ StopServer(c, r) \/ RunEnds(c, r) \/ Drained(c, r)
      PROVE  RInv'
  BY <1>6, <1>8 DEF TakeSignal, StopServer, RunEnds, Drained
<1>9. ASSUME NEW c \in Manuals, ManualStop(c)
      PROVE  RInv'
  BY <1>6, <1>9 DEF ManualStop
<1>10. CASE Signal \/ UNCHANGED allVars
  BY <1>6, <1>10 DEF Signal, allVars, serverVars
<1> QED
  BY <1>2, <1>3, <1>4, <1>5, <1>7, <1>8, <1>9, <1>10,
     EndInitKeepsHooks, InvokeStartKeepsHooks, InvokeStopKeepsHooks DEF LifeNext, UserRegister

-----------------------------------------------------------------------------
\* In every behaviour of init(), run_server and shutdown() the invariants of the hook
\* manager hold and those that tie the life cycle to it.
THEOREM LifeInvariance == LifeSpec => [](IInv /\ OrderInv /\ LInv /\ RInv)
<1>1. LifeInit => IInv /\ OrderInv /\ LInv /\ RInv
  BY InitIInv, InitOrderInv, InitLInv, InitRInv DEF LifeInit
<1>2. IInv /\ OrderInv /\ LInv /\ RInv /\ [LifeNext]_allVars
          => (IInv /\ OrderInv /\ LInv /\ RInv)'
  BY LifeNextIsNext, NextIInv, NextOrderInv, NextLInv, NextRInv
<1> QED  BY <1>1, <1>2, PTL DEF LifeSpec

\* No server is polled before every built-in start hook has answered, whatever modules
\* and callers there are and whichever of them ran init().
THEOREM ServersWaitForInit == LifeSpec => []ServeOnlyInitialised
<1>1. LInv => ServeOnlyInitialised
  BY ServerAssumption DEF LInv, ServerInv, InitInv, StartInv, ServeOnlyInitialised, After
<1> QED  BY <1>1, LifeInvariance, PTL

\* init() succeeded for everybody or for nobody.
THEOREM OneInitForAll == LifeSpec => []InitIsShared
<1>1. LInv => InitIsShared
  BY DEF LInv, InitInv, InitIsShared, After
<1> QED  BY <1>1, LifeInvariance, PTL

\* No caller stops a resource under its own server: a stop hook that runs while a server
\* does is another caller's.
THEOREM OwnServerOutlived == LifeSpec => []StopsAfterServer
<1>1. ASSUME LInv
      PROVE  StopsAfterServer
  <2> SUFFICES ASSUME NEW c \in Runners, server[c] \in {"running", "told"},
                      NEW h \in StopHooks, Started(h)
               PROVE  \E d \in Callers \ {c} : stage[d] \in {"stop", "returned"} /\ InBatch(d, h)
    BY DEF StopsAfterServer
  <2>1. stage[c] \in {"serving", "stopping", "draining"}
    BY <1>1 DEF LInv, ServerInv
  <2>2. phase[c] # "stop"
    BY <1>1, <2>1, ServerAssumption DEF LInv, PhaseInv
  <2>3. PhaseOf[h] = "stop" /\ h \in Hooks
    BY HookAssumption DEF StopHooks, StartHooks, Phases
  <2>4. PICK d \in Callers : phase[d] = "stop" /\ InBatch(d, h)
    BY <1>1, <2>3 DEF LInv, BatchInv
  <2> QED  BY <1>1, <2>2, <2>4 DEF LInv, PhaseInv
<1> QED  BY <1>1, LifeInvariance, PTL

\* Read together, the orders of the register_hook functions and the default of the
\* application's hooks mirror one another: what starts earlier stops later.
LEMMA OrdersMirror ==
  ASSUME NEW m \in DOMAIN Orders, NEW n \in DOMAIN Orders,
         "start" \in DOMAIN Orders[m], "start" \in DOMAIN Orders[n],
         "stop" \in DOMAIN Orders[m], "stop" \in DOMAIN Orders[n],
         Orders[m]["start"] < Orders[n]["start"]
  PROVE  Orders[n]["stop"] < Orders[m]["stop"]
BY SMTT(60) DEF Orders, XConfigOrder, XLogOrder, XTraceOrder, XHttpOrder, XMetricOrder,
   XOrmOrder, XRedisOrder, XCacheOrder, UserOrder, I32Max

\* With the orders of the register_hook functions, what starts later is stopped earlier,
\* whichever of the modules there are, however many hooks the application registers, and
\* whoever runs them.
THEOREM LifetimesAreNested ==
  ASSUME OrdersAsRegistered
  PROVE  LifeSpec => []LifetimesNest
<1>1. ASSUME IInv, OrderInv, LInv
      PROVE  LifetimesNest
  <2> SUFFICES ASSUME NEW c \in Callers, NEW p \in StopHooks, NEW q \in StopHooks,
                      Started(p), InBatch(c, p), InBatch(c, q),
                      StartsBefore(ModuleOf[p], ModuleOf[q])
               PROVE  verdict[q] # "none"
    BY DEF LifetimesNest
  <2>1. /\ p \in Hooks /\ PhaseOf[p] = "stop" /\ q \in Hooks /\ PhaseOf[q] = "stop"
    BY HookAssumption DEF StopHooks, StartHooks, Phases
  <2>2. PICK g \in StartHooks, h \in StartHooks :
            Order[g] < Order[h] /\ ModuleOf[g] = ModuleOf[p] /\ ModuleOf[h] = ModuleOf[q]
    BY DEF StartsBefore
  <2>3. g \in Hooks /\ PhaseOf[g] = "start" /\ h \in Hooks /\ PhaseOf[h] = "start"
    BY <2>2 DEF StartHooks
  <2>4. ModuleOf[p] \in DOMAIN Orders /\ ModuleOf[q] \in DOMAIN Orders
    BY <2>1, ServerAssumption
  <2>5. Order[q] < Order[p]
    <3>1. /\ Order[g] = Orders[ModuleOf[p]]["start"] /\ "start" \in DOMAIN Orders[ModuleOf[p]]
          /\ Order[h] = Orders[ModuleOf[q]]["start"] /\ "start" \in DOMAIN Orders[ModuleOf[q]]
          /\ Order[p] = Orders[ModuleOf[p]]["stop"] /\ "stop" \in DOMAIN Orders[ModuleOf[p]]
          /\ Order[q] = Orders[ModuleOf[q]]["stop"] /\ "stop" \in DOMAIN Orders[ModuleOf[q]]
      BY <2>1, <2>2, <2>3 DEF OrdersAsRegistered
    <3> QED  BY <2>2, <2>4, <3>1, OrdersMirror
  <2>6. Prior(q, p)
    BY <2>5 DEF Prior
  <2> QED  BY <1>1, <2>1, <2>6, PriorJudged
<1> QED  BY <1>1, LifeInvariance, PTL

\* Whatever modules, hooks and callers there are: when every shutdown() that began has
\* ended, a resource is still open only if a hook of its module ran out of time or its
\* stop hook was refused at the limit, provided that each module registers a stop hook.
THEOREM ResourcesReleased ==
  ASSUME StopHooksThere
  PROVE  LifeSpec => []ReleasedUnlessLate
<1>1. ASSUME IInv, OrderInv, LInv, RInv
      PROVE  ReleasedUnlessLate
  <2> SUFFICES ASSUME NEW c \in Callers, stage[c] = "returned", phase[c] = "stop",
                      \A d \in Callers : stage[d] # "stop",
                      NEW m \in Modules, store[m] = "open"
               PROVE  \E h \in Hooks :
                          ModuleOf[h] = m /\ (verdict[h] = "timeout" \/ RefusedAtLimit(h))
    BY DEF ReleasedUnlessLate
  <2> USE <1>1 DEF IInv, LInv, RInv, HookInv, TypeOK
  <2>1. PICK h \in BuiltinHooks : ModuleOf[h] = m /\ PhaseOf[h] = "stop"
    BY DEF StopHooksThere
  <2>2. h \in Hooks /\ h \in StopHooks
    BY <2>1, ServerAssumption DEF BuiltinHooks, StopHooks, StartHooks
  <2>3. closure[h] # "unregistered"
    BY StopAfterOk DEF AllRegistered
  <2>4. \A d \in Callers : phase[d] = "stop" => pc[d] \notin {"loop", "wait"}
    BY DEF PhaseInv
  <2>5. CASE closure[h] = "dropped"
    BY <2>1, <2>2, <2>5 DEF StopsKept, RefusedAtLimit
  <2>6. closure[h] # "held"
    <3> SUFFICES ASSUME closure[h] = "held"
                 PROVE  FALSE
      OBVIOUS
    <3>0. closure[h] = "held"
      OBVIOUS
    <3>1. \A i \in DOMAIN registry["stop"] : registry["stop"][i] # h
      BY DEF StopsTaken
    <3>2. PICK d \in Callers : \E i \in Pending[d] : batch[d][i] = h
      <4>1. HeldSomewhere
        BY <1>1 DEF IInv, SlotInv
      <4>2. \/ \E i \in DOMAIN registry["stop"] : registry["stop"][i] = h
            \/ \E d \in Callers : \E i \in Pending[d] : batch[d][i] = h
        BY ONLY <2>1, <2>2, <3>0, <4>1 DEF HeldSomewhere
      <4> QED  BY <3>1, <4>2
    <3>3. PICK i \in Pending[d] : batch[d][i] = h
      BY <3>2
    <3>4. i \in DOMAIN batch[d] /\ pc[d] \in {"loop", "wait"}
      BY <3>3 DEF SlotInv, PendingHeld, Pending
    <3> QED  BY <2>1, <2>4, <3>3, <3>4 DEF BatchInv
  <2>7. CASE Started(h)
    <3>1. PICK d \in Callers : phase[d] = "stop" /\ InBatch(d, h)
      BY <2>1, <2>2, <2>7 DEF BatchInv
    <3>2. PICK i \in DOMAIN batch[d] : batch[d][i] = h
      BY <3>1 DEF InBatch
    <3>3. pc[d] = "ok"
      BY <2>4, <3>1, <3>2 DEF OrderInv, IdleEmpty, ProgressInv, AtErr
    <3>4. verdict[h] # "none"
      BY <3>2, <3>3 DEF ProgressInv, AtOk, Answered
    <3>5. verdict[h] = "timeout" \/ closure[h] \in {"ok", "err"}
      BY <2>2, <3>4 DEF ProgressInv, VerdictTrue, Verdicts
    <3>6. CASE closure[h] \in {"ok", "err"}
      BY <2>1, <2>2, <3>6 DEF StoppedIsClosed, StartHooks
    <3> QED  BY <2>1, <2>2, <3>5, <3>6
  <2> QED  BY <2>2, <2>3, <2>5, <2>6, <2>7 DEF Started, ClosureStates
<1> QED  BY <1>1, LifeInvariance, PTL

\* Whichever start hook made init() fail, and whatever others register meanwhile, the
\* stop hooks of the modules wait in the list for a shutdown().
THEOREM FailureKeepsStops == LifeSpec => []FailedInitKeepsStops
<1>1. ASSUME IInv, LInv, RInv
      PROVE  FailedInitKeepsStops
  <2> SUFFICES ASSUME initResult = "err", NEW h \in StopHooks \cap BuiltinHooks, ~RefusedAtLimit(h)
               PROVE  \E i \in DOMAIN registry["stop"] : registry["stop"][i] = h
    BY DEF FailedInitKeepsStops
  <2> USE <1>1 DEF IInv, LInv, RInv, HookInv, TypeOK
  <2>1. h \in Hooks /\ PhaseOf[h] = "stop"
    BY HookAssumption DEF StopHooks, StartHooks, Phases
  <2>2. \A c \in Callers : phase[c] # "stop"
    BY StopAfterOk
  <2>3. ~Started(h)
    BY <2>1, <2>2 DEF BatchInv
  <2>4. closure[h] # "unregistered" /\ closure[h] # "dropped"
    BY DEF AllRegistered, StopsKept, RefusedAtLimit
  <2>5. closure[h] = "held"
    BY <2>1, <2>3, <2>4 DEF Started, ClosureStates
  <2>6. ASSUME NEW c \in Callers, NEW i \in Pending[c], batch[c][i] = h
        PROVE  FALSE
    <3>1. i \in DOMAIN batch[c]
      BY DEF SlotInv, PendingHeld
    <3> QED  BY <2>1, <2>2, <2>6, <3>1 DEF BatchInv
  <2> QED  BY <2>1, <2>5, <2>6 DEF SlotInv, HeldSomewhere
<1> QED  BY <1>1, LifeInvariance, PTL
=============================================================================
