---------------------------- MODULE XTaskProofs ----------------------------
(***************************************************************************)
(* Proofs about xutil's tasks, for any jobs, numbers of retries, workers   *)
(* and places of the channel: callers are told the truth, and the pool     *)
(* loses a job only when all of its workers have died of panics.           *)
(***************************************************************************)
EXTENDS XTask, FiniteSetTheorems, TLAPS

Dead == {w \in Workers : worker[w] = "dead"}
Panicked == {j \in Pooled : state[j] = "panicked"}

\* The channel holds every queued job, once.
ChannelHoldsQueued ==
    /\ \A i \in DOMAIN queue : state[queue[i]] = "queued"
    /\ \A i, k \in DOMAIN queue : queue[i] = queue[k] => i = k
    /\ \A j \in Jobs : state[j] = "queued" => \E i \in DOMAIN queue : queue[i] = j

\* A job of the pool that is under way has a busy worker of its own.
HasWorker ==
    /\ \A j \in Jobs : by[j] = {} \/ (j \in Pooled /\ \E w \in Workers : by[j] = {w})
    /\ \A j \in Jobs : by[j] # {} <=> (j \in Pooled /\ state[j] \in {"running", "failed"})
    /\ \A j \in Jobs : \A w \in by[j] : worker[w] = "busy"
    /\ \A j, k \in Jobs : \A w \in by[j] : w \in by[k] => j = k

\* A worker leaves a closed and empty channel, which stays so.
LeavesNothing == (\E w \in Workers : worker[w] = "gone") => ~open /\ queue = << >>

\* A panic of a job of the pool is the death of a worker, and nothing else is.
PanicsKill == Cardinality(Panicked) = Cardinality(Dead)

LostWithAll == (\E j \in Jobs : state[j] = "lost") => \A w \in Workers : worker[w] = "dead"

\* An attempt that is under way is the first or a retry there was one left for.
Attempts ==
    \A j \in Jobs :
        /\ state[j] = "running" => tries[j] <= Retries[j] + 1
        /\ state[j] = "failed" => tries[j] <= Retries[j]

Types ==
    /\ queue \in Seq(Pooled)
    /\ open \in BOOLEAN
    /\ worker \in [Workers -> {"free", "busy", "dead", "gone"}]
    /\ by \in [Jobs -> SUBSET Workers]
    /\ state \in [Jobs -> States]
    /\ tries \in [Jobs -> Nat]
    /\ answer \in [Jobs -> {"none"} \cup Waiting \cup Told]

PoolInv == ChannelHoldsQueued /\ HasWorker /\ LeavesNothing /\ LostWithAll
JobInv == Attempts /\ AnswerIsHonest
-----------------------------------------------------------------------------
\* The initial state has all the parts of the invariant.
LEMMA InitInv == Init => Types /\ PoolInv /\ JobInv /\ PanicsKill
<1> SUFFICES ASSUME Init PROVE Types /\ PoolInv /\ JobInv /\ PanicsKill
  OBVIOUS
<1> USE TaskAssumption DEF Init
<1>1. Types
  <2>1. "new" \in States /\ << >> \in Seq(Pooled)
    BY DEF States
  <2> QED
    BY <2>1 DEF Types
<1>2. PoolInv
  BY DEF PoolInv, ChannelHoldsQueued, HasWorker, LeavesNothing, LostWithAll
<1>3. JobInv
  BY DEF JobInv, Attempts, AnswerIsHonest
<1>4. PanicsKill
  <2>1. Panicked = {} /\ Dead = {}
    BY DEF Panicked, Dead
  <2> QED
    BY <2>1 DEF PanicsKill
<1> QED
  BY <1>1, <1>2, <1>3, <1>4

\* A job ends well or with an error: only a busy worker is freed.
LEMMA EndsKeeps ==
  ASSUME NEW j \in Jobs, NEW r \in {"ok", "err"}, Types, PoolInv, state[j] = "running",
         Ends(j, r), UNCHANGED <<queue, open, tries, answer>>
  PROVE  Types' /\ PoolInv' /\ Dead' = Dead /\ Panicked' = Panicked
<1> USE TaskAssumption DEF Ends, Types
<1>1. \A w \in Workers : /\ w \in by[j] => worker[w] = "busy" /\ worker'[w] = "free"
                         /\ w \notin by[j] => worker'[w] = worker[w]
  BY DEF PoolInv, HasWorker
<1>2. state'[j] = r /\ \A k \in Jobs \ {j} : state'[k] = state[k] /\ by'[k] = by[k]
  OBVIOUS
<1>3. by'[j] = {}
  OBVIOUS
<1>4. Types'
  <2>1. r \in States
    BY DEF States, Finished
  <2>2. worker' \in [Workers -> {"free", "busy", "dead", "gone"}]
    OBVIOUS
  <2>3. state' \in [Jobs -> States] /\ by' \in [Jobs -> SUBSET Workers]
    BY <2>1
  <2> QED
    BY <2>2, <2>3
<1>5. ChannelHoldsQueued'
  <2>1. \A i \in DOMAIN queue : queue[i] \in Jobs /\ queue[i] # j
    BY DEF PoolInv, ChannelHoldsQueued
  <2> QED
    BY <1>2, <2>1 DEF PoolInv, ChannelHoldsQueued
<1>6. HasWorker'
  <2>1. \A k \in Jobs : \A w \in by'[k] : k # j /\ w \in by[k] /\ w \notin by[j]
    BY <1>2, <1>3 DEF PoolInv, HasWorker
  <2> QED
    BY <1>1, <1>2, <1>3, <2>1 DEF PoolInv, HasWorker
<1>7. LeavesNothing'
  BY <1>1 DEF PoolInv, LeavesNothing
<1>8. LostWithAll'
  BY <1>1, <1>2 DEF PoolInv, LostWithAll, HasWorker
<1>9. Dead' = Dead
  BY <1>1 DEF Dead
<1>10. Panicked' = Panicked
  BY <1>2 DEF Panicked
<1> QED
  BY <1>4, <1>5, <1>6, <1>7, <1>8, <1>9, <1>10 DEF PoolInv

\* A panic outside of the pool changes the pool in nothing; one inside takes the
\* worker, and with the last worker the channel goes and what is in it.
LEMMA PanicKeeps ==
  ASSUME NEW j \in Jobs, Types, PoolInv, PanicsKill, Panic(j)
  PROVE  Types' /\ PoolInv' /\ PanicsKill'
<1> USE TaskAssumption DEF Panic, Types
<1> DEFINE Over == \A w \in Workers : worker'[w] \in {"dead", "gone"}
<1>1. \A w \in Workers : /\ w \in by[j] => worker[w] = "busy" /\ worker'[w] = "dead"
                         /\ w \notin by[j] => worker'[w] = worker[w]
  BY DEF PoolInv, HasWorker
<1>2. by'[j] = {} /\ \A k \in Jobs \ {j} : by'[k] = by[k]
  OBVIOUS
<1>3. state' \in [Jobs -> States] /\ state'[j] = "panicked"
  BY DEF Abandoned, States, Finished
<1>4. \A k \in Jobs \ {j} :
          state'[k] = IF Over /\ state[k] = "queued" THEN "lost" ELSE state[k]
  BY DEF Abandoned
<1>5. queue' = IF Over THEN << >> ELSE queue
  OBVIOUS
<1>6. Types'
  <2>1. worker' \in [Workers -> {"free", "busy", "dead", "gone"}]
    OBVIOUS
  <2>2. by' \in [Jobs -> SUBSET Workers] /\ queue' \in Seq(Pooled)
    OBVIOUS
  <2> QED
    BY <1>3, <2>1, <2>2
<1>7. ChannelHoldsQueued'
  <2>1. \A i \in DOMAIN queue : queue[i] \in Jobs /\ queue[i] # j
    BY DEF PoolInv, ChannelHoldsQueued
  <2>2. CASE Over
    <3>1. queue' = << >> /\ \A k \in Jobs : state'[k] # "queued"
      BY <1>3, <1>4, <1>5, <2>2
    <3>2. DOMAIN queue' = {}
      BY <3>1
    <3> QED
      BY <3>1, <3>2 DEF ChannelHoldsQueued
  <2>3. CASE ~Over
    <3>1. queue' = queue /\ \A k \in Jobs \ {j} : state'[k] = state[k]
      BY <1>4, <1>5, <2>3
    <3>2. \A i \in DOMAIN queue : state'[queue[i]] = "queued"
      BY <2>1, <3>1 DEF PoolInv, ChannelHoldsQueued
    <3>3. \A k \in Jobs : state'[k] = "queued" => state[k] = "queued"
      BY <1>3, <3>1
    <3>4. \A k \in Jobs : state'[k] = "queued" => \E i \in DOMAIN queue : queue[i] = k
      BY <3>3 DEF PoolInv, ChannelHoldsQueued
    <3>5. \A i, k \in DOMAIN queue : queue[i] = queue[k] => i = k
      BY DEF PoolInv, ChannelHoldsQueued
    <3>6. queue' = queue
      BY <3>1
    <3> QED
      <4>1. \A i \in DOMAIN queue' : state'[queue'[i]] = "queued"
        BY <3>2, <3>6
      <4>2. \A i, k \in DOMAIN queue' : queue'[i] = queue'[k] => i = k
        BY <3>5, <3>6
      <4>3. \A k \in Jobs : state'[k] = "queued" => \E i \in DOMAIN queue' : queue'[i] = k
        BY <3>4, <3>6
      <4> QED
        BY <4>1, <4>2, <4>3 DEF ChannelHoldsQueued
  <2> QED
    BY <2>2, <2>3
<1>8. HasWorker'
  <2>1. \A k \in Jobs : \A w \in by'[k] : k # j /\ w \in by[k] /\ w \notin by[j]
    BY <1>2 DEF PoolInv, HasWorker
  <2>2. \A k \in Jobs \ {j} : state'[k] \in {"running", "failed"} <=> state[k] \in {"running", "failed"}
    BY <1>4
  <2>3. \A k \in Jobs : by'[k] = {} \/ (k \in Pooled /\ \E w \in Workers : by'[k] = {w})
    BY <1>2 DEF PoolInv, HasWorker
  <2>4. \A k \in Jobs : by'[k] # {} <=> (k \in Pooled /\ state'[k] \in {"running", "failed"})
    BY <1>2, <1>3, <2>2 DEF PoolInv, HasWorker
  <2>5. \A k \in Jobs : \A w \in by'[k] : worker'[w] = "busy"
    BY <1>1, <2>1 DEF PoolInv, HasWorker
  <2>6. \A k, l \in Jobs : \A w \in by'[k] : w \in by'[l] => k = l
    BY <2>1 DEF PoolInv, HasWorker
  <2> QED
    BY <2>3, <2>4, <2>5, <2>6 DEF HasWorker
<1>9. LeavesNothing'
  BY <1>1, <1>5 DEF PoolInv, LeavesNothing
<1>10. LostWithAll'
  <2> SUFFICES ASSUME NEW k \in Jobs, state'[k] = "lost" PROVE \A w \in Workers : worker'[w] = "dead"
    BY DEF LostWithAll
  <2>1. CASE state[k] = "lost"
    BY <1>1, <2>1 DEF PoolInv, LostWithAll
  <2>2. CASE state[k] # "lost"
    <3>1. k # j /\ Over /\ state[k] = "queued"
      BY <1>3, <1>4, <2>2
    <3>2. queue # << >>
      BY <3>1 DEF PoolInv, ChannelHoldsQueued
    <3>3. \A w \in Workers : worker[w] # "gone"
      BY <3>2 DEF PoolInv, LeavesNothing
    <3> QED
      BY <1>1, <3>1, <3>3
  <2> QED
    BY <2>1, <2>2
<1>11. PanicsKill'
  <2>1. IsFiniteSet(Dead) /\ IsFiniteSet(Panicked)
    <3>1. Dead \in SUBSET Workers /\ Panicked \in SUBSET Jobs
      BY DEF Dead, Panicked
    <3> QED
      BY <3>1, FS_Subset
  <2>2. CASE by[j] = {}
    <3>1. Dead' = Dead
      BY <1>1, <2>2 DEF Dead
    <3>2. j \notin Pooled
      BY <2>2 DEF PoolInv, HasWorker
    <3>3. Panicked' = Panicked
      BY <1>4, <3>2 DEF Panicked
    <3> QED
      BY <3>1, <3>3 DEF PanicsKill
  <2>3. CASE by[j] # {}
    <3>1. PICK w \in Workers : by[j] = {w}
      BY <2>3 DEF PoolInv, HasWorker
    <3>2. worker[w] = "busy" /\ Dead' = Dead \cup {w}
      BY <1>1, <3>1 DEF Dead
    <3>3. j \in Pooled
      BY <2>3 DEF PoolInv, HasWorker
    <3>4. Panicked' = Panicked \cup {j} /\ j \notin Panicked
      BY <1>3, <1>4, <3>3 DEF Panicked
    <3>5. w \notin Dead
      BY <3>2 DEF Dead
    <3>6. Cardinality(Dead') = Cardinality(Dead) + 1
      BY <2>1, <3>2, <3>5, FS_AddElement
    <3>7. Cardinality(Panicked') = Cardinality(Panicked) + 1
      BY <2>1, <3>4, FS_AddElement
    <3> QED
      BY <3>6, <3>7 DEF PanicsKill
  <2> QED
    BY <2>2, <2>3
<1> QED
  BY <1>6, <1>7, <1>8, <1>9, <1>10, <1>11 DEF PoolInv
-----------------------------------------------------------------------------
\* The pool's part of the invariant is kept by every step.
LEMMA PoolInvariance ==
  ASSUME Types, PoolInv, PanicsKill, [Next]_vars
  PROVE  Types' /\ PoolInv' /\ PanicsKill'
<1> USE TaskAssumption
<1> DEFINE Goal == Types' /\ PoolInv' /\ PanicsKill'
<1>1. ASSUME Dead' = Dead, Panicked' = Panicked PROVE PanicsKill'
  BY <1>1 DEF PanicsKill
<1>2. ASSUME NEW j \in Jobs, Submit(j) PROVE Goal
  <2>1. Dead' = Dead /\ Panicked' = Panicked
    BY <1>2 DEF Submit, Dead, Panicked, Types
  <2>2. CASE state'[j] = "refused"
    <3>1. queue' = queue /\ state' = [state EXCEPT ![j] = "refused"] /\ state[j] = "new"
      BY <1>2, <2>2 DEF Submit, Types
    <3>2. Types'
      BY <1>2, <3>1 DEF Submit, Types, States
    <3>3. PoolInv'
      <4>1. ChannelHoldsQueued'
        BY <1>2, <3>1 DEF Submit, Types, PoolInv, ChannelHoldsQueued
      <4>2. HasWorker'
        BY <1>2, <3>1 DEF Submit, Types, PoolInv, HasWorker
      <4> QED
        BY <1>2, <3>1, <4>1, <4>2 DEF Submit, Types, PoolInv, LeavesNothing, LostWithAll
    <3> QED
      BY <1>1, <2>1, <3>2, <3>3
  <2>3. CASE state'[j] # "refused"
    <3>1. /\ queue' = Append(queue, j) /\ state' = [state EXCEPT ![j] = "queued"]
          /\ state[j] = "new" /\ open /\ j \in Pooled
      BY <1>2, <2>3 DEF Submit, Types
    <3>2. Types'
      BY <1>2, <3>1 DEF Submit, Types, States
    <3>3. DOMAIN queue' = 1 .. Len(queue) + 1 /\ queue'[Len(queue) + 1] = j
          /\ \A i \in DOMAIN queue : queue'[i] = queue[i] /\ queue[i] # j
      BY <3>1 DEF Types, PoolInv, ChannelHoldsQueued
    <3>4. ChannelHoldsQueued'
      <4>1. \A i \in DOMAIN queue' : state'[queue'[i]] = "queued"
        <5>1. \A i \in DOMAIN queue : queue[i] \in Jobs /\ state'[queue[i]] = "queued"
          BY <3>1, <3>3 DEF Types, PoolInv, ChannelHoldsQueued
        <5>2. DOMAIN queue' = DOMAIN queue \cup {Len(queue) + 1} /\ state'[j] = "queued"
          BY <3>1, <3>3 DEF Types
        <5> QED
          BY <3>3, <5>1, <5>2
      <4>2. \A i, k \in DOMAIN queue' : queue'[i] = queue'[k] => i = k
        BY <3>1, <3>3 DEF Types, PoolInv, ChannelHoldsQueued
      <4>3. ASSUME NEW k \in Jobs, state'[k] = "queued" PROVE \E i \in DOMAIN queue' : queue'[i] = k
        <5>1. CASE k = j
          <6>1. Len(queue) + 1 \in DOMAIN queue'
            BY <3>1, <3>3 DEF Types
          <6> QED
            BY <3>3, <5>1, <6>1
        <5>2. CASE k # j
          <6>1. state[k] = "queued"
            BY <3>1, <4>3, <5>2 DEF Types
          <6>2. PICK i \in DOMAIN queue : queue[i] = k
            BY <6>1 DEF PoolInv, ChannelHoldsQueued
          <6>3. i \in DOMAIN queue' /\ queue'[i] = k
            BY <3>1, <3>3, <6>2 DEF Types
          <6> QED
            BY <6>3
        <5> QED
          BY <5>1, <5>2
      <4> QED
        BY <4>1, <4>2, <4>3 DEF ChannelHoldsQueued
    <3>5. HasWorker'
      BY <1>2, <3>1 DEF Submit, Types, PoolInv, HasWorker
    <3>6. LeavesNothing' /\ LostWithAll'
      BY <1>2, <3>1 DEF Submit, Types, PoolInv, LeavesNothing, LostWithAll
    <3> QED
      BY <1>1, <2>1, <3>2, <3>4, <3>5, <3>6 DEF PoolInv
  <2> QED
    BY <2>2, <2>3
<1>3. CASE Shutdown
  <2>1. Types'
    BY <1>3 DEF Shutdown, Types
  <2>2. ChannelHoldsQueued' /\ HasWorker'
    BY <1>3 DEF Shutdown, PoolInv, ChannelHoldsQueued, HasWorker
  <2>3. LeavesNothing' /\ LostWithAll'
    BY <1>3 DEF Shutdown, PoolInv, LeavesNothing, LostWithAll
  <2>4. Dead' = Dead /\ Panicked' = Panicked
    BY <1>3 DEF Shutdown, Dead, Panicked
  <2> QED
    BY <1>1, <2>1, <2>2, <2>3, <2>4 DEF PoolInv
<1>4. ASSUME NEW w \in Workers, Take(w) PROVE Goal
  <2> DEFINE j == Head(queue)
  <2>1. /\ j \in Pooled /\ j \in Jobs /\ 1 \in DOMAIN queue /\ j = queue[1] /\ state[j] = "queued"
        /\ by[j] = {} /\ worker[w] = "free"
    <3>1. j \in Pooled /\ 1 \in DOMAIN queue /\ j = queue[1] /\ worker[w] = "free"
      BY <1>4 DEF Take, Types
    <3>2. state[j] = "queued"
      BY <3>1 DEF PoolInv, ChannelHoldsQueued
    <3>3. by[j] = {}
      BY <3>1, <3>2 DEF PoolInv, HasWorker
    <3> QED
      BY <3>1, <3>2, <3>3
  <2>2. /\ worker' = [worker EXCEPT ![w] = "busy"] /\ by' = [by EXCEPT ![j] = {w}]
        /\ state' = [state EXCEPT ![j] = "running"] /\ tries' = [tries EXCEPT ![j] = 1]
        /\ queue' = Tail(queue) /\ UNCHANGED <<open, answer>>
    BY <1>4 DEF Take
  <2> HIDE DEF j
  <2>3. Types'
    BY <2>1, <2>2 DEF Types, States
  <2>4. /\ DOMAIN queue' = 1 .. Len(queue) - 1
        /\ \A i \in DOMAIN queue' : i + 1 \in DOMAIN queue /\ queue'[i] = queue[i + 1]
    BY <2>1, <2>2 DEF Types
  <2>5. ChannelHoldsQueued'
    <3>1. \A i \in DOMAIN queue' : queue'[i] # j
      BY <2>1, <2>4 DEF Types, PoolInv, ChannelHoldsQueued
    <3>2. \A i \in DOMAIN queue' : state'[queue'[i]] = "queued"
      BY <2>2, <2>4, <3>1 DEF Types, PoolInv, ChannelHoldsQueued
    <3>3. \A i, k \in DOMAIN queue' : queue'[i] = queue'[k] => i = k
      BY <2>4 DEF Types, PoolInv, ChannelHoldsQueued
    <3>4. ASSUME NEW k \in Jobs, state'[k] = "queued" PROVE \E i \in DOMAIN queue' : queue'[i] = k
      <4>1. k # j /\ state[k] = "queued"
        BY <2>1, <2>2, <3>4 DEF Types
      <4>2. PICK i \in DOMAIN queue : queue[i] = k
        BY <4>1 DEF PoolInv, ChannelHoldsQueued
      <4>3. i # 1 /\ i - 1 \in DOMAIN queue'
        BY <2>1, <2>4, <4>1, <4>2 DEF Types
      <4> QED
        BY <2>4, <4>2, <4>3 DEF Types
    <3> QED
      BY <3>2, <3>3, <3>4 DEF ChannelHoldsQueued
  <2>6. HasWorker'
    <3>1. \A k \in Jobs \ {j} : by'[k] = by[k] /\ state'[k] = state[k] /\ w \notin by[k]
      BY <2>1, <2>2 DEF Types, PoolInv, HasWorker
    <3>2. by'[j] = {w} /\ state'[j] = "running"
      BY <2>1, <2>2 DEF Types
    <3>3. worker'[w] = "busy" /\ \A v \in Workers \ {w} : worker'[v] = worker[v]
      BY <2>2 DEF Types
    <3>4. \A k \in Jobs : by'[k] = {} \/ (k \in Pooled /\ \E v \in Workers : by'[k] = {v})
      BY <2>1, <3>1, <3>2 DEF PoolInv, HasWorker
    <3>5. \A k \in Jobs : by'[k] # {} <=> (k \in Pooled /\ state'[k] \in {"running", "failed"})
      BY <2>1, <3>1, <3>2 DEF PoolInv, HasWorker
    <3>6. \A k \in Jobs : \A v \in by'[k] : worker'[v] = "busy"
      <4>1. \A v \in by'[j] : worker'[v] = "busy"
        BY <3>2, <3>3
      <4>2. ASSUME NEW k \in Jobs \ {j}, NEW v \in by'[k] PROVE worker'[v] = "busy"
        <5>1. v \in by[k] /\ v # w /\ v \in Workers
          BY <3>1 DEF Types
        <5>2. worker[v] = "busy"
          BY <5>1 DEF PoolInv, HasWorker
        <5> QED
          BY <3>3, <5>1, <5>2
      <4> QED
        BY <4>1, <4>2
    <3>7. \A k, l \in Jobs : \A v \in by'[k] : v \in by'[l] => k = l
      BY <3>1, <3>2 DEF PoolInv, HasWorker
    <3> QED
      BY <3>4, <3>5, <3>6, <3>7 DEF HasWorker
  <2>7. LeavesNothing'
    BY <2>1, <2>2 DEF Types, PoolInv, LeavesNothing
  <2>8. LostWithAll'
    BY <2>1, <2>2 DEF Types, PoolInv, LostWithAll
  <2>9. Dead' = Dead /\ Panicked' = Panicked
    BY <2>1, <2>2 DEF Types, Dead, Panicked
  <2> QED
    BY <1>1, <2>3, <2>5, <2>6, <2>7, <2>8, <2>9 DEF PoolInv
<1>5. ASSUME NEW w \in Workers, WorkerLeaves(w) PROVE Goal
  <2>1. Types'
    BY <1>5 DEF WorkerLeaves, Types
  <2>2. HasWorker' /\ ChannelHoldsQueued'
    BY <1>5 DEF WorkerLeaves, Types, PoolInv, HasWorker, ChannelHoldsQueued
  <2>3. LeavesNothing' /\ LostWithAll'
    BY <1>5 DEF WorkerLeaves, Types, PoolInv, LeavesNothing, LostWithAll
  <2>4. Dead' = Dead /\ Panicked' = Panicked
    BY <1>5 DEF WorkerLeaves, Types, Dead, Panicked
  <2> QED
    BY <1>1, <2>1, <2>2, <2>3, <2>4 DEF PoolInv
<1>6. ASSUME NEW j \in Jobs, NEW s \in {"running", "failed"},
             state' = [state EXCEPT ![j] = s], state[j] \in {"running", "failed"}
                                               \/ (state[j] = "new" /\ j \notin Pooled),
             tries' \in [Jobs -> Nat], UNCHANGED <<queue, open, worker, by, answer>>
      PROVE  Goal
  <2>1. Types'
    BY <1>6 DEF Types, States
  <2>2. ChannelHoldsQueued'
    BY <1>6 DEF Types, PoolInv, ChannelHoldsQueued
  <2>3. HasWorker'
    BY <1>6 DEF Types, PoolInv, HasWorker
  <2>4. LeavesNothing' /\ LostWithAll'
    BY <1>6 DEF Types, PoolInv, LeavesNothing, LostWithAll
  <2>5. Dead' = Dead /\ Panicked' = Panicked
    BY <1>6 DEF Types, Dead, Panicked
  <2> QED
    BY <1>1, <2>1, <2>2, <2>3, <2>4, <2>5 DEF PoolInv
<1>7. ASSUME NEW j \in Jobs, Spawn(j) PROVE Goal
  BY <1>6, <1>7 DEF Spawn, Types
<1>8. ASSUME NEW j \in Jobs, AttemptFails(j) PROVE Goal
  <2>1. CASE tries[j] <= Retries[j]
    BY <1>6, <1>8, <2>1 DEF AttemptFails, Types
  <2>2. CASE ~(tries[j] <= Retries[j])
    BY <1>1, <1>8, <2>2, EndsKeeps DEF AttemptFails
  <2> QED
    BY <2>1, <2>2
<1>9. ASSUME NEW j \in Jobs, Again(j) PROVE Goal
  <2>1. tries' \in [Jobs -> Nat]
    BY <1>9 DEF Again, Types
  <2> QED
    BY <1>6, <1>9, <2>1 DEF Again
<1>10. ASSUME NEW j \in Jobs, AttemptSucceeds(j) PROVE Goal
  BY <1>1, <1>10, EndsKeeps DEF AttemptSucceeds
<1>11. ASSUME NEW j \in Jobs, Panic(j) PROVE Goal
  BY <1>11, PanicKeeps
<1>12. ASSUME answer' \in [Jobs -> {"none"} \cup Waiting \cup Told],
              UNCHANGED <<queue, open, worker, by, state, tries>> PROVE Goal
  BY <1>1, <1>12 DEF Types, PoolInv, ChannelHoldsQueued, HasWorker, LeavesNothing, LostWithAll,
                     Dead, Panicked
<1>13. ASSUME NEW j \in Jobs, Answer(j) \/ TimeOut(j) PROVE Goal
  BY <1>12, <1>13 DEF Answer, TimeOut, Types, Told
<1>14. ASSUME NEW j \in Jobs, NEW a \in Waiting, Ask(j, a) PROVE Goal
  BY <1>12, <1>14 DEF Ask, Types
<1>15. CASE UNCHANGED vars
  BY <1>12, <1>15 DEF vars, Types
<1> QED
  BY <1>2, <1>3, <1>4, <1>5, <1>7, <1>8, <1>9, <1>10, <1>11, <1>13, <1>14, <1>15 DEF Next

\* A job that ended stays as it ended, and a retry is begun only when one is left.
LEMMA JobInvariance ==
  ASSUME Types, PoolInv, JobInv, [Next]_vars
  PROVE  JobInv'
<1> USE TaskAssumption DEF Types
<1>1. \A j \in Jobs : state[j] \in Finished => state'[j] = state[j] /\ tries'[j] = tries[j]
  <2>1. ASSUME NEW w \in Workers, Take(w)
        PROVE  \A j \in Jobs : state[j] \in Finished => state'[j] = state[j] /\ tries'[j] = tries[j]
    <3>1. Head(queue) \in Jobs /\ state[Head(queue)] = "queued"
      BY <2>1 DEF Take, PoolInv, ChannelHoldsQueued
    <3> QED
      BY <2>1, <3>1 DEF Take, Finished
  <2>2. ASSUME NEW k \in Jobs, Panic(k)
        PROVE  \A j \in Jobs : state[j] \in Finished => state'[j] = state[j] /\ tries'[j] = tries[j]
    BY <2>2 DEF Panic, Abandoned, Finished
  <2> QED
    BY <2>1, <2>2 DEF Next, vars, Submit, Spawn, AttemptFails, Again, AttemptSucceeds, Ends,
                      Answer, TimeOut, Ask, WorkerLeaves, Shutdown, Finished
<1>2. ASSUME NEW k \in Jobs
      PROVE  /\ state'[k] = "running" => tries'[k] <= Retries[k] + 1
             /\ state'[k] = "failed" => tries'[k] <= Retries[k]
  <2> USE DEF JobInv, Attempts
  <2>0. tries[k] \in Nat /\ Retries[k] \in Nat
    OBVIOUS
  <2>1. ASSUME NEW w \in Workers, Take(w)
        PROVE  state'[k] = "running" => tries'[k] <= Retries[k] + 1
    <3>1. Head(queue) \in Jobs
      BY <2>1 DEF Take
    <3>2. CASE k = Head(queue)
      BY <2>0, <2>1, <3>1, <3>2 DEF Take
    <3>3. CASE k # Head(queue)
      BY <2>0, <2>1, <3>1, <3>3 DEF Take
    <3> QED
      BY <3>2, <3>3
  <2>2. ASSUME NEW w \in Workers, Take(w) PROVE state'[k] = "failed" => tries'[k] <= Retries[k]
    <3>1. Head(queue) \in Jobs
      BY <2>2 DEF Take
    <3> QED
      BY <2>0, <2>2, <3>1 DEF Take
  <2>3. ASSUME NEW j \in Jobs, Panic(j)
        PROVE  state'[k] \in {"running", "failed"} => state'[k] = state[k] /\ tries'[k] = tries[k]
    BY <2>3 DEF Panic, Abandoned
  <2>4. ASSUME NEW j \in Jobs, Spawn(j) \/ AttemptFails(j) \/ Again(j)
        PROVE  /\ state'[k] = "running" => tries'[k] <= Retries[k] + 1
               /\ state'[k] = "failed" => tries'[k] <= Retries[k]
    <3>1. CASE k = j
      BY <2>0, <2>4, <3>1 DEF Spawn, AttemptFails, Again, Ends
    <3>2. CASE k # j
      BY <2>0, <2>4, <3>2 DEF Spawn, AttemptFails, Again, Ends
    <3> QED
      BY <3>1, <3>2
  <2>5. ASSUME NEW j \in Jobs, Submit(j) \/ AttemptSucceeds(j) \/ Answer(j) \/ TimeOut(j)
        PROVE  state'[k] \in {"running", "failed"} => state'[k] = state[k] /\ tries'[k] = tries[k]
    BY <2>5 DEF Submit, AttemptSucceeds, Ends, Answer, TimeOut
  <2> QED
    BY <2>1, <2>2, <2>3, <2>4, <2>5 DEF Next, vars, Ask, WorkerLeaves, Shutdown
<1>3. ASSUME NEW k \in Jobs, state'[k] = "err" PROVE tries'[k] = Retries[k] + 1
  <2> USE DEF JobInv, Attempts, AnswerIsHonest
  <2>0. tries[k] \in Nat /\ Retries[k] \in Nat
    OBVIOUS
  <2>1. CASE state[k] = "err"
    BY <1>1, <2>1 DEF Finished
  <2>2. CASE state[k] # "err"
    <3>1. AttemptFails(k) /\ state[k] = "running" /\ ~(tries[k] <= Retries[k])
      <4>1. ASSUME NEW w \in Workers, Take(w) PROVE FALSE
        BY <1>3, <2>2, <4>1 DEF Take
      <4>2. ASSUME NEW j \in Jobs, Panic(j) PROVE FALSE
        BY <1>3, <2>2, <4>2 DEF Panic, Abandoned
      <4> QED
        BY <1>3, <2>2, <4>1, <4>2 DEF Next, vars, Submit, Spawn, AttemptFails, Again,
           AttemptSucceeds, Ends, Answer, TimeOut, Ask, WorkerLeaves, Shutdown
    <3> QED
      BY <2>0, <3>1 DEF AttemptFails
  <2> QED
    BY <2>1, <2>2
<1>4. ASSUME NEW k \in Jobs
      PROVE  /\ answer'[k] = "value" => state'[k] \in {"ok", "err"}
             /\ answer'[k] = "cancelled" => state'[k] = "panicked"
             /\ answer'[k] = "joined" => state'[k] \in Finished
  <2> USE DEF JobInv, AnswerIsHonest, Finished
  <2>1. CASE answer'[k] = answer[k]
    BY <1>1, <2>1
  <2>2. CASE answer'[k] # answer[k]
    <3>1. Answer(k) \/ TimeOut(k) \/ \E a \in Waiting : Ask(k, a)
      BY <2>2 DEF Next, vars, Submit, Spawn, AttemptFails, Again, AttemptSucceeds, Ends,
                  Answer, TimeOut, Ask, WorkerLeaves, Shutdown, Take, Panic
    <3> QED
      BY <3>1 DEF Answer, TimeOut, Ask, Waiting
  <2> QED
    BY <2>1, <2>2
<1> QED
  BY <1>2, <1>3, <1>4 DEF JobInv, Attempts, AnswerIsHonest
\* The channel never holds more than its places.
LEMMA CapacityKept ==
  ASSUME Types, Len(queue) <= Capacity, [Next]_vars
  PROVE  Len(queue') <= Capacity
<1> USE TaskAssumption DEF Types
<1>1. Capacity \in Nat /\ Len(queue) \in Nat
  BY FS_CardinalityType DEF Capacity
<1> HIDE DEF Capacity
<1>2. ASSUME NEW j \in Jobs, Submit(j) PROVE Len(queue') <= Capacity
  BY <1>1, <1>2 DEF Submit
<1>3. ASSUME NEW w \in Workers, Take(w) PROVE Len(queue') <= Capacity
  BY <1>1, <1>3 DEF Take
<1>4. ASSUME NEW j \in Jobs, Panic(j) PROVE Len(queue') <= Capacity
  <2>1. queue' = << >> \/ queue' = queue
    BY <1>4 DEF Panic
  <2> QED
    BY <1>1, <2>1
<1> QED
  BY <1>2, <1>3, <1>4 DEF Next, vars, Spawn, AttemptFails, Again, AttemptSucceeds, Answer, TimeOut,
                          Ask, WorkerLeaves, Shutdown
-----------------------------------------------------------------------------
\* Every variable keeps its type and the channel its bound, for a pool of any size.
THEOREM TypeCorrect == Spec => []TypeOK
<1>1. Types /\ PoolInv /\ JobInv /\ PanicsKill /\ [Next]_vars
      => (Types /\ PoolInv /\ JobInv /\ PanicsKill)'
  BY PoolInvariance, JobInvariance
<1>2. Init => Len(queue) <= Capacity
  <2>1. Capacity \in Nat
    BY TaskAssumption, FS_CardinalityType DEF Capacity
  <2> QED
    BY <2>1 DEF Init
<1>3. Types /\ Len(queue) <= Capacity => TypeOK
  BY DEF Types, TypeOK
<1>4. Types /\ Len(queue) <= Capacity /\ [Next]_vars => Len(queue') <= Capacity
  BY CapacityKept
<1>5. UNCHANGED Capacity
  BY DEF Capacity
<1> DEFINE Bounded == Len(queue) <= Capacity
<1>6. Types /\ Bounded /\ [Next]_vars => Bounded'
  BY <1>4, <1>5
<1>7. Init => Bounded
  BY <1>2
<1>8. Types /\ Bounded => TypeOK
  BY <1>3
<1> HIDE DEF Bounded
<1> QED
  BY <1>1, <1>6, <1>7, <1>8, InitInv, PTL DEF Spec

\* Callers are told the truth, whatever jobs do and however their ends race the
\* timeouts, for any numbers of retries.
THEOREM AnswersAreHonest == Spec => []AnswerIsHonest
<1>1. Types /\ PoolInv /\ JobInv /\ PanicsKill /\ [Next]_vars
      => (Types /\ PoolInv /\ JobInv /\ PanicsKill)'
  BY PoolInvariance, JobInvariance
<1>2. JobInv => AnswerIsHonest
  BY DEF JobInv
<1> QED
  BY <1>1, <1>2, InitInv, PTL DEF Spec

\* A pool of any size loses an accepted job only when every one of its workers died of
\* a panic; shutdown() loses none.
THEOREM LossesNeedPanics == Spec => []LossNeedsPanics
<1>1. Types /\ PoolInv /\ JobInv /\ PanicsKill /\ [Next]_vars
      => (Types /\ PoolInv /\ JobInv /\ PanicsKill)'
  BY PoolInvariance, JobInvariance
<1>2. PoolInv /\ PanicsKill => LossNeedsPanics
  <2> SUFFICES ASSUME PoolInv, PanicsKill, \E j \in Jobs : state[j] = "lost"
               PROVE  Cardinality(Panicked) = Cardinality(Workers)
    BY DEF LossNeedsPanics, Panicked
  <2>1. Dead = Workers
    BY DEF PoolInv, LostWithAll, Dead
  <2> QED
    BY <2>1 DEF PanicsKill
<1> QED
  BY <1>1, <1>2, InitInv, PTL DEF Spec
=============================================================================
