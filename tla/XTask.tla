------------------------------- MODULE XTask -------------------------------
(***************************************************************************)
(* The ways xutil runs a job beside its caller: the bounded Pool           *)
(* (xutil/pool.rs), XFuture with its result slot (future.rs) and           *)
(* spawn_safe (spawn.rs).  The body of a job is a call of retry_async      *)
(* (retry.rs): one attempt and so many retries, any of which may panic.    *)
(* A job that never ends is allowed everywhere.                            *)
(***************************************************************************)
EXTENDS Naturals, Sequences, FiniteSets

CONSTANTS
    Jobs,      \* the closures handed over
    Pooled,    \* those submitted to the pool; the others are tasks of their own
    Retries,   \* per job: max_retries of its body
    Workers,   \* the pool's workers: worker_count.max(1) of them
    PerWorker  \* places of the channel per worker, 16 in the code

ASSUME TaskAssumption ==
    /\ Pooled \subseteq Jobs
    /\ Retries \in [Jobs -> Nat]
    /\ IsFiniteSet(Jobs) /\ IsFiniteSet(Workers) /\ Workers # {}
    /\ PerWorker \in Nat \ {0}

VARIABLES
    queue,    \* the pool's channel
    open,     \* the pool still holds the sender
    worker,   \* per worker: "free", "busy", "dead" of a panic, or "gone"
    by,       \* per job: the set of the worker that runs it
    state,    \* per job, see States
    tries,    \* per job: attempts begun
    answer    \* per job: what its caller waits for or was told, see Answers

vars == <<queue, open, worker, by, state, tries, answer>>

Finished == {"ok", "err", "panicked"}
States == {"new", "refused", "queued", "lost", "running", "failed"} \cup Finished
Waiting == {"get", "timed", "join"}
Told == {"value", "cancelled", "timeout", "joined"}

Capacity == Cardinality(Workers) * PerWorker

\* The receiver lives as long as a worker holds a reference to it.
Deserted == \A w \in Workers : worker[w] \in {"dead", "gone"}
-----------------------------------------------------------------------------
Init ==
    /\ queue = << >>
    /\ open = TRUE
    /\ worker = [w \in Workers |-> "free"]
    /\ by = [j \in Jobs |-> {}]
    /\ state = [j \in Jobs |-> "new"]
    /\ tries = [j \in Jobs |-> 0]
    /\ answer = [j \in Jobs |-> "none"]

\* Pool::submit: try_send, false when the channel is full or has no receiver.
Submit(j) ==
    /\ j \in Pooled /\ state[j] = "new" /\ open
    /\ IF Len(queue) < Capacity /\ ~Deserted
       THEN /\ queue' = Append(queue, j)
            /\ state' = [state EXCEPT ![j] = "queued"]
       ELSE /\ state' = [state EXCEPT ![j] = "refused"]
            /\ UNCHANGED queue
    /\ UNCHANGED <<open, worker, by, tries, answer>>

\* Pool::shutdown, or the pool is dropped: the sender goes, and nobody waits.
Shutdown ==
    /\ open
    /\ open' = FALSE
    /\ UNCHANGED <<queue, worker, by, state, tries, answer>>

\* Mutant: the guard of the receiver's lock lives while the job runs.
TakeLocked(w) ==
    /\ worker[w] = "free" /\ queue # << >>
    /\ \A x \in Workers : worker[x] # "busy"
    /\ worker' = [worker EXCEPT ![w] = "busy"]
    /\ by' = [by EXCEPT ![Head(queue)] = {w}]
    /\ state' = [state EXCEPT ![Head(queue)] = "running"]
    /\ tries' = [tries EXCEPT ![Head(queue)] = 1]
    /\ queue' = Tail(queue)
    /\ UNCHANGED <<open, answer>>

\* A worker's recv: one waits in it with the lock, the others for the lock, which
\* is free again before the job runs.
Take(w) ==
    /\ worker[w] = "free" /\ queue # << >>
    /\ worker' = [worker EXCEPT ![w] = "busy"]
    /\ by' = [by EXCEPT ![Head(queue)] = {w}]
    /\ state' = [state EXCEPT ![Head(queue)] = "running"]
    /\ tries' = [tries EXCEPT ![Head(queue)] = 1]
    /\ queue' = Tail(queue)
    /\ UNCHANGED <<open, answer>>

\* What is still in the channel when its receiver is dropped.
Abandoned(s, workers) ==
    IF \A w \in Workers : workers[w] \in {"dead", "gone"}
    THEN [j \in Jobs |-> IF s[j] = "queued" THEN "lost" ELSE s[j]]
    ELSE s

\* Mutant: the worker looks whether the pool is closed before it receives.
WorkerLeavesEarly(w) ==
    /\ worker[w] = "free" /\ ~open
    /\ worker' = [worker EXCEPT ![w] = "gone"]
    /\ state' = Abandoned(state, worker')
    /\ queue' = IF \A x \in Workers : worker'[x] \in {"dead", "gone"} THEN << >> ELSE queue
    /\ UNCHANGED <<open, by, tries, answer>>

\* recv returns None: the sender is gone and the channel empty.
WorkerLeaves(w) ==
    /\ worker[w] = "free" /\ ~open /\ queue = << >>
    /\ worker' = [worker EXCEPT ![w] = "gone"]
    /\ UNCHANGED <<queue, open, by, state, tries, answer>>

\* XFuture::spawn and spawn_safe: a task of its own.
Spawn(j) ==
    /\ j \notin Pooled /\ state[j] = "new"
    /\ state' = [state EXCEPT ![j] = "running"]
    /\ tries' = [tries EXCEPT ![j] = 1]
    /\ UNCHANGED <<queue, open, worker, by, answer>>
-----------------------------------------------------------------------------
\* The job's future is ready: its worker, if it has one, takes the next.
Ends(j, r) ==
    /\ state' = [state EXCEPT ![j] = r]
    /\ worker' = [w \in Workers |-> IF w \in by[j] THEN "free" ELSE worker[w]]
    /\ by' = [by EXCEPT ![j] = {}]

\* An attempt returns Err: another one follows after the delay, if there is one left.
AttemptFails(j) ==
    /\ state[j] = "running"
    /\ IF tries[j] <= Retries[j]
       THEN state' = [state EXCEPT ![j] = "failed"] /\ UNCHANGED <<worker, by>>
       ELSE Ends(j, "err")
    /\ UNCHANGED <<queue, open, tries, answer>>

\* The delay is over.
Again(j) ==
    /\ state[j] = "failed"
    /\ state' = [state EXCEPT ![j] = "running"]
    /\ tries' = [tries EXCEPT ![j] = @ + 1]
    /\ UNCHANGED <<queue, open, worker, by, answer>>

AttemptSucceeds(j) ==
    /\ state[j] = "running"
    /\ Ends(j, "ok")
    /\ UNCHANGED <<queue, open, tries, answer>>

\* A panic ends the task it happens in: for a job of the pool that is the worker,
\* and with the last worker the receiver and what waits in the channel.
Panic(j) ==
    /\ state[j] = "running"
    /\ worker' = [w \in Workers |-> IF w \in by[j] THEN "dead" ELSE worker[w]]
    /\ by' = [by EXCEPT ![j] = {}]
    /\ state' = Abandoned([state EXCEPT ![j] = "panicked"], worker')
    /\ queue' = IF \A w \in Workers : worker'[w] \in {"dead", "gone"} THEN << >> ELSE queue
    /\ UNCHANGED <<open, tries, answer>>
-----------------------------------------------------------------------------
\* XFuture::get or get_with_timeout, or the await of spawn_safe's handle: which of
\* the two made the task shows only here.
Ask(j, a) ==
    /\ j \notin Pooled /\ state[j] # "new" /\ answer[j] = "none"
    /\ answer' = [answer EXCEPT ![j] = a]
    /\ UNCHANGED <<queue, open, worker, by, state, tries>>

\* Mutant: only a value wakes the caller.
AnswerValue(j) ==
    /\ answer[j] \in Waiting /\ state[j] \in {"ok", "err"}
    /\ answer' = [answer EXCEPT ![j] = IF @ = "join" THEN "joined" ELSE "value"]
    /\ UNCHANGED <<queue, open, worker, by, state, tries>>

\* The slot holds a value, or its sender was dropped by a panic; spawn_safe's outer
\* task has seen the inner one end, and ends well in any case.
Answer(j) ==
    /\ answer[j] \in Waiting /\ state[j] \in Finished
    /\ answer' = [answer EXCEPT ![j] =
           IF @ = "join" THEN "joined"
           ELSE IF state[j] = "panicked" THEN "cancelled" ELSE "value"]
    /\ UNCHANGED <<queue, open, worker, by, state, tries>>

\* Mutant: both failures are reported alike.
TimeOutCancels(j) ==
    /\ answer[j] = "timed"
    /\ answer' = [answer EXCEPT ![j] = "cancelled"]
    /\ UNCHANGED <<queue, open, worker, by, state, tries>>

\* The timeout of get_with_timeout fires; the job goes on and its value is dropped.
\* tokio::time::timeout looks at the slot first.
TimeOut(j) ==
    /\ answer[j] = "timed" /\ state[j] \notin Finished
    /\ answer' = [answer EXCEPT ![j] = "timeout"]
    /\ UNCHANGED <<queue, open, worker, by, state, tries>>
-----------------------------------------------------------------------------
Next ==
    \/ \E j \in Jobs : Submit(j) \/ Spawn(j) \/ AttemptFails(j) \/ Again(j)
    \/ \E j \in Jobs : AttemptSucceeds(j) \/ Panic(j) \/ Answer(j) \/ TimeOut(j)
    \/ \E j \in Jobs, a \in Waiting : Ask(j, a)
    \/ \E w \in Workers : Take(w) \/ WorkerLeaves(w)
    \/ Shutdown

\* The runtime runs tasks that were woken and its timers fire; no job need end.
Spec ==
    /\ Init /\ [][Next]_vars
    /\ \A w \in Workers : WF_vars(Take(w))
    /\ \A j \in Jobs : WF_vars(Answer(j) \/ TimeOut(j))
-----------------------------------------------------------------------------
TypeOK ==
    /\ queue \in Seq(Pooled) /\ Len(queue) <= Capacity
    /\ open \in BOOLEAN
    /\ worker \in [Workers -> {"free", "busy", "dead", "gone"}]
    /\ by \in [Jobs -> SUBSET Workers]
    /\ state \in [Jobs -> States]
    /\ tries \in [Jobs -> Nat]
    /\ answer \in [Jobs -> {"none"} \cup Waiting \cup Told]

\* An accepted job is run: it is lost only when as many jobs have panicked as the
\* pool had workers, whatever shutdown does (pool.rs: the loop of a worker; the tests
\* let jobs submitted before shutdown complete).
LossNeedsPanics ==
    (\E j \in Jobs : state[j] = "lost") =>
        Cardinality({j \in Pooled : state[j] = "panicked"}) = Cardinality(Workers)

\* A caller is told a value, a cancellation or a timeout only of a job that has one,
\* and hears of spawn_safe's job only after it ended; an error is the last of exactly
\* one attempt and all its retries (future.rs, spawn.rs; retry.rs).
AnswerIsHonest ==
    \A j \in Jobs :
        /\ answer[j] = "value" => state[j] \in {"ok", "err"}
        /\ answer[j] = "cancelled" => state[j] = "panicked"
        /\ answer[j] = "joined" => state[j] \in Finished
        /\ state[j] = "err" => tries[j] = Retries[j] + 1

\* A free worker takes work although other jobs never end: a queued job starts, or
\* every worker is running another or has died (pool.rs: the lock is released
\* before the job runs).
FreeWorkerTakes ==
    \A j \in Pooled :
        state[j] = "queued" ~>
            (state[j] # "queued" \/ \A w \in Workers : worker[w] # "free")

\* A caller that waits for a job that ended, in whatever way, or that set itself a
\* limit, waits no longer (future.rs: a panic drops the sender).
WaiterEnds ==
    \A j \in Jobs :
        (answer[j] \in Waiting /\ (state[j] \in Finished \/ answer[j] = "timed"))
            ~> answer[j] \in Told
=============================================================================
