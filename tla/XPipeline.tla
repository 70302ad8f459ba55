----------------------------- MODULE XPipeline -----------------------------
(***************************************************************************)
(* A pipeline (xpipeline/pipeline.rs): a chain of processors, each a task  *)
(* that reads frames from one bounded channel and writes to the next; the  *)
(* caller holds the sender of the first channel, the receiver of the last, *)
(* and the handle of a task that joins the processors in order.            *)
(*                                                                         *)
(* Channel k leads from task k to task k + 1; channel 0 from the caller to *)
(* task 1 and the last one back to the caller.  A processor forwards what  *)
(* it reads until its input ends, as those of the tests do, but may return *)
(* or panic at any time before.                                            *)
(***************************************************************************)
EXTENDS Integers, Sequences, FiniteSets

CONSTANTS
    N,          \* the number of processors of the pipeline
    BufferSize, \* PipelineConfig::buffer_size; mpsc::channel(0) panics
    Monitored,  \* whether there is a monitor and disable_monitor is not set
    MaxFrames   \* bound: the frames the caller sends

ASSUME PipelineAssumption ==
    /\ N \in Nat
    /\ BufferSize \in Nat \ {0}
    /\ Monitored \in BOOLEAN
    /\ MaxFrames \in Nat

\* An empty pipeline has one task, which passes frames through.
Final == IF N = 0 THEN 1 ELSE N
Tasks == 1 .. Final
Channels == 0 .. Final

VARIABLES
    queue,      \* per channel: the frames in its buffer
    senders,    \* the channels whose Sender is alive
    receivers,  \* the channels whose Receiver is alive
    task,       \* per task: in its loop ("idle", "holding" a frame) or how it left
    held,       \* per task: the frame it has read and not sent on, as a sequence
    joined,     \* run_pipeline: the number of handles awaited
    errors,     \* RunResult::errors, the processor named by each
    handle,     \* the caller's JoinHandle: "pending", "ready", or "lost" to a panic
    sent,       \* history: the number of frames the caller has sent
    delivered,  \* history: the frames the caller has received
    early       \* history: the tasks that left before their input had ended

vars == <<queue, senders, receivers, task, held, joined, errors, handle,
          sent, delivered, early>>
endVars == <<joined, errors, handle>>
callerVars == <<sent, delivered>>

Ended(k) == task[k] \in {"ok", "err", "panic"}

\* The task's future is gone, with the two channel ends it owned.
Done(k) == Ended(k) /\ k \notin senders /\ k - 1 \notin receivers
-----------------------------------------------------------------------------
Init ==
    /\ queue = [c \in Channels |-> <<>>]
    /\ senders = Channels /\ receivers = Channels
    /\ task = [k \in Tasks |-> "idle"]
    /\ held = [k \in Tasks |-> <<>>]
    /\ joined = 0 /\ errors = <<>> /\ handle = "pending"
    /\ sent = 0 /\ delivered = <<>> /\ early = {}

\* The caller: send to the first channel, which waits while it is full and is
\* refused once the first task has let go of its receiver; drop the sender; receive
\* from the last channel; drop that receiver with what it holds.
Put ==
    /\ 0 \in senders /\ 0 \in receivers
    /\ Len(queue[0]) < BufferSize
    /\ sent < MaxFrames
    /\ sent' = sent + 1
    /\ queue' = [queue EXCEPT ![0] = Append(@, sent + 1)]
    /\ UNCHANGED <<senders, receivers, task, held, endVars, delivered, early>>

CloseInput ==
    /\ 0 \in senders
    /\ senders' = senders \ {0}
    /\ UNCHANGED <<queue, receivers, task, held, endVars, callerVars, early>>

Get ==
    /\ Final \in receivers
    /\ queue[Final] # <<>>
    /\ delivered' = Append(delivered, Head(queue[Final]))
    /\ queue' = [queue EXCEPT ![Final] = Tail(@)]
    /\ UNCHANGED <<senders, receivers, task, held, endVars, sent, early>>

DropOutput ==
    /\ Final \in receivers
    /\ receivers' = receivers \ {Final}
    /\ queue' = [queue EXCEPT ![Final] = <<>>]
    /\ UNCHANGED <<senders, task, held, endVars, callerVars, early>>
-----------------------------------------------------------------------------
\* recv() yields a frame.
Recv(k) ==
    /\ task[k] = "idle"
    /\ queue[k - 1] # <<>>
    /\ task' = [task EXCEPT ![k] = "holding"]
    /\ held' = [held EXCEPT ![k] = <<Head(queue[k - 1])>>]
    /\ queue' = [queue EXCEPT ![k - 1] = Tail(@)]
    /\ UNCHANGED <<senders, receivers, endVars, callerVars, early>>

\* Mutant: an unbounded channel.
SendUnbounded(k) ==
    /\ task[k] = "holding"
    /\ k \in receivers
    /\ task' = [task EXCEPT ![k] = "idle"]
    /\ queue' = [queue EXCEPT ![k] = @ \o held[k]]
    /\ held' = [held EXCEPT ![k] = <<>>]
    /\ UNCHANGED <<senders, receivers, endVars, callerVars, early>>

\* Mutant: try_send, a frame that finds the channel full is dropped.
TrySend(k) ==
    /\ task[k] = "holding"
    /\ k \in receivers
    /\ task' = [task EXCEPT ![k] = "idle"]
    /\ queue' = [queue EXCEPT ![k] = IF Len(@) < BufferSize THEN @ \o held[k] ELSE @]
    /\ held' = [held EXCEPT ![k] = <<>>]
    /\ UNCHANGED <<senders, receivers, endVars, callerVars, early>>

\* send() waits for room in the channel.
Send(k) ==
    /\ task[k] = "holding"
    /\ k \in receivers
    /\ Len(queue[k]) < BufferSize
    /\ task' = [task EXCEPT ![k] = "idle"]
    /\ queue' = [queue EXCEPT ![k] = @ \o held[k]]
    /\ held' = [held EXCEPT ![k] = <<>>]
    /\ UNCHANGED <<senders, receivers, endVars, callerVars, early>>

\* The task leaves process() with a frame in hand, if it held one, lost.
Leave(k, r) ==
    /\ task' = [task EXCEPT ![k] = r]
    /\ held' = [held EXCEPT ![k] = <<>>]
    /\ UNCHANGED <<queue, senders, receivers, endVars, callerVars>>

\* send() finds the receiver gone: the frame is lost; a processor goes on to the
\* next one or returns, the task of the empty pipeline breaks its loop.
SendRefused(k) ==
    /\ task[k] = "holding"
    /\ k \notin receivers
    /\ \/ /\ N > 0
          /\ task' = [task EXCEPT ![k] = "idle"]
          /\ held' = [held EXCEPT ![k] = <<>>]
          /\ UNCHANGED <<queue, senders, receivers, endVars, callerVars, early>>
       \/ /\ \E r \in IF N > 0 THEN {"ok", "err"} ELSE {"ok"} : Leave(k, r)
          /\ early' = early \cup {k}

\* recv() yields None: the buffer is empty and the sender gone.
InputEnds(k) ==
    /\ task[k] = "idle"
    /\ queue[k - 1] = <<>>
    /\ k - 1 \notin senders
    /\ \E r \in IF N > 0 THEN {"ok", "err"} ELSE {"ok"} : Leave(k, r)
    /\ UNCHANGED early

\* process() returns, or panics, on its own.
Quit(k) ==
    /\ N > 0
    /\ ~Ended(k)
    /\ \E r \in {"ok", "err", "panic"} : Leave(k, r)
    /\ early' = early \cup {k}

\* Mutant: the senders are kept until the task has been joined.
DropSenderLate(k) ==
    /\ Ended(k)
    /\ joined >= k
    /\ k \in senders
    /\ senders' = senders \ {k}
    /\ UNCHANGED <<queue, receivers, task, held, endVars, callerVars, early>>

\* drop(tx), and after it the receiver goes with the future; a panic drops the
\* two in either order.
DropSender(k) ==
    /\ Ended(k)
    /\ k \in senders
    /\ senders' = senders \ {k}
    /\ UNCHANGED <<queue, receivers, task, held, endVars, callerVars, early>>

DropReceiver(k) ==
    /\ Ended(k)
    /\ k \notin senders \/ task[k] = "panic"
    /\ k - 1 \in receivers
    /\ receivers' = receivers \ {k - 1}
    /\ queue' = [queue EXCEPT ![k - 1] = <<>>]
    /\ UNCHANGED <<senders, task, held, endVars, callerVars, early>>
-----------------------------------------------------------------------------
\* The name a failure is reported under: the task's result brings the processor's
\* name along, the JoinError of one that panicked does not.
Unknown == 0
NameOf(k) == IF task[k] = "panic" THEN Unknown ELSE k

\* Mutant: the result is ready at the first error.
JoinFailFast ==
    /\ handle = "pending" /\ joined < Final
    /\ Done(joined + 1)
    /\ joined' = IF task[joined + 1] = "ok" THEN joined + 1 ELSE Final
    /\ errors' = IF task[joined + 1] = "ok" THEN errors ELSE Append(errors, NameOf(joined + 1))
    /\ UNCHANGED <<queue, senders, receivers, task, held, handle, callerVars, early>>

\* `for handle in handles`: the next task's result, or the panic in its place.
Join ==
    /\ handle = "pending" /\ joined < Final
    /\ Done(joined + 1)
    /\ joined' = joined + 1
    /\ errors' = IF task[joined + 1] = "ok" THEN errors ELSE Append(errors, NameOf(joined + 1))
    /\ UNCHANGED <<queue, senders, receivers, task, held, handle, callerVars, early>>

Finish ==
    /\ handle = "pending" /\ joined = Final
    /\ handle' = "ready"
    /\ UNCHANGED <<queue, senders, receivers, task, held, joined, errors, callerVars, early>>

\* on_processor_done or on_pipeline_done panics: run_pipeline is gone, the tasks it
\* has not joined go on by themselves.
MonitorPanics ==
    /\ Monitored /\ N > 0
    /\ handle = "pending"
    /\ joined < Final => Done(joined + 1)
    /\ handle' = "lost"
    /\ UNCHANGED <<queue, senders, receivers, task, held, joined, errors, callerVars, early>>

\* What a task does when left to run.
Work(k) ==
    \/ Recv(k) \/ Send(k) \/ SendRefused(k) \/ InputEnds(k)
    \/ DropSender(k) \/ DropReceiver(k)

Next ==
    \/ Put \/ CloseInput \/ Get \/ DropOutput
    \/ \E k \in Tasks : Work(k)
    \/ \E k \in Tasks : Quit(k)
    \/ Join \/ Finish \/ MonitorPanics

\* The runtime schedules every task, a processor keeps to its loop, and the caller
\* takes what comes out as long as it has not dropped the receiver.
Fairness ==
    /\ \A k \in Tasks : WF_vars(Work(k))
    /\ WF_vars(Join \/ Finish)
    /\ WF_vars(Get)

Spec == Init /\ [][Next]_vars /\ Fairness
-----------------------------------------------------------------------------
TypeOK ==
    /\ queue \in [Channels -> Seq(1 .. sent)]
    /\ \A c \in Channels : Len(queue[c]) <= BufferSize
    /\ senders \subseteq Channels /\ receivers \subseteq Channels
    /\ task \in [Tasks -> {"idle", "holding", "ok", "err", "panic"}]
    /\ held \in [Tasks -> Seq(1 .. sent)]
    /\ \A k \in Tasks : Len(held[k]) = IF task[k] = "holding" THEN 1 ELSE 0
    /\ joined \in 0 .. Final
    /\ errors \in Seq(Tasks \cup {Unknown})
    /\ handle \in {"pending", "ready", "lost"}
    /\ sent \in 0 .. MaxFrames
    /\ delivered \in Seq(1 .. sent)
    /\ early \subseteq Tasks

\* The frames between the caller's two ends, the first to come out first: what is in
\* channel c and in what leads to it, for queues q and hands h; all of it for the last.
Behind(q, h) ==
    LET back[c \in DOMAIN q] == IF c = 0 THEN q[0] ELSE q[c] \o h[c] \o back[c - 1]
    IN back

OnTheWay == Behind(queue, held)[Final]

\* As long as no task left early and the caller keeps its receiver, every frame
\* sent has come out or is on its way, in the order sent; in the end, when the
\* result is ready, nothing is left anywhere but in the last channel.
NothingLost ==
    early = {} /\ Final \in receivers =>
        /\ delivered \o OnTheWay = [f \in 1 .. sent |-> f]
        /\ handle = "ready" => OnTheWay = queue[Final]

\* The entry of s for a member of S is at the member's place in the chain: there is
\* one for each and none besides.
Reports(s, S) ==
    /\ Len(s) = Cardinality(S)
    /\ \A k \in S : s[Cardinality({l \in S : l <= k})] = NameOf(k)

\* The result is complete: it is ready only when every task is gone, and has one
\* entry for each that failed or panicked, in the order of the chain whatever the
\* order they ended in; the entry names the processor, but not when it panicked
\* (pipeline.rs: the loop over the handles, the JoinError's "unknown").
ResultIsComplete ==
    handle = "ready" =>
        /\ \A k \in Tasks : Done(k)
        /\ Reports(errors, {k \in Tasks : task[k] # "ok"})

\* No deadlock of the pipeline's own making: once the input is closed, whatever
\* panicked or returned, it comes to rest only with the result ready (or lost to a
\* monitor's panic with every task gone), or because the caller keeps the receiver
\* of a full last channel (pipeline.rs: bounded channels, joins in order).
OnlyOutputBlocks ==
    0 \notin senders /\ (\A k \in Tasks : ~ENABLED Work(k)) /\ ~ENABLED (Join \/ Finish) =>
        \/ handle # "pending" /\ \A k \in Tasks : Done(k)
        \/ Final \in receivers /\ Len(queue[Final]) = BufferSize

\* Once the input is closed the handle resolves, as long as the output is taken or
\* dropped (pipeline.rs: drop(tx) ends the next task's input).
PipelineEnds == 0 \notin senders ~> handle # "pending"

\* The pipeline is a stream: in order, no duplicates, and no more frames on their
\* way than its buffers and hands hold, so that a slow consumer slows the producer.
St == INSTANCE Stream WITH
    Capacity <- (Final + 1) * BufferSize + Final,
    put <- sent, flying <- OnTheWay, taken <- delivered

ImplementsStream == St!StreamSpec
=============================================================================
