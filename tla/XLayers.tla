------------------------------ MODULE XLayers ------------------------------
(***************************************************************************)
(* The layers an HTTP request passes (xaxum/builder.rs, middleware/) on its *)
(* way to the handler and back, while the tasks that serve requests are    *)
(* polled by a few threads, handlers panic, clients go away and the        *)
(* tracing is shut down (xtrace/init.rs).                                  *)
(*                                                                         *)
(* A poll is what a thread does for a request between two awaits.  The     *)
(* OpenTelemetry context is a property of the thread, and the trace layer  *)
(* attaches the request's own for the length of every poll.                *)
(***************************************************************************)
EXTENDS Naturals, Sequences, SequencesExt

CONSTANTS
    Requests,
    Threads,
    Builders,  \* the calls of the builder: records with log, trace (the two
               \* enable_..._middleware flags) and mws, the kinds of the layers
               \* passed to with_middleware in that order
    Shapes     \* what requests look like, of "small", "large", "chunked", "binary", "cut"

Recording == {"trace", "log", "metric"}

ASSUME LayersAssumption ==
    /\ "idle" \notin Requests /\ "root" \notin Requests
    /\ \A b \in Builders : /\ b.log \in BOOLEAN /\ b.trace \in BOOLEAN
                           /\ b.mws \in Seq({"metric", "recover", "session"})
                           /\ IsInjective(b.mws)
    /\ Shapes \subseteq {"small", "large", "chunked", "binary", "cut"}

VARIABLES
    layers,   \* the kinds of the layers, outermost first
    infoOn,   \* the INFO level is enabled
    tracing,  \* xtrace: "off", "on", "closing" (provider taken, flag still up), "closed"
    polling,  \* per thread: the request it polls, or "idle"
    ctx,      \* per thread: the current context, a request or "root"
    shape,    \* per request: its shape
    at,       \* per request: the number of layers it is inside of
    dir,      \* per request: "idle", "down", "up", "panic", "done", "aborted", "dropped"
    through,  \* per request: the layers that did not just pass it on
    status,   \* per request: "ok" or "error" (500 and above), once there is a response
    caught,   \* per request: the recover layer that caught a panic, 0 if none did
    got,      \* per request: the body handed on, "stream", "buffered" or "empty"
    rec,      \* per request: what each recording layer wrote
    logCtx    \* per request: the context its log line was written in

threadVars == <<polling, ctx>>
requestVars == <<shape, at, dir, through, status, caught, got, rec, logCtx>>
vars == <<layers, infoOn, tracing, threadVars, requestVars>>
-----------------------------------------------------------------------------
\* Mutant: the built-in layers are added before the application's.
BuildInner(b) ==
    Reverse(b.mws) \o (IF b.trace THEN <<"trace">> ELSE << >>)
                   \o (IF b.log THEN <<"log">> ELSE << >>)

\* Mutant: the log layer is added after the trace layer.
BuildLogLast(b) ==
    (IF b.log THEN <<"log">> ELSE << >>) \o (IF b.trace THEN <<"trace">> ELSE << >>)
    \o Reverse(b.mws)

\* XAxum::build: every layer() wraps what is there, so that the first middleware is
\* next to the handler, then log, and trace outermost.
Build(b) ==
    (IF b.trace THEN <<"trace">> ELSE << >>) \o (IF b.log THEN <<"log">> ELSE << >>)
    \o Reverse(b.mws)

\* init_xtrace enables tracing, or finds it disabled by the configuration.
Init ==
    /\ \E b \in Builders : layers = Build(b)
    /\ infoOn \in BOOLEAN
    /\ tracing \in {"off", "on"}
    /\ polling = [t \in Threads |-> "idle"]
    /\ ctx = [t \in Threads |-> "root"]
    /\ shape = [q \in Requests |-> "none"]
    /\ at = [q \in Requests |-> 0]
    /\ dir = [q \in Requests |-> "idle"]
    /\ through = [q \in Requests |-> {}]
    /\ status = [q \in Requests |-> "none"]
    /\ caught = [q \in Requests |-> 0]
    /\ got = [q \in Requests |-> "stream"]
    /\ rec = [q \in Requests |-> [k \in Recording |-> "none"]]
    /\ logCtx = [q \in Requests |-> "none"]

TraceEnabled == tracing \in {"on", "closing"}

Traced(q) == \E k \in through[q] : layers[k] = "trace" /\ k <= at[q]

\* The current context while a poll of q is where it now is.
ContextOf(q) == IF Traced(q) THEN q ELSE "root"

\* A span that ends is exported while there is a provider.
Exported(v) == IF tracing = "on" THEN v ELSE "lost"

\* shutdown_xtrace: takes the provider and shuts it down.
TakeProvider ==
    /\ tracing = "on"
    /\ tracing' = "closing"
    /\ UNCHANGED <<layers, infoOn, threadVars, requestVars>>

\* shutdown_xtrace: and then resets the flag.
ClearFlag ==
    /\ tracing = "closing"
    /\ tracing' = "closed"
    /\ UNCHANGED <<layers, infoOn, threadVars, requestVars>>
-----------------------------------------------------------------------------
Arrive(q, s) ==
    /\ dir[q] = "idle"
    /\ dir' = [dir EXCEPT ![q] = "down"]
    /\ shape' = [shape EXCEPT ![q] = s]
    /\ UNCHANGED <<layers, infoOn, tracing, threadVars, at, through, status, caught, got,
                   rec, logCtx>>

\* A thread takes up a request: OtelContextFuture attaches its context, if the
\* request is inside of one.
Poll(t, q) ==
    /\ polling[t] = "idle" /\ \A u \in Threads : polling[u] # q
    /\ dir[q] = "down"
    /\ polling' = [polling EXCEPT ![t] = q]
    /\ ctx' = [ctx EXCEPT ![t] = ContextOf(q)]
    /\ UNCHANGED <<layers, infoOn, tracing, requestVars>>

\* Mutant: the guard is held across the await.
YieldAttached(t) ==
    /\ polling[t] # "idle" /\ dir[polling[t]] = "down"
    /\ polling' = [polling EXCEPT ![t] = "idle"]
    /\ UNCHANGED <<layers, infoOn, tracing, ctx, requestVars>>

\* The poll returns Pending, from the handler or from the reading of the body, and
\* the guard goes with it.
Yield(t) ==
    /\ polling[t] # "idle" /\ dir[polling[t]] = "down"
    /\ polling' = [polling EXCEPT ![t] = "idle"]
    /\ ctx' = [ctx EXCEPT ![t] = "root"]
    /\ UNCHANGED <<layers, infoOn, tracing, requestVars>>

IsBinary(s) == s = "binary"

\* A Content-Length within MAX_BODY_BUFFER.
Declared(s) == s \in {"small", "binary", "cut"}

\* Mutant: a body of unknown length is buffered too.
ShouldBufferUnknown(s) == ~IsBinary(s) /\ s # "large"

ShouldBuffer(s) == ~IsBinary(s) /\ Declared(s)

\* to_bytes fails on a body that breaks off or is longer than the limit; the layer
\* goes on with an empty one.
Buffered(s) == IF s \in {"small", "binary"} THEN "buffered" ELSE "empty"

\* Which layers do more than call next: the built-in two look at a switch first.
Active(k) ==
    CASE layers[k] = "trace" -> TraceEnabled
      [] layers[k] = "log" -> infoOn
      [] OTHER -> TRUE

\* The part of a layer before next.run: the trace layer starts a span under the
\* caller's and attaches its context; the log layer may read the body.
Enter(t) ==
    LET q == polling[t]  k == at[q] + 1 IN
    /\ q # "idle" /\ dir[q] = "down" /\ at[q] < Len(layers)
    /\ at' = [at EXCEPT ![q] = k]
    /\ through' = [through EXCEPT ![q] = IF Active(k) THEN @ \cup {k} ELSE @]
    /\ ctx' = [ctx EXCEPT ![t] = IF layers[k] = "trace" /\ Active(k) THEN q ELSE @]
    /\ got' = [got EXCEPT ![q] =
           IF layers[k] = "log" /\ Active(k) /\ ShouldBuffer(shape[q])
           THEN Buffered(shape[q]) ELSE @]
    /\ UNCHANGED <<layers, infoOn, tracing, polling, shape, dir, status, caught, rec, logCtx>>

\* The handler answers.
Handle(t, r) ==
    LET q == polling[t] IN
    /\ q # "idle" /\ dir[q] = "down" /\ at[q] = Len(layers)
    /\ dir' = [dir EXCEPT ![q] = "up"]
    /\ status' = [status EXCEPT ![q] = r]
    /\ UNCHANGED <<layers, infoOn, tracing, threadVars, shape, at, through, caught, got,
                   rec, logCtx>>

\* The handler panics.
Panic(t) ==
    LET q == polling[t] IN
    /\ q # "idle" /\ dir[q] = "down" /\ at[q] = Len(layers)
    /\ dir' = [dir EXCEPT ![q] = "panic"]
    /\ UNCHANGED <<layers, infoOn, tracing, threadVars, shape, at, through, status, caught,
                   got, rec, logCtx>>

\* What a recording layer writes about the response: the log layer a line, the
\* metric layer a count and a duration, the trace layer the end of its span.
Written(kind, s) == IF kind = "trace" THEN Exported(s) ELSE s

\* The part of a layer after next.run.
Leave(t) ==
    LET q == polling[t]  k == at[q]  kind == layers[k] IN
    /\ q # "idle" /\ dir[q] = "up" /\ k > 0
    /\ at' = [at EXCEPT ![q] = k - 1]
    /\ ctx' = [ctx EXCEPT ![t] = IF kind = "trace" THEN "root" ELSE @]
    /\ rec' = IF k \in through[q] /\ kind \in Recording
              THEN [rec EXCEPT ![q][kind] = Written(kind, status[q])] ELSE rec
    /\ logCtx' = IF k \in through[q] /\ kind = "log"
                 THEN [logCtx EXCEPT ![q] = ctx[t]] ELSE logCtx
    /\ UNCHANGED <<layers, infoOn, tracing, polling, shape, dir, through, status, caught, got>>

\* A panic passes a layer: recover turns it into a 500; the guard and the span of the
\* trace layer are dropped, and the span ends without a status.
Unwind(t) ==
    LET q == polling[t]  k == at[q]  kind == layers[k] IN
    /\ q # "idle" /\ dir[q] = "panic" /\ k > 0
    /\ at' = [at EXCEPT ![q] = k - 1]
    /\ IF kind = "recover"
       THEN /\ dir' = [dir EXCEPT ![q] = "up"]
            /\ status' = [status EXCEPT ![q] = "error"]
            /\ caught' = [caught EXCEPT ![q] = k]
       ELSE UNCHANGED <<dir, status, caught>>
    /\ ctx' = [ctx EXCEPT ![t] = IF kind = "trace" THEN "root" ELSE @]
    /\ rec' = IF k \in through[q] /\ kind = "trace"
              THEN [rec EXCEPT ![q].trace = Exported("bare")] ELSE rec
    /\ UNCHANGED <<layers, infoOn, tracing, polling, shape, through, got, logCtx>>

\* The response is sent, or the panic reaches the connection, which breaks.
Finish(t) ==
    LET q == polling[t] IN
    /\ q # "idle" /\ at[q] = 0 /\ dir[q] \in {"up", "panic"}
    /\ dir' = [dir EXCEPT ![q] = IF @ = "up" THEN "done" ELSE "aborted"]
    /\ polling' = [polling EXCEPT ![t] = "idle"]
    /\ UNCHANGED <<layers, infoOn, tracing, ctx, shape, at, through, status, caught, got,
                   rec, logCtx>>

\* The client goes away between two polls and the server drops the request's future.
Disconnect(q) ==
    /\ dir[q] = "down" /\ \A t \in Threads : polling[t] # q
    /\ dir' = [dir EXCEPT ![q] = "dropped"]
    /\ rec' = IF Traced(q) THEN [rec EXCEPT ![q].trace = Exported("bare")] ELSE rec
    /\ UNCHANGED <<layers, infoOn, tracing, threadVars, shape, at, through, status, caught,
                   got, logCtx>>

Next ==
    \/ \E q \in Requests, s \in Shapes : Arrive(q, s)
    \/ \E t \in Threads, q \in Requests : Poll(t, q)
    \/ \E t \in Threads : Yield(t) \/ Enter(t) \/ Panic(t) \/ Leave(t) \/ Unwind(t) \/ Finish(t)
    \/ \E t \in Threads, r \in {"ok", "error"} : Handle(t, r)
    \/ \E q \in Requests : Disconnect(q)
    \/ TakeProvider \/ ClearFlag

Spec == Init /\ [][Next]_vars
-----------------------------------------------------------------------------
\* Whatever thread runs it and whatever ran there before, a handler sees the context
\* of its own request, and a thread that serves nobody has none (trace.rs:
\* OtelContextFuture).
OwnContext ==
    \A t \in Threads :
        /\ polling[t] = "idle" => ctx[t] = "root"
        /\ \A q \in Requests :
            polling[t] = q /\ dir[q] = "down" /\ at[q] = Len(layers)
            => ctx[t] = IF \E k \in through[q] : layers[k] = "trace" THEN q ELSE "root"

\* Log, span and metric agree with what the client got: a request that was answered is
\* in the log and in its span with that status, panic or not, and counted unless a
\* recover layer outside of the metric layer made the answer; one that was not
\* answered is neither logged nor counted (builder.rs: the order of build).
RecordsAgree ==
    \A q \in Requests :
        /\ dir[q] = "done" => \A k \in through[q] :
            /\ layers[k] = "log" => rec[q].log = status[q]
            /\ layers[k] = "trace" =>
                rec[q].trace = status[q] \/ (rec[q].trace = "lost" /\ tracing # "on")
            /\ layers[k] = "metric" =>
                rec[q].metric = IF 0 < caught[q] /\ caught[q] < k THEN "none" ELSE status[q]
        /\ dir[q] \in {"aborted", "dropped"} =>
            rec[q].log = "none" /\ rec[q].metric = "none"

\* The log line of a traced request is written in the request's trace (builder.rs:162).
LogInTrace ==
    \A q \in Requests :
        logCtx[q] # "none" /\ (\E k \in through[q] : layers[k] = "trace") => logCtx[q] = q

\* A body that arrives in full reaches the handler in full (log.rs:164, "避免大流式请求
\* 数据丢失").
BodyReaches ==
    \A q \in Requests :
        dir[q] = "down" /\ at[q] = Len(layers) /\ shape[q] # "cut" => got[q] # "empty"
=============================================================================
