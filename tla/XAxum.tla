------------------------------- MODULE XAxum -------------------------------
(***************************************************************************)
(* XAxumServer (xaxum/server.rs): run() binds, subscribes to the shutdown  *)
(* channel and serves until stop() writes to it; then it lets the          *)
(* connections finish, for as long as they take in HTTP/1 mode and for no  *)
(* longer than 10 s in h2c mode.  The channel keeps no receiver of its own: *)
(* a send with no subscriber fails, and what was sent before a             *)
(* subscription is not seen by it.                                         *)
(*                                                                         *)
(* The connections are tasks of axum, hyper and the handlers; they are     *)
(* modelled from what run_http1 and run_h2c rely on.                       *)
(***************************************************************************)
EXTENDS Naturals

CONSTANT
    Conns     \* bound: the connections clients open, once each

VARIABLES
    http2,    \* use_http2, from the builder or the configuration: it never changes
    run,      \* run(): "idle", "bound", "serving", "draining", or its result
    told,     \* stop() has been called, and has returned Ok
    pending,  \* the subscription of run() has a value it has not seen
    conn,     \* per connection: "none", "open" with no request, "busy", "gone"
    gaveUp    \* the 10 s ran out with connections left

vars == <<http2, run, told, pending, conn, gaveUp>>

Alive == {c \in Conns : conn[c] \in {"open", "busy"}}
Ended == run \in {"ok", "err"}

\* The connections have been asked to finish: the graceful-shutdown watcher was
\* signalled, or dropped with run_h2c's early return.
Signalled == run \in {"draining", "ok", "err"}
-----------------------------------------------------------------------------
Init ==
    /\ http2 \in BOOLEAN
    /\ run = "idle" /\ told = FALSE /\ pending = FALSE /\ gaveUp = FALSE
    /\ conn = [c \in Conns |-> "none"]

\* run() up to the bind, which may fail.
Bind ==
    /\ run = "idle"
    /\ run' \in {"bound", "err"}
    /\ UNCHANGED <<http2, told, pending, conn, gaveUp>>

\* subscribe(), then run_http1 or run_h2c.
Subscribe ==
    /\ run = "bound"
    /\ run' = "serving"
    /\ UNCHANGED <<http2, told, pending, conn, gaveUp>>

\* stop(): `let _ =` on a send that fails while run() has not subscribed.
Stop ==
    /\ ~told \/ (run = "serving" /\ ~pending)
    /\ told' = TRUE
    /\ pending' = (pending \/ run = "serving")
    /\ UNCHANGED <<http2, run, conn, gaveUp>>

\* The listener accepts a connection and spawns its task.
Accept(c) ==
    /\ run = "serving"
    /\ conn[c] = "none"
    /\ conn' = [conn EXCEPT ![c] = "open"]
    /\ UNCHANGED <<http2, run, told, pending, gaveUp>>

\* h2c: accept() fails and run() returns at once; axum::serve tries again instead.
AcceptFails ==
    /\ http2
    /\ run = "serving"
    /\ run' = "err"
    /\ pending' = FALSE
    /\ UNCHANGED <<http2, told, conn, gaveUp>>

\* Mutant: the connections are not waited for.
NoticeStopAtOnce ==
    /\ run = "serving"
    /\ pending
    /\ pending' = FALSE
    /\ run' = "ok"
    /\ UNCHANGED <<http2, told, conn, gaveUp>>

\* changed() resolves: nothing more is accepted.
NoticeStop ==
    /\ run = "serving"
    /\ pending
    /\ pending' = FALSE
    /\ run' = "draining"
    /\ UNCHANGED <<http2, told, conn, gaveUp>>

\* Every connection is gone.
Drained ==
    /\ run = "draining"
    /\ Alive = {}
    /\ run' = "ok"
    /\ UNCHANGED <<http2, told, pending, conn, gaveUp>>

\* Mutant: h2c waits without a limit.
NoGiveUp == FALSE

\* h2c: timeout(10 s) around graceful.shutdown(), its error ignored; the tasks of
\* the connections left go on.
GiveUp ==
    /\ http2
    /\ run = "draining"
    /\ Alive # {}
    /\ run' = "ok"
    /\ gaveUp' = TRUE
    /\ UNCHANGED <<http2, told, pending, conn>>
-----------------------------------------------------------------------------
\* A connection's task: a request comes in and is answered; an idle connection is
\* closed when the server has asked it to finish, one with a request after it.
Request(c) ==
    /\ conn[c] = "open"
    /\ conn' = [conn EXCEPT ![c] = "busy"]
    /\ UNCHANGED <<http2, run, told, pending, gaveUp>>

Respond(c) ==
    /\ conn[c] = "busy"
    /\ conn' = [conn EXCEPT ![c] = IF Signalled THEN "gone" ELSE "open"]
    /\ UNCHANGED <<http2, run, told, pending, gaveUp>>

\* Mutant: a connection without a request is left alone.
IdleStays(c) == FALSE

CloseIdle(c) ==
    /\ conn[c] = "open"
    /\ Signalled
    /\ conn' = [conn EXCEPT ![c] = "gone"]
    /\ UNCHANGED <<http2, run, told, pending, gaveUp>>

\* The client closes.
Disconnect(c) ==
    /\ conn[c] \in {"open", "busy"}
    /\ conn' = [conn EXCEPT ![c] = "gone"]
    /\ UNCHANGED <<http2, run, told, pending, gaveUp>>

RunSteps == Bind \/ Subscribe \/ NoticeStop \/ Drained \/ GiveUp

Next ==
    \/ RunSteps \/ AcceptFails \/ Stop
    \/ \E c \in Conns : Accept(c)
    \/ \E c \in Conns : Request(c)
    \/ \E c \in Conns : Respond(c)
    \/ \E c \in Conns : CloseIdle(c)
    \/ \E c \in Conns : Disconnect(c)

\* The runtime polls run() and the connections.  A handler need not answer, except
\* in HTTP/1 mode, where run() has no other way to end.
Fairness ==
    /\ WF_vars(RunSteps)
    /\ \A c \in Conns : WF_vars(CloseIdle(c))
    /\ \A c \in Conns : WF_vars(~http2 /\ Respond(c))

Spec == Init /\ [][Next]_vars /\ Fairness
-----------------------------------------------------------------------------
TypeOK ==
    /\ http2 \in BOOLEAN
    /\ run \in {"idle", "bound", "serving", "draining", "ok", "err"}
    /\ told \in BOOLEAN
    /\ pending \in BOOLEAN /\ (pending => run = "serving")
    /\ gaveUp \in BOOLEAN /\ (gaveUp => http2)
    /\ conn \in [Conns -> {"none", "open", "busy", "gone"}]

\* When run() returns Ok it was told to, so that the branch of run_server for a server
\* that stops unexpectedly sees an error (`accept failed`; runner.rs:142), and no request
\* is being served, so that the stop hooks that come next close nothing under one,
\* unless the 10 s of h2c ran out (server.rs: with_graceful_shutdown, graceful.shutdown).
ReturnedMeansDrained == run = "ok" => told /\ (gaveUp \/ Alive = {})

\* A stop that run() has subscribed for ends it, even with handlers that hang in
\* h2c mode, and as soon as the requests are answered in HTTP/1 mode.
HeardStopEnds == pending ~> Ended

\* What the documentation of the Server trait says: stop() tells run() to return,
\* and the framework then waits for it (xserver/server.rs:38).
C == INSTANCE ServerContract WITH
         Runs <- {"run"},
         serving <- IF run \in {"bound", "serving", "draining"} THEN {"run"} ELSE {}
HonoursContract == C!ContractSpec
=============================================================================
