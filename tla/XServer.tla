------------------------------ MODULE XServer ------------------------------
(***************************************************************************)
(* The life cycle of a service (xserver/runner.rs), on top of the hook     *)
(* manager: init() registers the built-in modules' hooks and runs the      *)
(* start hooks once for the whole process, run_server serves until the     *)
(* server ends or an exit signal arrives, and shutdown() runs the stop     *)
(* hooks, which release what the modules' start hooks opened.              *)
(*                                                                         *)
(* A caller is a task inside run_server (a runner) or a thread that calls  *)
(* init() and shutdown() itself (a manual user of the framework).          *)
(***************************************************************************)
EXTENDS XHook, XModules

CONSTANTS
    Runners,     \* the callers that are calls of run_server
    Modules,     \* the built-in modules that hold a resource
    ModuleOf,    \* the module whose init or shutdown a hook is; "user" if none
    Builtin,     \* the built-in hooks in the order register_builtin_hooks pushes them
    StoresFirst, \* modules that store their resource before the last step that can fail
    MaxSignals   \* bound: the exit signals the process receives

ASSUME ServerAssumption ==
    /\ Runners \subseteq Callers
    /\ "user" \notin Modules
    /\ ModuleOf \in [Hooks -> DOMAIN Orders]
    /\ Builtin \in Seq(Hooks)
    /\ StoresFirst \subseteq Modules
    /\ MaxSignals \in Nat

VARIABLES
    initResult,  \* INIT_RESULT: "unset", "busy" while the initialiser runs, "ok", "err"
    stage,       \* per caller: where it is in run_with_signal, or in its own life cycle
    server,      \* per runner: the future server.run() returned
    result,      \* per caller: what run_server, or init or shutdown, returned
    notified,    \* per runner: its signal listener has fired
    signals,     \* the number of exit signals so far
    store        \* per module: the resource its start hook opens

serverVars == <<initResult, stage, server, result, notified, signals, store>>
allVars == <<vars, serverVars>>

Stages == {"idle", "register", "start", "serving", "stopping", "draining",
           "using", "closing", "stop", "returned"}
Manuals == Callers \ Runners

-----------------------------------------------------------------------------
LifeInit ==
    /\ Init
    /\ initResult = "unset"
    /\ stage = [c \in Callers |-> "idle"]
    /\ server = [c \in Runners |-> "idle"]
    /\ result = [c \in Callers |-> "none"]
    /\ notified = [c \in Runners |-> FALSE]
    /\ signals = 0
    /\ store = [m \in Modules |-> "none"]

\* What follows init(): `init()?` leaves run_server on Err; on Ok the server's
\* run future is created and polled by select!.
AfterInit(c, r) ==
    IF r = "err" THEN
        /\ stage' = [stage EXCEPT ![c] = "returned"]
        /\ result' = [result EXCEPT ![c] = "err"]
        /\ UNCHANGED server
    ELSE IF c \in Runners THEN
        /\ stage' = [stage EXCEPT ![c] = "serving"]
        /\ server' = [server EXCEPT ![c] = "running"]
        /\ UNCHANGED result
    ELSE
        /\ stage' = [stage EXCEPT ![c] = "using"]
        /\ UNCHANGED <<server, result>>

\* OnceLock::get_or_init, for the caller that finds the cell empty.
BeginInit(c) ==
    /\ stage[c] = "idle"
    /\ initResult = "unset"
    /\ initResult' = "busy"
    /\ stage' = [stage EXCEPT ![c] = "register"]
    /\ UNCHANGED <<vars, server, result, notified, signals, store>>

\* Mutant: a cached failure is taken for a success.
CachedInitOk(c) ==
    /\ stage[c] = "idle"
    /\ initResult \in {"ok", "err"}
    /\ AfterInit(c, "ok")
    /\ UNCHANGED <<vars, initResult, notified, signals, store>>

\* OnceLock::get_or_init, for a caller that finds the cell filled; while another
\* caller fills it, get_or_init blocks.
CachedInit(c) ==
    /\ stage[c] = "idle"
    /\ initResult \in {"ok", "err"}
    /\ AfterInit(c, initResult)
    /\ UNCHANGED <<vars, initResult, notified, signals, store>>

Unregistered(k) == closure[Builtin[k]] = "unregistered"

\* register_builtin_hooks: one push of one module's register_hook.
RegisterBuiltin(c) ==
    /\ stage[c] = "register"
    /\ \E k \in DOMAIN Builtin :
        /\ Unregistered(k)
        /\ \A j \in 1 .. k - 1 : ~Unregistered(j)
        /\ Register(Builtin[k])
    /\ UNCHANGED serverVars

\* invoke_before_start_hooks takes the start hooks.
InvokeStart(c) ==
    /\ stage[c] = "register"
    /\ \A k \in DOMAIN Builtin : ~Unregistered(k)
    /\ TakeSorted(c, "start")
    /\ stage' = [stage EXCEPT ![c] = "start"]
    /\ UNCHANGED <<initResult, server, result, notified, signals, store>>

\* The initialiser's result fills the cell and is what this caller gets too.
EndInit(c) ==
    /\ stage[c] = "start"
    /\ pc[c] \in {"ok", "err"}
    /\ initResult' = pc[c]
    /\ AfterInit(c, pc[c])
    /\ UNCHANGED <<vars, notified, signals, store>>

-----------------------------------------------------------------------------
\* SIGINT or SIGTERM reaches the listeners that exist at that moment, those of
\* the runners inside select!.  Before the first of them exists the signal would
\* end the process.
Signal ==
    /\ signals < MaxSignals
    /\ \E c \in Runners : stage[c] = "serving"
    /\ signals' = signals + 1
    /\ notified' = [c \in Runners |-> notified[c] \/ stage[c] = "serving"]
    /\ UNCHANGED <<vars, initResult, stage, server, result, store>>

\* Mutant: on a signal the stop hooks run before the server is stopped.
TakeSignalClose(c) ==
    /\ stage[c] = "serving"
    /\ notified[c]
    /\ stage' = [stage EXCEPT ![c] = "closing"]
    /\ UNCHANGED <<vars, initResult, server, result, notified, signals, store>>

\* select! takes the signal branch; the run future is kept but no longer polled
\* while stop() is awaited.
TakeSignal(c) ==
    /\ stage[c] = "serving"
    /\ notified[c]
    /\ stage' = [stage EXCEPT ![c] = "stopping"]
    /\ UNCHANGED <<vars, initResult, server, result, notified, signals, store>>

\* stop_server: `?` returns from run_server when stop() fails, and the run future
\* is dropped with it.
StopServer(c, r) ==
    /\ stage[c] = "stopping"
    /\ \/ /\ r = "ok"
          /\ stage' = [stage EXCEPT ![c] = "draining"]
          /\ server' = [server EXCEPT ![c] = "told"]
          /\ UNCHANGED result
       \/ /\ r = "err"
          /\ stage' = [stage EXCEPT ![c] = "returned"]
          /\ server' = [server EXCEPT ![c] = "dropped"]
          /\ result' = [result EXCEPT ![c] = "err"]
    /\ UNCHANGED <<vars, initResult, notified, signals, store>>

\* The run branch of select!: the server ended by itself, with either result.
RunEnds(c, r) ==
    /\ stage[c] = "serving"
    /\ stage' = [stage EXCEPT ![c] = "closing"]
    /\ server' = [server EXCEPT ![c] = "ended"]
    /\ result' = [result EXCEPT ![c] = r]
    /\ UNCHANGED <<vars, initResult, notified, signals, store>>

\* `run_fut.await...?` after stop(): on Err run_server returns at once.
Drained(c, r) ==
    /\ stage[c] = "draining"
    /\ stage' = [stage EXCEPT ![c] = IF r = "ok" THEN "closing" ELSE "returned"]
    /\ server' = [server EXCEPT ![c] = "ended"]
    /\ result' = [result EXCEPT ![c] = r]
    /\ UNCHANGED <<vars, initResult, notified, signals, store>>

\* A manual user decides to call shutdown().
ManualStop(c) ==
    /\ stage[c] = "using"
    /\ stage' = [stage EXCEPT ![c] = "closing"]
    /\ result' = [result EXCEPT ![c] = "ok"]
    /\ UNCHANGED <<vars, initResult, server, notified, signals, store>>

\* shutdown(): invoke_before_stop_hooks takes the stop hooks.
InvokeStop(c) ==
    /\ stage[c] = "closing"
    /\ TakeSorted(c, "stop")
    /\ stage' = [stage EXCEPT ![c] = "stop"]
    /\ UNCHANGED <<initResult, server, result, notified, signals, store>>

\* `let _ = shutdown()`: a runner returns the server's result.
EndStop(c) ==
    /\ stage[c] = "stop"
    /\ pc[c] \in {"ok", "err"}
    /\ stage' = [stage EXCEPT ![c] = "returned"]
    /\ result' = [result EXCEPT ![c] = IF c \in Runners THEN @ ELSE pc[c]]
    /\ UNCHANGED <<vars, initResult, server, notified, signals, store>>
-----------------------------------------------------------------------------
\* A module's start hook leaves its resource open when it succeeds (unless the
\* configuration disables the module), or when it fails after storing it.
Opened(m, r) ==
    IF r = "ok" \/ m \in StoresFirst THEN {store[m], "open"} ELSE {store[m]}

\* A module's stop hook takes the resource out of the store, whatever it reports.
Closed(m) == IF store[m] = "open" THEN "closed" ELSE store[m]

\* A hook's closure is done; a built-in one has changed its module's store.
HookDone(h, r) ==
    /\ HookReturns(h, r)
    /\ IF ModuleOf[h] \notin Modules THEN UNCHANGED store
       ELSE IF PhaseOf[h] = "start"
       THEN \E s \in Opened(ModuleOf[h], r) : store' = [store EXCEPT ![ModuleOf[h]] = s]
       ELSE store' = [store EXCEPT ![ModuleOf[h]] = Closed(ModuleOf[h])]
    /\ UNCHANGED <<initResult, stage, server, result, notified, signals>>

\* before_start! and before_stop! in the application's own code, at any time.
UserRegister(h) ==
    /\ ModuleOf[h] = "user"
    /\ Register(h)
    /\ UNCHANGED serverVars

HookLoop(c) == CallerSteps(c) /\ UNCHANGED serverVars

LifeNext ==
    \/ \E h \in Hooks : UserRegister(h)
    \/ \E h \in Hooks, r \in {"ok", "err"} : HookDone(h, r)
    \/ \E c \in Callers : BeginInit(c)
    \/ \E c \in Callers : CachedInit(c)
    \/ \E c \in Callers : RegisterBuiltin(c)
    \/ \E c \in Callers : InvokeStart(c)
    \/ \E c \in Callers : HookLoop(c)
    \/ \E c \in Callers : EndInit(c)
    \/ \E c \in Runners : TakeSignal(c)
    \/ \E c \in Runners, r \in {"ok", "err"} : StopServer(c, r)
    \/ \E c \in Runners, r \in {"ok", "err"} : RunEnds(c, r)
    \/ \E c \in Runners, r \in {"ok", "err"} : Drained(c, r)
    \/ \E c \in Manuals : ManualStop(c)
    \/ \E c \in Callers : InvokeStop(c)
    \/ \E c \in Callers : EndStop(c)
    \/ Signal

\* The steps of a runner once it serves and has been notified, the server's own
\* answers among them: the Server trait asks stop() to return and run() to return
\* after it.  A server left alone may serve for ever, and no signal need come.
RunnerSteps(c) ==
    \/ TakeSignal(c) \/ InvokeStop(c) \/ EndStop(c) \/ HookLoop(c)
    \/ \E r \in {"ok", "err"} : StopServer(c, r) \/ Drained(c, r)

LifeSpec ==
    /\ LifeInit /\ [][LifeNext]_allVars
    /\ \A c \in Runners : WF_allVars(RunnerSteps(c))
-----------------------------------------------------------------------------
LifeTypeOK ==
    /\ TypeOK
    /\ initResult \in {"unset", "busy", "ok", "err"}
    /\ stage \in [Callers -> Stages]
    /\ server \in [Runners -> {"idle", "running", "told", "ended", "dropped"}]
    /\ result \in [Callers -> {"none", "ok", "err"}]
    /\ notified \in [Runners -> BOOLEAN]
    /\ signals \in 0 .. MaxSignals
    /\ store \in [Modules -> {"none", "open", "closed"}]

BuiltinHooks == {Builtin[k] : k \in DOMAIN Builtin}
StartHooks == {h \in Hooks : PhaseOf[h] = "start"}
StopHooks == Hooks \ StartHooks

\* No server runs before the framework is up: every built-in start hook has
\* answered (or was refused at the limit), and no start hook that must succeed
\* has failed, for the caller that ran init() and for those that got its cached
\* result (runner.rs: init, `init()?`).
ServeOnlyInitialised ==
    \A c \in Runners : server[c] = "running" => \A h \in StartHooks :
        /\ h \in BuiltinHooks => verdict[h] # "none" \/ closure[h] = "dropped"
        /\ Must[h] => verdict[h] \in {"none", "ok"}

\* init() has one outcome for the whole process: a caller that got past init() saw
\* it succeed, one that left without serving or using anything saw it fail, and a
\* failed init is never retried (runner.rs: INIT_RESULT, get_or_init, `init()?`).
InitIsShared ==
    \A c \in Callers :
        /\ stage[c] \in {"serving", "stopping", "draining", "using", "closing", "stop"}
               => initResult = "ok"
        /\ stage[c] = "returned" =>
               initResult = IF phase[c] = "stop" \/ (c \in Runners /\ server[c] # "idle")
                            THEN "ok" ELSE "err"

\* The resources a runner serves with outlive its server, as far as it is the
\* runner's to say: while the run future exists no stop hook has been started,
\* except those that another caller's shutdown() took (runner.rs: the order of
\* run_with_signal; the lists are the process's, manager.rs: take_sorted_hooks).
StopsAfterServer ==
    \A c \in Runners : server[c] \in {"running", "told"} =>
        \A h \in StopHooks : Started(h) =>
            \E d \in Callers \ {c} : stage[d] \in {"stop", "returned"} /\ InBatch(d, h)

\* The hooks have the orders their modules register them with, or the default.
OrdersAsRegistered ==
    \A h \in Hooks : PhaseOf[h] \in DOMAIN Orders[ModuleOf[h]]
                     /\ Order[h] = Orders[ModuleOf[h]][PhaseOf[h]]

\* The module, or the application, starts before the other.
StartsBefore(m, n) ==
    \E g \in StartHooks : ModuleOf[g] = m
        /\ \E h \in StartHooks : ModuleOf[h] = n /\ Order[g] < Order[h]

\* What is started later is stopped earlier: as long as a module, or the application,
\* has not been stopped, neither has a module that was there before it started, unless
\* by another shutdown() (the orders of the modules' register_hook functions, read
\* together, and HookOptions::default; manager.rs: take_sorted_hooks).
LifetimesNest ==
    \A c \in Callers : \A p, q \in StopHooks :
        /\ Started(p) /\ verdict[q] = "none"
        /\ InBatch(c, p) /\ InBatch(c, q)
        => ~StartsBefore(ModuleOf[p], ModuleOf[q])

\* What the modules' register_hook functions see to: a module that holds a
\* resource registers a stop hook for it.
StopHooksThere ==
    \A m \in Modules : \E h \in BuiltinHooks : ModuleOf[h] = m /\ PhaseOf[h] = "stop"

RefusedAtLimit(h) == closure[h] = "dropped" /\ regNo[h] = 0

\* Nothing stays open behind a shutdown that has ended, except the resource of a
\* module one of whose hooks ran out of time or whose stop hook was refused
\* (runner.rs: shutdown; manager.rs: the stop phase is never cut short).
ReleasedUnlessLate ==
    (\E c \in Callers : stage[c] = "returned" /\ phase[c] = "stop")
    /\ (\A c \in Callers : stage[c] # "stop")
    => \A m \in Modules : store[m] = "open" =>
        \E h \in Hooks : ModuleOf[h] = m /\ (verdict[h] = "timeout" \/ RefusedAtLimit(h))

\* What a failed init() leaves open can still be released: a shutdown() would find
\* every module's stop hook in the list, unless it was refused at the limit
\* (runner.rs: init registers all before it runs any, and `init()?` returns without
\* shutdown; manager.rs: the early return drops hooks of its own batch only).
FailedInitKeepsStops ==
    initResult = "err" => \A h \in StopHooks \cap BuiltinHooks :
        RefusedAtLimit(h) \/ \E i \in DOMAIN registry["stop"] : registry["stop"][i] = h

\* A runner that was signalled returns, even if hooks hang (runner.rs: wait for
\* stop(), for run(), then for the stop hooks, each bounded by its timeout).
SignalEndsRun ==
    \A c \in Runners : notified[c] ~> stage[c] = "returned"

\* What the documentation says of run_server: when it exits after a signal it has
\* cleaned up, that is, it has run the stop hooks (runner.rs:68, runner.rs:131).
ExitCleansUp ==
    \A c \in Runners : stage[c] = "returned" /\ notified[c] => phase[c] = "stop"

\* What the documentation says of the order of the stop hooks: xtrace, xcache and xorm
\* stop before the hooks of default order that the application registers
\* (xhook/README.md:60-65).
UserStopsLast ==
    \A c \in Callers : \A u, h \in StopHooks :
        /\ InBatch(c, u) /\ InBatch(c, h)
        /\ ModuleOf[u] = "user" /\ ModuleOf[h] \in {"trace", "cache", "orm"}
        /\ Started(u)
        => verdict[h] # "none"

\* What the documentation says of shutdown_xlog: it runs after all other hooks of
\* its batch, so that their shutdown can still log (xlog/init.rs:122).
LogStopsLast ==
    \A c \in Callers : \A h, g \in StopHooks :
        /\ InBatch(c, h) /\ InBatch(c, g)
        /\ h # g /\ ModuleOf[h] = "log" /\ Started(h)
        => verdict[g] # "none"
=============================================================================
