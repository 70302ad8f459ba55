# Formal models of x-one

x-one is a Rust service framework: modules for configuration, logs, traces,
metrics, databases, caches and HTTP register life-cycle hooks with a hook
manager; `run_server` brings them up, serves, and takes them down; beside it
stand two ways of composing work (`xflow`, `xpipeline`) and a set of utilities.
This directory holds TLA+ modules translated from its source, TLC
configurations that check them on small instances, and TLAPS proofs for every
value of the constants. Paths below are those of the repository's `src/`
directory; line numbers of every definition are in `PROJECT.json` (`map`).

## The system

| component | state | operations | what is hard | what makes it correct |
|---|---|---|---|---|
| `xhook` | two lists of closures under one mutex | register, invoke a phase, reset | each closure on its own thread with a timeout and never cancelled; registrations and invocations overlap; fail-fast | no closure lost or run twice; order; an honest result; bounded waiting |
| `xserver` runner | a once-cell with the result of init | `init`, `shutdown`, `run_server` | exit signal racing the server's own end; cached failure; early returns | resources up before serving and released after, whatever happens |
| `xserver` servers, `xaxum` server | a watch channel; connections | `run`, `stop` | stop before, between and during waits; a drain with and without a limit | a stop ends `run()`; nothing is served when it returns |
| modules (`xlog`, `xtrace`, `xorm`, `xredis`, `xcache`, `xmetric`, `xhttp`, `xconfig`) | one global store each | a start hook, a stop hook, access | order between eight files; partial failure of init; late hooks | users of a module run inside its life time |
| `xflow` | the result under construction | `execute` with process and rollback | failures of rollbacks, weak failures, panics of processors and monitors | all or undone in reverse, and an honest report |
| `xpipeline` | bounded channels, tasks, their handles | `run`, send, receive, join | tasks that leave early, channel closing, joins in order | a stream in order, nothing lost, no deadlock, a complete report |
| `xutil` pool, retry, future, spawn | job queue, workers, result slots | submit, shutdown, retry, get | a panicking job kills its worker; a shared lock; a result that races its timeout; shutdown with jobs queued | an accepted job runs, a caller gets one honest answer and is not left waiting |
| `xmetric` client | maps of metrics behind a lock | counter, gauge, histogram | first use by two threads; use before and during init; the order of labels | no update lost, each metric shown once |
| `xconfig` | the merged configuration | load, profile merge, environment expansion | each source of the profile is known only when the one before it was read; base texts are expanded twice | the documented precedence, no placeholder left over |
| `xcache`, `xorm`, `xredis` clients | named instances | get, init, shutdown | one of several instances fails; the default alias; entries with two times to live | a store is empty or complete; an entry lives as long as its last write allows |
| `xaxum` builder and middlewares | a stack of layers | build, handle a request | panics below the recording layers; requests polled by changing threads; tracing shut down under way; bodies read ahead | every handler sees its own context; log, span and metric agree with the answer |

The components meet in one place: `xserver::init` makes every module register
its hooks, the manager runs them, and `run_server` holds the server between the
two phases. `xflow` and `xpipeline` are used by applications and touch none of
the rest.

## Modules

    XHook, XModules <- XServer         the hook manager; the modules' hooks and their
                                       orders; the life cycle on top of both
    ServerContract <= XBlocking        the contract of the Server trait and
                   <= XAxum            the crate's two servers
    Saga <= XFlow                      a flow implements a saga
    Stream <= XPipeline                a pipeline implements a lossy bounded stream
    XMetric                            metrics created on first use
    XTask                              pool, future, spawned task, retries
    XConfig <- XStore                  configuration as a function of the world; the
                                       named instances made from it
    XLayers                            requests through the middlewares

`<-` is EXTENDS, `<=` a refinement. `X...Proofs` extends its module with the theorems
(those of `XHook` are in `XServerProofs`, which needs them; `ServerProofs` is about both
servers). `MC*` modules give TLC its instances. Operators whose comment says "Mutant" are
plausible bugs of the definition that follows them; nothing in a specification
uses them. `PROJECT.json` pairs each with the property it must break.

### XHook (`xhook/manager.rs`, `options.rs`)

`registry` is `HookManager`'s two lists. `Register` is `register_hook` with its
silent refusal at `MAX_HOOK_NUM`; `TakeSorted` is the critical section of
`take_sorted_hooks` (a stable sort and a `mem::take`); then a caller alternates
`SpawnHook` (a closure goes to its own thread) with `Receive` or `TimeOut`, the two
outcomes of `recv_timeout`, until `FinishOk` or the fail-fast branch of `Judge`.
`HookReturns` is the hook's thread: nothing makes it happen, and it may happen
after the timeout. A panic is an `Err`, as `safe_invoke_hook` makes it. A duration
is not modelled: a timeout can fire at any time while the result is not there.
`regNo` is a history variable, the order registrations were accepted in.

`RunsInOrder` speaks of hooks of one invocation. Its exception, a hook whose time
ran out and that may still be running when the next one starts, is what the code
does and the reason why late answers matter.

### XModules (the modules' `register_hook`, `xhook/options.rs`)

The hooks the eight modules register and the orders they give them, from eight files,
with the default order an application's hooks have, in the order
`register_builtin_hooks` pushes them. Everything the other modules say about the order of
modules is read off these numbers.

### XServer (`xserver/runner.rs`, the modules' `register_hook` and `init`/`shutdown`)

`XServer` extends `XHook`; a caller is a call of `run_server` or a thread that
calls `init()` and `shutdown()` itself. `INIT_RESULT` is `initResult`, with "busy"
for the time in which `get_or_init` blocks other callers. `RegisterBuiltin` is one
push of `register_builtin_hooks`; other threads may register in between. `Signal`
reaches those runners that are inside `select!`. `StopServer` and `Drained` are the
two `?` of the signal branch. A module is its pair of hooks and one store, "open"
after its start hook succeeded (or failed after storing its resource, for the
modules of `StoresFirst`: `init_by_config` of xlog keeps the writer's guard before
`try_init`, which may fail), "closed" by its stop hook. A module that its
configuration disables leaves its store as it was.

The server itself is what the `Server` trait promises: `stop()` returns, then
`run()` returns, each with either result.

### ServerContract, XBlocking, XAxum (`xserver/server.rs`, `blocking.rs`, `xaxum/server.rs`)

`ServerContract` states the trait's promise. `XBlocking` is the watch-channel loop,
with any number of concurrent `run()` and `stop()` (its definitions are named
`Blocking...` so that `ServerProofs` can extend both servers); tokio's watch channel is a value
and a version, as `borrow`, `changed` and `send` use them. In `XAxum` the channel is
the one bit `pending`, since the server keeps no receiver and a send without a
subscriber changes nothing. Connections are external tasks, modelled from
what the two run functions rely on: in h2c mode the `GracefulShutdown` watcher, in
HTTP/1 mode axum's own drain. That an idle connection closes when asked, and a busy
one after its response, is what those libraries document.

### Saga, XFlow (`xflow/flow.rs`, `processor.rs`, `monitor.rs`, `result.rs`)

`Process` and `Rollback` are `safe_process` and `safe_rollback` with either result;
a failed process may have changed the data or not. The branches of the match are
`Succeed`, `SkipWeak` and `FailStrong`; `RolledBack` is the end of one turn of the
reverse loop. `Unwind` is a panic in a monitor callback, which nothing catches.
A rollback that returns Ok is taken to have undone its step. (The default
implementation of `rollback` does nothing: a processor that keeps it has nothing to
undo.) `AbortLeavesLittle` rests on this, the other properties do not.

`Saga` is what a flow is for. The mapping reads the saga's stack of standing steps
off `succeeded` and `cursor`; a weak step that failed counts as standing, because
the code rolls it back too.

### Stream, XPipeline (`xpipeline/pipeline.rs`)

Channel k leads from task k to task k+1. A processor here forwards each frame, as
the processors in the repository's tests do, goes on or returns when a send is refused, and
may return or panic at any time (`Quit`). A task that panicked has lost its name: the
join reports it as "unknown" (`NameOf`). The framework's part is the rest: which
task owns which channel end and when it goes, `drop(tx)` before the receiver, the
joins in the order of the chain, and the result. Dropping a receiver drops
what its channel buffers. `Stream` promises order, no duplicates and a bound on what
is on its way; the mapping concatenates buffers and hands.

### XMetric (`xmetric/client.rs`, `xmetric/init.rs`)

A thread's call of `counter_add`, `gauge_*` or `histogram_observe` is `Call`, `Look`
(the read lock), `Create` (the write lock, with the second look), `Register` (the
registry's lock, the store's released) and `Update`. The three copies of
`get_or_create_*` are one definition over the kind. Names and the namespace are
sequences of words, so that `app_x` unprefixed and `x` prefixed with `app` are the
same name; labels are sequences of pairs with distinct keys, sorted by key. The
update itself, inside `prometheus_client`, is one step. `LabelAssumption` (sorting keeps
different labels different) is an assumption of the proofs that TLC evaluates. `SetConfig` is
`init_xmetric` and may come after metrics were used. `reset_metrics` (hidden, for
tests) is left out.

### XTask (`xutil/pool.rs`, `future.rs`, `spawn.rs`, `retry.rs`)

`Submit` is `Pool::submit`'s `try_send` into a channel of `Capacity` places, `Take` a
worker's `recv`, `WorkerLeaves` the `None` after `shutdown`. The workers share the receiver
behind a mutex; its guard is a temporary of the `let` and is gone when the job runs,
so the lock is part of `Take`, and the mutant `TakeLocked` is the `while let` that would
keep it. `Panic` takes a worker along; the channel's contents go with the last one
(`Abandoned`). `Spawn` is `XFuture::spawn` and `spawn_safe`, whose difference shows only in
how the caller asks: `Ask` with `get`, `get_with_timeout` or the join handle. The job's body is
`retry_async`: `tries` against `Retries`, with a state for the delay. The delay's
length and its growth are left out.

### XConfig, XStore (`xconfig`, `xorm`, `xredis`, `xcache`)

`XConfig` is a set of pure operators: `InitXConfig` maps a world (arguments,
environment, .env files, configuration files) to the configuration `init_xconfig`
stores. A text is a literal or one placeholder; a document is its `Server` section
and its modules' lists of instances. The values of scalar settings are left out, as
nothing in the crate decides on them. `Location`, `DotEnv`, `Profile`, `Merge` and
`ParseConfig` follow the functions of those names.

`XStore` runs the start hooks on that configuration in the order of their `order`
options: `InitStore`; for xorm and xredis `SkipInstance`, `BuildInstance`,
`BuildFails` and `Publish` (all instances are built outside the lock and put in inside
it); for xcache `CreateCache` one by one. `stage` is what `init()` waits for and `hook` the
start hook whose thread runs; they differ after `TimesOut`, as when a Redis server
accepts a connection and never answers. `init()` has then failed, but the thread goes on
and may still fail or publish, before, between or after the stop hooks of a `shutdown()`
(`Answers` and `Fails` say what an answer does that nobody waits for). `late` remembers
whose hook that was. While the process is up, requests write and
delete cache entries and the clock ticks; `Clear` is a stop hook. Databases, Redis and
`moka` are external. Of moka the model keeps what `Cache` relies on: an entry is returned before the
earlier of `written + time_to_live` and the deadline of its `Expiry`, and the two
callbacks of `PerEntryExpiry` set that deadline anew at every write.

`IsWorld` says what a world is made of, and `StoreAssumption` that `Worlds` holds nothing
else: variables and files hold texts, and the default of a placeholder has no placeholder
in it, because the pattern of `env_expand.rs:10` ends a default at the first brace. (A text
that becomes a placeholder only when another one in it is filled in, as `${A:-${B}}`
does, is outside the model.) `Over` is one function over another: TLC's `@@`
would do, but the prover knows nothing of it.

`ConfigIsLayered` and `StoreIsConfigured` compare with a second definition of what is
wanted, written as a table of precedence and as "the last owner of a name", not
along the code.

### XLayers (`xaxum/builder.rs`, `middleware/`, `xtrace/init.rs`)

`Build` gives the stack of layers, outermost first. A request goes down the stack
with `Enter`, is handled, and comes back with `Leave`, or with `Unwind` when the handler
panicked. Between two awaits a thread `Poll`s it; `Yield` ends the poll. `ctx` is the
OpenTelemetry context of the thread, which `OtelContextFuture` attaches for the length
of each poll. `through` holds the layers that were switched on when the request
entered them (the log layer asks for the INFO level, the trace layer for the tracing). The body is
a shape: declared and small, larger than the limit, without a length, binary, or cut
off on its way. `TakeProvider` and `ClearFlag` are the two steps of `shutdown_xtrace`
with requests between them. `Disconnect` is hyper dropping the request's future. axum's
routing, hyper and the OpenTelemetry SDK are external.

## Runs

| run | question | instance | states |
|---|---|---|---|
| `hook` | is any closure lost or run twice, are the hooks of an invocation run in order, is its result honest, does it end | 2 callers, 3 hooks (two tie, one may fail), limit 2 so that one may be refused | 179 000 |
| `life_run` | what is up and what is released or can still be, who gets which result of init, does a signal end the run | a `run_server` and a manual user, log module, user start and stop hooks, one signal, limit 3 | 311 000 |
| `orders` | does every module, and the application, run inside the life of what started before it | one caller of init() and shutdown(), the hooks of all eight modules and the application's, limit 9; at most one hook fails or times out | 143 000 |
| `servers` | can a stop be lost, what is still served when `run()` returns, does a stop end it | both servers side by side: a `BlockingServer` with 2 runs and 3 stops, an `XAxumServer` with 3 connections, both modes | 152 000 |
| `flow` | what an error leaves behind and what the result says | 5 steps, steps 2 and 3 weak, so that both kinds come before and after the other | 6 000 |
| `pipeline` | is a frame lost or a deadlock possible | 2 processors, channels of 1, 6 frames: one more than fit on the way | 97 000 |
| `metric` | is an update lost, and how often is a metric shown | 2 threads, 3 calls, 2 kinds, 2 names that collide once prefixed, labels in both orders | 106 000 |
| `tasks` | what becomes of accepted jobs and of those who wait | 2 workers with a place each, 3 pooled jobs, a task with a retry | 63 000 |
| `layers` | whose context does a handler see, do log, span and metric agree | 2 requests, 2 threads, 5 builders, 4 shapes of bodies | 1 870 000 |
| `resources` | is the configuration what its sources say, are stores complete, when do entries expire | 360 worlds, one key, two types, own TTLs below and above the cache's, clock to 4; any start hook may time out and answer late | 155 000 |

Every property of a passing run has a mutant that breaks it under the same
configuration. Each state machine has a type invariant, `TypeOK` (`LifeTypeOK` in `XServer`,
`BlockingTypeOK` in `XBlocking`, `Types` in `XLayersProofs`). It is no property of a run: it
is proved (see Proofs).

Beside the runs, more configurations can be checked by hand:
`MCXPipelineEmpty.cfg` (the pipeline without processors: types, `NothingLost`,
`OnlyOutputBlocks`, `PipelineEnds`, the refinement), `MCXMetricNames.cfg` (`NamesDiffer`, what
remains of the uniqueness of names), and four that state what a document says and fail:
`MCXServerUser.cfg`, `MCXServerLog.cfg`, `MCXStoreTTL.cfg` and `MCXMetricBuckets.cfg`
(next section).

In `servers` (`MCServers`) the two servers share nothing: each takes its steps under its
own fairness, whatever the other does.

Bounds. Two callers are enough for every race on the lists: an action touches one
list and one caller. Three hooks in one list give a tie, a smaller order and one
beyond the limit. The limit is 2 or 3 instead of 1000 (9, beyond reach, in `orders`): only
`>=` is ever asked of it. The hooks of `hook` are all start hooks; that a failed stop hook
keeps none from running is checked in `life_run` (`ReleasedUnlessLate`, whose mutant makes the stop
phase fail fast). In `orders` a constraint (`FewFail`) leaves out states in which more than one
hook has failed or timed out: one shows every place at which a start can break off, and
which hook comes next depends on no result but that. `LifetimesAreNested` is the same
without the bound.
`MaxSignals` is 1, as a second signal meets a runner that no longer listens.
Two processors make a chain with a channel whose both ends are tasks; with six
frames, buffers of one and both hands full the producer is made to wait.
Two threads meet at every lock of `XMetric`, and a third call by the one that is ahead
finds a family that is not registered yet. In `XTask` both workers can die with a job
still queued. In `XLayers` two requests and two threads let a thread change
requests between polls and a request change threads; the builders contain recover inside
and outside of metric, and each switch alone. In `XStore` the worlds cross every
source of the location and the profile with files that exist, fail or are missing; TTLs of 1 and
4 lie on both sides of the caches' 2 and 3, and at time 4 all of them but the longest have passed.

Where deadlock is not checked, the system really stops: a process that has returned,
a flow that has ended, a pipeline that is over, a pool whose jobs are done, all
requests answered.

### Disagreements between code and documentation

Two runs are expected to fail, each with one property that a comment or README
states; `PROJECT.json` has a finding for each:

- `exit_cleans_up`: `run_server` is documented to clean up when it exits on a signal
  (`xserver/runner.rs:68`, `:131`); when `stop()` or the drained `run()` fails, `?`
  returns past `shutdown()` (`:152`, `:156`).
- `axum_early_stop`: the `Server` trait has `stop()` tell `run()` to return
  (`xserver/server.rs:38`); `XAxumServer::stop` before `run()` has subscribed tells
  nobody, returns Ok, and `run()` never ends.

Three more findings are about documents that say the reverse of a property that holds;
a configuration beside the runs states the document's version, and TLC refutes it:

- The order of stop hooks (`LifetimesNest` in `orders`; `UserStopsLast` in
  `MCXServerUser.cfg`): `xhook/README.md:60` has xtrace, xcache and xorm stop
  before the application's hooks (orders 1, 2, 3 and 100); they are registered with
  `i32::MAX - 20`, `- 60` and `- 50`, and stop after them. The code's order is the one that
  nests life times: an application's stop hook still finds its pools and caches. Who
  follows the table may expect the opposite.
- The log's place in it (`LifetimesNest` in `orders`; `LogStopsLast` in `MCXServerLog.cfg`):
  `shutdown_xlog` is documented to run after all other hooks (`xlog/init.rs:122`,
  `xhook/README.md:66`); it is registered with `i32::MAX - 30` and `shutdown_xtrace` with
  `i32::MAX - 20`, so that xtrace stops without the log.
- An entry's own time to live (`EntryIsLastSet` in `resources`; `OwnTTLReplacesDefault` in
  `MCXStoreTTL.cfg`): `set_with_ttl` is documented to replace the cache's default TTL by it
  (`xcache/cache.rs:107`); moka's `time_to_live` applies as well, so an own TTL that is
  longer has no effect. The property states the earlier of the two, and the instance has
  own TTLs on both sides of the caches'.

Others the models or the reading show, without a finding:

- log is documented to start before trace (`xserver/runner.rs:32`, `xhook/README.md:51`);
  they are registered the other way round.
- `MCXMetricBuckets.cfg` (`BucketsAsConfigured`): `HistogramBuckets` is documented as the
  bounds of application histograms (`xmetric/config.rs:27`); `default_histogram` has its own
  (`xmetric/client.rs:237`), and no code reads the configured ones, nor
  `HttpDurationBuckets`, nor applies `ConstLabels`.
- `xaxum/middleware/log.rs:140` places the log layer outside of the trace layer;
  `xaxum/builder.rs:160` puts trace outside, and `LogInTrace` rests on that.

## Fairness

- A caller of the hook manager takes its own steps, and `recv_timeout` returns: it is
  a thread in straight-line code. A hook's thread has no fairness: hooks may hang.
- In `XServer` a runner that was signalled goes on, its server answers `stop()` and
  `run()` returns (the trait's promise, checked of `XBlocking` and `XAxum` on their
  own). No fairness for the arrival of signals, for manual users or for a server's end.
- `XAxum` and `XBlocking`: the runtime polls tasks that were woken. Handlers have to
  answer only in HTTP/1 mode, where `run()` can end no other way.
- `XFlow`: one thread, processors return.
- `XMetric`: a thread goes on with its call; it waits only for locks held for one step.
- `XTask`: the runtime runs what was woken and its timers fire, so that a free worker
  takes a job and a waiting caller is answered or times out. Jobs need not end.
- `XStore` and `XLayers` state no liveness: nothing in them waits for another.
- `XPipeline`: tasks are scheduled, a processor keeps reading until its input ends,
  and the caller takes the output as long as it keeps the receiver. The last is
  needed: `OnlyOutputBlocks` shows that a full last channel nobody reads is the one
  thing that can stop a closed pipeline.

## Proofs

Every invariant, every action property and the safety part of every refinement the runs
check is a theorem, for every value of the constants under the named assumptions. What
follows gives the argument of each; `PROJECT.json` pairs theorems and properties.

**The hook manager** (first half of `XServerProofs`; any finite set of hooks, any callers,
orders and limit): `TypeCorrect`, `NothingLost` (`HeldInOneSlot`), `OkIsHonest`
(`OkMeansMustHooksOk`), `ErrIsFailFast`, `VerdictStands`, `HooksRunInOrder`.
The assumption is `HookAssumption`. The properties are not inductive,
because none of them says that lists and batches hold a hook once, or that a batch
is sorted. `IInv` adds the first: every slot of a list or of the unstarted part of a
batch holds a hook that is "held", no two slots hold the same, every held hook has
one; with it what is known of hooks before and at a caller's position. `Invariance`
takes one lemma per action. For the order, `StableSort` is shown to sort: `Precedes`
is a strict total order on indices, so `Rank` is a bijection (counted with the
cardinality lemmas of FiniteSetTheorems), so the sorted list is a permutation in
which earlier means `Precedes`; registration numbers grow along each list, which
turns that into `Prior`.

**The life cycle** (second half; any modules, hooks, callers and runners):
`ServersWaitForInit` (`ServeOnlyInitialised`), `OneInitForAll` (`InitIsShared`),
`OwnServerOutlived` (`StopsAfterServer`); when the hooks have the orders of `XModules`
(`OrdersAsRegistered`), `LifetimesAreNested` (`LifetimesNest`); and when each module
registers a stop hook (`StopHooksThere`), `ResourcesReleased` (`ReleasedUnlessLate`). The
instances of the runs are made from `XModules`, and TLC evaluates `StopHooksThere` on them.
The nesting has two parts: `OrdersMirror`, that of any two modules the one with the
lower start order has the higher stop order, by the numbers alone; and the order in which
a batch runs.

A step of the life cycle is a step of the hook manager or leaves it alone, so
`IInv` and the order of batches carry over. `LInv` adds what ties the two levels
together: a caller invokes hooks only at the stages "start" and "stop" and for that
phase; while one caller is inside init() the others are idle or blocked; a batch holds
hooks of its caller's phase; a hook that was started is in the batch it was started
from (a stop hook for ever, a start hook until init() has ended), so that what is
in nobody's batch has no verdict. `TurnKeepsLife` is the frame for all steps of the
manager in which no list is taken.

The release of resources needs the fate of each module's pair of hooks from their
registration to their answers. `RInv` says: when init() has an answer, every module's
hooks have been registered, and every start hook that was started has a verdict; once a caller is
in the stop phase, no module's stop hook is left in the list; a stop hook is dropped by
the limit and by nothing else; behind a stop hook that has answered, a store is open only
if a start hook of the module ran out of time, since no other can still answer.
What is open at the end was therefore opened late, or its stop hook was refused or
ran out of time itself. `FailureKeepsStops` (`FailedInitKeepsStops`) uses the same: after a
failed init() nobody has taken the stop hooks, so those of the modules are in the list.

**The servers** (`ServerProofs`; any number of runs, stops and connections).
`StopsAreSeen` (`NoStopLost`) and that no run returns before a stop (`ReturnsWhenTold`):
with type correctness, which ties the channel's value to its version, the property is
inductive. `ServesNobodyAfter` (`ReturnedMeansDrained`):
what it needs beside its types is that only `stop()` makes `run()` stop accepting.
The contract itself is liveness and stays with TLC; what is proved of it is that nothing
leads away from its end. `ToldRunsReturn`: once a stop was sent, a run of `BlockingServer` that
waits can only go to its look, and one that looks only return. With `StopsAreSeen`, by which
a run that waits is due to wake, every run is then two steps of its own from its
return. `HeardStopsAdvance`: a stop that `XAxumServer` has heard stays with it until it
drains or `accept()` fails; while it drains it accepts nothing, and each step of a
connection brings it nearer to its end (`Way` counts how near). What an early stop of
`XAxumServer` breaks is what comes before: that it is heard.

**Flows** (`XFlowProofs`; any number of processors, any of them weak):
`TypeCorrect`, `RollsBackAll` (`AbortUndoesAll`), `LeavesLittle` (`AbortLeavesLittle`),
`ResultsAreHonest` (`ResultIsHonest`), and `FlowImplementsSaga`, the safety part of the
refinement.
`IInv` says that the recorded steps are 1 .. i - 1 in order, that the rolled back ones
are those above `cursor` from the last, and which changes can be left; type
correctness itself needs it (the cursor never goes below zero because the reverse
loop's turn began with a step left). `HInv` says of the lists of errors what they hold
between two steps: what has failed so far, without the failure at hand until it is
recorded. That they are in order rests on the loops: every number that is added lies
beyond all that were listed.

**Pipelines** (`XPipelineProofs`; any number of processors and frames, any buffer size):
`TypeCorrect`, `ResultComplete` (`ResultIsComplete`), `NoFrameLost` (`NothingLost`) and
`PipelineIsStream` (`ImplementsStream`), with the capacity
(Final + 1) * BufferSize + Final. What is on the way concatenates the buffers and hands of
a chain of any length, so its lemmas go by induction over the chain. The library's
induction theorem takes an operator, which no prover here can instantiate; the induction
is therefore stated over a set of numbers (`SetInduction`), an ordinary constant. The
lemmas say what becomes of the concatenation when a frame goes from one place to the next,
comes in or goes out. `Joins` says that the tasks awaited are gone and the errors list the failed ones among them
(`Reports`: at the place of the k-th failed task its name, or "unknown" if it panicked;
`ReportsAppend` adds one); `Ends` that only a task that is gone lets go of its ends, and that
one that did not leave early has seen the end of its input; `InOrder` that what came out
and what is on the way is what was sent.

**Metrics** (`XMetricProofs`): `UpdatesAreKept` (`NoUpdateLost`) and `ShownOnce`
(`ExposedOnce`): a family and its place in the store determine each other, so the second
look under the write lock is what makes the family new to everybody; an update changes
the value of one family for one set of labels, and `LabelAssumption` keeps sets apart.

**Jobs** (`XTaskProofs`; a pool of any size): `TypeCorrect`, `AnswersAreHonest`
(`AnswerIsHonest`) and `LossesNeedPanics` (`LossNeedsPanics`). The last counts: the workers
that died and the pooled jobs that panicked are equally many, since a worker runs one job
and a job has one worker; a worker that leaves after shutdown leaves an empty channel.
Type correctness needs it as well: the channel holds each job at most once.

**Requests** (`XLayersProofs`; any requests, threads, shapes and lists of the
application's middlewares): `ContextIsOwn`, `RecordsAlwaysAgree`, `LogsAreTraced` and
`BodiesReach`. The invariant follows a request: the context of the thread that polls it is
`ContextOf` it; the layers above its position have written nothing and those it came back
through have written its status; the only trace layer, if there is one, is outermost.

**Configuration and instances** (`XStoreProofs`; any worlds in the sense of `IsWorld`, any
lists of instances, keys, types and times to live): `TypeCorrect`, `LayersInOrder`
(`ConfigIsLayered`), `NothingToFillIn` (`PlaceholdersGone`), `StoresAsConfigured`
(`StoreIsConfigured`) and `ReadsLastSet` (`EntryIsLastSet`).
Two of them are about what `InitXConfig` computes; `ConfigIsRead` is all the state
machine adds. `LocationIs`, `EnvIs` and `ProfileIs` show that the search the code does
step by step finds what the tables of precedence name; `ExpandIs`, `MergeIs` and `LoadedIs`
carry through expansion and merge that texts stay texts and that a placeholder left over
came out of the environment. The second expansion of base texts is why `IsWorld` is
needed: what the first one put in may be a placeholder again when it is a variable's value, but not
when it is a default.
For the stores, `Filled` says what each holds at each stage (nothing yet, or all that is
wanted, or nothing again unless the late hook is its own, which may add it at any
time), and `Building` what the
running hook has built: for each name, the last entry of that name has the target of the
last owner among the instances before `next`, and there is none if there is no such owner.
With `next` past the end this makes `InsertAll` the wanted store (`AllBuilt`). For reads,
`EntriesKept` ties every entry to the last set of its key.

Only model-checked, and why:

- Liveness: `InvocationEnds`, `SignalEndsRun`, `PipelineEnds`, `HeardStopEnds`,
  `EventuallyExposed`, `FreeWorkerTakes`, `WaiterEnds`, and the fair parts of
  `ImplementsSaga`, `BlockingHonoursContract` and `HonoursContract`. Each rests on fairness
  of actions, and the prover reasons about neither fairness nor ENABLED.
- `OnlyOutputBlocks` (`MCXPipelineEmpty.cfg`), which is about ENABLED.

## Plan

Done: every module of the table above with its runs, and a theorem for every safety
property of a passing run.

Left: the inside of `init_xlog` and `init_xtrace` composed with `XServer`, so that a failed
`init()` says which resources stay open; the session layer's map; for the liveness
properties, the safety half of their arguments (what is enabled in a state that must not
last) as invariants of their own.

## Not modelled

- Formatting: log lines (`xlog/otel_fmt.rs`, `console.rs`, `kv_layer.rs`), errors, the
  banner, the masked print of the configuration. They keep no state and no
  property here speaks of wording.
- Set-up of third-party clients: sqlx, redis, reqwest, OpenTelemetry, tracing; what the
  crate relies on of them is in the actions marked as external.
- Values without control: scalar accessors of `xconfig`, settings of modules other than
  names and targets, `xflow`'s typed data map, parsing of addresses, durations and
  environment texts, the `.env` format, routes, the session's map, the length of back-offs.
- Empty (`[]`) and null sections of a configuration, whose reading the accessors leave to
  serde, and a `Server` that is not a mapping.
- Functions hidden for tests: `reset_metrics`, `reset_config`, `set_...` and the like.
  `reset_hooks` is in `XHook`.
- A signal before the first listener exists ends the process. A failed `init()` makes
  `run_server` return at once with what was opened still open; that a `shutdown()` could
  still release it is `FailedInitKeepsStops`, but a `shutdown()` by somebody whose `init()` failed
  is in `XStore` only.
