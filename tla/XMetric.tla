------------------------------ MODULE XMetric ------------------------------
(***************************************************************************)
(* The metrics of the process (xmetric/client.rs): one store per kind maps *)
(* a name to its family, and a registry lists the families that /metrics   *)
(* shows.  A family is created on first use, by double-checked locking:    *)
(* look under the read lock, look again and insert under the write lock,   *)
(* register after letting go of it.  A family is shared by reference, so   *)
(* that others may use it before it is registered.                         *)
(*                                                                         *)
(* A word is what an underscore separates: a metric's name and a namespace *)
(* are sequences of words, since two names that differ may be one once     *)
(* prefixed.  A family's value counts the updates per label set, whatever  *)
(* an update does (inc_by, set, inc, dec, observe).  reset_metrics, which  *)
(* is hidden and for tests, is left out.                                   *)
(***************************************************************************)
EXTENDS Integers, Sequences, FiniteSets, SequencesExt

CONSTANTS
    Threads,     \* the threads that update metrics
    Kinds,       \* "counter", "gauge", "histogram": a store each
    Names,       \* the names the application uses
    LabelLists,  \* the labels of a call: sequences of pairs <<key, value>>
    Configs,     \* what init_xmetric may read: namespace, and histogram_buckets
    MaxCalls     \* bound: the calls in all

DefaultConfig == [namespace |-> <<>>, buckets |-> "default"]

\* No call gives a key twice, and the labels of a call may come in any order.
ASSUME MetricAssumption ==
    /\ Kinds \subseteq {"counter", "gauge", "histogram"}
    /\ MaxCalls \in Nat
    /\ \A l \in LabelLists : \A i, j \in DOMAIN l : l[i][1] = l[j][1] => i = j

VARIABLES
    store,       \* COUNTERS, GAUGES, HISTOGRAMS: per name the family, 0 if none
    family,      \* the families created so far
    registry,    \* REGISTRY: the entries, a metric name and a family each
    config,      \* CONFIG
    configured,  \* history: init_xmetric has run
    pc,          \* per thread: "idle", or the step of its call it is at
    call,        \* per thread: the kind, name and labels of its call
    got,         \* per thread: the family it got or created
    metricName,  \* per thread: the name it is to register its family under
    calls,       \* the calls made
    done         \* history: the updates done per kind, name and set of labels

vars == <<store, family, registry, config, configured, pc, call, got, metricName, calls, done>>
mapVars == <<store, family, registry>>
configVars == <<config, configured>>

\* Mutant: labels are kept in the order of the call.
UnsortedLabels(labels) == labels

\* to_dyn_labels: sorted by key.
ToDynLabels(labels) == SetToSortSeq(ToSet(labels), LAMBDA p, q : p[1] < q[1])

\* Sorting loses no label: different labels stay different.
ASSUME LabelAssumption ==
    \A l, m \in LabelLists : ToDynLabels(l) = ToDynLabels(m) => ToSet(l) = ToSet(m)

DynLabels == {ToDynLabels(l) : l \in LabelLists} \cup LabelLists
LabelSets == {ToSet(l) : l \in LabelLists}

\* build_metric_name.
BuildMetricName(n) == config.namespace \o n

\* default_histogram: fixed bounds, those of the default configuration.
DefaultHistogram == DefaultConfig.buckets

\* since and late are history: the configuration it was created under, and whether
\* init_xmetric had run by then.
NewFamily(k, n) ==
    [kind |-> k, name |-> n, buckets |-> DefaultHistogram,
     value |-> [l \in DynLabels |-> 0], since |-> config, late |-> configured]

-----------------------------------------------------------------------------
Init ==
    /\ store = [k \in Kinds |-> [n \in Names |-> 0]]
    /\ family = <<>> /\ registry = <<>>
    /\ config = DefaultConfig /\ configured = FALSE
    /\ pc = [t \in Threads |-> "idle"]
    /\ call = [t \in Threads |-> <<>>]
    /\ got = [t \in Threads |-> 0]
    /\ metricName = [t \in Threads |-> <<>>]
    /\ calls = 0
    /\ done = [k \in Kinds |-> [n \in Names |-> [s \in LabelSets |-> 0]]]

\* counter_add, gauge_set, gauge_inc, gauge_dec, histogram_observe: the entry.
Call(t) ==
    /\ pc[t] = "idle"
    /\ calls < MaxCalls
    /\ calls' = calls + 1
    /\ \E k \in Kinds, n \in Names, l \in LabelLists :
        call' = [call EXCEPT ![t] = [kind |-> k, name |-> n, labels |-> l]]
    /\ pc' = [pc EXCEPT ![t] = "read"]
    /\ UNCHANGED <<mapVars, configVars, got, metricName, done>>

Stored(t) == store[call[t].kind][call[t].name]

\* The family is in the store: it is cloned and used.
Take(t) ==
    /\ Stored(t) # 0
    /\ got' = [got EXCEPT ![t] = Stored(t)]
    /\ pc' = [pc EXCEPT ![t] = "update"]
    /\ UNCHANGED <<mapVars, configVars, call, metricName, done, calls>>

\* get_or_create_*: the look under the read lock.
Look(t) ==
    /\ pc[t] = "read"
    /\ \/ Take(t)
       \/ /\ Stored(t) = 0
          /\ pc' = [pc EXCEPT ![t] = "write"]
          /\ UNCHANGED <<mapVars, configVars, call, got, metricName, done, calls>>

\* The family is not in the store: it is created and inserted; its name is made
\* from the configuration of the moment.
Insert(t) ==
    /\ family' = Append(family, NewFamily(call[t].kind, call[t].name))
    /\ store' = [store EXCEPT ![call[t].kind][call[t].name] = Len(family) + 1]
    /\ got' = [got EXCEPT ![t] = Len(family) + 1]
    /\ metricName' = [metricName EXCEPT ![t] = BuildMetricName(call[t].name)]
    /\ pc' = [pc EXCEPT ![t] = "register"]
    /\ UNCHANGED <<registry, configVars, call, done, calls>>

\* Mutant: the store is not looked at again.
CreateUnchecked(t) == pc[t] = "write" /\ Insert(t)

\* get_or_create_*: the second look, under the write lock.
Create(t) ==
    /\ pc[t] = "write"
    /\ \/ Take(t)
       \/ Stored(t) = 0 /\ Insert(t)

\* Mutant: the family is never registered.
RegisterNothing(t) ==
    /\ pc[t] = "register"
    /\ pc' = [pc EXCEPT ![t] = "update"]
    /\ UNCHANGED <<mapVars, configVars, call, got, metricName, done, calls>>

\* Registry::register, the store's lock released.
Register(t) ==
    /\ pc[t] = "register"
    /\ registry' = Append(registry, [name |-> metricName[t], family |-> got[t]])
    /\ pc' = [pc EXCEPT ![t] = "update"]
    /\ UNCHANGED <<store, family, configVars, call, got, metricName, done, calls>>

\* Family::get_or_create for the labels, and the update.
Update(t) ==
    LET l == call[t].labels IN
    /\ pc[t] = "update"
    /\ family' = [family EXCEPT ![got[t]].value[ToDynLabels(l)] = @ + 1]
    /\ done' = [done EXCEPT ![call[t].kind][call[t].name][ToSet(l)] = @ + 1]
    /\ pc' = [pc EXCEPT ![t] = "idle"]
    /\ call' = [call EXCEPT ![t] = <<>>]
    /\ got' = [got EXCEPT ![t] = 0]
    /\ metricName' = [metricName EXCEPT ![t] = <<>>]
    /\ UNCHANGED <<store, registry, configVars, calls>>

\* init_xmetric, a start hook that runs once; the application's threads may use
\* metrics before it.
SetConfig ==
    /\ ~configured
    /\ config' \in Configs
    /\ configured' = TRUE
    /\ UNCHANGED <<mapVars, pc, call, got, metricName, done, calls>>

CallSteps(t) == Look(t) \/ Create(t) \/ Register(t) \/ Update(t)

Next ==
    \/ \E t \in Threads : Call(t)
    \/ \E t \in Threads : CallSteps(t)
    \/ SetConfig

\* A thread goes on with its call: none of its steps waits but for a lock that is
\* held for the length of a step.
Spec == Init /\ [][Next]_vars /\ \A t \in Threads : WF_vars(CallSteps(t))
-----------------------------------------------------------------------------
FamilyIds == DOMAIN family
Entries(f) == {i \in DOMAIN registry : registry[i].family = f}
Creating(f) == \E t \in Threads : pc[t] = "register" /\ got[t] = f

TypeOK ==
    /\ store \in [Kinds -> [Names -> {0} \cup FamilyIds]]
    /\ \A f \in FamilyIds :
        /\ family[f].kind \in Kinds /\ family[f].name \in Names
        /\ family[f].value \in [DynLabels -> Nat]
    /\ \A i \in DOMAIN registry : registry[i].family \in FamilyIds
    /\ config \in Configs \cup {DefaultConfig} /\ configured \in BOOLEAN
    /\ pc \in [Threads -> {"idle", "read", "write", "register", "update"}]
    /\ \A t \in Threads : pc[t] # "idle" =>
           call[t] \in [kind : Kinds, name : Names, labels : LabelLists]
    /\ got \in [Threads -> {0} \cup FamilyIds]
    /\ \A t \in Threads : pc[t] \in {"register", "update"} => got[t] # 0
    /\ calls \in 0 .. MaxCalls
    /\ done \in [Kinds -> [Names -> [LabelSets -> Nat]]]

\* Every update done is in the value a reader of the metric sees, whoever created
\* the family and in whatever order its labels are given (client.rs:
\* get_or_create_*, to_dyn_labels).
NoUpdateLost ==
    \A k \in Kinds, n \in Names, l \in LabelLists :
        done[k][n][ToSet(l)] =
            IF store[k][n] = 0 THEN 0 ELSE family[store[k][n]].value[ToDynLabels(l)]

\* A family in use is shown once, or will be by the thread that created it, and
\* nothing else is shown (client.rs: register, once per family inserted).
ExposedOnce ==
    \A f \in FamilyIds :
        /\ store[family[f].kind][family[f].name] = f
        /\ Cardinality(Entries(f)) = IF Creating(f) THEN 0 ELSE 1

\* Two metrics are shown under one name only if their kinds differ or one was
\* created before the configuration was read (client.rs: build_metric_name).
NamesDiffer ==
    \A i, j \in DOMAIN registry : i # j /\ registry[i].name = registry[j].name =>
        LET f == family[registry[i].family]
            g == family[registry[j].family]
        IN  f.kind # g.kind \/ ~f.late \/ ~g.late

\* A metric that was used is shown sooner or later.
EventuallyExposed ==
    \A k \in Kinds, n \in Names :
        store[k][n] # 0 ~> \E i \in DOMAIN registry : registry[i].family = store[k][n]

\* What the documentation says of HistogramBuckets: the bounds of the histograms
\* the application creates (config.rs:27).
BucketsAsConfigured ==
    \A f \in FamilyIds :
        family[f].kind = "histogram" => family[f].buckets = family[f].since.buckets
=============================================================================
