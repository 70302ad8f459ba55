------------------------------- MODULE XStore -------------------------------
(***************************************************************************)
(* The named instances a process holds: the start hooks of xconfig, xorm,  *)
(* xredis and xcache, in the order they are registered with, fill one      *)
(* store each from the configuration, requests use the caches, and the     *)
(* stop hooks empty the stores.  The first start hook that fails, or that  *)
(* init() stops waiting for, ends the start; the thread of a hook that was *)
(* given up on goes on, and may fill its store whatever happens meanwhile. *)
(*                                                                         *)
(* A store maps names to what the configuration said of the instance: the  *)
(* DSN of a pool, the address of a connection, the TTL of a cache.         *)
(***************************************************************************)
EXTENDS XConfig

CONSTANTS
    Worlds,      \* the worlds a process may start in
    Durations,   \* the texts to_duration understands, with their value
    Fallback,    \* the TTL of a cache whose DefaultTTL is not one of them
    Keys,        \* the keys of cache entries
    Types,       \* the types of their values
    CustomTTLs,  \* the times to live set_with_ttl is called with
    MaxNow       \* bound: the time the process is observed for

ASSUME StoreAssumption ==
    /\ \A w \in Worlds : IsWorld(w)
    /\ Fallback \in Nat \ {0}
    /\ CustomTTLs \subseteq Nat \ {0}
    /\ MaxNow \in Nat

VARIABLES
    world,    \* where the process was started; it does not change
    stage,    \* the hook that is waited for, "up", "failed", "stopped"
    hook,     \* the start hook whose thread runs, if any
    late,     \* the start hook that timed out, if any
    config,   \* CONFIG
    built,    \* the instances the hook has built so far
    next,     \* the index of the instance it builds next
    stores,   \* per module: POOL_STORE, CLIENT_STORE, CACHE_STORE
    entries,  \* per cache and key: the entry moka holds, or None
    now,      \* the clock
    history   \* per cache and key: the last set, del or eviction, for the properties

storeVars == <<world, stage, hook, late, config, built, next, stores, entries, now, history>>
cacheVars == <<entries, now, history>>
startVars == <<world, stage, hook, late, config, built, next>>

Default == Lit("_default_")
ModuleKeys == {"XOrm", "XRedis", "XCache"}
Starting == {"config"} \cup ModuleKeys
NoStore == [n \in {} |-> Empty]
NameOf(inst) == IF inst.name = Empty THEN Default ELSE inst.name
Configs(m) == ParseConfigList(config, m)

Init ==
    /\ world \in Worlds
    /\ stage = "config" /\ hook = "config" /\ late = "none"
    /\ config = NoConfig
    /\ built = <<>>
    /\ next = 1
    /\ stores = [m \in ModuleKeys |-> NoStore]
    /\ entries = [n \in {} |-> None]
    /\ now = 0
    /\ history = [n \in {} |-> None]

After == [config |-> "XOrm", XOrm |-> "XRedis", XRedis |-> "XCache", XCache |-> "up"]

\* The hook returns Ok, and init() goes on to the next one; or it returns an Err, and
\* init() fails; or init() waits no longer, and the answer goes nowhere.
Answers(h) ==
    /\ stage' = IF stage = h THEN After[h] ELSE stage
    /\ hook' = IF stage = h /\ h # "XCache" THEN After[h] ELSE "none"
Fails(h) ==
    /\ stage' = IF stage = h THEN "failed" ELSE stage
    /\ hook' = "none"

\* recv_timeout: init() fails, the hook's thread stays.
TimesOut ==
    /\ stage \in Starting
    /\ stage' = "failed"
    /\ late' = stage
    /\ UNCHANGED <<world, hook, config, built, next, stores, cacheVars>>

\* init_store, the hook of order 10.
InitStore ==
    /\ hook = "config"
    /\ LET c == InitXConfig(world)
       IN  IF c = Failed THEN Fails("config") /\ UNCHANGED config
           ELSE Answers("config") /\ config' = c
    /\ UNCHANGED <<world, late, built, next, stores, cacheVars>>

\* The name an instance is stored under; xredis stores its first one under the
\* default name too when it has a name of its own.
Names(m, i) ==
    LET inst == Configs(m)[i]
    IN  IF m = "XRedis" /\ i = 1 /\ inst.name # Empty
        THEN <<Default, NameOf(inst)>> ELSE <<NameOf(inst)>>

Batch(m, i) ==
    [j \in DOMAIN Names(m, i) |->
        [name |-> Names(m, i)[j], target |-> Configs(m)[i].target]]

\* store.insert for each, in order: the last one of a name stays.
InsertAll(store, batch) ==
    LET Of(n) == {j \in DOMAIN batch : batch[j].name = n}
    IN  [n \in DOMAIN store \cup {batch[j].name : j \in DOMAIN batch} |->
            IF Of(n) = {} THEN store[n] ELSE batch[Max(Of(n))].target]

Insert(store, n, x) == [m \in DOMAIN store \cup {n} |-> IF m = n THEN x ELSE store[m]]

\* An instance without DSN or address is passed over.
SkipInstance(m) ==
    /\ hook = m
    /\ next \in DOMAIN Configs(m)
    /\ Configs(m)[next].target = Empty
    /\ next' = next + 1
    /\ UNCHANGED <<world, stage, hook, late, config, built, stores, cacheVars>>

\* Mutant: every instance goes into the store as soon as it is built.
BuildStores(m) ==
    /\ hook = m
    /\ next \in DOMAIN Configs(m)
    /\ Configs(m)[next].target \notin {Empty, Lit("bad")}
    /\ stores' = [stores EXCEPT ![m] = InsertAll(@, Batch(m, next))]
    /\ next' = next + 1
    /\ UNCHANGED <<world, stage, hook, late, config, built, cacheVars>>

\* build_pool, or build_client and the connection, outside the lock.
BuildInstance(m) ==
    /\ hook = m
    /\ next \in DOMAIN Configs(m)
    /\ Configs(m)[next].target \notin {Empty, Lit("bad")}
    /\ built' = built \o Batch(m, next)
    /\ next' = next + 1
    /\ UNCHANGED <<world, stage, hook, late, config, stores, cacheVars>>

\* The `?` of a pool or client that cannot be built: of a DSN or URL that makes no
\* sense, or of a Redis server that refuses.  What was built is dropped.
BuildFails(m) ==
    /\ hook = m
    /\ next \in DOMAIN Configs(m)
    /\ Configs(m)[next].target # Empty
    /\ Configs(m)[next].target = Lit("bad") \/ m = "XRedis"
    /\ Fails(m)
    /\ built' = <<>>
    /\ UNCHANGED <<world, late, config, next, stores, cacheVars>>

\* One critical section puts everything that was built into the store, also when
\* the hook is late: nothing tells it that nobody waits.
Publish(m) ==
    /\ hook = m
    /\ next = Len(Configs(m)) + 1
    /\ stores' = [stores EXCEPT ![m] = InsertAll(@, built)]
    /\ Answers(m)
    /\ built' = <<>>
    /\ next' = 1
    /\ UNCHANGED <<world, late, config, cacheVars>>

\* create_cache_instance, for the configured caches or one of default values.
CacheConfigs ==
    IF Configs("XCache") = <<>> THEN <<[name |-> Empty, target |-> Lit("5m")]>>
    ELSE Configs("XCache")

CreateCache ==
    /\ hook = "XCache"
    /\ next \in DOMAIN CacheConfigs
    /\ LET inst == CacheConfigs[next]
           n == NameOf(inst)
           blank == [k \in Keys |-> None]
       IN  /\ stores' = [stores EXCEPT !["XCache"] = Insert(@, n, inst.target)]
           /\ entries' = Insert(entries, n, blank)
           /\ history' = Insert(history, n, blank)
    /\ next' = next + 1
    /\ UNCHANGED <<world, stage, hook, late, config, built, now>>

StartEnds ==
    /\ hook = "XCache"
    /\ next = Len(CacheConfigs) + 1
    /\ Answers("XCache")
    /\ UNCHANGED <<world, late, config, built, next, stores, cacheVars>>
-----------------------------------------------------------------------------
Caches == stores["XCache"]
DefaultTTL(n) ==
    IF Caches[n] \in DOMAIN Durations THEN Durations[Caches[n]] ELSE Fallback

\* Mutant: without expire_after_update, an entry written again keeps the deadline
\* of its first write.
DeadlineKept(n, k, custom) ==
    IF entries[n][k] # None THEN entries[n][k].deadline ELSE custom

\* PerEntryExpiry: expire_after_create and expire_after_update both start the
\* entry's own time to live anew, or clear it.
Deadline(n, k, custom) == custom

Write(n, k, type, custom) ==
    LET own == IF custom = None THEN None ELSE [kind |-> "at", at |-> now + custom.ttl]
    IN  /\ entries' = [entries EXCEPT ![n][k] =
              [kind |-> "entry", type |-> type, written |-> now,
               deadline |-> Deadline(n, k, own)]]
        /\ history' = [history EXCEPT ![n][k] =
              [kind |-> "set", type |-> type, at |-> now, custom |-> custom]]

\* xcache::set and Cache::set; with no instance of that name nothing happens.
Set(n, k, type) ==
    /\ stage = "up"
    /\ n \in DOMAIN Caches
    /\ Write(n, k, type, None)
    /\ UNCHANGED <<startVars, stores, now>>

SetWithTtl(n, k, type, ttl) ==
    /\ stage = "up"
    /\ n \in DOMAIN Caches
    /\ Write(n, k, type, [kind |-> "custom", ttl |-> ttl])
    /\ UNCHANGED <<startVars, stores, now>>

\* Del, and moka's eviction of an entry for lack of room.
Del(n, k) ==
    /\ stage = "up"
    /\ n \in DOMAIN Caches
    /\ entries' = [entries EXCEPT ![n][k] = None]
    /\ history' = [history EXCEPT ![n][k] = None]
    /\ UNCHANGED <<startVars, stores, now>>

\* Cache::get of a value of the given type: moka returns an entry only before the
\* earlier of its own deadline and its last write plus time_to_live.
Hit(n, k, type) ==
    /\ entries[n][k] # None
    /\ now < entries[n][k].written + DefaultTTL(n)
    /\ entries[n][k].deadline = None \/ now < entries[n][k].deadline.at
    /\ entries[n][k].type = type

Tick ==
    /\ stage = "up"
    /\ now < MaxNow
    /\ now' = now + 1
    /\ UNCHANGED <<startVars, stores, entries, history>>
-----------------------------------------------------------------------------
\* The stop hooks in the order they run: shutdown_xcache, shutdown_xredis,
\* shutdown_xorm.  A caller of init() may call shutdown() after a failure too, and
\* before the late hook has ended.
Stopping == [XCache |-> {"up", "failed"}, XRedis |-> {"stopXRedis"}, XOrm |-> {"stopXOrm"}]
Cleared == [XCache |-> "stopXRedis", XRedis |-> "stopXOrm", XOrm |-> "stopped"]

Clear(m) ==
    /\ stage \in Stopping[m]
    /\ stage' = Cleared[m]
    /\ stores' = [stores EXCEPT ![m] = NoStore]
    /\ UNCHANGED <<world, hook, late, config, built, next, cacheVars>>

Next ==
    \/ TimesOut
    \/ InitStore
    \/ \E m \in {"XOrm", "XRedis"} :
        SkipInstance(m) \/ BuildInstance(m) \/ BuildFails(m) \/ Publish(m)
    \/ CreateCache
    \/ StartEnds
    \/ \E n \in DOMAIN Caches, k \in Keys, t \in Types : Set(n, k, t)
    \/ \E n \in DOMAIN Caches, k \in Keys, t \in Types, d \in CustomTTLs :
        SetWithTtl(n, k, t, d)
    \/ \E n \in DOMAIN Caches, k \in Keys : Del(n, k)
    \/ Tick
    \/ \E m \in ModuleKeys : Clear(m)

Spec == Init /\ [][Next]_storeVars
-----------------------------------------------------------------------------
\* The types: every cache that was created has a slot per key, and what is built but
\* not yet published belongs to the hook that runs.
TypeOK ==
    /\ world \in Worlds
    /\ stage \in Starting \cup {"up", "failed", "stopXRedis", "stopXOrm", "stopped"}
    /\ hook \in Starting \cup {"none"} /\ late \in Starting \cup {"none"}
    /\ config.kind \in {"absent", "loaded"}
    /\ built # <<>> => hook \in {"XOrm", "XRedis"}
    /\ next \in Nat \ {0}
    /\ DOMAIN stores = ModuleKeys
    /\ DOMAIN stores["XCache"] \subseteq DOMAIN entries
    /\ DOMAIN entries = DOMAIN history
    /\ \A n \in DOMAIN entries : DOMAIN entries[n] = Keys
    /\ now \in 0 .. MaxNow

First(s) ==
    LET given == {i \in DOMAIN s : s[i] # None}
    IN  IF given = {} THEN None ELSE s[Min(given)]

Given(x) == IF x = Empty THEN None ELSE x

\* What is configured, read off the world: where it was started from, the
\* variables it sees, the profile asked for, and the two layers of files.
TheLocation ==
    First(<<FindArg(world.args, "location"), EnvOr(world.os, "LOCATION", None)>>
          \o [i \in DOMAIN SearchPaths |->
                IF <<Lit(SearchPaths[i]), Empty>> \in DOMAIN world.files
                THEN Lit(SearchPaths[i]) ELSE None])
TheEnv ==
    LET beside == IF TheLocation \in DOMAIN world.dotenv THEN world.dotenv[TheLocation]
                  ELSE NoStore
    IN  [v \in DOMAIN world.os \cup DOMAIN beside |->
            IF v \in DOMAIN world.os THEN world.os[v] ELSE beside[v]]
BaseLayer == world.files[<<TheLocation, Empty>>]
TheProfile ==
    First(<<Given(FindArg(world.args, "profile")), EnvOr(TheEnv, "PROFILE", None),
            IF "Active" \in DOMAIN BaseLayer.server
            THEN Given(ExpandText(BaseLayer.server["Active"], TheEnv)) ELSE None>>)
ProfileLayer ==
    IF <<TheLocation, TheProfile>> \in DOMAIN world.files
    THEN world.files[<<TheLocation, TheProfile>>]
    ELSE [server |-> NoStore, modules |-> NoStore]

\* The last layer that has a section has it whole, with its placeholders filled
\* from the environment the .env file added to; so has it the keys of Server, but
\* for the active profile, which only the base file can name (xconfig/init.rs:
\* parse_config and merge_profiles_config, against the order of precedence that
\* location.rs and profiles.rs give).
ConfigIsLayered ==
    config.kind = "loaded" =>
        LET base == Expand(Expand(BaseLayer, TheEnv), TheEnv)
            over == Expand(ProfileLayer, TheEnv)
            got == config.content
        IN  /\ DOMAIN got.modules = DOMAIN base.modules \cup DOMAIN over.modules
            /\ \A m \in DOMAIN got.modules : got.modules[m] =
                    IF m \in DOMAIN over.modules THEN over.modules[m] ELSE base.modules[m]
            /\ \A k \in DOMAIN got.server : got.server[k] =
                    IF k # "Active" /\ k \in DOMAIN over.server THEN over.server[k]
                    ELSE base.server[k]
            /\ ServerName(config) # Empty

\* No placeholder reaches a module: one that is left in the configuration is the
\* value of an environment variable (xconfig/init.rs: the expansion before the
\* profile is detected and the one after its file is merged).
PlaceholdersGone ==
    config.kind = "loaded" =>
        \A m \in DOMAIN config.content.modules :
        \A i \in DOMAIN config.content.modules[m].list :
            LET inst == config.content.modules[m].list[i]
            IN  \A f \in DOMAIN inst : inst[f].kind = "ref" =>
                    \E v \in DOMAIN TheEnv : TheEnv[v] = inst[f]

\* The name's owners: the last of them is what the name means.
Owners(m, n) ==
    {i \in DOMAIN Configs(m) : /\ Configs(m)[i].target # Empty
                               /\ \/ NameOf(Configs(m)[i]) = n
                                  \/ m = "XRedis" /\ i = 1 /\ n = Default}
Wanted(m) ==
    LET named == {Default} \cup {NameOf(Configs(m)[i]) : i \in DOMAIN Configs(m)}
    IN  [n \in {x \in named : Owners(m, x) # {}} |->
            Configs(m)[Max(Owners(m, n))].target]

\* A store is empty or holds all that is configured, whatever instance failed to
\* be built, whether or not anybody waits for its hook and whoever reads it
\* meanwhile; once its hook has succeeded in time it holds it all, and a process that
\* is up has at least one cache; after the stop hooks nothing is left but what a hook
\* that timed out has opened (xorm/init.rs and xredis/init.rs: built outside the
\* lock, put in inside it; xcache/init.rs: the default instance).
StoreIsConfigured ==
    /\ \A m \in {"XOrm", "XRedis"} : stores[m] \in {NoStore, Wanted(m)}
    /\ stage \in {"XRedis", "XCache", "up"} => stores["XOrm"] = Wanted("XOrm")
    /\ stage \in {"XCache", "up"} => stores["XRedis"] = Wanted("XRedis")
    /\ stage = "up" => IF Configs("XCache") = <<>> THEN DOMAIN Caches = {Default}
                       ELSE DOMAIN Caches = {NameOf(Configs("XCache")[i]) :
                                                i \in DOMAIN Configs("XCache")}
    /\ stage = "stopped" => \A m \in ModuleKeys \ {late} : stores[m] = NoStore

\* A read hits exactly when the entry was set since it was last deleted or evicted,
\* with a value of the type asked for, and neither the cache's TTL nor the one this
\* last set gave it has passed since; what earlier sets of the key asked for does
\* not matter (xcache/cache.rs: PerEntryExpiry, set, set_with_ttl).
EntryIsLastSet ==
    stage = "up" =>
        \A n \in DOMAIN Caches, k \in Keys, t \in Types :
            LET last == history[n][k]
            IN  Hit(n, k, t) <=>
                    /\ last # None
                    /\ last.type = t
                    /\ now < last.at + DefaultTTL(n)
                    /\ last.custom # None => now < last.at + last.custom.ttl

\* What the documentation of set_with_ttl says: the entry expires after the time to
\* live it was given, which takes the place of the cache's own (xcache/cache.rs:107).
OwnTTLReplacesDefault ==
    stage = "up" =>
        \A n \in DOMAIN Caches, k \in Keys, t \in Types :
            LET last == history[n][k]
            IN  last # None /\ last.custom # None =>
                    (Hit(n, k, t) <=> last.type = t /\ now < last.at + last.custom.ttl)
=============================================================================
