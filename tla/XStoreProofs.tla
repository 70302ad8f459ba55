---------------------------- MODULE XStoreProofs ----------------------------
(***************************************************************************)
(* Proofs about the configuration and the named instances, for every world *)
(* a process may start in: a read of a cache hits what was last set, the   *)
(* stores hold what is configured, and what is configured is the layers    *)
(* of the files with nothing left to fill in.                              *)
(***************************************************************************)
EXTENDS XStore, SequenceTheorems, WellFoundedInduction, TLAPS

-----------------------------------------------------------------------------
(* The caches. *)

\* A cache entry is what the last set, deletion or eviction of its key left.
Kept(entry, last) ==
    IF last = None THEN entry = None
    ELSE entry = [kind |-> "entry", type |-> last.type, written |-> last.at,
                  deadline |-> IF last.custom = None THEN None
                               ELSE [kind |-> "at", at |-> last.at + last.custom.ttl]]

EntriesKept ==
    /\ DOMAIN Caches \subseteq DOMAIN entries
    /\ DOMAIN history = DOMAIN entries
    /\ \A n \in DOMAIN entries : DOMAIN entries[n] = Keys /\ DOMAIN history[n] = Keys
    /\ \A n \in DOMAIN entries, k \in Keys : Kept(entries[n][k], history[n][k])
    /\ DOMAIN stores = ModuleKeys

\* No entry to begin with.
LEMMA InitKept == Init => EntriesKept
BY DEF Init, EntriesKept, Caches, ModuleKeys, NoStore

\* A new cache is empty, and has not been used.
LEMMA CreateKept == EntriesKept /\ CreateCache => EntriesKept'
<1> SUFFICES ASSUME EntriesKept, CreateCache PROVE EntriesKept'
  OBVIOUS
<1> DEFINE inst == CacheConfigs[next]
           n == NameOf(inst)
           blank == [k \in Keys |-> None]
<1>1. /\ stores' = [stores EXCEPT !["XCache"] = Insert(@, n, inst.target)]
      /\ entries' = Insert(entries, n, blank)
      /\ history' = Insert(history, n, blank)
  BY DEF CreateCache
<1> HIDE DEF n, inst
<1>2. DOMAIN stores' = ModuleKeys /\ DOMAIN Caches' = DOMAIN Caches \cup {n}
  BY <1>1 DEF EntriesKept, ModuleKeys, Caches, Insert
<1>3. /\ DOMAIN entries' = DOMAIN entries \cup {n}
      /\ DOMAIN history' = DOMAIN entries'
      /\ entries'[n] = blank /\ history'[n] = blank
      /\ \A m \in DOMAIN entries : m # n => entries'[m] = entries[m] /\ history'[m] = history[m]
  BY <1>1 DEF EntriesKept, Insert
<1>4. Kept(None, None)
  BY DEF Kept
<1>5. ASSUME NEW m \in DOMAIN entries'
      PROVE  /\ DOMAIN entries'[m] = Keys /\ DOMAIN history'[m] = Keys
             /\ \A k \in Keys : Kept(entries'[m][k], history'[m][k])
  <2>1. CASE m = n
    BY <1>3, <1>4, <2>1
  <2>2. CASE m # n
    BY <1>3, <2>2 DEF EntriesKept
  <2> QED  BY <2>1, <2>2
<1> QED  BY <1>2, <1>3, <1>5 DEF EntriesKept

\* What is written is the last set.
LEMMA WriteKept ==
  ASSUME EntriesKept, NEW n \in DOMAIN Caches, NEW k \in Keys, NEW type, NEW custom,
         Write(n, k, type, custom), UNCHANGED stores
  PROVE  EntriesKept'
<1> DEFINE own == IF custom = None THEN None ELSE [kind |-> "at", at |-> now + custom.ttl]
           e == [kind |-> "entry", type |-> type, written |-> now, deadline |-> own]
           h == [kind |-> "set", type |-> type, at |-> now, custom |-> custom]
<1>1. /\ entries' = [entries EXCEPT ![n][k] = e] /\ history' = [history EXCEPT ![n][k] = h]
  BY DEF Write, Deadline
<1>2. Kept(e, h)
  BY DEF Kept, None
<1> HIDE DEF e, h
<1>3. n \in DOMAIN entries /\ n \in DOMAIN history
  BY DEF EntriesKept
<1>4. DOMAIN entries' = DOMAIN entries /\ DOMAIN history' = DOMAIN entries
  BY <1>1 DEF EntriesKept
<1>5. ASSUME NEW m \in DOMAIN entries
      PROVE  /\ DOMAIN entries'[m] = Keys /\ DOMAIN history'[m] = Keys
             /\ \A l \in Keys : Kept(entries'[m][l], history'[m][l])
  <2>1. CASE m = n
    BY <1>1, <1>2, <1>3, <2>1 DEF EntriesKept
  <2>2. CASE m # n
    BY <1>1, <1>3, <2>2 DEF EntriesKept
  <2> QED  BY <2>1, <2>2
<1> QED  BY <1>4, <1>5 DEF EntriesKept, Caches

\* Every step keeps EntriesKept.
LEMMA NextKept == EntriesKept /\ [Next]_storeVars => EntriesKept'
<1> SUFFICES ASSUME EntriesKept, [Next]_storeVars PROVE EntriesKept'
  OBVIOUS
<1>1. (/\ UNCHANGED <<entries, history>>
       /\ stores'["XCache"] \in {Caches, NoStore} /\ DOMAIN stores' = ModuleKeys) => EntriesKept'
  BY DEF EntriesKept, Caches, NoStore
<1>2. CASE UNCHANGED storeVars
  BY <1>1, <1>2 DEF storeVars, EntriesKept, Caches
<1>3. CASE TimesOut \/ InitStore \/ StartEnds \/ Tick
  BY <1>1, <1>3 DEF TimesOut, InitStore, StartEnds, Tick, EntriesKept, Caches, cacheVars
<1>4. ASSUME NEW m \in {"XOrm", "XRedis"},
             SkipInstance(m) \/ BuildInstance(m) \/ BuildFails(m) \/ Publish(m)
      PROVE  EntriesKept'
  BY <1>1, <1>4 DEF SkipInstance, BuildInstance, BuildFails, Publish, EntriesKept, Caches,
         ModuleKeys, cacheVars
<1>5. CASE CreateCache
  BY <1>5, CreateKept
<1>6. ASSUME NEW n \in DOMAIN Caches, NEW k \in Keys, NEW t \in Types, Set(n, k, t)
      PROVE  EntriesKept'
  BY <1>6, WriteKept DEF Set
<1>7. ASSUME NEW n \in DOMAIN Caches, NEW k \in Keys, NEW t \in Types, NEW d \in CustomTTLs,
             SetWithTtl(n, k, t, d)
      PROVE  EntriesKept'
  BY <1>7, WriteKept DEF SetWithTtl
<1>8. ASSUME NEW n \in DOMAIN Caches, NEW k \in Keys, Del(n, k)
      PROVE  EntriesKept'
  <2>1. /\ entries' = [entries EXCEPT ![n][k] = None] /\ history' = [history EXCEPT ![n][k] = None]
        /\ stores' = stores
    BY <1>8 DEF Del
  <2>2. n \in DOMAIN entries /\ n \in DOMAIN history
    BY DEF EntriesKept
  <2>3. DOMAIN entries' = DOMAIN entries /\ DOMAIN history' = DOMAIN entries
    BY <2>1 DEF EntriesKept
  <2>4. ASSUME NEW m \in DOMAIN entries
        PROVE  /\ DOMAIN entries'[m] = Keys /\ DOMAIN history'[m] = Keys
               /\ \A l \in Keys : Kept(entries'[m][l], history'[m][l])
    <3>1. Kept(None, None)
      BY DEF Kept
    <3>2. CASE m = n
      BY <2>1, <2>2, <3>1, <3>2 DEF EntriesKept
    <3>3. CASE m # n
      BY <2>1, <2>2, <3>3 DEF EntriesKept
    <3> QED  BY <3>2, <3>3
  <2> QED  BY <2>1, <2>3, <2>4 DEF EntriesKept, Caches
<1>9. ASSUME NEW m \in ModuleKeys, Clear(m) PROVE EntriesKept'
  BY <1>1, <1>9 DEF Clear, EntriesKept, Caches, ModuleKeys, cacheVars
<1> QED  BY <1>2, <1>3, <1>4, <1>5, <1>6, <1>7, <1>8, <1>9 DEF Next

\* A read hits exactly when the entry was last set, with a value of the type asked for,
\* and has not outlived the time to live of that set or of the cache, whatever was set
\* before (xcache/cache.rs: PerEntryExpiry, set, set_with_ttl, get).
THEOREM ReadsLastSet == Spec => []EntryIsLastSet
<1>1. EntriesKept => EntryIsLastSet
  <2> SUFFICES ASSUME EntriesKept, NEW n \in DOMAIN Caches, NEW k \in Keys, NEW t \in Types
               PROVE  LET last == history[n][k]
                      IN  Hit(n, k, t) <=>
                              /\ last # None
                              /\ last.type = t
                              /\ now < last.at + DefaultTTL(n)
                              /\ last.custom # None => now < last.at + last.custom.ttl
    BY DEF EntryIsLastSet
  <2> DEFINE last == history[n][k]
             e == entries[n][k]
  <2>1. Kept(e, last)
    BY DEF EntriesKept
  <2> HIDE DEF e, last
  <2>2. CASE last = None
    BY <2>1, <2>2 DEF Kept, Hit, e, last
  <2>3. CASE last # None
    <3>1. /\ e # None /\ e.type = last.type /\ e.written = last.at
          /\ e.deadline = IF last.custom = None THEN None
                          ELSE [kind |-> "at", at |-> last.at + last.custom.ttl]
      BY <2>1, <2>3 DEF Kept, None
    <3>2. (e.deadline = None <=> last.custom = None)
          /\ (last.custom # None => e.deadline.at = last.at + last.custom.ttl)
      BY <3>1 DEF None
    <3> QED  BY <2>3, <3>1, <3>2 DEF Hit, e, last
  <2> QED  BY <2>2, <2>3 DEF last
<1> QED  BY <1>1, InitKept, NextKept, PTL DEF Spec
-----------------------------------------------------------------------------
(* What a world's configuration is. *)

\* The names of what init_xconfig works with.
TheVars(w) == DotEnv(w, Location(w))
TheBase(w) == Expand(w.files[<<Location(w), Empty>>], TheVars(w))
ProfileOf(w) == Profile(w.args, TheVars(w), TheBase(w))
HasLayer(w) == ProfileOf(w) # None /\ <<Location(w), ProfileOf(w)>> \in DOMAIN w.files
TheLayer(w) == w.files[<<Location(w), ProfileOf(w)>>]

\* A configuration that is loaded is the base file's, or that with the profile's over it.
LEMMA LoadedFrom ==
  ASSUME NEW w, InitXConfig(w).kind = "loaded"
  PROVE  /\ Location(w) # None
         /\ Location(w) \in DOMAIN w.dotenv => w.dotenv[Location(w)] # Failed
         /\ <<Location(w), Empty>> \in DOMAIN w.files
         /\ w.files[<<Location(w), Empty>>] # Failed
         /\ HasLayer(w) => TheLayer(w) # Failed
         /\ InitXConfig(w).content =
               Expand(IF HasLayer(w) THEN Merge(TheBase(w), TheLayer(w)) ELSE TheBase(w), TheVars(w))
<1>1. NoConfig.kind # "loaded" /\ Failed.kind # "loaded"
  BY DEF NoConfig, Failed
<1>2. /\ Location(w) # None
      /\ Location(w) \in DOMAIN w.dotenv => w.dotenv[Location(w)] # Failed
      /\ InitXConfig(w) = ParseConfig(w, Location(w), TheVars(w))
  BY <1>1 DEF InitXConfig, TheVars
<1>3. /\ <<Location(w), Empty>> \in DOMAIN w.files
      /\ w.files[<<Location(w), Empty>>] # Failed
  BY <1>1, <1>2 DEF ParseConfig
<1>4. /\ HasLayer(w) => TheLayer(w) # Failed
      /\ InitXConfig(w) =
            Loaded(ExpandAgain(IF HasLayer(w) THEN Merge(TheBase(w), TheLayer(w)) ELSE TheBase(w),
                               TheVars(w)))
  BY <1>1, <1>2, <1>3 DEF ParseConfig, HasLayer, TheLayer, TheBase, ProfileOf
<1> QED  BY <1>2, <1>3, <1>4 DEF Loaded, ExpandAgain

\* What is put in for a placeholder is a text, of the environment or its default.
LEMMA ExpandTextIs ==
  ASSUME NEW x, NEW env, IsText(x), AreTexts(env)
  PROVE  /\ IsText(ExpandText(x, env))
         /\ ExpandText(x, env).kind = "ref" => \E v \in DOMAIN env : env[v] = ExpandText(x, env)
BY DEF IsText, AreTexts, ExpandText, EnvOr

\* Filling in texts leaves texts.
LEMMA ExpandTextsAre ==
  ASSUME NEW f, NEW env, AreTexts(f), AreTexts(env)
  PROVE  /\ AreTexts(ExpandTexts(f, env)) /\ DOMAIN ExpandTexts(f, env) = DOMAIN f
         /\ \A k \in DOMAIN f : ExpandTexts(f, env)[k].kind = "ref"
                => \E v \in DOMAIN env : env[v] = ExpandTexts(f, env)[k]
<1>1. \A k \in DOMAIN f : ExpandTexts(f, env)[k] = ExpandText(f[k], env)
  BY DEF ExpandTexts
<1>2. DOMAIN ExpandTexts(f, env) = DOMAIN f
  BY DEF ExpandTexts
<1> QED  BY <1>1, <1>2, ExpandTextIs DEF AreTexts

\* A list of instances, read as a sequence.
IsList(s) == s \in Seq(Range(s))

\* A function on the indices of a list is a list.
LEMMA SameLength ==
  ASSUME NEW s, NEW t, IsList(s), DOMAIN t = DOMAIN s, t = [i \in DOMAIN t |-> t[i]]
  PROVE  IsList(t)
<1>1. Len(s) \in Nat /\ DOMAIN s = 1 .. Len(s)
  BY DEF IsList
<1>2. PICK R : R = Range(t)
  OBVIOUS
<1>3. \A i \in 1 .. Len(s) : t[i] \in R
  BY <1>1, <1>2 DEF Range
<1>4. t = [i \in 1 .. Len(s) |-> t[i]]
  BY <1>1
<1>5. t \in Seq(R)
  BY ONLY <1>1, <1>3, <1>4
<1> QED  BY <1>2, <1>5 DEF IsList

\* Expanding a document leaves its lists what they are, and its texts texts: those
\* with a placeholder are values of the environment.
LEMMA ExpandIs ==
  ASSUME NEW c, NEW env, IsContent(c), AreTexts(env)
  PROVE  /\ IsContent(Expand(c, env))
         /\ DOMAIN Expand(c, env).modules = DOMAIN c.modules
         /\ \A m \in DOMAIN c.modules :
                LET list == Expand(c, env).modules[m].list
                IN  \A i \in DOMAIN list : \A f \in DOMAIN list[i] :
                        list[i][f].kind = "ref" => \E v \in DOMAIN env : env[v] = list[i][f]
<1> DEFINE e == Expand(c, env)
<1>1. /\ e.server = ExpandTexts(c.server, env)
      /\ DOMAIN e.modules = DOMAIN c.modules
      /\ \A m \in DOMAIN c.modules : e.modules[m] = ExpandSection(c.modules[m], env)
  BY DEF Expand
<1> HIDE DEF e
<1>2. AreTexts(e.server)
  BY <1>1, ExpandTextsAre DEF IsContent
<1>3. ASSUME NEW m \in DOMAIN c.modules
      PROVE  /\ IsList(e.modules[m].list)
             /\ \A i \in DOMAIN e.modules[m].list :
                  /\ AreTexts(e.modules[m].list[i])
                  /\ \A f \in DOMAIN e.modules[m].list[i] : e.modules[m].list[i][f].kind = "ref"
                        => \E v \in DOMAIN env : env[v] = e.modules[m].list[i][f]
  <2> DEFINE s == c.modules[m].list
             t == [i \in DOMAIN s |-> ExpandTexts(s[i], env)]
  <2>1. IsList(s) /\ \A i \in DOMAIN s : AreTexts(s[i])
    BY DEF IsContent, IsList
  <2>2. e.modules[m].list = t
    <3>1. e.modules[m] = ExpandSection(c.modules[m], env)
      BY <1>1
    <3> QED  BY <3>1 DEF ExpandSection
  <2>3. IsList(t)
    <3>1. DOMAIN t = DOMAIN s /\ t = [i \in DOMAIN t |-> t[i]]
      OBVIOUS
    <3> HIDE DEF s, t
    <3> QED  BY <2>1, <3>1, SameLength
  <2>4. DOMAIN t = DOMAIN s /\ \A i \in DOMAIN s : t[i] = ExpandTexts(s[i], env)
    OBVIOUS
  <2> HIDE DEF t, s
  <2> QED  BY <2>1, <2>2, <2>3, <2>4, ExpandTextsAre
<1> QED  BY <1>1, <1>2, <1>3 DEF e, IsContent, IsList

\* So does laying one document over another.
LEMMA OverIs ==
  ASSUME NEW f, NEW g
  PROVE  /\ DOMAIN Over(f, g) = DOMAIN f \cup DOMAIN g
         /\ \A k \in DOMAIN f : Over(f, g)[k] = f[k]
         /\ \A k \in DOMAIN g \ DOMAIN f : Over(f, g)[k] = g[k]
BY DEF Over

\* Two layers of texts make texts.
LEMMA OverTexts == ASSUME NEW f, NEW g, AreTexts(f), AreTexts(g) PROVE AreTexts(Over(f, g))
BY DEF Over, AreTexts

\* Merging two documents makes a document.
LEMMA MergeIs ==
  ASSUME NEW a, NEW b, IsContent(a), IsContent(b)
  PROVE  /\ IsContent(Merge(a, b))
         /\ Merge(a, b).modules = Over(b.modules, a.modules)
         /\ DOMAIN Merge(a, b).server = (DOMAIN b.server \ {"Active"}) \cup DOMAIN a.server
         /\ \A k \in DOMAIN Merge(a, b).server : Merge(a, b).server[k] =
                IF k # "Active" /\ k \in DOMAIN b.server THEN b.server[k] ELSE a.server[k]
<1> DEFINE o == [k \in DOMAIN b.server \ {"Active"} |-> b.server[k]]
           s == Over(o, a.server)
           d == Over(b.modules, a.modules)
<1>1. Merge(a, b).server = s /\ Merge(a, b).modules = d
  BY DEF Merge
<1>2. DOMAIN o = DOMAIN b.server \ {"Active"} /\ \A k \in DOMAIN o : o[k] = b.server[k]
  OBVIOUS
<1> HIDE DEF o
<1>3. /\ DOMAIN s = DOMAIN o \cup DOMAIN a.server
      /\ \A k \in DOMAIN o : s[k] = o[k]
      /\ \A k \in DOMAIN a.server \ DOMAIN o : s[k] = a.server[k]
  BY OverIs
<1>4. /\ DOMAIN d = DOMAIN b.modules \cup DOMAIN a.modules
      /\ \A m \in DOMAIN b.modules : d[m] = b.modules[m]
      /\ \A m \in DOMAIN a.modules \ DOMAIN b.modules : d[m] = a.modules[m]
  BY OverIs
<1> HIDE DEF s, d
<1>5. AreTexts(s)
  BY <1>2, <1>3 DEF IsContent, AreTexts
<1>6. \A m \in DOMAIN d : IsList(d[m].list) /\ \A i \in DOMAIN d[m].list : AreTexts(d[m].list[i])
  BY <1>4 DEF IsContent, IsList
<1>7. IsContent(Merge(a, b))
  BY <1>1, <1>5, <1>6 DEF IsContent, IsList
<1> QED  BY <1>1, <1>2, <1>3, <1>7 DEF d

\* What is loaded: documents, laid over one another and filled in with texts.
LEMMA LoadedIs ==
  ASSUME NEW w \in Worlds, InitXConfig(w).kind = "loaded"
  PROVE  /\ AreTexts(TheVars(w))
         /\ IsContent(w.files[<<Location(w), Empty>>]) /\ IsContent(TheBase(w))
         /\ HasLayer(w) => IsContent(TheLayer(w))
         /\ IsContent(InitXConfig(w).content)
         /\ \A m \in DOMAIN InitXConfig(w).content.modules :
                LET list == InitXConfig(w).content.modules[m].list
                IN  \A i \in DOMAIN list : \A f \in DOMAIN list[i] : list[i][f].kind = "ref"
                        => \E v \in DOMAIN TheVars(w) : TheVars(w)[v] = list[i][f]
<1>1. IsWorld(w)
  BY StoreAssumption
<1>2. AreTexts(TheVars(w))
  <2>1. CASE Location(w) \in DOMAIN w.dotenv
    <3>1. AreTexts(w.dotenv[Location(w)]) /\ AreTexts(w.os)
      BY <1>1, <2>1, LoadedFrom DEF IsWorld
    <3>2. TheVars(w) = Over(w.os, w.dotenv[Location(w)])
      BY <2>1 DEF TheVars, DotEnv
    <3> QED  BY <3>1, <3>2, OverTexts
  <2>2. CASE Location(w) \notin DOMAIN w.dotenv
    BY <1>1, <2>2 DEF IsWorld, TheVars, DotEnv
  <2> QED  BY <2>1, <2>2
<1>3. IsContent(w.files[<<Location(w), Empty>>])
  BY <1>1, LoadedFrom DEF IsWorld
<1>4. IsContent(TheBase(w))
  BY <1>2, <1>3, ExpandIs DEF TheBase
<1>5. HasLayer(w) => IsContent(TheLayer(w))
  BY <1>1, LoadedFrom DEF IsWorld, HasLayer, TheLayer
<1> DEFINE c == IF HasLayer(w) THEN Merge(TheBase(w), TheLayer(w)) ELSE TheBase(w)
<1>6. IsContent(c)
  BY <1>4, <1>5, MergeIs
<1>7. InitXConfig(w).content = Expand(c, TheVars(w))
  BY LoadedFrom
<1> HIDE DEF c
<1> QED  BY <1>2, <1>3, <1>4, <1>5, <1>6, <1>7, ExpandIs

\* The configuration is what the world's is, once it has been read.
ConfigIsRead ==
    /\ world \in Worlds
    /\ config = NoConfig \/ (config = InitXConfig(world) /\ config # Failed)

\* Nothing has been read to begin with.
LEMMA InitRead == Init => ConfigIsRead
BY DEF Init, ConfigIsRead

\* Every step keeps ConfigIsRead.
LEMMA NextRead == ConfigIsRead /\ [Next]_storeVars => ConfigIsRead'
<1> SUFFICES ASSUME ConfigIsRead, [Next]_storeVars PROVE ConfigIsRead'
  OBVIOUS
<1>1. CASE InitStore
  BY <1>1 DEF InitStore, ConfigIsRead
<1>2. CASE UNCHANGED <<world, config>>
  BY <1>2 DEF ConfigIsRead
<1>3. [Next]_storeVars => InitStore \/ UNCHANGED <<world, config>>
  BY DEF Next, storeVars, startVars, TimesOut, SkipInstance, BuildInstance, BuildFails,
         Publish, CreateCache, StartEnds, Set, SetWithTtl, Del, Tick, Clear
<1> QED  BY <1>1, <1>2, <1>3

-----------------------------------------------------------------------------
(* The location and the environment, read off the world. *)

\* A least member, of natural numbers.
LEMMA LeastExists ==
  ASSUME NEW S, S \subseteq Nat, S # {}
  PROVE  \E x \in S : \A y \in S : x <= y
<1> DEFINE R == OpToRel(<, Nat)
<1>1. IsWellFoundedOn(R, Nat)
  BY NatLessThanWellFounded
<1>2. \A x, y \in Nat : x < y => <<x, y>> \in R
  BY DEF OpToRel
<1> HIDE DEF R
<1>3. PICK x \in S : \A y \in S : ~ (<<y, x>> \in R)
  BY <1>1, WFMin
<1>4. ASSUME NEW y \in S PROVE x <= y
  <2>1. x \in Nat /\ y \in Nat /\ ~ (y < x)
    BY <1>2, <1>3
  <2> QED  BY <2>1
<1> QED  BY <1>4

\* A least member is the minimum.
LEMMA MinIs ==
  ASSUME NEW S, S \subseteq Nat, S # {}
  PROVE  Min(S) \in S /\ \A y \in S : Min(S) <= y
BY LeastExists DEF Min

\* The first that is given.
LEMMA FirstIs ==
  ASSUME NEW s, DOMAIN s \subseteq Nat, NEW i \in DOMAIN s, s[i] # None,
         \A j \in DOMAIN s : j < i => s[j] = None
  PROVE  First(s) = s[i]
<1> DEFINE given == {j \in DOMAIN s : s[j] # None}
<1>1. i \in given /\ given \subseteq Nat
  OBVIOUS
<1>2. Min(given) \in given /\ Min(given) <= i
  BY <1>1, MinIs
<1>3. Min(given) = i
  BY <1>2
<1> QED  BY <1>1, <1>3 DEF First

\* Nothing given, nothing first.
LEMMA NoFirst == ASSUME NEW s, \A j \in DOMAIN s : s[j] = None PROVE First(s) = None
BY DEF First

\* A location that is found is the first of the argument, the variable and the files
\* there are.
LEMMA LocationIs == ASSUME Location(world) # None PROVE TheLocation = Location(world)
<1> DEFINE arg == FindArg(world.args, "location")
           env == EnvOr(world.os, "LOCATION", None)
           there == [i \in DOMAIN SearchPaths |->
                        IF <<Lit(SearchPaths[i]), Empty>> \in DOMAIN world.files
                        THEN Lit(SearchPaths[i]) ELSE None]
           here == {i \in DOMAIN SearchPaths : <<Lit(SearchPaths[i]), Empty>> \in DOMAIN world.files}
           s == <<arg, env>> \o there
           n == Len(SearchPaths)
<1>1. n \in Nat /\ DOMAIN SearchPaths = 1 .. n
  BY ConfigAssumption
<1>2. TheLocation = First(s)
  BY DEF TheLocation
<1>3. Location(world) = IF arg # None THEN arg ELSE IF env # None THEN env
                        ELSE IF here # {} THEN Lit(SearchPaths[Min(here)]) ELSE None
  BY DEF Location
<1>4. /\ DOMAIN there = 1 .. n
      /\ \A i \in here : there[i] = Lit(SearchPaths[i]) /\ there[i] # None
      /\ \A i \in 1 .. n : i \notin here => there[i] = None
      /\ here \subseteq 1 .. n
  BY <1>1 DEF Lit, None
<1>5. there \in Seq({there[i] : i \in 1 .. n})
  BY <1>1, <1>4
<1> HIDE DEF arg, env, there, here, n
<1>6. /\ Len(there) = n /\ DOMAIN s = 1 .. n + 2
      /\ s[1] = arg /\ s[2] = env /\ \A i \in 1 .. n : s[i + 2] = there[i]
  BY <1>1, <1>4, <1>5
<1> HIDE DEF s
<1>7. DOMAIN s \subseteq Nat
  BY <1>1, <1>6
<1>8. CASE arg # None
  <2>1. 1 \in DOMAIN s /\ \A j \in DOMAIN s : ~ (j < 1)
    BY <1>1, <1>6
  <2>2. First(s) = s[1]
    BY <1>6, <1>7, <1>8, <2>1, FirstIs
  <2> QED  BY <1>2, <1>3, <1>6, <1>8, <2>2
<1>9. CASE arg = None /\ env # None
  <2>1. 2 \in DOMAIN s /\ \A j \in DOMAIN s : j < 2 => s[j] = None
    BY <1>1, <1>6, <1>9
  <2>2. First(s) = s[2]
    BY <1>6, <1>7, <1>9, <2>1, FirstIs
  <2> QED  BY <1>2, <1>3, <1>6, <1>9, <2>2
<1>10. CASE arg = None /\ env = None
  <2>1. here # {} /\ here \subseteq Nat
    BY <1>1, <1>3, <1>4, <1>10
  <2>2. PICK m \in here : m = Min(here) /\ \A y \in here : m <= y
    BY <2>1, MinIs
  <2>3. m + 2 \in DOMAIN s /\ s[m + 2] = Lit(SearchPaths[m]) /\ s[m + 2] # None
    BY <1>1, <1>4, <1>6
  <2>4. ASSUME NEW j \in DOMAIN s, j < m + 2 PROVE s[j] = None
    <3>1. CASE j \in {1, 2}
      BY <1>6, <1>10, <3>1
    <3>2. CASE j \notin {1, 2}
      <4>1. j - 2 \in 1 .. n /\ j - 2 \notin here /\ (j - 2) + 2 = j
        BY <1>1, <1>4, <1>6, <2>2, <2>4, <3>2
      <4> QED  BY <1>4, <1>6, <4>1
    <3> QED  BY <3>1, <3>2
  <2>5. First(s) = s[m + 2]
    BY <1>7, <2>3, <2>4, FirstIs
  <2> QED  BY <1>2, <1>3, <1>10, <2>1, <2>2, <2>3, <2>5
<1> QED  BY <1>8, <1>9, <1>10

\* Its environment is the process's, and what the file beside it adds.
LEMMA EnvIs ==
  ASSUME Location(world) # None
  PROVE  /\ DOMAIN TheEnv = DOMAIN TheVars(world)
         /\ \A v \in DOMAIN TheEnv : TheEnv[v] = TheVars(world)[v]
<1>1. TheLocation = Location(world)
  BY LocationIs
<1>2. CASE Location(world) \in DOMAIN world.dotenv
  <2>1. TheVars(world) = Over(world.os, world.dotenv[Location(world)])
    BY <1>2 DEF TheVars, DotEnv
  <2> QED  BY <1>1, <1>2, <2>1 DEF TheEnv, Over
<1>3. CASE Location(world) \notin DOMAIN world.dotenv
  <2>1. TheVars(world) = world.os
    BY <1>3 DEF TheVars, DotEnv
  <2> QED  BY <1>1, <1>3, <2>1 DEF TheEnv, NoStore
<1> QED  BY <1>2, <1>3

\* No placeholder reaches a module (xconfig/init.rs: the expansion before the profile is
\* detected and the one after its file is merged).
THEOREM NothingToFillIn == Spec => []PlaceholdersGone
<1>1. ConfigIsRead => PlaceholdersGone
  <2> SUFFICES ASSUME ConfigIsRead, config.kind = "loaded" PROVE PlaceholdersGone
    BY DEF PlaceholdersGone
  <2>1. config = InitXConfig(world) /\ world \in Worlds
    BY DEF ConfigIsRead, NoConfig
  <2>2. Location(world) # None
    BY <2>1, LoadedFrom
  <2>3. \A m \in DOMAIN config.content.modules :
            \A i \in DOMAIN config.content.modules[m].list :
            \A f \in DOMAIN config.content.modules[m].list[i] :
                config.content.modules[m].list[i][f].kind = "ref"
                    => \E v \in DOMAIN TheVars(world) :
                           TheVars(world)[v] = config.content.modules[m].list[i][f]
    BY <2>1, LoadedIs
  <2> QED  BY <2>2, <2>3, EnvIs DEF PlaceholdersGone
<1> QED  BY <1>1, InitRead, NextRead, PTL DEF Spec

\* Two environments with the same variables fill in the same.
LEMMA SameExpand ==
  ASSUME NEW d, NEW e, DOMAIN d = DOMAIN e, \A v \in DOMAIN d : d[v] = e[v]
  PROVE  /\ \A var, dflt : EnvOr(d, var, dflt) = EnvOr(e, var, dflt)
         /\ \A x : ExpandText(x, d) = ExpandText(x, e)
         /\ \A c : Expand(c, d) = Expand(c, e)
<1>1. \A var, dflt : EnvOr(d, var, dflt) = EnvOr(e, var, dflt)
  BY DEF EnvOr
<1>2. \A x : ExpandText(x, d) = ExpandText(x, e)
  BY <1>1 DEF ExpandText
<1>3. \A f : ExpandTexts(f, d) = ExpandTexts(f, e)
  BY <1>2 DEF ExpandTexts
<1>4. \A s : ExpandSection(s, d) = ExpandSection(s, e)
  BY <1>3 DEF ExpandSection
<1>5. \A c : Expand(c, d) = Expand(c, e)
  BY <1>3, <1>4 DEF Expand
<1> QED  BY <1>1, <1>2, <1>5

\* Expanding what is laid over something, or something twice, section by section.
LEMMA ExpandParts ==
  ASSUME NEW c, NEW env
  PROVE  /\ DOMAIN Expand(c, env).server = DOMAIN c.server
         /\ \A k \in DOMAIN c.server : Expand(c, env).server[k] = ExpandText(c.server[k], env)
         /\ DOMAIN Expand(c, env).modules = DOMAIN c.modules
         /\ \A m \in DOMAIN c.modules :
                Expand(c, env).modules[m] = ExpandSection(c.modules[m], env)
BY DEF Expand, ExpandTexts

\* The profile asked for.
LEMMA ProfileIs ==
  ASSUME world \in Worlds, InitXConfig(world).kind = "loaded"
  PROVE  TheProfile = ProfileOf(world)
<1> DEFINE arg == FindArg(world.args, "profile")
           env == EnvOr(TheEnv, "PROFILE", None)
           raw == world.files[<<Location(world), Empty>>].server
           act == IF "Active" \in DOMAIN raw THEN Given(ExpandText(raw["Active"], TheEnv)) ELSE None
           s == <<Given(arg), env, act>>
<1>1. TheLocation = Location(world) /\ BaseLayer.server = raw
  BY LoadedFrom, LocationIs DEF BaseLayer
<1>2. TheProfile = First(s)
  BY <1>1 DEF TheProfile
<1>3. /\ DOMAIN TheEnv = DOMAIN TheVars(world)
      /\ \A v \in DOMAIN TheEnv : TheEnv[v] = TheVars(world)[v]
  BY LoadedFrom, EnvIs
<1>4. /\ \A var, dflt : EnvOr(TheVars(world), var, dflt) = EnvOr(TheEnv, var, dflt)
      /\ \A x : ExpandText(x, TheVars(world)) = ExpandText(x, TheEnv)
  BY <1>3, SameExpand
<1>5. ProfileOf(world) = IF arg \notin {None, Empty} THEN arg
                         ELSE EnvOr(TheEnv, "PROFILE", act)
  <2>1. /\ DOMAIN TheBase(world).server = DOMAIN raw
        /\ "Active" \in DOMAIN raw
              => TheBase(world).server["Active"] = ExpandText(raw["Active"], TheEnv)
    BY <1>4, ExpandParts DEF TheBase
  <2>2. EnvOr(TheBase(world).server, "Active", None) = act
    BY <2>1 DEF EnvOr, Given
  <2> QED  BY <1>4, <2>2 DEF ProfileOf, Profile
<1>6. EnvOr(TheEnv, "PROFILE", act) = IF env # None THEN env ELSE act
  <2>1. \A v \in DOMAIN TheEnv : TheEnv[v] # None
    <3>1. AreTexts(TheVars(world))
      BY LoadedIs
    <3>2. \A x : IsText(x) => x # None
      BY DEF IsText, None
    <3> QED  BY <1>3, <3>1, <3>2 DEF AreTexts
  <2> QED  BY <2>1 DEF EnvOr
<1>7. Given(arg) # None <=> arg \notin {None, Empty}
  BY DEF Given
<1>8. arg \notin {None, Empty} => Given(arg) = arg
  BY DEF Given
<1> HIDE DEF arg, env, raw, act
<1>9. DOMAIN s = {1, 2, 3} /\ s[1] = Given(arg) /\ s[2] = env /\ s[3] = act
  OBVIOUS
<1> HIDE DEF s
<1>10. DOMAIN s \subseteq Nat
  BY <1>9
<1>11. CASE Given(arg) # None
  <2>1. First(s) = s[1]
    BY <1>9, <1>10, <1>11, FirstIs
  <2> QED  BY <1>2, <1>5, <1>7, <1>8, <1>9, <1>11, <2>1
<1>12. CASE Given(arg) = None /\ env # None
  <2>1. First(s) = s[2]
    BY <1>9, <1>10, <1>12, FirstIs
  <2> QED  BY <1>2, <1>5, <1>6, <1>7, <1>9, <1>12, <2>1
<1>13. CASE Given(arg) = None /\ env = None /\ act # None
  <2>1. First(s) = s[3]
    BY <1>9, <1>10, <1>13, FirstIs
  <2> QED  BY <1>2, <1>5, <1>6, <1>7, <1>9, <1>13, <2>1
<1>14. CASE Given(arg) = None /\ env = None /\ act = None
  <2>1. First(s) = None
    BY <1>9, <1>14, NoFirst
  <2> QED  BY <1>2, <1>5, <1>6, <1>7, <1>14, <2>1
<1> QED  BY <1>11, <1>12, <1>13, <1>14

\* The last layer that has a section has it whole, with its placeholders filled in; so
\* has it the keys of Server but for the active profile (xconfig/init.rs: parse_config
\* and merge_profiles_config; location.rs and profiles.rs: the order of precedence).
THEOREM LayersInOrder == Spec => []ConfigIsLayered
<1>1. ConfigIsRead => ConfigIsLayered
  <2> SUFFICES ASSUME ConfigIsRead, config.kind = "loaded" PROVE ConfigIsLayered
    BY DEF ConfigIsLayered
  <2> DEFINE raw == world.files[<<Location(world), Empty>>]
             env == TheVars(world)
             one == TheBase(world)
             layer == IF HasLayer(world) THEN TheLayer(world)
                      ELSE [server |-> NoStore, modules |-> NoStore]
             base == Expand(one, env)
             over == Expand(layer, env)
             got == config.content
             all == IF HasLayer(world) THEN Merge(one, layer) ELSE one
  <2>1. config = InitXConfig(world) /\ world \in Worlds
    BY DEF ConfigIsRead, NoConfig
  <2>2. Location(world) # None /\ got = Expand(all, env)
    BY <2>1, LoadedFrom
  <2>3. TheLocation = Location(world) /\ TheProfile = ProfileOf(world)
    BY <2>1, <2>2, LocationIs, ProfileIs
  <2>4. \A c : Expand(c, TheEnv) = Expand(c, env)
    BY <2>2, EnvIs, SameExpand
  <2>5. one = Expand(raw, env) /\ BaseLayer = raw
    BY <2>3 DEF TheBase, BaseLayer
  <2>6. ProfileLayer = layer
    <3>1. ASSUME ProfileOf(world) = None
          PROVE  <<Location(world), ProfileOf(world)>> \notin DOMAIN world.files
      <4>1. \A path \in DOMAIN world.files : IsText(path[2])
        BY <2>1, StoreAssumption DEF IsWorld
      <4>2. ~ IsText(None)
        BY DEF IsText, None
      <4> QED  BY <3>1, <4>1, <4>2
    <3> QED  BY <2>3, <3>1 DEF ProfileLayer, HasLayer, TheLayer
  <2>7. IsContent(one) /\ (HasLayer(world) => IsContent(layer))
    BY <2>1, LoadedIs
  <2>8. /\ DOMAIN all.modules = DOMAIN one.modules \cup DOMAIN layer.modules
        /\ \A m \in DOMAIN all.modules : all.modules[m] =
               IF m \in DOMAIN layer.modules THEN layer.modules[m] ELSE one.modules[m]
        /\ \A k \in DOMAIN all.server : all.server[k] =
               IF k # "Active" /\ k \in DOMAIN layer.server THEN layer.server[k]
               ELSE one.server[k]
        /\ \A k \in DOMAIN all.server : k \in DOMAIN one.server
               \/ (k # "Active" /\ k \in DOMAIN layer.server)
    <3>1. CASE HasLayer(world)
      <4>1. all = Merge(one, layer)
        BY <3>1
      <4> HIDE DEF all, one, layer
      <4>2. /\ all.modules = Over(layer.modules, one.modules)
            /\ DOMAIN all.server = (DOMAIN layer.server \ {"Active"}) \cup DOMAIN one.server
            /\ \A k \in DOMAIN all.server : all.server[k] =
                   IF k # "Active" /\ k \in DOMAIN layer.server THEN layer.server[k]
                   ELSE one.server[k]
        BY <2>7, <3>1, <4>1, MergeIs
      <4>3. /\ DOMAIN all.modules = DOMAIN one.modules \cup DOMAIN layer.modules
            /\ \A m \in DOMAIN all.modules : all.modules[m] =
                   IF m \in DOMAIN layer.modules THEN layer.modules[m] ELSE one.modules[m]
        BY <4>2 DEF Over
      <4> QED  BY <4>2, <4>3
    <3>2. CASE ~HasLayer(world)
      <4>1. all = one /\ layer.modules = NoStore /\ layer.server = NoStore
        BY <3>2
      <4> HIDE DEF all, one, layer
      <4> QED  BY <4>1 DEF NoStore
    <3> QED  BY <3>1, <3>2
  <2> HIDE DEF all, one, layer, env, raw
  <2>9. /\ DOMAIN got.modules = DOMAIN base.modules \cup DOMAIN over.modules
        /\ \A m \in DOMAIN got.modules : got.modules[m] =
               IF m \in DOMAIN over.modules THEN over.modules[m] ELSE base.modules[m]
    BY <2>2, <2>8, ExpandParts
  <2>10. \A k \in DOMAIN got.server : got.server[k] =
               IF k # "Active" /\ k \in DOMAIN over.server THEN over.server[k]
               ELSE base.server[k]
    BY <2>2, <2>8, ExpandParts
  <2>11. ServerName(config) # Empty
    BY DEF ServerName, EnvOr, Lit, Empty
  <2>12. base = Expand(Expand(BaseLayer, TheEnv), TheEnv) /\ over = Expand(ProfileLayer, TheEnv)
    BY <2>4, <2>5, <2>6
  <2> HIDE DEF base, over
  <2> QED  BY <2>9, <2>10, <2>11, <2>12 DEF ConfigIsLayered
<1> QED  BY <1>1, InitRead, NextRead, PTL DEF Spec
-----------------------------------------------------------------------------
(* The stores. *)

\* s[j] is the last entry of s with the name n; or there is none.
IsLast(s, n, j) ==
    /\ j \in DOMAIN s /\ s[j].name = n
    /\ \A l \in DOMAIN s : s[l].name = n => l <= j
HasLast(s, n, x) == \E j : IsLast(s, n, j) /\ s[j] = x
NotIn(s, n) == \A j \in DOMAIN s : s[j].name # n

\* Of the name n, b has what the last of its owners O before k says, if there is one.
BuiltOf(b, n, O, cs, k) ==
    \/ (\A l \in O : ~ (l < k)) /\ NotIn(b, n)
    \/ \E i \in O, j \in DOMAIN b :
           /\ i < k /\ \A l \in O : l < k => l <= i
           /\ IsLast(b, n, j) /\ b[j].target = cs[i].target

\* The running hook has built what the configuration says up to the next instance.
Building(m) ==
    /\ IsList(built)
    /\ next \in Nat \ {0} /\ next <= Len(Configs(m)) + 1
    /\ \A n : BuiltOf(built, n, Owners(m, n), Configs(m), next)

CacheNames(k) == {NameOf(CacheConfigs[i]) : i \in 1 .. k}

\* What the stores hold while the hooks run, one after the other; a hook that still
\* runs when nothing is started any more is the one that timed out.
Filled ==
    /\ DOMAIN stores = ModuleKeys
    /\ \A m \in {"XOrm", "XRedis"} : stores[m] \in {NoStore, Wanted(m)}
    /\ stage \in Starting => hook = stage
    /\ stage \notin Starting => hook \in {"none", late}
    /\ stage = "up" => hook = "none"
    /\ hook \in {"config", "XOrm"} => stores["XOrm"] = NoStore
    /\ hook \in {"config", "XOrm", "XRedis"} =>
           stores["XRedis"] = NoStore /\ stores["XCache"] = NoStore
    /\ hook = "config" => built = << >> /\ next = 1
    /\ \A m \in {"XOrm", "XRedis"} : hook = m => Building(m)
    /\ stage \in {"XRedis", "XCache", "up"} => stores["XOrm"] = Wanted("XOrm")
    /\ stage \in {"XCache", "up"} => stores["XRedis"] = Wanted("XRedis")
    /\ stage = "XCache" =>
           /\ next \in Nat \ {0} /\ next <= Len(CacheConfigs) + 1
           /\ DOMAIN Caches = CacheNames(next - 1)
    /\ stage = "up" => DOMAIN Caches = CacheNames(Len(CacheConfigs))
    /\ stage \in {"stopXRedis", "stopXOrm", "stopped"} =>
           stores["XCache"] = NoStore \/ late = "XCache"
    /\ stage \in {"stopXOrm", "stopped"} => stores["XRedis"] = NoStore \/ late = "XRedis"
    /\ stage = "stopped" => stores["XOrm"] = NoStore \/ late = "XOrm"

\* Lists.
LEMMA ListIs == ASSUME NEW R, NEW s \in Seq(R) PROVE IsList(s)
<1>1. Len(s) \in Nat /\ DOMAIN s = 1 .. Len(s)
  OBVIOUS
<1>2. s = [i \in 1 .. Len(s) |-> s[i]]
  OBVIOUS
<1>3. PICK Q : Q = Range(s)
  OBVIOUS
<1>4. \A i \in 1 .. Len(s) : s[i] \in Q
  BY <1>1, <1>3 DEF Range
<1>5. s \in Seq(Q)
  BY ONLY <1>1, <1>2, <1>4
<1> QED  BY <1>3, <1>5 DEF IsList

\* The indices of a list.
LEMMA ListHas ==
  ASSUME NEW s, IsList(s)
  PROVE  Len(s) \in Nat /\ DOMAIN s = 1 .. Len(s)
BY DEF IsList

\* Two lists, one after the other, are a list with these members.
LEMMA ConcatList ==
  ASSUME NEW s, NEW b, IsList(s), IsList(b)
  PROVE  /\ IsList(s \o b) /\ DOMAIN (s \o b) = 1 .. Len(s) + Len(b)
         /\ \A j \in 1 .. Len(s) : (s \o b)[j] = s[j]
         /\ \A j \in 1 .. Len(b) : (s \o b)[Len(s) + j] = b[j]
<1>1. PICK R : R = Range(s) \cup Range(b)
  OBVIOUS
<1>2. Range(s) \subseteq R /\ Range(b) \subseteq R
  BY <1>1
<1>3. s \in Seq(Range(s)) /\ b \in Seq(Range(b))
  BY DEF IsList
<1>4. s \in Seq(R) /\ b \in Seq(R)
  BY ONLY <1>2, <1>3, SeqMonotonic
<1>5. /\ s \o b \in Seq(R) /\ Len(s \o b) = Len(s) + Len(b)
      /\ \A j \in 1 .. Len(s) + Len(b) : (s \o b)[j] = IF j <= Len(s) THEN s[j] ELSE b[j - Len(s)]
  BY ONLY <1>4, ConcatProperties
<1>6. IsList(s \o b)
  BY ONLY <1>5, ListIs
<1>7. Len(s) \in Nat /\ Len(b) \in Nat
  BY ListHas
<1> QED  BY <1>4, <1>5, <1>6, <1>7

\* The largest, of natural numbers.
LEMMA MaxIs ==
  ASSUME NEW S, S \subseteq Nat, NEW j \in S, \A l \in S : l <= j
  PROVE  Max(S) = j
<1>1. \A y \in S : j >= y
  OBVIOUS
<1>2. Max(S) \in S /\ \A y \in S : Max(S) >= y
  BY ONLY <1>1, j \in S DEF Max
<1>3. PICK x \in S : x = Max(S)
  BY <1>2
<1>4. x <= j /\ j <= x /\ x \in Nat /\ j \in Nat
  BY <1>2, <1>3
<1> QED  BY <1>3, <1>4

\* Building on.
LEMMA LastOfSecond ==
  ASSUME NEW s, NEW b, NEW n, NEW j, IsList(s), IsList(b), IsLast(b, n, j)
  PROVE  HasLast(s \o b, n, b[j])
<1>1. /\ Len(s) \in Nat /\ Len(b) \in Nat /\ j \in 1 .. Len(b)
      /\ b[j].name = n /\ \A l \in 1 .. Len(b) : b[l].name = n => l <= j
  BY ListHas DEF IsLast
<1>2. /\ DOMAIN (s \o b) = 1 .. Len(s) + Len(b)
      /\ \A l \in 1 .. Len(s) : (s \o b)[l] = s[l]
      /\ \A l \in 1 .. Len(b) : (s \o b)[Len(s) + l] = b[l]
  BY ConcatList
<1>3. ASSUME NEW l \in 1 .. Len(s) + Len(b), (s \o b)[l].name = n PROVE l <= Len(s) + j
  <2>1. CASE l <= Len(s)
    BY <1>1, <2>1
  <2>2. CASE l > Len(s)
    <3>1. l - Len(s) \in 1 .. Len(b) /\ Len(s) + (l - Len(s)) = l
      BY <1>1, <2>2
    <3>2. b[l - Len(s)].name = n
      BY <1>2, <1>3, <3>1
    <3>3. l - Len(s) <= j
      BY <1>1, <3>1, <3>2
    <3> QED  BY <1>1, <3>3
  <2> QED  BY <1>1, <2>1, <2>2
<1>4. Len(s) + j \in 1 .. Len(s) + Len(b)
  BY <1>1
<1>5. IsLast(s \o b, n, Len(s) + j) /\ (s \o b)[Len(s) + j] = b[j]
  BY <1>1, <1>2, <1>3, <1>4 DEF IsLast
<1> QED  BY <1>5 DEF HasLast

\* A name the second list does not have keeps its last entry in the first.
LEMMA LastOfFirst ==
  ASSUME NEW s, NEW b, NEW n, IsList(s), IsList(b), NotIn(b, n)
  PROVE  /\ NotIn(s, n) => NotIn(s \o b, n)
         /\ \A j : IsLast(s, n, j) => IsLast(s \o b, n, j) /\ (s \o b)[j] = s[j]
<1>1. /\ Len(s) \in Nat /\ Len(b) \in Nat /\ DOMAIN s = 1 .. Len(s)
      /\ \A l \in 1 .. Len(b) : b[l].name # n
  BY ListHas DEF NotIn
<1>2. /\ DOMAIN (s \o b) = 1 .. Len(s) + Len(b)
      /\ \A l \in 1 .. Len(s) : (s \o b)[l] = s[l]
      /\ \A l \in 1 .. Len(b) : (s \o b)[Len(s) + l] = b[l]
  BY ConcatList
<1>3. ASSUME NEW l \in 1 .. Len(s) + Len(b), (s \o b)[l].name = n
      PROVE  l \in 1 .. Len(s) /\ s[l].name = n
  <2>1. CASE l <= Len(s)
    BY <1>1, <1>2, <1>3, <2>1
  <2>2. CASE l > Len(s)
    <3>1. l - Len(s) \in 1 .. Len(b) /\ Len(s) + (l - Len(s)) = l
      BY <1>1, <2>2
    <3>2. b[l - Len(s)].name = n
      BY <1>2, <1>3, <3>1
    <3> QED  BY <1>1, <3>1, <3>2
  <2> QED  BY <1>1, <2>1, <2>2
<1>4. NotIn(s, n) => NotIn(s \o b, n)
  BY <1>1, <1>2, <1>3 DEF NotIn
<1>5. ASSUME NEW j, IsLast(s, n, j) PROVE IsLast(s \o b, n, j) /\ (s \o b)[j] = s[j]
  <2>1. j \in 1 .. Len(s) /\ s[j].name = n /\ j \in 1 .. Len(s) + Len(b)
    BY <1>1, <1>5 DEF IsLast
  <2> QED  BY <1>1, <1>2, <1>3, <1>5, <2>1 DEF IsLast
<1> QED  BY <1>4, <1>5

\* One more instance of the list: passed over, or built.
LEMMA SkipsOn ==
  ASSUME NEW b, NEW n, NEW O, O \subseteq Nat, NEW cs, NEW k \in Nat, k \notin O,
         BuiltOf(b, n, O, cs, k)
  PROVE  BuiltOf(b, n, O, cs, k + 1)
<1>1. \A l \in O : l < k + 1 <=> l < k
  OBVIOUS
<1> QED  BY <1>1 DEF BuiltOf

\* Built: the batch has the name if the instance is one of its owners, and not otherwise.
LEMMA BuildsOn ==
  ASSUME NEW b, NEW e, IsList(b), IsList(e), NEW n, NEW O, O \subseteq Nat, NEW cs, NEW k \in Nat,
         BuiltOf(b, n, O, cs, k),
         k \in O => \E j : IsLast(e, n, j) /\ e[j].target = cs[k].target,
         k \notin O => NotIn(e, n)
  PROVE  BuiltOf(b \o e, n, O, cs, k + 1)
<1>1. CASE k \in O
  <2>1. PICK j : IsLast(e, n, j) /\ e[j].target = cs[k].target
    BY <1>1
  <2>2. IsLast(e, n, j)
    BY <2>1
  <2>3. PICK d : IsLast(b \o e, n, d) /\ (b \o e)[d] = e[j]
    <3>1. HasLast(b \o e, n, e[j])
      BY ONLY <2>2, IsList(b), IsList(e), LastOfSecond
    <3> QED  BY <3>1 DEF HasLast
  <2>4. k < k + 1 /\ \A l \in O : l < k + 1 => l <= k
    OBVIOUS
  <2>5. d \in DOMAIN (b \o e) /\ (b \o e)[d].target = cs[k].target
    BY <2>1, <2>3 DEF IsLast
  <2> QED  BY ONLY <1>1, <2>3, <2>4, <2>5 DEF BuiltOf
<1>2. CASE k \notin O
  <2>1. \A l \in O : l < k + 1 <=> l < k
    <3>1. ASSUME NEW l \in O PROVE l < k + 1 <=> l < k
      <4>1. l \in Nat /\ l # k
        BY <1>2
      <4> QED  BY <4>1
    <3> QED  BY <3>1
  <2>2. NotIn(b, n) => NotIn(b \o e, n)
    BY <1>2, LastOfFirst
  <2>3. \A j : IsLast(b, n, j) => IsLast(b \o e, n, j) /\ (b \o e)[j] = b[j]
    BY <1>2, LastOfFirst
  <2>4. \A j : IsLast(b \o e, n, j) => j \in DOMAIN (b \o e)
    BY DEF IsLast
  <2> QED  BY ONLY BuiltOf(b, n, O, cs, k), <2>1, <2>2, <2>3, <2>4 DEF BuiltOf
<1> QED  BY <1>1, <1>2

\* The batch of an instance has, under each name the instance stands for, its target.
LEMMA BatchHas ==
  ASSUME NEW m \in {"XOrm", "XRedis"}, NEW i \in DOMAIN Configs(m), i \in Nat,
         Configs(m)[i].target # Empty, NEW n
  PROVE  /\ IsList(Batch(m, i))
         /\ i \in Owners(m, n) =>
                \E j : IsLast(Batch(m, i), n, j) /\ Batch(m, i)[j].target = Configs(m)[i].target
         /\ i \notin Owners(m, n) => NotIn(Batch(m, i), n)
<1> DEFINE inst == Configs(m)[i]
           e == Batch(m, i)
<1>1. i \in Owners(m, n) <=> NameOf(inst) = n \/ (m = "XRedis" /\ i = 1 /\ n = Default)
  BY DEF Owners
<1>2. inst.name = Empty => NameOf(inst) = Default
  BY DEF NameOf
<1>3. Names(m, i) = IF m = "XRedis" /\ i = 1 /\ inst.name # Empty
                    THEN <<Default, NameOf(inst)>> ELSE <<NameOf(inst)>>
  BY DEF Names
<1> HIDE DEF inst
<1>4. CASE m = "XRedis" /\ i = 1 /\ inst.name # Empty
  <2>1. Names(m, i) = <<Default, NameOf(inst)>>
    BY <1>3, <1>4
  <2>2. e = <<[name |-> Default, target |-> inst.target], [name |-> NameOf(inst), target |-> inst.target]>>
    BY <2>1 DEF Batch, inst
  <2> HIDE DEF e
  <2>3. /\ DOMAIN e = {1, 2} /\ e[1].name = Default /\ e[2].name = NameOf(inst)
        /\ e[1].target = inst.target /\ e[2].target = inst.target
    BY <2>2
  <2>4. IsList(e)
    <3>1. PICK R : R = {[name |-> Default, target |-> inst.target], [name |-> NameOf(inst), target |-> inst.target]}
      OBVIOUS
    <3>2. e \in Seq(R)
      BY <2>2, <3>1
    <3> QED  BY <3>2, ListIs
  <2>5. CASE NameOf(inst) = n
    <3>1. IsLast(e, n, 2)
      BY <2>3, <2>5 DEF IsLast
    <3> QED  BY <1>1, <2>3, <2>4, <2>5, <3>1 DEF e, inst
  <2>6. CASE NameOf(inst) # n /\ n = Default
    <3>1. IsLast(e, n, 1)
      BY <2>3, <2>6 DEF IsLast
    <3> QED  BY <1>1, <1>4, <2>3, <2>4, <2>6, <3>1 DEF e, inst
  <2>7. CASE NameOf(inst) # n /\ n # Default
    <3>1. NotIn(e, n)
      BY <2>3, <2>7 DEF NotIn
    <3> QED  BY <1>1, <2>4, <2>7, <3>1 DEF e
  <2> QED  BY <2>5, <2>6, <2>7
<1>5. CASE ~ (m = "XRedis" /\ i = 1 /\ inst.name # Empty)
  <2>1. Names(m, i) = <<NameOf(inst)>>
    BY <1>3, <1>5
  <2>2. e = <<[name |-> NameOf(inst), target |-> inst.target]>>
    BY <2>1 DEF Batch, inst
  <2> HIDE DEF e
  <2>3. DOMAIN e = {1} /\ e[1].name = NameOf(inst) /\ e[1].target = inst.target
    BY <2>2
  <2>4. IsList(e)
    <3>1. PICK R : R = {[name |-> NameOf(inst), target |-> inst.target]}
      OBVIOUS
    <3>2. e \in Seq(R)
      BY <2>2, <3>1
    <3> QED  BY <3>2, ListIs
  <2>5. i \in Owners(m, n) <=> NameOf(inst) = n
    BY <1>1, <1>2, <1>5
  <2>6. NameOf(inst) = n => IsLast(e, n, 1)
    BY <2>3 DEF IsLast
  <2>7. NameOf(inst) # n => NotIn(e, n)
    BY <2>3 DEF NotIn
  <2> QED  BY <2>3, <2>4, <2>5, <2>6, <2>7 DEF e, inst
<1> QED  BY <1>4, <1>5

\* All that is built and put into the empty store is what is wanted.
LEMMA AllBuilt ==
  ASSUME NEW m \in {"XOrm", "XRedis"}, IsList(Configs(m)), Building(m), next = Len(Configs(m)) + 1
  PROVE  InsertAll(NoStore, built) = Wanted(m)
<1> DEFINE Of(n) == {j \in DOMAIN built : built[j].name = n}
           D == {built[j].name : j \in DOMAIN built}
           named == {Default} \cup {NameOf(Configs(m)[i]) : i \in DOMAIN Configs(m)}
           W == {n \in named : Owners(m, n) # {}}
           x(n) == built[Max(Of(n))].target
           y(n) == Configs(m)[Max(Owners(m, n))].target
<1>1. /\ Len(Configs(m)) \in Nat /\ DOMAIN Configs(m) = 1 .. Len(Configs(m))
      /\ Len(built) \in Nat /\ DOMAIN built = 1 .. Len(built)
  BY ListHas DEF Building
<1>2. \A n : Owners(m, n) \subseteq DOMAIN Configs(m)
  BY DEF Owners
<1>3. ASSUME NEW n
      PROVE  /\ n \in D <=> Owners(m, n) # {}
             /\ n \in D => x(n) = y(n)
  <2>1. BuiltOf(built, n, Owners(m, n), Configs(m), next)
    BY DEF Building
  <2>2. \A l \in Owners(m, n) : l \in Nat /\ l < next
    BY <1>1, <1>2
  <2>3. CASE (\A l \in Owners(m, n) : ~ (l < next)) /\ NotIn(built, n)
    BY <2>2, <2>3 DEF NotIn
  <2>4. CASE \E i \in Owners(m, n), j \in DOMAIN built :
                 /\ i < next /\ \A l \in Owners(m, n) : l < next => l <= i
                 /\ IsLast(built, n, j) /\ built[j].target = Configs(m)[i].target
    <3>1. PICK i \in Owners(m, n), j \in DOMAIN built :
                 /\ \A l \in Owners(m, n) : l <= i
                 /\ IsLast(built, n, j) /\ built[j].target = Configs(m)[i].target
      BY <2>2, <2>4
    <3>2. Max(Owners(m, n)) = i
      BY <1>1, <1>2, <3>1, MaxIs
    <3>3. j \in Of(n) /\ Of(n) \subseteq Nat /\ \A l \in Of(n) : l <= j
      BY <1>1, <3>1 DEF IsLast
    <3>4. Max(Of(n)) = j
      <4> HIDE DEF Of
      <4> QED  BY <3>3, MaxIs
    <3> HIDE DEF Of
    <3>5. x(n) = y(n)
      BY <3>1, <3>2, <3>4
    <3>6. n \in D
      BY <3>1 DEF IsLast
    <3> QED  BY <3>1, <3>5, <3>6
  <2> QED  BY <2>1, <2>3, <2>4 DEF BuiltOf
<1>4. D = W
  <2>1. ASSUME NEW n, Owners(m, n) # {} PROVE n \in named
    BY <2>1 DEF Owners
  <2> HIDE DEF D, named
  <2> QED  BY <1>3, <2>1
<1>5. \A n \in D : Of(n) # {}
  OBVIOUS
<1>6. InsertAll(NoStore, built) = [n \in D |-> x(n)]
  <2>1. InsertAll(NoStore, built) = [n \in {} \cup D |-> IF Of(n) = {} THEN NoStore[n] ELSE x(n)]
    BY DEF InsertAll, NoStore
  <2> HIDE DEF D, Of, x
  <2>2. {} \cup D = D
    OBVIOUS
  <2> QED  BY <1>5, <2>1, <2>2
<1>7. Wanted(m) = [n \in W |-> y(n)]
  BY DEF Wanted
<1> HIDE DEF D, W, x, y, Of, named
<1> QED  BY <1>3, <1>4, <1>6, <1>7

\* What is configured stays as long as the configuration does.
LEMMA SameConfig ==
  ASSUME config' = config
  PROVE  /\ \A m : Configs(m)' = Configs(m) /\ Wanted(m)' = Wanted(m)
         /\ \A m, n : Owners(m, n)' = Owners(m, n)
         /\ CacheConfigs' = CacheConfigs /\ \A k : CacheNames(k)' = CacheNames(k)
BY DEF Configs, Wanted, Owners, CacheConfigs, CacheNames

\* A section of the configuration is a list.
LEMMA ConfigsAreLists ==
  ASSUME ConfigIsRead
  PROVE  \A m : /\ IsList(Configs(m)) /\ Len(Configs(m)) \in Nat
                /\ DOMAIN Configs(m) = 1 .. Len(Configs(m))
<1> SUFFICES ASSUME NEW m PROVE IsList(Configs(m))
  BY ListHas
<1>1. CASE Configs(m) = << >>
  <2>1. << >> \in Seq({})
    OBVIOUS
  <2> QED  BY <1>1, <2>1, ListIs
<1>2. CASE Configs(m) # << >>
  <2>1. /\ config.kind = "loaded" /\ m \in DOMAIN config.content.modules
        /\ Configs(m) = config.content.modules[m].list
    BY <1>2 DEF Configs, ParseConfigList, ContainKey
  <2>2. config = InitXConfig(world) /\ world \in Worlds
    BY <2>1 DEF ConfigIsRead, NoConfig
  <2>3. IsContent(config.content)
    BY <2>1, <2>2, LoadedIs
  <2> QED  BY <2>1, <2>3 DEF IsContent, IsList
<1> QED  BY <1>1, <1>2

\* So are the configured caches; there is at least one.
LEMMA CachesAreList ==
  ASSUME ConfigIsRead
  PROVE  /\ Len(CacheConfigs) \in Nat \ {0} /\ DOMAIN CacheConfigs = 1 .. Len(CacheConfigs)
         /\ CacheNames(Len(CacheConfigs)) =
               IF Configs("XCache") = << >> THEN {Default}
               ELSE {NameOf(Configs("XCache")[i]) : i \in DOMAIN Configs("XCache")}
<1>1. CASE Configs("XCache") = << >>
  <2>1. CacheConfigs = <<[name |-> Empty, target |-> Lit("5m")]>>
    BY <1>1 DEF CacheConfigs
  <2>2. /\ Len(CacheConfigs) = 1 /\ DOMAIN CacheConfigs = 1 .. 1
        /\ NameOf(CacheConfigs[1]) = Default
    BY <2>1 DEF NameOf
  <2>3. CacheNames(1) = {Default}
    BY <2>2 DEF CacheNames
  <2> QED  BY <1>1, <2>2, <2>3
<1>2. CASE Configs("XCache") # << >>
  <2>1. CacheConfigs = Configs("XCache")
    BY <1>2 DEF CacheConfigs
  <2>2. /\ Len(CacheConfigs) \in Nat /\ DOMAIN CacheConfigs = 1 .. Len(CacheConfigs)
        /\ CacheConfigs \in Seq(Range(CacheConfigs))
    BY <2>1, ConfigsAreLists DEF IsList
  <2>3. Len(CacheConfigs) # 0
    BY <1>2, <2>1, <2>2
  <2> QED  BY <1>2, <2>1, <2>2, <2>3 DEF CacheNames
<1> QED  BY <1>1, <1>2

\* A hook begins with nothing built.
LEMMA BuildingBegins ==
  ConfigIsRead /\ built = << >> /\ next = 1 => \A m \in {"XOrm", "XRedis"} : Building(m)
<1> SUFFICES ASSUME ConfigIsRead, NEW m \in {"XOrm", "XRedis"}, built = << >>, next = 1
             PROVE  Building(m)
  OBVIOUS
<1>1. IsList(built)
  <2>1. << >> \in Seq({})
    OBVIOUS
  <2> QED  BY <2>1, ListIs
<1>2. DOMAIN Configs(m) = 1 .. Len(Configs(m)) /\ Len(Configs(m)) \in Nat
  BY ConfigsAreLists
<1>3. ASSUME NEW n PROVE BuiltOf(built, n, Owners(m, n), Configs(m), next)
  <2>1. \A l \in Owners(m, n) : ~ (l < next)
    BY <1>2 DEF Owners
  <2>2. NotIn(built, n)
    BY DEF NotIn
  <2> QED  BY <2>1, <2>2 DEF BuiltOf
<1> QED  BY <1>1, <1>2, <1>3 DEF Building

\* And goes on through the list.
LEMMA BuildingGoesOn ==
  ASSUME ConfigIsRead, NEW m \in {"XOrm", "XRedis"}, Building(m),
         SkipInstance(m) \/ BuildInstance(m)
  PROVE  Building(m)'
<1>1. /\ DOMAIN Configs(m) = 1 .. Len(Configs(m)) /\ Len(Configs(m)) \in Nat
      /\ next \in DOMAIN Configs(m) /\ next \in Nat \ {0} /\ next' = next + 1
  BY ConfigsAreLists DEF SkipInstance, BuildInstance, Building
<1>2. \A n : Configs(m)' = Configs(m) /\ Owners(m, n)' = Owners(m, n)
  <2>1. config' = config
    BY DEF SkipInstance, BuildInstance
  <2> QED  BY <2>1, SameConfig
<1>3. \A n : Owners(m, n) \subseteq Nat
  BY <1>1 DEF Owners
<1>4. next' \in Nat \ {0} /\ next' <= Len(Configs(m)) + 1
  BY <1>1
<1>5. CASE SkipInstance(m)
  <2>1. built' = built /\ \A n : next \notin Owners(m, n)
    BY <1>5 DEF SkipInstance, Owners
  <2>2. ASSUME NEW n PROVE BuiltOf(built, n, Owners(m, n), Configs(m), next + 1)
    <3>1. BuiltOf(built, n, Owners(m, n), Configs(m), next)
      BY DEF Building
    <3> QED  BY ONLY <1>1, <1>3, <2>1, <3>1, SkipsOn
  <2> QED  BY <1>1, <1>2, <1>4, <2>1, <2>2 DEF Building
<1>6. CASE BuildInstance(m)
  <2>1. built' = built \o Batch(m, next) /\ Configs(m)[next].target # Empty
    BY <1>6 DEF BuildInstance
  <2>2. \A n : /\ IsList(Batch(m, next))
               /\ next \in Owners(m, n) =>
                    \E j : IsLast(Batch(m, next), n, j)
                           /\ Batch(m, next)[j].target = Configs(m)[next].target
               /\ next \notin Owners(m, n) => NotIn(Batch(m, next), n)
    BY <1>1, <2>1, BatchHas
  <2>3. IsList(built) /\ IsList(built \o Batch(m, next))
    BY <2>2, ConcatList DEF Building
  <2>4. ASSUME NEW n
        PROVE  BuiltOf(built \o Batch(m, next), n, Owners(m, n), Configs(m), next + 1)
    <3>1. BuiltOf(built, n, Owners(m, n), Configs(m), next)
      BY DEF Building
    <3> QED  BY ONLY <1>1, <1>3, <2>2, <2>3, <3>1, BuildsOn
  <2> QED  BY <1>1, <1>2, <1>4, <2>1, <2>3, <2>4 DEF Building
<1> QED  BY <1>5, <1>6

\* What the running hook has built depends on these variables alone.
LEMMA BuildingStays ==
  ASSUME UNCHANGED <<config, built, next>>
  PROVE  \A m : Building(m)' = Building(m)
BY SameConfig DEF Building

\* The stores are empty to begin with.
LEMMA InitFilled == Init => Filled
BY DEF Init, Filled, ModuleKeys, Starting

\* The thread of the hook that is waited for, or of the one that was given up on.
LEMMA WhoRuns ==
  ASSUME Filled, NEW h \in Starting, hook = h
  PROVE  \/ stage = h
         \/ stage \notin Starting /\ stage # "up" /\ late = h
BY DEF Filled, Starting, ModuleKeys

\* Reading the configuration keeps Filled.
LEMMA InitStoreFilled ==
  ASSUME ConfigIsRead', Filled, InitStore
  PROVE  Filled'
<1>1. (ConfigIsRead /\ built = << >> /\ next = 1 => \A m \in {"XOrm", "XRedis"} : Building(m))'
  BY BuildingBegins, PTL
<1>2. hook = "config" /\ UNCHANGED <<built, next, stores, late>>
  BY DEF InitStore
<1>3. built' = << >> /\ next' = 1
  BY <1>2 DEF Filled
<1>4. Building("XOrm")'
  BY <1>1, <1>3
<1>5. /\ DOMAIN stores' = ModuleKeys
      /\ stores'["XOrm"] = NoStore /\ stores'["XRedis"] = NoStore /\ stores'["XCache"] = NoStore
  BY <1>2 DEF Filled
<1>6. CASE stage = "config"
  <2>1. \/ stage' = "failed" /\ hook' = "none"
        \/ stage' = "XOrm" /\ hook' = "XOrm"
    BY <1>6 DEF InitStore, Answers, Fails, After
  <2> QED  BY <1>4, <1>5, <2>1 DEF Filled, Starting, ModuleKeys
<1>7. CASE stage \notin Starting /\ stage # "up"
  <2>1. stage' = stage /\ hook' = "none"
    BY <1>7 DEF InitStore, Answers, Fails, Starting
  <2> QED  BY <1>5, <1>7, <2>1 DEF Filled, Starting, ModuleKeys
<1> QED  BY <1>2, <1>6, <1>7, WhoRuns DEF Starting

\* A hook that puts all it has built into its store keeps Filled.
LEMMA PublishFilled ==
  ASSUME ConfigIsRead, ConfigIsRead', Filled, NEW q \in {"XOrm", "XRedis"}, Publish(q)
  PROVE  Filled'
<1>1. (ConfigIsRead /\ built = << >> /\ next = 1 => \A m \in {"XOrm", "XRedis"} : Building(m))'
  BY BuildingBegins, PTL
<1>2. /\ hook = q /\ built' = << >> /\ next' = 1 /\ UNCHANGED <<config, late>>
      /\ next = Len(Configs(q)) + 1
      /\ stores' = [stores EXCEPT ![q] = InsertAll(stores[q], built)]
  BY DEF Publish
<1>3. stores[q] = NoStore /\ Building(q) /\ DOMAIN stores = ModuleKeys
  BY <1>2 DEF Filled
<1>4. IsList(Configs(q))
  BY ConfigsAreLists
<1>5. stores' = [stores EXCEPT ![q] = Wanted(q)]
  BY <1>2, <1>3, <1>4, AllBuilt
<1>6. /\ Wanted("XOrm")' = Wanted("XOrm") /\ Wanted("XRedis")' = Wanted("XRedis")
      /\ CacheConfigs' = CacheConfigs
  BY <1>2, SameConfig
<1>7. CASE stage = q /\ q = "XOrm"
  <2>1. Building("XRedis")'
    BY <1>1, <1>2
  <2>2. /\ DOMAIN stores' = ModuleKeys /\ stores'["XOrm"] = Wanted("XOrm")
        /\ stores'["XRedis"] = NoStore /\ stores'["XCache"] = NoStore
    BY <1>2, <1>3, <1>5, <1>7 DEF Filled, ModuleKeys
  <2>3. stage' = "XRedis" /\ hook' = "XRedis"
    BY <1>7 DEF Publish, Answers, After
  <2> QED  BY <1>6, <2>1, <2>2, <2>3 DEF Filled, Starting, ModuleKeys
<1>8. CASE stage = q /\ q = "XRedis"
  <2>1. /\ DOMAIN stores' = ModuleKeys /\ stores'["XOrm"] = Wanted("XOrm")
        /\ stores'["XRedis"] = Wanted("XRedis") /\ stores'["XCache"] = NoStore
    BY <1>2, <1>3, <1>5, <1>8 DEF Filled, ModuleKeys
  <2>2. stage' = "XCache" /\ hook' = "XCache"
    BY <1>8 DEF Publish, Answers, After
  <2>3. DOMAIN Caches' = {NameOf(CacheConfigs'[i]) : i \in 1 .. next' - 1}
    <3>1. DOMAIN Caches' = {}
      BY <2>1 DEF Caches, NoStore
    <3>2. 1 .. next' - 1 = {}
      BY <1>2
    <3> QED  BY <3>1, <3>2
  <2>4. next' \in Nat \ {0} /\ next' <= Len(CacheConfigs') + 1
    <3>1. Len(CacheConfigs) \in Nat \ {0}
      BY CachesAreList
    <3> QED  BY <1>2, <1>6, <3>1
  <2> QED  BY <1>6, <2>1, <2>2, <2>3, <2>4 DEF Filled, CacheNames, Starting, ModuleKeys
<1>9. CASE stage \notin Starting /\ stage # "up" /\ late = q
  <2>1. stage' = stage /\ hook' = "none"
    BY <1>9 DEF Publish, Answers, Starting, ModuleKeys
  <2>2. /\ DOMAIN stores' = ModuleKeys /\ stores'[q] = Wanted(q)
        /\ \A k \in ModuleKeys \ {q} : stores'[k] = stores[k]
    BY <1>3, <1>5 DEF ModuleKeys
  <2> QED  BY <1>2, <1>6, <1>9, <2>1, <2>2 DEF Filled, Starting, ModuleKeys
<1> QED  BY <1>2, <1>7, <1>8, <1>9, WhoRuns DEF Starting, ModuleKeys

\* A cache that is created keeps Filled.
LEMMA CreateFilled ==
  ASSUME ConfigIsRead, Filled, CreateCache
  PROVE  Filled'
<1>1. /\ hook = "XCache" /\ next' = next + 1 /\ UNCHANGED <<config, stage, hook, late>>
      /\ next \in DOMAIN CacheConfigs
      /\ stores' = [stores EXCEPT !["XCache"] =
                       Insert(Caches, NameOf(CacheConfigs[next]), CacheConfigs[next].target)]
  BY DEF CreateCache, Caches
<1>2. /\ Wanted("XOrm")' = Wanted("XOrm") /\ Wanted("XRedis")' = Wanted("XRedis")
      /\ CacheConfigs' = CacheConfigs
      /\ Len(CacheConfigs) \in Nat \ {0} /\ DOMAIN CacheConfigs = 1 .. Len(CacheConfigs)
  BY <1>1, SameConfig, CachesAreList
<1>3. /\ DOMAIN stores' = ModuleKeys
      /\ stores'["XOrm"] = stores["XOrm"] /\ stores'["XRedis"] = stores["XRedis"]
      /\ Caches' = Insert(Caches, NameOf(CacheConfigs[next]), CacheConfigs[next].target)
  BY <1>1 DEF Filled, ModuleKeys, Caches
<1>4. CASE stage = "XCache"
  <2>1. /\ DOMAIN Caches = CacheNames(next - 1)
        /\ stores["XOrm"] = Wanted("XOrm") /\ stores["XRedis"] = Wanted("XRedis")
        /\ next \in Nat \ {0} /\ next <= Len(CacheConfigs)
    BY <1>1, <1>2, <1>4 DEF Filled
  <2>2. DOMAIN Caches' = CacheNames(next - 1) \cup {NameOf(CacheConfigs[next])}
    BY <1>3, <2>1 DEF Insert
  <2>3. 1 .. next = 1 .. (next - 1) \cup {next}
    BY <2>1
  <2>4. DOMAIN Caches' = CacheNames(next)
    BY <2>2, <2>3 DEF CacheNames
  <2>5. next' - 1 = next /\ next' \in Nat \ {0} /\ next' <= Len(CacheConfigs) + 1
    BY <1>1, <1>2, <2>1
  <2>6. DOMAIN Caches' = {NameOf(CacheConfigs'[i]) : i \in 1 .. next' - 1}
    BY <1>1, <1>2, <2>4, <2>5 DEF CacheNames
  <2>7. stage' = "XCache" /\ hook' = "XCache"
    BY <1>1, <1>4
  <2> QED  BY <1>2, <1>3, <2>1, <2>5, <2>6, <2>7 DEF Filled, CacheNames, Starting, ModuleKeys
<1>5. CASE stage \notin Starting /\ stage # "up" /\ late = "XCache"
  BY <1>1, <1>2, <1>3, <1>5 DEF Filled, Starting, ModuleKeys
<1> QED  BY <1>1, <1>4, <1>5, WhoRuns DEF Starting, ModuleKeys

\* So does the end of the last start hook.
LEMMA StartEndsFilled ==
  ASSUME ConfigIsRead, Filled, StartEnds
  PROVE  Filled'
<1>1. /\ hook = "XCache" /\ UNCHANGED <<config, late, stores>>
      /\ next = Len(CacheConfigs) + 1 /\ hook' = "none"
  BY DEF StartEnds, Answers
<1>2. /\ Wanted("XOrm")' = Wanted("XOrm") /\ Wanted("XRedis")' = Wanted("XRedis")
      /\ CacheConfigs' = CacheConfigs /\ Len(CacheConfigs) \in Nat \ {0}
  BY <1>1, SameConfig, CachesAreList
<1>3. CASE stage = "XCache"
  <2>1. stage' = "up"
    BY <1>3 DEF StartEnds, Answers, After
  <2>2. DOMAIN Caches = CacheNames(Len(CacheConfigs))
    BY <1>1, <1>2, <1>3 DEF Filled
  <2>3. DOMAIN Caches' = {NameOf(CacheConfigs'[i]) : i \in 1 .. Len(CacheConfigs')}
    BY <1>1, <1>2, <2>2 DEF Caches, CacheNames
  <2> QED  BY <1>1, <1>2, <1>3, <2>1, <2>3 DEF Filled, CacheNames, Starting, ModuleKeys
<1>4. CASE stage \notin Starting /\ stage # "up"
  <2>1. stage' = stage
    BY <1>4 DEF StartEnds, Answers, Starting, ModuleKeys
  <2> QED  BY <1>1, <1>2, <1>4, <2>1 DEF Filled, Starting, ModuleKeys
<1> QED  BY <1>1, <1>3, <1>4, WhoRuns DEF Starting, ModuleKeys

\* Every step keeps Filled.
LEMMA NextFilled == ConfigIsRead /\ ConfigIsRead' /\ Filled /\ [Next]_storeVars => Filled'
<1> SUFFICES ASSUME ConfigIsRead, ConfigIsRead', Filled, [Next]_storeVars PROVE Filled'
  OBVIOUS
<1> DEFINE Two == {"XOrm", "XRedis"}
<1>1. ASSUME UNCHANGED config
      PROVE  /\ Wanted("XOrm")' = Wanted("XOrm") /\ Wanted("XRedis")' = Wanted("XRedis")
             /\ CacheConfigs' = CacheConfigs /\ \A k : CacheNames(k)' = CacheNames(k)
  BY <1>1, SameConfig
<1>2. CASE UNCHANGED <<stage, hook, late, config, built, next, stores>>
  <2>1. Building("XOrm")' = Building("XOrm") /\ Building("XRedis")' = Building("XRedis")
    BY <1>2, BuildingStays
  <2> QED  BY <1>1, <1>2, <2>1 DEF Filled, Caches
<1>3. CASE TimesOut
  <2>1. /\ stage \in Starting /\ stage' = "failed" /\ late' = stage
        /\ UNCHANGED <<hook, config, built, next, stores>>
    BY <1>3 DEF TimesOut
  <2>2. Building("XOrm")' = Building("XOrm") /\ Building("XRedis")' = Building("XRedis")
    BY <2>1, BuildingStays
  <2> QED  BY <1>1, <2>1, <2>2 DEF Filled, Starting, ModuleKeys
<1>4. ASSUME NEW m \in Two, SkipInstance(m) \/ BuildInstance(m) PROVE Filled'
  <2>1. hook = m /\ UNCHANGED <<stage, hook, late, config, stores>>
    BY <1>4 DEF SkipInstance, BuildInstance
  <2>2. Building(m)
    BY <2>1 DEF Filled
  <2>3. Building(m)'
    BY <1>4, <2>2, BuildingGoesOn
  <2>4. stage # "XCache"
    BY <2>1 DEF Filled, Starting, ModuleKeys
  <2> QED  BY <1>1, <2>1, <2>3, <2>4 DEF Filled
<1>5. ASSUME NEW m \in Two, BuildFails(m) PROVE Filled'
  <2>1. hook = m /\ hook' = "none" /\ UNCHANGED <<config, stores, late>>
    BY <1>5 DEF BuildFails, Fails
  <2>2. \/ stage' = "failed"
        \/ stage' = stage /\ stage \notin Starting /\ stage # "up"
    BY <1>5, <2>1, WhoRuns DEF BuildFails, Fails, Starting, ModuleKeys
  <2> QED  BY <1>1, <2>1, <2>2 DEF Filled, Starting, ModuleKeys
<1>6. ASSUME NEW m \in ModuleKeys, Clear(m) PROVE Filled'
  <2>1. /\ UNCHANGED <<config, hook, late, built, next>> /\ stores' = [stores EXCEPT ![m] = NoStore]
        /\ m = "XCache" => stage \in {"up", "failed"} /\ stage' = "stopXRedis"
        /\ m = "XRedis" => stage = "stopXRedis" /\ stage' = "stopXOrm"
        /\ m = "XOrm" => stage = "stopXOrm" /\ stage' = "stopped"
    BY <1>6 DEF Clear, Stopping, Cleared
  <2>2. /\ DOMAIN stores = ModuleKeys /\ DOMAIN stores' = ModuleKeys
        /\ stores'[m] = NoStore /\ \A k \in ModuleKeys \ {m} : stores'[k] = stores[k]
    BY <2>1 DEF Filled
  <2>3. Building("XOrm")' = Building("XOrm") /\ Building("XRedis")' = Building("XRedis")
    BY <2>1, BuildingStays
  <2> QED  BY <1>1, <2>1, <2>2, <2>3 DEF Filled, Starting, ModuleKeys
<1>7. ASSUME NEW n \in DOMAIN Caches, NEW k \in Keys, NEW t \in Types,
             Set(n, k, t) \/ \E d \in CustomTTLs : SetWithTtl(n, k, t, d)
      PROVE  UNCHANGED <<stage, hook, late, config, built, next, stores>>
  BY <1>7 DEF Set, SetWithTtl, startVars
<1> QED
  BY <1>2, <1>3, <1>4, <1>5, <1>6, <1>7, InitStoreFilled, PublishFilled, CreateFilled,
     StartEndsFilled DEF Next, storeVars, startVars, Tick, Del

\* Theorem: a store is empty or holds all that is configured for it, whichever
\* instance failed, whether or not init() still waits for the hook that fills it, and
\* whoever reads meanwhile; a process that is up holds it all, and has a cache; a
\* stopped one holds nothing but what a hook that had timed out has opened.
THEOREM StoresAsConfigured == Spec => []StoreIsConfigured
<1>1. ConfigIsRead /\ Filled => StoreIsConfigured
  <2> SUFFICES ASSUME ConfigIsRead, Filled PROVE StoreIsConfigured
    OBVIOUS
  <2>1. stage = "up" => DOMAIN Caches = CacheNames(Len(CacheConfigs))
    BY DEF Filled
  <2>2. stage = "stopped" => \A m \in ModuleKeys \ {late} : stores[m] = NoStore
    BY DEF Filled, ModuleKeys
  <2> QED  BY <2>1, <2>2, CachesAreList DEF Filled, StoreIsConfigured
<1> QED  BY <1>1, InitRead, NextRead, InitFilled, NextFilled, PTL DEF Spec
-----------------------------------------------------------------------------
(* Types. *)

\* A write or a deletion leaves every cache its slots.
LEMMA WritesKeepSlots ==
  ASSUME TypeOK, NEW n \in DOMAIN entries, NEW k \in Keys, NEW x, NEW y,
         entries' = [entries EXCEPT ![n][k] = x], history' = [history EXCEPT ![n][k] = y]
  PROVE  /\ DOMAIN entries' = DOMAIN entries /\ DOMAIN history' = DOMAIN entries
         /\ \A q \in DOMAIN entries' : DOMAIN entries'[q] = Keys
BY DEF TypeOK

\* Theorem: the types of the variables are what TypeOK says.
THEOREM TypeCorrect == Spec => []TypeOK
<1>1. Init => TypeOK
  BY StoreAssumption DEF Init, TypeOK, NoConfig, NoStore, ModuleKeys, Starting
<1>2. ConfigIsRead' /\ TypeOK /\ [Next]_storeVars => TypeOK'
  <2> SUFFICES ASSUME ConfigIsRead', TypeOK, [Next]_storeVars PROVE TypeOK'
    OBVIOUS
  <2>1. config'.kind \in {"absent", "loaded"}
    <3>1. config' = NoConfig \/ (config' = InitXConfig(world') /\ config' # Failed)
      BY DEF ConfigIsRead
    <3>2. \A w : InitXConfig(w) \in {NoConfig, Failed} \/ InitXConfig(w).kind = "loaded"
      BY DEF InitXConfig, ParseConfig, Loaded
    <3> QED  BY <3>1, <3>2 DEF NoConfig, Failed
  <2>2. CASE UNCHANGED storeVars
    BY <2>2 DEF TypeOK, storeVars
  <2>11. ASSUME NEW h \in Starting, Answers(h) \/ Fails(h)
        PROVE  /\ stage' \in Starting \cup {"up", "failed", "stopXRedis", "stopXOrm", "stopped"}
               /\ hook' \in Starting \cup {"none"}
    BY <2>11 DEF Answers, Fails, After, Starting, ModuleKeys, TypeOK
  <2>12. CASE TimesOut
    BY <2>1, <2>12 DEF TimesOut, cacheVars, TypeOK
  <2>3. CASE InitStore
    <3>1. Answers("config") \/ Fails("config")
      BY <2>3 DEF InitStore
    <3>2. /\ stage' \in Starting \cup {"up", "failed", "stopXRedis", "stopXOrm", "stopped"}
          /\ hook' \in Starting \cup {"none"}
      BY <2>11, <3>1 DEF Starting
    <3>3. built' = << >>
      BY <2>3 DEF InitStore, TypeOK
    <3> QED  BY <2>1, <2>3, <3>2, <3>3 DEF InitStore, cacheVars, TypeOK
  <2>4. ASSUME NEW m \in {"XOrm", "XRedis"},
               SkipInstance(m) \/ BuildInstance(m) \/ BuildFails(m) \/ Publish(m)
        PROVE  TypeOK'
    <3>1. CASE SkipInstance(m)
      BY <2>1, <3>1 DEF SkipInstance, cacheVars, TypeOK
    <3>2. CASE BuildInstance(m)
      BY <2>1, <3>2 DEF BuildInstance, cacheVars, TypeOK
    <3>3. CASE BuildFails(m)
      <4>1. /\ stage' \in Starting \cup {"up", "failed", "stopXRedis", "stopXOrm", "stopped"}
            /\ hook' \in Starting \cup {"none"}
        BY <2>11, <3>3 DEF BuildFails, Starting, ModuleKeys
      <4> QED  BY <2>1, <3>3, <4>1 DEF BuildFails, cacheVars, TypeOK
    <3>4. CASE Publish(m)
      <4>1. /\ stage' \in Starting \cup {"up", "failed", "stopXRedis", "stopXOrm", "stopped"}
            /\ hook' \in Starting \cup {"none"}
        BY <2>11, <3>4 DEF Publish, Starting, ModuleKeys
      <4>2. /\ DOMAIN stores' = ModuleKeys /\ stores'["XCache"] = stores["XCache"]
            /\ UNCHANGED <<world, late, config, cacheVars>> /\ built' = << >> /\ next' = 1
        BY <3>4 DEF Publish, TypeOK, ModuleKeys
      <4> QED  BY <2>1, <4>1, <4>2 DEF cacheVars, TypeOK
    <3> QED  BY <2>4, <3>1, <3>2, <3>3, <3>4
  <2>5. CASE CreateCache
    <3>1. PICK n, x, blank :
            /\ hook = "XCache" /\ next' = next + 1 /\ blank = [k \in Keys |-> None]
            /\ stores' = [stores EXCEPT !["XCache"] = Insert(stores["XCache"], n, x)]
            /\ entries' = Insert(entries, n, blank) /\ history' = Insert(history, n, blank)
            /\ UNCHANGED <<world, stage, hook, late, config, built, now>>
      BY <2>5 DEF CreateCache
    <3>2. /\ DOMAIN stores' = ModuleKeys
          /\ DOMAIN stores'["XCache"] = DOMAIN stores["XCache"] \cup {n}
      BY <3>1 DEF TypeOK, ModuleKeys, Insert
    <3>3. /\ DOMAIN entries' = DOMAIN entries \cup {n} /\ DOMAIN history' = DOMAIN history \cup {n}
          /\ \A q \in DOMAIN entries' : DOMAIN entries'[q] = Keys
      BY <3>1 DEF TypeOK, Insert
    <3> QED  BY <2>1, <3>1, <3>2, <3>3 DEF TypeOK
  <2>6. CASE StartEnds
    <3>1. /\ stage' \in Starting \cup {"up", "failed", "stopXRedis", "stopXOrm", "stopped"}
          /\ hook' \in Starting \cup {"none"} /\ built' = << >>
      BY <2>6, <2>11 DEF StartEnds, Starting, ModuleKeys, TypeOK
    <3> QED  BY <2>1, <2>6, <3>1 DEF StartEnds, cacheVars, TypeOK
  <2>7. ASSUME NEW n \in DOMAIN Caches, NEW k \in Keys, NEW t \in Types,
               Set(n, k, t) \/ \E d \in CustomTTLs : SetWithTtl(n, k, t, d)
        PROVE  TypeOK'
    <3>1. PICK x, y : /\ entries' = [entries EXCEPT ![n][k] = x]
                      /\ history' = [history EXCEPT ![n][k] = y]
      BY <2>7 DEF Set, SetWithTtl, Write
    <3>2. n \in DOMAIN entries
      BY DEF TypeOK, Caches
    <3>3. UNCHANGED <<world, stage, hook, late, config, built, next, stores, now>>
      BY <2>7 DEF Set, SetWithTtl, startVars
    <3> QED  BY <2>1, <3>1, <3>2, <3>3, WritesKeepSlots DEF TypeOK
  <2>8. ASSUME NEW n \in DOMAIN Caches, NEW k \in Keys, Del(n, k) PROVE TypeOK'
    <3>1. n \in DOMAIN entries
      BY DEF TypeOK, Caches
    <3> QED  BY <2>1, <2>8, <3>1, WritesKeepSlots DEF TypeOK, Del, startVars
  <2>9. CASE Tick
    BY <2>1, <2>9, StoreAssumption DEF Tick, TypeOK, startVars
  <2>10. ASSUME NEW m \in ModuleKeys, Clear(m) PROVE TypeOK'
    <3>1. /\ DOMAIN stores' = ModuleKeys
          /\ stores'["XCache"] = stores["XCache"] \/ DOMAIN stores'["XCache"] = {}
      BY <2>10 DEF Clear, TypeOK, ModuleKeys, NoStore
    <3>2. stage' \in {"stopXRedis", "stopXOrm", "stopped"}
      BY <2>10 DEF Clear, Cleared, ModuleKeys
    <3> QED  BY <2>1, <2>10, <3>1, <3>2 DEF TypeOK, Clear, cacheVars
  <2> QED
    BY <2>2, <2>3, <2>4, <2>5, <2>6, <2>7, <2>8, <2>9, <2>10, <2>12 DEF Next
<1> QED  BY <1>1, <1>2, InitRead, NextRead, PTL DEF Spec
=============================================================================
