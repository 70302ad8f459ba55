--------------------------- MODULE XMetricProofs ---------------------------
(***************************************************************************)
(* Theorems about the metrics, for any threads, kinds, names and labels.   *)
(***************************************************************************)
EXTENDS XMetric, FiniteSetTheorems, TLAPS

AllConfigs == Configs \cup {DefaultConfig}
MetricNames == UNION {{c.namespace \o n : n \in Names} : c \in AllConfigs}
Families == [kind : Kinds, name : Names, buckets : {DefaultHistogram},
             value : [DynLabels -> Nat], since : AllConfigs, late : BOOLEAN]
Calls == [kind : Kinds, name : Names, labels : LabelLists]

\* The inductive invariant: types, in a form the prover can use of sequences,
Types ==
    /\ TypeOK
    /\ family \in Seq(Families)
    /\ registry \in Seq([name : MetricNames, family : Nat])
    /\ DOMAIN call = Threads /\ DOMAIN metricName = Threads
    /\ \A t \in Threads : pc[t] = "register" => metricName[t] \in MetricNames

\* a family is in the store under its kind and name, and nowhere else; a thread has
\* the family of its call,
Stores ==
    /\ \A k \in Kinds, n \in Names : store[k][n] # 0 =>
           family[store[k][n]].kind = k /\ family[store[k][n]].name = n
    /\ \A f \in FamilyIds : store[family[f].kind][family[f].name] = f
    /\ \A t \in Threads : pc[t] \in {"register", "update"} =>
           got[t] = store[call[t].kind][call[t].name]

\* a family is shown once, or is about to be by one thread,
Shown ==
    /\ \A i, j \in DOMAIN registry : registry[i].family = registry[j].family => i = j
    /\ \A f \in FamilyIds : Creating(f) \/ \E i \in DOMAIN registry : registry[i].family = f
    /\ \A t \in Threads : pc[t] = "register" =>
           /\ \A i \in DOMAIN registry : registry[i].family # got[t]
           /\ \A u \in Threads : pc[u] = "register" /\ got[u] = got[t] => u = t

\* and its values are the updates done.
IInv == Types /\ Stores /\ Shown /\ NoUpdateLost

-----------------------------------------------------------------------------
\* A name with the namespace before it is one of the names of the registry.
LEMMA PrefixedName ==
  ASSUME NEW c \in AllConfigs, NEW n \in Names
  PROVE  c.namespace \o n \in MetricNames
<1>1. c.namespace \o n \in {c.namespace \o m : m \in Names}
  BY Zenon
<1> QED  BY <1>1, Zenon DEF MetricNames

\* Without metrics all the parts of the invariant hold.
LEMMA InitInv == Init => IInv
<1> SUFFICES ASSUME Init
             PROVE  IInv
  OBVIOUS
<1> USE MetricAssumption DEF Init
<1>1. Types
  <2>1. TypeOK
    <3>1. FamilyIds = {} /\ DOMAIN registry = {}
      BY DEF FamilyIds
    <3>2. store \in [Kinds -> [Names -> {0} \cup FamilyIds]] /\ got \in [Threads -> {0} \cup FamilyIds]
      OBVIOUS
    <3>3. pc \in [Threads -> {"idle", "read", "write", "register", "update"}]
          /\ \A t \in Threads : pc[t] = "idle"
      OBVIOUS
    <3>4. done \in [Kinds -> [Names -> [LabelSets -> Nat]]]
      OBVIOUS
    <3>5. config \in Configs \cup {DefaultConfig} /\ configured \in BOOLEAN /\ calls = 0
      BY Zenon
    <3> HIDE DEF Init
    <3>6. calls \in 0 .. MaxCalls
      BY <3>5
    <3> QED  BY <3>1, <3>2, <3>3, <3>4, <3>5, <3>6 DEF TypeOK
  <2>2. family \in Seq(Families) /\ registry \in Seq([name : MetricNames, family : Nat])
    BY DEF Families, MetricNames
  <2> QED  BY <2>1, <2>2 DEF Types
<1>2. Stores /\ Shown
  BY DEF Stores, Shown, FamilyIds
<1>3. NoUpdateLost
  BY DEF NoUpdateLost, LabelSets
<1> QED  BY <1>1, <1>2, <1>3 DEF IInv

\* Before a thread has its family nothing but its own call changes.
LEMMA ThreadKeeps ==
  ASSUME IInv, NEW t \in Threads, UNCHANGED <<mapVars, configVars, done>>, Types',
         \A u \in Threads \ {t} : pc'[u] = pc[u] /\ call'[u] = call[u] /\ got'[u] = got[u],
         pc[t] # "register", pc'[t] # "register",
         pc'[t] = "update" => got'[t] = store[call'[t].kind][call'[t].name]
  PROVE  IInv'
<1>1. Stores'
  BY DEF IInv, Stores, mapVars, FamilyIds
<1>2. Shown'
  BY DEF IInv, Shown, mapVars, FamilyIds, Creating
<1>3. NoUpdateLost'
  BY DEF IInv, NoUpdateLost, mapVars
<1> QED  BY <1>1, <1>2, <1>3 DEF IInv

\* The beginning of a call keeps the invariant.
LEMMA CallKeeps ==
  ASSUME IInv, NEW t \in Threads, Call(t)
  PROVE  IInv'
<1> USE MetricAssumption DEF IInv, Types, TypeOK, Call, mapVars, configVars
<1>1. Types'
  BY DEF FamilyIds
<1>2. pc' = [pc EXCEPT ![t] = "read"] /\ \A u \in Threads \ {t} : call'[u] = call[u]
  OBVIOUS
<1> QED  BY <1>1, <1>2, ThreadKeeps

\* Finding the family in the store, under either lock, keeps the invariant.
LEMMA TakeKeeps ==
  ASSUME IInv, NEW t \in Threads, pc[t] \in {"read", "write"}, Take(t)
  PROVE  IInv'
<1> DEFINE f == store[call[t].kind][call[t].name]
<1>1. call[t].kind \in Kinds /\ call[t].name \in Names
  BY DEF IInv, Types, TypeOK
<1>2. f \in FamilyIds
  <2>1. store \in [Kinds -> [Names -> {0} \cup FamilyIds]] /\ f # 0
    BY DEF IInv, Types, TypeOK, Take, Stored
  <2> QED  BY <1>1, <2>1
<1>3. /\ got' = [got EXCEPT ![t] = f] /\ pc' = [pc EXCEPT ![t] = "update"] /\ f # 0
      /\ UNCHANGED <<mapVars, configVars, call, metricName, done, calls>>
  BY DEF Take, Stored
<1> HIDE DEF f
<1>4. /\ got' \in [Threads -> {0} \cup FamilyIds] /\ got'[t] = f
      /\ pc' \in [Threads -> {"idle", "read", "write", "register", "update"}]
      /\ \A u \in Threads \ {t} : pc'[u] = pc[u] /\ got'[u] = got[u]
      /\ pc'[t] = "update"
  BY <1>2, <1>3 DEF IInv, Types, TypeOK
<1>5. TypeOK'
  BY <1>3, <1>4 DEF IInv, Types, TypeOK, mapVars, configVars, FamilyIds
<1>6. Types'
  BY <1>3, <1>4, <1>5 DEF IInv, Types, mapVars
<1> QED  BY <1>3, <1>4, <1>6, ThreadKeeps DEF f

\* Not finding it under the read lock keeps the invariant.
LEMMA MissKeeps ==
  ASSUME IInv, NEW t \in Threads, pc[t] = "read", pc' = [pc EXCEPT ![t] = "write"],
         UNCHANGED <<mapVars, configVars, call, got, metricName, done, calls>>
  PROVE  IInv'
<1> USE MetricAssumption DEF IInv, Types, TypeOK, mapVars, configVars
<1>1. Types'
  BY DEF FamilyIds
<1> QED  BY <1>1, ThreadKeeps

\* A family that is not in the store is new to everybody.
LEMMA InsertKeeps ==
  ASSUME IInv, NEW t \in Threads, pc[t] = "write", Stored(t) = 0, Insert(t)
  PROVE  IInv'
<1> USE MetricAssumption
<1> DEFINE k == call[t].kind
           n == call[t].name
           new == Len(family) + 1
<1>1. /\ k \in Kinds /\ n \in Names /\ store[k][n] = 0 /\ config \in AllConfigs
      /\ family \in Seq(Families) /\ pc \in [Threads -> {"idle", "read", "write", "register", "update"}]
      /\ store \in [Kinds -> [Names -> {0} \cup FamilyIds]] /\ got \in [Threads -> {0} \cup FamilyIds]
      /\ new \in Nat \ {0}
  BY DEF IInv, Types, TypeOK, Stored, AllConfigs
<1>2. NewFamily(k, n) \in Families /\ NewFamily(k, n).kind = k /\ NewFamily(k, n).name = n
      /\ \A l \in LabelLists : NewFamily(k, n).value[ToDynLabels(l)] = 0
  BY <1>1 DEF NewFamily, Families, IInv, Types, TypeOK, DynLabels
<1>3. /\ family' = Append(family, NewFamily(k, n))
      /\ family' \in Seq(Families) /\ FamilyIds' = FamilyIds \cup {new} /\ new \notin FamilyIds
      /\ family'[new] = NewFamily(k, n) /\ \A f \in FamilyIds : family'[f] = family[f]
  BY <1>1, <1>2 DEF Insert, FamilyIds
<1>4. /\ store'[k][n] = new
      /\ \A j \in Kinds, m \in Names : j # k \/ m # n => store'[j][m] = store[j][m]
      /\ store' \in [Kinds -> [Names -> {0} \cup FamilyIds']]
  <2>1. store' = [store EXCEPT ![k] = [store[k] EXCEPT ![n] = new]]
    BY DEF Insert
  <2>2. new \in FamilyIds'
    BY <1>3
  <2>3. \A j \in Kinds : store'[j] \in [Names -> {0} \cup FamilyIds']
    BY <1>1, <1>3, <2>1, <2>2
  <2> QED  BY <1>1, <2>1, <2>3
<1>5. /\ got' = [got EXCEPT ![t] = new] /\ pc' = [pc EXCEPT ![t] = "register"]
      /\ UNCHANGED <<registry, configVars, call, done, calls>>
      /\ metricName' = [metricName EXCEPT ![t] = BuildMetricName(n)]
  BY DEF Insert
<1> HIDE DEF k, n, new
<1>6. Types'
  <2>1. BuildMetricName(n) \in MetricNames
    BY <1>1, PrefixedName DEF BuildMetricName
  <2>2. \A f \in FamilyIds' : /\ family'[f].kind \in Kinds /\ family'[f].name \in Names
                              /\ family'[f].value \in [DynLabels -> Nat]
    <3>1. \A f \in DOMAIN family' : family'[f] \in Families
      BY <1>3
    <3> QED  BY <3>1 DEF FamilyIds, Families
  <2>3. \A i \in DOMAIN registry : registry[i].family \in FamilyIds'
    BY <1>3 DEF IInv, Types, TypeOK
  <2>4. got' \in [Threads -> {0} \cup FamilyIds'] /\ got'[t] = new
    BY <1>1, <1>3, <1>5
  <2>5. pc' \in [Threads -> {"idle", "read", "write", "register", "update"}]
    BY <1>1, <1>5
  <2>6. TypeOK'
    BY <1>1, <1>4, <1>5, <2>2, <2>3, <2>4, <2>5 DEF IInv, Types, TypeOK, configVars
  <2> QED  BY <1>1, <1>3, <1>5, <2>1, <2>6 DEF IInv, Types
<1>7. \A f \in FamilyIds : family[f].kind # k \/ family[f].name # n
  BY <1>1 DEF IInv, Stores, FamilyIds
<1>8. Stores'
  <2>1. \A j \in Kinds, m \in Names : store'[j][m] # 0 =>
            family'[store'[j][m]].kind = j /\ family'[store'[j][m]].name = m
    <3> SUFFICES ASSUME NEW j \in Kinds, NEW m \in Names, store'[j][m] # 0
                 PROVE  family'[store'[j][m]].kind = j /\ family'[store'[j][m]].name = m
      OBVIOUS
    <3>1. CASE j = k /\ m = n
      BY <1>2, <1>3, <1>4, <3>1
    <3>2. CASE ~(j = k /\ m = n)
      <4>1. store'[j][m] = store[j][m] /\ store[j][m] \in FamilyIds
        BY <1>1, <1>4, <3>2
      <4>2. family[store[j][m]].kind = j /\ family[store[j][m]].name = m
        BY <4>1 DEF IInv, Stores
      <4> QED  BY <1>3, <4>1, <4>2
    <3> QED  BY <3>1, <3>2
  <2>2. \A f \in FamilyIds' : store'[family'[f].kind][family'[f].name] = f
    <3>1. store'[family'[new].kind][family'[new].name] = new
      BY <1>2, <1>3, <1>4
    <3>2. ASSUME NEW f \in FamilyIds
          PROVE  store'[family'[f].kind][family'[f].name] = f
      <4>1. family[f].kind \in Kinds /\ family[f].name \in Names
        BY DEF IInv, Types, TypeOK
      <4>2. store'[family[f].kind][family[f].name] = store[family[f].kind][family[f].name]
        BY <1>4, <1>7, <4>1
      <4> QED  BY <1>3, <4>2 DEF IInv, Stores
    <3> QED  BY <1>3, <3>1, <3>2
  <2>3. ASSUME NEW u \in Threads, pc'[u] \in {"register", "update"}
        PROVE  got'[u] = store'[call[u].kind][call[u].name]
    <3>1. CASE u = t
      BY <1>1, <1>4, <1>5, <3>1 DEF k, n
    <3>2. CASE u # t
      <4>1. /\ pc[u] \in {"register", "update"} /\ got'[u] = got[u] /\ got[u] # 0
            /\ call[u].kind \in Kinds /\ call[u].name \in Names
        BY <1>1, <1>5, <2>3, <3>2 DEF IInv, Types, TypeOK
      <4>2. store[call[u].kind][call[u].name] = got[u]
        BY <4>1 DEF IInv, Stores
      <4> QED  BY <1>1, <1>4, <4>1, <4>2
    <3> QED  BY <3>1, <3>2
  <2> QED  BY <1>5, <2>1, <2>2, <2>3 DEF Stores
<1>9. Shown'
  <2>1. \A i \in DOMAIN registry : registry[i].family # new
    BY <1>3 DEF IInv, Types, TypeOK
  <2>2. \A u \in Threads \ {t} : pc'[u] = pc[u] /\ got'[u] = got[u] /\ got[u] # new
    BY <1>1, <1>3, <1>5
  <2>3. pc'[t] = "register" /\ got'[t] = new /\ new # 0
    BY <1>1, <1>5
  <2>4. \A f \in FamilyIds : Creating(f) => Creating(f)'
    BY <1>1, <2>2 DEF Creating
  <2>5. \E u \in Threads : pc'[u] = "register" /\ got'[u] = new
    BY <2>3
  <2>6. \A f \in FamilyIds' : Creating(f)' \/ \E i \in DOMAIN registry : registry[i].family = f
    <3>1. ASSUME NEW f \in FamilyIds
          PROVE  Creating(f)' \/ \E i \in DOMAIN registry : registry[i].family = f
      BY <2>4 DEF IInv, Shown
    <3>2. ASSUME NEW f, f = new
          PROVE  Creating(f)'
      BY <2>5, <3>2 DEF Creating
    <3> QED  BY <1>3, <3>1, <3>2
  <2>7. \A u \in Threads : pc'[u] = "register" =>
           /\ \A i \in DOMAIN registry : registry[i].family # got'[u]
           /\ \A v \in Threads : pc'[v] = "register" /\ got'[v] = got'[u] => v = u
    BY <2>1, <2>2, <2>3 DEF IInv, Shown
  <2> QED  BY <1>5, <2>6, <2>7 DEF IInv, Shown
<1>10. NoUpdateLost'
  <2> SUFFICES ASSUME NEW j \in Kinds, NEW m \in Names, NEW l \in LabelLists
               PROVE  done[j][m][ToSet(l)] =
                        IF store'[j][m] = 0 THEN 0 ELSE family'[store'[j][m]].value[ToDynLabels(l)]
    BY <1>5 DEF NoUpdateLost
  <2>1. done[j][m][ToSet(l)] =
          IF store[j][m] = 0 THEN 0 ELSE family[store[j][m]].value[ToDynLabels(l)]
    BY DEF IInv, NoUpdateLost
  <2>2. CASE j = k /\ m = n
    BY <1>1, <1>2, <1>3, <1>4, <2>1, <2>2
  <2>3. CASE ~(j = k /\ m = n)
    <3>1. store'[j][m] = store[j][m] /\ (store[j][m] # 0 => store[j][m] \in FamilyIds)
      BY <1>1, <1>4, <2>3
    <3> QED  BY <1>3, <2>1, <3>1
  <2> QED  BY <2>2, <2>3
<1> QED  BY <1>6, <1>8, <1>9, <1>10 DEF IInv

\* Registering keeps the invariant: nobody else has this family to register.
LEMMA RegisterKeeps ==
  ASSUME IInv, NEW t \in Threads, Register(t)
  PROVE  IInv'
<1> USE MetricAssumption
<1> DEFINE entry == [name |-> metricName[t], family |-> got[t]]
<1>1. /\ pc[t] = "register" /\ registry' = Append(registry, entry)
      /\ pc' = [pc EXCEPT ![t] = "update"]
      /\ UNCHANGED <<store, family, configVars, call, got, metricName, done, calls>>
  BY DEF Register
<1>2. entry \in [name : MetricNames, family : Nat] /\ got[t] \in FamilyIds /\ entry.family = got[t]
  BY <1>1 DEF IInv, Types, TypeOK, FamilyIds
<1> HIDE DEF entry
<1>3. /\ registry' \in Seq([name : MetricNames, family : Nat])
      /\ DOMAIN registry' = DOMAIN registry \cup {Len(registry) + 1}
      /\ Len(registry) + 1 \notin DOMAIN registry
      /\ registry'[Len(registry) + 1] = entry
      /\ \A i \in DOMAIN registry : registry'[i] = registry[i]
  BY <1>1, <1>2 DEF IInv, Types
<1>4. pc' \in [Threads -> {"idle", "read", "write", "register", "update"}]
      /\ pc'[t] = "update" /\ \A u \in Threads \ {t} : pc'[u] = pc[u]
  BY <1>1 DEF IInv, Types, TypeOK
<1>5. Types'
  <2>1. \A i \in DOMAIN registry' : registry'[i].family \in FamilyIds
    BY <1>2, <1>3 DEF IInv, Types, TypeOK
  <2>2. TypeOK'
    BY <1>1, <1>4, <2>1 DEF IInv, Types, TypeOK, FamilyIds, configVars
  <2> QED  BY <1>1, <1>3, <1>4, <2>2 DEF IInv, Types
<1>6. Stores'
  <2>1. \A u \in Threads : pc'[u] \in {"register", "update"} => pc[u] \in {"register", "update"}
    BY <1>1, <1>4
  <2> QED  BY <1>1, <2>1 DEF IInv, Stores, FamilyIds
<1>7. Shown'
  <2>1. \A i \in DOMAIN registry : registry[i].family # got[t]
    BY <1>1 DEF IInv, Shown
  <2>2. \A i, j \in DOMAIN registry' : registry'[i].family = registry'[j].family => i = j
    BY <1>2, <1>3, <2>1 DEF IInv, Shown
  <2>3. ASSUME NEW f \in FamilyIds
        PROVE  Creating(f)' \/ \E i \in DOMAIN registry' : registry'[i].family = f
    <3>1. CASE f = got[t]
      BY <1>2, <1>3, <3>1
    <3>2. CASE f # got[t] /\ Creating(f)
      BY <1>1, <1>4, <3>2 DEF Creating
    <3>3. CASE ~Creating(f)
      BY <1>3, <3>3 DEF IInv, Shown
    <3> QED  BY <3>1, <3>2, <3>3
  <2>4. ASSUME NEW u \in Threads, pc'[u] = "register"
        PROVE  /\ \A i \in DOMAIN registry' : registry'[i].family # got[u]
               /\ \A v \in Threads : pc'[v] = "register" /\ got[v] = got[u] => v = u
    <3>1. u # t /\ pc[u] = "register" /\ got[u] # got[t]
      BY <1>1, <1>4, <2>4 DEF IInv, Shown
    <3> QED  BY <1>2, <1>3, <1>4, <3>1 DEF IInv, Shown
  <2> QED  BY <1>1, <2>2, <2>3, <2>4 DEF Shown, FamilyIds
<1>8. NoUpdateLost'
  BY <1>1 DEF IInv, NoUpdateLost
<1> QED  BY <1>5, <1>6, <1>7, <1>8 DEF IInv

\* The update, for all lists of the same labels at once, and for no others.
LEMMA UpdateKeeps ==
  ASSUME IInv, NEW t \in Threads, Update(t)
  PROVE  IInv'
<1> USE MetricAssumption
<1> DEFINE k == call[t].kind
           n == call[t].name
           l == call[t].labels
           f == got[t]
<1>1. /\ pc[t] = "update" /\ pc' = [pc EXCEPT ![t] = "idle"]
      /\ family' = [family EXCEPT ![f].value[ToDynLabels(l)] = @ + 1]
      /\ done' = [done EXCEPT ![k][n][ToSet(l)] = @ + 1]
      /\ call' = [call EXCEPT ![t] = <<>>] /\ got' = [got EXCEPT ![t] = 0]
      /\ metricName' = [metricName EXCEPT ![t] = <<>>]
      /\ UNCHANGED <<store, registry, configVars, calls>>
  BY DEF Update
<1>2. /\ k \in Kinds /\ n \in Names /\ l \in LabelLists /\ f \in FamilyIds /\ store[k][n] = f
      /\ f # 0 /\ ToDynLabels(l) \in DynLabels /\ ToSet(l) \in LabelSets
  BY <1>1 DEF IInv, Types, TypeOK, Stores, DynLabels, LabelSets
<1> HIDE DEF k, n, l, f
<1>3. /\ DOMAIN family' = DOMAIN family
      /\ \A g \in FamilyIds \ {f} : family'[g] = family[g]
      /\ family'[f] = [family[f] EXCEPT !.value[ToDynLabels(l)] = @ + 1]
  BY <1>1, <1>2 DEF IInv, Types, FamilyIds
<1>4. /\ family[f] \in Families
      /\ family'[f] \in Families
      /\ family'[f].kind = family[f].kind /\ family'[f].name = family[f].name
      /\ family'[f].value = [family[f].value EXCEPT ![ToDynLabels(l)] = @ + 1]
  <2>1. family[f] \in Families
    BY <1>2 DEF IInv, Types, FamilyIds
  <2> QED  BY <1>2, <1>3, <2>1 DEF Families
<1>5. family' \in Seq(Families)
  <2>1. PICK m \in Nat : DOMAIN family = 1 .. m
    BY DEF IInv, Types
  <2>2. \A g \in 1 .. m : family'[g] \in Families
    BY <1>3, <1>4, <2>1 DEF IInv, Types, FamilyIds
  <2>3. family' \in [1 .. m -> Families]
    BY <1>1, <1>3, <2>1, <2>2
  <2> QED  BY <2>3
<1>6. /\ FamilyIds' = FamilyIds
      /\ \A g \in FamilyIds : family'[g].kind = family[g].kind /\ family'[g].name = family[g].name
  BY <1>3, <1>4 DEF FamilyIds
<1>7. /\ pc'[t] = "idle" /\ \A u \in Threads \ {t} : pc'[u] = pc[u] /\ got'[u] = got[u] /\ call'[u] = call[u]
      /\ pc' \in [Threads -> {"idle", "read", "write", "register", "update"}]
      /\ got' \in [Threads -> {0} \cup FamilyIds]
      /\ \A u \in Threads \ {t} : metricName'[u] = metricName[u]
      /\ DOMAIN call' = Threads /\ DOMAIN metricName' = Threads
  BY <1>1 DEF IInv, Types, TypeOK
<1>8. done' \in [Kinds -> [Names -> [LabelSets -> Nat]]]
  <2>1. done[k][n] \in [LabelSets -> Nat] /\ done[k][n][ToSet(l)] + 1 \in Nat
    BY <1>2 DEF IInv, Types, TypeOK
  <2> QED  BY <1>1, <1>2, <2>1 DEF IInv, Types, TypeOK
<1>9. Types'
  <2>1. \A g \in FamilyIds : family'[g].value \in [DynLabels -> Nat]
    <3>1. \A g \in DOMAIN family' : family'[g] \in Families
      BY <1>5
    <3> QED  BY <1>6, <3>1 DEF FamilyIds, Families
  <2>2. TypeOK'
    BY <1>1, <1>6, <1>7, <1>8, <2>1 DEF IInv, Types, TypeOK, configVars
  <2> QED  BY <1>1, <1>5, <1>7, <2>2 DEF IInv, Types
<1>10. Stores'
  <2>1. \A j \in Kinds, m \in Names : store[j][m] # 0 => store[j][m] \in FamilyIds
    BY DEF IInv, Types, TypeOK
  <2> QED  BY <1>1, <1>6, <1>7, <2>1 DEF IInv, Stores
<1>11. Shown'
  BY <1>1, <1>6, <1>7 DEF IInv, Shown, Creating
<1>12. NoUpdateLost'
  <2> SUFFICES ASSUME NEW j \in Kinds, NEW m \in Names, NEW q \in LabelLists
               PROVE  done'[j][m][ToSet(q)] =
                        IF store[j][m] = 0 THEN 0 ELSE family'[store[j][m]].value[ToDynLabels(q)]
    BY <1>1 DEF NoUpdateLost
  <2>1. done[j][m][ToSet(q)] =
          IF store[j][m] = 0 THEN 0 ELSE family[store[j][m]].value[ToDynLabels(q)]
    BY DEF IInv, NoUpdateLost
  <2>2. ToSet(q) \in LabelSets /\ ToDynLabels(q) \in DynLabels
    BY DEF LabelSets, DynLabels
  <2>3. CASE j = k /\ m = n /\ ToSet(q) = ToSet(l)
    <3>1. ToDynLabels(q) = ToDynLabels(l)
      BY <2>3 DEF ToDynLabels
    <3>2. done'[k][n][ToSet(l)] = done[k][n][ToSet(l)] + 1
      BY <1>1, <1>2 DEF IInv, Types, TypeOK
    <3>3. family'[f].value[ToDynLabels(l)] = family[f].value[ToDynLabels(l)] + 1
      BY <1>2, <1>4 DEF Families
    <3> QED  BY <1>2, <2>1, <2>3, <3>1, <3>2, <3>3
  <2>4. CASE j = k /\ m = n /\ ToSet(q) # ToSet(l)
    <3>1. ToDynLabels(q) # ToDynLabels(l)
      BY <1>2, <2>4, LabelAssumption
    <3>2. done'[k][n][ToSet(q)] = done[k][n][ToSet(q)]
      BY <1>1, <1>2, <2>2, <2>4 DEF IInv, Types, TypeOK
    <3>3. family'[f].value[ToDynLabels(q)] = family[f].value[ToDynLabels(q)]
      BY <1>2, <1>4, <2>2, <3>1 DEF Families
    <3> QED  BY <1>2, <2>1, <2>4, <3>2, <3>3
  <2>5. CASE ~(j = k /\ m = n)
    <3>1. done'[j][m] = done[j][m]
      BY <1>1, <1>2, <2>5 DEF IInv, Types, TypeOK
    <3>2. store[j][m] # 0 => store[j][m] \in FamilyIds \ {f}
      <4>1. store[j][m] # 0 => store[j][m] \in FamilyIds
        BY DEF IInv, Types, TypeOK
      <4>2. store[j][m] # 0 => store[j][m] # f
        <5>1. store[j][m] # 0 => family[store[j][m]].kind = j /\ family[store[j][m]].name = m
          BY DEF IInv, Stores
        <5>2. family[f].kind = k /\ family[f].name = n
          BY <1>2 DEF IInv, Stores
        <5> QED  BY <2>5, <5>1, <5>2
      <4> QED  BY <4>1, <4>2
    <3> QED  BY <1>3, <2>1, <3>1, <3>2
  <2> QED  BY <2>3, <2>4, <2>5
<1> QED  BY <1>9, <1>10, <1>11, <1>12 DEF IInv

\* Every step keeps the invariant.
LEMMA NextIInv == IInv /\ [Next]_vars => IInv'
<1> SUFFICES ASSUME IInv, [Next]_vars
             PROVE  IInv'
  OBVIOUS
<1>1. ASSUME NEW t \in Threads, Look(t)
      PROVE  IInv'
  BY <1>1, TakeKeeps, MissKeeps DEF Look
<1>2. ASSUME NEW t \in Threads, Create(t)
      PROVE  IInv'
  BY <1>2, TakeKeeps, InsertKeeps DEF Create
<1>3. CASE SetConfig
  <2>1. Types'
    BY <1>3 DEF SetConfig, mapVars, IInv, Types, TypeOK, FamilyIds
  <2>2. Stores' /\ Shown' /\ NoUpdateLost'
    BY <1>3 DEF SetConfig, mapVars, IInv, Stores, Shown, NoUpdateLost, FamilyIds, Creating
  <2> QED  BY <2>1, <2>2 DEF IInv
<1>4. CASE UNCHANGED vars
  BY <1>4 DEF vars, IInv, Types, TypeOK, Stores, Shown, NoUpdateLost, FamilyIds, Creating
<1> QED
  BY <1>1, <1>2, <1>3, <1>4, CallKeeps, RegisterKeeps, UpdateKeeps DEF Next, CallSteps

\* The strengthened invariant holds however threads create and use metrics together: a
\* family and its place in the store determine each other.
THEOREM Invariance == Spec => []IInv
<1> QED  BY InitInv, NextIInv, PTL DEF Spec

\* No update is lost, however many threads create and use the metrics at the same time
\* and in whatever order they give the labels.
THEOREM UpdatesAreKept == Spec => []NoUpdateLost
<1>1. IInv => NoUpdateLost
  BY DEF IInv
<1> QED  BY <1>1, Invariance, PTL

\* Every family is in the store, and is shown once as soon as the thread that created
\* it has registered it.
THEOREM ShownOnce == Spec => []ExposedOnce
<1>1. ASSUME IInv, NEW f \in FamilyIds
      PROVE  Cardinality(Entries(f)) = IF Creating(f) THEN 0 ELSE 1
  <2>1. CASE Creating(f)
    <3>1. Entries(f) = {}
      BY <1>1, <2>1 DEF IInv, Shown, Creating, Entries
    <3> QED  BY <2>1, <3>1, FS_EmptySet
  <2>2. CASE ~Creating(f)
    <3>1. PICK i \in DOMAIN registry : registry[i].family = f
      BY <1>1, <2>2 DEF IInv, Shown
    <3>2. Entries(f) = {i}
      BY <1>1, <3>1 DEF IInv, Shown, Entries
    <3> QED  BY <2>2, <3>2, FS_Singleton
  <2> QED  BY <2>1, <2>2
<1>2. IInv => ExposedOnce
  BY <1>1 DEF IInv, Stores, ExposedOnce
<1> QED  BY <1>2, Invariance, PTL
=============================================================================
