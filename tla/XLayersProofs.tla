--------------------------- MODULE XLayersProofs ---------------------------
(***************************************************************************)
(* Proofs about the layers of a request, for any builders, middlewares,    *)
(* requests and threads.                                                   *)
(***************************************************************************)
EXTENDS XLayers, TLAPS

Kinds == {"trace", "log", "metric", "recover", "session"}
Dirs == {"idle", "down", "up", "panic", "done", "aborted", "dropped"}
Values == {"none", "ok", "error", "bare", "lost"}

Types ==
    /\ layers \in Seq(Kinds)
    /\ polling \in [Threads -> Requests \cup {"idle"}]
    /\ ctx \in [Threads -> Requests \cup {"root"}]
    /\ shape \in [Requests -> Shapes \cup {"none"}]
    /\ at \in [Requests -> 0 .. Len(layers)]
    /\ dir \in [Requests -> Dirs]
    /\ through \in [Requests -> SUBSET (1 .. Len(layers))]
    /\ status \in [Requests -> {"none", "ok", "error"}]
    /\ caught \in [Requests -> 0 .. Len(layers)]
    /\ got \in [Requests -> {"stream", "buffered", "empty"}]
    /\ rec \in [Requests -> [Recording -> Values]]
    /\ logCtx \in [Requests -> Requests \cup {"root", "none"}]

\* What build() makes sure of: trace is outermost, log outside of the application's
\* layers, and no kind of recording layer is there twice.
Ordered ==
    /\ \A k \in DOMAIN layers : layers[k] = "trace" => k = 1
    /\ \A k, c \in DOMAIN layers : layers[k] = "log" /\ layers[c] = "recover" => k < c
    /\ \A k, l \in DOMAIN layers : layers[k] = layers[l] => k = l

\* A request on its way down has passed no layer it is not inside of, and one that is
\* answered has left them all.
Nested ==
    \A q \in Requests :
        /\ dir[q] \in {"idle", "down"} => \A k \in through[q] : k <= at[q]
        /\ dir[q] = "done" => at[q] = 0

\* A thread has the context of what it polls, and nobody else polls that.
Attached ==
    \A t \in Threads :
        /\ polling[t] = "idle" => ctx[t] = "root"
        /\ \A q \in Requests : polling[t] = q =>
               /\ ctx[t] = ContextOf(q)
               /\ dir[q] \in {"down", "up", "panic"}
               /\ \A u \in Threads : polling[u] = q => u = t

\* What layer k writes when a request with an answer leaves it.
WrittenBy(q, k) ==
    /\ layers[k] = "log" => rec[q].log = status[q]
    /\ layers[k] = "trace" =>
           rec[q].trace = status[q] \/ (rec[q].trace = "lost" /\ tracing # "on")
    /\ layers[k] = "metric" =>
           rec[q].metric = IF 0 < caught[q] /\ caught[q] < k THEN "none" ELSE status[q]

\* Before there is an answer nothing is recorded of it; then by the layers it has left.
Recorded ==
    \A q \in Requests :
        /\ dir[q] \notin {"up", "done"} =>
               rec[q].log = "none" /\ rec[q].metric = "none" /\ caught[q] = 0
        /\ dir[q] \in {"up", "done"} =>
               /\ \A k \in through[q] : k > at[q] => WrittenBy(q, k)
               /\ \A k \in through[q] : k <= at[q] /\ layers[k] = "metric" =>
                      rec[q].metric = "none"
               /\ caught[q] = 0 \/ caught[q] > at[q]

\* A log line is written in the context the request has inside of the log layer.
Logged ==
    \A q \in Requests :
        /\ dir[q] \notin {"up", "done"} => logCtx[q] = "none"
        /\ logCtx[q] # "none" =>
               logCtx[q] = IF \E k \in through[q] : layers[k] = "trace" THEN q ELSE "root"

\* Only a body that broke off is replaced by an empty one.
Kept ==
    \A q \in Requests :
        /\ dir[q] = "idle" => got[q] # "empty"
        /\ got[q] = "empty" => shape[q] = "cut"

IInv == Types /\ Ordered /\ Nested /\ Attached /\ Recorded /\ Logged /\ Kept
-----------------------------------------------------------------------------
\* However many layers the application adds, in whatever order.
LEMMA BuildOrders ==
  ASSUME NEW b \in Builders, layers = Build(b)
  PROVE  layers \in Seq(Kinds) /\ Ordered
<1> DEFINE T == IF b.trace THEN <<"trace">> ELSE << >>
           L == IF b.log THEN <<"log">> ELSE << >>
           R == Reverse(b.mws)
<1> USE LayersAssumption
<1>1. /\ T \in Seq({"trace"}) /\ Len(T) <= 1
      /\ L \in Seq({"log"}) /\ Len(L) <= 1
  <2>1. /\ <<"trace">> \in Seq({"trace"}) /\ Len(<<"trace">>) = 1
        /\ <<"log">> \in Seq({"log"}) /\ Len(<<"log">>) = 1
        /\ << >> \in Seq({"trace"}) /\ << >> \in Seq({"log"}) /\ Len(<< >>) = 0
    OBVIOUS
  <2>2. T = <<"trace">> \/ T = << >>
    OBVIOUS
  <2>3. L = <<"log">> \/ L = << >>
    OBVIOUS
  <2> HIDE DEF T, L
  <2>4. T \in Seq({"trace"}) /\ Len(T) <= 1
    <3>1. CASE T = <<"trace">>
      BY <2>1, <3>1
    <3>2. CASE T = << >>
      BY <2>1, <3>2
    <3> QED
      BY <2>2, <3>1, <3>2
  <2>5. L \in Seq({"log"}) /\ Len(L) <= 1
    <3>1. CASE L = <<"log">>
      BY <2>1, <3>1
    <3>2. CASE L = << >>
      BY <2>1, <3>2
    <3> QED
      BY <2>3, <3>1, <3>2
  <2> QED
    BY <2>4, <2>5
<1>2. R \in Seq({"metric", "recover", "session"})
  BY DEF Reverse
<1>3. \A i, k \in DOMAIN R : R[i] = R[k] => i = k
  BY DEF Reverse, IsInjective
<1>4. layers = (T \o L) \o R
  BY DEF Build
<1> HIDE DEF T, L, R
<1>5. layers \in Seq(Kinds) /\ Len(layers) = Len(T) + Len(L) + Len(R)
  BY <1>1, <1>2, <1>4 DEF Kinds
<1>6. \A k \in DOMAIN layers :
        /\ k <= Len(T) => layers[k] = "trace" /\ k = 1
        /\ k > Len(T) /\ k <= Len(T) + Len(L) => layers[k] = "log" /\ k = Len(T) + 1
        /\ k > Len(T) + Len(L) => /\ k - Len(T) - Len(L) \in DOMAIN R
                                  /\ layers[k] = R[k - Len(T) - Len(L)]
                                  /\ layers[k] \in {"metric", "recover", "session"}
  BY <1>1, <1>2, <1>4, <1>5
<1>7. Ordered
  <2>1. \A k \in DOMAIN layers : k \in Nat /\ Len(T) \in Nat /\ Len(L) \in Nat
    BY <1>1, <1>5
  <2>2. \A k \in DOMAIN layers : layers[k] = "trace" => k = 1
    BY <1>6, <2>1
  <2>3. \A k, c \in DOMAIN layers : layers[k] = "log" /\ layers[c] = "recover" => k < c
    BY <1>6, <2>1
  <2>4. \A k, l \in DOMAIN layers : layers[k] = layers[l] => k = l
    <3> TAKE k, l \in DOMAIN layers
    <3> HAVE layers[k] = layers[l]
    <3>1. CASE k > Len(T) + Len(L)
      <4>1. l > Len(T) + Len(L)
        BY <1>6, <2>1, <3>1
      <4> QED
        BY <1>3, <1>6, <2>1, <3>1, <4>1
    <3>2. CASE k <= Len(T) + Len(L)
      BY <1>6, <2>1, <3>2
    <3> QED
      BY <2>1, <3>1, <3>2
  <2> QED
    BY <2>2, <2>3, <2>4 DEF Ordered
<1> QED
  BY <1>5, <1>7

\* The initial state has all the parts of the invariant.
LEMMA InitInv == Init => IInv
<1> SUFFICES ASSUME Init PROVE IInv
  OBVIOUS
<1> USE DEF Init
<1>1. layers \in Seq(Kinds) /\ Ordered
  BY BuildOrders
<1>2. Types
  BY <1>1 DEF Types, Dirs, Values
<1>3. Nested /\ Kept /\ Logged
  BY DEF Nested, Kept, Logged
<1>4. Attached
  BY LayersAssumption DEF Attached
<1>5. Recorded
  BY DEF Recorded, Recording
<1> QED
  BY <1>1, <1>2, <1>3, <1>4, <1>5 DEF IInv
-----------------------------------------------------------------------------
\* shutdown_xtrace: what was recorded stays true, for the provider never comes back.
LEMMA ShutdownKeeps ==
  ASSUME IInv, tracing' # "on", UNCHANGED <<layers, infoOn, threadVars, requestVars>>
  PROVE  IInv'
<1> USE DEF threadVars, requestVars
<1>1. Types' /\ Ordered' /\ Nested' /\ Logged' /\ Kept'
  BY DEF IInv, Types, Ordered, Nested, Logged, Kept
<1>2. Attached'
  BY DEF IInv, Attached, ContextOf, Traced
<1>3. Recorded'
  BY DEF IInv, Recorded, WrittenBy
<1> QED
  BY <1>1, <1>2, <1>3 DEF IInv

\* A request comes in, or goes away between two polls.
LEMMA ComeAndGo ==
  ASSUME IInv, NEW q \in Requests, (\E s \in Shapes : Arrive(q, s)) \/ Disconnect(q)
  PROVE  IInv'
<1> USE DEF IInv
<1>1. ASSUME NEW s \in Shapes, Arrive(q, s) PROVE IInv'
  <2>1. Types' /\ Ordered'
    BY <1>1 DEF Arrive, Types, Ordered, Dirs, threadVars
  <2>2. Nested' /\ Kept'
    BY <1>1 DEF Arrive, Types, Nested, Kept
  <2>3. Attached'
    BY <1>1 DEF Arrive, Types, Attached, ContextOf, Traced, threadVars
  <2>4. Recorded' /\ Logged'
    BY <1>1 DEF Arrive, Types, Recorded, WrittenBy, Logged
  <2> QED
    BY <2>1, <2>2, <2>3, <2>4
<1>2. CASE Disconnect(q)
  <2>1. /\ rec' \in [Requests -> [Recording -> Values]]
        /\ \A p \in Requests : rec'[p].log = rec[p].log /\ rec'[p].metric = rec[p].metric
        /\ \A p \in Requests \ {q} : rec'[p] = rec[p]
    <3>1. rec' = rec \/ \E v \in Values : rec' = [rec EXCEPT ![q].trace = v]
      BY <1>2 DEF Disconnect, Exported, Values
    <3>2. CASE rec' = rec
      BY <3>2 DEF Types
    <3>3. ASSUME NEW v \in Values, rec' = [rec EXCEPT ![q].trace = v]
          PROVE  /\ rec' \in [Requests -> [Recording -> Values]]
                 /\ \A p \in Requests : rec'[p].log = rec[p].log /\ rec'[p].metric = rec[p].metric
                 /\ \A p \in Requests \ {q} : rec'[p] = rec[p]
      BY <3>3 DEF Types, Recording
    <3> QED
      BY <3>1, <3>2, <3>3
  <2>2. Types' /\ Ordered'
    BY <1>2, <2>1 DEF Disconnect, Types, Ordered, Dirs, threadVars
  <2>3. Nested' /\ Kept' /\ Logged'
    BY <1>2 DEF Disconnect, Types, Nested, Kept, Logged
  <2>4. Attached'
    <3>1. UNCHANGED threadVars /\ \A p \in Requests : ContextOf(p)' = ContextOf(p)
      BY <1>2 DEF Disconnect, ContextOf, Traced
    <3>2. \A p \in Requests \ {q} : dir'[p] = dir[p]
      BY <1>2 DEF Disconnect, Types
    <3>3. \A u \in Threads : polling[u] # q
      BY <1>2 DEF Disconnect
    <3> QED
      BY <3>1, <3>2, <3>3 DEF Attached, threadVars
  <2>5. Recorded'
    BY <1>2, <2>1 DEF Disconnect, Types, Recorded, WrittenBy
  <2> QED
    BY <2>2, <2>3, <2>4, <2>5
<1> QED
  BY <1>1, <1>2

\* A thread takes up a request or lays it down: nothing but its context changes.
LEMMA SwitchKeeps ==
  ASSUME IInv, NEW t \in Threads, (\E q \in Requests : Poll(t, q)) \/ Yield(t)
  PROVE  IInv'
<1> USE LayersAssumption DEF IInv
<1>1. UNCHANGED <<layers, infoOn, tracing, requestVars>>
  BY DEF Poll, Yield
<1>2. Ordered' /\ Nested' /\ Recorded' /\ Logged' /\ Kept'
  BY <1>1 DEF requestVars, Ordered, Nested, Recorded, WrittenBy, Logged, Kept
<1>3. ASSUME NEW q \in Requests, Poll(t, q) PROVE Types' /\ Attached'
  <2>1. ContextOf(q) \in Requests \cup {"root"} /\ \A p \in Requests : ContextOf(p)' = ContextOf(p)
    BY <1>1 DEF ContextOf, Traced, requestVars
  <2>2. Types'
    BY <1>1, <1>3, <2>1 DEF Poll, Types, requestVars
  <2> QED
    BY <1>1, <1>3, <2>1, <2>2 DEF Poll, Types, Attached, requestVars
<1>4. ASSUME Yield(t) PROVE Types' /\ Attached'
  <2>1. \A p \in Requests : ContextOf(p)' = ContextOf(p)
    BY <1>1 DEF ContextOf, Traced, requestVars
  <2>2. Types'
    BY <1>1, <1>4 DEF Yield, Types, requestVars
  <2> QED
    BY <1>1, <1>4, <2>1, <2>2 DEF Yield, Types, Attached, requestVars
<1> QED
  BY <1>2, <1>3, <1>4

\* On the way down a layer is entered: the trace layer attaches its context, which
\* stays the request's for the layers inside.
LEMMA EnterKeeps ==
  ASSUME IInv, NEW t \in Threads, Enter(t)
  PROVE  IInv'
<1> DEFINE q == polling[t]
           k == at[q] + 1
<1> USE LayersAssumption DEF IInv
<1>1. /\ q \in Requests /\ dir[q] = "down" /\ at[q] < Len(layers)
      /\ at' = [at EXCEPT ![q] = k]
      /\ through' = [through EXCEPT ![q] = IF Active(k) THEN @ \cup {k} ELSE @]
      /\ ctx' = [ctx EXCEPT ![t] = IF layers[k] = "trace" /\ Active(k) THEN q ELSE @]
      /\ got' = [got EXCEPT ![q] =
             IF layers[k] = "log" /\ Active(k) /\ ShouldBuffer(shape[q])
             THEN Buffered(shape[q]) ELSE @]
      /\ UNCHANGED <<layers, infoOn, tracing, polling, shape, dir, status, caught, rec, logCtx>>
  BY DEF Enter, Types
<1>2. k \in 1 .. Len(layers) /\ at[q] \in Nat /\ k = at[q] + 1
  BY <1>1 DEF Types
<1> HIDE DEF k
<1>3. \A p \in Requests \ {q} : at'[p] = at[p] /\ through'[p] = through[p] /\ got'[p] = got[p]
  BY <1>1 DEF Types
<1>4. at'[q] = k /\ through'[q] \subseteq through[q] \cup {k} /\ through[q] \subseteq through'[q]
  BY <1>1 DEF Types
<1>5. Types' /\ Ordered'
  <2>1. through' \in [Requests -> SUBSET (1 .. Len(layers))]
    BY <1>1, <1>2 DEF Types
  <2>2. got' \in [Requests -> {"stream", "buffered", "empty"}]
    BY <1>1 DEF Types, Buffered
  <2>3. at' \in [Requests -> 0 .. Len(layers)] /\ ctx' \in [Threads -> Requests \cup {"root"}]
    BY <1>1, <1>2 DEF Types
  <2> QED
    BY <1>1, <2>1, <2>2, <2>3 DEF Types, Ordered
<1>6. Nested'
  <2>1. \A l \in through'[q] : l <= at'[q]
    BY <1>1, <1>2, <1>4 DEF Nested, Types
  <2> QED
    BY <1>1, <1>3, <2>1 DEF Nested
<1>7. Attached'
  <2>1. \A p \in Requests \ {q} : ContextOf(p)' = ContextOf(p)
    BY <1>1, <1>3 DEF ContextOf, Traced
  <2>2. ctx'[t] = ContextOf(q)'
    <3>0. ctx[t] = ContextOf(q) /\ \A l \in through[q] : l \in Nat /\ l <= at[q]
      BY <1>1 DEF Attached, Nested, Types
    <3>1. CASE layers[k] = "trace" /\ Active(k)
      BY <1>1, <1>2, <1>4, <3>1 DEF ContextOf, Traced, Types
    <3>2. CASE ~(layers[k] = "trace" /\ Active(k))
      <4>1. ctx'[t] = ctx[t]
        BY <1>1, <3>2 DEF Types
      <4>2. Traced(q)' <=> Traced(q)
        BY <1>1, <1>2, <1>4, <3>0, <3>2 DEF Traced, Types
      <4> QED
        BY <1>1, <3>0, <4>1, <4>2 DEF ContextOf
    <3> QED
      BY <3>1, <3>2
  <2>3. \A u \in Threads \ {t} : ctx'[u] = ctx[u] /\ polling[u] # q
    BY <1>1 DEF Types, Attached
  <2> QED
    BY <1>1, <2>1, <2>2, <2>3 DEF Attached, Types
<1>8. Recorded' /\ Logged'
  BY <1>1, <1>3 DEF Recorded, WrittenBy, Logged
<1>9. Kept'
  <2>1. got'[q] = "empty" => shape[q] = "cut"
    BY <1>1 DEF Kept, Types, Buffered, ShouldBuffer, IsBinary, Declared
  <2> QED
    BY <1>1, <1>3, <2>1 DEF Kept
<1> QED
  BY <1>5, <1>6, <1>7, <1>8, <1>9

\* The handler answers or panics.
LEMMA HandlerKeeps ==
  ASSUME IInv, NEW t \in Threads, (\E r \in {"ok", "error"} : Handle(t, r)) \/ Panic(t)
  PROVE  IInv'
<1> DEFINE q == polling[t]
<1> USE LayersAssumption DEF IInv
<1>1. /\ q \in Requests /\ dir[q] = "down" /\ at[q] = Len(layers)
      /\ \E d \in {"up", "panic"} : dir' = [dir EXCEPT ![q] = d]
      /\ status' = status \/ \E r \in {"ok", "error"} : status' = [status EXCEPT ![q] = r]
      /\ UNCHANGED <<layers, infoOn, tracing, threadVars, shape, at, through, caught, got, rec, logCtx>>
  BY DEF Handle, Panic, Types
<1>2. \A p \in Requests \ {q} : dir'[p] = dir[p] /\ status'[p] = status[p]
  BY <1>1 DEF Types
<1>3. dir'[q] \in {"up", "panic"}
  BY <1>1 DEF Types
<1>4. Types' /\ Ordered'
  <2>1. status' \in [Requests -> {"none", "ok", "error"}]
    <3>1. CASE status' = status
      BY <3>1 DEF Types
    <3>2. ASSUME NEW r \in {"ok", "error"}, status' = [status EXCEPT ![q] = r]
          PROVE  status' \in [Requests -> {"none", "ok", "error"}]
      BY <3>2 DEF Types
    <3> QED
      BY <1>1, <3>1, <3>2
  <2>2. dir' \in [Requests -> Dirs]
    BY <1>1 DEF Types, Dirs
  <2> QED
    BY <1>1, <2>1, <2>2 DEF Types, Ordered, threadVars
<1>5. Nested' /\ Kept'
  BY <1>1, <1>2, <1>3 DEF Nested, Kept
<1>6. Attached'
  BY <1>1, <1>2, <1>3 DEF Attached, ContextOf, Traced, threadVars
<1>7. Recorded'
  <2>1. \A k \in through[q] : k <= at[q] /\ ~(k > at[q])
    BY <1>1 DEF Types, Nested
  <2> QED
    BY <1>1, <1>2, <1>3, <2>1 DEF Recorded, WrittenBy
<1>8. Logged'
  BY <1>1, <1>2, <1>3 DEF Logged
<1> QED
  BY <1>4, <1>5, <1>6, <1>7, <1>8
\* A layer is left with an answer: it writes, and the context goes with its guard.
LEMMA LeaveKeeps ==
  ASSUME IInv, NEW t \in Threads, Leave(t),
         NEW q \in Requests, polling[t] = q, NEW k \in Nat, at[q] = k
  PROVE  IInv'
<1> USE LayersAssumption DEF IInv
<1>1. /\ q \in Requests /\ dir[q] = "up" /\ k > 0
      /\ at' = [at EXCEPT ![q] = k - 1]
      /\ ctx' = [ctx EXCEPT ![t] = IF layers[k] = "trace" THEN "root" ELSE @]
      /\ rec' = IF k \in through[q] /\ layers[k] \in Recording
                THEN [rec EXCEPT ![q][layers[k]] = Written(layers[k], status[q])] ELSE rec
      /\ logCtx' = IF k \in through[q] /\ layers[k] = "log"
                   THEN [logCtx EXCEPT ![q] = ctx[t]] ELSE logCtx
      /\ UNCHANGED <<layers, infoOn, tracing, polling, shape, dir, through, status, caught, got>>
  BY DEF Leave, Types
<1>2. k \in 1 .. Len(layers) /\ k \in Nat /\ layers[k] \in Kinds
  BY <1>1 DEF Types
<1>3. k = at[q] /\ polling[t] = q /\ ctx[t] = ContextOf(q)
  BY <1>1 DEF Attached
<1>4. at'[q] = k - 1 /\ \A p \in Requests \ {q} : at'[p] = at[p]
  BY <1>1 DEF Types
<1>5. rec' \in [Requests -> [Recording -> Values]] /\ \A p \in Requests \ {q} : rec'[p] = rec[p]
  BY <1>1 DEF Types, Written, Exported, Values
<1>6. logCtx' \in [Requests -> Requests \cup {"root", "none"}]
      /\ \A p \in Requests \ {q} : logCtx'[p] = logCtx[p]
  BY <1>1 DEF Types
<1>7. Types' /\ Ordered'
  <2>1. at' \in [Requests -> 0 .. Len(layers)] /\ ctx' \in [Threads -> Requests \cup {"root"}]
    BY <1>1, <1>2 DEF Types
  <2> QED
    BY <1>1, <1>5, <1>6, <2>1 DEF Types, Ordered
<1>8. Nested' /\ Kept'
  BY <1>1, <1>4 DEF Nested, Kept
<1>9. Attached'
  <2>1. \A p \in Requests \ {q} : ContextOf(p)' = ContextOf(p)
    BY <1>1, <1>4 DEF ContextOf, Traced
  <2>2. ctx'[t] = ContextOf(q)'
    <3>1. CASE layers[k] = "trace"
      <4>1. \A l \in through[q] : layers[l] = "trace" => l = k
        BY <1>1, <1>2, <3>1 DEF Ordered, Types
      <4> QED
        BY <1>1, <1>2, <1>4, <3>1, <4>1 DEF ContextOf, Traced, Types
    <3>2. CASE layers[k] # "trace"
      <4>1. ctx'[t] = ctx[t]
        BY <1>1, <3>2 DEF Types
      <4>2. \A l \in through[q] : layers[l] = "trace" => (l <= k <=> l <= k - 1)
        BY <1>2, <3>2 DEF Types
      <4> QED
        BY <1>1, <1>3, <1>4, <4>1, <4>2 DEF ContextOf, Traced
    <3> QED
      BY <3>1, <3>2
  <2>3. \A u \in Threads \ {t} : ctx'[u] = ctx[u] /\ polling[u] # q
    BY <1>1 DEF Types, Attached
  <2> QED
    BY <1>1, <2>1, <2>2, <2>3 DEF Attached, Types
<1>10. Recorded'
  <2>1. \A l \in through[q] : l > k => WrittenBy(q, l)
    BY <1>1, <1>3 DEF Recorded
  <2>2. ASSUME k \in through[q] PROVE WrittenBy(q, k)'
    <3>1. CASE layers[k] \in Recording
      <4>1. rec'[q][layers[k]] = Written(layers[k], status[q])
        BY <1>1, <2>2, <3>1 DEF Types
      <4>2. caught[q] = 0 \/ caught[q] > k
        BY <1>1, <1>3 DEF Recorded
      <4>3. ~(0 < caught[q] /\ caught[q] < k)
        BY <1>1, <1>2, <4>2 DEF Types
      <4> QED
        BY <1>1, <4>1, <4>3 DEF WrittenBy, Written, Exported
    <3>2. CASE layers[k] \notin Recording
      BY <1>1, <3>2 DEF WrittenBy, Recording
    <3> QED
      BY <3>1, <3>2
  <2>3. ASSUME NEW l \in through[q], l > k PROVE WrittenBy(q, l)'
    <3>1. l \in DOMAIN layers /\ layers[l] # layers[k]
      BY <1>1, <1>2, <2>3 DEF Ordered, Types
    <3>2. layers[l] \in Recording => rec'[q][layers[l]] = rec[q][layers[l]]
      BY <1>1, <3>1 DEF Types
    <3> QED
      BY <1>1, <2>1, <2>3, <3>2 DEF WrittenBy, Recording
  <2>4. ASSUME NEW l \in through[q], l <= k - 1, layers[l] = "metric" PROVE rec'[q].metric = "none"
    <3>1. l \in DOMAIN layers /\ layers[l] # layers[k] /\ l <= k
      BY <1>1, <1>2, <2>4 DEF Ordered, Types
    <3>2. rec[q].metric = "none"
      BY <1>1, <1>3, <2>4, <3>1 DEF Recorded
    <3> QED
      BY <1>1, <2>4, <3>1, <3>2 DEF Types, Recording
  <2>5. caught[q] = 0 \/ caught[q] > k - 1
    BY <1>1, <1>2, <1>3 DEF Recorded, Types
  <2>6. \A l \in through[q] : l > k - 1 <=> l = k \/ l > k
    BY <1>1, <1>2 DEF Types
  <2>7. /\ \A l \in through'[q] : l > at'[q] => WrittenBy(q, l)'
        /\ \A l \in through'[q] : l <= at'[q] /\ layers'[l] = "metric" => rec'[q].metric = "none"
        /\ caught'[q] = 0 \/ caught'[q] > at'[q]
    BY <1>1, <1>4, <2>2, <2>3, <2>4, <2>5, <2>6
  <2>8. \A p \in Requests \ {q} : \A l : WrittenBy(p, l)' <=> WrittenBy(p, l)
    BY <1>1, <1>5 DEF WrittenBy
  <2> QED
    BY <1>1, <1>4, <1>5, <2>7, <2>8 DEF Recorded
<1>11. Logged'
  <2>1. CASE k \in through[q] /\ layers[k] = "log"
    <3>1. logCtx'[q] = ContextOf(q)
      BY <1>1, <1>3, <2>1 DEF Types
    <3>2. \A l \in through[q] : layers[l] = "trace" => l <= k
      BY <1>1, <1>2 DEF Ordered, Types
    <3>3. logCtx'[q] = IF \E l \in through'[q] : layers'[l] = "trace" THEN q ELSE "root"
      BY <1>1, <1>3, <3>1, <3>2 DEF ContextOf, Traced
    <3> QED
      BY <1>1, <1>6, <3>3 DEF Logged
  <2>2. CASE ~(k \in through[q] /\ layers[k] = "log")
    BY <1>1, <2>2 DEF Logged
  <2> QED
    BY <2>1, <2>2
<1> QED
  BY <1>7, <1>8, <1>9, <1>10, <1>11

\* A panic passes a layer: only recover makes an answer of it, inside of which nothing
\* was counted, and outside of which everything is still to come.
LEMMA UnwindKeeps ==
  ASSUME IInv, NEW t \in Threads, Unwind(t),
         NEW q \in Requests, polling[t] = q, NEW k \in Nat, at[q] = k
  PROVE  IInv'
<1> USE LayersAssumption DEF IInv
<1>1. /\ q \in Requests /\ dir[q] = "panic" /\ k > 0
      /\ at' = [at EXCEPT ![q] = k - 1]
      /\ IF layers[k] = "recover"
         THEN /\ dir' = [dir EXCEPT ![q] = "up"]
              /\ status' = [status EXCEPT ![q] = "error"]
              /\ caught' = [caught EXCEPT ![q] = k]
         ELSE UNCHANGED <<dir, status, caught>>
      /\ ctx' = [ctx EXCEPT ![t] = IF layers[k] = "trace" THEN "root" ELSE @]
      /\ rec' = IF k \in through[q] /\ layers[k] = "trace"
                THEN [rec EXCEPT ![q].trace = Exported("bare")] ELSE rec
      /\ UNCHANGED <<layers, infoOn, tracing, polling, shape, through, got, logCtx>>
  BY DEF Unwind, Types
<1>2. k \in 1 .. Len(layers) /\ k \in Nat /\ layers[k] \in Kinds
  BY <1>1 DEF Types
<1>3. k = at[q] /\ polling[t] = q /\ ctx[t] = ContextOf(q)
  BY <1>1 DEF Attached
<1>4. at'[q] = k - 1 /\ \A p \in Requests \ {q} : at'[p] = at[p]
  BY <1>1 DEF Types
<1>5. /\ rec' \in [Requests -> [Recording -> Values]]
      /\ \A p \in Requests \ {q} : rec'[p] = rec[p]
      /\ rec'[q].log = rec[q].log /\ rec'[q].metric = rec[q].metric
  <2>1. Exported("bare") \in Values
    BY DEF Exported, Values
  <2>2. CASE rec' = rec
    BY <1>1, <2>2 DEF Types
  <2>3. ASSUME NEW v \in Values, rec' = [rec EXCEPT ![q].trace = v]
        PROVE  /\ rec' \in [Requests -> [Recording -> Values]]
               /\ \A p \in Requests \ {q} : rec'[p] = rec[p]
               /\ rec'[q].log = rec[q].log /\ rec'[q].metric = rec[q].metric
    <3>1. rec \in [Requests -> [Recording -> Values]]
      BY DEF Types
    <3>2. "trace" \in Recording /\ "log" \in Recording /\ "metric" \in Recording
      BY DEF Recording
    <3>3. rec' \in [Requests -> [Recording -> Values]]
      BY <2>3, <3>1, <3>2
    <3> QED
      BY <2>3, <3>1, <3>2, <3>3
  <2> QED
    BY <1>1, <2>1, <2>2, <2>3
<1>6. /\ dir'[q] = (IF layers[k] = "recover" THEN "up" ELSE "panic")
      /\ \A p \in Requests \ {q} : dir'[p] = dir[p] /\ status'[p] = status[p] /\ caught'[p] = caught[p]
  BY <1>1 DEF Types
<1>7. Types' /\ Ordered'
  <2>1. at' \in [Requests -> 0 .. Len(layers)] /\ ctx' \in [Threads -> Requests \cup {"root"}]
    BY <1>1, <1>2 DEF Types
  <2>2. /\ dir' \in [Requests -> Dirs] /\ status' \in [Requests -> {"none", "ok", "error"}]
        /\ caught' \in [Requests -> 0 .. Len(layers)]
    <3>1. CASE layers[k] = "recover"
      <4>1. /\ dir' = [dir EXCEPT ![q] = "up"] /\ status' = [status EXCEPT ![q] = "error"]
            /\ caught' = [caught EXCEPT ![q] = k]
        BY <1>1, <3>1
      <4>2. k \in 0 .. Len(layers)
        BY <1>1, <1>2 DEF Types
      <4> QED
        BY <4>1, <4>2 DEF Types, Dirs
    <3>2. CASE layers[k] # "recover"
      BY <1>1, <3>2 DEF Types
    <3> QED
      BY <3>1, <3>2
  <2> QED
    <3>1. UNCHANGED <<layers, polling, shape, through, got, logCtx>>
      BY <1>1
    <3> QED
      BY <1>5, <2>1, <2>2, <3>1 DEF Types, Ordered
<1>8. Nested' /\ Kept'
  BY <1>1, <1>4, <1>6 DEF Nested, Kept
<1>9. Attached'
  <2>1. \A p \in Requests \ {q} : ContextOf(p)' = ContextOf(p)
    BY <1>1, <1>4 DEF ContextOf, Traced
  <2>2. ctx'[t] = ContextOf(q)'
    <3>1. CASE layers[k] = "trace"
      <4>1. \A l \in through[q] : layers[l] = "trace" => l = k
        BY <1>1, <1>2, <3>1 DEF Ordered, Types
      <4> QED
        BY <1>1, <1>2, <1>4, <3>1, <4>1 DEF ContextOf, Traced, Types
    <3>2. CASE layers[k] # "trace"
      <4>1. ctx'[t] = ctx[t]
        BY <1>1, <3>2 DEF Types
      <4>2. \A l \in through[q] : layers[l] = "trace" => (l <= k <=> l <= k - 1)
        BY <1>2, <3>2 DEF Types
      <4> QED
        BY <1>1, <1>3, <1>4, <4>1, <4>2 DEF ContextOf, Traced
    <3> QED
      BY <3>1, <3>2
  <2>3. \A u \in Threads \ {t} : ctx'[u] = ctx[u] /\ polling[u] # q
    BY <1>1 DEF Types, Attached
  <2>4. dir'[q] \in {"up", "panic"}
    BY <1>6
  <2> QED
    BY <1>1, <1>6, <2>1, <2>2, <2>3, <2>4 DEF Attached, Types
<1>10. Recorded'
  <2>1. rec[q].log = "none" /\ rec[q].metric = "none" /\ caught[q] = 0
    BY <1>1 DEF Recorded
  <2>2. \A p \in Requests \ {q} : \A l : WrittenBy(p, l)' <=> WrittenBy(p, l)
    BY <1>1, <1>5, <1>6 DEF WrittenBy
  <2>3. CASE layers[k] # "recover"
    BY <1>1, <1>4, <1>5, <1>6, <2>1, <2>2, <2>3 DEF Recorded
  <2>4. CASE layers[k] = "recover"
    <3>1. caught'[q] = k
      BY <1>1, <2>4 DEF Types
    <3>2. ASSUME NEW l \in through[q], l > k - 1 PROVE WrittenBy(q, l)'
      <4>1. l \in 1 .. Len(layers) /\ l >= k
        BY <1>1, <1>2, <3>2 DEF Types
      <4>2. layers[l] # "log" /\ layers[l] # "trace"
        BY <1>2, <2>4, <4>1 DEF Ordered
      <4>3. layers[l] = "metric" => k < l /\ 0 < k
        BY <1>2, <2>4, <4>1
      <4> QED
        BY <1>1, <1>5, <2>1, <3>1, <4>2, <4>3 DEF WrittenBy
    <3>3. k > k - 1
      BY <1>2
    <3> QED
      BY <1>1, <1>4, <1>5, <1>6, <2>1, <2>2, <3>1, <3>2, <3>3 DEF Recorded
  <2> QED
    BY <2>3, <2>4
<1>11. Logged'
  BY <1>1, <1>6 DEF Logged
<1> QED
  BY <1>7, <1>8, <1>9, <1>10, <1>11

\* The answer goes out, or the panic reaches the connection: the thread is free, and
\* its context was the root's, as no layer is around it.
LEMMA FinishKeeps ==
  ASSUME IInv, NEW t \in Threads, Finish(t), NEW q \in Requests, polling[t] = q
  PROVE  IInv'
<1> USE LayersAssumption DEF IInv
<1>1. /\ q \in Requests /\ at[q] = 0 /\ dir[q] \in {"up", "panic"}
      /\ dir' = [dir EXCEPT ![q] = IF @ = "up" THEN "done" ELSE "aborted"]
      /\ polling' = [polling EXCEPT ![t] = "idle"]
      /\ UNCHANGED <<layers, infoOn, tracing, ctx, shape, at, through, status, caught, got, rec, logCtx>>
  BY DEF Finish, Types
<1>2. ctx[t] = "root"
  BY <1>1 DEF Attached, ContextOf, Traced, Types
<1>4. dir'[q] = (IF dir[q] = "up" THEN "done" ELSE "aborted") /\ \A s \in Requests \ {q} : dir'[s] = dir[s]
  BY <1>1 DEF Types
<1>5. Types' /\ Ordered'
  <2>1. dir' \in [Requests -> Dirs] /\ polling' \in [Threads -> Requests \cup {"idle"}]
    BY <1>1 DEF Types, Dirs
  <2> QED
    BY <1>1, <2>1 DEF Types, Ordered
<1>6. Nested' /\ Kept' /\ Logged'
  BY <1>1, <1>4 DEF Nested, Kept, Logged
<1>7. Attached'
  <2>1. polling'[t] = "idle" /\ \A u \in Threads \ {t} : polling'[u] = polling[u] /\ polling[u] # q
    BY <1>1 DEF Types, Attached
  <2>2. \A s \in Requests : ContextOf(s)' = ContextOf(s)
    BY <1>1 DEF ContextOf, Traced
  <2> QED
    BY <1>1, <1>2, <1>4, <2>1, <2>2 DEF Attached
<1>8. Recorded'
  BY <1>1, <1>4 DEF Recorded, WrittenBy
<1> QED
  BY <1>5, <1>6, <1>7, <1>8
-----------------------------------------------------------------------------
\* Every step keeps the invariant.
LEMMA Invariance == IInv /\ [Next]_vars => IInv'
<1> SUFFICES ASSUME IInv, [Next]_vars PROVE IInv'
  OBVIOUS
<1>1. CASE TakeProvider \/ ClearFlag
  BY <1>1, ShutdownKeeps DEF TakeProvider, ClearFlag
<1>2. CASE UNCHANGED vars
  BY <1>2 DEF vars, threadVars, requestVars, IInv, Types, Ordered, Nested, Attached, ContextOf,
              Traced, Recorded, WrittenBy, Logged, Kept
<1>3. ASSUME NEW t \in Threads, Leave(t) \/ Unwind(t) \/ Finish(t) PROVE IInv'
  <2>1. polling[t] \in Requests /\ at[polling[t]] \in Nat
    BY <1>3 DEF Leave, Unwind, Finish, IInv, Types
  <2> QED
    BY <1>3, <2>1, LeaveKeeps, UnwindKeeps, FinishKeeps
<1> QED
  BY <1>1, <1>2, <1>3, ComeAndGo, SwitchKeeps, EnterKeeps, HandlerKeeps DEF Next

\* Whatever threads poll a request and whatever they polled before, its handler sees
\* its own trace context.
THEOREM ContextIsOwn == Spec => []OwnContext
<1>1. IInv => OwnContext
  <2> SUFFICES ASSUME IInv, NEW t \in Threads, NEW q \in Requests,
                      polling[t] = q, dir[q] = "down", at[q] = Len(layers)
               PROVE  Traced(q) <=> \E k \in through[q] : layers[k] = "trace"
    BY DEF IInv, Attached, OwnContext, ContextOf
  <2> QED
    BY DEF IInv, Types, Traced
<1> QED
  BY <1>1, InitInv, Invariance, PTL DEF Spec

\* Log, span and metric agree with the answer, for any middlewares of the application
\* in any order.
THEOREM RecordsAlwaysAgree == Spec => []RecordsAgree
<1>1. IInv => RecordsAgree
  <2> SUFFICES ASSUME IInv, NEW q \in Requests
               PROVE  /\ dir[q] = "done" => \A k \in through[q] : WrittenBy(q, k)
                      /\ dir[q] \in {"aborted", "dropped"} =>
                             rec[q].log = "none" /\ rec[q].metric = "none"
    BY DEF RecordsAgree, WrittenBy
  <2>1. ASSUME dir[q] = "done", NEW k \in through[q] PROVE WrittenBy(q, k)
    <3>1. k > at[q]
      BY <2>1 DEF IInv, Types, Nested
    <3> QED
      BY <2>1, <3>1 DEF IInv, Recorded
  <2> QED
    BY <2>1 DEF IInv, Recorded
<1> QED
  BY <1>1, InitInv, Invariance, PTL DEF Spec

\* Every log line of a traced request is in its trace.
THEOREM LogsAreTraced == Spec => []LogInTrace
<1>1. IInv => LogInTrace
  BY DEF IInv, Logged, LogInTrace
<1> QED
  BY <1>1, InitInv, Invariance, PTL DEF Spec

\* The log layer loses no body but one that broke off.
THEOREM BodiesReach == Spec => []BodyReaches
<1>1. IInv => BodyReaches
  BY DEF IInv, Kept, BodyReaches
<1> QED
  BY <1>1, InitInv, Invariance, PTL DEF Spec
=============================================================================
