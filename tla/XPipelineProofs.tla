-------------------------- MODULE XPipelineProofs --------------------------
(***************************************************************************)
(* Proofs about the pipeline, for any number of processors, buffer size    *)
(* and number of frames: the result is complete, nothing is lost as long   *)
(* as nobody leaves early, and the chain is a stream of bounded capacity.  *)
(***************************************************************************)
EXTENDS XPipeline, SequenceTheorems, FiniteSetTheorems, WellFoundedInduction, TLAPS

\* Induction over the naturals, for a set in place of a predicate: a set that is not
\* all of them would leave out a least one.
LEMMA SetInduction ==
  ASSUME NEW S, 0 \in S, \A n \in Nat : n \in S => n + 1 \in S
  PROVE  \A n \in Nat : n \in S
<1> DEFINE R == OpToRel(<, Nat)
           T == Nat \ S
<1>1. IsWellFoundedOn(R, Nat)
  BY NatLessThanWellFounded
<1>2. \A x, y \in Nat : x < y => <<x, y>> \in R
  BY DEF OpToRel
<1> HIDE DEF R
<1>3. SUFFICES ASSUME T # {} PROVE FALSE
  OBVIOUS
<1>4. PICK x \in T : \A y \in T : ~ (<<y, x>> \in R)
  <2>1. T \subseteq Nat
    OBVIOUS
  <2> HIDE DEF T
  <2> QED  BY <1>1, <1>3, <2>1, WFMin
<1>5. x \in Nat /\ x # 0 /\ x - 1 \in Nat /\ x - 1 < x /\ (x - 1) + 1 = x
  OBVIOUS
<1>6. x - 1 \in S
  BY <1>2, <1>4, <1>5
<1> QED  BY <1>5, <1>6
-----------------------------------------------------------------------------
\* Concatenation of frames is associative (a case of the library's theorem).
LEMMA Assoc == \A s, t, u \in Seq(Nat) : (s \o t) \o u = s \o (t \o u)
BY ConcatAssociative

\* The head and the tail of a concatenation are those of its first part.
LEMMA HeadTailConcat ==
  \A s, t \in Seq(Nat) : s # << >> => /\ s \o t # << >>
                                      /\ Head(s \o t) = Head(s)
                                      /\ Tail(s \o t) = Tail(s) \o t
<1> SUFFICES ASSUME NEW s \in Seq(Nat), NEW t \in Seq(Nat), s # << >>
             PROVE  /\ s \o t # << >>
                    /\ Head(s \o t) = Head(s)
                    /\ Tail(s \o t) = Tail(s) \o t
  OBVIOUS
<1> DEFINE u == s \o t
           v == Tail(s)
           w == Tail(u)
           x == v \o t
           m == Len(s)
           n == Len(t)
<1>1. /\ m \in Nat \ {0} /\ n \in Nat
      /\ u \in Seq(Nat) /\ Len(u) = m + n
      /\ \A i \in 1 .. m + n : u[i] = IF i <= m THEN s[i] ELSE t[i - m]
  BY ConcatProperties
<1>2. u # << >>
  BY <1>1
<1>3. v \in Seq(Nat) /\ Len(v) = m - 1 /\ \A i \in 1 .. m - 1 : v[i] = s[i + 1]
  BY HeadTailProperties
<1> HIDE DEF u, v
<1>4. w \in Seq(Nat) /\ Len(w) = m + n - 1 /\ \A i \in 1 .. m + n - 1 : w[i] = u[i + 1]
  BY <1>1, <1>2, HeadTailProperties
<1>5. /\ x \in Seq(Nat) /\ Len(x) = m - 1 + n
      /\ \A i \in 1 .. m - 1 + n : x[i] = IF i <= m - 1 THEN v[i] ELSE t[i - (m - 1)]
  <2>1. /\ x \in Seq(Nat) /\ Len(x) = Len(v) + n
        /\ \A i \in 1 .. Len(v) + n : x[i] = IF i <= Len(v) THEN v[i] ELSE t[i - Len(v)]
    BY ONLY <1>3, t \in Seq(Nat), ConcatProperties
  <2> HIDE DEF x, m, n
  <2> QED  BY ONLY <1>3, <2>1
<1>6. Head(u) = Head(s)
  <2>1. Head(u) = u[1] /\ Head(s) = s[1]
    BY DEF u
  <2> QED  BY <1>1, <2>1
<1> HIDE DEF w, x, m, n
<1>7. ASSUME NEW i \in 1 .. m + n - 1 PROVE w[i] = x[i]
  <2>1. w[i] = IF i + 1 <= m THEN s[i + 1] ELSE t[(i + 1) - m]
    <3>1. i + 1 \in 1 .. m + n
      BY ONLY <1>1, i \in 1 .. m + n - 1
    <3>2. w[i] = u[i + 1]
      BY ONLY <1>4, i \in 1 .. m + n - 1
    <3>3. u[i + 1] = IF i + 1 <= m THEN s[i + 1] ELSE t[(i + 1) - m]
      BY ONLY <1>1, <3>1
    <3> QED  BY ONLY <3>2, <3>3
  <2>2. x[i] = IF i <= m - 1 THEN v[i] ELSE t[i - (m - 1)]
    BY ONLY <1>1, <1>5, i \in 1 .. m + n - 1
  <2>3. (i + 1) - m = i - (m - 1)
    BY ONLY <1>1, i \in 1 .. m + n - 1
  <2> QED  BY ONLY <1>1, <1>3, <2>1, <2>2, <2>3, i \in 1 .. m + n - 1
<1>8. Len(w) = Len(x) /\ 1 .. Len(w) = 1 .. m + n - 1
  BY ONLY <1>1, <1>4, <1>5
<1>9. w = x
  BY ONLY <1>4, <1>5, <1>7, <1>8, SeqEqual
<1> QED  BY ONLY <1>2, <1>6, <1>9 DEF u, v, w, x

-----------------------------------------------------------------------------
(* What is in a channel and behind it: the recursion and what it is good for. *)

\* b gives, for every channel up to n, the frames in it and behind it.
IsBehind(b, q, h, n) ==
    b = [c \in 0 .. n |-> IF c = 0 THEN q[0] ELSE q[c] \o h[c] \o b[c - 1]]

\* There is such a function for a chain of any length.
LEMMA BehindExists ==
  ASSUME NEW q, NEW h, NEW n \in Nat
  PROVE  \E b : IsBehind(b, q, h, n)
<1> DEFINE S == {m \in Nat : \E b : IsBehind(b, q, h, m)}
<1>1. 0 \in S
  <2> DEFINE b == [c \in 0 .. 0 |-> q[0]]
  <2>1. IsBehind(b, q, h, 0)
    BY DEF IsBehind
  <2> QED  BY <2>1
<1>2. ASSUME NEW m \in Nat, m \in S PROVE m + 1 \in S
  <2>1. PICK b : IsBehind(b, q, h, m)
    BY <1>2
  <2> DEFINE d == [c \in 0 .. m + 1 |-> IF c <= m THEN b[c] ELSE q[c] \o h[c] \o b[c - 1]]
             e == [c \in 0 .. m + 1 |-> IF c = 0 THEN q[0] ELSE q[c] \o h[c] \o d[c - 1]]
  <2>2. ASSUME NEW c \in 0 .. m + 1 PROVE d[c] = e[c]
    <3>1. CASE c = 0
      BY <2>1, <3>1 DEF IsBehind
    <3>2. CASE c \in 1 .. m
      <4>1. b[c] = q[c] \o h[c] \o b[c - 1]
        BY <2>1, <3>2 DEF IsBehind
      <4> QED  BY <3>2, <4>1
    <3>3. CASE c = m + 1
      BY <3>3
    <3> QED  BY <3>1, <3>2, <3>3
  <2>3. d = e
    BY <2>2
  <2>4. IsBehind(d, q, h, m + 1)
    <3> HIDE DEF d
    <3> QED  BY <2>3 DEF IsBehind
  <2> QED  BY <2>4
<1> HIDE DEF S
<1>3. \A m \in Nat : m \in S
  BY <1>1, <1>2, SetInduction
<1> QED  BY <1>3 DEF S

\* Behind computes it.
LEMMA BehindIs ==
  ASSUME NEW n \in Nat, NEW q, NEW h, DOMAIN q = 0 .. n
  PROVE  /\ Behind(q, h)[0] = q[0]
         /\ \A c \in 1 .. n : Behind(q, h)[c] = q[c] \o h[c] \o Behind(q, h)[c - 1]
<1>1. Behind(q, h) = CHOOSE b : IsBehind(b, q, h, n)
  BY DEF Behind, IsBehind
<1>2. IsBehind(Behind(q, h), q, h, n)
  BY <1>1, BehindExists
<1> HIDE <1>1
<1> QED  BY <1>2 DEF IsBehind

\* q and h hold, for the n + 1 channels and n hands of a chain, sequences of frames.
IsChain(q, h, n) ==
    /\ DOMAIN q = 0 .. n /\ DOMAIN h = 1 .. n
    /\ \A c \in 0 .. n : q[c] \in Seq(Nat)
    /\ \A c \in 1 .. n : h[c] \in Seq(Nat)

\* Two chains agree on the channels and hands up to m; or beyond m, up to n.
SameUpTo(q, h, r, g, m) ==
    (\A c \in 0 .. m : q[c] = r[c]) /\ \A c \in 1 .. m : h[c] = g[c]

SameBeyond(q, h, r, g, m, n) == \A c \in m + 1 .. n : q[c] = r[c] /\ h[c] = g[c]

\* What is behind n is, for b and for d, the same frames A before what is behind m.
SameFront(b, d, m, n) ==
    \E A \in Seq(Nat) : b[n] = A \o b[m] /\ d[n] = A \o d[m]

\* What is behind a channel is a sequence of frames.
LEMMA BehindType ==
  ASSUME NEW n \in Nat, NEW q, NEW h, IsChain(q, h, n)
  PROVE  \A c \in 0 .. n : Behind(q, h)[c] \in Seq(Nat)
<1> DEFINE b == Behind(q, h)
           S == {c \in Nat : c <= n => b[c] \in Seq(Nat)}
<1>0. DOMAIN q = 0 .. n
  BY DEF IsChain
<1>1. b[0] = q[0] /\ \A c \in 1 .. n : b[c] = q[c] \o h[c] \o b[c - 1]
  BY ONLY <1>0, n \in Nat, BehindIs, SMTT(30)
<1> HIDE DEF b
<1>2. 0 \in S
  <2>1. b[0] = q[0] /\ 0 \in 0 .. n
    BY <1>1
  <2>2. b[0] \in Seq(Nat)
    BY <2>1 DEF IsChain
  <2> QED  BY ONLY <2>2
<1>3. ASSUME NEW c \in Nat, c \in S PROVE c + 1 \in S
  <2>1. SUFFICES ASSUME c + 1 <= n PROVE b[c + 1] \in Seq(Nat)
    OBVIOUS
  <2>2. c + 1 \in 1 .. n /\ c + 1 \in 0 .. n /\ (c + 1) - 1 = c
    BY <2>1
  <2>3. b[c + 1] = q[c + 1] \o h[c + 1] \o b[c]
    BY <1>1, <2>2
  <2>4. q[c + 1] \in Seq(Nat) /\ h[c + 1] \in Seq(Nat) /\ b[c] \in Seq(Nat)
    BY <1>3, <2>1, <2>2 DEF IsChain
  <2> QED  BY <2>3, <2>4
<1> HIDE DEF S
<1>4. \A c \in Nat : c \in S
  BY <1>2, <1>3, SetInduction
<1> QED  BY <1>4 DEF S, b

\* There are no more of them than the channels and hands behind it hold.
LEMMA BehindBound ==
  ASSUME NEW D \in Nat, NEW n \in Nat, NEW m \in 0 .. n, NEW q, NEW h,
         IsChain(q, h, n), \A c \in 1 .. m : Len(q[c]) + Len(h[c]) <= D
  PROVE  \A c \in 0 .. m : Len(Behind(q, h)[c]) <= Len(q[0]) + c * D
<1> DEFINE b == Behind(q, h)
           P(c) == Len(b[c]) <= Len(q[0]) + c * D
           S == {c \in Nat : c <= m => P(c)}
<1>0. DOMAIN q = 0 .. n
  BY DEF IsChain
<1>1. b[0] = q[0] /\ \A c \in 1 .. n : b[c] = q[c] \o h[c] \o b[c - 1]
  BY ONLY <1>0, n \in Nat, BehindIs, SMTT(30)
<1>2. \A c \in 0 .. n : b[c] \in Seq(Nat) /\ q[c] \in Seq(Nat)
  BY BehindType DEF IsChain
<1> HIDE DEF b
<1>3. P(0)
  <2>1. Len(q[0]) \in Nat
    BY <1>2
  <2>2. \A l \in Nat : l <= l + 0 * D
    OBVIOUS
  <2> QED  BY ONLY <1>1, <2>1, <2>2, Zenon
<1>4. ASSUME NEW c \in Nat, P(c), c + 1 <= m PROVE P(c + 1)
  <2>1. /\ c + 1 \in 1 .. n /\ c + 1 \in 0 .. n /\ c + 1 \in 1 .. m
        /\ c \in 0 .. n /\ 0 \in 0 .. n /\ (c + 1) - 1 = c
    BY <1>4
  <2>2. b[c + 1] = q[c + 1] \o h[c + 1] \o b[c]
    BY <1>1, <2>1
  <2>3. /\ q[0] \in Seq(Nat) /\ q[c + 1] \in Seq(Nat) /\ h[c + 1] \in Seq(Nat)
        /\ b[c] \in Seq(Nat)
    BY <1>2, <2>1 DEF IsChain
  <2>4. Len(b[c + 1]) = Len(q[c + 1]) + Len(h[c + 1]) + Len(b[c])
    BY ONLY <2>2, <2>3
  <2>5. Len(q[c + 1]) + Len(h[c + 1]) <= D
    BY <2>1
  <2>6. /\ Len(q[0]) \in Nat /\ Len(q[c + 1]) \in Nat /\ Len(h[c + 1]) \in Nat
        /\ Len(b[c]) \in Nat
    BY <2>3, LenProperties
  <2>7. \A l, u, v, w \in Nat : u + v <= D /\ w <= l + c * D
            => u + v + w <= l + (c + 1) * D
    BY ONLY D \in Nat, c \in Nat
  <2> QED  BY ONLY <1>4, <2>4, <2>5, <2>6, <2>7, Zenon
<1> HIDE DEF P
<1>5. 0 \in S /\ \A c \in Nat : c \in S => c + 1 \in S
  BY <1>3, <1>4
<1> HIDE DEF S
<1>6. \A c \in Nat : c \in S
  BY ONLY <1>5, SetInduction
<1>7. \A c \in 0 .. m : P(c)
  BY <1>6 DEF S
<1> QED  BY <1>7 DEF P, b

\* It depends on nothing further on in the chain.
LEMMA BehindBefore ==
  ASSUME NEW n \in Nat, NEW m \in 0 .. n, NEW q, NEW h, NEW r, NEW g,
         DOMAIN q = 0 .. n, DOMAIN r = 0 .. n, SameUpTo(q, h, r, g, m)
  PROVE  \A c \in 0 .. m : Behind(q, h)[c] = Behind(r, g)[c]
<1> DEFINE b == Behind(q, h)
           d == Behind(r, g)
           S == {c \in Nat : c <= m => b[c] = d[c]}
<1>1. b[0] = q[0] /\ \A c \in 1 .. n : b[c] = q[c] \o h[c] \o b[c - 1]
  BY BehindIs
<1>2. d[0] = r[0] /\ \A c \in 1 .. n : d[c] = r[c] \o g[c] \o d[c - 1]
  BY BehindIs
<1> HIDE DEF b, d
<1>3. 0 \in S
  BY <1>1, <1>2 DEF SameUpTo
<1>4. ASSUME NEW c \in Nat, c \in S PROVE c + 1 \in S
  <2>1. SUFFICES ASSUME c + 1 <= m PROVE b[c + 1] = d[c + 1]
    OBVIOUS
  <2>2. c + 1 \in 1 .. m /\ c + 1 \in 1 .. n /\ c + 1 \in 0 .. m /\ (c + 1) - 1 = c
    BY <2>1
  <2>3. b[c] = d[c]
    BY <1>4, <2>1
  <2>4. b[c + 1] = q[c + 1] \o h[c + 1] \o b[c]
    BY <1>1, <2>2
  <2>5. d[c + 1] = r[c + 1] \o g[c + 1] \o d[c]
    BY <1>2, <2>2
  <2>6. q[c + 1] = r[c + 1] /\ h[c + 1] = g[c + 1]
    BY <2>2 DEF SameUpTo
  <2> QED  BY <2>3, <2>4, <2>5, <2>6
<1> HIDE DEF S
<1>5. \A c \in Nat : c \in S
  BY <1>3, <1>4, SetInduction
<1> QED  BY <1>5 DEF S, b, d

\* Two chains that agree beyond channel m have the same frames before what is in m
\* and behind it.
LEMMA BehindAfter ==
  ASSUME NEW n \in Nat, NEW m \in 0 .. n, NEW q, NEW h, NEW r, NEW g,
         IsChain(q, h, n), IsChain(r, g, n), SameBeyond(q, h, r, g, m, n)
  PROVE  SameFront(Behind(q, h), Behind(r, g), m, n)
<1> DEFINE b == Behind(q, h)
           d == Behind(r, g)
           P(c) == SameFront(b, d, m, c)
           S == {i \in Nat : m + i <= n => P(m + i)}
<1>0. DOMAIN q = 0 .. n /\ DOMAIN r = 0 .. n
  BY DEF IsChain
<1>1. b[0] = q[0] /\ \A c \in 1 .. n : b[c] = q[c] \o h[c] \o b[c - 1]
  BY ONLY <1>0, n \in Nat, BehindIs, SMTT(30)
<1>2. d[0] = r[0] /\ \A c \in 1 .. n : d[c] = r[c] \o g[c] \o d[c - 1]
  BY ONLY <1>0, n \in Nat, BehindIs, SMTT(30)
<1>3. b[m] \in Seq(Nat) /\ d[m] \in Seq(Nat)
  BY BehindType
<1> HIDE DEF b, d
<1>4. 0 \in S
  <2>1. << >> \in Seq(Nat) /\ b[m] = << >> \o b[m] /\ d[m] = << >> \o d[m]
    BY <1>3, ConcatEmptySeq, EmptySeq
  <2>2. P(m)
    BY <2>1 DEF SameFront
  <2> HIDE DEF P
  <2> QED  BY <2>2
<1>5. ASSUME NEW i \in Nat, i \in S PROVE i + 1 \in S
  <2> DEFINE c == m + i + 1
  <2>1. SUFFICES ASSUME c <= n PROVE P(c)
    <3>1. m + (i + 1) = c
      OBVIOUS
    <3> HIDE DEF c, P
    <3> QED  BY <3>1
  <2>2. c \in 1 .. n /\ c \in m + 1 .. n /\ c - 1 = m + i
    BY <2>1
  <2>3. P(m + i)
    <3> HIDE DEF P
    <3> QED  BY <1>5, <2>1
  <2>4. PICK A \in Seq(Nat) : b[m + i] = A \o b[m] /\ d[m + i] = A \o d[m]
    BY <2>3 DEF SameFront
  <2>5. q[c] = r[c] /\ h[c] = g[c] /\ q[c] \in Seq(Nat) /\ h[c] \in Seq(Nat)
    <3>1. c \in 0 .. n
      BY <2>2
    <3> HIDE DEF c
    <3>2. q[c] \in Seq(Nat) /\ h[c] \in Seq(Nat)
      BY <2>2, <3>1 DEF IsChain
    <3> QED  BY <2>2, <3>2 DEF SameBeyond
  <2>6. b[c] = q[c] \o h[c] \o b[m + i] /\ d[c] = q[c] \o h[c] \o d[m + i]
    <3> HIDE DEF c
    <3> QED  BY <1>1, <1>2, <2>2, <2>5
  <2> DEFINE x == q[c] \o h[c]
  <2>7. A \in Seq(Nat) /\ x \in Seq(Nat) /\ x \o A \in Seq(Nat)
    BY <2>5
  <2>8. b[c] = x \o (A \o b[m]) /\ d[c] = x \o (A \o d[m])
    BY <2>4, <2>6
  <2> HIDE DEF x
  <2>9. \A s \in Seq(Nat) : x \o (A \o s) = (x \o A) \o s
    BY ONLY <2>7, ConcatAssociative
  <2> QED  BY <1>3, <2>7, <2>8, <2>9 DEF SameFront
<1> HIDE DEF S
<1>6. \A i \in Nat : i \in S
  BY <1>4, <1>5, SetInduction
<1>7. n - m \in Nat /\ m + (n - m) = n
  OBVIOUS
<1>8. n - m \in S
  BY <1>6, <1>7
<1>9. P(n)
  <2> HIDE DEF P
  <2>1. P(m + (n - m))
    BY <1>7, <1>8 DEF S
  <2> QED  BY <1>7, <2>1
<1> QED  BY <1>9 DEF b, d

\* Two chains agree on the hand that fills channel m and all behind it.
SameBehind(q, h, r, g, m) ==
    (\A c \in 0 .. m - 1 : q[c] = r[c]) /\ \A c \in 1 .. m : h[c] = g[c]

\* What is behind m is, for b and for d, what their channels m hold and the same X.
SameRest(b, d, q, r, m) ==
    \E X \in Seq(Nat) : b[m] = q[m] \o X /\ d[m] = r[m] \o X

\* Two chains that are the same behind the buffer of channel m have the same frames
\* behind it.
LEMMA BehindBuffer ==
  ASSUME NEW n \in Nat, NEW m \in 0 .. n, NEW q, NEW h, NEW r, NEW g,
         IsChain(q, h, n), IsChain(r, g, n), SameBehind(q, h, r, g, m)
  PROVE  SameRest(Behind(q, h), Behind(r, g), q, r, m)
<1> DEFINE b == Behind(q, h)
           d == Behind(r, g)
<1>1. DOMAIN q = 0 .. n /\ DOMAIN r = 0 .. n
  BY DEF IsChain
<1>2. b[0] = q[0] /\ \A c \in 1 .. n : b[c] = q[c] \o h[c] \o b[c - 1]
  BY ONLY <1>1, n \in Nat, BehindIs, SMTT(30)
<1>3. d[0] = r[0] /\ \A c \in 1 .. n : d[c] = r[c] \o g[c] \o d[c - 1]
  BY ONLY <1>1, n \in Nat, BehindIs, SMTT(30)
<1>4. \A c \in 0 .. n : b[c] \in Seq(Nat)
  BY BehindType
<1>5. CASE m = 0
  <2>1. << >> \in Seq(Nat) /\ q[0] \in Seq(Nat) /\ r[0] \in Seq(Nat)
    BY DEF IsChain
  <2>2. q[0] = q[0] \o << >> /\ r[0] = r[0] \o << >>
    BY ONLY <2>1, ConcatEmptySeq
  <2> HIDE DEF b, d
  <2>3. b[m] = q[m] \o << >> /\ d[m] = r[m] \o << >>
    BY ONLY <1>2, <1>3, <1>5, <2>2
  <2> QED  BY ONLY <2>1, <2>3 DEF b, d, SameRest
<1>6. CASE m # 0
  <2>1. m \in 1 .. n /\ m \in 1 .. m /\ m - 1 \in 0 .. n /\ m - 1 \in 0 .. m - 1 /\ m \in 0 .. n
    BY <1>6
  <2>2. h[m] = g[m]
    BY <2>1 DEF SameBehind
  <2>3. b[m - 1] = d[m - 1]
    <3>1. PICK p \in 0 .. n : p = m - 1
      BY <2>1
    <3>2. SameUpTo(q, h, r, g, p)
      BY <3>1 DEF SameUpTo, SameBehind
    <3>3. \A c \in 0 .. p : b[c] = d[c]
      BY ONLY n \in Nat, p \in 0 .. n, <1>1, <3>2, BehindBefore
    <3>4. p \in 0 .. p
      BY <3>1
    <3> HIDE DEF b, d
    <3> QED  BY ONLY <3>1, <3>3, <3>4
  <2> HIDE DEF b, d
  <2> DEFINE X == h[m] \o b[m - 1]
  <2>4. /\ q[m] \in Seq(Nat) /\ r[m] \in Seq(Nat) /\ h[m] \in Seq(Nat)
        /\ b[m - 1] \in Seq(Nat) /\ X \in Seq(Nat)
    BY <1>4, <2>1 DEF IsChain
  <2>5. b[m] = q[m] \o h[m] \o b[m - 1] /\ d[m] = r[m] \o h[m] \o b[m - 1]
    BY <1>2, <1>3, <2>1, <2>2, <2>3
  <2>6. b[m] = q[m] \o X /\ d[m] = r[m] \o X
    BY ONLY <2>4, <2>5, Assoc, Zenon
  <2> HIDE DEF X
  <2> QED  BY ONLY <2>4, <2>6 DEF b, d, SameRest
<1> QED  BY <1>5, <1>6
-----------------------------------------------------------------------------
(* What the steps do to the frames behind a channel. *)

\* g is f with a part of it, C, cut out.
Cut(f, g, C) == \E A, Z \in Seq(Nat) : f = A \o C \o Z /\ g = A \o Z

\* Emptying hand k cuts its frames out of those behind the last channel.
LEMMA CutHand ==
  ASSUME NEW n \in Nat, NEW k \in 1 .. n, NEW q, NEW h, NEW g,
         IsChain(q, h, n), IsChain(q, g, n),
         g[k] = << >>, \A c \in 1 .. n : c # k => h[c] = g[c]
  PROVE  Cut(Behind(q, h)[n], Behind(q, g)[n], h[k])
<1> DEFINE b == Behind(q, h)
           d == Behind(q, g)
<1>1. DOMAIN q = 0 .. n
  BY DEF IsChain
<1>2. \A c \in 1 .. n : b[c] = q[c] \o h[c] \o b[c - 1]
  BY ONLY <1>1, n \in Nat, BehindIs, SMTT(30)
<1>3. \A c \in 1 .. n : d[c] = q[c] \o g[c] \o d[c - 1]
  BY ONLY <1>1, n \in Nat, BehindIs, SMTT(30)
<1>4. PICK p \in 0 .. n : p = k - 1
  OBVIOUS
<1>5. b[p] = d[p]
  <2>1. SameUpTo(q, h, q, g, p)
    BY <1>4 DEF SameUpTo
  <2>2. \A c \in 0 .. p : b[c] = d[c]
    BY ONLY n \in Nat, p \in 0 .. n, <1>1, <2>1, BehindBefore
  <2> HIDE DEF b, d
  <2> QED  BY <1>4, <2>2
<1>6. PICK A \in Seq(Nat) : b[n] = A \o b[k] /\ d[n] = A \o d[k]
  <2>1. k \in 0 .. n /\ SameBeyond(q, h, q, g, k, n)
    BY DEF SameBeyond
  <2>2. SameFront(b, d, k, n)
    BY ONLY n \in Nat, <2>1, IsChain(q, h, n), IsChain(q, g, n), BehindAfter
  <2> QED  BY ONLY <2>2 DEF SameFront
<1>7. q[k] \in Seq(Nat) /\ h[k] \in Seq(Nat) /\ b[p] \in Seq(Nat)
  <2>1. k \in 0 .. n
    OBVIOUS
  <2> QED  BY <2>1, BehindType DEF IsChain
<1> HIDE DEF b, d
<1>8. b[k] = q[k] \o h[k] \o b[p] /\ d[k] = q[k] \o << >> \o b[p]
  BY ONLY k \in 1 .. n, <1>2, <1>3, <1>4, <1>5, g[k] = << >>
<1>9. A \o q[k] \in Seq(Nat) /\ q[k] \o h[k] \in Seq(Nat) /\ q[k] \o << >> = q[k]
  BY ONLY A \in Seq(Nat), <1>7, ConcatEmptySeq
<1>10. b[n] = (A \o q[k]) \o h[k] \o b[p]
  <2>1. b[n] = A \o ((q[k] \o h[k]) \o b[p])
    BY ONLY <1>6, <1>8
  <2>2. A \o ((q[k] \o h[k]) \o b[p]) = (A \o (q[k] \o h[k])) \o b[p]
    BY ONLY A \in Seq(Nat), <1>7, <1>9, Assoc, Zenon
  <2>3. A \o (q[k] \o h[k]) = (A \o q[k]) \o h[k]
    BY ONLY A \in Seq(Nat), <1>7, Assoc, Zenon
  <2> QED  BY ONLY <2>1, <2>2, <2>3, Zenon
<1>11. d[n] = (A \o q[k]) \o b[p]
  <2>1. d[n] = A \o (q[k] \o b[p])
    BY ONLY <1>6, <1>8, <1>9
  <2> QED  BY ONLY A \in Seq(Nat), <1>7, Assoc, <2>1, Zenon
<1> QED  BY ONLY <1>7, <1>9, <1>10, <1>11, Zenon DEF b, d, Cut

\* Emptying the buffer of channel m does the same with the frames in it.
LEMMA CutBuffer ==
  ASSUME NEW n \in Nat, NEW m \in 0 .. n, NEW q, NEW h, NEW r,
         IsChain(q, h, n), IsChain(r, h, n),
         r[m] = << >>, \A c \in 0 .. n : c # m => q[c] = r[c]
  PROVE  Cut(Behind(q, h)[n], Behind(r, h)[n], q[m])
<1> DEFINE b == Behind(q, h)
           d == Behind(r, h)
<1>1. PICK Z \in Seq(Nat) : b[m] = q[m] \o Z /\ d[m] = r[m] \o Z
  <2>1. SameBehind(q, h, r, h, m)
    BY DEF SameBehind
  <2>2. SameRest(b, d, q, r, m)
    BY ONLY n \in Nat, m \in 0 .. n, <2>1, IsChain(q, h, n), IsChain(r, h, n), BehindBuffer
  <2> QED  BY ONLY <2>2 DEF SameRest
<1>2. PICK A \in Seq(Nat) : b[n] = A \o b[m] /\ d[n] = A \o d[m]
  <2>1. SameBeyond(q, h, r, h, m, n)
    BY DEF SameBeyond
  <2>2. SameFront(b, d, m, n)
    BY ONLY n \in Nat, m \in 0 .. n, <2>1, IsChain(q, h, n), IsChain(r, h, n), BehindAfter
  <2> QED  BY ONLY <2>2 DEF SameFront
<1>3. q[m] \in Seq(Nat)
  BY DEF IsChain
<1> HIDE DEF b, d
<1>4. d[n] = A \o Z
  BY ONLY <1>1, <1>2, Z \in Seq(Nat), r[m] = << >>, ConcatEmptySeq
<1>5. b[n] = A \o q[m] \o Z
  <2>1. b[n] = A \o (q[m] \o Z)
    BY ONLY <1>1, <1>2
  <2> QED  BY ONLY A \in Seq(Nat), Z \in Seq(Nat), <1>3, <2>1, Assoc, Zenon
<1> QED  BY ONLY A \in Seq(Nat), Z \in Seq(Nat), <1>4, <1>5, Zenon DEF b, d, Cut

\* Hand k takes the first frame of channel p.
IsTake(q, h, r, g, k, p, n) ==
    /\ q[p] # << >> /\ r[p] = Tail(q[p]) /\ \A c \in 0 .. n : c # p => q[c] = r[c]
    /\ h[k] = << >> /\ g[k] = <<Head(q[p])>> /\ \A c \in 1 .. n : c # k => h[c] = g[c]

\* A frame taken from the buffer of a channel to the hand it leads to is where it was
\* among those behind the last channel.
LEMMA TakeKeeps ==
  ASSUME NEW n \in Nat, NEW k \in 1 .. n, NEW p \in 0 .. n, p = k - 1,
         NEW q, NEW h, NEW r, NEW g, IsChain(q, h, n), IsChain(r, g, n),
         IsTake(q, h, r, g, k, p, n)
  PROVE  Behind(r, g)[n] = Behind(q, h)[n]
<1> DEFINE b == Behind(q, h)
           d == Behind(r, g)
<1>0. /\ q[p] # << >> /\ r[p] = Tail(q[p]) /\ \A c \in 0 .. n : c # p => q[c] = r[c]
      /\ h[k] = << >> /\ g[k] = <<Head(q[p])>> /\ \A c \in 1 .. n : c # k => h[c] = g[c]
  BY DEF IsTake
<1>1. DOMAIN q = 0 .. n /\ DOMAIN r = 0 .. n
  BY DEF IsChain
<1>2. \A c \in 1 .. n : b[c] = q[c] \o h[c] \o b[c - 1]
  BY ONLY <1>1, n \in Nat, BehindIs, SMTT(30)
<1>3. \A c \in 1 .. n : d[c] = r[c] \o g[c] \o d[c - 1]
  BY ONLY <1>1, n \in Nat, BehindIs, SMTT(30)
<1>4. PICK X \in Seq(Nat) : b[p] = q[p] \o X /\ d[p] = r[p] \o X
  <2>1. SameBehind(q, h, r, g, p)
    BY <1>0 DEF SameBehind
  <2>2. SameRest(b, d, q, r, p)
    BY ONLY n \in Nat, p \in 0 .. n, <2>1, IsChain(q, h, n), IsChain(r, g, n), BehindBuffer
  <2> QED  BY ONLY <2>2 DEF SameRest
<1>5. PICK A \in Seq(Nat) : b[n] = A \o b[k] /\ d[n] = A \o d[k]
  <2>1. k \in 0 .. n /\ SameBeyond(q, h, r, g, k, n)
    BY <1>0 DEF SameBeyond
  <2>2. SameFront(b, d, k, n)
    BY ONLY n \in Nat, <2>1, IsChain(q, h, n), IsChain(r, g, n), BehindAfter
  <2> QED  BY ONLY <2>2 DEF SameFront
<1>6. /\ q[k] \in Seq(Nat) /\ q[p] \in Seq(Nat) /\ r[p] \in Seq(Nat) /\ g[k] \in Seq(Nat)
      /\ r[k] = q[k]
  <2>1. k \in 0 .. n /\ k # p
    OBVIOUS
  <2>2. r[k] = q[k]
    BY <1>0, <2>1
  <2>3. q[k] \in Seq(Nat) /\ q[p] \in Seq(Nat) /\ r[p] \in Seq(Nat) /\ g[k] \in Seq(Nat)
    BY ONLY k \in 1 .. n, p \in 0 .. n, <2>1, IsChain(q, h, n), IsChain(r, g, n) DEF IsChain
  <2> QED  BY ONLY <2>2, <2>3
<1> HIDE DEF b, d
<1>7. b[k] = q[k] \o << >> \o (q[p] \o X) /\ d[k] = q[k] \o g[k] \o (r[p] \o X)
  <2>1. b[k] = q[k] \o h[k] \o b[k - 1] /\ d[k] = r[k] \o g[k] \o d[k - 1]
    BY ONLY k \in 1 .. n, <1>2, <1>3
  <2> QED  BY ONLY p = k - 1, <1>0, <1>4, <1>6, <2>1
<1>8. g[k] \o r[p] = q[p]
  BY ONLY <1>0, <1>6, HeadTailProperties
<1>9. d[k] = q[k] \o (q[p] \o X)
  <2>1. r[p] \o X \in Seq(Nat)
    BY ONLY <1>6, X \in Seq(Nat)
  <2>2. (q[k] \o g[k]) \o (r[p] \o X) = q[k] \o (g[k] \o (r[p] \o X))
    <3>1. \A Y \in Seq(Nat) : (q[k] \o g[k]) \o Y = q[k] \o (g[k] \o Y)
      BY ONLY <1>6, Assoc, Zenon
    <3> QED  BY ONLY <2>1, <3>1, Zenon
  <2>3. (g[k] \o r[p]) \o X = g[k] \o (r[p] \o X)
    BY ONLY <1>6, X \in Seq(Nat), Assoc, Zenon
  <2> QED  BY ONLY <1>7, <1>8, <2>2, <2>3, Zenon
<1>10. b[k] = q[k] \o (q[p] \o X)
  BY ONLY <1>6, <1>7, ConcatEmptySeq
<1> QED  BY ONLY <1>5, <1>9, <1>10, Zenon DEF b, d

\* Hand k goes into the channel it fills.
IsSend(q, h, r, g, k, n) ==
    /\ r[k] = q[k] \o h[k] /\ \A c \in 0 .. n : c # k => q[c] = r[c]
    /\ g[k] = << >> /\ \A c \in 1 .. n : c # k => h[c] = g[c]

\* So is a frame sent from a hand into the channel it fills.
LEMMA SendKeeps ==
  ASSUME NEW n \in Nat, NEW k \in 1 .. n, NEW q, NEW h, NEW r, NEW g,
         IsChain(q, h, n), IsChain(r, g, n), IsSend(q, h, r, g, k, n)
  PROVE  Behind(r, g)[n] = Behind(q, h)[n]
<1> DEFINE b == Behind(q, h)
           d == Behind(r, g)
<1>1. DOMAIN q = 0 .. n /\ DOMAIN r = 0 .. n
  BY DEF IsChain
<1>2. \A c \in 1 .. n : b[c] = q[c] \o h[c] \o b[c - 1]
  BY ONLY <1>1, n \in Nat, BehindIs, SMTT(30)
<1>3. \A c \in 1 .. n : d[c] = r[c] \o g[c] \o d[c - 1]
  BY ONLY <1>1, n \in Nat, BehindIs, SMTT(30)
<1>4. PICK p \in 0 .. n : p = k - 1
  OBVIOUS
<1>5. b[p] = d[p]
  <2>1. SameUpTo(q, h, r, g, p)
    BY <1>4 DEF SameUpTo, IsSend
  <2>2. \A c \in 0 .. p : b[c] = d[c]
    BY ONLY n \in Nat, p \in 0 .. n, <1>1, <2>1, BehindBefore
  <2> HIDE DEF b, d
  <2> QED  BY <1>4, <2>2
<1>6. PICK A \in Seq(Nat) : b[n] = A \o b[k] /\ d[n] = A \o d[k]
  <2>1. k \in 0 .. n /\ SameBeyond(q, h, r, g, k, n)
    BY DEF SameBeyond, IsSend
  <2>2. SameFront(b, d, k, n)
    BY ONLY n \in Nat, <2>1, IsChain(q, h, n), IsChain(r, g, n), BehindAfter
  <2> QED  BY ONLY <2>2 DEF SameFront
<1>7. q[k] \in Seq(Nat) /\ h[k] \in Seq(Nat) /\ q[k] \o h[k] \in Seq(Nat)
  BY DEF IsChain
<1> HIDE DEF b, d
<1>8. b[k] = q[k] \o h[k] \o b[p] /\ d[k] = q[k] \o h[k] \o << >> \o b[p]
  BY ONLY k \in 1 .. n, <1>2, <1>3, <1>4, <1>5, IsSend(q, h, r, g, k, n) DEF IsSend
<1>9. q[k] \o h[k] \o << >> = q[k] \o h[k]
  BY ONLY <1>7, ConcatEmptySeq
<1> QED  BY ONLY <1>6, <1>8, <1>9 DEF b, d

\* A frame put into the first channel comes last among those behind the last one.
LEMMA PutAppends ==
  ASSUME NEW n \in Nat, NEW x \in Nat, NEW q, NEW h, NEW r,
         IsChain(q, h, n), IsChain(r, h, n), r[0] = Append(q[0], x),
         \A c \in 0 .. n : c # 0 => q[c] = r[c]
  PROVE  Behind(r, h)[n] = Append(Behind(q, h)[n], x)
<1> DEFINE b == Behind(q, h)
           d == Behind(r, h)
<1>1. DOMAIN q = 0 .. n /\ DOMAIN r = 0 .. n
  BY DEF IsChain
<1>2. b[0] = q[0] /\ d[0] = r[0]
  BY ONLY <1>1, n \in Nat, BehindIs, SMTT(30)
<1>3. PICK A \in Seq(Nat) : b[n] = A \o b[0] /\ d[n] = A \o d[0]
  <2>1. 0 \in 0 .. n /\ SameBeyond(q, h, r, h, 0, n)
    BY DEF SameBeyond
  <2>2. SameFront(b, d, 0, n)
    BY ONLY n \in Nat, <2>1, IsChain(q, h, n), IsChain(r, h, n), BehindAfter
  <2> QED  BY ONLY <2>2 DEF SameFront
<1>4. q[0] \in Seq(Nat) /\ <<x>> \in Seq(Nat) /\ A \o q[0] \in Seq(Nat)
  BY DEF IsChain
<1> HIDE DEF b, d
<1>5. Append(q[0], x) = q[0] \o <<x>> /\ Append(A \o q[0], x) = (A \o q[0]) \o <<x>>
  BY ONLY <1>4, x \in Nat, AppendIsConcat
<1>6. A \o (q[0] \o <<x>>) = (A \o q[0]) \o <<x>>
  BY ONLY <1>4, A \in Seq(Nat), Assoc, Zenon
<1> QED  BY ONLY <1>2, <1>3, <1>5, <1>6, r[0] = Append(q[0], x), Zenon DEF b, d

\* The frame at the head of the last channel is the first of them.
LEMMA GetTakesFirst ==
  ASSUME NEW n \in Nat, NEW q, NEW h, NEW r, IsChain(q, h, n), IsChain(r, h, n),
         q[n] # << >>, r[n] = Tail(q[n]), \A c \in 0 .. n : c # n => q[c] = r[c]
  PROVE  /\ Behind(q, h)[n] # << >>
         /\ Head(Behind(q, h)[n]) = Head(q[n])
         /\ Behind(r, h)[n] = Tail(Behind(q, h)[n])
<1> DEFINE b == Behind(q, h)
           d == Behind(r, h)
<1>1. PICK X \in Seq(Nat) : b[n] = q[n] \o X /\ d[n] = r[n] \o X
  <2>1. n \in 0 .. n /\ SameBehind(q, h, r, h, n)
    BY DEF SameBehind
  <2>2. SameRest(b, d, q, r, n)
    BY ONLY n \in Nat, <2>1, IsChain(q, h, n), IsChain(r, h, n), BehindBuffer
  <2> QED  BY ONLY <2>2 DEF SameRest
<1>2. q[n] \in Seq(Nat)
  BY DEF IsChain
<1> HIDE DEF b, d
<1>3. /\ q[n] \o X # << >>
      /\ Head(q[n] \o X) = Head(q[n])
      /\ Tail(q[n] \o X) = Tail(q[n]) \o X
  BY ONLY <1>2, X \in Seq(Nat), q[n] # << >>, HeadTailConcat, Zenon
<1> QED  BY ONLY <1>1, <1>3, r[n] = Tail(q[n]) DEF b, d
-----------------------------------------------------------------------------
(* Types. *)

\* Taking the head of a sequence, and putting one frame at the end of another.
LEMMA TakeOne ==
  \A S : \A s \in Seq(S) : s # << >> =>
      Head(s) \in S /\ Tail(s) \in Seq(S) /\ Len(Tail(s)) <= Len(s) /\ Len(Tail(s)) \in Nat
<1> QED  OBVIOUS

\* A list with one more at its end.
LEMMA AddOne ==
  \A S : \A s, t \in Seq(S) : Len(t) = 1 =>
      s \o t \in Seq(S) /\ Len(s \o t) = Len(s) + 1 /\ Len(s) \in Nat
<1> SUFFICES ASSUME NEW S, NEW s \in Seq(S), NEW t \in Seq(S), Len(t) = 1
             PROVE  s \o t \in Seq(S) /\ Len(s \o t) = Len(s) + 1 /\ Len(s) \in Nat
  OBVIOUS
<1>1. s \o t \in Seq(S) /\ Len(s \o t) = Len(s) + Len(t)
  BY ConcatProperties
<1> QED  BY <1>1

\* There is a task at least, and 0 is not one.
LEMMA Ends0 == Final \in Nat \ {0}
BY PipelineAssumption DEF Final

\* The initial state has the types.
LEMMA InitType == Init => TypeOK
<1> SUFFICES ASSUME Init PROVE TypeOK
  OBVIOUS
<1> USE Ends0, PipelineAssumption DEF Init
<1>1. << >> \in Seq(1 .. 0) /\ Len(<< >>) = 0
  OBVIOUS
<1>2. queue \in [Channels -> Seq(1 .. sent)] /\ held \in [Tasks -> Seq(1 .. sent)]
  BY <1>1
<1>3. /\ \A c \in Channels : Len(queue[c]) <= BufferSize
      /\ \A k \in Tasks : Len(held[k]) = IF task[k] = "holding" THEN 1 ELSE 0
  BY <1>1
<1>4. errors \in Seq(Tasks \cup {Unknown}) /\ delivered \in Seq(1 .. sent)
  BY <1>1
<1> QED  BY <1>2, <1>3, <1>4 DEF TypeOK

\* Every step of the caller keeps them.
LEMMA PutType == TypeOK /\ Put => TypeOK'
<1> SUFFICES ASSUME TypeOK, Put PROVE TypeOK'
  OBVIOUS
<1> USE Ends0, PipelineAssumption DEF endVars
<1>1. sent \in Nat /\ sent' = sent + 1 /\ sent' \in 0 .. MaxFrames
  BY DEF TypeOK, Put
<1>2. \A s : s \in Seq(1 .. sent) => s \in Seq(1 .. sent')
  BY <1>1, SeqMonotonic
<1>3. 0 \in Channels /\ sent + 1 \in 1 .. sent'
  BY <1>1 DEF Channels
<1>4. queue[0] \in Seq(1 .. sent') /\ Len(queue[0]) \in Nat /\ Len(queue[0]) < BufferSize
  BY <1>2, <1>3 DEF TypeOK, Put
<1>5. /\ Append(queue[0], sent + 1) \in Seq(1 .. sent')
      /\ Len(Append(queue[0], sent + 1)) <= BufferSize
  BY <1>3, <1>4
<1>6. queue' = [queue EXCEPT ![0] = Append(queue[0], sent + 1)]
  BY DEF Put
<1>7. DOMAIN queue = Channels /\ \A c \in Channels : queue[c] \in Seq(1 .. sent')
  BY <1>2 DEF TypeOK
<1>8. queue' \in [Channels -> Seq(1 .. sent')]
  BY <1>3, <1>5, <1>6, <1>7 DEF TypeOK
<1>9. \A c \in Channels : Len(queue'[c]) <= BufferSize
  BY <1>3, <1>5, <1>6 DEF TypeOK
<1>10. held' \in [Tasks -> Seq(1 .. sent')] /\ delivered' \in Seq(1 .. sent')
  BY <1>2 DEF TypeOK, Put
<1> QED  BY <1>1, <1>8, <1>9, <1>10 DEF TypeOK, Put

\* The caller's other steps keep the types.
LEMMA CallerType == TypeOK /\ (CloseInput \/ Get \/ DropOutput) => TypeOK'
<1> SUFFICES ASSUME TypeOK, CloseInput \/ Get \/ DropOutput PROVE TypeOK'
  OBVIOUS
<1> USE Ends0 DEF endVars, callerVars
<1>1. Final \in Channels /\ queue[Final] \in Seq(1 .. sent)
  BY DEF Channels, TypeOK
<1>2. CASE CloseInput
  BY <1>2 DEF CloseInput, TypeOK
<1>3. CASE Get
  <2>1. /\ Tail(queue[Final]) \in Seq(1 .. sent)
        /\ Len(Tail(queue[Final])) <= Len(queue[Final])
        /\ Head(queue[Final]) \in 1 .. sent
    BY <1>1, <1>3, TakeOne, Zenon DEF Get
  <2>2. Len(Tail(queue[Final])) <= BufferSize
    BY <1>1, <2>1, PipelineAssumption DEF TypeOK
  <2>3. queue' = [queue EXCEPT ![Final] = Tail(queue[Final])]
    BY <1>3 DEF Get
  <2>4. queue' \in [Channels -> Seq(1 .. sent)] /\ \A c \in Channels : Len(queue'[c]) <= BufferSize
    BY <1>1, <2>1, <2>2, <2>3 DEF TypeOK
  <2>5. delivered' \in Seq(1 .. sent)
    BY <1>3, <2>1 DEF Get, TypeOK
  <2> QED  BY <1>3, <2>4, <2>5 DEF Get, TypeOK
<1>4. CASE DropOutput
  <2>1. queue' \in [Channels -> Seq(1 .. sent)] /\ \A c \in Channels : Len(queue'[c]) <= BufferSize
    BY <1>1, <1>4, PipelineAssumption DEF DropOutput, TypeOK
  <2> QED  BY <1>4, <2>1 DEF DropOutput, TypeOK
<1> QED  BY <1>2, <1>3, <1>4

\* A task that leaves the frame in its hand behind keeps the types.
LEMMA LeaveType ==
  ASSUME TypeOK, NEW k \in Tasks, NEW r \in {"ok", "err", "panic", "idle"},
         task' = [task EXCEPT ![k] = r], held' = [held EXCEPT ![k] = << >>],
         UNCHANGED <<queue, senders, receivers, endVars, callerVars>>, early' \subseteq Tasks
  PROVE  TypeOK'
<1> USE DEF endVars, callerVars
<1>1. held' \in [Tasks -> Seq(1 .. sent)] /\ task' \in [Tasks -> {"idle", "holding", "ok", "err", "panic"}]
  BY DEF TypeOK
<1>2. \A j \in Tasks : Len(held'[j]) = IF task'[j] = "holding" THEN 1 ELSE 0
  BY DEF TypeOK
<1> QED  BY <1>1, <1>2 DEF TypeOK

\* Every step of a task keeps them.
LEMMA TaskType == TypeOK /\ (\E k \in Tasks : Work(k) \/ Quit(k)) => TypeOK'
<1> SUFFICES ASSUME TypeOK, NEW k \in Tasks, Work(k) \/ Quit(k) PROVE TypeOK'
  OBVIOUS
<1> USE Ends0 DEF endVars, callerVars
<1>1. PICK p \in Channels : p = k - 1
  BY DEF Tasks, Channels
<1>2. /\ k \in Channels /\ queue[k] \in Seq(1 .. sent) /\ queue[p] \in Seq(1 .. sent)
      /\ held[k] \in Seq(1 .. sent)
  BY <1>1 DEF Tasks, Channels, TypeOK
<1>3. CASE Recv(k)
  <2>1. /\ Tail(queue[p]) \in Seq(1 .. sent)
        /\ Len(Tail(queue[p])) <= Len(queue[p])
        /\ Head(queue[p]) \in 1 .. sent
    <3>1. queue[p] # << >>
      BY <1>1, <1>3 DEF Recv
    <3> QED  BY <1>2, <3>1, TakeOne, Zenon
  <2>2. Len(Tail(queue[p])) <= BufferSize
    BY <1>2, <2>1, PipelineAssumption DEF TypeOK
  <2>3. queue' = [queue EXCEPT ![p] = Tail(queue[p])] /\ held' = [held EXCEPT ![k] = <<Head(queue[p])>>]
    BY <1>1, <1>3 DEF Recv
  <2>4. queue' \in [Channels -> Seq(1 .. sent)] /\ \A c \in Channels : Len(queue'[c]) <= BufferSize
    BY <2>1, <2>2, <2>3 DEF TypeOK
  <2>5. <<Head(queue[p])>> \in Seq(1 .. sent) /\ Len(<<Head(queue[p])>>) = 1
    BY <2>1
  <2>6. held' \in [Tasks -> Seq(1 .. sent)]
    BY <2>3, <2>5 DEF TypeOK
  <2>7. \A j \in Tasks : Len(held'[j]) = IF task'[j] = "holding" THEN 1 ELSE 0
    BY <1>3, <2>3, <2>5 DEF TypeOK, Recv
  <2> QED  BY <1>3, <2>4, <2>6, <2>7 DEF Recv, TypeOK
<1>4. CASE Send(k)
  <2>1. Len(held[k]) = 1
    BY <1>4 DEF Send, TypeOK
  <2>2. /\ queue[k] \o held[k] \in Seq(1 .. sent)
        /\ Len(queue[k] \o held[k]) = Len(queue[k]) + 1 /\ Len(queue[k]) \in Nat
    BY <1>2, <2>1, AddOne, Zenon
  <2>3. Len(queue[k] \o held[k]) <= BufferSize
    BY <1>4, <2>2, PipelineAssumption DEF Send
  <2>4. queue' = [queue EXCEPT ![k] = queue[k] \o held[k]]
    BY <1>4 DEF Send
  <2>5. queue' \in [Channels -> Seq(1 .. sent)] /\ \A c \in Channels : Len(queue'[c]) <= BufferSize
    BY <2>2, <2>3, <2>4 DEF TypeOK
  <2>6. held' \in [Tasks -> Seq(1 .. sent)]
    BY <1>4 DEF TypeOK, Send
  <2>7. \A j \in Tasks : Len(held'[j]) = IF task'[j] = "holding" THEN 1 ELSE 0
    BY <1>4 DEF TypeOK, Send
  <2> QED  BY <1>4, <2>5, <2>6, <2>7 DEF Send, TypeOK
<1>5. early \subseteq Tasks /\ early \cup {k} \subseteq Tasks
  BY DEF TypeOK
<1>6. CASE SendRefused(k)
  BY <1>5, <1>6, LeaveType DEF SendRefused, Leave
<1>7. CASE InputEnds(k)
  BY <1>5, <1>7, LeaveType DEF InputEnds, Leave
<1>8. CASE Quit(k)
  BY <1>5, <1>8, LeaveType DEF Quit, Leave
<1>9. CASE DropSender(k)
  BY <1>9 DEF DropSender, TypeOK
<1>10. CASE DropReceiver(k)
  <2>1. queue' = [queue EXCEPT ![p] = << >>]
    BY <1>1, <1>10 DEF DropReceiver
  <2>2. queue' \in [Channels -> Seq(1 .. sent)] /\ \A c \in Channels : Len(queue'[c]) <= BufferSize
    BY <2>1, PipelineAssumption DEF TypeOK
  <2> QED  BY <1>10, <2>2 DEF DropReceiver, TypeOK
<1> QED  BY <1>3, <1>4, <1>6, <1>7, <1>8, <1>9, <1>10 DEF Work

\* Every step of run_pipeline does.
LEMMA JoinType == TypeOK /\ (Join \/ Finish \/ MonitorPanics) => TypeOK'
<1> SUFFICES ASSUME TypeOK, Join \/ Finish \/ MonitorPanics PROVE TypeOK'
  OBVIOUS
<1> USE Ends0 DEF callerVars
<1>1. CASE Join
  <2>1. joined + 1 \in Tasks /\ joined' \in 0 .. Final
    BY <1>1 DEF Join, TypeOK, Tasks
  <2>2. errors' \in Seq(Tasks \cup {Unknown})
    BY <1>1, <2>1 DEF Join, TypeOK, NameOf
  <2> QED  BY <1>1, <2>1, <2>2 DEF Join, TypeOK
<1>2. CASE Finish
  BY <1>2 DEF Finish, TypeOK
<1>3. CASE MonitorPanics
  BY <1>3 DEF MonitorPanics, TypeOK
<1> QED  BY <1>1, <1>2, <1>3

\* And so does every step.
LEMMA NextType == TypeOK /\ [Next]_vars => TypeOK'
<1> SUFFICES ASSUME TypeOK, [Next]_vars PROVE TypeOK'
  OBVIOUS
<1>1. CASE UNCHANGED vars
  BY <1>1 DEF vars, TypeOK
<1>2. CASE Next
  <2>1. (\E k \in Tasks : Work(k) \/ Quit(k)) => TypeOK'
    BY TaskType
  <2> QED  BY <1>2, <2>1, PutType, CallerType, JoinType DEF Next
<1> QED  BY <1>1, <1>2

\* The variables keep their types in every state of a pipeline (pipeline.rs:
\* Pipeline::run): no buffer holds more than it may, no hand more than one frame.
THEOREM TypeCorrect == Spec => []TypeOK
<1> QED  BY InitType, NextType, PTL DEF Spec
-----------------------------------------------------------------------------
(* The result. *)

\* The loop has awaited the first tasks of the chain, which are gone, and noted those
\* of them that failed; the result is ready after the last.
Joins ==
    /\ \A k \in 1 .. joined : Done(k)
    /\ Reports(errors, {k \in 1 .. joined : task[k] # "ok"})
    /\ handle = "ready" => joined = Final

\* A task that has left never comes back, nor does an end of a channel that is gone.
LEMMA LeftForGood ==
  ASSUME TypeOK, [Next]_vars
  PROVE  /\ \A k \in Tasks : Ended(k) => task'[k] = task[k]
         /\ senders' \subseteq senders /\ receivers' \subseteq receivers
<1> USE DEF TypeOK, Ended
<1>1. CASE UNCHANGED vars
  BY <1>1 DEF vars
<1>2. CASE Put \/ CloseInput \/ Get \/ DropOutput
  BY <1>2 DEF Put, CloseInput, Get, DropOutput
<1>3. CASE Join \/ Finish \/ MonitorPanics
  BY <1>3 DEF Join, Finish, MonitorPanics
<1>4. ASSUME NEW k \in Tasks, Work(k) \/ Quit(k)
      PROVE  /\ \A j \in Tasks : Ended(j) => task'[j] = task[j]
             /\ senders' \subseteq senders /\ receivers' \subseteq receivers
  <2>1. CASE Recv(k) \/ Send(k)
    BY <2>1 DEF Recv, Send
  <2>2. CASE SendRefused(k) \/ InputEnds(k) \/ Quit(k)
    BY <2>2 DEF SendRefused, InputEnds, Quit, Leave
  <2>3. CASE DropSender(k) \/ DropReceiver(k)
    BY <2>3 DEF DropSender, DropReceiver
  <2> QED  BY <1>4, <2>1, <2>2, <2>3 DEF Work
<1> QED  BY <1>1, <1>2, <1>3, <1>4 DEF Next

\* The entries of s are those f has for the members of S, in order.
Lists(s, S, f) ==
    /\ Len(s) = Cardinality(S)
    /\ \A k \in S : s[Cardinality({l \in S : l <= k})] = f[k]

\* An entry added for what lies beyond all that was reported is at its place, and
\* leaves the others at theirs.
LEMMA ReportsAppend ==
  ASSUME NEW s \in Seq(Nat), NEW S \in SUBSET Nat, IsFiniteSet(S), NEW x \in Nat, NEW f,
         Lists(s, S, f), \A y \in S : y < x, f[x] \in Nat
  PROVE  Lists(Append(s, f[x]), S \cup {x}, f)
<1> DEFINE T == S \cup {x}
           t == Append(s, f[x])
           n == Len(s)
<1> USE DEF Lists
<1>1. x \notin S
  OBVIOUS
<1>2. Cardinality(S) \in Nat /\ Cardinality(T) = Cardinality(S) + 1
  BY <1>1, FS_AddElement, FS_CardinalityType
<1>3. n \in Nat /\ Len(t) = n + 1 /\ t[n + 1] = f[x] /\ \A i \in 1 .. n : t[i] = s[i]
  OBVIOUS
<1>4. ASSUME NEW k \in T
      PROVE  t[Cardinality({l \in T : l <= k})] = f[k]
  <2>1. CASE k = x
    <3>1. \A l \in T : l <= k
      BY <2>1
    <3>2. {l \in T : l <= k} = T
      BY <3>1
    <3> QED  BY <1>2, <1>3, <2>1, <3>2
  <2>2. CASE k \in S
    <3> DEFINE U == {l \in S : l <= k}
    <3>1. {l \in T : l <= k} = U
      BY <2>2
    <3>2. U \subseteq S /\ k \in U
      BY <2>2
    <3>3. IsFiniteSet(U) /\ Cardinality(U) \in Nat /\ Cardinality(U) <= Cardinality(S)
      BY <3>2, FS_Subset, FS_CardinalityType
    <3>4. Cardinality(U) # 0
      BY <3>2, <3>3, FS_EmptySet
    <3>5. Cardinality(U) \in 1 .. n
      BY <1>2, <1>3, <3>3, <3>4
    <3>6. s[Cardinality(U)] = f[k]
      BY <2>2
    <3> HIDE DEF U, t, n, T
    <3> QED  BY <1>3, <3>1, <3>5, <3>6
  <2> QED  BY <2>1, <2>2
<1> QED  BY <1>2, <1>3, <1>4

\* Nothing has been joined to begin with.
LEMMA InitJoins == Init => Joins
<1> SUFFICES ASSUME Init PROVE Joins
  OBVIOUS
<1>1. joined = 0 /\ errors = << >> /\ handle = "pending" /\ 1 .. 0 = {}
  BY DEF Init
<1>2. Reports(<< >>, {k \in 1 .. 0 : task[k] # "ok"})
  BY FS_EmptySet DEF Reports
<1> QED  BY <1>1, <1>2 DEF Joins

\* Every step keeps Joins.
LEMMA NextJoins == TypeOK /\ Joins /\ [Next]_vars => Joins'
<1> SUFFICES ASSUME TypeOK, Joins, [Next]_vars PROVE Joins'
  OBVIOUS
<1>1. joined \in 0 .. Final /\ Final \in Nat \ {0} /\ 1 .. joined \subseteq Tasks
  BY Ends0 DEF TypeOK, Tasks
<1>2. \A k \in Tasks : Done(k) => Done(k)' /\ task'[k] = task[k]
  BY LeftForGood DEF Done, Ended
<1>3. {k \in 1 .. joined : task'[k] # "ok"} = {k \in 1 .. joined : task[k] # "ok"}
  BY <1>1, <1>2 DEF Joins
<1>4. CASE Join
  <2>0. PICK x : x = joined + 1
    OBVIOUS
  <2>1. /\ x \in Nat /\ x \in Tasks /\ Done(x) /\ joined' = x /\ handle' = "pending"
        /\ 1 .. x = 1 .. joined \cup {x} /\ task' = task
    BY <1>1, <1>4, <2>0 DEF Join, Tasks
  <2>2. \A k \in 1 .. x : Done(k)'
    BY <1>1, <1>2, <2>1 DEF Joins
  <2>3. Reports(errors, {k \in 1 .. joined : task[k] # "ok"})
    BY DEF Joins
  <2>4. Reports(errors', {k \in 1 .. x : task[k] # "ok"})
    <3>1. CASE task[x] = "ok"
      <4>1. errors' = errors
        BY <1>4, <2>0, <3>1 DEF Join
      <4>2. {k \in 1 .. x : task[k] # "ok"} = {k \in 1 .. joined : task[k] # "ok"}
        BY <2>1, <3>1
      <4> QED  BY <2>3, <4>1, <4>2
    <3>2. CASE task[x] # "ok"
      <4> DEFINE S == {k \in 1 .. joined : task[k] # "ok"}
                 f == [k \in Tasks |-> NameOf(k)]
      <4>1. errors' = Append(errors, NameOf(x)) /\ f[x] = NameOf(x) /\ f[x] \in Nat
        BY <1>4, <2>0, <2>1, <3>2 DEF Join, NameOf, Unknown
      <4>2. {k \in 1 .. x : task[k] # "ok"} = S \cup {x}
        BY <2>1, <3>2
      <4>3. errors \in Seq(Nat)
        <5>1. Tasks \cup {Unknown} \subseteq Nat
          BY DEF Tasks, Unknown
        <5> QED  BY <5>1, SeqMonotonic DEF TypeOK
      <4>4. S \in SUBSET Nat /\ S \subseteq Tasks /\ \A y \in S : y < x
        BY <1>1, <2>0
      <4>5. IsFiniteSet(S)
        <5>1. IsFiniteSet(1 .. joined)
          BY <1>1, FS_Interval
        <5> QED  BY <5>1, FS_Subset
      <4>6. Lists(errors, S, f)
        BY <2>3, <4>4 DEF Reports, Lists
      <4> HIDE DEF S, f
      <4>7. Lists(Append(errors, f[x]), S \cup {x}, f)
        BY ONLY <2>1, <4>1, <4>3, <4>4, <4>5, <4>6, ReportsAppend
      <4>8. \A k \in S \cup {x} : f[k] = NameOf(k)
        BY <2>1, <4>4 DEF f
      <4> QED  BY <4>1, <4>2, <4>7, <4>8 DEF Reports, Lists
    <3> QED  BY <3>1, <3>2
  <2>5. Reports(errors, {k \in 1 .. joined : task[k] # "ok"})'
    BY <2>1, <2>4 DEF Reports, NameOf
  <2>6. \A k \in 1 .. joined' : Done(k)'
    BY <2>1, <2>2
  <2>7. handle' # "ready"
    BY <2>1
  <2> QED  BY <2>5, <2>6, <2>7 DEF Joins
<1>5. CASE joined' = joined /\ errors' = errors /\ (handle' = handle \/ Finish \/ MonitorPanics)
  <2>1. \A k \in 1 .. joined' : Done(k)'
    BY <1>1, <1>2, <1>5 DEF Joins
  <2>2. Reports(errors, {k \in 1 .. joined : task[k] # "ok"})'
    <3>1. \A k \in 1 .. joined : NameOf(k)' = NameOf(k)
      BY <1>1, <1>2 DEF Joins, NameOf
    <3> QED  BY <1>3, <1>5, <3>1 DEF Joins, Reports
  <2>3. handle' = "ready" => joined' = Final
    BY <1>5 DEF Joins, Finish, MonitorPanics
  <2> QED  BY <2>1, <2>2, <2>3 DEF Joins
<1>6. Join \/ (joined' = joined /\ errors' = errors /\ (handle' = handle \/ Finish \/ MonitorPanics))
  <2> USE DEF endVars
  <2>1. CASE UNCHANGED vars
    BY <2>1 DEF vars
  <2>2. CASE Put \/ CloseInput \/ Get \/ DropOutput
    BY <2>2 DEF Put, CloseInput, Get, DropOutput
  <2>3. CASE Join \/ Finish \/ MonitorPanics
    BY <2>3 DEF Finish, MonitorPanics
  <2>4. CASE \E k \in Tasks : Work(k) \/ Quit(k)
    BY <2>4 DEF Work, Recv, Send, SendRefused, InputEnds, Leave, DropSender, DropReceiver, Quit
  <2> QED  BY <2>1, <2>2, <2>3, <2>4 DEF Next
<1> QED  BY <1>4, <1>5, <1>6

\* The result is ready only when every task is gone, and reports each that failed or
\* panicked once, in the order of the chain, a panicked one without its name
\* (pipeline.rs: the loop over the handles).
THEOREM ResultComplete == Spec => []ResultIsComplete
<1>1. Joins => ResultIsComplete
  BY DEF Joins, ResultIsComplete, Tasks
<1> QED  BY <1>1, InitType, NextType, InitJoins, NextJoins, PTL DEF Spec
-----------------------------------------------------------------------------
(* Nothing is lost. *)

\* Only a task that has left lets go of its ends; one that did not leave early has
\* seen the end of its input.
Ends ==
    /\ \A k \in Tasks : k \notin senders \/ k - 1 \notin receivers => Ended(k)
    /\ \A k \in Tasks : Ended(k) /\ k \notin early => k - 1 \notin senders /\ queue[k - 1] = << >>

\* All ends of the channels are there to begin with.
LEMMA InitEnds == Init => Ends
BY Ends0 DEF Init, Ends, Tasks, Channels, Ended

\* The caller's steps: what it does with its own ends is no task's.
LEMMA CallerEnds == TypeOK /\ Ends /\ (Put \/ CloseInput \/ Get \/ DropOutput) => Ends'
<1> SUFFICES ASSUME TypeOK, Ends, Put \/ CloseInput \/ Get \/ DropOutput PROVE Ends'
  OBVIOUS
<1>1. \A k \in Tasks : k # 0 /\ k - 1 # Final /\ k - 1 \in Channels
  BY Ends0 DEF Tasks, Channels
<1>2. task' = task /\ early' = early /\ senders' \subseteq senders
  BY DEF Put, CloseInput, Get, DropOutput
<1>3. \A k \in Tasks : (k \in senders => k \in senders') /\ (k - 1 \in receivers => k - 1 \in receivers')
  BY <1>1 DEF Put, CloseInput, Get, DropOutput
<1>4. ASSUME NEW k \in Tasks, Ended(k), k \notin early
      PROVE  k - 1 \notin senders' /\ queue'[k - 1] = << >>
  <2>1. k - 1 \notin senders /\ queue[k - 1] = << >>
    BY <1>4 DEF Ends
  <2>2. CASE Put
    BY <1>1, <1>2, <2>1, <2>2 DEF Put, TypeOK
  <2>3. CASE CloseInput
    BY <1>2, <2>1, <2>3 DEF CloseInput
  <2>4. CASE Get
    BY <1>1, <1>2, <2>1, <2>4 DEF Get, TypeOK
  <2>5. CASE DropOutput
    BY <1>1, <1>2, <2>1, <2>5 DEF DropOutput, TypeOK
  <2> QED  BY <2>2, <2>3, <2>4, <2>5
<1> QED  BY <1>2, <1>3, <1>4 DEF Ends, Ended

\* The steps of task j.
LEMMA TaskEnds == TypeOK /\ Ends /\ (\E j \in Tasks : Work(j) \/ Quit(j)) => Ends'
<1> SUFFICES ASSUME TypeOK, Ends, NEW j \in Tasks, Work(j) \/ Quit(j) PROVE Ends'
  OBVIOUS
<1>1. \A k \in Tasks : k - 1 \in Channels /\ k \in Channels /\ (k - 1 = j - 1 => k = j) /\ k - 1 # k
  BY Ends0 DEF Tasks, Channels
<1>2. CASE Recv(j)
  <2>1. ~Ended(j)' /\ ~Ended(j) /\ \A k \in Tasks : k # j => task'[k] = task[k] /\ queue'[k - 1] = queue[k - 1]
    BY <1>1, <1>2 DEF Recv, Ended, TypeOK
  <2>2. senders' = senders /\ receivers' = receivers /\ early' = early
    BY <1>2 DEF Recv
  <2> QED  BY <2>1, <2>2 DEF Ends, Ended
<1>3. CASE Send(j)
  <2>1. ~Ended(j)' /\ ~Ended(j) /\ \A k \in Tasks : k # j => task'[k] = task[k]
    BY <1>3 DEF Send, Ended, TypeOK
  <2>2. senders' = senders /\ receivers' = receivers /\ early' = early
    BY <1>3 DEF Send
  <2>3. \A k \in Tasks : k - 1 # j => queue'[k - 1] = queue[k - 1]
    BY <1>1, <1>3 DEF Send, TypeOK
  <2>4. j \in senders
    BY <2>1 DEF Ends
  <2> QED  BY <2>1, <2>2, <2>3, <2>4 DEF Ends, Ended
<1>4. CASE SendRefused(j) \/ InputEnds(j) \/ Quit(j)
  <2>1. senders' = senders /\ receivers' = receivers /\ queue' = queue
    BY <1>4 DEF SendRefused, InputEnds, Quit, Leave
  <2>2. ~Ended(j) /\ \A k \in Tasks : k # j => task'[k] = task[k]
    BY <1>4 DEF SendRefused, InputEnds, Quit, Leave, Ended, TypeOK
  <2>3. early \subseteq early' /\ (Ended(j)' /\ j \notin early' => j - 1 \notin senders /\ queue[j - 1] = << >>)
    BY <1>4 DEF SendRefused, InputEnds, Quit, Leave, Ended, TypeOK
  <2> QED  BY <2>1, <2>2, <2>3 DEF Ends, Ended
<1>5. CASE DropSender(j)
  <2>1. Ended(j) /\ senders' = senders \ {j} /\ UNCHANGED <<queue, receivers, task, early>>
    BY <1>5 DEF DropSender
  <2> QED  BY <2>1 DEF Ends, Ended
<1>6. CASE DropReceiver(j)
  <2>1. Ended(j) /\ receivers' = receivers \ {j - 1} /\ UNCHANGED <<senders, task, early>>
    BY <1>6 DEF DropReceiver
  <2>2. \A k \in Tasks : queue'[k - 1] = queue[k - 1] \/ queue'[k - 1] = << >>
    BY <1>1, <1>6 DEF DropReceiver, TypeOK
  <2> QED  BY <1>1, <2>1, <2>2 DEF Ends, Ended
<1> QED  BY <1>2, <1>3, <1>4, <1>5, <1>6 DEF Work

\* Every step keeps Ends.
LEMMA NextEnds == TypeOK /\ Ends /\ [Next]_vars => Ends'
<1> SUFFICES ASSUME TypeOK, Ends, [Next]_vars PROVE Ends'
  OBVIOUS
<1>1. CASE UNCHANGED vars
  BY <1>1 DEF vars, Ends, Ended
<1>2. CASE Join \/ Finish \/ MonitorPanics
  BY <1>2 DEF Join, Finish, MonitorPanics, Ends, Ended
<1>3. (\E k \in Tasks : Work(k) \/ Quit(k)) => Ends'
  BY TaskEnds
<1> QED  BY <1>1, <1>2, <1>3, CallerEnds DEF Next

\* The channels and hands are a chain, and what is on the way is a sequence of frames.
Chain == IsChain(queue, held, Final) /\ OnTheWay \in Seq(Nat)

\* What is on the way is a list of frames.
LEMMA Chained == TypeOK => Chain
<1> SUFFICES ASSUME TypeOK PROVE Chain
  OBVIOUS
<1>1. sent \in Nat /\ 1 .. sent \subseteq Nat
  BY PipelineAssumption DEF TypeOK
<1>2. \A s : s \in Seq(1 .. sent) => s \in Seq(Nat)
  BY <1>1, SeqMonotonic
<1>3. IsChain(queue, held, Final)
  BY <1>2 DEF TypeOK, IsChain, Channels, Tasks
<1>4. Final \in Nat /\ Final \in 0 .. Final
  BY Ends0
<1>5. \A c \in 0 .. Final : Behind(queue, held)[c] \in Seq(Nat)
  BY ONLY <1>3, <1>4, BehindType
<1> QED  BY <1>3, <1>4, <1>5 DEF OnTheWay, Chain

\* Put puts the frame last on the way, where there is still room for it.
LEMMA PutFlows ==
  ASSUME TypeOK, TypeOK', Put
  PROVE  /\ OnTheWay' = Append(OnTheWay, sent + 1)
         /\ Len(OnTheWay) < (Final + 1) * BufferSize + Final
<1>1. Final \in Nat \ {0} /\ sent + 1 \in Nat /\ BufferSize \in Nat
  BY Ends0, PipelineAssumption DEF TypeOK
<1>2. IsChain(queue, held, Final) /\ IsChain(queue', held', Final) /\ held' = held
  <2>1. held' = held
    BY DEF Put
  <2>2. Chain /\ Chain'
    BY Chained, PTL
  <2> QED  BY <2>1, <2>2 DEF Chain
<1>3. /\ queue'[0] = Append(queue[0], sent + 1)
      /\ \A c \in 0 .. Final : c # 0 => queue[c] = queue'[c]
  <2>1. DOMAIN queue = 0 .. Final /\ 0 \in 0 .. Final
    BY <1>1 DEF TypeOK, Channels
  <2> QED  BY <2>1 DEF Put
<1>4. OnTheWay' = Append(OnTheWay, sent + 1)
  <2>1. IsChain(queue', held, Final)
    BY <1>2
  <2>2. Behind(queue', held)[Final] = Append(Behind(queue, held)[Final], sent + 1)
    BY ONLY <1>1, <1>2, <1>3, <2>1, PutAppends, SMTT(30)
  <2> QED  BY <1>2, <2>2 DEF OnTheWay
<1>5. Len(OnTheWay) <= Len(queue[0]) + Final * (BufferSize + 1)
  <2>1. \A c \in 1 .. Final : Len(queue[c]) + Len(held[c]) <= BufferSize + 1
    <3>1. SUFFICES ASSUME NEW c \in 1 .. Final
                   PROVE  Len(queue[c]) + Len(held[c]) <= BufferSize + 1
      OBVIOUS
    <3>2. c \in Channels /\ c \in Tasks
      BY <1>1 DEF Channels, Tasks
    <3>3. Len(queue[c]) <= BufferSize /\ Len(held[c]) = IF task[c] = "holding" THEN 1 ELSE 0
      BY <3>2 DEF TypeOK
    <3>4. Len(queue[c]) \in Nat /\ Len(held[c]) \in Nat /\ Len(held[c]) <= 1
      BY <3>2, <3>3 DEF TypeOK
    <3>5. \A x, y \in Nat : x <= BufferSize /\ y <= 1 => x + y <= BufferSize + 1
      BY <1>1
    <3> QED  BY ONLY <3>3, <3>4, <3>5, Zenon
  <2>2. BufferSize + 1 \in Nat /\ Final \in Nat /\ Final \in 0 .. Final
    BY <1>1
  <2>3. \A c \in 0 .. Final : Len(Behind(queue, held)[c]) <= Len(queue[0]) + c * (BufferSize + 1)
    BY ONLY <1>2, <2>1, <2>2, BehindBound, ZenonT(60)
  <2> QED  BY ONLY <2>2, <2>3 DEF OnTheWay
<1>6. \A l, x \in Nat : x < BufferSize /\ l <= x + Final * (BufferSize + 1)
          => l < (Final + 1) * BufferSize + Final
  BY ONLY <1>1
<1>7. Len(OnTheWay) \in Nat /\ Len(queue[0]) \in Nat /\ Len(queue[0]) < BufferSize
  <2>1. 0 \in Channels
    BY <1>1 DEF Channels
  <2> QED  BY <2>1, Chained DEF Put, TypeOK, Chain
<1> QED  BY ONLY <1>4, <1>5, <1>6, <1>7, Zenon

\* Get takes the first frame on the way.
LEMMA GetFlows ==
  ASSUME TypeOK, TypeOK', Get
  PROVE  /\ OnTheWay # << >> /\ OnTheWay' = Tail(OnTheWay)
         /\ delivered' = Append(delivered, Head(OnTheWay))
<1>1. Final \in Nat /\ Final \in 0 .. Final
  BY Ends0
<1>2. IsChain(queue, held, Final) /\ IsChain(queue', held, Final) /\ held' = held
  <2>1. held' = held
    BY DEF Get
  <2>2. Chain /\ Chain'
    BY Chained, PTL
  <2> QED  BY <2>1, <2>2 DEF Chain
<1>3. /\ queue[Final] # << >> /\ queue'[Final] = Tail(queue[Final])
      /\ \A c \in 0 .. Final : c # Final => queue[c] = queue'[c]
      /\ delivered' = Append(delivered, Head(queue[Final]))
  <2>1. DOMAIN queue = 0 .. Final
    BY DEF TypeOK, Channels
  <2> QED  BY <1>1, <2>1 DEF Get
<1>4. /\ Behind(queue, held)[Final] # << >>
      /\ Head(Behind(queue, held)[Final]) = Head(queue[Final])
      /\ Behind(queue', held)[Final] = Tail(Behind(queue, held)[Final])
  BY ONLY <1>1, <1>2, <1>3, GetTakesFirst, SMTT(30)
<1> QED  BY <1>2, <1>3, <1>4 DEF OnTheWay

\* Recv and Send move a frame without changing what is on the way.
LEMMA MoveFlows ==
  ASSUME TypeOK, TypeOK', NEW k \in Tasks, Recv(k) \/ Send(k)
  PROVE  OnTheWay' = OnTheWay
<1>1. Final \in Nat /\ k \in 1 .. Final /\ k \in 0 .. Final
  BY Ends0 DEF Tasks
<1>2. IsChain(queue, held, Final) /\ IsChain(queue', held', Final)
  <2>1. Chain /\ Chain'
    BY Chained, PTL
  <2> QED  BY <2>1 DEF Chain
<1>3. DOMAIN queue = 0 .. Final /\ DOMAIN held = 1 .. Final
  BY DEF TypeOK, Channels, Tasks
<1>4. CASE Recv(k)
  <2>1. PICK p \in 0 .. Final : p = k - 1
    BY <1>1
  <2>2. /\ queue[p] # << >> /\ queue'[p] = Tail(queue[p])
        /\ \A c \in 0 .. Final : c # p => queue[c] = queue'[c]
    BY <1>3, <1>4, <2>1 DEF Recv
  <2>3. /\ held'[k] = <<Head(queue[p])>>
        /\ \A c \in 1 .. Final : c # k => held[c] = held'[c]
    BY <1>1, <1>3, <1>4, <2>1 DEF Recv
  <2>4. held[k] = << >>
    BY <1>4 DEF Recv, TypeOK
  <2>5. IsTake(queue, held, queue', held', k, p, Final)
    BY ONLY <2>2, <2>3, <2>4 DEF IsTake
  <2>6. Behind(queue', held')[Final] = Behind(queue, held)[Final]
    BY ONLY <1>1, <1>2, <2>1, <2>5, TakeKeeps
  <2> QED  BY <2>6 DEF OnTheWay
<1>5. CASE Send(k)
  <2>1. IsSend(queue, held, queue', held', k, Final)
    BY <1>1, <1>3, <1>5 DEF Send, IsSend
  <2>2. Behind(queue', held')[Final] = Behind(queue, held)[Final]
    BY ONLY <1>1, <1>2, <2>1, SendKeeps, SMTT(30)
  <2> QED  BY <2>2 DEF OnTheWay
<1> QED  BY <1>4, <1>5

\* A task that leaves cuts out what it holds.
LEMMA LeaveCuts ==
  ASSUME TypeOK, TypeOK', NEW k \in Tasks, queue' = queue, held' = [held EXCEPT ![k] = << >>]
  PROVE  Cut(OnTheWay, OnTheWay', held[k])
<1>1. Final \in Nat /\ k \in 1 .. Final
  BY Ends0 DEF Tasks
<1>2. IsChain(queue, held, Final) /\ IsChain(queue, held', Final)
  <2>1. Chain /\ Chain'
    BY Chained, PTL
  <2> QED  BY <2>1 DEF Chain
<1>3. held'[k] = << >> /\ \A c \in 1 .. Final : c # k => held[c] = held'[c]
  BY <1>1 DEF TypeOK, Tasks
<1>4. Cut(Behind(queue, held)[Final], Behind(queue, held')[Final], held[k])
  BY ONLY <1>1, <1>2, <1>3, CutHand, SMTT(30)
<1> QED  BY <1>4 DEF OnTheWay

\* A receiver that goes cuts out what is left in its channel.
LEMMA DropCuts ==
  ASSUME TypeOK, TypeOK', NEW m \in Channels, held' = held, queue' = [queue EXCEPT ![m] = << >>]
  PROVE  Cut(OnTheWay, OnTheWay', queue[m])
<1>1. Final \in Nat /\ m \in 0 .. Final
  BY Ends0 DEF Channels
<1>2. IsChain(queue, held, Final) /\ IsChain(queue', held, Final)
  <2>1. Chain /\ Chain'
    BY Chained, PTL
  <2> QED  BY <2>1 DEF Chain
<1>3. queue'[m] = << >> /\ \A c \in 0 .. Final : c # m => queue[c] = queue'[c]
  BY <1>1 DEF TypeOK, Channels
<1>4. Cut(Behind(queue, held)[Final], Behind(queue', held)[Final], queue[m])
  BY ONLY <1>1, <1>2, <1>3, CutBuffer, SMTT(30)
<1> QED  BY <1>4 DEF OnTheWay

\* Nothing cut out is nothing changed.
LEMMA CutNothing == ASSUME NEW f, NEW g, Cut(f, g, << >>) PROVE f = g
BY ConcatEmptySeq DEF Cut

\* A part cut out is what the stream calls Lose.
LEMMA CutIsLoss ==
  ASSUME NEW f, NEW g, NEW C \in Seq(Nat), Cut(f, g, C)
  PROVE  \/ f = g
         \/ \E a \in 0 .. Len(f) : \E b \in a + 1 .. Len(f) :
                g = SubSeq(f, 1, a) \o SubSeq(f, b + 1, Len(f))
<1>1. PICK A \in Seq(Nat), Z \in Seq(Nat) : f = A \o C \o Z /\ g = A \o Z
  BY DEF Cut
<1>2. CASE C = << >>
  BY <1>2, CutNothing
<1>3. CASE C # << >>
  <2> DEFINE a == Len(A)
             b == Len(A) + Len(C)
             s == SubSeq(f, 1, a)
             t == SubSeq(f, b + 1, Len(f))
  <2>1. /\ a \in Nat /\ Len(C) \in Nat \ {0} /\ Len(Z) \in Nat
        /\ f \in Seq(Nat) /\ Len(f) = b + Len(Z)
    BY <1>1, <1>3
  <2>2. A = s
    BY <1>1, <1>3
  <2>3. Z = t
    BY <1>1, <1>3
  <2>4. a \in 0 .. Len(f) /\ b \in a + 1 .. Len(f)
    BY <2>1
  <2> HIDE DEF a, b
  <2> QED  BY ONLY <1>1, <2>2, <2>3, <2>4
<1> QED  BY <1>2, <1>3

\* What a step does to the frames on the way and at the two ends: one of the steps of
\* the stream, or nothing, while early and the last receiver are as NothingLost has them.
Moved ==
    \/ /\ sent' = sent + 1 /\ OnTheWay' = Append(OnTheWay, sent + 1)
       /\ delivered' = delivered
    \/ /\ OnTheWay # << >> /\ OnTheWay' = Tail(OnTheWay)
       /\ delivered' = Append(delivered, Head(OnTheWay)) /\ sent' = sent
    \/ OnTheWay' = OnTheWay /\ delivered' = delivered /\ sent' = sent

\* Nobody has left early, and the last receiver is there, if so after a step.
LEMMA StillWhole ==
  ASSUME TypeOK, [Next]_vars, early' = {}, Final \in receivers'
  PROVE  early = {} /\ Final \in receivers
<1> USE DEF endVars, callerVars
<1>1. receivers' \subseteq receivers
  BY LeftForGood
<1>2. early \subseteq early'
  <2>1. CASE UNCHANGED vars
    BY <2>1 DEF vars
  <2>2. CASE Put \/ CloseInput \/ Get \/ DropOutput \/ Join \/ Finish \/ MonitorPanics
    BY <2>2 DEF Put, CloseInput, Get, DropOutput, Join, Finish, MonitorPanics
  <2>3. CASE \E k \in Tasks : Work(k) \/ Quit(k)
    BY <2>3 DEF Work, Recv, Send, SendRefused, InputEnds, Leave, DropSender, DropReceiver, Quit
  <2> QED  BY <2>1, <2>2, <2>3 DEF Next
<1> QED  BY <1>1, <1>2

\* As long as nobody leaves early nothing is cut out.
LEMMA NothingCut ==
  ASSUME TypeOK, TypeOK', Ends, [Next]_vars, early' = {}, Final \in receivers'
  PROVE  Moved
<1> USE DEF endVars, callerVars
<1>1. early = {} /\ Final \in receivers
  BY StillWhole
<1>2. (queue' = queue /\ held' = held) => OnTheWay' = OnTheWay
  BY DEF OnTheWay
<1>3. CASE UNCHANGED vars
  BY <1>2, <1>3 DEF vars, Moved
<1>4. CASE Put
  BY <1>4, PutFlows DEF Put, Moved
<1>5. CASE Get
  BY <1>5, GetFlows DEF Get, Moved
<1>6. CASE CloseInput \/ Join \/ Finish \/ MonitorPanics
  BY <1>2, <1>6 DEF CloseInput, Join, Finish, MonitorPanics, Moved
<1>7. CASE DropOutput
  BY <1>7 DEF DropOutput
<1>8. ASSUME NEW k \in Tasks, Work(k) \/ Quit(k) PROVE Moved
  <2>1. k \in 1 .. Final /\ Final \in Nat /\ k - 1 \in Channels
    BY Ends0 DEF Tasks, Channels
  <2>2. CASE Recv(k) \/ Send(k)
    <3>1. OnTheWay' = OnTheWay
      BY <2>2, MoveFlows
    <3> QED  BY <2>2, <3>1 DEF Recv, Send, Moved
  <2>3. CASE SendRefused(k)
    <3>1. task[k] = "holding" /\ k \notin receivers
      BY <2>3 DEF SendRefused
    <3>2. k # Final
      BY <1>1, <3>1
    <3>3. k + 1 \in Tasks /\ (k + 1) - 1 = k
      BY <2>1, <3>2 DEF Tasks
    <3>4. Ended(k + 1) /\ k + 1 \notin early
      BY <1>1, <3>1, <3>3 DEF Ends
    <3>5. k \notin senders
      BY <3>3, <3>4 DEF Ends
    <3>6. Ended(k)
      BY <3>5 DEF Ends
    <3> QED  BY <3>1, <3>6 DEF Ended
  <2>4. CASE InputEnds(k)
    <3>1. held[k] = << >> /\ held' = [held EXCEPT ![k] = << >>] /\ queue' = queue
      BY <2>4 DEF InputEnds, Leave, TypeOK
    <3>2. held' = held
      BY <3>1 DEF TypeOK
    <3> QED  BY <1>2, <2>4, <3>1, <3>2 DEF InputEnds, Leave, Moved
  <2>5. CASE Quit(k)
    BY <2>5 DEF Quit
  <2>6. CASE DropSender(k)
    BY <1>2, <2>6 DEF DropSender, Moved
  <2>7. CASE DropReceiver(k)
    <3>1. queue[k - 1] = << >>
      BY <1>1, <2>7 DEF Ends, DropReceiver
    <3>2. queue' = queue
      BY <2>1, <2>7, <3>1 DEF DropReceiver, TypeOK
    <3> QED  BY <1>2, <2>7, <3>2 DEF DropReceiver, Moved
  <2> QED  BY <1>8, <2>2, <2>3, <2>4, <2>5, <2>6, <2>7 DEF Work
<1> QED  BY <1>3, <1>4, <1>5, <1>6, <1>7, <1>8 DEF Next

\* Nothing is on the way at first.
LEMMA InitFlows == Init => OnTheWay = << >>
<1> SUFFICES ASSUME Init PROVE OnTheWay = << >>
  OBVIOUS
<1>1. TypeOK /\ Chain
  BY InitType, Chained
<1>2. OnTheWay \in Seq(Nat) /\ IsChain(queue, held, Final) /\ Final \in Nat /\ Final \in 0 .. Final
  BY <1>1, Ends0 DEF Chain
<1>3. \A c \in 1 .. Final : Len(queue[c]) + Len(held[c]) <= 0
  BY Ends0 DEF Init, Channels, Tasks
<1>4. \A c \in 0 .. Final : Len(Behind(queue, held)[c]) <= Len(queue[0]) + c * 0
  BY ONLY <1>2, <1>3, 0 \in Nat, BehindBound, ZenonT(60)
<1>5. Len(queue[0]) = 0
  BY Ends0 DEF Init, Channels
<1>6. Len(OnTheWay) <= 0
  BY ONLY <1>2, <1>4, <1>5 DEF OnTheWay
<1> QED  BY <1>2, <1>6

\* What came out and what is on the way is what was sent, in that order.
InOrder ==
    early = {} /\ Final \in receivers => delivered \o OnTheWay = [f \in 1 .. sent |-> f]

\* Nothing has been sent to begin with.
LEMMA InitInOrder == Init => InOrder
<1> SUFFICES ASSUME Init PROVE InOrder
  OBVIOUS
<1>1. OnTheWay = << >> /\ delivered = << >> /\ sent = 0
  BY InitFlows DEF Init
<1>2. [f \in 1 .. 0 |-> f] = << >>
  OBVIOUS
<1> QED  BY <1>1, <1>2 DEF InOrder

\* A frame that comes out is the next after those that came out before.
LEMMA FirstToLast ==
  \A s, t \in Seq(Nat) : t # << >> => Append(s, Head(t)) \o Tail(t) = s \o t
<1> SUFFICES ASSUME NEW s \in Seq(Nat), NEW t \in Seq(Nat), t # << >>
             PROVE  Append(s, Head(t)) \o Tail(t) = s \o t
  OBVIOUS
<1>1. Head(t) \in Nat /\ Tail(t) \in Seq(Nat) /\ <<Head(t)>> \in Seq(Nat)
  BY TakeOne
<1>2. Append(s, Head(t)) = s \o <<Head(t)>>
  BY <1>1
<1>3. <<Head(t)>> \o Tail(t) = t
  BY <1>1
<1>4. (s \o <<Head(t)>>) \o Tail(t) = s \o (<<Head(t)>> \o Tail(t))
  BY <1>1, Assoc
<1> QED  BY <1>2, <1>3, <1>4

\* Every step keeps InOrder.
LEMMA NextInOrder ==
  ASSUME TypeOK, TypeOK', Ends, InOrder, [Next]_vars
  PROVE  InOrder'
<1>1. SUFFICES ASSUME early' = {}, Final \in receivers'
               PROVE  delivered' \o OnTheWay' = [f \in 1 .. sent' |-> f]
  BY DEF InOrder
<1>2. Moved
  BY <1>1, NothingCut
<1>3. delivered \o OnTheWay = [f \in 1 .. sent |-> f]
  BY <1>1, StillWhole DEF InOrder
<1>4. sent \in Nat /\ OnTheWay \in Seq(Nat) /\ delivered \in Seq(Nat)
  <2>1. sent \in Nat /\ 1 .. sent \subseteq Nat /\ delivered \in Seq(1 .. sent)
    BY PipelineAssumption DEF TypeOK
  <2>2. delivered \in Seq(Nat)
    BY <2>1, SeqMonotonic
  <2> QED  BY <2>1, <2>2, Chained DEF Chain
<1> HIDE <1>2
<1>5. CASE sent' = sent + 1 /\ OnTheWay' = Append(OnTheWay, sent + 1) /\ delivered' = delivered
  <2> DEFINE w == delivered \o OnTheWay
  <2>1. delivered \o Append(OnTheWay, sent + 1) = Append(w, sent + 1)
    BY ONLY <1>4
  <2>2. w = [f \in 1 .. sent |-> f]
    BY <1>3
  <2> HIDE DEF w
  <2>3. Append(w, sent + 1) = [f \in 1 .. sent + 1 |-> f]
    BY ONLY <1>4, <2>2
  <2> QED  BY ONLY <1>5, <2>1, <2>3
<1>6. CASE /\ OnTheWay # << >> /\ OnTheWay' = Tail(OnTheWay)
           /\ delivered' = Append(delivered, Head(OnTheWay)) /\ sent' = sent
  <2>1. Append(delivered, Head(OnTheWay)) \o Tail(OnTheWay) = delivered \o OnTheWay
    BY ONLY <1>4, <1>6, FirstToLast
  <2> QED  BY ONLY <1>3, <1>6, <2>1
<1>7. CASE OnTheWay' = OnTheWay /\ delivered' = delivered /\ sent' = sent
  BY ONLY <1>3, <1>7
<1> QED  BY <1>2, <1>5, <1>6, <1>7 DEF Moved

\* When every task is gone and none left early, all channels but the last are empty.
LEMMA OnlyTheLast ==
  ASSUME TypeOK, Joins, Ends, early = {}, handle = "ready"
  PROVE  OnTheWay = queue[Final]
<1>1. Final \in Nat \ {0} /\ Final - 1 \in Nat /\ Final \in 1 .. Final
      /\ Final - 1 \in 0 .. Final
  BY Ends0
<1>2. \A k \in 1 .. Final : Ended(k)
  BY DEF Joins, Done
<1>3. \A k \in 1 .. Final : held[k] = << >>
  <2>1. ASSUME NEW k \in 1 .. Final PROVE held[k] = << >>
    <3>1. Len(held[k]) = 0 /\ held[k] \in Seq(1 .. sent)
      BY <1>2 DEF TypeOK, Ended, Tasks
    <3> QED  BY <3>1
  <2> QED  BY <2>1
<1>4. \A c \in 0 .. Final - 1 : queue[c] = << >>
  <2>1. ASSUME NEW c \in 0 .. Final - 1 PROVE queue[c] = << >>
    <3>1. c + 1 \in 1 .. Final /\ (c + 1) - 1 = c
      BY <1>1
    <3> QED  BY <1>2, <3>1 DEF Ends, Tasks
  <2> QED  BY <2>1
<1>5. IsChain(queue, held, Final) /\ DOMAIN queue = 0 .. Final
  BY Chained DEF Chain, IsChain
<1> DEFINE m == Final - 1
<1>6. m \in 0 .. Final /\ Final \in Nat /\ 0 \in Nat
  BY <1>1
<1>7. \A c \in 1 .. m : Len(queue[c]) + Len(held[c]) <= 0
  <2>1. ASSUME NEW c \in 1 .. m PROVE Len(queue[c]) + Len(held[c]) <= 0
    <3>1. c \in 0 .. Final - 1 /\ c \in 1 .. Final
      BY <1>1
    <3>2. queue[c] = << >> /\ held[c] = << >>
      BY ONLY <1>3, <1>4, <3>1
    <3> QED  BY ONLY <3>2
  <2> QED  BY <2>1
<1>8. \A c \in 0 .. m : Len(Behind(queue, held)[c]) <= Len(queue[0]) + c * 0
  <2> HIDE DEF m
  <2> QED  BY ONLY <1>5, <1>6, <1>7, BehindBound, ZenonT(60)
<1> DEFINE b == Behind(queue, held)
<1>9. b[m] \in Seq(Nat)
  BY <1>1, <1>5, BehindType
<1>10. queue[0] = << >> /\ m \in 0 .. m
  BY <1>1, <1>4
<1>11. b[m] = << >>
  <2>1. Len(b[m]) <= 0 + m * 0
    BY <1>8, <1>10
  <2> HIDE DEF b
  <2>2. Len(b[m]) <= 0
    BY <1>1, <2>1
  <2> HIDE DEF m
  <2> QED  BY ONLY <1>9, <2>2
<1>12. b[Final] = queue[Final] \o held[Final] \o b[m]
  <2>1. Final \in Nat /\ DOMAIN queue = 0 .. Final
    BY <1>5, <1>6
  <2>2. /\ b[0] = queue[0]
        /\ \A c \in 1 .. Final : b[c] = queue[c] \o held[c] \o b[c - 1]
    BY ONLY <2>1, BehindIs, SMTT(30)
  <2> HIDE DEF b
  <2> QED  BY <1>1, <2>2
<1>13. queue[Final] \in Seq(Nat) /\ held[Final] = << >>
  BY <1>1, <1>3, <1>5 DEF IsChain
<1>14. b[Final] = queue[Final]
  <2> HIDE DEF b, m
  <2> QED  BY ONLY <1>11, <1>12, <1>13, ConcatEmptySeq
<1> QED  BY <1>14 DEF OnTheWay

\* As long as no task left early and the caller keeps its receiver, what was sent has
\* come out or is on its way, in order; once the result is ready nothing is left but
\* in the last channel (processor.rs, pipeline.rs: the loops drain their input).
THEOREM NoFrameLost == Spec => []NothingLost
<1>1. TypeOK /\ Joins /\ Ends /\ InOrder => NothingLost
  BY OnlyTheLast DEF InOrder, NothingLost
<1>2. TypeOK /\ TypeOK' /\ Ends /\ InOrder /\ [Next]_vars => InOrder'
  BY NextInOrder
<1> QED  BY <1>1, <1>2, InitType, NextType, InitJoins, NextJoins, InitEnds, NextEnds,
            InitInOrder, PTL DEF Spec
-----------------------------------------------------------------------------
(* The pipeline is a stream. *)

\* The stream starts empty.
LEMMA InitStream == Init => St!StreamInit
<1> SUFFICES ASSUME Init PROVE St!StreamInit
  OBVIOUS
<1>1. OnTheWay = << >>
  BY InitFlows
<1> QED  BY <1>1 DEF Init, St!StreamInit

\* A step that cuts frames out between the ends, or none, loses them.
LEMMA CutLoses ==
  ASSUME NEW C \in Seq(Nat), Cut(OnTheWay, OnTheWay', C), UNCHANGED callerVars
  PROVE  [St!StreamNext]_(St!streamVars)
<1>1. sent' = sent /\ delivered' = delivered
  BY DEF callerVars
<1>2. \/ OnTheWay = OnTheWay'
      \/ \E a \in 0 .. Len(OnTheWay) : \E b \in a + 1 .. Len(OnTheWay) :
             OnTheWay' = SubSeq(OnTheWay, 1, a) \o SubSeq(OnTheWay, b + 1, Len(OnTheWay))
  BY CutIsLoss
<1> QED  BY ONLY <1>1, <1>2 DEF St!StreamNext, St!Lose, St!streamVars

\* Every step is a step of the stream, or none: only Put, where there is room, puts in,
\* only Get takes out, and whoever leaves cuts out what it held or had not read.
LEMMA NextStream ==
  ASSUME TypeOK, TypeOK', [Next]_vars
  PROVE  [St!StreamNext]_(St!streamVars)
<1> USE DEF endVars, callerVars
<1>1. (queue' = queue /\ held' = held) => OnTheWay' = OnTheWay
  BY DEF OnTheWay
<1>2. (OnTheWay' = OnTheWay /\ sent' = sent /\ delivered' = delivered)
          => [St!StreamNext]_(St!streamVars)
  BY DEF St!streamVars
<1>3. sent \in Nat /\ 1 .. sent \subseteq Nat
  BY PipelineAssumption DEF TypeOK
<1>4. \A k \in Tasks : held[k] \in Seq(Nat)
  BY <1>3, SeqMonotonic DEF TypeOK
<1>5. \A c \in Channels : queue[c] \in Seq(Nat)
  BY <1>3, SeqMonotonic DEF TypeOK
<1>6. CASE UNCHANGED vars \/ CloseInput \/ Join \/ Finish \/ MonitorPanics
  BY <1>1, <1>2, <1>6 DEF vars, CloseInput, Join, Finish, MonitorPanics
<1>7. CASE Put
  <2>1. /\ OnTheWay' = Append(OnTheWay, sent + 1)
        /\ Len(OnTheWay) < (Final + 1) * BufferSize + Final
    BY <1>7, PutFlows
  <2>2. sent' = sent + 1 /\ delivered' = delivered
    BY <1>7 DEF Put
  <2> QED  BY ONLY <2>1, <2>2 DEF St!StreamNext, St!PutIn
<1>8. CASE Get
  <2>1. sent' = sent
    BY <1>8 DEF Get
  <2> QED  BY <1>8, <2>1, GetFlows DEF St!StreamNext, St!TakeOut
<1>9. CASE DropOutput
  <2>1. Final \in Channels
    BY Ends0 DEF Channels
  <2>2. Cut(OnTheWay, OnTheWay', queue[Final])
    BY <1>9, <2>1, DropCuts DEF DropOutput
  <2> QED  BY <1>5, <1>9, <2>1, <2>2, CutLoses DEF DropOutput
<1>10. ASSUME NEW k \in Tasks, Work(k) \/ Quit(k) PROVE [St!StreamNext]_(St!streamVars)
  <2>1. k - 1 \in Channels
    BY Ends0 DEF Tasks, Channels
  <2>2. CASE Recv(k) \/ Send(k)
    <3>1. OnTheWay' = OnTheWay
      BY <2>2, MoveFlows
    <3> QED  BY <1>2, <2>2, <3>1 DEF Recv, Send
  <2>3. CASE SendRefused(k) \/ InputEnds(k) \/ Quit(k)
    <3>1. queue' = queue /\ held' = [held EXCEPT ![k] = << >>] /\ UNCHANGED callerVars
      BY <2>3 DEF SendRefused, InputEnds, Quit, Leave
    <3>2. Cut(OnTheWay, OnTheWay', held[k])
      BY <3>1, LeaveCuts
    <3> QED  BY <1>4, <3>1, <3>2, CutLoses
  <2>4. CASE DropSender(k)
    BY <1>1, <1>2, <2>4 DEF DropSender
  <2>5. CASE DropReceiver(k)
    <3>1. Cut(OnTheWay, OnTheWay', queue[k - 1])
      BY <2>1, <2>5, DropCuts DEF DropReceiver
    <3> QED  BY <1>5, <2>1, <2>5, <3>1, CutLoses DEF DropReceiver
  <2> QED  BY <1>10, <2>2, <2>3, <2>4, <2>5 DEF Work
<1> QED  BY <1>6, <1>7, <1>8, <1>9, <1>10 DEF Next

\* The chain of any number of processors implements one stream: in order, nothing
\* twice, and no more on the way than its buffers and hands hold (pipeline.rs:
\* bounded channels between the tasks).
THEOREM PipelineIsStream == Spec => ImplementsStream
<1>1. TypeOK /\ TypeOK' /\ [Next]_vars => [St!StreamNext]_(St!streamVars)
  BY NextStream
<1> QED  BY <1>1, InitType, NextType, InitStream, PTL DEF Spec, ImplementsStream, St!StreamSpec
=============================================================================
