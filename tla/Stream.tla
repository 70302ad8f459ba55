------------------------------- MODULE Stream -------------------------------
(***************************************************************************)
(* What a pipeline promises to its two ends, without how: the frames put   *)
(* in come out in the order they went in, each at most once; no more than  *)
(* Capacity of them are on their way at any time, the producer waits       *)
(* beyond that; and some may be lost on the way.                           *)
(***************************************************************************)
EXTENDS Naturals, Sequences

CONSTANT Capacity   \* how many frames can be on their way, a natural

VARIABLES
    put,       \* the number of frames put in; they are numbered as they come
    flying,    \* the frames on their way, the first to come out first
    taken      \* the frames that came out

streamVars == <<put, flying, taken>>

StreamInit == put = 0 /\ flying = <<>> /\ taken = <<>>

PutIn ==
    /\ Len(flying) < Capacity
    /\ put' = put + 1
    /\ flying' = Append(flying, put + 1)
    /\ UNCHANGED taken

TakeOut ==
    /\ flying # <<>>
    /\ taken' = Append(taken, Head(flying))
    /\ flying' = Tail(flying)
    /\ UNCHANGED put

\* A stage that leaves takes the frames it holds or has not read with it.
Lose ==
    /\ \E a \in 0 .. Len(flying) : \E b \in a + 1 .. Len(flying) :
           flying' = SubSeq(flying, 1, a) \o SubSeq(flying, b + 1, Len(flying))
    /\ UNCHANGED <<put, taken>>

StreamNext == PutIn \/ TakeOut \/ Lose
StreamSpec == StreamInit /\ [][StreamNext]_streamVars
=============================================================================
