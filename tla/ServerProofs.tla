---------------------------- MODULE ServerProofs ----------------------------
(***************************************************************************)
(* Proofs about the two implementations of the Server trait: BlockingServer *)
(* for any number of concurrent runs and of stops, XAxumServer for any set *)
(* of connections and both modes; and of the way both go from a stop() to  *)
(* the end of run().                                                       *)
(***************************************************************************)
EXTENDS XAxum, XBlocking, TLAPS

-----------------------------------------------------------------------------
(* BlockingServer.                                                         *)

\* NoStopLost with what it rests on: the value a run looks at and the version it
\* compares say the same.
BlockingInv == BlockingTypeOK /\ NoStopLost

\* At first nobody sleeps and nothing was sent.
LEMMA BlockingInitInv == BlockingInit => BlockingInv
<1> SUFFICES ASSUME BlockingInit PROVE BlockingInv
  OBVIOUS
<1> USE BlockingAssumption DEF BlockingInit
<1>1. value = FALSE /\ version \in 0 .. MaxStops /\ ~(version > 0)
  OBVIOUS
<1>2. pc \in [Runs -> {"idle", "check", "wait", "returned"}] /\ seen \in [Runs -> 0 .. version]
  OBVIOUS
<1> QED
  BY <1>1, <1>2 DEF BlockingInv, BlockingTypeOK, NoStopLost

\* Every step keeps the invariant: a run goes to sleep only while nothing was sent,
\* and what wakes it is that a version was added.
LEMMA BlockingNextInv == BlockingInv /\ [BlockingNext]_blockingVars => BlockingInv'
<1> SUFFICES ASSUME BlockingInv, [BlockingNext]_blockingVars PROVE BlockingInv'
  OBVIOUS
<1> USE BlockingAssumption DEF BlockingInv, BlockingTypeOK, NoStopLost
<1>1. CASE BlockingStop
  <2>1. version \in Nat /\ version + 1 \in 0 .. MaxStops
    BY <1>1 DEF BlockingStop
  <2>2. seen' \in [Runs -> 0 .. version']
    BY <1>1, <2>1 DEF BlockingStop
  <2>3. \A r \in Runs : seen[r] # version + 1
    BY <2>1
  <2>4. value' \in BOOLEAN /\ (value' <=> version' > 0)
    BY <1>1, <2>1 DEF BlockingStop
  <2> QED
    BY <1>1, <2>1, <2>2, <2>3, <2>4 DEF BlockingStop
<1>2. ASSUME NEW r \in Runs, Start(r) PROVE BlockingInv'
  BY <1>2 DEF Start
<1>3. ASSUME NEW r \in Runs, Check(r) PROVE BlockingInv'
  <2>1. CASE value
    BY <1>3, <2>1 DEF Check
  <2>2. CASE ~value
    BY <1>3, <2>2 DEF Check
  <2> QED
    BY <2>1, <2>2
<1>4. ASSUME NEW r \in Runs, Changed(r) PROVE BlockingInv'
  BY <1>4 DEF Changed
<1>5. CASE UNCHANGED blockingVars
  BY <1>5 DEF blockingVars
<1> QED
  BY <1>1, <1>2, <1>3, <1>4, <1>5 DEF BlockingNext

\* Every variable keeps its type, and the value its agreement with the version.
THEOREM BlockingTypeCorrect == BlockingSpec => []BlockingTypeOK
<1>1. BlockingInv => BlockingTypeOK
  BY DEF BlockingInv
<1> QED
  BY <1>1, BlockingInitInv, BlockingNextInv, PTL DEF BlockingSpec

\* No stop() is lost, however many runs share the server and however their looks and
\* waits interleave with the calls of stop().
THEOREM StopsAreSeen == BlockingSpec => []NoStopLost
<1>1. BlockingInv => NoStopLost
  BY DEF BlockingInv
<1> QED
  BY <1>1, BlockingInitInv, BlockingNextInv, PTL DEF BlockingSpec

\* A run that is over has seen a stop: BlockingServer never returns by itself.
THEOREM ReturnsWhenTold == BlockingSpec => [](\A r \in Runs : pc[r] = "returned" => version > 0)
<1> DEFINE Told == \A r \in Runs : pc[r] = "returned" => version > 0
<1>1. BlockingInit => Told
  BY DEF BlockingInit
<1>2. BlockingInv /\ Told /\ [BlockingNext]_blockingVars => Told'
  <2> SUFFICES ASSUME BlockingInv, Told, [BlockingNext]_blockingVars PROVE Told'
    OBVIOUS
  <2> USE BlockingAssumption DEF BlockingInv, BlockingTypeOK
  <2>1. CASE BlockingStop
    BY <2>1 DEF BlockingStop
  <2>2. ASSUME NEW r \in Runs, Start(r) \/ Check(r) \/ Changed(r) PROVE Told'
    BY <2>2 DEF Start, Check, Changed
  <2>3. CASE UNCHANGED blockingVars
    BY <2>3 DEF blockingVars
  <2> QED
    BY <2>1, <2>2, <2>3 DEF BlockingNext
<1> QED
  BY <1>1, <1>2, BlockingInitInv, BlockingNextInv, PTL DEF BlockingSpec
-----------------------------------------------------------------------------
(* XAxumServer.                                                            *)

\* Only stop() makes run() stop accepting.
DrainsWhenTold == pending \/ run \in {"draining", "ok"} => told

AxumInv == TypeOK /\ DrainsWhenTold /\ ReturnedMeansDrained

\* The initial state has all the parts of the invariant.
LEMMA AxumInitInv == Init => AxumInv
BY DEF Init, AxumInv, TypeOK, DrainsWhenTold, ReturnedMeansDrained

\* Every step keeps the invariant: once run() drains no connection comes to life,
\* and it returns Ok when none is left or the limit of h2c ran out.
LEMMA AxumNextInv == AxumInv /\ [Next]_vars => AxumInv'
<1> SUFFICES ASSUME AxumInv, [Next]_vars PROVE AxumInv'
  OBVIOUS
<1> USE DEF AxumInv, TypeOK, DrainsWhenTold, ReturnedMeansDrained, Alive
<1>1. CASE Bind
  BY <1>1 DEF Bind
<1>2. CASE Subscribe
  BY <1>2 DEF Subscribe
<1>3. CASE NoticeStop
  BY <1>3 DEF NoticeStop
<1>4. CASE Drained
  BY <1>4 DEF Drained
<1>5. CASE GiveUp
  BY <1>5 DEF GiveUp
<1>6. CASE AcceptFails
  BY <1>6 DEF AcceptFails
<1>7. CASE Stop
  BY <1>7 DEF Stop
<1>8. ASSUME NEW c \in Conns, Accept(c) PROVE AxumInv'
  BY <1>8 DEF Accept
<1>9. ASSUME NEW c \in Conns, Request(c) \/ Respond(c) \/ CloseIdle(c) \/ Disconnect(c)
      PROVE AxumInv'
  <2>1. conn[c] \in {"open", "busy"} /\ conn' \in [Conns -> {"none", "open", "busy", "gone"}]
    BY <1>9 DEF Request, Respond, CloseIdle, Disconnect
  <2>2. \A d \in Conns : d # c => conn'[d] = conn[d]
    BY <1>9 DEF Request, Respond, CloseIdle, Disconnect
  <2>3. Alive' \subseteq Alive
    BY <2>1, <2>2
  <2> QED
    BY <1>9, <2>1, <2>3 DEF Request, Respond, CloseIdle, Disconnect
<1>10. CASE UNCHANGED vars
  BY <1>10 DEF vars
<1> QED
  BY <1>1, <1>2, <1>3, <1>4, <1>5, <1>6, <1>7, <1>8, <1>9, <1>10 DEF Next, RunSteps

\* Every variable keeps its type.
THEOREM AxumTypeCorrect == Spec => []TypeOK
<1>1. AxumInv => TypeOK
  BY DEF AxumInv
<1> QED
  BY <1>1, AxumInitInv, AxumNextInv, PTL DEF Spec

\* Whenever run() has returned Ok there was a stop() and its connections are gone, or
\* the limit of h2c ran out, for any number of connections.
THEOREM ServesNobodyAfter == Spec => []ReturnedMeansDrained
<1>1. AxumInv => ReturnedMeansDrained
  BY DEF AxumInv
<1> QED
  BY <1>1, AxumInitInv, AxumNextInv, PTL DEF Spec
-----------------------------------------------------------------------------
(* The contract.  That a server which was told to stop does return is for  *)
(* TLC, and XAxumServer does not keep it; what is proved is that nothing   *)
(* leads away from the return once the stop has arrived.                   *)

\* A step of a run of BlockingServer leads from its wait to its look, and from the look
\* out of run().
Nearer(r) ==
    \/ pc'[r] = pc[r]
    \/ pc[r] = "wait" /\ pc'[r] = "check"
    \/ pc[r] = "check" /\ pc'[r] = "returned"

ToldRunsAdvance == \A r \in Runs : version > 0 /\ pc[r] \in {"check", "wait"} => Nearer(r)

\* After a stop() no run of BlockingServer goes to sleep again: it is woken, looks, and
\* returns, whatever other runs and stops do.  With StopsAreSeen, by which one that sleeps
\* is due to wake, this bounds every run by two more steps of its own.
THEOREM ToldRunsReturn == BlockingSpec => [][ToldRunsAdvance]_blockingVars
<1>1. BlockingInv /\ [BlockingNext]_blockingVars => [ToldRunsAdvance]_blockingVars
  <2> SUFFICES ASSUME BlockingInv, BlockingNext,
                      NEW r \in Runs, version > 0, pc[r] \in {"check", "wait"}
               PROVE  Nearer(r)
    BY DEF ToldRunsAdvance
  <2> USE DEF BlockingInv, BlockingTypeOK, Nearer
  <2>1. CASE BlockingStop
    BY <2>1 DEF BlockingStop
  <2>2. ASSUME NEW q \in Runs, Start(q) PROVE Nearer(r)
    BY <2>2 DEF Start
  <2>3. ASSUME NEW q \in Runs, Check(q) PROVE Nearer(r)
    BY <2>3 DEF Check
  <2>4. ASSUME NEW q \in Runs, Changed(q) PROVE Nearer(r)
    BY <2>4 DEF Changed
  <2> QED  BY <2>1, <2>2, <2>3, <2>4 DEF BlockingNext
<1> QED  BY <1>1, BlockingInitInv, BlockingNextInv, PTL DEF BlockingSpec

\* The way of a connection to its end: once it is asked to finish it may still get the
\* request it waits for, but no second one.
Way == [none |-> 3, open |-> 2, busy |-> 1, gone |-> 0]

HeardStopAdvance ==
    /\ pending => pending' \/ run' \in {"draining", "err"}
    /\ run = "draining" =>
           /\ run' \in {"draining", "ok"} /\ Alive' \subseteq Alive
           /\ \A c \in Alive : conn'[c] = conn[c] \/ Way[conn'[c]] < Way[conn[c]]

\* Once run() of XAxumServer has a stop it keeps it until it drains, or until accept()
\* fails; and while it drains it goes back to nothing: it accepts no connection, and those
\* there are come nearer to their end with every step they take.
THEOREM HeardStopsAdvance == Spec => [][HeardStopAdvance]_vars
<1>1. TypeOK /\ [Next]_vars => [HeardStopAdvance]_vars
  <2> SUFFICES ASSUME TypeOK, Next PROVE HeardStopAdvance
    OBVIOUS
  <2> USE DEF TypeOK, Alive, HeardStopAdvance
  <2>1. CASE Bind \/ Subscribe \/ AcceptFails
    BY <2>1 DEF Bind, Subscribe, AcceptFails
  <2>2. CASE NoticeStop
    BY <2>2 DEF NoticeStop
  <2>3. CASE Drained \/ GiveUp
    BY <2>3 DEF Drained, GiveUp
  <2>4. CASE Stop
    BY <2>4 DEF Stop
  <2>5. ASSUME NEW c \in Conns, Accept(c) PROVE HeardStopAdvance
    BY <2>5 DEF Accept
  <2>6. ASSUME NEW c \in Conns, Request(c) \/ Respond(c) \/ CloseIdle(c) \/ Disconnect(c)
        PROVE  HeardStopAdvance
    <3>1. UNCHANGED <<run, pending>>
      BY <2>6 DEF Request, Respond, CloseIdle, Disconnect
    <3>2. \A d \in Conns : d # c => conn'[d] = conn[d]
      BY <2>6 DEF Request, Respond, CloseIdle, Disconnect
    <3>3. \/ conn[c] = "open" /\ conn'[c] \in {"busy", "gone"}
          \/ conn[c] = "busy" /\ conn'[c] = "gone"
          \/ run # "draining"
      BY <2>6 DEF Request, Respond, CloseIdle, Disconnect, Signalled
    <3> QED  BY <3>1, <3>2, <3>3 DEF Way
  <2> QED  BY <2>1, <2>2, <2>3, <2>4, <2>5, <2>6 DEF Next, RunSteps
<1> QED  BY <1>1, AxumTypeCorrect, PTL DEF Spec
=============================================================================
