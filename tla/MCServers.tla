----------------------------- MODULE MCServers -----------------------------
(* The crate's two servers side by side in one process, for TLC: each takes *)
(* its own steps, under its own fairness, and leaves the other alone.       *)
EXTENDS XAxum, XBlocking

ServersInit == Init /\ BlockingInit

ServersNext ==
    \/ Next /\ UNCHANGED blockingVars
    \/ BlockingNext /\ UNCHANGED vars

ServersSpec ==
    /\ ServersInit /\ [][ServersNext]_<<vars, blockingVars>>
    /\ Fairness /\ BlockingFairness
=============================================================================
