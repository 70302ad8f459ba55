--------------------------- MODULE ServerContract ---------------------------
(***************************************************************************)
(* What the Server trait asks of an implementation (xserver/server.rs):    *)
(* a call of run() serves until it ends by itself or the server is told to *)
(* stop, and once the server has been told, every call does return:        *)
(* run_server awaits it with no timeout of its own.                        *)
(***************************************************************************)
CONSTANT Runs      \* the tasks that may call run()

VARIABLES
    serving,   \* the calls of run() under way
    told       \* stop() has been called

contractVars == <<serving, told>>

ContractInit == serving = {} /\ told = FALSE

Run == /\ \E r \in Runs \ serving : serving' = serving \cup {r}
       /\ UNCHANGED told
Tell == ~told /\ told' = TRUE /\ UNCHANGED serving
Return == /\ \E r \in serving : serving' = serving \ {r}
          /\ UNCHANGED told

ContractNext == Run \/ Tell \/ Return

ContractSpec ==
    /\ ContractInit /\ [][ContractNext]_contractVars
    /\ \A r \in Runs : told /\ r \in serving ~> r \notin serving
=============================================================================
