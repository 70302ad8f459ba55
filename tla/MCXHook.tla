------------------------------ MODULE MCXHook ------------------------------
(* Instances of XHook for TLC.                                             *)
EXTENDS XHook

\* "c" goes before "a" and "b", which tie; "b" may fail.
MCPhaseOf == [h \in Hooks |-> "start"]
MCOrder == [h \in Hooks |-> IF h = "c" THEN 10 ELSE 100]
MCMust == [h \in Hooks |-> h # "b"]
=============================================================================
