------------------------------ MODULE MCXAxum ------------------------------
(* Instances of XAxum for TLC.                                             *)
EXTENDS XAxum
=============================================================================
