------------------------------ MODULE MCXFlow ------------------------------
(* Instances of XFlow for TLC.                                             *)
EXTENDS XFlow

MCWeak == {2, 3}
=============================================================================
