---------------------------- MODULE MCXPipeline ----------------------------
(* Instances of XPipeline for TLC.                                         *)
EXTENDS XPipeline
=============================================================================
