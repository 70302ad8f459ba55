------------------------------ MODULE MCXTask ------------------------------
(* An instance of XTask for TLC: more jobs than places and workers.         *)
EXTENDS XTask

MCPooled == {"p1", "p2", "p3"}
MCJobs == MCPooled \cup {"task"}
MCRetries == [j \in Jobs |-> IF j \in Pooled THEN 0 ELSE 1]
=============================================================================
