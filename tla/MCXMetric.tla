----------------------------- MODULE MCXMetric -----------------------------
(* Instances of XMetric for TLC.  Keys and words are numbered in the order of *)
(* the strings; "app" is word 9.                                            *)
EXTENDS XMetric, TLC

MCNames == {<<1>>, <<9, 1>>}
OneSeries == {<< <<1, "a">>, <<2, "b">> >>, << <<2, "b">>, <<1, "a">> >>}
MCConfigs == {DefaultConfig, [namespace |-> <<9>>, buckets |-> "own"]}
=============================================================================
