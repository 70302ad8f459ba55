----------------------------- MODULE MCXLayers -----------------------------
(* An instance of XLayers for TLC.                                          *)
EXTENDS XLayers

Orders == {<< >>, <<"metric", "recover">>, <<"recover", "session", "metric">>}
MCBuilders == [log : {TRUE}, trace : {TRUE}, mws : Orders]
              \cup {[log |-> FALSE, trace |-> TRUE, mws |-> <<"recover">>],
                    [log |-> TRUE, trace |-> FALSE, mws |-> <<"metric">>]}
=============================================================================
