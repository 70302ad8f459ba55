------------------------------- MODULE XModules -------------------------------
(***************************************************************************)
(* The hooks the modules register and the orders they give them: a hook of *)
(* a lower order runs earlier, among the start hooks and among the stop    *)
(* hooks alike.  Each module gives its numbers by itself; what they mean   *)
(* for one another shows only when they are read together.                 *)
(***************************************************************************)
EXTENDS Integers, Sequences

I32Max == 2147483647

\* The register_hook functions of the modules; xconfig and xhttp stop nothing.
XConfigOrder == [start |-> 10]
XLogOrder == [start |-> 30, stop |-> I32Max - 30]
XTraceOrder == [start |-> 20, stop |-> I32Max - 20]
XHttpOrder == [start |-> 40]
XMetricOrder == [start |-> 45, stop |-> I32Max - 45]
XOrmOrder == [start |-> 50, stop |-> I32Max - 50]

\* Mutant: the stop order is not derived from the module's own start order.
XRedisOrderCopied == [start |-> 55, stop |-> I32Max - 40]

XRedisOrder == [start |-> 55, stop |-> I32Max - 55]
XCacheOrder == [start |-> 60, stop |-> I32Max - 60]

\* HookOptions::default, what the application's own hooks get.
UserOrder == [start |-> 100, stop |-> 100]

Orders == [config |-> XConfigOrder, log |-> XLogOrder, trace |-> XTraceOrder,
           http |-> XHttpOrder, metric |-> XMetricOrder, orm |-> XOrmOrder,
           redis |-> XRedisOrder, cache |-> XCacheOrder, user |-> UserOrder]

\* register_builtin_hooks, with every feature on: the hooks in the order they are
\* pushed, each as its list and its module.
BuiltinHookList == <<
    <<"start", "config">>,
    <<"start", "log">>, <<"stop", "log">>,
    <<"start", "trace">>, <<"stop", "trace">>,
    <<"start", "http">>,
    <<"start", "metric">>, <<"stop", "metric">>,
    <<"start", "orm">>, <<"stop", "orm">>,
    <<"start", "redis">>, <<"stop", "redis">>,
    <<"start", "cache">>, <<"stop", "cache">> >>
=============================================================================
