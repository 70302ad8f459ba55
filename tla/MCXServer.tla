----------------------------- MODULE MCXServer -----------------------------
(* Instances of XServer for TLC.  A hook is the pair of its list and of the *)
(* module, or user, it belongs to; all of them must succeed, the default.   *)
EXTENDS XServer, TLC

MCPhaseOf == [h \in Hooks |-> h[1]]
MCModuleOf == [h \in Hooks |-> h[2]]
MCMust == [h \in Hooks |-> TRUE]
MCOrder == [h \in Hooks |-> Orders[h[2]][h[1]]]

HooksOf(ms) == {h \in {"start", "stop"} \X ms : h[1] \in DOMAIN Orders[h[2]]}
BuiltinOf(ms) == SelectSeq(BuiltinHookList, LAMBDA h : h[2] \in ms)

MCHooksOne == HooksOf({"log", "user"})
MCBuiltinOne == BuiltinOf({"log"})

MCHooks == HooksOf({"log", "trace", "user"})
MCBuiltin == BuiltinOf({"log", "trace"})

\* Every module there is, and the application.
MCHooksAll == HooksOf(DOMAIN Orders)

\* Bound of the run with all of them: the hooks that fail or run out of time.
FewFail == Cardinality({h \in Hooks : closure[h] = "err" \/ verdict[h] = "timeout"}) <= 1

\* What the theorems about resources ask of the modules' hooks holds of these.
ASSUME StopHooksAssumption == StopHooksThere
=============================================================================
