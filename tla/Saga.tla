------------------------------- MODULE Saga --------------------------------
(***************************************************************************)
(* What a flow promises, without how: N steps are done one after another;  *)
(* either all of them get done, or one fails and everything done before it *)
(* is undone, last first.  The only other way out is to be abandoned half  *)
(* way, when a callback that nothing guards panics.                        *)
(***************************************************************************)
EXTENDS Naturals, Sequences

CONSTANT N     \* the number of steps, a natural

VARIABLES
    mode,    \* "forward", "backward", or how it ended
    stack    \* the steps done and not undone

sagaVars == <<mode, stack>>

SagaInit == mode = "forward" /\ stack = <<>>

Advance ==
    /\ mode = "forward"
    /\ Len(stack) < N
    /\ stack' = Append(stack, Len(stack) + 1)
    /\ UNCHANGED mode

Fail ==
    /\ mode = "forward"
    /\ Len(stack) < N
    /\ mode' = "backward"
    /\ UNCHANGED stack

Undo ==
    /\ mode = "backward"
    /\ stack # <<>>
    /\ stack' = SubSeq(stack, 1, Len(stack) - 1)
    /\ UNCHANGED mode

Commit ==
    /\ mode = "forward"
    /\ Len(stack) = N
    /\ mode' = "committed"
    /\ UNCHANGED stack

Abort ==
    /\ mode = "backward"
    /\ stack = <<>>
    /\ mode' = "aborted"
    /\ UNCHANGED stack

Abandon ==
    /\ mode \in {"forward", "backward"}
    /\ mode' = "abandoned"
    /\ UNCHANGED stack

SagaNext == Advance \/ Fail \/ Undo \/ Commit \/ Abort \/ Abandon

SagaSafety == SagaInit /\ [][SagaNext]_sagaVars
SagaSpec == SagaSafety /\ WF_sagaVars(SagaNext)
=============================================================================
