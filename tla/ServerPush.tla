----------------------------- MODULE ServerPush -----------------------------
(***************************************************************************)
(* A push at the parameter server, from its body to the outer step: the    *)
(* session that reads the body (StreamedPush) and what the outer           *)
(* optimizers make of its gradients (OuterSteps).                          *)
(***************************************************************************)
EXTENDS OuterSteps, StreamedPush

\* A push is stepped only as a whole, as its sender sent it (StreamedPush), and
\* its gradients go where they belong (OuterSteps).
PushesRight == StreamTypeOK /\ AppliedOwn /\ StepsSound
=============================================================================
