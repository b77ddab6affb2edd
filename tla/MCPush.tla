------------------------------- MODULE MCPush -------------------------------
(* Instances of module Push for model checking.                            *)
EXTENDS Push, TLC

CONSTANTS p1, p2, a, b

PushCalls == Pushes \X (1..maxTags) \X Layers

\* The pushes share layer b; p1 pushes two tags, the second with layer a twice.
SharedImages == (p1 :> <<<<b>>, <<a, b, a>>>>) @@ (p2 :> <<<<b>>>>)

\* The registry starts without the layers; it may get them at any attempt.
EmptyRegistryInit == PushInit /\ remote = {}
EmptyRegistrySpec == EmptyRegistryInit /\ [][PushNext]_allVars
EmptyRegistryFairSpec == EmptyRegistrySpec /\ PushFairness

\* Both pushes push the same layer.
SameLayer == (p1 :> <<<<b, b>>>>) @@ (p2 :> <<<<b>>>>)
=============================================================================
