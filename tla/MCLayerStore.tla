---------------------------- MODULE MCLayerStore ----------------------------
(***************************************************************************)
(* Instances of the layer store: three chains stacked on each other, of    *)
(* which the third is one too many, and two clients.                       *)
(***************************************************************************)
EXTENDS LayerStore, TLC

CONSTANTS c1, c2, a, ab, abc

TwoClients == {c1, c2}
Stack == {a, ab, abc}
StackParent == (a :> None) @@ (ab :> a) @@ (abc :> ab)
ClientSymmetry == Permutations(TwoClients)
=============================================================================
