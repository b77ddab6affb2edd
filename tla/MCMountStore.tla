---------------------------- MODULE MCMountStore ----------------------------
(***************************************************************************)
(* An instance of the whole layer store: one chain, one name for a         *)
(* writable layer, and two clients.                                        *)
(***************************************************************************)
EXTENDS MountStore, TLC

CONSTANTS c1, c2, a, n1

TwoClients == {c1, c2}
OneChain == {a}
OneParent == a :> None
OneName == {n1}
ClientSymmetry == Permutations(TwoClients)
=============================================================================
