------------------------------ MODULE MCImages ------------------------------
(* The images of Images.tla: a pulled image of one layer and an image that *)
(* is committed on top of it.  The clients are interchangeable.            *)
EXTENDS Images, TLC

Chains == [i \in Images |-> IF i = pulled THEN {1} ELSE {1, 2}]
Symmetry == Permutations(Clients)
=============================================================================
