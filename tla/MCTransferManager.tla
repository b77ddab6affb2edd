------------------------- MODULE MCTransferManager -------------------------
(* Instances of TransferManager for model checking. *)
EXTENDS TransferManager, TLC

CONSTANTS c1, c2, c3, k1, k2

\* Two calls share a key and a third needs the same slot: the smallest case
\* with a join, a retry after a cancelled transfer and a wait for a slot.
SharedKeyInit == Init /\ key = c1 :> k1 @@ c2 :> k1 @@ c3 :> k2
SharedKeyFairSpec == SharedKeyInit /\ [][Next]_vars /\ Fairness
=============================================================================
