------------------------- MODULE MCTransferProgress -------------------------
(***************************************************************************)
(* Two watchers of one transfer that sends up to two events.               *)
(***************************************************************************)
EXTENDS TransferProgress

CONSTANTS w1, w2

TwoWatchers == {w1, w2}
=============================================================================
