----------------------------- MODULE MCDeviceSet -----------------------------
(***************************************************************************)
(* Instances of the device set: a base and two devices, two callers and    *)
(* the deletion worker.                                                    *)
(***************************************************************************)
EXTENDS DeviceSet, TLC

CONSTANTS c1, c2, base, h1, h2

Setup(d, discard, p, f) ==
    [deferred |-> d, discard |-> discard, pool |-> p, foreign |-> f]
\* Loopback files that an earlier installation has left hold a device, or no
\* free id.
Many == {Setup("deletion", TRUE, "created", {}), Setup("removal", TRUE, "kept", {1}),
         Setup("none", FALSE, "given", {}), Setup("none", TRUE, "kept", DeviceIDs)}
NewPool == {Setup("none", TRUE, "created", {}), Setup("deletion", FALSE, "given", {})}
SmallHeap == 1..(Cardinality(Hashes) + Cardinality(Clients) + 3)
=============================================================================
