----------------------------- MODULE MCDownload -----------------------------
(* Downloads of an image of two layers and of one with the same blob twice; *)
(* an image of the first layer may be there already.                        *)
EXTENDS Download

CONSTANTS a1, a2, x, y

Pulls == [a \in {a1, a2} |-> IF a = a1 THEN {<<x, y>>} ELSE {<<x, y>>, <<x, x>>}]
Base == {<<x>>}
=============================================================================
