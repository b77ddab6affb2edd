---------------------------- MODULE MCContainer ----------------------------
(* The container of Container.tla with one client that starts, stops and   *)
(* copies it, and one that kills, removes, restarts and renames it.        *)
EXTENDS Container

CONSTANTS c1, c2

Calls == [c \in {c1, c2} |->
            IF c = c1 THEN {"create", "start", "stop", "copy", "export"}
                      ELSE {"kill", "remove", "restart", "rename"}]
=============================================================================
