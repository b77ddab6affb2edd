------------------------------ MODULE SlotPool ------------------------------
(***************************************************************************)
(* What the transfer manager promises about its slots, without the counter *)
(* and the channels that implement it: a job holds a slot, or waits in     *)
(* line, or neither; no more than limit jobs hold one; nobody waits while  *)
(* a slot is free; a slot given back goes to the head of the line.         *)
(***************************************************************************)
EXTENDS Naturals, Sequences, FiniteSets

CONSTANTS Jobs, limit

VARIABLES holding, line

Init == holding = {} /\ line = << >>

InLine(j) == \E i \in 1..Len(line) : line[i] = j

\* A job that neither holds nor waits asks for a slot.
Acquire(j) ==
    /\ j \notin holding /\ ~InLine(j)
    /\ \/ /\ Cardinality(holding) < limit
          /\ holding' = holding \cup {j}
          /\ line' = line
       \/ /\ Cardinality(holding) >= limit
          /\ holding' = holding
          /\ line' = Append(line, j)

\* A holder gives its slot to the head of the line, or back to the pool.
Yield(j) ==
    /\ j \in holding
    /\ \/ /\ line # << >>
          /\ holding' = (holding \ {j}) \cup {Head(line)}
          /\ line' = Tail(line)
       \/ /\ line = << >>
          /\ holding' = holding \ {j}
          /\ line' = line

Next == \E j \in Jobs : Acquire(j) \/ Yield(j)

Spec == Init /\ [][Next]_<<holding, line>>
=============================================================================
