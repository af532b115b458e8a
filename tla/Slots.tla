-------------------------------- MODULE Slots --------------------------------
(***************************************************************************)
(* What a concurrency limit promises, without saying how: at most Max       *)
(* invocations hold a slot, one that asks while a slot is free gets it, the *)
(* others get theirs in the order in which they asked, and a slot that is   *)
(* given back never lies idle while somebody waits.                         *)
(***************************************************************************)
EXTENDS Naturals, Sequences, FiniteSets

CONSTANTS Inv, Max

VARIABLES
  held,  \* the invocations that have a slot
  line   \* those that wait, in order of arrival

vars == <<held, line>>

InLine(i) == \E k \in 1..Len(line) : line[k] = i

Init == held = {} /\ line = <<>>

Ask(i) ==
  /\ i \notin held /\ ~InLine(i)
  /\ IF Cardinality(held) < Max
     THEN held' = held \cup {i} /\ UNCHANGED line
     ELSE line' = Append(line, i) /\ UNCHANGED held

Return(i) ==
  /\ i \in held
  /\ IF line = <<>>
     THEN held' = held \ {i} /\ UNCHANGED line
     ELSE held' = (held \ {i}) \cup {Head(line)} /\ line' = Tail(line)

Next == \E i \in Inv : Ask(i) \/ Return(i)

Spec == Init /\ [][Next]_vars
=============================================================================
