--------------------------- MODULE ConnectionLimit ---------------------------
(***************************************************************************)
(* What the accept loop promises: connections are admitted one at a time,  *)
(* never more than Limit at once, each gives its place back exactly once.  *)
(***************************************************************************)
EXTENDS Integers

CONSTANT Limit

VARIABLE places   \* places taken

Init == places = 0

Admit ==
  /\ places < Limit
  /\ places' = places + 1

GiveBack ==
  /\ places > 0
  /\ places' = places - 1

Next == Admit \/ GiveBack

Spec == Init /\ [][Next]_places
=============================================================================
