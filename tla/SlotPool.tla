------------------------------ MODULE SlotPool ------------------------------
(***************************************************************************)
(* What a bridge promises about connections that have not authenticated    *)
(* (packages/bridge/lib/peer-manager.js, the comment at line 158): at most *)
(* Cap of them hold a slot, each takes one slot at a time and gives back   *)
(* exactly the one it took.                                                *)
(***************************************************************************)
EXTENDS Integers

CONSTANTS
  User,  \* what may hold a slot
  Cap    \* number of slots

VARIABLES
  held,  \* the users that hold a slot
  free   \* the number of free slots

Init == held = {} /\ free = Cap

Acquire(u) ==
  /\ u \notin held /\ free > 0
  /\ held' = held \cup {u}
  /\ free' = free - 1

Release(u) ==
  /\ u \in held
  /\ held' = held \ {u}
  /\ free' = free + 1

Next == \E u \in User : Acquire(u) \/ Release(u)

Spec == Init /\ [][Next]_<<held, free>>
==============================================================================
