--------------------------- MODULE SessionAllocator ---------------------------
(***************************************************************************)
(* What the Chromium pool promises its callers: a session occupies one     *)
(* slot at a time, a slot never holds more sessions than its capacity, and *)
(* losing a browser takes away the sessions of that slot and no other.     *)
(***************************************************************************)
EXTENDS Naturals, FiniteSets

CONSTANTS
  Handles,    \* session handles
  SlotCount,  \* number of slots
  Capacity,   \* sessions a slot can hold
  Nowhere     \* a handle without a slot

VARIABLE placed  \* handle -> the slot it occupies, or Nowhere

AllSlots == 0 .. (SlotCount - 1)
Occupants(s) == {h \in Handles : placed[h] = s}

Init == placed = [h \in Handles |-> Nowhere]

Acquire(h, s) ==
  /\ placed[h] = Nowhere
  /\ Cardinality(Occupants(s)) < Capacity
  /\ placed' = [placed EXCEPT ![h] = s]

Release(h) ==
  /\ placed[h] # Nowhere
  /\ placed' = [placed EXCEPT ![h] = Nowhere]

\* The browsers of some slots go away, with every session they hold.
Lose(lost) ==
  placed' = [h \in Handles |-> IF placed[h] \in lost THEN Nowhere ELSE placed[h]]

Next ==
  \/ \E h \in Handles : (\E s \in AllSlots : Acquire(h, s)) \/ Release(h)
  \/ \E s \in AllSlots : Lose({s})
  \/ Lose(AllSlots)

Spec == Init /\ [][Next]_placed

=============================================================================
