----------------------------- MODULE MCOccupancy -----------------------------
(* The instance: two rooms, three bookings, spans that overlap and spans   *)
(* that only touch.                                                        *)
EXTENDS Occupancy, TLC

CONSTANTS b1, b2, b3

Asked ==
  {[room |-> 1, checkin |-> 1, checkout |-> 3, total |-> 1],
   [room |-> 1, checkin |-> 2, checkout |-> 4, total |-> 1],
   [room |-> 1, checkin |-> 3, checkout |-> 5, total |-> 1],
   [room |-> 2, checkin |-> 2, checkout |-> 4, total |-> 1]}

Closed ==
  {[room |-> 1, checkin |-> 4, checkout |-> 5],
   [room |-> 2, checkin |-> 1, checkout |-> 5]}

Symmetry == Permutations(Bookings)
=============================================================================
