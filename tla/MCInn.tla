-------------------------------- MODULE MCInn --------------------------------
(* The instance: one room, nights numbered from 1, small amounts of money. *)
EXTENDS Desk, TLC

CONSTANTS b1, b2

OneStay  == {[room |-> 1, checkin |-> 3, checkout |-> 4, total |-> 3]}

(* Always at short notice: paid in full at booking.                        *)
NearStay == {[room |-> 1, checkin |-> 2, checkout |-> 4, total |-> 3]}

(* Two stays that share a night.                                           *)
TwoStays ==
  {[room |-> 1, checkin |-> 3, checkout |-> 5, total |-> 2],
   [room |-> 1, checkin |-> 4, checkout |-> 6, total |-> 2]}

(* Nothing tells one booking row from another.                             *)
Symmetry == Permutations({b1, b2})

OneBlock == {[room |-> 1, checkin |-> 3, checkout |-> 5]}
=============================================================================
