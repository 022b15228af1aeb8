------------------------------- MODULE MCRates -------------------------------
(* The instance: a season of two nights, and a dearer one that begins on   *)
(* its last.                                                               *)
EXTENDS Rates

Seasons ==
  {[first |-> 1, last |-> 2, priority |-> 0, price |-> 1],
   [first |-> 2, last |-> 3, priority |-> 0, price |-> 2]}
=============================================================================
