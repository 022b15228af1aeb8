-------------------------------- MODULE MCParts --------------------------------
(***************************************************************************)
(* The parts of a booking that can be looked at alone, in one instance:    *)
(* the rows of room_occupancy, the two answers to what can be booked, a    *)
(* quote with what cancelling it would return, and the refund job over a   *)
(* ledger.  `part' is the one that moves.                                  *)
(***************************************************************************)
EXTENDS MCOccupancy, MCPricing, MCRefundPlan, Search

VARIABLE part

RoomSizes == [room \in SearchRooms |-> 2 * room]

(* The parts that do not look at a quote stay with the empty one.          *)
Unquoted ==
  /\ nightly = [n \in 1..2 |-> 0] /\ rate = 0 /\ retention = 0

PartsInit ==
  /\ part \in {"occupancy", "search", "quote", "refund"}
  /\ part # "quote" => Unquoted
  /\ part # "search" => maxStayNights = 2
  /\ QuoteInit /\ PlanInit /\ Init /\ SearchInit

PartsNext ==
  /\ UNCHANGED part
  /\ \/ part = "occupancy" /\ Next /\ UNCHANGED <<searchVars, quoted, planned>>
     \/ part = "search" /\ SearchNext /\ UNCHANGED <<roomVars, quoted, planned>>
     \/ part = "quote" /\ QuoteNext /\ UNCHANGED <<roomVars, searchVars, planned>>
     \/ part = "refund" /\ PlanNext /\ UNCHANGED <<roomVars, searchVars, quoted>>

PartsSpec == PartsInit /\ [][PartsNext]_<<part, roomVars, searchVars, quoted, planned>>
=============================================================================
