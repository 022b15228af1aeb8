------------------------------ MODULE Occupancy ------------------------------
(***************************************************************************)
(* The two tables that say who has which room: the status of a booking     *)
(* (bookings.status) and the rows of room_occupancy.  A booking made       *)
(* through the site or the console has one room, so it has at most one row *)
(* of room_occupancy, and occ[b] is the kind of that row: "hold" while its *)
(* expires_at is ahead, "lapsed" once it has passed and the row is still   *)
(* there, "booking" once the hold is promoted, "none" without a row.       *)
(* Blocks have no booking, and are the spans in blocks.                    *)
(*                                                                         *)
(* This is the specification of what the rooms may do whatever happens to  *)
(* the money; the payment handlers implement it.                           *)
(***************************************************************************)
EXTENDS Integers, FiniteSets

CONSTANTS
  Bookings,      \* identities of booking rows
  Requests,      \* what can be asked for: [room, checkin, checkout, total]
  Blockable,     \* spans an owner may block: [room, checkin, checkout]
  NoRequest      \* the request of a booking row not written yet

VARIABLES
  status,        \* bookings.status, "absent" before the row is written
  stay,          \* the room and the nights the booking asked for
  occ,           \* the kind of the booking's row of room_occupancy
  blocks         \* the spans of the rows of kind 'block'

roomVars == <<status, stay, occ, blocks>>

ASSUME SpanAssumption ==
  /\ \A r \in Requests \union Blockable :
        r.checkin \in Int /\ r.checkout \in Int /\ r.checkin < r.checkout
  /\ NoRequest \notin Requests

Statuses == {"absent", "pending", "confirmed", "cancelled", "expired"}

Kinds == {"none", "hold", "lapsed", "booking"}

-----------------------------------------------------------------------------
(* The exclusion constraint: no two rows of one room whose half-open date  *)
(* ranges overlap.                                                         *)
Overlap(r, s) ==
  /\ r.room = s.room
  /\ r.checkin < s.checkout
  /\ s.checkin < r.checkout

(* What decides an insert into room_occupancy, given the rows there are.   *)
Free(r, stays, rows, blocked) ==
  /\ \A b \in Bookings : rows[b] # "none" => ~Overlap(r, stays[b])
  /\ \A k \in blocked : ~Overlap(r, k)

-----------------------------------------------------------------------------
Init ==
  /\ status = [b \in Bookings |-> "absent"]
  /\ stay = [b \in Bookings |-> NoRequest]
  /\ occ = [b \in Bookings |-> "none"]
  /\ blocks = {}

(* A guest's checkout takes a hold; the owner's phone booking is confirmed *)
(* and takes the room outright.                                            *)
Reserve(b, r, manual) ==
  /\ status[b] = "absent"
  /\ Free(r, stay, occ, blocks)
  /\ status' = [status EXCEPT ![b] = IF manual THEN "confirmed" ELSE "pending"]
  /\ stay' = [stay EXCEPT ![b] = r]
  /\ occ' = [occ EXCEPT ![b] = IF manual THEN "booking" ELSE "hold"]
  /\ UNCHANGED blocks

(* Mutant: the room is taken again without asking who has it.              *)
SecureAnyway(b) ==
  /\ status[b] # "absent"
  /\ status' = [status EXCEPT ![b] = "confirmed"]
  /\ occ' = [occ EXCEPT ![b] = "booking"]
  /\ UNCHANGED <<stay, blocks>>

(* Confirming a stay secures its room: the hold is promoted in place, a    *)
(* stay that has its room keeps it, and one without takes it again only    *)
(* when nothing else has it.                                               *)
Secure(b) ==
  /\ status[b] # "absent"
  /\ occ[b] = "none" => Free(stay[b], stay, occ, blocks)
  /\ status' = [status EXCEPT ![b] = "confirmed"]
  /\ occ' = [occ EXCEPT ![b] = "booking"]
  /\ UNCHANGED <<stay, blocks>>

(* Mutant: the room stays off sale.                                        *)
WithdrawOnly(b) ==
  /\ status[b] # "absent"
  /\ status' = [status EXCEPT ![b] = "cancelled"]
  /\ UNCHANGED <<stay, occ, blocks>>

(* Cancelling a stay puts its room back on sale in the same transaction.   *)
Withdraw(b) ==
  /\ status[b] # "absent"
  /\ status' = [status EXCEPT ![b] = "cancelled"]
  /\ occ' = [occ EXCEPT ![b] = "none"]
  /\ UNCHANGED <<stay, blocks>>

(* now() passes expires_at.                                                *)
HoldLapses(b) ==
  /\ occ[b] = "hold"
  /\ occ' = [occ EXCEPT ![b] = "lapsed"]
  /\ UNCHANGED <<status, stay, blocks>>

SweepExpiredHolds ==
  /\ occ' = [b \in Bookings |-> IF occ[b] = "lapsed" THEN "none" ELSE occ[b]]
  /\ UNCHANGED <<status, stay, blocks>>

(* The abandoned are some of the pending bookings whose hold is gone.      *)
ExpireAbandonedBookings(abandoned) ==
  /\ \A b \in abandoned : status[b] = "pending" /\ occ[b] \notin {"hold", "lapsed"}
  /\ status' = [b \in Bookings |-> IF b \in abandoned THEN "expired" ELSE status[b]]
  /\ UNCHANGED <<stay, occ, blocks>>

Block(k) ==
  /\ Free(k, stay, occ, blocks)
  /\ blocks' = blocks \union {k}
  /\ UNCHANGED <<status, stay, occ>>

Unblock(k) ==
  /\ k \in blocks
  /\ blocks' = blocks \ {k}
  /\ UNCHANGED <<status, stay, occ>>

Next ==
  \/ \E b \in Bookings, r \in Requests, manual \in BOOLEAN : Reserve(b, r, manual)
  \/ \E b \in Bookings : Secure(b) \/ Withdraw(b) \/ HoldLapses(b)
  \/ SweepExpiredHolds
  \/ \E abandoned \in SUBSET Bookings : ExpireAbandonedBookings(abandoned)
  \/ \E k \in Blockable : Block(k) \/ Unblock(k)

Spec == Init /\ [][Next]_roomVars

-----------------------------------------------------------------------------
(* Every booking row has a status, a request once it is written, and at    *)
(* most one row of room_occupancy; a block is a span the owner asked for.  *)
TypeOK ==
  /\ status \in [Bookings -> Statuses]
  /\ stay \in [Bookings -> Requests \union {NoRequest}]
  /\ occ \in [Bookings -> Kinds]
  /\ blocks \subseteq Blockable
  /\ \A b \in Bookings : status[b] = "absent" <=> stay[b] = NoRequest

(* payments.RecordCharge: "a booking is never left confirmed with no       *)
(* occupancy behind it".  A stay is confirmed exactly when it has a        *)
(* permanent row, and a hold belongs to a checkout still pending; a        *)
(* cancelled or expired stay keeps no room off sale.                       *)
ConfirmedHoldsRoom ==
  \A b \in Bookings :
    /\ status[b] = "confirmed" <=> occ[b] = "booking"
    /\ occ[b] \in {"hold", "lapsed"} => status[b] = "pending"

(* Two rows of room_occupancy never overlap in one room.                   *)
Exclusion ==
  /\ \A b, c \in Bookings :
       b # c /\ occ[b] # "none" /\ occ[c] # "none" => ~Overlap(stay[b], stay[c])
  /\ \A b \in Bookings, k \in blocks : occ[b] # "none" => ~Overlap(stay[b], k)
  /\ \A j, k \in blocks : j # k => ~Overlap(j, k)

(* The promise the site makes to guests: two confirmed stays never share a *)
(* room for a night, and no confirmed stay is on a night the owner blocked.*)
NoDoubleBooking ==
  /\ \A b, c \in Bookings :
       b # c /\ status[b] = "confirmed" /\ status[c] = "confirmed"
         => ~Overlap(stay[b], stay[c])
  /\ \A b \in Bookings, k \in blocks :
       status[b] = "confirmed" => ~Overlap(stay[b], k)

(* The inductive invariant behind NoDoubleBooking.                         *)
RoomInv == TypeOK /\ ConfirmedHoldsRoom /\ Exclusion
=============================================================================
