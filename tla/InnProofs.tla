------------------------------ MODULE InnProofs ------------------------------
(***************************************************************************)
(* The inn implements Occupancy: whatever the payments, the jobs and the    *)
(* console do, the rooms only ever take steps that Occupancy allows.  And   *)
(* its books are true: nothing is confirmed before the money due at booking *)
(* has arrived, no step takes anything off the gross, the ledger claims     *)
(* what the processor did and no more, the gross is its sum, and the flag   *)
(* of a refused card goes with its letter.  All for any bookings, requests, *)
(* blocks, amounts and bounds.                                             *)
(***************************************************************************)
EXTENDS Inn, PricingProofs

Written(b) == b \in Bookings /\ status[b] # "absent"

(* Whatever is in flight, at the processor or in a transaction, is about a *)
(* booking whose row is written: the only states from which an action of   *)
(* the payments may move a room.                                           *)
FlightInv ==
  /\ status = [b \in Bookings |-> status[b]]
  /\ refundJob = [b \in Bookings |-> refundJob[b]]
  /\ refunding = [b \in Bookings |-> refunding[b]]
  /\ \A i \in intents : Written(i.b)
  /\ \A r \in receipts : Known(r.id)
  /\ \A id \in declines : Known(id)
  /\ \A t \in charging : Written(t.in.b)
  /\ \A c \in cancelling : Written(c.b)
  /\ \A d \in balance.todo : Written(d.b)
  /\ balance.call.type = "charge" => Known(balance.call.id)
  /\ balance.call.type = "failure" => Written(balance.call.b)
  /\ \A b \in Bookings : refundJob[b] # NoJob \/ refunding[b].on \/ refunding[b].sent
                           => Written(b)

LEMMA KnownIntent ==
  ASSUME NEW id, Known(id)
  PROVE  IntentOf(id) \in intents /\ IntentOf(id).id = id
  BY DEF Known, IntentOf

-----------------------------------------------------------------------------
(* A step keeps what is in flight about written bookings: rows are never   *)
(* unwritten, intents are never forgotten, and every action that begins    *)
(* something begins it about a booking it found.                           *)
LEMMA FlightStep ==
  ASSUME FlightInv, [Next]_vars
  PROVE  FlightInv'
<1> USE DEF rooms, money, stripe, flight, FlightInv, Written, Known
<1>1. ASSUME NEW b \in Bookings, NEW r \in Requests, NEW manual \in BOOLEAN,
             Create(b, r, manual)
      PROVE  FlightInv'
  BY <1>1 DEF Create
<1>2. ASSUME NEW b \in Bookings, NEW via, Open(b, via) PROVE FlightInv'
  BY <1>2 DEF Open, CreateIntent, Payable
<1>3. ASSUME NEW b \in Bookings, StartPayment(b) PROVE FlightInv'
  BY <1>3 DEF StartPayment
<1>4. ASSUME NEW b \in Bookings, ReadForCancel(b) PROVE FlightInv'
  BY <1>4 DEF ReadForCancel
<1>5. ASSUME NEW c \in cancelling, Cancel(c) PROVE FlightInv'
  BY <1>5 DEF Cancel, ReleaseAndCancel, QueueRefund
<1>6. ASSUME NEW b \in Bookings, NEW amount, ConsoleRefund(b, amount) PROVE FlightInv'
  BY <1>6 DEF ConsoleRefund, QueueRefund
<1>7. ASSUME NEW k, Block(k) \/ Unblock(k) PROVE FlightInv'
  BY <1>7 DEF Block, Unblock
<1>8. ASSUME NEW i \in intents, NEW amount, DeclinePayment(i) \/ CompletePayment(i, amount)
      PROVE  FlightInv'
  BY <1>8 DEF DeclinePayment, CompletePayment
<1>9. ASSUME NEW r \in receipts, NEW named, DeliverSucceeded(r, named) PROVE FlightInv'
  BY <1>9, KnownIntent DEF DeliverSucceeded, ReadForCharge, ChargeOf
<1>10. ASSUME NEW id, DeliverFailed(id) PROVE FlightInv'
  BY <1>10 DEF DeliverFailed, RecordFailure
<1>11. ASSUME NEW t \in charging, RecordCharge(t) PROVE FlightInv'
  <2>1. CASE ChargeAlreadyApplied(t)
    BY <2>1 DEF ChargeAlreadyApplied, Finish
  <2>2. CASE ChargeUnderpaid(t)
    BY <2>2 DEF ChargeUnderpaid, Finish
  <2>3. CASE ConfirmCharge(t)
    BY <2>3 DEF ConfirmCharge, Finish
  <2>4. CASE RefundDue(t)
    BY <2>4 DEF RefundDue, Finish, ReleaseAndCancel, QueueRefund
  <2> QED
    BY <1>11, <2>1, <2>2, <2>3, <2>4 DEF RecordCharge
<1>12. ASSUME SweepExpiredHolds \/ ExpireAbandonedBookings PROVE FlightInv'
  BY <1>12 DEF SweepExpiredHolds, ExpireAbandonedBookings
<1>13. ASSUME ChargeBalances PROVE FlightInv'
  BY <1>13 DEF ChargeBalances, DueForBalanceCharge
<1>14. ASSUME NEW d \in balance.todo, FlagUncollectable(d) PROVE FlightInv'
  BY <1>14 DEF FlagUncollectable
<1>15. ASSUME NEW d \in balance.todo, ChargeOffSession(d) PROVE FlightInv'
  <2>1. Written(d.b) /\ BalanceIntent(d).b = d.b /\ BalanceIntent(d).id = BalanceKey(d.b)
    BY DEF BalanceIntent
  <2>2. CASE ~Known(BalanceKey(d.b))
    <3>1. intents' = intents \union {BalanceIntent(d)}
      BY <1>15, <2>2 DEF ChargeOffSession
    <3>2. \A id : Known(id) => Known(id)'
      BY <3>1
    <3>3. Known(BalanceKey(d.b))'
      BY <2>1, <3>1
    <3>4. receipts' = receipts \union {[id |-> BalanceKey(d.b), amount |-> d.amount]}
      BY <1>15, <2>2 DEF ChargeOffSession
    <3>5. /\ balance'.todo = balance.todo \ {d}
          /\ balance'.call.type = "charge" => balance'.call.id = BalanceKey(d.b)
          /\ balance'.call.type # "failure"
      BY <1>15, <2>2 DEF ChargeOffSession, Calls, Succeeded, NoCall
    <3>6. \A r \in receipts' : Known(r.id)'
      BY <3>2, <3>3, <3>4
    <3>7. \A i \in intents' : Written(i.b)
      BY <2>1, <3>1
    <3>8. UNCHANGED <<status, refundJob, refunding, declines, charging, cancelling>>
      BY <1>15 DEF ChargeOffSession
    <3> QED
      BY <3>2, <3>3, <3>5, <3>6, <3>7, <3>8
  <2>3. CASE Known(BalanceKey(d.b))
    <3>1. /\ balance'.todo = balance.todo \ {d}
          /\ balance'.call.type = "charge" => balance'.call.id = BalanceKey(d.b)
          /\ balance'.call.type # "failure"
      BY <1>15, <2>3 DEF ChargeOffSession, Calls, Succeeded, NoCall
    <3>2. UNCHANGED <<status, refundJob, refunding, charging, cancelling,
                      intents, receipts, declines>>
      BY <1>15, <2>3 DEF ChargeOffSession
    <3> QED
      BY <2>3, <3>1, <3>2
  <2> QED
    BY <2>2, <2>3
<1>16. ASSUME NEW d \in balance.todo, OffSessionDeclined(d) PROVE FlightInv'
  <2>1. /\ balance'.todo = balance.todo \ {d}
        /\ balance'.call.type = "failure" /\ balance'.call.b = d.b
        /\ UNCHANGED <<status, refundJob, refunding, receipts, charging, cancelling>>
    BY <1>16 DEF OffSessionDeclined, Calls, Refused
  <2>2. CASE UNCHANGED <<intents, declines>>
    BY <2>1, <2>2
  <2>3. CASE /\ intents' = intents \union {BalanceIntent(d)}
             /\ declines' = declines \union {BalanceKey(d.b)}
    <3>1. BalanceIntent(d).b = d.b /\ BalanceIntent(d).id = BalanceKey(d.b)
      BY DEF BalanceIntent
    <3>2. \A id : Known(id) => Known(id)'
      BY <2>3
    <3>3. Known(BalanceKey(d.b))' /\ \A i \in intents' : Written(i.b)
      BY <2>3, <3>1
    <3> QED
      BY <2>1, <2>3, <3>2, <3>3
  <2> QED
    BY <1>16, <2>2, <2>3 DEF OffSessionDeclined
<1>17. ASSUME RecordBalance \/ RecordBalanceFailure PROVE FlightInv'
  <2>1. CASE RecordBalance
    BY <2>1, KnownIntent DEF RecordBalance, ReadForCharge, ChargeOf, NoCall
  <2>2. CASE RecordBalanceFailure
    BY <2>2 DEF RecordBalanceFailure, NoCall
  <2> QED
    BY <1>17, <2>1, <2>2
<1>18. ASSUME NEW b \in Bookings, StartRefund(b) PROVE FlightInv'
  BY <1>18 DEF StartRefund
<1>19. ASSUME NEW b \in Bookings, SendRefund(b) \/ SendRefundUnheard(b) PROVE FlightInv'
  BY <1>19 DEF SendRefund, SendRefundUnheard, NextPart, GiveUp, Idle
<1>20. ASSUME NEW b \in Bookings, RecordRefund(b) PROVE FlightInv'
  BY <1>20, ZenonT(40) DEF RecordRefund, ReleaseAndCancel
<1>21. ASSUME NEW b \in Bookings, FinishRefund(b) PROVE FlightInv'
  BY <1>21 DEF FinishRefund, Idle
<1>22. ASSUME NextDay PROVE FlightInv'
  BY <1>22 DEF NextDay
<1>23. ASSUME NEW b \in Bookings, HoldLapses(b) \/ GraceLapses(b) PROVE FlightInv'
  BY <1>23 DEF HoldLapses, GraceLapses
<1>24. ASSUME Crash PROVE FlightInv'
  BY <1>24 DEF Crash, Idle, NoCall
<1>25. CASE UNCHANGED vars
  BY <1>25 DEF vars
<1> QED
  BY <1>1, <1>2, <1>3, <1>4, <1>5, <1>6, <1>7, <1>8, <1>9, <1>10, <1>11, <1>12, <1>13,
     <1>14, <1>15, <1>16, <1>17, <1>18, <1>19, <1>20, <1>21, <1>22, <1>23, <1>24, <1>25
     DEF Next, Guest, Console, Processor, Record, Jobs, Time

-----------------------------------------------------------------------------
(* A step of the inn is a step of Occupancy or leaves the rooms alone.     *)
LEMMA RoomStep ==
  ASSUME FlightInv, [Next]_vars
  PROVE  [Rooms!Next]_(Rooms!roomVars)
<1> USE DEF rooms, Rooms!roomVars
<1>1. ASSUME NEW b \in Bookings, NEW r \in Requests, NEW manual \in BOOLEAN,
             Create(b, r, manual)
      PROVE  Rooms!Next
  <2>1. Rooms!Reserve(b, r, manual)
    BY <1>1 DEF Create, Rooms!Reserve
  <2> QED
    BY <2>1 DEF Rooms!Next
<1>2. ASSUME NEW c \in cancelling, Cancel(c) PROVE Rooms!Next
  <2>1. c.b \in Bookings /\ Rooms!Withdraw(c.b)
    BY <1>2 DEF Cancel, ReleaseAndCancel, FlightInv, Written, Rooms!Withdraw
  <2> QED
    BY <2>1 DEF Rooms!Next
<1>3. ASSUME NEW t \in charging, ConfirmCharge(t) PROVE Rooms!Next
  <2>1. t.in.b \in Bookings /\ Rooms!Secure(t.in.b)
    BY <1>3 DEF ConfirmCharge, Secured, FlightInv, Written, Rooms!Secure
  <2> QED
    BY <2>1 DEF Rooms!Next
<1>4. ASSUME NEW t \in charging, RefundDue(t) PROVE Rooms!Next
  <2>1. t.in.b \in Bookings /\ Rooms!Withdraw(t.in.b)
    BY <1>4 DEF RefundDue, ReleaseAndCancel, FlightInv, Written, Rooms!Withdraw
  <2> QED
    BY <2>1 DEF Rooms!Next
<1>5. ASSUME NEW b \in Bookings, RecordRefund(b)
      PROVE  Rooms!Next \/ UNCHANGED rooms
  <2>1. Rooms!Withdraw(b) \/ UNCHANGED rooms
    BY <1>5 DEF RecordRefund, ReleaseAndCancel, FlightInv, Written, Rooms!Withdraw
  <2> QED
    BY <2>1 DEF Rooms!Next
<1>6. ASSUME SweepExpiredHolds PROVE Rooms!Next
  <2>1. Rooms!SweepExpiredHolds
    BY <1>6 DEF SweepExpiredHolds, Rooms!SweepExpiredHolds
  <2> QED
    BY <2>1 DEF Rooms!Next
<1>7. ASSUME ExpireAbandonedBookings PROVE Rooms!Next
  <2> DEFINE abandoned == {b \in Bookings : Abandoned(b)}
  <2>1. Rooms!ExpireAbandonedBookings(abandoned)
    BY <1>7 DEF ExpireAbandonedBookings, Abandoned, Rooms!ExpireAbandonedBookings
  <2> QED
    BY <2>1 DEF Rooms!Next
<1>8. ASSUME NEW k \in Blockable, Block(k) \/ Unblock(k) PROVE Rooms!Next
  <2>1. Rooms!Block(k) \/ Rooms!Unblock(k)
    BY <1>8 DEF Block, Unblock, Rooms!Block, Rooms!Unblock
  <2> QED
    BY <2>1 DEF Rooms!Next
<1>9. ASSUME NEW b \in Bookings, HoldLapses(b) PROVE Rooms!Next
  <2>1. Rooms!HoldLapses(b)
    BY <1>9 DEF HoldLapses, Rooms!HoldLapses
  <2> QED
    BY <2>1 DEF Rooms!Next
<1>10. ASSUME NEW b \in Bookings, NEW via, NEW amount,
              \/ Open(b, via) \/ StartPayment(b) \/ ReadForCancel(b)
              \/ ConsoleRefund(b, amount) \/ GraceLapses(b)
       PROVE  UNCHANGED rooms
  BY <1>10 DEF Open, StartPayment, ReadForCancel, ConsoleRefund, GraceLapses
<1>11. ASSUME NEW i, NEW amount, NEW r, NEW named, NEW id,
              \/ DeclinePayment(i) \/ CompletePayment(i, amount)
              \/ DeliverSucceeded(r, named) \/ DeliverFailed(id)
       PROVE  UNCHANGED rooms
  BY <1>11 DEF DeclinePayment, CompletePayment, DeliverSucceeded, DeliverFailed
<1>12. ASSUME NEW t, ChargeAlreadyApplied(t) \/ ChargeUnderpaid(t) PROVE UNCHANGED rooms
  BY <1>12 DEF ChargeAlreadyApplied, ChargeUnderpaid
<1>13. ASSUME NEW d,
              \/ ChargeBalances \/ FlagUncollectable(d) \/ ChargeOffSession(d)
              \/ OffSessionDeclined(d) \/ RecordBalance \/ RecordBalanceFailure
       PROVE  UNCHANGED rooms
  BY <1>13 DEF ChargeBalances, FlagUncollectable, ChargeOffSession,
               OffSessionDeclined, RecordBalance, RecordBalanceFailure
<1>14. ASSUME NEW b,
              \/ StartRefund(b) \/ SendRefund(b) \/ SendRefundUnheard(b) \/ FinishRefund(b)
       PROVE  UNCHANGED rooms
  BY <1>14 DEF StartRefund, SendRefund, SendRefundUnheard, FinishRefund
<1>15. ASSUME NextDay \/ Crash PROVE UNCHANGED rooms
  BY <1>15 DEF NextDay, Crash
<1>16. CASE UNCHANGED vars
  BY <1>16 DEF vars
<1> QED
  BY <1>1, <1>2, <1>3, <1>4, <1>5, <1>6, <1>7, <1>8, <1>9, <1>10, <1>11, <1>12,
     <1>13, <1>14, <1>15, <1>16
     DEF Next, Guest, Console, Processor, Record, RecordCharge, Jobs, Time

(* The refinement: the whole system implements Occupancy.                  *)
THEOREM InnImplementsRooms == Spec => RoomsSpec
<1>1. Init => FlightInv /\ Rooms!Init
  BY DEF Init, FlightInv, Written, Known, Idle, NoCall, Rooms!Init
<1>2. FlightInv /\ [Next]_vars => FlightInv'
  BY FlightStep
<1>3. FlightInv /\ [Next]_vars => [Rooms!Next]_(Rooms!roomVars)
  BY RoomStep
<1> QED
  BY <1>1, <1>2, <1>3, PTL DEF Spec, RoomsSpec, Rooms!Spec

-----------------------------------------------------------------------------
(* What the rooms of the inn keep: the part of RoomInv that does not ask    *)
(* what a request looks like.                                              *)
RoomsApart ==
  /\ status = [b \in Bookings |-> status[b]]
  /\ stay = [b \in Bookings |-> stay[b]]
  /\ occ = [b \in Bookings |-> occ[b]]
  /\ Rooms!ConfirmedHoldsRoom
  /\ Rooms!Exclusion

LEMMA OverlapBothWays ==
  \A r, s : Rooms!Overlap(r, s) => Rooms!Overlap(s, r)
  BY DEF Rooms!Overlap

LEMMA RoomsApartStep ==
  ASSUME RoomsApart, [Rooms!Next]_(Rooms!roomVars)
  PROVE  RoomsApart'
<1> USE DEF RoomsApart, Rooms!ConfirmedHoldsRoom, Rooms!Exclusion
<1>1. ASSUME NEW b \in Bookings, NEW r \in Requests, NEW manual \in BOOLEAN,
             Rooms!Reserve(b, r, manual)
      PROVE  RoomsApart'
  BY <1>1, OverlapBothWays DEF Rooms!Reserve, Rooms!Free
<1>2. ASSUME NEW b \in Bookings, Rooms!Secure(b) PROVE RoomsApart'
  BY <1>2, OverlapBothWays DEF Rooms!Secure, Rooms!Free
<1>3. ASSUME NEW b \in Bookings, Rooms!Withdraw(b) PROVE RoomsApart'
  BY <1>3 DEF Rooms!Withdraw
<1>4. ASSUME NEW b \in Bookings, Rooms!HoldLapses(b) PROVE RoomsApart'
  BY <1>4 DEF Rooms!HoldLapses
<1>5. CASE Rooms!SweepExpiredHolds
  BY <1>5 DEF Rooms!SweepExpiredHolds
<1>6. ASSUME NEW abandoned \in SUBSET Bookings, Rooms!ExpireAbandonedBookings(abandoned)
      PROVE  RoomsApart'
  BY <1>6 DEF Rooms!ExpireAbandonedBookings
<1>7. ASSUME NEW k \in Blockable, Rooms!Block(k) PROVE RoomsApart'
  BY <1>7, OverlapBothWays DEF Rooms!Block, Rooms!Free
<1>8. ASSUME NEW k \in Blockable, Rooms!Unblock(k) PROVE RoomsApart'
  BY <1>8 DEF Rooms!Unblock
<1>9. CASE UNCHANGED Rooms!roomVars
  BY <1>9 DEF Rooms!roomVars
<1> QED
  BY <1>1, <1>2, <1>3, <1>4, <1>5, <1>6, <1>7, <1>8, <1>9 DEF Rooms!Next

LEMMA RoomsStayApart == RoomsSpec => []RoomsApart
<1>1. Rooms!Init => RoomsApart
  BY DEF Rooms!Init, RoomsApart, Rooms!ConfirmedHoldsRoom, Rooms!Exclusion
<1>2. RoomsApart /\ [Rooms!Next]_(Rooms!roomVars) => RoomsApart'
  BY RoomsApartStep
<1> QED
  BY <1>1, <1>2, PTL DEF RoomsSpec, Rooms!Spec

(* RecordCharge: no stay of the inn is ever left confirmed without its room, *)
(* and no stay that is over keeps one off sale, whoever pays, cancels,      *)
(* sweeps or crashes.                                                      *)
THEOREM InnHoldsItsRooms == Spec => []ConfirmedHoldsRoom
<1>1. RoomsApart => ConfirmedHoldsRoom
  BY DEF RoomsApart, ConfirmedHoldsRoom
<1> QED
  BY <1>1, InnImplementsRooms, RoomsStayApart, PTL

(* Two confirmed stays never share a room for a night, and none is on a     *)
(* night the owner blocked, whatever the payments do.                      *)
THEOREM InnSellsNoRoomTwice == Spec => []NoDoubleBooking
<1>1. RoomsApart => NoDoubleBooking
  BY DEF RoomsApart, NoDoubleBooking, Rooms!NoDoubleBooking,
         Rooms!ConfirmedHoldsRoom, Rooms!Exclusion
<1> QED
  BY <1>1, InnImplementsRooms, RoomsStayApart, PTL

-----------------------------------------------------------------------------
(* The money.                                                               *)

(* The columns of a booking row, and whole cents in the gross.             *)
BillInv ==
  /\ bill = [b \in Bookings |->
               [paid |-> bill[b].paid, scheduled |-> bill[b].scheduled,
                started |-> bill[b].started, card |-> bill[b].card,
                failed |-> bill[b].failed, manual |-> bill[b].manual]]
  /\ \A b \in Bookings : bill[b].paid \in Nat

(* Whole cents wherever a sum is on its way to the gross, and a transaction *)
(* that has read the gross has not read more than there now is: Shortfall   *)
(* is decided by the row as it was read.                                   *)
CashInv ==
  /\ \A r \in receipts : r.amount \in Nat
  /\ \A d \in balance.todo : d.amount \in Nat
  /\ balance.call.type = "charge" => balance.call.amount \in Nat
  /\ \A t \in charging : /\ t.in.amount \in Nat
                         /\ t.found.paid \in Nat
                         /\ t.found.paid <= bill[t.in.b].paid

StayInv ==
  /\ stay = [b \in Bookings |-> stay[b]]
  /\ \A b \in Bookings : status[b] # "absent" => stay[b].total \in Nat

MoneyInv == FlightInv /\ BillInv /\ CashInv /\ StayInv /\ ConfirmedIsPaid

(* No step takes anything off the gross, that is, off any row.             *)
Grows == \A b \in Bookings : bill'[b].paid >= bill[b].paid

-----------------------------------------------------------------------------
(* The money due at booking is a whole number of cents. *)
LEMMA DueIsWhole ==
  ASSUME NEW total \in Nat, NEW shortNotice
  PROVE  ChargeAtBooking(QuoteOf(total), shortNotice) \in Nat
<1>1. QuoteOf(total).total = total /\ QuoteOf(total).deposit \in Nat
  BY SplitIsExact DEF QuoteOf
<1> QED
  BY <1>1 DEF ChargeAtBooking

(* A step that leaves the gross, the plan and the stays alone and confirms *)
(* nothing keeps what was confirmed paid for.                              *)
LEMMA Quiet ==
  ASSUME BillInv, StayInv, ConfirmedIsPaid,
         \A b \in Bookings : /\ bill'[b].paid = bill[b].paid
                             /\ bill'[b].scheduled = bill[b].scheduled
                             /\ bill'[b].manual = bill[b].manual,
         UNCHANGED stay,
         \A b \in Bookings : /\ status'[b] = "confirmed" => status[b] = "confirmed"
                             /\ status'[b] # "absent" => status[b] # "absent"
  PROVE  StayInv' /\ ConfirmedIsPaid' /\ Grows
<1>1. StayInv'
  BY DEF StayInv
<1>2. Grows
  BY DEF Grows, BillInv
<1>3. ConfirmedIsPaid'
  BY DEF ConfirmedIsPaid, Quote, ChargeAtBooking
<1> QED
  BY <1>1, <1>2, <1>3

(* TakeMoney, for any transaction in flight. *)
LEMMA MoneyTaken ==
  ASSUME FlightInv, BillInv, CashInv, NEW t \in charging, TakeMoney(t)
  PROVE  /\ BillInv' /\ Grows
         /\ bill'[t.in.b].paid = bill[t.in.b].paid + t.in.amount
         /\ bill'[t.in.b].scheduled = bill[t.in.b].scheduled
         /\ bill'[t.in.b].manual = bill[t.in.b].manual
         /\ bill'[t.in.b].failed = bill[t.in.b].failed
         /\ \A b \in Bookings \ {t.in.b} : bill'[b] = bill[b]
<1>1. t.in.b \in Bookings /\ t.in.amount \in Nat /\ bill[t.in.b].paid \in Nat
  BY DEF FlightInv, Written, CashInv, BillInv
<1>2. bill' = [bill EXCEPT ![t.in.b].paid = @ + t.in.amount,
                           ![t.in.b].card = @ \/ t.in.card]
  BY DEF TakeMoney
<1>3. DOMAIN bill = Bookings
  BY DEF BillInv
<1>4. \A b \in Bookings \ {t.in.b} : bill'[b] = bill[b]
  BY <1>1, <1>2, <1>3
<1>5. bill'[t.in.b] = [bill[t.in.b] EXCEPT !.paid = @ + t.in.amount,
                                          !.card = @ \/ t.in.card]
  BY <1>1, <1>2, <1>3
<1>6. bill[t.in.b] = [paid |-> bill[t.in.b].paid, scheduled |-> bill[t.in.b].scheduled,
                      started |-> bill[t.in.b].started, card |-> bill[t.in.b].card,
                      failed |-> bill[t.in.b].failed, manual |-> bill[t.in.b].manual]
  BY <1>1 DEF BillInv
<1> DEFINE card == bill[t.in.b].card \/ t.in.card
<1>7. bill'[t.in.b] = [paid |-> bill[t.in.b].paid + t.in.amount,
                       scheduled |-> bill[t.in.b].scheduled,
                       started |-> bill[t.in.b].started, card |-> card,
                       failed |-> bill[t.in.b].failed, manual |-> bill[t.in.b].manual]
  <2>1. bill'[t.in.b] = [bill[t.in.b] EXCEPT !.paid = bill[t.in.b].paid + t.in.amount,
                                            !.card = card]
    BY <1>5
  <2> HIDE DEF card
  <2> QED
    BY <1>6, <2>1
<1> HIDE DEF card
<1>8. Grows
  <2>1. ASSUME NEW b \in Bookings PROVE bill'[b].paid >= bill[b].paid
    <3>1. bill[b].paid \in Nat
      BY DEF BillInv
    <3>2. CASE b = t.in.b
      <4>1. bill'[b].paid = bill[b].paid + t.in.amount
        BY <1>7, <3>2
      <4> QED
        BY <1>1, <3>1, <4>1
    <3>3. CASE b # t.in.b
      <4>1. bill'[b] = bill[b]
        BY <1>4, <3>3
      <4> QED
        BY <3>1, <4>1
    <3> QED
      BY <3>2, <3>3
  <2> QED
    BY <2>1 DEF Grows
<1>9. BillInv'
  <2>1. ASSUME NEW b \in Bookings PROVE bill'[b].paid \in Nat
    <3>1. CASE b = t.in.b
      <4>1. bill'[b].paid = bill[t.in.b].paid + t.in.amount
        BY <1>7, <3>1
      <4> QED
        BY <1>1, <4>1
    <3>2. CASE b # t.in.b
      <4>1. bill'[b] = bill[b]
        BY <1>4, <3>2
      <4> QED
        BY <4>1 DEF BillInv
    <3> QED
      BY <3>1, <3>2
  <2>2. bill' = [b \in Bookings |-> bill'[b]]
    BY <1>2, <1>3
  <2>3. ASSUME NEW b \in Bookings
        PROVE  bill'[b] = [paid |-> bill'[b].paid, scheduled |-> bill'[b].scheduled,
                           started |-> bill'[b].started, card |-> bill'[b].card,
                           failed |-> bill'[b].failed, manual |-> bill'[b].manual]
    <3>1. CASE b = t.in.b
      BY <1>7, <3>1
    <3>2. CASE b # t.in.b
      <4>1. bill'[b] = bill[b]
        BY <1>4, <3>2
      <4> QED
        BY <4>1 DEF BillInv
    <3> QED
      BY <3>1, <3>2
  <2>4. bill' = [b \in Bookings |->
                   [paid |-> bill'[b].paid, scheduled |-> bill'[b].scheduled,
                    started |-> bill'[b].started, card |-> bill'[b].card,
                    failed |-> bill'[b].failed, manual |-> bill'[b].manual]]
    BY <2>2, <2>3
  <2> QED
    BY <2>1, <2>4 DEF BillInv
<1> QED
  BY <1>4, <1>7, <1>8, <1>9

(* Marking a row leaves its money alone. *)
LEMMA Marked ==
  ASSUME BillInv, NEW b \in Bookings, NEW x,
         bill' = [bill EXCEPT ![b].started = x] \/ bill' = [bill EXCEPT ![b].failed = x]
  PROVE  /\ BillInv'
         /\ \A c \in Bookings : /\ bill'[c].paid = bill[c].paid
                               /\ bill'[c].scheduled = bill[c].scheduled
                               /\ bill'[c].manual = bill[c].manual
<1>1. \A c \in Bookings : /\ bill'[c].paid = bill[c].paid
                          /\ bill'[c].scheduled = bill[c].scheduled
                          /\ bill'[c].manual = bill[c].manual
  BY DEF BillInv
<1>2. BillInv'
  <2>1. \A c \in Bookings : bill'[c].paid \in Nat
    BY <1>1 DEF BillInv
  <2>2. CASE bill' = [bill EXCEPT ![b].started = x]
    BY <2>1, <2>2 DEF BillInv
  <2>3. CASE bill' = [bill EXCEPT ![b].failed = x]
    BY <2>1, <2>3 DEF BillInv
  <2> QED
    BY <2>2, <2>3
<1> QED
  BY <1>1, <1>2

-----------------------------------------------------------------------------
(* A transaction that has read the gross, or anything else in flight, stays *)
(* true of a gross that only grows.                                        *)
LEMMA CashKept ==
  ASSUME FlightInv, BillInv, BillInv', CashInv, Grows,
         receipts' \subseteq receipts,
         balance'.todo \subseteq balance.todo,
         balance'.call.type = "charge" => balance'.call = balance.call,
         charging' \subseteq charging
  PROVE  CashInv'
<1>1. ASSUME NEW t \in charging' PROVE t.found.paid <= bill'[t.in.b].paid
  <2>1. t \in charging /\ t.in.b \in Bookings
    BY DEF FlightInv, Written
  <2>2. bill'[t.in.b].paid >= bill[t.in.b].paid
    BY <2>1 DEF Grows
  <2> QED
    BY <2>1, <2>2 DEF CashInv, BillInv
<1> QED
  BY <1>1 DEF CashInv

(* A charge read from an intent that is known adds one transaction, which   *)
(* has read the gross as it is.                                            *)
LEMMA CashRead ==
  ASSUME FlightInv, BillInv, CashInv, NEW in,
         in.b \in Bookings, in.amount \in Nat, ReadForCharge(in),
         UNCHANGED <<status, bill, receipts>>,
         balance'.todo = balance.todo,
         balance'.call.type = "charge" => balance'.call = balance.call
  PROVE  CashInv'
<1>1. charging' = charging \union {[in |-> in, found |-> Found(in.b)]}
  BY DEF ReadForCharge
<1>2. Found(in.b).paid = bill[in.b].paid /\ bill[in.b].paid \in Nat
  BY DEF Found, BillInv
<1> QED
  BY <1>1, <1>2 DEF CashInv

(* A checkout writes the plan and the kind of a booking on its row. *)
LEMMA Planned ==
  ASSUME BillInv, NEW b \in Bookings, NEW x, NEW y,
         bill' = [bill EXCEPT ![b].manual = x, ![b].scheduled = y]
  PROVE  /\ BillInv' /\ Grows
         /\ bill'[b].manual = x /\ bill'[b].scheduled = y
         /\ \A c \in Bookings \ {b} : bill'[c] = bill[c]
<1>1. /\ \A c \in Bookings : bill'[c].paid = bill[c].paid
      /\ \A c \in Bookings \ {b} : bill'[c] = bill[c]
      /\ bill'[b].manual = x
  BY DEF BillInv
<1>2. BillInv' /\ bill'[b].scheduled = y
  <2>1. bill' = [c \in Bookings |-> bill'[c]]
    BY DEF BillInv
  <2>2. bill'[b] = [bill[b] EXCEPT !.manual = x, !.scheduled = y]
    <3> DEFINE named == [bill EXCEPT ![b].manual = x]
    <3>1. DOMAIN bill = Bookings
      BY DEF BillInv
    <3>2. named[b] = [bill[b] EXCEPT !.manual = x] /\ DOMAIN named = Bookings
      BY <3>1
    <3>3. bill' = [named EXCEPT ![b].scheduled = y]
      OBVIOUS
    <3> HIDE DEF named
    <3>4. bill'[b] = [named[b] EXCEPT !.scheduled = y]
      BY <3>2, <3>3
    <3> QED
      BY <3>2, <3>4
  <2>3. bill[b] = [paid |-> bill[b].paid, scheduled |-> bill[b].scheduled,
                   started |-> bill[b].started, card |-> bill[b].card,
                   failed |-> bill[b].failed, manual |-> bill[b].manual]
    BY DEF BillInv
  <2>4. bill'[b] = [paid |-> bill[b].paid, scheduled |-> y, started |-> bill[b].started,
                    card |-> bill[b].card, failed |-> bill[b].failed, manual |-> x]
    <3> DEFINE r == bill[b]
               q == bill'[b]
    <3>1. q = [r EXCEPT !.manual = x, !.scheduled = y]
      BY <2>2
    <3>2. r = [paid |-> r.paid, scheduled |-> r.scheduled, started |-> r.started,
               card |-> r.card, failed |-> r.failed, manual |-> r.manual]
      BY <2>3
    <3> HIDE DEF r, q
    <3>3. q = [paid |-> r.paid, scheduled |-> y, started |-> r.started,
               card |-> r.card, failed |-> r.failed, manual |-> x]
      BY <3>1, <3>2
    <3> QED
      BY <3>3 DEF r, q
  <2>5. \A c \in Bookings : bill'[c].paid \in Nat
    BY <1>1 DEF BillInv
  <2> QED
    BY <1>1, <2>1, <2>4, <2>5, ZenonT(40) DEF BillInv
<1>3. Grows
  BY <1>1 DEF Grows, BillInv
<1> QED
  BY <1>1, <1>2, <1>3

(* Nothing about money changes but the status, and nothing is confirmed.   *)
LEMMA Standstill ==
  ASSUME BillInv, StayInv, ConfirmedIsPaid, UNCHANGED <<bill, stay>>,
         \A b \in Bookings : /\ status'[b] = "confirmed" => status[b] = "confirmed"
                             /\ status'[b] # "absent" => status[b] # "absent"
  PROVE  BillInv' /\ StayInv' /\ ConfirmedIsPaid' /\ Grows
<1>1. BillInv'
  BY DEF BillInv
<1>2. \A b \in Bookings : /\ bill'[b].paid = bill[b].paid
                          /\ bill'[b].scheduled = bill[b].scheduled
                          /\ bill'[b].manual = bill[b].manual
  OBVIOUS
<1> QED
  BY <1>1, <1>2, Quiet

-----------------------------------------------------------------------------
(* A step keeps MoneyInv, and the gross only grows.                        *)
LEMMA MoneyStep ==
  ASSUME MoneyInv, [Next]_vars
  PROVE  MoneyInv' /\ Grows
<1> DEFINE Kept == BillInv' /\ CashInv' /\ StayInv' /\ ConfirmedIsPaid' /\ Grows
<1> USE DEF rooms, money, stripe, flight
<1>0. FlightInv /\ BillInv /\ CashInv /\ StayInv /\ ConfirmedIsPaid
  BY DEF MoneyInv
<1>1. ASSUME NEW b \in Bookings, NEW r \in Requests, NEW manual \in BOOLEAN,
             Create(b, r, manual)
      PROVE  Kept
  <2> DEFINE scheduled == ~manual /\ ~IsShortNotice(today, r.checkin)
  <2>1. /\ bill' = [bill EXCEPT ![b].manual = manual, ![b].scheduled = scheduled]
        /\ stay' = [stay EXCEPT ![b] = r]
        /\ status' = [status EXCEPT ![b] = IF manual THEN "confirmed" ELSE "pending"]
        /\ UNCHANGED <<receipts, balance, charging>>
    BY <1>1 DEF Create
  <2> HIDE DEF scheduled
  <2>2. /\ BillInv' /\ Grows
        /\ bill'[b].manual = manual
        /\ \A c \in Bookings \ {b} : bill'[c] = bill[c]
    BY <1>0, <2>1, Planned
  <2>3. CashInv'
    BY <1>0, <2>1, <2>2, CashKept
  <2>4. StayInv'
    BY <1>0, <2>1, RequestAssumption, SMTT(30) DEF StayInv
  <2>5. ConfirmedIsPaid'
    <3>1. ASSUME NEW c \in Bookings, status'[c] = "confirmed", ~bill'[c].manual
          PROVE  c # b
      BY <2>1, <2>2, <3>1, <1>0 DEF FlightInv
    <3>2. \A c \in Bookings \ {b} : status'[c] = status[c] /\ stay'[c] = stay[c]
      BY <1>0, <2>1 DEF FlightInv, StayInv
    <3> QED
      BY <1>0, <2>2, <3>1, <3>2 DEF ConfirmedIsPaid, Quote, ChargeAtBooking
  <2> QED
    BY <2>2, <2>3, <2>4, <2>5
<1>2. ASSUME NEW b, NEW via, NEW amount, NEW k,
             \/ Open(b, via) \/ ReadForCancel(b) \/ ConsoleRefund(b, amount)
             \/ Block(k) \/ Unblock(k) \/ NextDay \/ HoldLapses(b)
             \/ StartRefund(b) \/ SendRefund(b) \/ SendRefundUnheard(b) \/ FinishRefund(b)
             \/ SweepExpiredHolds
      PROVE  Kept
  <2>1. UNCHANGED <<bill, stay, status, receipts, balance, charging>>
    BY <1>2 DEF Open, ReadForCancel, ConsoleRefund, Block, Unblock, NextDay, HoldLapses,
                StartRefund, SendRefund, SendRefundUnheard, FinishRefund, SweepExpiredHolds
  <2>2. BillInv' /\ StayInv' /\ ConfirmedIsPaid' /\ Grows
    BY <1>0, <2>1, Standstill
  <2>3. CashInv'
    BY <1>0, <2>1, <2>2, CashKept
  <2> QED
    BY <2>2, <2>3
<1>3. ASSUME NEW b \in Bookings, StartPayment(b) \/ GraceLapses(b) PROVE Kept
  <2>1. /\ \E x : bill' = [bill EXCEPT ![b].started = x]
        /\ UNCHANGED <<stay, status, receipts, balance, charging>>
    BY <1>3 DEF StartPayment, GraceLapses
  <2>2. /\ BillInv'
        /\ \A c \in Bookings : /\ bill'[c].paid = bill[c].paid
                              /\ bill'[c].scheduled = bill[c].scheduled
                              /\ bill'[c].manual = bill[c].manual
    BY <1>0, <2>1, Marked
  <2>3. StayInv' /\ ConfirmedIsPaid' /\ Grows
    BY <1>0, <2>1, <2>2, Quiet
  <2>4. CashInv'
    BY <1>0, <2>1, <2>2, <2>3, CashKept
  <2> QED
    BY <2>2, <2>3, <2>4
<1>4. ASSUME NEW b, NEW c,
             \/ c \in cancelling /\ Cancel(c)
             \/ b \in Bookings /\ RecordRefund(b)
             \/ ExpireAbandonedBookings
      PROVE  Kept
  <2>1. UNCHANGED <<bill, stay, receipts, balance, charging>>
    BY <1>4 DEF Cancel, RecordRefund, ExpireAbandonedBookings, ReleaseAndCancel
  <2>2. \A x \in Bookings : /\ status'[x] = "confirmed" => status[x] = "confirmed"
                            /\ status'[x] # "absent" => status[x] # "absent"
    <3>1. CASE Cancel(c)
      BY <3>1, <1>0 DEF Cancel, ReleaseAndCancel, FlightInv, Written
    <3>2. CASE RecordRefund(b)
      BY <3>2, <1>0 DEF RecordRefund, ReleaseAndCancel, FlightInv, Written
    <3>3. CASE ExpireAbandonedBookings
      BY <3>3, <1>0 DEF ExpireAbandonedBookings, Abandoned, FlightInv, Written
    <3> QED
      BY <1>4, <3>1, <3>2, <3>3
  <2>3. BillInv' /\ StayInv' /\ ConfirmedIsPaid' /\ Grows
    BY <1>0, <2>1, <2>2, Standstill
  <2>4. CashInv'
    BY <1>0, <2>1, <2>3, CashKept
  <2> QED
    BY <2>3, <2>4
<1>5. ASSUME NEW i, DeclinePayment(i) PROVE Kept
  <2>1. UNCHANGED <<bill, stay, status, receipts, balance, charging>>
    BY <1>5 DEF DeclinePayment
  <2>2. BillInv' /\ StayInv' /\ ConfirmedIsPaid' /\ Grows
    BY <1>0, <2>1, Standstill
  <2>3. CashInv'
    BY <1>0, <2>1, <2>2, CashKept
  <2> QED
    BY <2>2, <2>3
<1>6. ASSUME NEW i \in intents, NEW amount \in 1..i.amount, CompletePayment(i, amount)
      PROVE  Kept
  <2>1. /\ UNCHANGED <<bill, stay, status, balance, charging>>
        /\ receipts' = receipts \union {[id |-> i.id, amount |-> amount]}
    BY <1>6 DEF CompletePayment
  <2>2. BillInv' /\ StayInv' /\ ConfirmedIsPaid' /\ Grows
    BY <1>0, <2>1, Standstill
  <2>3. amount \in Nat
    OBVIOUS
  <2>4. CashInv'
    BY <1>0, <2>1, <2>3 DEF CashInv
  <2> QED
    BY <2>2, <2>4
<1>7. ASSUME NEW r \in receipts, NEW named, DeliverSucceeded(r, named) PROVE Kept
  <2> DEFINE i == IntentOf(r.id)
             in == ChargeOf(i, r.amount, i.card /\ named, TRUE)
  <2>1. ReadForCharge(in) /\ UNCHANGED <<bill, stay, status, receipts, balance>>
    BY <1>7 DEF DeliverSucceeded
  <2>2. in.b \in Bookings /\ in.amount \in Nat
    BY <1>0, KnownIntent DEF ChargeOf, FlightInv, Written, CashInv
  <2>3. BillInv' /\ StayInv' /\ ConfirmedIsPaid' /\ Grows
    BY <1>0, <2>1, Standstill
  <2> HIDE DEF i, in
  <2>4. CashInv'
    BY <1>0, <2>1, <2>2, CashRead
  <2> QED
    BY <2>3, <2>4
<1>8. ASSUME RecordBalance PROVE Kept
  <2> DEFINE i == IntentOf(balance.call.id)
             in == ChargeOf(i, balance.call.amount, FALSE, FALSE)
  <2>1. /\ ReadForCharge(in) /\ UNCHANGED <<bill, stay, status, receipts>>
        /\ balance.call.type = "charge"
        /\ balance' = [balance EXCEPT !.call = NoCall]
    BY <1>8 DEF RecordBalance
  <2>2. in.b \in Bookings /\ in.amount \in Nat
    BY <1>0, <2>1, KnownIntent DEF ChargeOf, FlightInv, Written, CashInv
  <2>3. BillInv' /\ StayInv' /\ ConfirmedIsPaid' /\ Grows
    BY <1>0, <2>1, Standstill
  <2>4. balance'.todo = balance.todo /\ balance'.call.type # "charge"
    BY <2>1 DEF NoCall
  <2> HIDE DEF i, in
  <2>5. CashInv'
    BY <1>0, <2>1, <2>2, <2>4, CashRead
  <2> QED
    BY <2>3, <2>5
<1>9. ASSUME NEW b \in Bookings, NEW id, NEW kind, NEW amount,
             RecordFailure(b, id, kind, amount),
             UNCHANGED <<stay, status, receipts, charging>>,
             balance'.todo = balance.todo,
             balance'.call.type = "charge" => balance'.call = balance.call
      PROVE  Kept
  <2>1. UNCHANGED bill \/ bill' = [bill EXCEPT ![b].failed = TRUE]
    BY <1>9 DEF RecordFailure
  <2>2. BillInv' /\ StayInv' /\ ConfirmedIsPaid' /\ Grows
    BY <1>0, <1>9, <2>1, Standstill, Marked, Quiet
  <2>3. CashInv'
    BY <1>0, <1>9, <2>2, CashKept
  <2> QED
    BY <2>2, <2>3
<1>10. ASSUME NEW id, DeliverFailed(id) PROVE Kept
  <2>1. UNCHANGED <<stay, status, receipts, balance, charging>>
    BY <1>10 DEF DeliverFailed
  <2>2. CASE UNCHANGED <<bill, ledger, mail>>
    <3>1. BillInv' /\ StayInv' /\ ConfirmedIsPaid' /\ Grows
      BY <1>0, <2>1, <2>2, Standstill
    <3>2. CashInv'
      BY <1>0, <2>1, <3>1, CashKept
    <3> QED
      BY <3>1, <3>2
  <2>3. CASE RecordFailure(IntentOf(id).b, id, IntentOf(id).kind, IntentOf(id).amount)
    <3>1. IntentOf(id).b \in Bookings
      BY <1>0, <1>10, KnownIntent DEF DeliverFailed, FlightInv, Written
    <3> QED
      BY <1>9, <2>1, <2>3, <3>1
  <2> QED
    BY <1>10, <2>2, <2>3 DEF DeliverFailed
<1>11. ASSUME RecordBalanceFailure PROVE Kept
  <2>1. /\ RecordFailure(balance.call.b, balance.call.id, "balance", balance.call.amount)
        /\ UNCHANGED <<stay, status, receipts, charging>>
        /\ balance'.todo = balance.todo /\ balance'.call.type # "charge"
    BY <1>11 DEF RecordBalanceFailure, NoCall
  <2>2. balance.call.b \in Bookings
    BY <1>0, <1>11 DEF RecordBalanceFailure, FlightInv, Written
  <2> QED
    BY <1>9, <2>1, <2>2
<1>12. ASSUME ChargeBalances PROVE Kept
  <2>1. /\ UNCHANGED <<bill, stay, status, receipts, charging>>
        /\ balance'.todo = DueForBalanceCharge /\ balance'.call = balance.call
    BY <1>12 DEF ChargeBalances
  <2>2. BillInv' /\ StayInv' /\ ConfirmedIsPaid' /\ Grows
    BY <1>0, <2>1, Standstill
  <2>3. \A d \in DueForBalanceCharge : d.amount \in Nat
    BY <1>0 DEF DueForBalanceCharge, BillInv, StayInv
  <2>4. CashInv'
    BY <1>0, <2>1, <2>3 DEF CashInv
  <2> QED
    BY <2>2, <2>4
<1>13. ASSUME NEW d \in balance.todo, FlagUncollectable(d) PROVE Kept
  <2>1. /\ bill' = [bill EXCEPT ![d.b].failed = TRUE]
        /\ UNCHANGED <<stay, status, receipts, charging>>
        /\ balance'.todo \subseteq balance.todo /\ balance'.call = balance.call
    BY <1>13 DEF FlagUncollectable
  <2>2. d.b \in Bookings
    BY <1>0 DEF FlightInv, Written
  <2>3. BillInv' /\ StayInv' /\ ConfirmedIsPaid' /\ Grows
    BY <1>0, <2>1, <2>2, Marked, Quiet
  <2>4. CashInv'
    BY <1>0, <2>1, <2>3, CashKept
  <2> QED
    BY <2>3, <2>4
<1>14. ASSUME NEW d \in balance.todo, ChargeOffSession(d) \/ OffSessionDeclined(d)
       PROVE  Kept
  <2>1. UNCHANGED <<bill, stay, status, charging>>
    BY <1>14 DEF ChargeOffSession, OffSessionDeclined
  <2>2. BillInv' /\ StayInv' /\ ConfirmedIsPaid' /\ Grows
    BY <1>0, <2>1, Standstill
  <2>3. d.amount \in Nat
    BY <1>0 DEF CashInv
  <2>4. /\ balance'.todo \subseteq balance.todo
        /\ balance'.call.type = "charge" => balance'.call.amount = d.amount
    BY <1>14 DEF ChargeOffSession, OffSessionDeclined, Calls, Succeeded, Refused, NoCall
  <2>5. receipts' \subseteq receipts \union {[id |-> BalanceKey(d.b), amount |-> d.amount]}
    BY <1>14 DEF ChargeOffSession, OffSessionDeclined
  <2>6. CashInv'
    BY <1>0, <2>1, <2>3, <2>4, <2>5 DEF CashInv
  <2> QED
    BY <2>2, <2>6
<1>15. ASSUME NEW t \in charging, ChargeAlreadyApplied(t) PROVE Kept
  <2>1. UNCHANGED <<bill, stay, status, receipts, balance>> /\ charging' \subseteq charging
    BY <1>15 DEF ChargeAlreadyApplied, Finish
  <2>2. BillInv' /\ StayInv' /\ ConfirmedIsPaid' /\ Grows
    BY <1>0, <2>1, Standstill
  <2>3. CashInv'
    BY <1>0, <2>1, <2>2, CashKept
  <2> QED
    BY <2>2, <2>3
<1>16. ASSUME NEW t \in charging, ChargeUnderpaid(t) \/ ConfirmCharge(t) \/ RefundDue(t)
       PROVE  Kept
  <2> DEFINE b == t.in.b
  <2>1. b \in Bookings /\ status[b] # "absent"
    BY <1>0 DEF FlightInv, Written
  <2>2. /\ TakeMoney(t) /\ UNCHANGED <<stay, receipts, balance>>
        /\ charging' \subseteq charging
    BY <1>16 DEF ChargeUnderpaid, ConfirmCharge, RefundDue, Finish, ReleaseAndCancel
  <2>3. /\ BillInv' /\ Grows
        /\ bill'[b].paid = bill[b].paid + t.in.amount
        /\ bill'[b].scheduled = bill[b].scheduled
        /\ bill'[b].manual = bill[b].manual
        /\ \A c \in Bookings \ {b} : bill'[c] = bill[c]
    BY <1>0, <2>2, MoneyTaken
  <2>4. CashInv'
    BY <1>0, <2>2, <2>3, CashKept
  <2>5. \A c \in Bookings : status'[c] # "absent" => status[c] # "absent"
    BY <1>0, <1>16, <2>1 DEF ChargeUnderpaid, ConfirmCharge, RefundDue, ReleaseAndCancel, FlightInv
  <2>6. StayInv'
    BY <1>0, <2>2, <2>5 DEF StayInv
  <2>7. ASSUME NEW c \in Bookings \ {b}, status'[c] = "confirmed", ~bill'[c].manual
        PROVE  bill'[c].paid >= ChargeAtBooking(Quote(c), ~bill[c].scheduled)'
    <3>1. status[c] = "confirmed"
      BY <1>0, <1>16, <2>1, <2>7
         DEF ChargeUnderpaid, ConfirmCharge, RefundDue, ReleaseAndCancel, FlightInv
    <3> QED
      BY <1>0, <2>2, <2>3, <2>7, <3>1 DEF ConfirmedIsPaid, Quote, ChargeAtBooking
  <2>8. ASSUME status'[b] = "confirmed", ~bill'[b].manual
        PROVE  bill'[b].paid >= ChargeAtBooking(Quote(b), ~bill[b].scheduled)'
    <3> DEFINE due == ChargeAtBooking(Quote(b), ~bill[b].scheduled)
    <3>1. ChargeAtBooking(Quote(b), ~bill[b].scheduled)' = due
      BY <2>2, <2>3 DEF ChargeAtBooking, Quote
    <3>2. due \in Nat
      BY <1>0, <2>1, DueIsWhole DEF StayInv, Quote
    <3>3. bill[b].paid \in Nat /\ t.in.amount \in Nat
          /\ t.found.paid \in Nat /\ t.found.paid <= bill[b].paid
      BY <1>0, <2>1 DEF BillInv, CashInv
    <3>4. CASE ChargeUnderpaid(t)
      <4>1. bill[b].paid >= due
        BY <1>0, <2>1, <2>3, <2>8, <3>4 DEF ChargeUnderpaid, ConfirmedIsPaid
      <4> HIDE DEF due
      <4> QED
        BY <2>3, <3>1, <3>2, <3>3, <4>1
    <3>5. CASE ConfirmCharge(t)
      <4>1. Shortfall(t) = 0
        BY <3>5 DEF ConfirmCharge
      <4>2. ~(t.found.paid + t.in.amount < due)
        BY <3>2, <3>3, <4>1 DEF Shortfall
      <4> HIDE DEF due
      <4> QED
        BY <2>3, <3>1, <3>2, <3>3, <4>2
    <3>6. CASE RefundDue(t)
      BY <1>0, <2>1, <2>8, <3>6 DEF RefundDue, ReleaseAndCancel, FlightInv
    <3> QED
      BY <1>16, <3>4, <3>5, <3>6
  <2>9. ConfirmedIsPaid'
    BY <2>7, <2>8 DEF ConfirmedIsPaid
  <2> QED
    BY <2>3, <2>4, <2>6, <2>9
<1>17. ASSUME Crash PROVE Kept
  <2>1. /\ UNCHANGED <<bill, stay, status, receipts>> /\ charging' = {}
        /\ balance'.todo = {} /\ balance'.call.type # "charge"
    BY <1>17 DEF Crash, NoCall
  <2>2. BillInv' /\ StayInv' /\ ConfirmedIsPaid' /\ Grows
    BY <1>0, <2>1, Standstill
  <2>3. CashInv'
    BY <1>0, <2>1, <2>2, CashKept
  <2> QED
    BY <2>2, <2>3
<1>18. ASSUME UNCHANGED vars PROVE Kept
  <2>1. UNCHANGED <<bill, stay, status, receipts, balance, charging>>
    BY <1>18 DEF vars
  <2>2. BillInv' /\ StayInv' /\ ConfirmedIsPaid' /\ Grows
    BY <1>0, <2>1, Standstill
  <2>3. CashInv'
    BY <1>0, <2>1, <2>2, CashKept
  <2> QED
    BY <2>2, <2>3
<1> HIDE DEF Kept
<1>19. ASSUME Guest \/ Console PROVE Kept
  BY <1>1, <1>2, <1>3, <1>4, <1>19 DEF Guest, Console
<1>20. ASSUME Processor \/ Record PROVE Kept
  BY <1>5, <1>6, <1>7, <1>10, <1>15, <1>16, <1>20 DEF Processor, Record, RecordCharge
<1>21. ASSUME Jobs PROVE Kept
  BY <1>2, <1>4, <1>8, <1>11, <1>12, <1>13, <1>14, <1>21 DEF Jobs
<1>22. ASSUME Time PROVE Kept
  BY <1>2, <1>3, <1>22 DEF Time
<1>23. Kept
  BY <1>17, <1>18, <1>19, <1>20, <1>21, <1>22 DEF Next
<1> QED
  BY <1>0, <1>23, FlightStep DEF Kept, MoneyInv

LEMMA MoneyStart == Init => MoneyInv
<1>1. Init => FlightInv
  BY DEF Init, FlightInv, Written, Known, Idle, NoCall
<1>2. Init => BillInv
  BY DEF Init, BillInv, NewBill
<1>3. Init => CashInv /\ StayInv /\ ConfirmedIsPaid
  BY DEF Init, CashInv, StayInv, ConfirmedIsPaid, NoCall
<1> QED
  BY <1>1, <1>2, <1>3 DEF MoneyInv

(* RecordCharge: "Nothing is confirmed until the money due at booking has   *)
(* actually arrived", whatever the row a transaction read has become.       *)
THEOREM NothingConfirmedUnpaid == Spec => []ConfirmedIsPaid
<1>1. MoneyInv /\ [Next]_vars => MoneyInv'
  BY MoneyStep
<1>2. MoneyInv => ConfirmedIsPaid
  BY DEF MoneyInv
<1> QED
  BY <1>1, <1>2, MoneyStart, PTL DEF Spec

(* amount_paid_cents is the gross: no step of anyone makes it smaller.      *)
THEOREM GrossNeverShrinks == Spec => GrossOnlyGrows
<1>1. MoneyInv /\ [Next]_vars => MoneyInv' /\ Grows
  BY MoneyStep
<1>2. Grows <=> \A b \in Bookings : bill'[b].paid >= bill[b].paid
  BY DEF Grows
<1> QED
  BY <1>1, <1>2, MoneyStart, PTL DEF Spec, GrossOnlyGrows

-----------------------------------------------------------------------------
(* What the ledger says happened did happen at the processor.              *)

Took(id, amount)     == [id |-> id, amount |-> amount] \in receipts
GaveBack(id, amount) == [id |-> id, amount |-> amount] \in returned

(* One intent for each idempotency key.                                    *)
IntentInv ==
  /\ \A i \in intents : i.id[2] = i.b /\ i.kind # "refund"
  /\ \A i, j \in intents : i.id = j.id => i = j

(* A card charged off session is charged what was asked for.               *)
ReceiptInv ==
  /\ \A r \in receipts : r = [id |-> r.id, amount |-> r.amount]
  /\ \A r \in receipts, i \in intents :
       i.id = r.id /\ i.id = BalanceKey(i.b) => r.amount = i.amount

(* Whoever is about to record a charge was told of it by the processor,    *)
HeardInv ==
  /\ \A t \in charging : Took(t.in.id, t.in.amount) /\ t.in.kind # "refund"
  /\ balance.call.type = "charge" => Took(balance.call.id, balance.call.amount)

(* and so was the refund job of the part it is about to record.            *)
SentInv ==
  \A b \in Bookings :
    /\ DOMAIN refunding[b] = {"on", "todo", "sent"}
    /\ refunding[b].sent
         => GaveBack(Head(refunding[b].todo).id, Head(refunding[b].todo).amount)

LedgerInv ==
  /\ ledger = [b \in Bookings |-> ledger[b]]
  /\ \A b \in Bookings : \E S : ledger[b] \in Seq(S)
  /\ LedgerIsTrue

TruthInv == FlightInv /\ IntentInv /\ ReceiptInv /\ HeardInv /\ SentInv /\ LedgerInv

(* A ledger nobody writes to stays true: money taken or given back is never *)
(* forgotten.                                                              *)
LEMMA LedgerKept ==
  ASSUME LedgerInv, UNCHANGED ledger, receipts \subseteq receipts', returned \subseteq returned'
  PROVE  LedgerInv'
BY DEF LedgerInv, LedgerIsTrue

(* A row more, about something that happened.                              *)
LEMMA RowAppended ==
  ASSUME LedgerInv, NEW b \in Bookings, NEW id, NEW kind, NEW amount, NEW st,
         RecordPayment(b, id, kind, amount, st), UNCHANGED <<receipts, returned>>,
         st = "succeeded" =>
           IF kind = "refund"
           THEN \E r \in returned : id = RefundKey(r.id, r.amount) /\ amount = r.amount
           ELSE Took(id, amount)
  PROVE  LedgerInv'
<1> DEFINE row == [id |-> id, kind |-> kind, amount |-> amount, status |-> st]
<1>1. ledger' = [ledger EXCEPT ![b] = Append(@, row)]
  BY DEF RecordPayment
<1>2. row.id = id /\ row.kind = kind /\ row.amount = amount /\ row.status = st
  OBVIOUS
<1> HIDE DEF row
<1>3. PICK S : ledger[b] \in Seq(S)
  BY DEF LedgerInv
<1>4. /\ ledger' = [c \in Bookings |-> ledger'[c]]
      /\ ledger'[b] = Append(ledger[b], row)
      /\ \A c \in Bookings \ {b} : ledger'[c] = ledger[c]
  BY <1>1 DEF LedgerInv
<1>5. ledger[b] \in Seq(S \union {row}) /\ row \in S \union {row}
  BY <1>3
<1>6. ledger'[b] \in Seq(S \union {row})
  BY <1>4, <1>5
<1>7. \A n \in DOMAIN ledger'[b] :
        \/ n \in DOMAIN ledger[b] /\ ledger'[b][n] = ledger[b][n]
        \/ ledger'[b][n] = row
  BY <1>3, <1>4
<1>8. LedgerIsTrue'
  <2> SUFFICES ASSUME NEW c \in Bookings, NEW n \in DOMAIN ledger'[c],
                      ledger'[c][n].status = "succeeded"
               PROVE  IF ledger'[c][n].kind = "refund"
                      THEN \E r \in returned : /\ ledger'[c][n].id = RefundKey(r.id, r.amount)
                                               /\ ledger'[c][n].amount = r.amount
                      ELSE Took(ledger'[c][n].id, ledger'[c][n].amount)
    BY DEF LedgerIsTrue, Took
  <2>1. CASE c = b /\ ledger'[b][n] = row
    BY <1>2, <2>1
  <2>2. CASE n \in DOMAIN ledger[c] /\ ledger'[c][n] = ledger[c][n]
    BY <2>2 DEF LedgerInv, LedgerIsTrue, Took
  <2>3. QED BY <1>4, <1>7, <2>1, <2>2
<1>9. QED BY <1>4, <1>6, <1>8 DEF LedgerInv

(* A new intent has a new name: what was taken was taken under another.    *)
LEMMA IntentAdded ==
  ASSUME FlightInv, IntentInv, ReceiptInv, NEW i, ~Known(i.id), i.id[2] = i.b, i.kind # "refund",
         intents' = intents \union {i}, receipts' = receipts
  PROVE  IntentInv' /\ ReceiptInv'
BY DEF FlightInv, IntentInv, ReceiptInv, Known

LEMMA TruthInitially == Init => TruthInv
<1>1. Init => FlightInv
  BY DEF Init, FlightInv, Written, Known, Idle, NoCall
<1>2. Init => IntentInv /\ ReceiptInv /\ HeardInv /\ SentInv
  BY DEF Init, IntentInv, ReceiptInv, HeardInv, SentInv, NoCall, Idle
<1>3. Init => LedgerInv
  <2> SUFFICES ASSUME Init PROVE LedgerInv
    OBVIOUS
  <2>1. ledger = [b \in Bookings |-> <<>>]
    BY DEF Init
  <2>2. \A b \in Bookings : ledger[b] \in Seq({})
    BY <2>1
  <2>3. QED BY <2>1, <2>2 DEF LedgerInv, LedgerIsTrue
<1>4. QED BY <1>1, <1>2, <1>3 DEF TruthInv

(* A step that touches none of it keeps it all. *)
LEMMA NothingHeard ==
  ASSUME TruthInv, FlightInv',
         UNCHANGED <<intents, receipts, returned, charging, balance, refunding, ledger>>
  PROVE  TruthInv'
BY DEF TruthInv, IntentInv, ReceiptInv, HeardInv, SentInv, LedgerInv, LedgerIsTrue, Took, GaveBack

(* Recording a failure writes a row that claims nothing. *)
LEMMA FailureClaimsNothing ==
  ASSUME LedgerInv, NEW b \in Bookings, NEW id, NEW kind, NEW amount,
         RecordFailure(b, id, kind, amount), UNCHANGED <<receipts, returned>>
  PROVE  LedgerInv'
<1>1. CASE UNCHANGED ledger
  BY <1>1, LedgerKept
<1>2. CASE RecordPayment(b, id, kind, amount, "failed")
  BY <1>2, RowAppended
<1> QED
  BY <1>1, <1>2 DEF RecordFailure

(* Every step of the inn keeps the ledger true. *)
LEMMA TruthStep ==
  ASSUME TruthInv, [Next]_vars
  PROVE  TruthInv'
<1> USE DEF rooms, money, stripe, flight
<1>0. FlightInv /\ IntentInv /\ ReceiptInv /\ HeardInv /\ SentInv /\ LedgerInv /\ FlightInv'
  BY FlightStep DEF TruthInv
<1>1. ASSUME NEW b, NEW r, NEW manual, NEW k, NEW amount, NEW c, NEW i,
             \/ Create(b, r, manual) \/ StartPayment(b) \/ ReadForCancel(b) \/ Cancel(c)
             \/ ConsoleRefund(b, amount) \/ Block(k) \/ Unblock(k) \/ NextDay
             \/ HoldLapses(b) \/ GraceLapses(b) \/ SweepExpiredHolds
             \/ ExpireAbandonedBookings \/ DeclinePayment(i)
      PROVE  TruthInv'
  <2>1. UNCHANGED <<intents, receipts, returned, charging, balance, refunding, ledger>>
    BY <1>1 DEF Create, StartPayment, ReadForCancel, Cancel, ConsoleRefund, Block, Unblock,
                NextDay, HoldLapses, GraceLapses, SweepExpiredHolds,
                ExpireAbandonedBookings, DeclinePayment
  <2> QED
    BY <1>0, <2>1, NothingHeard
<1>2. ASSUME NEW b \in Bookings, NEW via, Open(b, via) PROVE TruthInv'
  <2> DEFINE id == IntentKey(via, b, Outstanding(b))
             new == [id |-> id, b |-> b, kind |-> PaymentKind(b),
                     amount |-> Outstanding(b), card |-> bill[b].scheduled]
  <2>1. /\ CreateIntent(new)
        /\ UNCHANGED <<receipts, returned, charging, balance, refunding, ledger>>
    BY <1>2 DEF Open
  <2>2. new.id[2] = new.b /\ new.kind # "refund"
    BY DEF IntentKey, PaymentKind
  <2> HIDE DEF new
  <2>3. IntentInv' /\ ReceiptInv'
    <3>1. CASE intents' = intents
      BY <1>0, <2>1, <3>1 DEF IntentInv, ReceiptInv
    <3>2. CASE ~Known(new.id) /\ intents' = intents \union {new}
      BY <1>0, <2>1, <2>2, <3>2, IntentAdded
    <3> QED
      BY <2>1, <3>1, <3>2 DEF CreateIntent
  <2> QED
    BY <1>0, <2>1, <2>3, LedgerKept DEF TruthInv, HeardInv, SentInv, Took, GaveBack
<1>3. ASSUME NEW i \in intents, NEW amount, CompletePayment(i, amount) PROVE TruthInv'
  <2>1. /\ receipts' = receipts \union {[id |-> i.id, amount |-> amount]}
        /\ i.id # BalanceKey(i.b)
        /\ UNCHANGED <<intents, returned, charging, balance, refunding, ledger>>
    BY <1>3 DEF CompletePayment
  <2>2. IntentInv'
    BY <1>0, <2>1 DEF IntentInv
  <2>3. ReceiptInv'
    BY <1>0, <2>1 DEF IntentInv, ReceiptInv
  <2> QED
    BY <1>0, <2>1, <2>2, <2>3, LedgerKept DEF TruthInv, HeardInv, SentInv, Took, GaveBack
<1>4. ASSUME NEW r \in receipts, NEW named, DeliverSucceeded(r, named) PROVE TruthInv'
  <2> DEFINE i == IntentOf(r.id)
             in == ChargeOf(i, r.amount, i.card /\ named, TRUE)
  <2>1. /\ ReadForCharge(in)
        /\ UNCHANGED <<intents, receipts, returned, balance, refunding, ledger>>
    BY <1>4 DEF DeliverSucceeded
  <2>2. in.id = r.id /\ in.amount = r.amount /\ in.kind # "refund"
    BY <1>0, KnownIntent DEF ChargeOf, FlightInv, IntentInv
  <2> HIDE DEF in
  <2>3. HeardInv'
    BY <1>0, <2>1, <2>2 DEF ReadForCharge, HeardInv, ReceiptInv, Took
  <2> QED
    BY <1>0, <2>1, <2>3, LedgerKept DEF TruthInv, IntentInv, ReceiptInv, SentInv, GaveBack
<1>5. ASSUME NEW id, DeliverFailed(id) PROVE TruthInv'
  <2>1. UNCHANGED <<intents, receipts, returned, charging, balance, refunding>>
    BY <1>5 DEF DeliverFailed
  <2>2. LedgerInv'
    <3>1. CASE UNCHANGED ledger
      BY <1>0, <2>1, <3>1, LedgerKept
    <3>2. CASE RecordFailure(IntentOf(id).b, id, IntentOf(id).kind, IntentOf(id).amount)
      <4>1. IntentOf(id).b \in Bookings
        BY <1>0, <1>5, KnownIntent DEF DeliverFailed, FlightInv, Written
      <4> QED
        BY <1>0, <2>1, <3>2, <4>1, FailureClaimsNothing
    <3> QED
      BY <1>5, <3>1, <3>2 DEF DeliverFailed
  <2> QED
    BY <1>0, <2>1, <2>2 DEF TruthInv, IntentInv, ReceiptInv, HeardInv, SentInv, Took, GaveBack
<1>6. ASSUME NEW t \in charging, RecordCharge(t) PROVE TruthInv'
  <2>1. /\ charging' \subseteq charging
        /\ UNCHANGED <<intents, receipts, returned, balance, refunding>>
    BY <1>6 DEF RecordCharge, ChargeAlreadyApplied, ChargeUnderpaid, ConfirmCharge, RefundDue, Finish
  <2>2. LedgerInv'
    <3>1. CASE UNCHANGED ledger
      BY <1>0, <2>1, <3>1, LedgerKept
    <3>2. CASE TakeMoney(t)
      <4>1. RecordPayment(t.in.b, t.in.id, t.in.kind, t.in.amount, "succeeded")
        BY <3>2 DEF TakeMoney
      <4>2. t.in.b \in Bookings /\ t.in.kind # "refund" /\ Took(t.in.id, t.in.amount)
        BY <1>0 DEF FlightInv, Written, HeardInv
      <4> QED
        BY <1>0, <2>1, <4>1, <4>2, RowAppended
    <3> QED
      BY <1>6, <3>1, <3>2
         DEF RecordCharge, ChargeAlreadyApplied, ChargeUnderpaid, ConfirmCharge, RefundDue
  <2> QED
    BY <1>0, <2>1, <2>2 DEF TruthInv, IntentInv, ReceiptInv, HeardInv, SentInv, Took, GaveBack
<1>7. ASSUME ChargeBalances PROVE TruthInv'
  <2>1. /\ balance'.call = balance.call
        /\ UNCHANGED <<intents, receipts, returned, charging, refunding, ledger>>
    BY <1>7 DEF ChargeBalances
  <2> QED
    BY <1>0, <2>1, LedgerKept DEF TruthInv, IntentInv, ReceiptInv, HeardInv, SentInv, Took, GaveBack
<1>8. ASSUME NEW d \in balance.todo, FlagUncollectable(d) PROVE TruthInv'
  <2>1. /\ balance'.call = balance.call
        /\ UNCHANGED <<intents, receipts, returned, charging, refunding, ledger>>
    BY <1>8 DEF FlagUncollectable
  <2> QED
    BY <1>0, <2>1, LedgerKept DEF TruthInv, IntentInv, ReceiptInv, HeardInv, SentInv, Took, GaveBack
<1>9. ASSUME NEW d \in balance.todo, ChargeOffSession(d) PROVE TruthInv'
  <2> DEFINE id == BalanceKey(d.b)
             new == BalanceIntent(d)
  <2>1. UNCHANGED <<returned, charging, refunding, ledger>>
    BY <1>9 DEF ChargeOffSession
  <2>2. /\ balance'.call.type = "charge" => balance'.call.id = id /\ balance'.call.amount = d.amount
    BY <1>9 DEF ChargeOffSession, Calls, Succeeded, NoCall
  <2>3. new.id = id /\ new.b = d.b /\ new.amount = d.amount /\ new.kind # "refund" /\ id[2] = d.b
    BY DEF BalanceIntent, BalanceKey
  <2>4. CASE ~Known(id)
    <3>1. /\ intents' = intents \union {new}
          /\ receipts' = receipts \union {[id |-> id, amount |-> d.amount]}
      BY <1>9, <2>4 DEF ChargeOffSession
    <3> HIDE DEF id, new
    <3>2. IntentInv'
      BY <1>0, <2>3, <2>4, <3>1 DEF IntentInv, Known
    <3>3. ReceiptInv'
      BY <1>0, <2>3, <2>4, <3>1 DEF FlightInv, IntentInv, ReceiptInv, Known
    <3>4. HeardInv'
      BY <1>0, <2>1, <2>2, <3>1 DEF HeardInv, Took
    <3> QED
      BY <1>0, <2>1, <3>1, <3>2, <3>3, <3>4, LedgerKept DEF TruthInv, SentInv, GaveBack
  <2>5. CASE Known(id)
    <3>1. /\ UNCHANGED <<intents, receipts>>
          /\ balance'.call.type = "charge" => IntentOf(id).amount = d.amount /\ Received(id) # {}
      BY <1>9, <2>5 DEF ChargeOffSession, Calls, NoCall
    <3>2. IntentOf(id) \in intents /\ IntentOf(id).id = id
      BY <2>5, KnownIntent
    <3>3. IntentOf(id).b = d.b
      BY <1>0, <2>3, <3>2 DEF IntentInv
    <3>4. \A r \in receipts : r.id = id => r = [id |-> id, amount |-> IntentOf(id).amount]
      BY <1>0, <3>2, <3>3 DEF ReceiptInv
    <3>5. HeardInv'
      BY <1>0, <2>1, <2>2, <3>1, <3>4 DEF HeardInv, Took, Received
    <3> QED
      BY <1>0, <2>1, <3>1, <3>5, LedgerKept DEF TruthInv, IntentInv, ReceiptInv, SentInv, GaveBack
  <2> QED
    BY <2>4, <2>5
<1>10. ASSUME NEW d \in balance.todo, OffSessionDeclined(d) PROVE TruthInv'
  <2> DEFINE id == BalanceKey(d.b)
             new == BalanceIntent(d)
  <2>1. UNCHANGED <<receipts, returned, charging, refunding, ledger>>
    BY <1>10 DEF OffSessionDeclined
  <2>2. balance'.call.type # "charge"
    BY <1>10 DEF OffSessionDeclined, Calls, Refused
  <2>3. new.id = id /\ new.b = d.b /\ new.kind # "refund" /\ id[2] = d.b
    BY DEF BalanceIntent, BalanceKey
  <2>4. IntentInv' /\ ReceiptInv'
    <3>1. CASE intents' = intents
      BY <1>0, <2>1, <3>1 DEF IntentInv, ReceiptInv
    <3>2. CASE ~Known(id) /\ intents' = intents \union {new}
      <4> HIDE DEF new
      <4> QED
        BY <1>0, <2>1, <2>3, <3>2, IntentAdded
    <3> QED
      BY <1>10, <3>1, <3>2 DEF OffSessionDeclined
  <2> QED
    BY <1>0, <2>1, <2>2, <2>4, LedgerKept DEF TruthInv, HeardInv, SentInv, Took, GaveBack
<1>11. ASSUME RecordBalance PROVE TruthInv'
  <2> DEFINE i == IntentOf(balance.call.id)
             in == ChargeOf(i, balance.call.amount, FALSE, FALSE)
  <2>1. /\ ReadForCharge(in) /\ balance.call.type = "charge"
        /\ balance' = [balance EXCEPT !.call = NoCall]
        /\ UNCHANGED <<intents, receipts, returned, refunding, ledger>>
    BY <1>11 DEF RecordBalance
  <2>2. in.id = balance.call.id /\ in.amount = balance.call.amount /\ in.kind # "refund"
    BY <1>0, <2>1, KnownIntent DEF ChargeOf, FlightInv, IntentInv
  <2>3. balance'.call.type # "charge"
    BY <2>1 DEF NoCall
  <2> HIDE DEF in
  <2>4. HeardInv'
    BY <1>0, <2>1, <2>2, <2>3 DEF ReadForCharge, HeardInv, Took
  <2> QED
    BY <1>0, <2>1, <2>4, LedgerKept DEF TruthInv, IntentInv, ReceiptInv, SentInv, GaveBack
<1>12. ASSUME RecordBalanceFailure PROVE TruthInv'
  <2>1. /\ RecordFailure(balance.call.b, balance.call.id, "balance", balance.call.amount)
        /\ balance'.call.type # "charge"
        /\ UNCHANGED <<intents, receipts, returned, charging, refunding>>
    BY <1>12 DEF RecordBalanceFailure, NoCall
  <2>2. balance.call.b \in Bookings
    BY <1>0, <1>12 DEF RecordBalanceFailure, FlightInv, Written
  <2>3. LedgerInv'
    BY <1>0, <2>1, <2>2, FailureClaimsNothing
  <2> QED
    BY <1>0, <2>1, <2>3 DEF TruthInv, IntentInv, ReceiptInv, HeardInv, SentInv, Took, GaveBack
<1>13. ASSUME NEW b \in Bookings, StartRefund(b) \/ FinishRefund(b) PROVE TruthInv'
  <2>1. UNCHANGED <<intents, receipts, returned, charging, balance, ledger>>
    BY <1>13 DEF StartRefund, FinishRefund
  <2>2. \E x : refunding' = [refunding EXCEPT ![b] = [on |-> x.on, todo |-> x.todo, sent |-> FALSE]]
    BY <1>13 DEF StartRefund, FinishRefund, Idle
  <2>3. SentInv'
    BY <1>0, <2>1, <2>2 DEF SentInv, GaveBack, FlightInv
  <2> QED
    BY <1>0, <2>1, <2>3, LedgerKept DEF TruthInv, IntentInv, ReceiptInv, HeardInv, Took
<1>14. ASSUME NEW b \in Bookings, SendRefund(b) \/ SendRefundUnheard(b) PROVE TruthInv'
  <2> DEFINE part == Head(refunding[b].todo)
  <2>1. UNCHANGED <<intents, receipts, charging, balance, ledger>>
    BY <1>14 DEF SendRefund, SendRefundUnheard
  <2>2. \/ /\ returned' = returned \union {[id |-> part.id, amount |-> part.amount]}
           /\ refunding' = [refunding EXCEPT ![b].sent = TRUE]
        \/ /\ returned \subseteq returned'
           /\ refunding' = [refunding EXCEPT ![b] = Idle]
    BY <1>14 DEF SendRefund, SendRefundUnheard, GiveUp
  <2>3. SentInv'
    <3>1. refunding = [c \in Bookings |-> refunding[c]] /\ DOMAIN refunding[b] = {"on", "todo", "sent"}
      BY <1>0 DEF FlightInv, SentInv
    <3>2. \A c \in Bookings \ {b} : refunding'[c] = refunding[c]
      BY <2>2, <3>1
    <3>3. returned \subseteq returned'
      BY <2>2
    <3>4. CASE refunding' = [refunding EXCEPT ![b] = Idle]
      BY <1>0, <3>1, <3>2, <3>3, <3>4 DEF SentInv, GaveBack, Idle
    <3>5. CASE /\ returned' = returned \union {[id |-> part.id, amount |-> part.amount]}
               /\ refunding' = [refunding EXCEPT ![b].sent = TRUE]
      <4>1. refunding'[b] = [refunding[b] EXCEPT !.sent = TRUE]
        BY <3>1, <3>5
      <4>2. DOMAIN refunding'[b] = {"on", "todo", "sent"} /\ refunding'[b].todo = refunding[b].todo
        BY <3>1, <4>1
      <4> QED
        BY <1>0, <3>2, <3>3, <3>5, <4>2 DEF SentInv, GaveBack
    <3> QED
      BY <2>2, <3>4, <3>5
  <2>4. returned \subseteq returned'
    BY <2>2
  <2> QED
    BY <1>0, <2>1, <2>3, <2>4, LedgerKept DEF TruthInv, IntentInv, ReceiptInv, HeardInv, Took
<1>15. ASSUME NEW b \in Bookings, RecordRefund(b) PROVE TruthInv'
  <2> DEFINE part == Head(refunding[b].todo)
  <2>1. /\ refunding[b].sent
        /\ refunding' = [refunding EXCEPT ![b].todo = Tail(@), ![b].sent = FALSE]
        /\ UNCHANGED <<intents, receipts, returned, charging, balance>>
    BY <1>15 DEF RecordRefund
  <2>2. LedgerInv'
    <3>1. CASE UNCHANGED ledger
      BY <1>0, <2>1, <3>1, LedgerKept
    <3>2. CASE RecordPayment(b, RefundKey(part.id, part.amount), "refund", part.amount, "succeeded")
      <4>1. GaveBack(part.id, part.amount)
        BY <1>0, <2>1 DEF SentInv
      <4>2. \E r \in returned : /\ RefundKey(part.id, part.amount) = RefundKey(r.id, r.amount)
                                /\ part.amount = r.amount
        BY <4>1 DEF GaveBack
      <4> HIDE DEF part
      <4> QED
        BY <1>0, <2>1, <3>2, <4>2, RowAppended
    <3> QED
      BY <1>15, <3>1, <3>2 DEF RecordRefund
  <2>3. SentInv'
    BY <1>0, <2>1, ZenonT(40) DEF SentInv, GaveBack, FlightInv
  <2> QED
    BY <1>0, <2>1, <2>2, <2>3 DEF TruthInv, IntentInv, ReceiptInv, HeardInv, Took
<1>16. ASSUME Crash PROVE TruthInv'
  <2>1. /\ UNCHANGED <<intents, receipts, returned, ledger>>
        /\ charging' = {} /\ balance'.call.type # "charge"
        /\ refunding' = [b \in Bookings |-> Idle]
    BY <1>16 DEF Crash, NoCall
  <2> QED
    BY <1>0, <2>1, LedgerKept DEF TruthInv, IntentInv, ReceiptInv, HeardInv, SentInv, Idle
<1>17. ASSUME UNCHANGED vars PROVE TruthInv'
  BY <1>0, <1>17, NothingHeard DEF vars
<1>18. ASSUME Guest \/ Console PROVE TruthInv'
  BY <1>1, <1>2, <1>18 DEF Guest, Console
<1>19. ASSUME Processor \/ Record PROVE TruthInv'
  BY <1>1, <1>3, <1>4, <1>5, <1>6, <1>19 DEF Processor, Record
<1>20. ASSUME Jobs \/ Time PROVE TruthInv'
  BY <1>1, <1>7, <1>8, <1>9, <1>10, <1>11, <1>12, <1>13, <1>14, <1>15, <1>20 DEF Jobs, Time
<1> QED
  BY <1>16, <1>17, <1>18, <1>19, <1>20 DEF Next

(* The ledger never claims money the processor did not take, nor a refund it *)
(* did not send: whatever is delivered twice, answered too late, or lost in  *)
(* a crash between the call and the row.                                     *)
THEOREM LedgerTellsTheTruth == Spec => []LedgerIsTrue
<1>1. TruthInv /\ [Next]_vars => TruthInv'
  BY TruthStep
<1>2. TruthInv => LedgerIsTrue
  BY DEF TruthInv, LedgerInv
<1> QED
  BY <1>1, <1>2, TruthInitially, PTL DEF Spec

-----------------------------------------------------------------------------
(* A row more adds what it charges to what a ledger says was taken.        *)
LEMMA ChargedAppend ==
  ASSUME NEW S, NEW s \in Seq(S), NEW row,
         \A i \in Charges(s) : s[i].amount \in Int
  PROVE  /\ row.status = "succeeded" /\ row.kind # "refund" /\ row.amount \in Int
              => Charged(Append(s, row)) = Charged(s) + row.amount
         /\ row.status # "succeeded" \/ row.kind = "refund"
              => Charged(Append(s, row)) = Charged(s)
<1> DEFINE t == Append(s, row)
           n == Len(s) + 1
<1>1. /\ DOMAIN s = 1..Len(s) /\ DOMAIN t = 1..n /\ Len(s) \in Nat
      /\ t[n] = row /\ \A i \in DOMAIN s : t[i] = s[i]
  OBVIOUS
<1>2. n \notin Charges(s) /\ Charges(s) \subseteq DOMAIN s
  BY <1>1 DEF Charges
<1>3. IsFiniteSet(Charges(s))
  <2>1. IsFiniteSet(1..Len(s))
    BY <1>1, FS_Interval
  <2> QED
    BY <1>1, <1>2, <2>1, FS_Subset
<1>4. \A i \in Charges(s) : AmountAt(t)[i] = AmountAt(s)[i] /\ AmountAt(s)[i] \in Int
  BY <1>1, <1>2 DEF AmountAt
<1>5. SumFunctionOnSet(AmountAt(t), Charges(s)) = Charged(s)
  BY <1>3, <1>4, SumDependsOn DEF Charged
<1>6. ASSUME row.status = "succeeded", row.kind # "refund", row.amount \in Int
      PROVE  Charged(t) = Charged(s) + row.amount
  <2>1. Charges(t) = Charges(s) \union {n}
    BY <1>1, <1>6 DEF Charges
  <2>2. AmountAt(t)[n] = row.amount
    BY <1>1 DEF AmountAt
  <2>3. \A i \in Charges(s) \union {n} : AmountAt(t)[i] \in Int
    BY <1>4, <1>6, <2>2
  <2> HIDE DEF t, n
  <2>4. SumFunctionOnSet(AmountAt(t), Charges(s) \union {n})
          = SumFunctionOnSet(AmountAt(t), Charges(s)) + AmountAt(t)[n]
    BY <1>2, <1>3, <2>3, SumAdd
  <2> QED
    BY <1>5, <2>1, <2>2, <2>4 DEF Charged
<1>7. ASSUME row.status # "succeeded" \/ row.kind = "refund"
      PROVE  Charged(t) = Charged(s)
  <2>1. Charges(t) = Charges(s)
    BY <1>1, <1>7 DEF Charges
  <2> HIDE DEF t
  <2> QED
    BY <1>5, <2>1 DEF Charged
<1> QED
  BY <1>6, <1>7

(* What a step does to the gross and to the ledger: nothing to either, a    *)
(* row that takes nothing, or the row of the money it took.                 *)
PaidKept == \A b \in Bookings : bill'[b].paid = bill[b].paid

LEMMA PaidStep ==
  ASSUME FlightInv, BillInv, [Next]_vars
  PROVE  \/ UNCHANGED ledger /\ PaidKept
         \/ \E b \in Bookings : \E id, kind, amount, st :
              /\ RecordPayment(b, id, kind, amount, st) /\ PaidKept
              /\ st = "failed" \/ kind = "refund"
         \/ \E t \in charging : ~Applied(t) /\ TakeMoney(t)
<1> DEFINE Nothing == UNCHANGED ledger /\ PaidKept
           RowOnly == \E b \in Bookings : \E id, kind, amount, st :
                        /\ RecordPayment(b, id, kind, amount, st) /\ PaidKept
                        /\ st = "failed" \/ kind = "refund"
           Taking == \E t \in charging : ~Applied(t) /\ TakeMoney(t)
<1> USE DEF rooms, money, stripe, flight
<1>1. ASSUME NEW b \in Bookings, NEW r \in Requests, NEW manual \in BOOLEAN,
             Create(b, r, manual)
      PROVE  Nothing
  <2>1. \E x, y : bill' = [bill EXCEPT ![b].manual = x, ![b].scheduled = y]
    BY <1>1 DEF Create
  <2> QED
    BY <1>1, <2>1, SMTT(30) DEF Create, BillInv, PaidKept
<1>2. ASSUME UNCHANGED <<bill, ledger>> PROVE Nothing
  BY <1>2 DEF PaidKept
<1>3. ASSUME NEW b, NEW via, NEW amount, NEW k, NEW c, NEW i, NEW r, NEW named,
             \/ Open(b, via) \/ ReadForCancel(b) \/ Cancel(c) \/ ConsoleRefund(b, amount)
             \/ Block(k) \/ Unblock(k) \/ NextDay \/ HoldLapses(b)
             \/ StartRefund(b) \/ SendRefund(b) \/ SendRefundUnheard(b) \/ FinishRefund(b)
             \/ SweepExpiredHolds \/ ExpireAbandonedBookings \/ DeclinePayment(i)
             \/ CompletePayment(i, amount) \/ DeliverSucceeded(r, named)
             \/ ChargeBalances \/ RecordBalance \/ Crash
             \/ ChargeOffSession(i) \/ OffSessionDeclined(i) \/ ChargeAlreadyApplied(i)
      PROVE  Nothing
  <2>1. UNCHANGED <<bill, ledger>>
    BY <1>3 DEF Open, ReadForCancel, Cancel, ConsoleRefund, Block, Unblock, NextDay, HoldLapses,
                StartRefund, SendRefund, SendRefundUnheard, FinishRefund, SweepExpiredHolds,
                ExpireAbandonedBookings, DeclinePayment, CompletePayment, DeliverSucceeded,
                ChargeBalances, RecordBalance, Crash, ChargeOffSession, OffSessionDeclined,
                ChargeAlreadyApplied
  <2> QED
    BY <1>2, <2>1
<1>4. ASSUME NEW b \in Bookings, NEW x,
             bill' = [bill EXCEPT ![b].started = x] \/ bill' = [bill EXCEPT ![b].failed = x]
      PROVE  PaidKept
  BY <1>4, Marked DEF PaidKept
<1>5. ASSUME NEW b \in Bookings, StartPayment(b) \/ GraceLapses(b) PROVE Nothing
  <2>1. (\E x : bill' = [bill EXCEPT ![b].started = x]) /\ UNCHANGED ledger
    BY <1>5 DEF StartPayment, GraceLapses
  <2> QED
    BY <1>4, <2>1
<1>6. ASSUME NEW d \in balance.todo, FlagUncollectable(d) PROVE Nothing
  <2>1. d.b \in Bookings
    BY DEF FlightInv, Written
  <2>2. bill' = [bill EXCEPT ![d.b].failed = TRUE] /\ UNCHANGED ledger
    BY <1>6 DEF FlagUncollectable
  <2> QED
    BY <1>4, <2>1, <2>2
<1>7. ASSUME NEW b \in Bookings, NEW id, NEW kind, NEW amount, RecordFailure(b, id, kind, amount)
      PROVE  Nothing \/ RowOnly
  <2>1. CASE UNCHANGED <<bill, ledger, mail>>
    BY <1>2, <2>1
  <2>2. CASE /\ RecordPayment(b, id, kind, amount, "failed")
             /\ UNCHANGED bill \/ bill' = [bill EXCEPT ![b].failed = TRUE]
    <3>1. PaidKept
      BY <1>4, <2>2 DEF PaidKept
    <3> QED
      BY <2>2, <3>1
  <2> QED
    BY <1>7, <2>1, <2>2 DEF RecordFailure
<1>8. ASSUME NEW id, DeliverFailed(id) PROVE Nothing \/ RowOnly
  <2>1. IntentOf(id).b \in Bookings
    BY <1>8, KnownIntent DEF DeliverFailed, FlightInv, Written
  <2>2. \/ UNCHANGED <<bill, ledger>>
        \/ RecordFailure(IntentOf(id).b, id, IntentOf(id).kind, IntentOf(id).amount)
    BY <1>8 DEF DeliverFailed
  <2> HIDE DEF Nothing, RowOnly
  <2> QED
    BY <1>2, <1>7, <2>1, <2>2
<1>9. ASSUME RecordBalanceFailure PROVE Nothing \/ RowOnly
  <2>1. /\ balance.call.b \in Bookings
        /\ RecordFailure(balance.call.b, balance.call.id, "balance", balance.call.amount)
    BY <1>9 DEF RecordBalanceFailure, FlightInv, Written
  <2> HIDE DEF Nothing, RowOnly
  <2> QED
    BY <1>7, <2>1
<1>10. ASSUME NEW b \in Bookings, RecordRefund(b) PROVE Nothing \/ RowOnly
  <2>1. PaidKept
    BY <1>10 DEF RecordRefund, PaidKept
  <2>2. \/ UNCHANGED ledger
        \/ \E id, amount : RecordPayment(b, id, "refund", amount, "succeeded")
    BY <1>10 DEF RecordRefund
  <2> QED
    BY <2>1, <2>2
<1>11. ASSUME NEW t \in charging, ChargeUnderpaid(t) \/ ConfirmCharge(t) \/ RefundDue(t)
       PROVE  Taking
  BY <1>11 DEF ChargeUnderpaid, ConfirmCharge, RefundDue
<1>12. ASSUME UNCHANGED vars PROVE Nothing
  BY <1>2, <1>12 DEF vars
<1> HIDE DEF Nothing, RowOnly, Taking
<1>13. ASSUME Guest \/ Console PROVE Nothing \/ RowOnly \/ Taking
  BY <1>1, <1>3, <1>5, <1>13 DEF Guest, Console
<1>14. ASSUME Processor \/ Record PROVE Nothing \/ RowOnly \/ Taking
  BY <1>3, <1>8, <1>11, <1>14 DEF Processor, Record, RecordCharge
<1>15. ASSUME Jobs \/ Time \/ Crash PROVE Nothing \/ RowOnly \/ Taking
  BY <1>3, <1>5, <1>6, <1>9, <1>10, <1>15 DEF Jobs, Time
<1>16. Nothing \/ RowOnly \/ Taking
  BY <1>12, <1>13, <1>14, <1>15 DEF Next
<1> QED
  BY <1>16 DEF Nothing, RowOnly, Taking

(* Every step keeps the gross the sum of the ledger.                       *)
LEMMA GrossStep ==
  ASSUME MoneyInv, TruthInv, GrossIsLedger, [Next]_vars
  PROVE  GrossIsLedger'
<1>1. FlightInv /\ BillInv /\ CashInv /\ HeardInv /\ LedgerInv
  BY DEF MoneyInv, TruthInv
<1>2. ASSUME NEW b \in Bookings, NEW i \in Charges(ledger[b])
      PROVE  ledger[b][i].amount \in Int
  <2>1. [id |-> ledger[b][i].id, amount |-> ledger[b][i].amount] \in receipts
    BY <1>1 DEF Charges, LedgerInv, LedgerIsTrue
  <2> QED
    BY <1>1, <2>1 DEF CashInv
<1>3. ASSUME NEW b \in Bookings, NEW id, NEW kind, NEW amount, NEW st,
             RecordPayment(b, id, kind, amount, st)
      PROVE  /\ st = "succeeded" /\ kind # "refund" /\ amount \in Int
                  => Gross(b)' = Gross(b) + amount
             /\ st # "succeeded" \/ kind = "refund" => Gross(b)' = Gross(b)
             /\ \A c \in Bookings \ {b} : Gross(c)' = Gross(c)
  <2> DEFINE row == [id |-> id, kind |-> kind, amount |-> amount, status |-> st]
  <2>1. row.status = st /\ row.kind = kind /\ row.amount = amount
    OBVIOUS
  <2>2. ledger'[b] = Append(ledger[b], row) /\ \A c \in Bookings \ {b} : ledger'[c] = ledger[c]
    BY <1>1, <1>3 DEF RecordPayment, LedgerInv
  <2>3. PICK S : ledger[b] \in Seq(S)
    BY <1>1 DEF LedgerInv
  <2> HIDE DEF row
  <2>4. /\ st = "succeeded" /\ kind # "refund" /\ amount \in Int
             => Charged(ledger'[b]) = Charged(ledger[b]) + amount
        /\ st # "succeeded" \/ kind = "refund" => Charged(ledger'[b]) = Charged(ledger[b])
    BY <1>2, <2>1, <2>2, <2>3, ChargedAppend
  <2> QED
    BY <2>2, <2>4 DEF Gross
<1>4. CASE UNCHANGED ledger /\ PaidKept
  BY <1>4 DEF GrossIsLedger, Gross, PaidKept
<1>5. ASSUME NEW b \in Bookings, NEW id, NEW kind, NEW amount, NEW st,
             RecordPayment(b, id, kind, amount, st), PaidKept, st = "failed" \/ kind = "refund"
      PROVE  GrossIsLedger'
  <2>1. \A c \in Bookings : Gross(c)' = Gross(c)
    BY <1>3, <1>5
  <2> QED
    BY <1>5, <2>1 DEF GrossIsLedger, PaidKept
<1>6. ASSUME NEW t \in charging, TakeMoney(t) PROVE GrossIsLedger'
  <2> DEFINE b == t.in.b
  <2>1. /\ b \in Bookings /\ t.in.amount \in Int /\ t.in.kind # "refund"
        /\ RecordPayment(b, t.in.id, t.in.kind, t.in.amount, "succeeded")
    BY <1>1, <1>6 DEF FlightInv, Written, CashInv, HeardInv, TakeMoney
  <2>2. /\ bill'[b].paid = bill[b].paid + t.in.amount
        /\ \A c \in Bookings \ {b} : bill'[c] = bill[c]
    BY <1>1, <1>6, MoneyTaken
  <2>3. Gross(b)' = Gross(b) + t.in.amount /\ \A c \in Bookings \ {b} : Gross(c)' = Gross(c)
    BY <1>3, <2>1
  <2> QED
    BY <2>1, <2>2, <2>3 DEF GrossIsLedger
<1> QED
  BY <1>1, <1>4, <1>5, <1>6, PaidStep

(* amount_paid_cents is the gross collected: the sum of the charges that    *)
(* succeeded, however often one of them is delivered, recorded by the job   *)
(* as well as by the webhook, or tried again after a crash.                 *)
THEOREM GrossIsCollected == Spec => []GrossIsLedger
<1> DEFINE I == MoneyInv /\ TruthInv /\ GrossIsLedger
<1>1. Init => I
  <2>1. Init => \A b \in Bookings : bill[b].paid = 0 /\ ledger[b] = <<>>
    BY DEF Init, NewBill
  <2>2. Charged(<<>>) = 0
    <3>1. Charges(<<>>) = {}
      BY DEF Charges
    <3> QED
      BY <3>1, SumOfNone DEF Charged
  <2> QED
    BY <2>1, <2>2, MoneyStart, TruthInitially DEF GrossIsLedger, Gross
<1>2. I /\ [Next]_vars => I'
  BY MoneyStep, TruthStep, GrossStep
<1> QED
  BY <1>1, <1>2, PTL DEF Spec

-----------------------------------------------------------------------------
(* The messages counted for each guest, by template.                       *)
MailInv ==
  /\ mail = [b \in Bookings |-> mail[b]]
  /\ \A b \in Bookings : /\ DOMAIN mail[b] = DOMAIN NoMail
                         /\ mail[b].failed \in Nat

(* The flag and the message stand still, or go up together.                *)
FlagKept ==
  \A b \in Bookings : \/ bill'[b].failed = bill[b].failed /\ mail'[b].failed = mail[b].failed
                      \/ bill'[b].failed = TRUE /\ mail'[b].failed > 0

LEMMA MailSent ==
  ASSUME MailInv, NEW b \in Bookings, NEW template \in DOMAIN NoMail, Send(b, template)
  PROVE  /\ MailInv'
         /\ template # "failed" => \A c \in Bookings : mail'[c].failed = mail[c].failed
         /\ template = "failed" => /\ mail'[b].failed > 0
                                   /\ \A c \in Bookings \ {b} : mail'[c].failed = mail[c].failed
<1>1. /\ mail' = [c \in Bookings |-> mail'[c]]
      /\ \A c \in Bookings \ {b} : mail'[c] = mail[c]
      /\ mail'[b] = [mail[b] EXCEPT ![template] = mail[b][template] + 1]
  BY DEF MailInv, Send
<1>2. DOMAIN mail'[b] = DOMAIN NoMail
  BY <1>1 DEF MailInv
<1>3. "failed" \in DOMAIN NoMail
  BY DEF NoMail
<1>4. template # "failed" => mail'[b].failed = mail[b].failed
  BY <1>1, <1>3 DEF MailInv
<1>5. template = "failed" => mail'[b].failed = mail[b].failed + 1
  BY <1>1, <1>3 DEF MailInv
<1>6. mail[b].failed \in Nat
  BY DEF MailInv
<1>7. mail'[b].failed \in Nat
  BY <1>4, <1>5, <1>6
<1>8. MailInv'
  BY <1>1, <1>2, <1>7 DEF MailInv
<1>9. template = "failed" => mail'[b].failed > 0
  BY <1>5, <1>6
<1>10. \A c \in Bookings \ {b} : mail'[c].failed = mail[c].failed
  BY <1>1
<1> QED
  BY <1>4, <1>8, <1>9, <1>10

LEMMA MailPromised ==
  ASSUME MailInv, NEW b \in Bookings, NEW refunded, CancellationMail(b, refunded)
  PROVE  MailInv' /\ \A c \in Bookings : mail'[c].failed = mail[c].failed
<1> DEFINE told == [mail EXCEPT ![b].cancellation = @ + 1]
<1>1. /\ told = [c \in Bookings |-> told[c]]
      /\ \A c \in Bookings \ {b} : told[c] = mail[c]
      /\ told[b] = [mail[b] EXCEPT !.cancellation = @ + 1]
  BY DEF MailInv
<1>2. DOMAIN told[b] = DOMAIN NoMail /\ told[b].failed = mail[b].failed
  BY <1>1 DEF MailInv, NoMail
<1>3. mail' = [told EXCEPT ![b].promised = refunded]
  BY DEF CancellationMail
<1> HIDE DEF told
<1>4. /\ mail' = [c \in Bookings |-> mail'[c]]
      /\ \A c \in Bookings \ {b} : mail'[c] = mail[c]
      /\ mail'[b] = [told[b] EXCEPT !.promised = refunded]
  BY <1>1, <1>3
<1>5. DOMAIN mail'[b] = DOMAIN NoMail /\ mail'[b].failed = mail[b].failed
  BY <1>2, <1>4 DEF NoMail
<1> QED
  BY <1>4, <1>5 DEF MailInv

(* A step that flags a booking writes to its guest, and no other does       *)
(* either; nothing takes a flag down or a message back.                    *)
LEMMA FlagStep ==
  ASSUME FlightInv, BillInv, CashInv, MailInv, [Next]_vars
  PROVE  MailInv' /\ FlagKept
<1> DEFINE Kept == MailInv' /\ FlagKept
           FlagsKept == \A b \in Bookings : bill'[b].failed = bill[b].failed
           Sent == \/ UNCHANGED mail
                   \/ \E b \in Bookings, template \in DOMAIN NoMail :
                        Send(b, template) /\ template # "failed"
                   \/ \E b \in Bookings : \E refunded : CancellationMail(b, refunded)
<1> USE DEF rooms, money, stripe, flight
<1>1. ASSUME FlagsKept, Sent PROVE Kept
  <2>1. CASE UNCHANGED mail
    BY <1>1, <2>1 DEF MailInv, FlagKept
  <2>2. ASSUME NEW b \in Bookings, NEW template \in DOMAIN NoMail,
               Send(b, template), template # "failed"
        PROVE  Kept
    BY <1>1, <2>2, MailSent DEF FlagKept
  <2>3. ASSUME NEW b \in Bookings, NEW refunded, CancellationMail(b, refunded)
        PROVE  Kept
    BY <1>1, <2>3, MailPromised DEF FlagKept
  <2> QED
    BY <1>1, <2>1, <2>2, <2>3
<1>2. ASSUME NEW b \in Bookings, bill' = [bill EXCEPT ![b].failed = TRUE], Send(b, "failed")
      PROVE  Kept
  <2>1. "failed" \in DOMAIN NoMail
    BY DEF NoMail
  <2>2. /\ MailInv' /\ mail'[b].failed > 0
        /\ \A c \in Bookings \ {b} : mail'[c].failed = mail[c].failed
    BY <1>2, <2>1, MailSent
  <2>3. bill'[b].failed = TRUE /\ \A c \in Bookings \ {b} : bill'[c].failed = bill[c].failed
    BY <1>2 DEF BillInv
  <2> QED
    BY <2>2, <2>3 DEF FlagKept
<1>3. "confirmation" \in DOMAIN NoMail /\ "receipt" \in DOMAIN NoMail
  BY DEF NoMail
<1>4. ASSUME NEW b \in Bookings, NEW r \in Requests, NEW manual \in BOOLEAN,
             Create(b, r, manual)
      PROVE  Kept
  <2>1. \E x, y : bill' = [bill EXCEPT ![b].manual = x, ![b].scheduled = y]
    BY <1>4 DEF Create
  <2>2. FlagsKept
    BY <2>1 DEF BillInv
  <2>3. Sent
    BY <1>3, <1>4 DEF Create
  <2> QED
    BY <1>1, <2>2, <2>3
<1>5. ASSUME UNCHANGED <<bill, mail>> PROVE Kept
  BY <1>1, <1>5
<1>6. ASSUME NEW b, NEW via, NEW amount, NEW k, NEW i, NEW r, NEW named,
             \/ Open(b, via) \/ ReadForCancel(b) \/ ConsoleRefund(b, amount)
             \/ Block(k) \/ Unblock(k) \/ NextDay \/ HoldLapses(b)
             \/ StartRefund(b) \/ SendRefund(b) \/ SendRefundUnheard(b) \/ FinishRefund(b)
             \/ RecordRefund(b)
             \/ SweepExpiredHolds \/ ExpireAbandonedBookings \/ DeclinePayment(i)
             \/ CompletePayment(i, amount) \/ DeliverSucceeded(r, named)
             \/ ChargeBalances \/ RecordBalance \/ Crash
             \/ ChargeOffSession(i) \/ OffSessionDeclined(i) \/ ChargeAlreadyApplied(i)
      PROVE  Kept
  <2>1. UNCHANGED <<bill, mail>>
    BY <1>6 DEF Open, ReadForCancel, ConsoleRefund, Block, Unblock, NextDay, HoldLapses,
                StartRefund, SendRefund, SendRefundUnheard, FinishRefund, RecordRefund,
                SweepExpiredHolds,
                ExpireAbandonedBookings, DeclinePayment, CompletePayment, DeliverSucceeded,
                ChargeBalances, RecordBalance, Crash, ChargeOffSession, OffSessionDeclined,
                ChargeAlreadyApplied
  <2> QED
    BY <1>5, <2>1
<1>7. ASSUME NEW b \in Bookings, StartPayment(b) \/ GraceLapses(b) PROVE Kept
  <2>1. (\E x : bill' = [bill EXCEPT ![b].started = x]) /\ UNCHANGED mail
    BY <1>7 DEF StartPayment, GraceLapses
  <2>2. FlagsKept
    BY <2>1 DEF BillInv
  <2> QED
    BY <1>1, <2>1, <2>2
<1>8. ASSUME NEW c \in cancelling, Cancel(c) PROVE Kept
  <2>1. c.b \in Bookings /\ UNCHANGED bill /\ \E refunded : CancellationMail(c.b, refunded)
    BY <1>8 DEF Cancel, FlightInv, Written
  <2> QED
    BY <1>1, <2>1
<1>9. ASSUME NEW d \in balance.todo, FlagUncollectable(d) PROVE Kept
  <2>1. d.b \in Bookings
    BY DEF FlightInv, Written
  <2> QED
    BY <1>2, <1>9, <2>1 DEF FlagUncollectable
<1>10. ASSUME NEW b \in Bookings, NEW id, NEW kind, NEW amount, RecordFailure(b, id, kind, amount)
       PROVE  Kept
  <2>1. \/ UNCHANGED <<bill, mail>>
        \/ bill' = [bill EXCEPT ![b].failed = TRUE] /\ Send(b, "failed")
    BY <1>10 DEF RecordFailure
  <2> QED
    BY <1>2, <1>5, <2>1
<1>11. ASSUME NEW id, DeliverFailed(id) PROVE Kept
  <2>1. IntentOf(id).b \in Bookings
    BY <1>11, KnownIntent DEF DeliverFailed, FlightInv, Written
  <2>2. \/ UNCHANGED <<bill, mail>>
        \/ RecordFailure(IntentOf(id).b, id, IntentOf(id).kind, IntentOf(id).amount)
    BY <1>11 DEF DeliverFailed
  <2> HIDE DEF Kept
  <2> QED
    BY <1>5, <1>10, <2>1, <2>2
<1>12. ASSUME RecordBalanceFailure PROVE Kept
  <2>1. /\ balance.call.b \in Bookings
        /\ RecordFailure(balance.call.b, balance.call.id, "balance", balance.call.amount)
    BY <1>12 DEF RecordBalanceFailure, FlightInv, Written
  <2> HIDE DEF Kept
  <2> QED
    BY <1>10, <2>1
<1>13. ASSUME NEW t \in charging, ChargeUnderpaid(t) \/ ConfirmCharge(t) \/ RefundDue(t)
       PROVE  Kept
  <2>1. t.in.b \in Bookings /\ TakeMoney(t)
    BY <1>13 DEF FlightInv, Written, ChargeUnderpaid, ConfirmCharge, RefundDue
  <2>2. FlagsKept
    BY <2>1, MoneyTaken
  <2>3. Sent
    BY <1>3, <1>13, <2>1 DEF ChargeUnderpaid, ConfirmCharge, RefundDue
  <2> QED
    BY <1>1, <2>2, <2>3
<1>14. ASSUME UNCHANGED vars PROVE Kept
  BY <1>5, <1>14 DEF vars
<1> HIDE DEF Kept
<1>15. ASSUME Guest \/ Console PROVE Kept
  BY <1>4, <1>6, <1>7, <1>8, <1>15 DEF Guest, Console
<1>16. ASSUME Processor \/ Record PROVE Kept
  BY <1>6, <1>11, <1>13, <1>16 DEF Processor, Record, RecordCharge
<1>17. ASSUME Jobs \/ Time \/ Crash PROVE Kept
  BY <1>6, <1>7, <1>9, <1>12, <1>17 DEF Jobs, Time
<1>18. Kept
  BY <1>14, <1>15, <1>16, <1>17 DEF Next
<1> QED
  BY <1>18 DEF Kept

(* RecordFailure: "the guest hears about it in the same transaction as the  *)
(* flag the owner sees, so the two can never disagree": neither a decline   *)
(* delivered again, nor the job's own record of it, nor a crash in between. *)
THEOREM FlagIsTold == Spec => []FlagMatchesMail
<1> DEFINE I == MoneyInv /\ MailInv /\ FlagMatchesMail
<1>1. Init => I
  <2>1. Init => MailInv /\ FlagMatchesMail
    BY DEF Init, MailInv, NoMail, NewBill, FlagMatchesMail
  <2> QED
    BY <2>1, MoneyStart
<1>2. I /\ [Next]_vars => I'
  <2> SUFFICES ASSUME I, [Next]_vars PROVE I'
    OBVIOUS
  <2>1. MailInv' /\ FlagKept
    BY FlagStep DEF MoneyInv
  <2>2. FlagMatchesMail'
    BY <2>1 DEF FlagMatchesMail, FlagKept
  <2> QED
    BY <2>1, <2>2, MoneyStep
<1> QED
  BY <1>1, <1>2, PTL DEF Spec
=============================================================================
