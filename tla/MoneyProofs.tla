----------------------------- MODULE MoneyProofs -----------------------------
(***************************************************************************)
(* What a guest is asked for, pays and is told: while the payments of a     *)
(* stay are opened from one side, nobody pays more than it costs and nobody *)
(* is told twice that it is confirmed.  And what the screens show of it,    *)
(* and that a guest told of a refund has it queued until it has gone back.  *)
(***************************************************************************)
EXTENDS InnProofs, Desk

-----------------------------------------------------------------------------
(* What the processor has been asked for, and the ledger has not got yet.    *)
Entered(b, id) == Recorded(b, id, "succeeded")
AtBooking(b)   == ChargeAtBooking(Quote(b), ~bill[b].scheduled)

(* The balance of a booking is in the job's hands, or was.                   *)
Awaited(b) == Known(BalanceKey(b)) \/ \E d \in balance.todo : d.b = b
Settled(b) == status[b] \in {"confirmed", "cancelled"}

(* A payment is opened for what is outstanding, under a key that says so.    *)
AskedInv ==
  /\ \A i \in intents : /\ i.amount \in Nat
                        /\ i.id # BalanceKey(i.b) =>
                             i.amount > 0 /\ i.id = IntentKey(i.id[1], i.b, i.amount)
  /\ \A r \in receipts, i \in intents : r.id = i.id => r.amount <= i.amount
  /\ \A t \in charging : \E i \in intents : i.id = t.in.id /\ i.b = t.in.b

PlanInv ==
  \A b \in Bookings :
    /\ status[b] = "absent" => bill[b].paid = 0
    /\ bill[b].scheduled => ~bill[b].manual
    /\ Awaited(b) => Settled(b) /\ bill[b].scheduled

(* What is asked for and not entered is what is outstanding; nothing of it   *)
(* is left when the job begins, and what the job asks for is the rest.       *)
OutstandingInv ==
  \A b \in Bookings : OneSided(b) =>
    /\ \A i \in Opened(b) : Entered(b, i.id) \/ i.amount = AtBooking(b) - bill[b].paid
    /\ Awaited(b) => \A i \in Opened(b) : Entered(b, i.id)
    /\ Entered(b, BalanceKey(b)) \/
         /\ \A i \in intents : i.id = BalanceKey(b) => bill[b].paid + i.amount <= stay[b].total
         /\ \A d \in balance.todo : d.b = b => bill[b].paid + d.amount <= stay[b].total

OnceInv == AskedInv /\ PlanInv /\ OutstandingInv /\ NeverOvercharged

(* Confirmations, by what was collected: one is written for a checkout when  *)
(* what is due at booking is in, and a transaction whose payment is not the  *)
(* first of its stay has read it as confirmed or cancelled.                 *)
ConfirmInv ==
  /\ \A b \in Bookings : /\ mail[b].confirmation \in Nat
                         /\ status[b] = "absent" => mail[b].confirmation = 0
                         /\ status[b] # "absent" /\ bill[b].manual => Settled(b)
                         /\ OneSided(b) /\ ~bill[b].manual /\ mail[b].confirmation > 0
                              => bill[b].paid >= AtBooking(b)
  /\ \A t \in charging :
       /\ t.found.status # "absent"
       /\ bill[t.in.b].manual \/ t.in.id = BalanceKey(t.in.b)
            => t.found.status \in {"confirmed", "cancelled"}
  /\ OneConfirmation

-----------------------------------------------------------------------------
(* The terms of a booking, once written, are never rewritten, and a stay     *)
(* once confirmed is confirmed or cancelled ever after.                     *)
TermsKept ==
  /\ UNCHANGED stay
  /\ \A b \in Bookings : /\ bill'[b].scheduled = bill[b].scheduled
                         /\ bill'[b].manual = bill[b].manual
                         /\ status'[b] = "absent" <=> status[b] = "absent"
                         /\ Settled(b) => Settled(b)'

LEMMA TermsStep ==
  ASSUME FlightInv, BillInv, CashInv, [Next]_vars
  PROVE  \/ TermsKept
         \/ \E b \in Bookings, r \in Requests, manual \in BOOLEAN : Create(b, r, manual)
<1> USE DEF rooms, money, stripe, flight
<1> DEFINE RowsKept == \A b \in Bookings : /\ bill'[b].scheduled = bill[b].scheduled
                                           /\ bill'[b].manual = bill[b].manual
           StatusKept == \A b \in Bookings : /\ status'[b] = "absent" <=> status[b] = "absent"
                                             /\ Settled(b) => Settled(b)'
<1>1. ASSUME UNCHANGED <<stay, status, bill>> PROVE TermsKept
  BY <1>1 DEF TermsKept, Settled
<1>2. ASSUME NEW b \in Bookings, Written(b), ReleaseAndCancel(b) PROVE StatusKept /\ UNCHANGED stay
  BY <1>2 DEF ReleaseAndCancel, FlightInv, Written, Settled
<1>3. ASSUME NEW b, NEW via, NEW amount, NEW k, NEW i, NEW r, NEW named,
             \/ Open(b, via) \/ ReadForCancel(b) \/ ConsoleRefund(b, amount)
             \/ Block(k) \/ Unblock(k) \/ NextDay \/ HoldLapses(b)
             \/ StartRefund(b) \/ SendRefund(b) \/ SendRefundUnheard(b) \/ FinishRefund(b)
             \/ SweepExpiredHolds \/ DeclinePayment(i)
             \/ CompletePayment(i, amount) \/ DeliverSucceeded(r, named)
             \/ ChargeBalances \/ RecordBalance \/ Crash
             \/ ChargeOffSession(i) \/ OffSessionDeclined(i) \/ ChargeAlreadyApplied(i)
      PROVE  TermsKept
  <2>1. UNCHANGED <<stay, status, bill>>
    BY <1>3 DEF Open, ReadForCancel, ConsoleRefund, Block, Unblock, NextDay, HoldLapses,
                StartRefund, SendRefund, SendRefundUnheard, FinishRefund, SweepExpiredHolds,
                DeclinePayment, CompletePayment, DeliverSucceeded, ChargeBalances, RecordBalance,
                Crash, ChargeOffSession, OffSessionDeclined, ChargeAlreadyApplied
  <2> QED
    BY <1>1, <2>1
<1>4. ASSUME NEW b \in Bookings, NEW x, UNCHANGED <<stay, status>>,
             bill' = [bill EXCEPT ![b].started = x] \/ bill' = [bill EXCEPT ![b].failed = x]
      PROVE  TermsKept
  <2>1. RowsKept
    BY <1>4, Marked
  <2> QED
    BY <1>4, <2>1 DEF TermsKept, Settled
<1>5. ASSUME NEW b \in Bookings, StartPayment(b) \/ GraceLapses(b) PROVE TermsKept
  <2>1. (\E x : bill' = [bill EXCEPT ![b].started = x]) /\ UNCHANGED <<stay, status>>
    BY <1>5 DEF StartPayment, GraceLapses
  <2> QED
    BY <1>4, <2>1
<1>6. ASSUME NEW c \in cancelling, Cancel(c) PROVE TermsKept
  <2>1. Written(c.b) /\ UNCHANGED bill /\ ReleaseAndCancel(c.b)
    BY <1>6 DEF Cancel, FlightInv
  <2>2. StatusKept /\ UNCHANGED stay
    BY <1>2, <2>1 DEF Written
  <2> QED
    BY <2>1, <2>2 DEF TermsKept
<1>7. ASSUME ExpireAbandonedBookings PROVE TermsKept
  <2>1. UNCHANGED <<stay, bill>> /\ StatusKept
    BY <1>7 DEF ExpireAbandonedBookings, Abandoned, Settled
  <2> QED
    BY <2>1 DEF TermsKept
<1>8. ASSUME NEW d \in balance.todo, FlagUncollectable(d) PROVE TermsKept
  <2>1. d.b \in Bookings
    BY DEF FlightInv, Written
  <2> QED
    BY <1>4, <1>8, <2>1 DEF FlagUncollectable
<1>9. ASSUME NEW b \in Bookings, NEW id, NEW kind, NEW amount, UNCHANGED <<stay, status>>,
             RecordFailure(b, id, kind, amount)
      PROVE  TermsKept
  <2>1. UNCHANGED bill \/ bill' = [bill EXCEPT ![b].failed = TRUE]
    BY <1>9 DEF RecordFailure
  <2> QED
    BY <1>1, <1>4, <1>9, <2>1
<1>10. ASSUME NEW id, DeliverFailed(id) PROVE TermsKept
  <2>1. IntentOf(id).b \in Bookings /\ UNCHANGED <<stay, status>>
    BY <1>10, KnownIntent DEF DeliverFailed, FlightInv, Written
  <2>2. \/ UNCHANGED bill
        \/ RecordFailure(IntentOf(id).b, id, IntentOf(id).kind, IntentOf(id).amount)
    BY <1>10 DEF DeliverFailed
  <2> QED
    BY <1>1, <1>9, <2>1, <2>2
<1>11. ASSUME RecordBalanceFailure PROVE TermsKept
  <2>1. /\ balance.call.b \in Bookings /\ UNCHANGED <<stay, status>>
        /\ RecordFailure(balance.call.b, balance.call.id, "balance", balance.call.amount)
    BY <1>11 DEF RecordBalanceFailure, FlightInv, Written
  <2> QED
    BY <1>9, <2>1
<1>12. ASSUME NEW b \in Bookings, RecordRefund(b) PROVE TermsKept
  <2>1. Written(b) /\ UNCHANGED bill /\ (UNCHANGED <<stay, status>> \/ ReleaseAndCancel(b))
    BY <1>12 DEF RecordRefund, FlightInv
  <2>2. CASE ReleaseAndCancel(b)
    <3>1. StatusKept /\ UNCHANGED stay
      BY <1>2, <2>1, <2>2
    <3> QED
      BY <2>1, <3>1 DEF TermsKept
  <2> QED
    BY <1>1, <2>1, <2>2
<1>13. ASSUME NEW t \in charging, ChargeUnderpaid(t) \/ ConfirmCharge(t) \/ RefundDue(t)
       PROVE  TermsKept
  <2>1. Written(t.in.b) /\ t.in.b \in Bookings /\ TakeMoney(t)
    BY <1>13 DEF FlightInv, Written, ChargeUnderpaid, ConfirmCharge, RefundDue
  <2>2. RowsKept
    BY <2>1, MoneyTaken
  <2>3. UNCHANGED stay
    BY <1>13 DEF ChargeUnderpaid, ConfirmCharge, RefundDue, ReleaseAndCancel
  <2>4. ASSUME ChargeUnderpaid(t) PROVE StatusKept
    BY <2>4 DEF ChargeUnderpaid, Settled
  <2>5. ASSUME ConfirmCharge(t) PROVE StatusKept
    BY <2>1, <2>5 DEF ConfirmCharge, FlightInv, Written, Settled
  <2>6. ASSUME RefundDue(t) PROVE StatusKept
    BY <1>2, <2>1, <2>6 DEF RefundDue
  <2>7. StatusKept
    BY <1>13, <2>4, <2>5, <2>6
  <2> QED
    BY <2>2, <2>3, <2>7 DEF TermsKept
<1>14. ASSUME UNCHANGED vars PROVE TermsKept
  BY <1>1, <1>14 DEF vars
<1> DEFINE Writing == \E b \in Bookings, r \in Requests, manual \in BOOLEAN : Create(b, r, manual)
<1>15. ASSUME Guest \/ Console PROVE TermsKept \/ Writing
  BY <1>3, <1>5, <1>6, <1>15 DEF Guest, Console
<1>16. ASSUME Processor \/ Record PROVE TermsKept
  BY <1>3, <1>10, <1>13, <1>16 DEF Processor, Record, RecordCharge
<1>17. ASSUME Jobs \/ Time \/ Crash PROVE TermsKept
  BY <1>3, <1>5, <1>7, <1>8, <1>11, <1>12, <1>17 DEF Jobs, Time
<1> QED
  BY <1>14, <1>15, <1>16, <1>17 DEF Next

(* A row that succeeded is entered, and what was entered before still is.    *)
LEMMA EnteredRow ==
  ASSUME LedgerInv, NEW b \in Bookings, NEW id, NEW kind, NEW amount, NEW st,
         RecordPayment(b, id, kind, amount, st)
  PROVE  /\ \A c \in Bookings : \A x : Entered(c, x) => Entered(c, x)'
         /\ st = "succeeded" => Entered(b, id)'
         /\ \A x : Entered(b, x)' => x = id \/ Entered(b, x)
<1> DEFINE row == [id |-> id, kind |-> kind, amount |-> amount, status |-> st]
<1>1. row.id = id /\ row.status = st
  OBVIOUS
<1>2. ledger'[b] = Append(ledger[b], row) /\ \A c \in Bookings \ {b} : ledger'[c] = ledger[c]
  BY DEF RecordPayment, LedgerInv
<1>3. PICK S : ledger[b] \in Seq(S)
  BY DEF LedgerInv
<1> HIDE DEF row
<1>4. /\ \A n \in DOMAIN ledger[b] : n \in DOMAIN ledger'[b] /\ ledger'[b][n] = ledger[b][n]
      /\ Len(ledger[b]) + 1 \in DOMAIN ledger'[b]
      /\ ledger'[b][Len(ledger[b]) + 1] = row
      /\ \A n \in DOMAIN ledger'[b] : n \in DOMAIN ledger[b] \/ ledger'[b][n] = row
  BY <1>2, <1>3
<1> QED
  BY <1>1, <1>2, <1>4 DEF Entered, Recorded

(* What is in the ledger stays there.                                       *)
LEMMA EnteredStep ==
  ASSUME FlightInv, BillInv, CashInv, LedgerInv, [Next]_vars
  PROVE  \A b \in Bookings : \A id : Entered(b, id) => Entered(b, id)'
<1>1. CASE UNCHANGED ledger
  BY <1>1 DEF Entered, Recorded
<1>2. ASSUME NEW t \in charging, TakeMoney(t)
      PROVE  \A b \in Bookings : \A id : Entered(b, id) => Entered(b, id)'
  <2>1. t.in.b \in Bookings /\ RecordPayment(t.in.b, t.in.id, t.in.kind, t.in.amount, "succeeded")
    BY <1>2 DEF FlightInv, Written, TakeMoney
  <2> QED
    BY <2>1, EnteredRow
<1> QED
  BY <1>1, <1>2, EnteredRow, PaidStep

(* A payment at the processor is opened, made, or asked for by the job; the  *)
(* list of the job is written by its scan, and otherwise only grows shorter. *)
AskedOffSession(d) ==
  /\ ~Known(BalanceKey(d.b))
  /\ intents' = intents \union {BalanceIntent(d)}
  /\ receipts' \subseteq receipts \union {[id |-> BalanceKey(d.b), amount |-> d.amount]}
  /\ balance'.todo \subseteq balance.todo

NothingAsked ==
  UNCHANGED <<intents, receipts>> /\ balance'.todo \subseteq balance.todo

LEMMA AskStep ==
  ASSUME [Next]_vars
  PROVE  \/ NothingAsked
         \/ \E b \in Bookings, via \in {"link", "moto"} : Open(b, via)
         \/ \E i \in intents : \E amount \in 1..i.amount : CompletePayment(i, amount)
         \/ ChargeBalances
         \/ \E d \in balance.todo :
              (ChargeOffSession(d) \/ OffSessionDeclined(d)) /\ AskedOffSession(d)
<1> USE DEF rooms, money, stripe, flight
<1>1. ASSUME NEW b, NEW r, NEW manual, NEW amount, NEW k, NEW i, NEW c, NEW id, NEW named,
             \/ Create(b, r, manual) \/ StartPayment(b) \/ ReadForCancel(b) \/ Cancel(c)
             \/ ConsoleRefund(b, amount) \/ Block(k) \/ Unblock(k) \/ NextDay \/ HoldLapses(b)
             \/ GraceLapses(b) \/ StartRefund(b) \/ SendRefund(b) \/ SendRefundUnheard(b)
             \/ RecordRefund(b) \/ FinishRefund(b)
             \/ SweepExpiredHolds \/ ExpireAbandonedBookings \/ DeclinePayment(i)
             \/ DeliverSucceeded(r, named) \/ DeliverFailed(id)
      PROVE  NothingAsked
  <2>1. UNCHANGED <<intents, receipts, balance>>
    BY <1>1 DEF Create, StartPayment, ReadForCancel, Cancel, ConsoleRefund, Block, Unblock,
                NextDay, HoldLapses, GraceLapses, StartRefund, SendRefund, SendRefundUnheard,
                RecordRefund, FinishRefund, SweepExpiredHolds, ExpireAbandonedBookings,
                DeclinePayment, DeliverSucceeded, DeliverFailed
  <2> QED
    BY <2>1 DEF NothingAsked
<1>2. ASSUME NEW d, FlagUncollectable(d) \/ RecordBalance \/ RecordBalanceFailure \/ Crash
      PROVE  NothingAsked
  <2>1. UNCHANGED <<intents, receipts>>
    BY <1>2 DEF FlagUncollectable, RecordBalance, RecordBalanceFailure, Crash
  <2>2. CASE FlagUncollectable(d)
    BY <2>1, <2>2 DEF FlagUncollectable, NothingAsked
  <2>3. CASE RecordBalance
    BY <2>1, <2>3 DEF RecordBalance, NothingAsked
  <2>4. CASE RecordBalanceFailure
    BY <2>1, <2>4 DEF RecordBalanceFailure, NothingAsked
  <2>5. CASE Crash
    BY <2>1, <2>5 DEF Crash, NothingAsked
  <2> QED
    BY <1>2, <2>2, <2>3, <2>4, <2>5
<1>3. ASSUME NEW d \in balance.todo, ChargeOffSession(d)
      PROVE  NothingAsked \/ AskedOffSession(d)
  <2>1. balance'.todo \subseteq balance.todo
    BY <1>3 DEF ChargeOffSession, Calls
  <2> QED
    BY <1>3, <2>1 DEF ChargeOffSession, NothingAsked, AskedOffSession
<1>4. ASSUME NEW d \in balance.todo, OffSessionDeclined(d)
      PROVE  NothingAsked \/ AskedOffSession(d)
  <2>1. balance'.todo \subseteq balance.todo /\ UNCHANGED receipts
    BY <1>4 DEF OffSessionDeclined, Calls
  <2> QED
    BY <1>4, <2>1 DEF OffSessionDeclined, NothingAsked, AskedOffSession
<1>5. ASSUME NEW t, RecordCharge(t) PROVE NothingAsked
  <2>1. UNCHANGED <<intents, receipts, balance>>
    BY <1>5 DEF RecordCharge, ChargeAlreadyApplied, ChargeUnderpaid, ConfirmCharge, RefundDue,
                Finish
  <2> QED
    BY <2>1 DEF NothingAsked
<1>6. ASSUME UNCHANGED vars PROVE NothingAsked
  BY <1>6 DEF vars, NothingAsked
<1> QED
  BY <1>1, <1>2, <1>3, <1>4, <1>5, <1>6
     DEF Next, Guest, Console, Processor, Record, Jobs, Time

(* A transaction begins with the row of a booking as it is, and a payment of *)
(* its own.                                                                 *)
LEMMA ChargingStep ==
  ASSUME TruthInv, [Next]_vars
  PROVE  \A t \in charging' :
           \/ t \in charging
           \/ /\ \E i \in intents : i.id = t.in.id /\ i.b = t.in.b
              /\ t.found = Found(t.in.b)
              /\ UNCHANGED <<status, bill, intents, mail, ledger, stay>>
<1> USE DEF rooms, money, stripe, flight
<1>1. ASSUME NEW b, NEW r, NEW via, NEW manual, NEW amount, NEW k, NEW i, NEW c, NEW id,
             \/ Create(b, r, manual) \/ StartPayment(b) \/ ReadForCancel(b) \/ Cancel(c)
             \/ Open(b, via) \/ CompletePayment(i, amount)
             \/ ConsoleRefund(b, amount) \/ Block(k) \/ Unblock(k) \/ NextDay \/ HoldLapses(b)
             \/ GraceLapses(b) \/ StartRefund(b) \/ SendRefund(b) \/ SendRefundUnheard(b)
             \/ RecordRefund(b) \/ FinishRefund(b)
             \/ SweepExpiredHolds \/ ExpireAbandonedBookings \/ DeclinePayment(i)
             \/ DeliverFailed(id) \/ ChargeBalances \/ FlagUncollectable(i)
             \/ ChargeOffSession(i) \/ OffSessionDeclined(i) \/ RecordBalanceFailure
      PROVE  charging' = charging
  BY <1>1 DEF Create, StartPayment, ReadForCancel, Cancel, Open, CompletePayment, ConsoleRefund,
              Block, Unblock, NextDay, HoldLapses, GraceLapses, StartRefund, SendRefund,
              SendRefundUnheard, RecordRefund, FinishRefund, SweepExpiredHolds,
              ExpireAbandonedBookings, DeclinePayment, DeliverFailed, ChargeBalances,
              FlagUncollectable, ChargeOffSession, OffSessionDeclined, RecordBalanceFailure
<1>2. ASSUME NEW t, RecordCharge(t) PROVE charging' \subseteq charging
  BY <1>2 DEF RecordCharge, ChargeAlreadyApplied, ChargeUnderpaid, ConfirmCharge, RefundDue, Finish
<1>3. ASSUME NEW in, ReadForCharge(in), NEW t \in charging', t \notin charging
      PROVE  t.in = in /\ t.found = Found(in.b)
  BY <1>3 DEF ReadForCharge
<1>4. ASSUME NEW r \in receipts, NEW named, DeliverSucceeded(r, named),
             NEW t \in charging', t \notin charging
      PROVE  /\ \E i \in intents : i.id = t.in.id /\ i.b = t.in.b
             /\ t.found = Found(t.in.b)
             /\ UNCHANGED <<status, bill, intents, mail, ledger, stay>>
  <2> DEFINE in == ChargeOf(IntentOf(r.id), r.amount, IntentOf(r.id).card /\ named, TRUE)
  <2>1. ReadForCharge(in) /\ UNCHANGED <<status, bill, intents, mail, ledger, stay>>
    BY <1>4 DEF DeliverSucceeded
  <2>2. IntentOf(r.id) \in intents /\ in.id = IntentOf(r.id).id /\ in.b = IntentOf(r.id).b
    BY KnownIntent DEF ChargeOf, TruthInv, FlightInv
  <2> HIDE DEF in
  <2> QED
    BY <1>3, <1>4, <2>1, <2>2
<1>5. ASSUME RecordBalance, NEW t \in charging', t \notin charging
      PROVE  /\ \E i \in intents : i.id = t.in.id /\ i.b = t.in.b
             /\ t.found = Found(t.in.b)
             /\ UNCHANGED <<status, bill, intents, mail, ledger, stay>>
  <2> DEFINE i == IntentOf(balance.call.id)
             in == ChargeOf(i, balance.call.amount, FALSE, FALSE)
  <2>1. ReadForCharge(in) /\ UNCHANGED <<status, bill, intents, mail, ledger, stay>>
    BY <1>5 DEF RecordBalance
  <2>2. i \in intents /\ in.id = i.id /\ in.b = i.b
    BY <1>5, KnownIntent DEF ChargeOf, TruthInv, FlightInv, RecordBalance
  <2> HIDE DEF in
  <2> QED
    BY <1>3, <1>5, <2>1, <2>2
<1>6. ASSUME Crash PROVE charging' = {}
  BY <1>6 DEF Crash
<1>7. ASSUME UNCHANGED vars PROVE charging' = charging
  BY <1>7 DEF vars
<1> QED
  BY <1>1, <1>2, <1>4, <1>5, <1>6, <1>7 DEF Next, Guest, Console, Processor, Record, Jobs, Time

-----------------------------------------------------------------------------
(* A step that asks for nothing new and collects nothing.                   *)
LEMMA OnceKept ==
  ASSUME PlanInv, OutstandingInv, NeverOvercharged, TermsKept, PaidKept,
         UNCHANGED intents, balance'.todo \subseteq balance.todo,
         \A b \in Bookings : \A id : Entered(b, id) => Entered(b, id)'
  PROVE  PlanInv' /\ OutstandingInv' /\ NeverOvercharged'
<1>1. \A b : /\ Opened(b)' = Opened(b)
             /\ OneSided(b)' <=> OneSided(b)
             /\ Awaited(b)' => Awaited(b)
             /\ BalanceKey(b)' = BalanceKey(b)
  BY DEF Opened, OneSided, Awaited, Known, BalanceKey
<1>2. \A b \in Bookings : /\ bill'[b].paid = bill[b].paid
                          /\ AtBooking(b)' = AtBooking(b)
                          /\ stay'[b] = stay[b]
  BY DEF PaidKept, TermsKept, AtBooking, Quote
<1>3. PlanInv'
  BY <1>1, <1>2 DEF PlanInv, TermsKept
<1>4. OutstandingInv'
  <2> SUFFICES ASSUME NEW b \in Bookings, OneSided(b)'
               PROVE  /\ \A i \in Opened(b)' : Entered(b, i.id)' \/ i.amount = AtBooking(b)' - bill'[b].paid
                      /\ Awaited(b)' => \A i \in Opened(b)' : Entered(b, i.id)'
                      /\ Entered(b, BalanceKey(b))' \/
                           /\ \A i \in intents' : i.id = BalanceKey(b) => bill'[b].paid + i.amount <= stay'[b].total
                           /\ \A d \in balance'.todo : d.b = b => bill'[b].paid + d.amount <= stay'[b].total
    BY <1>1 DEF OutstandingInv
  <2>1. /\ OneSided(b)
        /\ \A i \in Opened(b) : Entered(b, i.id) \/ i.amount = AtBooking(b) - bill[b].paid
        /\ Awaited(b) => \A i \in Opened(b) : Entered(b, i.id)
        /\ Entered(b, BalanceKey(b)) \/
             /\ \A i \in intents : i.id = BalanceKey(b) => bill[b].paid + i.amount <= stay[b].total
             /\ \A d \in balance.todo : d.b = b => bill[b].paid + d.amount <= stay[b].total
    BY <1>1 DEF OutstandingInv
  <2>2. Entered(b, BalanceKey(b)) => Entered(b, BalanceKey(b))'
    BY <1>1
  <2> QED
    BY <1>1, <1>2, <2>1, <2>2
<1>5. NeverOvercharged'
  BY <1>1, <1>2 DEF NeverOvercharged, TermsKept
<1> QED
  BY <1>3, <1>4, <1>5

(* A checkout is asked nothing yet.                                         *)
LEMMA OnceCreated ==
  ASSUME MoneyInv, TruthInv, PlanInv, OutstandingInv, NeverOvercharged,
         NEW b \in Bookings, NEW r \in Requests, NEW manual \in BOOLEAN, Create(b, r, manual)
  PROVE  PlanInv' /\ OutstandingInv' /\ NeverOvercharged'
<1> USE DEF rooms, money, stripe, flight
<1>1. /\ status[b] = "absent" /\ status' = [status EXCEPT ![b] = IF manual THEN "confirmed" ELSE "pending"]
      /\ stay' = [stay EXCEPT ![b] = r]
      /\ UNCHANGED <<ledger, intents, balance>>
  BY DEF Create
<1>2. /\ bill' = [bill EXCEPT ![b].manual = manual,
                              ![b].scheduled = ~manual /\ ~IsShortNotice(today, r.checkin)]
  BY DEF Create
<1>3. FlightInv /\ BillInv /\ StayInv /\ IntentInv
  BY DEF MoneyInv, TruthInv
<1>4. /\ \A c \in Bookings \ {b} : /\ bill'[c] = bill[c] /\ stay'[c] = stay[c]
                                  /\ status'[c] = status[c]
      /\ bill'[b].paid = bill[b].paid /\ bill'[b].manual = manual
      /\ bill'[b].scheduled => ~manual
      /\ stay'[b] = r /\ status'[b] # "absent"
  <2> DEFINE plan == ~manual /\ ~IsShortNotice(today, r.checkin)
  <2>1. bill' = [bill EXCEPT ![b].manual = manual, ![b].scheduled = plan]
    BY <1>2
  <2>2. plan => ~manual
    OBVIOUS
  <2> HIDE DEF plan
  <2>3. /\ bill'[b].manual = manual /\ bill'[b].scheduled = plan
        /\ \A c \in Bookings \ {b} : bill'[c] = bill[c]
    BY <1>3, <2>1, Planned, ZenonT(40)
  <2>4. bill'[b].paid = bill[b].paid
    BY <1>3, <2>1 DEF BillInv
  <2>5. /\ \A c \in Bookings \ {b} : stay'[c] = stay[c] /\ status'[c] = status[c]
        /\ stay'[b] = r /\ status'[b] # "absent"
    BY <1>1, <1>3 DEF StayInv, FlightInv
  <2> QED
    BY <2>2, <2>3, <2>4, <2>5
<1>5. \A i \in intents : i.b # b /\ i.id # BalanceKey(b)
  BY <1>1, <1>3 DEF FlightInv, Written, IntentInv, BalanceKey
<1>6. \A d \in balance.todo : d.b # b
  BY <1>1, <1>3 DEF FlightInv, Written
<1>7. \A c : /\ Opened(c)' = Opened(c)
             /\ OneSided(c)' <=> OneSided(c)
             /\ Awaited(c)' <=> Awaited(c)
             /\ \A id : Entered(c, id)' <=> Entered(c, id)
             /\ BalanceKey(c)' = BalanceKey(c)
  BY <1>1 DEF Opened, OneSided, Awaited, Known, Entered, Recorded, BalanceKey
<1>8. Opened(b) = {} /\ ~Awaited(b)
  BY <1>5, <1>6 DEF Opened, Awaited, Known
<1>9. bill[b].paid = 0 /\ r.total \in Nat
  BY <1>1, RequestAssumption DEF PlanInv
<1>10. PlanInv'
  BY <1>4, <1>7, <1>8 DEF PlanInv, Settled
<1>11. OutstandingInv'
  <2> SUFFICES ASSUME NEW c \in Bookings, OneSided(c)'
               PROVE  /\ \A i \in Opened(c)' : Entered(c, i.id)' \/ i.amount = AtBooking(c)' - bill'[c].paid
                      /\ Awaited(c)' => \A i \in Opened(c)' : Entered(c, i.id)'
                      /\ Entered(c, BalanceKey(c))' \/
                           /\ \A i \in intents' : i.id = BalanceKey(c) => bill'[c].paid + i.amount <= stay'[c].total
                           /\ \A d \in balance'.todo : d.b = c => bill'[c].paid + d.amount <= stay'[c].total
    BY <1>7 DEF OutstandingInv
  <2>1. CASE c = b
    BY <1>1, <1>5, <1>6, <1>7, <1>8, <2>1
  <2>2. CASE c # b
    <3>1. AtBooking(c)' = AtBooking(c) /\ bill'[c] = bill[c] /\ stay'[c] = stay[c]
      BY <1>4, <2>2 DEF AtBooking, Quote
    <3>2. Entered(c, BalanceKey(c))' <=> Entered(c, BalanceKey(c))
      BY <1>7
    <3> QED
      BY <1>1, <1>7, <3>1, <3>2 DEF OutstandingInv
  <2> QED
    BY <2>1, <2>2
<1>12. NeverOvercharged'
  <2>1. bill'[b].paid <= stay'[b].total
    BY <1>4, <1>9
  <2> QED
    BY <1>4, <1>7, <2>1 DEF NeverOvercharged
<1> QED
  BY <1>10, <1>11, <1>12

(* Opening a payment asks for what is outstanding.  A settled stay with its  *)
(* balance left to the job is not payable.                                  *)
LEMMA OnceOpened ==
  ASSUME MoneyInv, TruthInv, AskedInv, PlanInv, OutstandingInv, NeverOvercharged,
         NEW b \in Bookings, NEW via \in {"link", "moto"}, Open(b, via)
  PROVE  PlanInv' /\ OutstandingInv' /\ NeverOvercharged' /\ AskedInv'
<1> USE DEF rooms, money, stripe, flight
<1> DEFINE id == IntentKey(via, b, Outstanding(b))
           new == [id |-> id, b |-> b, kind |-> PaymentKind(b),
                   amount |-> Outstanding(b), card |-> bill[b].scheduled]
<1>1. /\ UNCHANGED <<status, stay, bill, ledger, mail, balance, receipts, charging>>
      /\ Payable(b) /\ Outstanding(b) > 0 /\ CreateIntent(new)
  BY DEF Open
<1>2. FlightInv /\ BillInv /\ StayInv /\ IntentInv
  BY DEF MoneyInv, TruthInv
<1>3. /\ new.id = IntentKey(via, b, Outstanding(b)) /\ new.b = b
      /\ new.amount = Outstanding(b)
  OBVIOUS
<1> HIDE DEF id, new
<1>4. new.id # BalanceKey(b) /\ new.id[1] = via /\ new.id[2] = b
  BY <1>3 DEF IntentKey, BalanceKey
<1>5. Outstanding(b) = AtBooking(b) - bill[b].paid /\ new.amount \in Nat
  <2>1. status[b] # "absent"
    BY <1>1 DEF Payable
  <2>2. AtBooking(b) \in Nat
    BY <1>2, <2>1, DueIsWhole DEF StayInv, AtBooking, Quote
  <2>3. Outstanding(b) = AtBooking(b) - bill[b].paid
    BY DEF Outstanding, AtBooking
  <2> QED
    BY <1>1, <1>2, <1>3, <2>2, <2>3 DEF BillInv
<1>6. ~Awaited(b)
  BY <1>1 DEF PlanInv, Payable, Settled
<1>7. CASE UNCHANGED intents
  <2>1. TermsKept /\ PaidKept
    BY <1>1 DEF TermsKept, PaidKept, Settled
  <2>2. \A c \in Bookings : \A x : Entered(c, x) => Entered(c, x)'
    BY <1>1 DEF Entered, Recorded
  <2>3. AskedInv'
    BY <1>1, <1>7 DEF AskedInv, BalanceKey, IntentKey
  <2>4. balance'.todo \subseteq balance.todo
    BY <1>1
  <2> QED
    BY <1>7, <2>1, <2>2, <2>3, <2>4, OnceKept
<1>8. CASE ~Known(new.id) /\ intents' = intents \union {new}
  <2>1. AskedInv'
    <3>1. \A i \in intents' : /\ i.amount \in Nat
                              /\ i.id # BalanceKey(i.b) =>
                                   i.amount > 0 /\ i.id = IntentKey(i.id[1], i.b, i.amount)
      BY <1>1, <1>3, <1>4, <1>5, <1>8 DEF AskedInv
    <3>2. \A r \in receipts, i \in intents' : r.id = i.id => r.amount <= i.amount
      BY <1>2, <1>8 DEF AskedInv, FlightInv, Known
    <3>3. \A t \in charging : \E i \in intents' : i.id = t.in.id /\ i.b = t.in.b
      BY <1>8 DEF AskedInv
    <3> QED
      BY <1>1, <3>1, <3>2, <3>3 DEF AskedInv, BalanceKey, IntentKey
  <2>2. \A c \in Bookings : /\ c # b => Opened(c)' = Opened(c)
                            /\ Awaited(c)' => Awaited(c)
                            /\ \A i \in intents' : i.id = BalanceKey(c) => i \in intents
    <3>1. \A c \in Bookings : BalanceKey(c) # new.id
      BY <1>4 DEF BalanceKey
    <3> QED
      BY <1>1, <1>3, <1>8, <3>1 DEF Opened, Awaited, Known, BalanceKey
  <2>3. Opened(b)' = Opened(b) \union {new}
    BY <1>3, <1>4, <1>8 DEF Opened, BalanceKey
  <2>4. \A c \in Bookings : OneSided(c)' => OneSided(c)
    BY <2>2, <2>3 DEF OneSided
  <2>5. \A c : AtBooking(c)' = AtBooking(c) /\ (\A x : Entered(c, x)' <=> Entered(c, x))
    BY <1>1 DEF AtBooking, Quote, Entered, Recorded
  <2>6. PlanInv'
    BY <1>1, <2>2 DEF PlanInv, Settled
  <2>7. OutstandingInv'
    <3> SUFFICES ASSUME NEW c \in Bookings, OneSided(c)'
                 PROVE  /\ \A i \in Opened(c)' : Entered(c, i.id) \/ i.amount = AtBooking(c) - bill[c].paid
                        /\ Awaited(c)' => \A i \in Opened(c)' : Entered(c, i.id)
                        /\ Entered(c, BalanceKey(c)) \/
                             /\ \A i \in intents' : i.id = BalanceKey(c) => bill[c].paid + i.amount <= stay[c].total
                             /\ \A d \in balance.todo : d.b = c => bill[c].paid + d.amount <= stay[c].total
      BY <1>1, <2>5 DEF OutstandingInv, BalanceKey
    <3>1. /\ \A i \in Opened(c) : Entered(c, i.id) \/ i.amount = AtBooking(c) - bill[c].paid
          /\ Awaited(c) => \A i \in Opened(c) : Entered(c, i.id)
          /\ Entered(c, BalanceKey(c)) \/
               /\ \A i \in intents : i.id = BalanceKey(c) => bill[c].paid + i.amount <= stay[c].total
               /\ \A d \in balance.todo : d.b = c => bill[c].paid + d.amount <= stay[c].total
      BY <2>4 DEF OutstandingInv
    <3>2. CASE c = b
      BY <1>3, <1>5, <1>6, <2>2, <2>3, <3>1, <3>2
    <3>3. CASE c # b
      BY <2>2, <3>1, <3>3
    <3> QED
      BY <3>2, <3>3
  <2>8. NeverOvercharged'
    BY <1>1, <2>4 DEF NeverOvercharged
  <2> QED
    BY <2>1, <2>6, <2>7, <2>8
<1> QED
  BY <1>1, <1>7, <1>8 DEF CreateIntent

(* The scan asks for the rest of a stay that is paid for so far: what was    *)
(* opened by then has been entered.                                         *)
LEMMA OnceScanned ==
  ASSUME MoneyInv, AskedInv, PlanInv, OutstandingInv, NeverOvercharged, ChargeBalances
  PROVE  PlanInv' /\ OutstandingInv' /\ NeverOvercharged'
<1> USE DEF rooms, money, stripe, flight
<1>1. /\ balance'.todo = DueForBalanceCharge
      /\ UNCHANGED <<status, stay, bill, ledger, intents>>
  BY DEF ChargeBalances
<1>2. BillInv /\ StayInv /\ ConfirmedIsPaid
  BY DEF MoneyInv
<1>3. \A d \in DueForBalanceCharge :
        /\ d.b \in Bookings /\ status[d.b] = "confirmed" /\ bill[d.b].scheduled
        /\ d.amount = stay[d.b].total - bill[d.b].paid
  BY DEF DueForBalanceCharge
<1>4. \A b : /\ Opened(b)' = Opened(b)
             /\ OneSided(b)' <=> OneSided(b)
             /\ Awaited(b)' => Awaited(b) \/ \E d \in DueForBalanceCharge : d.b = b
             /\ \A id : Entered(b, id)' <=> Entered(b, id)
             /\ AtBooking(b)' = AtBooking(b)
  BY <1>1 DEF Opened, OneSided, Awaited, Known, BalanceKey, Entered, Recorded, AtBooking, Quote
<1>5. PlanInv'
  BY <1>1, <1>3, <1>4 DEF PlanInv, Settled
<1>6. ASSUME NEW b \in Bookings, OneSided(b), NEW d \in DueForBalanceCharge, d.b = b
      PROVE  /\ \A i \in Opened(b) : Entered(b, i.id)
             /\ bill[b].paid + d.amount <= stay[b].total
  <2>1. status[b] = "confirmed" /\ bill[b].scheduled /\ ~bill[b].manual
    BY <1>3, <1>6 DEF PlanInv
  <2>2. stay[b].total \in Nat /\ bill[b].paid \in Nat
    BY <1>2, <2>1 DEF BillInv, StayInv
  <2>3. AtBooking(b) \in Nat /\ bill[b].paid >= AtBooking(b)
    BY <1>2, <2>1, <2>2, DueIsWhole DEF ConfirmedIsPaid, AtBooking, Quote
  <2>4. ASSUME NEW i \in Opened(b) PROVE Entered(b, i.id)
    <3>1. i.amount \in Nat /\ i.amount > 0
      BY DEF Opened, AskedInv
    <3>2. i.amount # AtBooking(b) - bill[b].paid
      BY <2>2, <2>3, <3>1
    <3> QED
      BY <1>6, <3>2 DEF OutstandingInv
  <2>5. d.amount = stay[b].total - bill[b].paid
    BY <1>3, <1>6
  <2> QED
    BY <2>2, <2>4, <2>5
<1>7. OutstandingInv'
  <2> SUFFICES ASSUME NEW b \in Bookings, OneSided(b)
               PROVE  /\ \A i \in Opened(b) : Entered(b, i.id) \/ i.amount = AtBooking(b) - bill[b].paid
                      /\ Awaited(b)' => \A i \in Opened(b) : Entered(b, i.id)
                      /\ Entered(b, BalanceKey(b)) \/
                           /\ \A i \in intents : i.id = BalanceKey(b) => bill[b].paid + i.amount <= stay[b].total
                           /\ \A d \in DueForBalanceCharge : d.b = b => bill[b].paid + d.amount <= stay[b].total
    BY <1>1, <1>4 DEF OutstandingInv, BalanceKey
  <2> QED
    BY <1>4, <1>6 DEF OutstandingInv
<1>8. NeverOvercharged'
  BY <1>1, <1>4 DEF NeverOvercharged
<1> QED
  BY <1>5, <1>7, <1>8

(* The job asks the processor for what its scan found.                      *)
LEMMA OnceAskedOffSession ==
  ASSUME MoneyInv, TruthInv, AskedInv, PlanInv, OutstandingInv, NeverOvercharged,
         NEW d \in balance.todo, AskedOffSession(d),
         UNCHANGED <<status, stay, bill, ledger, charging>>
  PROVE  PlanInv' /\ OutstandingInv' /\ NeverOvercharged' /\ AskedInv'
<1> DEFINE new == BalanceIntent(d)
<1>1. new.id = BalanceKey(d.b) /\ new.b = d.b /\ new.amount = d.amount
  BY DEF BalanceIntent
<1>2. FlightInv /\ BillInv /\ CashInv /\ StayInv /\ IntentInv
  BY DEF MoneyInv, TruthInv
<1>3. /\ d.b \in Bookings /\ d.amount \in Nat /\ Awaited(d.b) /\ ~Known(new.id)
      /\ intents' = intents \union {new}
      /\ receipts' \subseteq receipts \union {[id |-> new.id, amount |-> d.amount]}
      /\ balance'.todo \subseteq balance.todo
  BY <1>1, <1>2 DEF FlightInv, Written, CashInv, Awaited, AskedOffSession
<1> HIDE DEF new
<1>4. \A b \in Bookings : BalanceKey(b) = new.id => b = d.b
  BY <1>1 DEF BalanceKey
<1>5. AskedInv'
  <2>1. \A i \in intents' : /\ i.amount \in Nat
                            /\ i.id # BalanceKey(i.b) =>
                                 i.amount > 0 /\ i.id = IntentKey(i.id[1], i.b, i.amount)
    BY <1>1, <1>3 DEF AskedInv
  <2>2. \A r \in receipts', i \in intents' : r.id = i.id => r.amount <= i.amount
    <3> SUFFICES ASSUME NEW r \in receipts', NEW i \in intents', r.id = i.id
                 PROVE  r.amount <= i.amount
      OBVIOUS
    <3>1. CASE r \in receipts
      <4>1. Known(r.id)
        BY <1>2, <3>1 DEF FlightInv
      <4>2. i \in intents
        BY <1>3, <4>1
      <4> QED
        BY <3>1, <4>2 DEF AskedInv
    <3>2. CASE r \notin receipts
      <4>1. r.id = new.id /\ r.amount = d.amount
        BY <1>3, <3>2
      <4>2. i = new
        BY <1>3, <4>1 DEF Known
      <4> QED
        BY <1>1, <1>3, <4>1, <4>2
    <3> QED
      BY <3>1, <3>2
  <2>3. \A t \in charging' : \E i \in intents' : i.id = t.in.id /\ i.b = t.in.b
    BY <1>3 DEF AskedInv
  <2> QED
    BY <2>1, <2>2, <2>3 DEF AskedInv, BalanceKey, IntentKey
<1>6. \A b \in Bookings : /\ Opened(b)' = Opened(b)
                          /\ OneSided(b)' <=> OneSided(b)
                          /\ Awaited(b)' => Awaited(b)
                          /\ \A id : Entered(b, id)' <=> Entered(b, id)
                          /\ AtBooking(b)' = AtBooking(b)
  <2>1. \A b \in Bookings : Opened(b)' = Opened(b)
    BY <1>1, <1>3, <1>4 DEF Opened, BalanceKey
  <2>2. \A b \in Bookings : Awaited(b)' => Awaited(b)
    BY <1>1, <1>3, <1>4 DEF Awaited, Known, BalanceKey
  <2> QED
    BY <2>1, <2>2 DEF OneSided, Entered, Recorded, AtBooking, Quote
<1>7. PlanInv'
  BY <1>6 DEF PlanInv, Settled
<1>8. OutstandingInv'
  <2> SUFFICES ASSUME NEW b \in Bookings, OneSided(b)
               PROVE  /\ \A i \in Opened(b) : Entered(b, i.id) \/ i.amount = AtBooking(b) - bill[b].paid
                      /\ Awaited(b)' => \A i \in Opened(b) : Entered(b, i.id)
                      /\ Entered(b, BalanceKey(b)) \/
                           /\ \A i \in intents' : i.id = BalanceKey(b) => bill[b].paid + i.amount <= stay[b].total
                           /\ \A e \in balance'.todo : e.b = b => bill[b].paid + e.amount <= stay[b].total
    BY <1>6 DEF OutstandingInv, BalanceKey
  <2> QED
    BY <1>1, <1>3, <1>4, <1>6 DEF OutstandingInv
<1>9. NeverOvercharged'
  BY <1>6 DEF NeverOvercharged
<1> QED
  BY <1>5, <1>7, <1>8, <1>9

(* What is entered was asked for and not entered before: of the payments     *)
(* opened it is the only one, and none is left.                             *)
LEMMA OnceTaken ==
  ASSUME MoneyInv, TruthInv, AskedInv, PlanInv, OutstandingInv, NeverOvercharged,
         NEW t \in charging, ~Applied(t), TakeMoney(t),
         TermsKept, UNCHANGED intents, balance'.todo \subseteq balance.todo
  PROVE  PlanInv' /\ OutstandingInv' /\ NeverOvercharged'
<1> DEFINE b == t.in.b
<1>1. FlightInv /\ BillInv /\ CashInv /\ StayInv /\ IntentInv /\ HeardInv /\ LedgerInv
  BY DEF MoneyInv, TruthInv
<1>2. b \in Bookings /\ status[b] # "absent" /\ t.in.amount \in Nat
  BY <1>1 DEF FlightInv, Written, CashInv
<1>3. PICK i \in intents : i.id = t.in.id /\ i.b = b
  BY DEF AskedInv
<1>4. t.in.amount <= i.amount
  <2>1. PICK r \in receipts : r = [id |-> t.in.id, amount |-> t.in.amount]
    BY <1>1 DEF HeardInv, Took
  <2>2. r.id = i.id /\ r.amount = t.in.amount
    BY <1>3, <2>1
  <2> QED
    BY <2>2 DEF AskedInv
<1>5. ~Entered(b, i.id)
  BY <1>3 DEF Applied, Entered
<1>6. /\ bill'[b].paid = bill[b].paid + t.in.amount
      /\ \A c \in Bookings \ {b} : bill'[c] = bill[c]
  BY <1>1, MoneyTaken
<1> HIDE DEF b
<1>7. /\ \A c \in Bookings : \A x : Entered(c, x) => Entered(c, x)'
      /\ Entered(b, i.id)'
  <2>1. RecordPayment(b, t.in.id, t.in.kind, t.in.amount, "succeeded")
    BY DEF TakeMoney, b
  <2> QED
    BY <1>1, <1>2, <1>3, <2>1, EnteredRow
<1>8. \A c \in Bookings : /\ Opened(c)' = Opened(c)
                          /\ OneSided(c)' <=> OneSided(c)
                          /\ Awaited(c)' => Awaited(c)
                          /\ AtBooking(c)' = AtBooking(c)
                          /\ stay'[c] = stay[c]
  <2>1. \A c \in Bookings : Opened(c)' = Opened(c) /\ (Awaited(c)' => Awaited(c))
    BY DEF Opened, Awaited, Known, BalanceKey
  <2> QED
    BY <2>1 DEF OneSided, AtBooking, Quote, TermsKept
<1>9. /\ bill[b].paid \in Nat /\ stay[b].total \in Nat /\ i.amount \in Nat
      /\ AtBooking(b) \in Nat /\ AtBooking(b) <= stay[b].total
  <2>1. bill[b].paid \in Nat /\ stay[b].total \in Nat /\ i.amount \in Nat
    BY <1>1, <1>2 DEF BillInv, StayInv, AskedInv
  <2>2. halfRoundedUp(stay[b].total) \in Nat /\ halfRoundedUp(stay[b].total) <= stay[b].total
    BY <2>1 DEF halfRoundedUp
  <2> QED
    BY <2>1, <2>2 DEF AtBooking, Quote, QuoteOf, ChargeAtBooking
<1>10. ASSUME OneSided(b)
       PROVE  /\ bill'[b].paid <= stay[b].total
              /\ \A j \in Opened(b) : Entered(b, j.id)'
              /\ i.id = BalanceKey(b) \/ ~Awaited(b)
  <2>1. /\ \A j \in Opened(b) : Entered(b, j.id) \/ j.amount = AtBooking(b) - bill[b].paid
        /\ Awaited(b) => \A j \in Opened(b) : Entered(b, j.id)
        /\ Entered(b, BalanceKey(b)) \/
             \A j \in intents : j.id = BalanceKey(b) => bill[b].paid + j.amount <= stay[b].total
    BY <1>2, <1>10 DEF OutstandingInv
  <2>2. CASE i.id = BalanceKey(b)
    <3>1. bill[b].paid + i.amount <= stay[b].total
      BY <1>5, <2>1, <2>2
    <3>2. bill'[b].paid <= stay[b].total
      BY <1>2, <1>4, <1>6, <1>9, <3>1
    <3>3. Awaited(b)
      BY <2>2 DEF Awaited, Known
    <3> QED
      BY <1>2, <1>7, <2>1, <2>2, <3>2, <3>3
  <2>3. CASE i.id # BalanceKey(b)
    <3>1. i \in Opened(b)
      BY <1>3, <2>3 DEF Opened
    <3>2. i.amount = AtBooking(b) - bill[b].paid /\ ~Awaited(b)
      BY <1>5, <2>1, <3>1
    <3>3. bill'[b].paid <= stay[b].total
      BY <1>2, <1>4, <1>6, <1>9, <3>2
    <3>4. ASSUME NEW j \in Opened(b) PROVE Entered(b, j.id)'
      <4>1. CASE Entered(b, j.id)
        BY <1>2, <1>7, <4>1
      <4>2. CASE j.amount = i.amount
        <5>1. /\ i.id = IntentKey(i.id[1], b, i.amount) /\ j.id = IntentKey(j.id[1], b, j.amount)
              /\ i.id[1] = j.id[1]
          BY <1>3, <1>10, <2>3, <3>1 DEF AskedInv, Opened, OneSided
        <5>2. i.id = j.id
          BY <4>2, <5>1
        <5> QED
          BY <1>7, <5>2
      <4> QED
        BY <2>1, <3>2, <4>1, <4>2
    <3> QED
      BY <3>2, <3>3, <3>4
  <2> QED
    BY <2>2, <2>3
<1>11. PlanInv'
  <2>1. \A c \in Bookings : status'[c] = "absent" => c # b
    BY <1>2 DEF TermsKept
  <2>2. \A c \in Bookings : status'[c] = "absent" => bill'[c].paid = 0
    BY <1>6, <2>1 DEF PlanInv, TermsKept
  <2>3. \A c \in Bookings : bill'[c].scheduled => ~bill'[c].manual
    BY DEF PlanInv, TermsKept
  <2>4. \A c \in Bookings : Awaited(c)' => Settled(c)' /\ bill'[c].scheduled
    BY <1>8 DEF PlanInv, TermsKept
  <2> QED
    BY <2>2, <2>3, <2>4 DEF PlanInv
<1>12. OutstandingInv'
  <2> SUFFICES ASSUME NEW c \in Bookings, OneSided(c)
               PROVE  /\ \A j \in Opened(c) : Entered(c, j.id)' \/ j.amount = AtBooking(c) - bill'[c].paid
                      /\ Awaited(c)' => \A j \in Opened(c) : Entered(c, j.id)'
                      /\ Entered(c, BalanceKey(c))' \/
                           /\ \A j \in intents : j.id = BalanceKey(c) => bill'[c].paid + j.amount <= stay[c].total
                           /\ \A d \in balance'.todo : d.b = c => bill'[c].paid + d.amount <= stay[c].total
    BY <1>8 DEF OutstandingInv, BalanceKey
  <2>1. CASE c = b
    <3>1. CASE i.id = BalanceKey(b)
      BY <1>7, <1>10, <2>1, <3>1
    <3>2. CASE ~Awaited(b)
      <4>1. /\ \A j \in intents : j.id # BalanceKey(b)
            /\ \A d \in balance'.todo : d.b # b
        BY <3>2 DEF Awaited, Known
      <4> QED
        BY <1>8, <1>10, <2>1, <3>2, <4>1
    <3> QED
      BY <1>10, <2>1, <3>1, <3>2
  <2>2. CASE c # b
    <3>1. bill'[c] = bill[c]
      BY <1>6, <2>2
    <3>2. /\ \A j \in Opened(c) : Entered(c, j.id) \/ j.amount = AtBooking(c) - bill[c].paid
          /\ Awaited(c) => \A j \in Opened(c) : Entered(c, j.id)
          /\ Entered(c, BalanceKey(c)) \/
               /\ \A j \in intents : j.id = BalanceKey(c) => bill[c].paid + j.amount <= stay[c].total
               /\ \A d \in balance.todo : d.b = c => bill[c].paid + d.amount <= stay[c].total
      BY DEF OutstandingInv
    <3> QED
      BY <1>7, <1>8, <3>1, <3>2
  <2> QED
    BY <2>1, <2>2
<1>13. NeverOvercharged'
  BY <1>6, <1>8, <1>10 DEF NeverOvercharged, TermsKept
<1> QED
  BY <1>11, <1>12, <1>13

(* What is asked for stays so, and what arrives is never more.              *)
LEMMA AskedKept ==
  ASSUME MoneyInv, TruthInv, AskedInv, [Next]_vars,
         \/ NothingAsked
         \/ \E i \in intents : \E amount \in 1..i.amount : CompletePayment(i, amount)
         \/ ChargeBalances
  PROVE  AskedInv'
<1> USE DEF rooms, money, stripe, flight
<1>1. UNCHANGED intents
  BY DEF NothingAsked, CompletePayment, ChargeBalances
<1>2. \A r \in receipts' : r \in receipts \/ (\E i \in intents : r.id = i.id /\ r.amount <= i.amount)
  <2>1. ASSUME NEW i \in intents, NEW amount \in 1..i.amount, CompletePayment(i, amount)
        PROVE  \A r \in receipts' : r \in receipts \/ (r.id = i.id /\ r.amount <= i.amount)
    <3>1. receipts' = receipts \union {[id |-> i.id, amount |-> amount]}
      BY <2>1 DEF CompletePayment
    <3>2. amount <= i.amount
      BY DEF AskedInv
    <3> QED
      BY <3>1, <3>2
  <2>2. NothingAsked \/ ChargeBalances => receipts' = receipts
    BY DEF NothingAsked, ChargeBalances
  <2> QED
    BY <2>1, <2>2
<1>3. \A r \in receipts', i \in intents : r.id = i.id => r.amount <= i.amount
  BY <1>2 DEF AskedInv, TruthInv, IntentInv
<1>4. \A t \in charging' : \E i \in intents : i.id = t.in.id /\ i.b = t.in.b
  BY ChargingStep DEF AskedInv
<1> QED
  BY <1>1, <1>3, <1>4 DEF AskedInv, BalanceKey, IntentKey

LEMMA OnceStep ==
  ASSUME MoneyInv, TruthInv, OnceInv, [Next]_vars
  PROVE  OnceInv'
<1> USE DEF rooms, money, stripe, flight
<1>1. /\ AskedInv /\ PlanInv /\ OutstandingInv /\ NeverOvercharged
      /\ FlightInv /\ BillInv /\ CashInv /\ LedgerInv
  BY DEF OnceInv, MoneyInv, TruthInv
<1>2. \A b \in Bookings : \A id : Entered(b, id) => Entered(b, id)'
  BY <1>1, EnteredStep
<1>3. ASSUME NEW b \in Bookings, NEW r \in Requests, NEW manual \in BOOLEAN, Create(b, r, manual)
      PROVE  OnceInv'
  <2>1. UNCHANGED <<intents, receipts, balance>>
    BY <1>3 DEF Create
  <2>2. NothingAsked
    BY <2>1 DEF NothingAsked
  <2> QED
    BY <1>1, <1>3, <2>2, AskedKept, OnceCreated DEF OnceInv
<1>4. ASSUME NEW b \in Bookings, NEW via \in {"link", "moto"}, Open(b, via) PROVE OnceInv'
  BY <1>1, <1>4, OnceOpened DEF OnceInv
<1>5. ASSUME NEW i \in intents, NEW amount \in 1..i.amount, CompletePayment(i, amount)
      PROVE  OnceInv'
  <2>1. UNCHANGED <<status, stay, bill, intents, balance>>
    BY <1>5 DEF CompletePayment
  <2>2. TermsKept /\ PaidKept /\ balance'.todo \subseteq balance.todo
    BY <2>1 DEF TermsKept, PaidKept, Settled
  <2>3. PlanInv' /\ OutstandingInv' /\ NeverOvercharged'
    BY <1>1, <1>2, <2>1, <2>2, OnceKept
  <2> QED
    BY <1>1, <1>5, <2>3, AskedKept DEF OnceInv
<1>6. ASSUME ChargeBalances PROVE OnceInv'
  BY <1>1, <1>6, AskedKept, OnceScanned DEF OnceInv
<1>7. ASSUME NEW d \in balance.todo, ChargeOffSession(d) \/ OffSessionDeclined(d), AskedOffSession(d)
      PROVE  OnceInv'
  <2>1. UNCHANGED <<status, stay, bill, ledger, charging>>
    BY <1>7 DEF ChargeOffSession, OffSessionDeclined
  <2> QED
    BY <1>1, <1>7, <2>1, OnceAskedOffSession DEF OnceInv
<1>8. ASSUME NothingAsked, TermsKept PROVE OnceInv'
  <2>1. AskedInv'
    BY <1>1, <1>8, AskedKept
  <2>2. UNCHANGED intents /\ balance'.todo \subseteq balance.todo
    BY <1>8 DEF NothingAsked
  <2>3. CASE PaidKept
    BY <1>1, <1>2, <1>8, <2>1, <2>2, <2>3, OnceKept DEF OnceInv
  <2>4. ASSUME NEW t \in charging, ~Applied(t), TakeMoney(t) PROVE OnceInv'
    BY <1>1, <1>8, <2>1, <2>2, <2>4, OnceTaken DEF OnceInv
  <2> QED
    BY <1>1, <2>3, <2>4, PaidStep
<1>9. TermsKept \/ \E b \in Bookings, r \in Requests, manual \in BOOLEAN : Create(b, r, manual)
  BY <1>1, TermsStep
<1> QED
  BY <1>3, <1>4, <1>5, <1>6, <1>7, <1>8, <1>9, AskStep

LEMMA OnceStart == Init => OnceInv
<1> SUFFICES ASSUME Init PROVE OnceInv
  OBVIOUS
<1>1. /\ intents = {} /\ receipts = {} /\ charging = {} /\ balance.todo = {}
      /\ \A b \in Bookings : status[b] = "absent" /\ bill[b] = NewBill
  BY DEF Init
<1>2. \A b : Opened(b) = {} /\ ~Awaited(b)
  BY <1>1 DEF Opened, Awaited, Known
<1> QED
  BY <1>1, <1>2 DEF OnceInv, AskedInv, PlanInv, OutstandingInv, NeverOvercharged, NewBill

(* ChargeBalances, Open and RecordCharge: however often a payment is opened  *)
(* from one side, made in part, delivered, tried again after a crash, or     *)
(* recorded by the job as well, nobody pays more than their stay costs.      *)
THEOREM NobodyPaysMore == Spec => []NeverOvercharged
<1>1. MoneyInv /\ [Next]_vars => MoneyInv'
  BY MoneyStep
<1>2. OnceInv => NeverOvercharged
  BY DEF OnceInv
<1> QED
  BY <1>1, <1>2, MoneyStart, TruthInitially, TruthStep, OnceStart, OnceStep, PTL DEF Spec

-----------------------------------------------------------------------------
(* Only a confirmation adds to the confirmations of its guest.              *)
LEMMA ConfirmationSent ==
  ASSUME MailInv, NEW b \in Bookings, mail[b].confirmation \in Nat,
         NEW template \in DOMAIN NoMail, Send(b, template)
  PROVE  /\ \A c \in Bookings \ {b} : mail'[c] = mail[c]
         /\ mail'[b].confirmation = mail[b].confirmation + (IF template = "confirmation" THEN 1 ELSE 0)
<1>1. /\ \A c \in Bookings \ {b} : mail'[c] = mail[c]
      /\ mail'[b] = [mail[b] EXCEPT ![template] = mail[b][template] + 1]
  BY DEF MailInv, Send
<1>2. "confirmation" \in DOMAIN mail[b]
  BY DEF MailInv, NoMail
<1>3. CASE template = "confirmation"
  BY <1>1, <1>2, <1>3
<1>4. CASE template # "confirmation"
  BY <1>1, <1>2, <1>4
<1> QED
  BY <1>1, <1>3, <1>4

LEMMA ConfirmationNotPromised ==
  ASSUME MailInv, NEW b \in Bookings, NEW refunded, CancellationMail(b, refunded)
  PROVE  \A c \in Bookings : mail'[c].confirmation = mail[c].confirmation
<1> DEFINE told == [mail EXCEPT ![b].cancellation = @ + 1]
<1>1. /\ told = [c \in Bookings |-> told[c]]
      /\ \A c \in Bookings \ {b} : told[c] = mail[c]
      /\ told[b] = [mail[b] EXCEPT !.cancellation = @ + 1]
  BY DEF MailInv
<1>2. "confirmation" \in DOMAIN told[b] /\ told[b].confirmation = mail[b].confirmation
  BY <1>1 DEF MailInv, NoMail
<1>3. mail' = [told EXCEPT ![b].promised = refunded]
  BY DEF CancellationMail
<1> HIDE DEF told
<1>4. /\ \A c \in Bookings \ {b} : mail'[c] = mail[c]
      /\ mail'[b] = [told[b] EXCEPT !.promised = refunded]
  BY <1>1, <1>3
<1> QED
  BY <1>2, <1>4

(* A confirmation is written for a phone booking, and for a charge that      *)
(* read its stay as neither confirmed nor cancelled; for nothing else.      *)
ConfirmationsKept == \A b \in Bookings : mail'[b].confirmation = mail[b].confirmation

FirstConfirmed(t) == ConfirmCharge(t) /\ t.found.status # "confirmed"

LEMMA ConfirmationStep ==
  ASSUME FlightInv, MailInv, ConfirmInv, [Next]_vars
  PROVE  \/ ConfirmationsKept
         \/ \E b \in Bookings, r \in Requests : Create(b, r, TRUE)
         \/ \E t \in charging : FirstConfirmed(t)
<1> USE DEF rooms, money, stripe, flight
<1> DEFINE Other == {"receipt", "failed"}
           ByPhone == \E b \in Bookings, r \in Requests : Create(b, r, TRUE)
           ByCharge == \E t \in charging : FirstConfirmed(t)
<1>1. ASSUME UNCHANGED mail PROVE ConfirmationsKept
  BY <1>1 DEF ConfirmationsKept
<1>2. ASSUME NEW b \in Bookings, NEW template \in Other, Send(b, template)
      PROVE  ConfirmationsKept
  <2>1. template \in DOMAIN NoMail /\ template # "confirmation"
    BY DEF NoMail
  <2>2. mail[b].confirmation \in Nat
    BY DEF ConfirmInv
  <2>3. /\ \A c \in Bookings \ {b} : mail'[c] = mail[c]
        /\ mail'[b].confirmation = mail[b].confirmation + 0
    BY <1>2, <2>1, <2>2, ConfirmationSent
  <2> QED
    BY <2>2, <2>3 DEF ConfirmationsKept
<1>3. ASSUME NEW b \in Bookings, NEW refunded, CancellationMail(b, refunded)
      PROVE  ConfirmationsKept
  BY <1>3, ConfirmationNotPromised DEF ConfirmationsKept
<1>4. ASSUME NEW b, NEW via, NEW amount, NEW k, NEW i, NEW r, NEW named,
             \/ Create(b, r, FALSE)
             \/ Open(b, via) \/ ReadForCancel(b) \/ ConsoleRefund(b, amount)
             \/ Block(k) \/ Unblock(k) \/ NextDay \/ HoldLapses(b)
             \/ StartRefund(b) \/ SendRefund(b) \/ SendRefundUnheard(b) \/ FinishRefund(b)
             \/ RecordRefund(b) \/ StartPayment(b) \/ GraceLapses(b)
             \/ SweepExpiredHolds \/ ExpireAbandonedBookings \/ DeclinePayment(i)
             \/ CompletePayment(i, amount) \/ DeliverSucceeded(r, named)
             \/ ChargeBalances \/ RecordBalance \/ Crash
             \/ ChargeOffSession(i) \/ OffSessionDeclined(i) \/ ChargeAlreadyApplied(i)
             \/ ChargeUnderpaid(i)
      PROVE  ConfirmationsKept
  <2>1. UNCHANGED mail
    BY <1>4 DEF Create, Open, ReadForCancel, ConsoleRefund, Block, Unblock, NextDay, HoldLapses,
                StartRefund, SendRefund, SendRefundUnheard, FinishRefund, RecordRefund,
                StartPayment, GraceLapses, SweepExpiredHolds,
                ExpireAbandonedBookings, DeclinePayment, CompletePayment, DeliverSucceeded,
                ChargeBalances, RecordBalance, Crash, ChargeOffSession, OffSessionDeclined,
                ChargeAlreadyApplied, ChargeUnderpaid
  <2> QED
    BY <1>1, <2>1
<1>5. ASSUME NEW c \in cancelling, Cancel(c) PROVE ConfirmationsKept
  <2>1. c.b \in Bookings /\ \E refunded : CancellationMail(c.b, refunded)
    BY <1>5 DEF Cancel, FlightInv, Written
  <2> QED
    BY <1>3, <2>1
<1>6. ASSUME NEW d \in balance.todo, FlagUncollectable(d) PROVE ConfirmationsKept
  <2>1. d.b \in Bookings /\ Send(d.b, "failed")
    BY <1>6 DEF FlightInv, Written, FlagUncollectable
  <2> QED
    BY <1>2, <2>1
<1>7. ASSUME NEW b \in Bookings, NEW id, NEW kind, NEW amount, RecordFailure(b, id, kind, amount)
      PROVE  ConfirmationsKept
  <2>1. UNCHANGED mail \/ Send(b, "failed")
    BY <1>7 DEF RecordFailure
  <2> QED
    BY <1>1, <1>2, <2>1
<1>8. ASSUME NEW id, DeliverFailed(id) PROVE ConfirmationsKept
  <2>1. IntentOf(id).b \in Bookings
    BY <1>8, KnownIntent DEF DeliverFailed, FlightInv, Written
  <2>2. \/ UNCHANGED mail
        \/ RecordFailure(IntentOf(id).b, id, IntentOf(id).kind, IntentOf(id).amount)
    BY <1>8 DEF DeliverFailed
  <2> QED
    BY <1>1, <1>7, <2>1, <2>2
<1>9. ASSUME RecordBalanceFailure PROVE ConfirmationsKept
  <2>1. /\ balance.call.b \in Bookings
        /\ RecordFailure(balance.call.b, balance.call.id, "balance", balance.call.amount)
    BY <1>9 DEF RecordBalanceFailure, FlightInv, Written
  <2> QED
    BY <1>7, <2>1
<1>10. ASSUME NEW t \in charging, ConfirmCharge(t) PROVE ConfirmationsKept \/ ByCharge
  <2>1. t.in.b \in Bookings
    BY DEF FlightInv, Written
  <2>2. FirstConfirmed(t) \/ Send(t.in.b, "receipt") \/ UNCHANGED mail
    BY <1>10 DEF ConfirmCharge, FirstConfirmed
  <2> QED
    BY <1>1, <1>2, <2>1, <2>2
<1>11. ASSUME NEW t \in charging, RefundDue(t) PROVE ConfirmationsKept
  <2>1. t.in.b \in Bookings /\ CancellationMail(t.in.b, t.found.paid + t.in.amount)
    BY <1>11 DEF FlightInv, Written, RefundDue
  <2> QED
    BY <1>3, <2>1
<1>12. ASSUME UNCHANGED vars PROVE ConfirmationsKept
  BY <1>1, <1>12 DEF vars
<1> HIDE DEF ByPhone, ByCharge
<1>13. ASSUME Guest \/ Console PROVE ConfirmationsKept \/ ByPhone
  BY <1>4, <1>5, <1>13 DEF Guest, Console, ByPhone
<1>14. ASSUME Processor \/ Record PROVE ConfirmationsKept \/ ByCharge
  BY <1>4, <1>8, <1>10, <1>11, <1>14 DEF Processor, Record, RecordCharge
<1>15. ASSUME Jobs \/ Time \/ Crash PROVE ConfirmationsKept
  BY <1>4, <1>6, <1>9, <1>15 DEF Jobs, Time
<1> QED
  BY <1>12, <1>13, <1>14, <1>15 DEF Next, ByPhone, ByCharge

(* What a transaction found stays true of it.                               *)
LEMMA FoundKept ==
  ASSUME MoneyInv, TruthInv, PlanInv, ConfirmInv, [Next]_vars,
         \A t \in charging : bill'[t.in.b].manual = bill[t.in.b].manual
  PROVE  \A t \in charging' :
           /\ t.found.status # "absent"
           /\ bill'[t.in.b].manual \/ t.in.id = BalanceKey(t.in.b)
                => t.found.status \in {"confirmed", "cancelled"}
<1> SUFFICES ASSUME NEW t \in charging', t \notin charging
             PROVE  /\ t.found.status # "absent"
                    /\ bill'[t.in.b].manual \/ t.in.id = BalanceKey(t.in.b)
                         => t.found.status \in {"confirmed", "cancelled"}
  BY DEF ConfirmInv
<1>1. PICK i \in intents : i.id = t.in.id /\ i.b = t.in.b
  BY ChargingStep
<1>2. t.found = Found(t.in.b) /\ UNCHANGED bill
  BY ChargingStep
<1>3. t.in.b \in Bookings /\ status[t.in.b] # "absent"
  BY <1>1 DEF MoneyInv, FlightInv, Written
<1>4. t.found.status = status[t.in.b]
  BY <1>2 DEF Found
<1>5. bill[t.in.b].manual => Settled(t.in.b)
  BY <1>3 DEF ConfirmInv
<1>6. t.in.id = BalanceKey(t.in.b) => Settled(t.in.b)
  BY <1>1, <1>3 DEF PlanInv, Awaited, Known
<1> QED
  BY <1>2, <1>3, <1>4, <1>5, <1>6 DEF Settled

(* What was opened stays opened: a booking opened from one side was.        *)
LEMMA OneSidedBefore ==
  ASSUME [Next]_vars
  PROVE  \A b : OneSided(b)' => OneSided(b)
<1> USE DEF rooms, money, stripe, flight
<1>1. intents \subseteq intents'
  BY AskStep DEF NothingAsked, AskedOffSession, ChargeBalances, CompletePayment, Open, CreateIntent
<1> QED
  BY <1>1 DEF OneSided, Opened, BalanceKey

LEMMA ConfirmedCreated ==
  ASSUME MoneyInv, TruthInv, MailInv, PlanInv, ConfirmInv, [Next]_vars,
         NEW b \in Bookings, NEW r \in Requests, NEW manual \in BOOLEAN, Create(b, r, manual)
  PROVE  ConfirmInv'
<1> USE DEF rooms, money, stripe, flight
<1> DEFINE plan == ~manual /\ ~IsShortNotice(today, r.checkin)
<1>1. /\ status[b] = "absent" /\ status' = [status EXCEPT ![b] = IF manual THEN "confirmed" ELSE "pending"]
      /\ stay' = [stay EXCEPT ![b] = r]
      /\ bill' = [bill EXCEPT ![b].manual = manual, ![b].scheduled = plan]
      /\ IF manual THEN Send(b, "confirmation") ELSE UNCHANGED mail
  BY DEF Create
<1> HIDE DEF plan
<1>2. FlightInv /\ BillInv /\ StayInv
  BY DEF MoneyInv
<1>3. /\ \A c \in Bookings \ {b} : bill'[c] = bill[c] /\ stay'[c] = stay[c] /\ status'[c] = status[c]
      /\ bill'[b].manual = manual
      /\ status'[b] # "absent" /\ (manual => status'[b] = "confirmed")
  <2>1. bill'[b].manual = manual /\ \A c \in Bookings \ {b} : bill'[c] = bill[c]
    BY <1>1, <1>2, Planned
  <2>2. \A c \in Bookings \ {b} : stay'[c] = stay[c] /\ status'[c] = status[c]
    BY <1>1, <1>2 DEF StayInv, FlightInv
  <2>3. status'[b] # "absent" /\ (manual => status'[b] = "confirmed")
    BY <1>1, <1>2 DEF FlightInv
  <2> QED
    BY <2>1, <2>2, <2>3
<1>4. /\ \A c \in Bookings \ {b} : mail'[c] = mail[c]
      /\ mail'[b].confirmation = IF manual THEN 1 ELSE 0
  <2>1. mail[b].confirmation = 0
    BY <1>1 DEF ConfirmInv
  <2>2. CASE manual
    <3>1. "confirmation" \in DOMAIN NoMail
      BY DEF NoMail
    <3>2. /\ \A c \in Bookings \ {b} : mail'[c] = mail[c]
          /\ mail'[b].confirmation = mail[b].confirmation + 1
      BY <1>1, <2>1, <2>2, <3>1, ConfirmationSent
    <3> QED
      BY <2>1, <2>2, <3>2
  <2>3. CASE ~manual
    BY <1>1, <2>1, <2>3
  <2> QED
    BY <2>2, <2>3
<1>5. \A t \in charging : t.in.b \in Bookings \ {b}
  BY <1>1, <1>2 DEF FlightInv, Written
<1>6. \A t \in charging' :
        /\ t.found.status # "absent"
        /\ bill'[t.in.b].manual \/ t.in.id = BalanceKey(t.in.b)
             => t.found.status \in {"confirmed", "cancelled"}
  <2>1. \A t \in charging : bill'[t.in.b].manual = bill[t.in.b].manual
    BY <1>3, <1>5
  <2> QED
    BY <2>1, FoundKept
<1>7. ASSUME NEW c \in Bookings
      PROVE  /\ mail'[c].confirmation \in Nat
             /\ status'[c] = "absent" => mail'[c].confirmation = 0
             /\ status'[c] # "absent" /\ bill'[c].manual => Settled(c)'
             /\ OneSided(c)' /\ ~bill'[c].manual /\ mail'[c].confirmation > 0
                  => bill'[c].paid >= AtBooking(c)'
             /\ OneSided(c)' => mail'[c].confirmation <= 1
  <2>1. CASE c = b
    BY <1>3, <1>4, <2>1 DEF Settled
  <2>2. CASE c # b
    <3>1. AtBooking(c)' = AtBooking(c) /\ (Settled(c)' <=> Settled(c))
      BY <1>3, <2>2 DEF AtBooking, Quote, Settled
    <3>2. OneSided(c)' => OneSided(c)
      BY OneSidedBefore
    <3> QED
      BY <1>3, <1>4, <2>2, <3>1, <3>2 DEF ConfirmInv, OneConfirmation
  <2> QED
    BY <2>1, <2>2
<1> QED
  BY <1>6, <1>7 DEF ConfirmInv, OneConfirmation, BalanceKey

(* The charge that confirms a checkout is of a payment that asked for what   *)
(* was outstanding, so what was due at booking had not been collected.      *)
LEMMA FirstOfItsKind ==
  ASSUME MoneyInv, TruthInv, OnceInv, ConfirmInv, MoneyInv',
         NEW t \in charging, FirstConfirmed(t), TermsKept
  PROVE  LET b == t.in.b
         IN  /\ b \in Bookings /\ status[b] # "absent" /\ ~bill[b].manual
             /\ OneSided(b) => mail[b].confirmation = 0
             /\ bill'[b].paid >= AtBooking(b)
<1> DEFINE b == t.in.b
<1>1. FlightInv /\ BillInv /\ CashInv /\ StayInv /\ HeardInv
  BY DEF MoneyInv, TruthInv
<1>2. b \in Bookings /\ status[b] # "absent"
  BY <1>1 DEF FlightInv, Written
<1>3. ~Applied(t) /\ Shortfall(t) = 0 /\ TakeMoney(t) /\ t.found.status \notin {"confirmed", "cancelled"}
  BY DEF FirstConfirmed, ConfirmCharge
<1>4. ~bill[b].manual /\ t.in.id # BalanceKey(b)
  BY <1>3 DEF ConfirmInv
<1>5. PICK i \in intents : i.id = t.in.id /\ i.b = b
  BY DEF OnceInv, AskedInv
<1>6. i \in Opened(b) /\ ~Entered(b, i.id) /\ i.amount > 0 /\ i.amount \in Nat
  BY <1>3, <1>4, <1>5 DEF Opened, Entered, Applied, OnceInv, AskedInv
<1>7. /\ bill[b].paid \in Nat /\ t.found.paid \in Nat /\ t.in.amount \in Nat
      /\ t.found.paid <= bill[b].paid /\ AtBooking(b) \in Nat
  <2>1. /\ bill[b].paid \in Nat /\ t.found.paid \in Nat /\ t.in.amount \in Nat
        /\ t.found.paid <= bill[b].paid /\ stay[b].total \in Nat
    BY <1>1, <1>2 DEF BillInv, CashInv, StayInv
  <2> QED
    BY <2>1, DueIsWhole DEF AtBooking, Quote
<1>8. bill'[b].paid = bill[b].paid + t.in.amount
  BY <1>1, <1>3, MoneyTaken
<1>9. t.found.paid + t.in.amount >= AtBooking(b)
  BY <1>3, <1>7 DEF Shortfall, AtBooking
<1>10. bill'[b].paid >= AtBooking(b)
  BY <1>7, <1>8, <1>9
<1>11. ASSUME OneSided(b) PROVE mail[b].confirmation = 0
  <2>1. i.amount = AtBooking(b) - bill[b].paid
    BY <1>2, <1>6, <1>11 DEF OnceInv, OutstandingInv
  <2>2. ~(bill[b].paid >= AtBooking(b))
    BY <1>6, <1>7, <2>1
  <2>3. ~(mail[b].confirmation > 0) /\ mail[b].confirmation \in Nat
    BY <1>2, <1>4, <1>11, <2>2 DEF ConfirmInv
  <2> QED
    BY <2>3
<1> QED
  BY <1>2, <1>4, <1>10, <1>11

LEMMA ConfirmedStep ==
  ASSUME MoneyInv, TruthInv, MailInv, OnceInv, ConfirmInv, MoneyInv', [Next]_vars
  PROVE  ConfirmInv'
<1>1. FlightInv /\ BillInv /\ CashInv /\ StayInv /\ PlanInv
  BY DEF MoneyInv, OnceInv
<1>2. ASSUME NEW b \in Bookings, NEW r \in Requests, NEW manual \in BOOLEAN, Create(b, r, manual)
      PROVE  ConfirmInv'
  BY <1>1, <1>2, ConfirmedCreated
<1>3. ASSUME TermsKept
      PROVE  /\ \A t \in charging' :
                  /\ t.found.status # "absent"
                  /\ bill'[t.in.b].manual \/ t.in.id = BalanceKey(t.in.b)
                       => t.found.status \in {"confirmed", "cancelled"}
             /\ \A b \in Bookings : /\ status'[b] = "absent" <=> status[b] = "absent"
                                    /\ bill'[b].manual = bill[b].manual
                                    /\ Settled(b) => Settled(b)'
                                    /\ OneSided(b)' => OneSided(b)
                                    /\ AtBooking(b)' = AtBooking(b)
                                    /\ bill[b].paid \in Nat /\ bill'[b].paid \in Nat
                                    /\ bill'[b].paid >= bill[b].paid
                                    /\ status[b] # "absent" => AtBooking(b) \in Nat
  <2>1. \A t \in charging : bill'[t.in.b].manual = bill[t.in.b].manual
    BY <1>1, <1>3 DEF TermsKept, FlightInv, Written
  <2>2. \A b \in Bookings : /\ status'[b] = "absent" <=> status[b] = "absent"
                            /\ bill'[b].manual = bill[b].manual
                            /\ Settled(b) => Settled(b)'
    BY <1>3 DEF TermsKept
  <2>3. \A b \in Bookings : AtBooking(b)' = AtBooking(b)
    BY <1>3 DEF TermsKept, AtBooking, Quote
  <2>4. \A b \in Bookings : bill[b].paid \in Nat /\ bill'[b].paid \in Nat /\ bill'[b].paid >= bill[b].paid
    BY MoneyStep DEF Grows, MoneyInv, BillInv
  <2>5. \A b \in Bookings : status[b] # "absent" => AtBooking(b) \in Nat
    BY <1>1, DueIsWhole DEF StayInv, AtBooking, Quote
  <2> QED
    BY <1>1, <2>1, <2>2, <2>3, <2>4, <2>5, FoundKept, OneSidedBefore
<1>4. ASSUME TermsKept, ConfirmationsKept PROVE ConfirmInv'
  <2>1. ASSUME NEW b \in Bookings
        PROVE  /\ mail'[b].confirmation \in Nat
               /\ status'[b] = "absent" => mail'[b].confirmation = 0
               /\ status'[b] # "absent" /\ bill'[b].manual => Settled(b)'
               /\ OneSided(b)' /\ ~bill'[b].manual /\ mail'[b].confirmation > 0
                    => bill'[b].paid >= AtBooking(b)'
               /\ OneSided(b)' => mail'[b].confirmation <= 1
    <3>1. mail'[b].confirmation = mail[b].confirmation
      BY <1>4 DEF ConfirmationsKept
    <3>2. /\ mail[b].confirmation \in Nat
          /\ status[b] = "absent" => mail[b].confirmation = 0
          /\ status[b] # "absent" /\ bill[b].manual => Settled(b)
          /\ OneSided(b) /\ ~bill[b].manual /\ mail[b].confirmation > 0
               => bill[b].paid >= AtBooking(b)
          /\ OneSided(b) => mail[b].confirmation <= 1
      BY DEF ConfirmInv, OneConfirmation
    <3>3. mail'[b].confirmation > 0 => AtBooking(b) \in Nat
      BY <1>3, <1>4, <3>1, <3>2
    <3> QED
      BY <1>3, <1>4, <3>1, <3>2, <3>3
  <2> QED
    BY <1>3, <1>4, <2>1 DEF ConfirmInv, OneConfirmation, BalanceKey
<1>5. ASSUME TermsKept, NEW t \in charging, FirstConfirmed(t) PROVE ConfirmInv'
  <2> DEFINE c == t.in.b
  <2>1. /\ c \in Bookings /\ status[c] # "absent" /\ ~bill[c].manual
        /\ OneSided(c) => mail[c].confirmation = 0
        /\ bill'[c].paid >= AtBooking(c)
    BY <1>5, FirstOfItsKind
  <2>2. Send(c, "confirmation")
    BY <1>5 DEF FirstConfirmed, ConfirmCharge
  <2> HIDE DEF c
  <2>3. "confirmation" \in DOMAIN NoMail
    BY DEF NoMail
  <2>4. mail[c].confirmation \in Nat
    BY <2>1 DEF ConfirmInv
  <2>5. /\ \A b \in Bookings \ {c} : mail'[b] = mail[b]
        /\ mail'[c].confirmation = mail[c].confirmation + 1
    BY <2>1, <2>2, <2>3, <2>4, ConfirmationSent
  <2>6. ASSUME NEW b \in Bookings
        PROVE  /\ mail'[b].confirmation \in Nat
               /\ status'[b] = "absent" => mail'[b].confirmation = 0
               /\ status'[b] # "absent" /\ bill'[b].manual => Settled(b)'
               /\ OneSided(b)' /\ ~bill'[b].manual /\ mail'[b].confirmation > 0
                    => bill'[b].paid >= AtBooking(b)'
               /\ OneSided(b)' => mail'[b].confirmation <= 1
    <3>1. /\ mail[b].confirmation \in Nat
          /\ status[b] = "absent" => mail[b].confirmation = 0
          /\ status[b] # "absent" /\ bill[b].manual => Settled(b)
          /\ OneSided(b) /\ ~bill[b].manual /\ mail[b].confirmation > 0
               => bill[b].paid >= AtBooking(b)
          /\ OneSided(b) => mail[b].confirmation <= 1
      BY DEF ConfirmInv, OneConfirmation
    <3>2. CASE b = c
      BY <1>3, <1>5, <2>1, <2>4, <2>5, <3>1, <3>2
    <3>3. CASE b # c
      <4>1. mail'[b] = mail[b]
        BY <2>5, <3>3
      <4>2. mail'[b].confirmation > 0 => AtBooking(b) \in Nat
        BY <1>3, <1>5, <3>1, <4>1
      <4> QED
        BY <1>3, <1>5, <3>1, <4>1, <4>2
    <3> QED
      BY <3>2, <3>3
  <2> QED
    BY <1>3, <1>5, <2>6 DEF ConfirmInv, OneConfirmation, BalanceKey
<1>6. TermsKept \/ \E b \in Bookings, r \in Requests, manual \in BOOLEAN : Create(b, r, manual)
  BY <1>1, TermsStep
<1>7. \/ ConfirmationsKept
      \/ \E b \in Bookings, r \in Requests : Create(b, r, TRUE)
      \/ \E t \in charging : FirstConfirmed(t)
  BY <1>1, ConfirmationStep
<1> QED
  BY <1>2, <1>4, <1>5, <1>6, <1>7

(* RecordCharge: a guest whose balance lands must not read it as "a second   *)
(* booking": while the payments of a stay are opened from one side, one      *)
(* confirmation is written of it, however often a charge is delivered,       *)
(* read before another is recorded, or recorded by the job as well.         *)
THEOREM ToldOfOneBooking == Spec => []OneConfirmation
<1> DEFINE I == MoneyInv /\ TruthInv /\ MailInv /\ OnceInv /\ ConfirmInv
<1>1. Init => I
  <2>1. Init => MailInv /\ ConfirmInv
    BY DEF Init, MailInv, NoMail, NewBill, ConfirmInv, OneConfirmation, Settled
  <2> QED
    BY <2>1, MoneyStart, TruthInitially, OnceStart
<1>2. I /\ [Next]_vars => I'
  <2> SUFFICES ASSUME I, [Next]_vars PROVE I'
    OBVIOUS
  <2>1. MoneyInv' /\ TruthInv' /\ OnceInv'
    BY MoneyStep, TruthStep, OnceStep
  <2>2. MailInv'
    BY FlagStep DEF MoneyInv
  <2>3. ConfirmInv'
    BY <2>1, ConfirmedStep
  <2> QED
    BY <2>1, <2>2, <2>3
<1>3. I => OneConfirmation
  BY DEF ConfirmInv
<1> QED
  BY <1>1, <1>2, <1>3, PTL DEF Spec

-----------------------------------------------------------------------------
(* What the screens read of the rooms: a row has a status, a written row    *)
(* what was asked for, and only so many rows have been written.            *)
RowsInv ==
  /\ status \in [Bookings -> Rooms!Statuses]
  /\ stay = [b \in Bookings |-> stay[b]]
  /\ \A b \in Stays : stay[b] \in Requests
  /\ IsFiniteSet(Stays)

LEMMA RowsStep ==
  ASSUME RowsInv, [Rooms!Next]_(Rooms!roomVars)
  PROVE  RowsInv'
<1>1. ASSUME NEW b \in Bookings, NEW r \in Requests, NEW manual \in BOOLEAN,
             Rooms!Reserve(b, r, manual)
      PROVE  RowsInv'
  <2>1. Stays' = Stays \union {b}
    BY <1>1 DEF Rooms!Reserve, RowsInv, Stays
  <2>2. IsFiniteSet(Stays')
    BY <2>1, FS_AddElement DEF RowsInv
  <2> QED
    BY <1>1, <2>1, <2>2 DEF Rooms!Reserve, RowsInv, Rooms!Statuses, Stays
<1>2. ASSUME Stays' \subseteq Stays, UNCHANGED stay, status' \in [Bookings -> Rooms!Statuses]
      PROVE  RowsInv'
  <2>1. IsFiniteSet(Stays')
    BY <1>2, FS_Subset DEF RowsInv
  <2> QED
    BY <1>2, <2>1 DEF RowsInv
<1>3. ASSUME NEW b \in Bookings, Rooms!Secure(b) \/ Rooms!Withdraw(b) PROVE RowsInv'
  <2>1. /\ Stays' \subseteq Stays /\ UNCHANGED stay
        /\ status' \in [Bookings -> Rooms!Statuses]
    BY <1>3 DEF Rooms!Secure, Rooms!Withdraw, RowsInv, Rooms!Statuses, Stays
  <2> QED
    BY <1>2, <2>1
<1>4. ASSUME NEW abandoned \in SUBSET Bookings, Rooms!ExpireAbandonedBookings(abandoned)
      PROVE  RowsInv'
  <2>1. /\ Stays' \subseteq Stays /\ UNCHANGED stay
        /\ status' \in [Bookings -> Rooms!Statuses]
    BY <1>4 DEF Rooms!ExpireAbandonedBookings, RowsInv, Rooms!Statuses, Stays
  <2> QED
    BY <1>2, <2>1
<1>5. ASSUME UNCHANGED <<status, stay>> PROVE RowsInv'
  BY <1>2, <1>5 DEF RowsInv, Stays
<1>6. ASSUME NEW b, NEW k,
             \/ Rooms!HoldLapses(b) \/ Rooms!SweepExpiredHolds
             \/ Rooms!Block(k) \/ Rooms!Unblock(k) \/ UNCHANGED Rooms!roomVars
      PROVE  RowsInv'
  BY <1>5, <1>6 DEF Rooms!HoldLapses, Rooms!SweepExpiredHolds, Rooms!Block, Rooms!Unblock,
                    Rooms!roomVars
<1> QED
  BY <1>1, <1>3, <1>4, <1>6 DEF Rooms!Next

LEMMA RowsAreTyped == Spec => []RowsInv
<1>1. Rooms!Init => RowsInv
  <2> SUFFICES ASSUME Rooms!Init PROVE RowsInv
    OBVIOUS
  <2>1. Stays = {}
    BY DEF Rooms!Init, Stays
  <2> QED
    BY <2>1, FS_EmptySet DEF Rooms!Init, RowsInv, Rooms!Statuses
<1>2. RowsInv /\ [Rooms!Next]_(Rooms!roomVars) => RowsInv'
  BY RowsStep
<1>3. RoomsSpec => []RowsInv
  BY <1>1, <1>2, PTL DEF RoomsSpec, Rooms!Spec
<1> QED
  BY <1>3, InnImplementsRooms, PTL

-----------------------------------------------------------------------------
(* Whom each part of the board, the list and the calendar are about.       *)
Bucketed(on, bucket) == {b \in Stays : OnBoard(b, on) /\ Bucket(b, on) = bucket}

LEMMA CodeShown == \A b : StayOf(b).b = b
BY DEF StayOf

LEMMA BoardCodes ==
  ASSUME NEW on
  PROVE  /\ Codes(Today(on).arrivals) = Bucketed(on, "arrival")
         /\ Codes(Today(on).departures) = Bucketed(on, "departure")
         /\ Codes(Today(on).inHouse) = Bucketed(on, "in_house")
<1> DEFINE of(bucket) == {StayOf(row.b) : row \in {r \in TodayBoard(on) : r.bucket = bucket}}
<1>1. ASSUME NEW bucket PROVE Codes(of(bucket)) = Bucketed(on, bucket)
  <2>1. \A b : b \in Codes(of(bucket)) <=> \E r \in TodayBoard(on) : r.bucket = bucket /\ r.b = b
    BY CodeShown DEF Codes
  <2>2. ASSUME NEW b
        PROVE  (\E r \in TodayBoard(on) : r.bucket = bucket /\ r.b = b) <=> b \in Bucketed(on, bucket)
    <3> DEFINE row(c) == [b |-> c, bucket |-> Bucket(c, on)]
    <3>1. \A c : row(c).b = c /\ row(c).bucket = Bucket(c, on)
      OBVIOUS
    <3>2. TodayBoard(on) = {row(c) : c \in {d \in Stays : OnBoard(d, on)}}
      BY DEF TodayBoard
    <3> HIDE DEF row
    <3> QED
      BY <3>1, <3>2 DEF Bucketed
  <2> QED
    BY <2>1, <2>2
<1>2. /\ Today(on).arrivals = of("arrival") /\ Today(on).departures = of("departure")
      /\ Today(on).inHouse = of("in_house")
  BY DEF Today
<1> HIDE DEF of
<1> QED
  BY <1>1, <1>2

LEMMA ListCodes ==
  ASSUME NEW from, NEW to, NEW wanted, NEW onlyFlagged
  PROVE  Codes(Reservations(from, to, wanted, onlyFlagged))
           = SearchBookings(from, to, wanted, onlyFlagged)
<1>1. \A b : b \in Codes(Reservations(from, to, wanted, onlyFlagged))
                <=> b \in SearchBookings(from, to, wanted, onlyFlagged)
  BY CodeShown DEF Codes, Reservations
<1> QED
  BY <1>1

LEMMA GridBooked ==
  ASSUME RowsInv, NEW n \in Int
  PROVE  Booked(Grid(n, n + 1))
           = {b \in Stays : occ[b] = "booking" /\ stay[b].checkin <= n /\ n < stay[b].checkout}
<1> DEFINE touching(span) == span.checkin < n + 1 /\ n < span.checkout
           held == {b \in Stays : occ[b] # "none" /\ touching(stay[b])}
           kindOf(b) == IF occ[b] = "booking" THEN "booking" ELSE "hold"
           rowOf(b) == [kind |-> kindOf(b), b |-> {b}, span |-> stay[b]]
           closed == {[kind |-> "block", b |-> {}, span |-> k] : k \in {s \in blocks : touching(s)}}
<1>1. Grid(n, n + 1) = closed \union {rowOf(b) : b \in held}
  BY DEF Grid, ListOccupancyBetween
<1>2. \A row \in closed : row.kind # "booking"
  OBVIOUS
<1>3. \A b : rowOf(b).kind = "booking" <=> occ[b] = "booking"
  OBVIOUS
<1>4. \A b : rowOf(b).b = {b}
  OBVIOUS
<1>5. \A b \in Stays : stay[b].checkin \in Int /\ stay[b].checkout \in Int
  BY RequestAssumption DEF RowsInv
<1>6. \A b \in Stays : touching(stay[b]) <=> stay[b].checkin <= n /\ n < stay[b].checkout
  BY <1>5
<1> HIDE DEF closed, rowOf, touching
<1>7. Booked(Grid(n, n + 1)) = {b \in held : occ[b] = "booking"}
  <2>1. \A b : b \in Booked(Grid(n, n + 1))
                 <=> \E row \in Grid(n, n + 1) : row.kind = "booking" /\ b \in row.b
    BY DEF Booked
  <2>2. \A b : (\E row \in Grid(n, n + 1) : row.kind = "booking" /\ b \in row.b)
                 <=> \E c \in held : occ[c] = "booking" /\ b \in {c}
    BY <1>1, <1>2, <1>3, <1>4
  <2> QED
    BY <2>1, <2>2
<1> QED
  BY <1>6, <1>7

(* The screens of a state in which the tables keep their promises.         *)
LEMMA ScreensOfState ==
  ASSUME RowsInv, BillInv, GrossIsLedger, ConfirmedHoldsRoom
  PROVE  ScreensAgree
<1>1. /\ AllDays \subseteq Int
      /\ \A b \in Stays : /\ stay[b].checkin \in Int /\ stay[b].checkout \in Int
                          /\ stay[b].checkin < stay[b].checkout
                          /\ stay[b].total \in Nat
                          /\ b \in Bookings /\ bill[b].paid \in Nat
                          /\ status[b] \in Rooms!Statuses \ {"absent"}
                          /\ status[b] = "confirmed" <=> occ[b] = "booking"
  BY RequestAssumption DEF AllDays, RowsInv, BillInv, ConfirmedHoldsRoom, Stays,
                           Rooms!ConfirmedHoldsRoom
<1> SUFFICES ASSUME NEW on \in AllDays
             PROVE  DayAgrees(on) /\ FlagsAgree(on) /\ \A b \in Stays : StayAgrees(b, on)
  BY DEF ScreensAgree
<1>2. on \in Int
  BY <1>1
<1> DEFINE staying == Codes(Today(on).arrivals) \union Codes(Today(on).inHouse)
           here == {b \in Stays : /\ status[b] = "confirmed"
                                  /\ stay[b].checkin <= on /\ on < stay[b].checkout}
<1>3. staying = here
  <2>1. staying = Bucketed(on, "arrival") \union Bucketed(on, "in_house")
    BY BoardCodes
  <2>2. \A b \in Stays : b \in Bucketed(on, "arrival") \/ b \in Bucketed(on, "in_house") <=> b \in here
    BY <1>1, <1>2 DEF Bucketed, Bucket, OnBoard
  <2> QED
    BY <2>1, <2>2 DEF Bucketed
<1>4. here = Codes(Reservations(on, on, "confirmed", FALSE))
  <2>1. here = SearchBookings(on, on, "confirmed", FALSE)
    BY <1>1, <1>2 DEF SearchBookings
  <2> QED
    BY <2>1, ListCodes, ZenonT(40)
<1>5. here = Booked(Grid(on, on + 1))
  BY <1>1, <1>2, GridBooked
<1>6. Codes(Today(on).departures) = Booked(Grid(on - 1, on)) \ here
  <2>1. on - 1 \in Int /\ (on - 1) + 1 = on
    BY <1>2
  <2>2. Booked(Grid(on - 1, on))
          = {b \in Stays : /\ occ[b] = "booking"
                           /\ stay[b].checkin <= on - 1 /\ on - 1 < stay[b].checkout}
    BY <2>1, GridBooked
  <2>3. Codes(Today(on).departures) = Bucketed(on, "departure")
    BY BoardCodes
  <2>4. \A b \in Stays : b \in Bucketed(on, "departure")
                           <=> /\ occ[b] = "booking" /\ stay[b].checkin <= on - 1
                               /\ on - 1 < stay[b].checkout /\ b \notin here
    BY <1>1, <1>2 DEF Bucketed, Bucket, OnBoard
  <2> QED
    BY <2>2, <2>3, <2>4 DEF Bucketed
<1>7. ASSUME NEW s \in Today(on).arrivals \union Today(on).inHouse, ~bill[s.b].scheduled
      PROVE  s.outstanding = outstanding(Outstanding(s.b), 0)
  <2>1. PICK b \in Stays : s = StayOf(b)
    BY DEF Today, TodayBoard
  <2>2. s.b = b /\ s.outstanding = outstanding(stay[b].total, bill[b].paid)
    BY <2>1 DEF StayOf
  <2>3. Outstanding(b) = stay[b].total - bill[b].paid
    BY <1>7, <2>2 DEF Outstanding, ChargeAtBooking, Quote, QuoteOf
  <2>4. stay[b].total \in Nat /\ bill[b].paid \in Nat
    BY <1>1
  <2>5. \A x, y \in Nat : outstanding(x, y) = outstanding(x - y, 0)
    BY DEF outstanding
  <2> QED
    BY <2>2, <2>3, <2>4, <2>5
<1>8. ASSUME NEW b \in Stays PROVE StayAgrees(b, on)
  <2>1. (status[b] = "confirmed" /\ on < stay[b].checkin) = cancellable(b, on)
    BY <1>1, <1>2 DEF cancellable, Rooms!Statuses
  <2>2. ASSUME status[b] = "confirmed", NEW n \in stay[b].checkin..(stay[b].checkout - 1)
        PROVE  b \in Booked(Grid(n, n + 1))
    <3>1. n \in Int /\ stay[b].checkin <= n /\ n < stay[b].checkout
      BY <1>1
    <3>2. occ[b] = "booking"
      BY <1>1, <2>2
    <3> QED
      BY <3>1, <3>2, GridBooked
  <2>3. RefundFor(b, on) <= Charged(ledger[b])
    <3>1. RefundFor(b, on) \in 0..bill[b].paid
      <4>1. stay[b].total \in Nat /\ bill[b].paid \in Nat /\ RefundRate \in Nat
        BY <1>1, BoundAssumption
      <4>2. IsLateCancellation(on, stay[b].checkin) \in BOOLEAN
        BY DEF IsLateCancellation
      <4> QED
        BY <4>1, <4>2, RefundBounded DEF RefundFor, Quote
    <3>2. bill[b].paid = Charged(ledger[b]) /\ bill[b].paid \in Nat
      BY <1>1 DEF GrossIsLedger, Gross
    <3> QED
      BY <3>1, <3>2
  <2>4. bill[b].paid = 0 => ChargeAtBooking(Quote(b), ~bill[b].scheduled) = Outstanding(b)
    <3>1. ChargeAtBooking(Quote(b), ~bill[b].scheduled) \in Nat
      BY <1>1, DueIsWhole DEF Quote
    <3> QED
      BY <3>1 DEF Outstanding
  <2>5. /\ Reservation(b, on).payments = ledger[b]
        /\ Reservation(b, on).cancellable = (status[b] = "confirmed" /\ on < stay[b].checkin)
        /\ Reservation(b, on).refund = RefundFor(b, on)
        /\ manageBooking(b, on).refund = RefundFor(b, on)
        /\ manageBooking(b, on).cancellable = cancellable(b, on)
        /\ manageBooking(b, on).booking.status = status[b]
        /\ manageBooking(b, on).booking.chargeNow = ChargeAtBooking(Quote(b), ~bill[b].scheduled)
    BY DEF Reservation, manageBooking, Get
  <2> QED
    BY <2>1, <2>2, <2>3, <2>4, <2>5 DEF StayAgrees
<1>9. ASSUME NEW from \in AllDays, NEW to \in AllDays,
             \A b \in Stays : stay[b].checkout > from /\ stay[b].checkin <= to
      PROVE  Today(on).flagged = Cardinality(Reservations(from, to, "confirmed", TRUE))
  <2> DEFINE flagged == {b \in Stays : status[b] = "confirmed" /\ bill[b].failed}
             rows == {StayOf(b) : b \in flagged}
             f == [b \in flagged |-> StayOf(b)]
  <2>1. flagged = SearchBookings(from, to, "confirmed", TRUE)
    BY <1>9 DEF SearchBookings
  <2>2. IsFiniteSet(flagged)
    BY FS_Subset DEF RowsInv
  <2>3. ExistsBijection(flagged, rows)
    <3>1. f \in [flagged -> rows] /\ \A b \in flagged : f[b].b = b
      BY CodeShown
    <3>2. \A r \in rows : \E b \in flagged : f[b] = r
      OBVIOUS
    <3>3. DOMAIN f = flagged
      OBVIOUS
    <3> HIDE DEF f, rows, flagged
    <3>4. f \in Bijection(flagged, rows)
      BY <3>1, <3>2, <3>3 DEF Bijection, Injection, IsInjective, Surjection
    <3> QED
      BY <3>4 DEF ExistsBijection
  <2>4. Cardinality(rows) = Cardinality(flagged)
    <3> HIDE DEF flagged, rows
    <3> QED
      BY <2>2, <2>3, FS_Bijection
  <2>5. Today(on).flagged = Cardinality(flagged)
    BY DEF Today, CountFlaggedBookings
  <2>6. Reservations(from, to, "confirmed", TRUE) = rows
    BY <2>1 DEF Reservations
  <2> QED
    BY <2>4, <2>5, <2>6
<1> HIDE DEF here
<1>10. DayAgrees(on)
  BY <1>3, <1>4, <1>5, <1>6, <1>7 DEF DayAgrees
<1> QED
  BY <1>8, <1>9, <1>10 DEF FlagsAgree

(* Today, Reservations, Reservation, Calendar and manageBooking: whatever   *)
(* the screens read from bookings, they read the same from room_occupancy    *)
(* and from the ledger, after any payments, refunds, sweeps and crashes.     *)
THEOREM ScreensTellOneStory == Spec => []ScreensAgree
<1>1. MoneyInv /\ [Next]_vars => MoneyInv'
  BY MoneyStep
<1>2. Spec => []MoneyInv
  BY <1>1, MoneyStart, PTL DEF Spec
<1>3. RowsInv /\ MoneyInv /\ GrossIsLedger /\ ConfirmedHoldsRoom => ScreensAgree
  BY ScreensOfState DEF MoneyInv
<1> QED
  BY <1>2, <1>3, RowsAreTyped, GrossIsCollected, InnHoldsItsRooms, PTL

-----------------------------------------------------------------------------
(* What a ledger L says of a refund of T: what went back is the first parts *)
(* of it, in their order; and what a run of the job has still to send       *)
(* follows them, far enough to make good what was promised.                *)
PartsOf(L, T) == Parts(ChargeRows(L), T)

BackInOrder(L, T) ==
  LET back == RefundRows(L)
  IN  /\ Len(back) <= Len(PartsOf(L, T))
      /\ \A n \in 1..Len(back) :
           /\ back[n].id = RefundKey(PartsOf(L, T)[n].id, PartsOf(L, T)[n].amount)
           /\ back[n].amount = PartsOf(L, T)[n].amount

OnItsWay(L, T, todo, promised) ==
  LET m == Len(RefundRows(L))
  IN  \E k \in m..Len(PartsOf(L, T)) :
        todo = SubSeq(PartsOf(L, T), m + 1, k) /\ promised <= SumTo(PartsOf(L, T), k)

(* All there is, when everything was asked for. *)
Asked(L, T) == IF T = 0 THEN Charged(L) ELSE T

LEMMA RefundParts ==
  ASSUME NEW S, Priced(S), NEW L \in Seq(S), NEW T \in Nat
  PROVE  /\ PartsOf(L, T) \in Seq(Shares(S)) /\ Len(PartsOf(L, T)) \in 0..Len(ChargeRows(L))
         /\ \A n \in 1..Len(PartsOf(L, T)) :
              /\ n \in 1..Len(ChargeRows(L)) /\ PartsOf(L, T)[n].id = ChargeRows(L)[n].id
              /\ PartsOf(L, T)[n].amount \in Nat
         /\ RefundRows(L) \in Seq(S) /\ Len(RefundRows(L)) \in Nat
         /\ ChargeRows(L) \in Seq(S) /\ Len(ChargeRows(L)) \in Nat
         /\ T <= Charged(L) => Amounts(PartsOf(L, T)) = Asked(L, T)
<1> DEFINE c == ChargeRows(L)
           p == PartsOf(L, T)
<1>1. c \in Seq(S) /\ RefundRows(L) \in Seq(S) /\ Charged(L) = Amounts(c) /\ Charged(L) \in Nat
  BY LedgerSums
<1>2. Len(c) \in Nat /\ Len(RefundRows(L)) \in Nat
  BY <1>1
<1>3. p \in Seq(Shares(S)) /\ Len(p) \in 0..Len(c) /\ \A n \in 1..Len(p) : p[n].id = c[n].id
  BY <1>1, PartsAre DEF PartsOf
<1>4. \A n \in 1..Len(p) : n \in 1..Len(c)
  BY <1>2, <1>3
<1>5. \A n \in 1..Len(p) : p[n].amount \in Nat
  BY <1>3, SharesPriced, AmountsOf
<1>6. Amounts(p) = IF Amounts(c) <= Sought(c, T) THEN Amounts(c) ELSE Sought(c, T)
  BY <1>1, PartsSum DEF PartsOf
<1>7. T <= Charged(L) => Amounts(p) = Asked(L, T)
  BY <1>1, <1>6 DEF Sought, Asked
<1> QED
  BY <1>1, <1>2, <1>3, <1>4, <1>5, <1>7

(* Nothing has gone back of what was not asked for before. *)
LEMMA NothingBack ==
  ASSUME NEW S, Priced(S), NEW L \in Seq(S), NEW T \in Nat, RefundRows(L) = <<>>
  PROVE  BackInOrder(L, T)
<1>1. Len(PartsOf(L, T)) \in Nat /\ Len(RefundRows(L)) = 0
  BY RefundParts
<1> QED
  BY <1>1 DEF BackInOrder

(* The job, started with the first parts back, plans the rest of them. *)
LEMMA RestOnItsWay ==
  ASSUME NEW S, Priced(S), NEW L \in Seq(S), NEW T \in Nat, T <= Charged(L),
         NEW promised \in Nat, promised <= Asked(L, T), BackInOrder(L, T)
  PROVE  OnItsWay(L, T, Allocate(L, T), promised)
<1> DEFINE p == PartsOf(L, T)
           m == Len(RefundRows(L))
<1>1. p \in Seq(Shares(S)) /\ Len(p) \in Nat /\ m \in 0..Len(p) /\ Amounts(p) = Asked(L, T)
  BY RefundParts DEF BackInOrder
<1>2. Allocate(L, T) = SubSeq(p, m + 1, Len(p))
  BY AllocateRest DEF BackInOrder, PartsOf
<1>3. Amounts(p) = SumTo(p, Len(p))
  BY <1>1, SharesPriced, AmountsOf
<1>4. Len(p) \in m..Len(p)
  BY <1>1
<1> HIDE DEF p, m
<1> QED
  BY <1>1, <1>2, <1>3, <1>4 DEF p, m, OnItsWay

(* A run that has nothing left to send has sent what was promised. *)
LEMMA AllSent ==
  ASSUME NEW S, Priced(S), NEW L \in Seq(S), NEW T \in Nat,
         NEW promised \in Nat, BackInOrder(L, T), OnItsWay(L, T, <<>>, promised)
  PROVE  promised <= Refunded(L)
<1> DEFINE p == PartsOf(L, T)
           r == RefundRows(L)
<1>1. p \in Seq(Shares(S)) /\ r \in Seq(S) /\ Len(p) \in Nat /\ Len(r) \in 0..Len(p)
  BY RefundParts DEF BackInOrder
<1>2. \A n \in 1..Len(r) : r[n].amount = p[n].amount
  BY DEF BackInOrder
<1>3. PICK k \in Len(r)..Len(p) : <<>> = SubSeq(p, Len(r) + 1, k) /\ promised <= SumTo(p, k)
  BY DEF OnItsWay
<1>4. Refunded(L) = Amounts(r)
  BY LedgerSums
<1> HIDE DEF p, r
<1>5. k = Len(r)
  <2>1. k \in Nat /\ Len(r) \in Nat /\ Len(SubSeq(p, Len(r) + 1, k)) = k - Len(r)
    BY <1>1, <1>3
  <2>2. Len(SubSeq(p, Len(r) + 1, k)) = Len(<<>>) /\ Len(<<>>) = 0
    <3>1. \A e : e = <<>> => Len(e) = 0
      OBVIOUS
    <3> QED
      BY <1>3, <3>1, Zenon
  <2> QED
    BY <2>1, <2>2
<1>6. Amounts(r) = SumTo(r, Len(r))
  BY <1>1, AmountsOf
<1>7. SumTo(r, Len(r)) = SumTo(p, Len(r))
  <2>1. Len(r) \in 0..Len(r) /\ Len(r) <= Len(p)
    BY <1>1
  <2> QED
    BY <1>1, <1>2, <2>1, SharesPriced, SumToSame
<1> QED
  BY <1>3, <1>4, <1>5, <1>6, <1>7

(* A payment that lands, or fails, while a refund is queued.               *)
LEMMA RefundOutlivesPayment ==
  ASSUME NEW S, Priced(S), NEW L \in Seq(S), NEW x \in S, NEW T \in Nat, T <= Charged(L),
         ~(x.status = "succeeded" /\ x.kind = "refund"), BackInOrder(L, T)
  PROVE  /\ BackInOrder(Append(L, x), T)
         /\ \A todo, promised :
              OnItsWay(L, T, todo, promised) => OnItsWay(Append(L, x), T, todo, promised)
<1> DEFINE M == Append(L, x)
           p == PartsOf(L, T)
           q == PartsOf(M, T)
           r == RefundRows(L)
<1>1. M \in Seq(S)
  OBVIOUS
<1>2. RefundRows(M) = r /\ (ChargeRows(M) = ChargeRows(L) \/ ChargeRows(M) = Append(ChargeRows(L), x))
  BY LedgerAppend
<1>3. /\ p \in Seq(Shares(S)) /\ q \in Seq(Shares(S)) /\ r \in Seq(S)
      /\ Len(p) \in Nat /\ Len(q) \in Nat /\ Len(r) \in Nat
  <2>1. p \in Seq(Shares(S)) /\ r \in Seq(S) /\ Len(r) \in Nat
    BY RefundParts
  <2> HIDE DEF M
  <2>2. q \in Seq(Shares(S))
    BY <1>1, RefundParts
  <2> HIDE DEF p, q, r
  <2> QED
    BY <2>1, <2>2
<1>4. Len(p) <= Len(q) /\ \A i \in 1..Len(p) : q[i] = p[i]
  <2>1. CASE ChargeRows(M) = ChargeRows(L)
    BY <1>3, <2>1 DEF PartsOf
  <2>2. CASE ChargeRows(M) = Append(ChargeRows(L), x)
    <3>1. ChargeRows(L) \in Seq(S) /\ T <= Amounts(ChargeRows(L))
      BY LedgerSums
    <3> QED
      BY <2>2, <3>1, PartsGrow DEF PartsOf
  <2> QED
    BY <1>2, <2>1, <2>2
<1>5. Len(r) <= Len(p) /\ \A n \in 1..Len(r) : /\ r[n].id = RefundKey(p[n].id, p[n].amount)
                                               /\ r[n].amount = p[n].amount
  BY DEF BackInOrder
<1> HIDE DEF p, q, r, M
<1>6. BackInOrder(M, T)
  <2>1. \A n \in 1..Len(r) : n \in 1..Len(p)
    BY <1>3, <1>5
  <2>2. Len(r) <= Len(q) /\ \A n \in 1..Len(r) : /\ r[n].id = RefundKey(q[n].id, q[n].amount)
                                                 /\ r[n].amount = q[n].amount
    BY <1>3, <1>4, <1>5, <2>1
  <2> QED
    BY <1>2, <2>2 DEF BackInOrder, q
<1>7. ASSUME NEW todo, NEW promised, OnItsWay(L, T, todo, promised)
      PROVE  OnItsWay(M, T, todo, promised)
  <2>1. PICK k \in Len(r)..Len(p) : todo = SubSeq(p, Len(r) + 1, k) /\ promised <= SumTo(p, k)
    BY <1>7 DEF OnItsWay, p, r
  <2>2. k \in Len(r)..Len(q) /\ k \in 0..Len(p) /\ k <= Len(q)
    BY <1>3, <1>4, <2>1
  <2>3. SumTo(p, k) = SumTo(q, k)
    <3>1. \A i \in 1..k : p[i].amount = q[i].amount
      <4>1. \A i \in 1..k : i \in 1..Len(p)
        BY <1>3, <2>2
      <4> QED
        BY <1>4, <4>1
    <3> QED
      BY <1>3, <2>2, <3>1, SharesPriced, SumToSame
  <2>4. SubSeq(p, Len(r) + 1, k) = SubSeq(q, Len(r) + 1, k)
    <3>1. Len(r) + 1 \in Nat /\ k \in Nat
      BY <1>3, <2>2
    <3>2. \A i \in 1..(k - Len(r)) : Len(r) + i \in 1..Len(p)
      BY <1>3, <2>2
    <3>3. /\ SubSeq(p, Len(r) + 1, k) = [i \in 1..(k - Len(r)) |-> p[Len(r) + i]]
          /\ SubSeq(q, Len(r) + 1, k) = [i \in 1..(k - Len(r)) |-> q[Len(r) + i]]
      BY <1>3, <2>2, <3>1
    <3>4. \A i \in 1..(k - Len(r)) : p[Len(r) + i] = q[Len(r) + i]
      BY <1>4, <3>2
    <3> QED
      BY <3>3, <3>4
  <2> QED
    BY <1>2, <2>1, <2>2, <2>3, <2>4 DEF OnItsWay, q
<1> QED
  BY <1>6, <1>7 DEF M

(* The next part, sent and written down. *)
LEMMA PartWritten ==
  ASSUME NEW S, Priced(S), NEW L \in Seq(S), NEW T \in Nat,
         NEW todo, todo # <<>>, NEW promised, BackInOrder(L, T), OnItsWay(L, T, todo, promised),
         NEW x \in S, x.id = RefundKey(Head(todo).id, Head(todo).amount),
         x.amount = Head(todo).amount, x.kind = "refund", x.status = "succeeded"
  PROVE  /\ BackInOrder(Append(L, x), T)
         /\ OnItsWay(Append(L, x), T, Tail(todo), promised)
         /\ Charged(Append(L, x)) = Charged(L)
<1> DEFINE M == Append(L, x)
           p == PartsOf(L, T)
           r == RefundRows(L)
           s == Append(r, x)
<1>1. M \in Seq(S)
  OBVIOUS
<1>2. RefundRows(M) = s /\ ChargeRows(M) = ChargeRows(L)
  BY LedgerAppend
<1>3. PartsOf(M, T) = p /\ Charged(M) = Charged(L)
  BY <1>1, <1>2, LedgerSums DEF PartsOf
<1>4. p \in Seq(Shares(S)) /\ r \in Seq(S) /\ Len(p) \in Nat /\ Len(r) \in Nat
  BY RefundParts
<1>5. Len(r) <= Len(p) /\ \A n \in 1..Len(r) : /\ r[n].id = RefundKey(p[n].id, p[n].amount)
                                               /\ r[n].amount = p[n].amount
  BY DEF BackInOrder
<1>6. PICK k \in Len(r)..Len(p) : todo = SubSeq(p, Len(r) + 1, k) /\ promised <= SumTo(p, k)
  BY DEF OnItsWay
<1> HIDE DEF p, r, M
<1>7. Len(s) = Len(r) + 1 /\ s[Len(r) + 1] = x /\ \A n \in 1..Len(r) : s[n] = r[n]
  BY <1>4
<1> HIDE DEF s
<1>8. k \in Nat /\ Len(r) + 1 \in 1..k /\ k <= Len(p)
  <2>1. k \in Nat /\ (k = Len(r) => SubSeq(p, Len(r) + 1, k) = <<>>)
    BY <1>4, <1>6
  <2> QED
    BY <1>4, <1>6, <2>1
<1>9. Head(todo) = p[Len(r) + 1] /\ Tail(todo) = SubSeq(p, Len(s) + 1, k)
  <2>1. Len(r) + 1 \in 1..Len(p)
    BY <1>4, <1>8
  <2>2. Head(SubSeq(p, Len(r) + 1, k)) = p[Len(r) + 1]
    BY <1>4, <1>8, <2>1
  <2>3. Tail(SubSeq(p, Len(r) + 1, k)) = SubSeq(p, Len(r) + 1 + 1, k)
    BY <1>4, <1>8, <2>1
  <2> QED
    BY <1>6, <1>7, <2>2, <2>3
<1>10. BackInOrder(M, T)
  <2>1. Len(s) <= Len(p) /\ \A n \in 1..Len(s) : n \in 1..Len(r) \/ n = Len(r) + 1
    BY <1>4, <1>7, <1>8
  <2>2. \A n \in 1..Len(s) : s[n].id = RefundKey(p[n].id, p[n].amount) /\ s[n].amount = p[n].amount
    BY <1>5, <1>7, <1>9, <2>1
  <2> QED
    BY <1>2, <1>3, <2>1, <2>2 DEF BackInOrder
<1>11. OnItsWay(M, T, Tail(todo), promised)
  <2>1. k \in Len(s)..Len(p)
    BY <1>4, <1>7, <1>8
  <2> QED
    BY <1>2, <1>3, <1>6, <1>9, <2>1 DEF OnItsWay
<1> QED
  BY <1>3, <1>10, <1>11 DEF M

(* The next part is not in the ledger yet, when no two charges of it have   *)
(* one name and none of them is a refund's.                                *)
LEMMA PartNotWritten ==
  ASSUME NEW S, Priced(S), NEW L \in Seq(S), NEW T \in Nat,
         NEW todo, todo # <<>>, NEW promised, BackInOrder(L, T), OnItsWay(L, T, todo, promised),
         \A i \in Charges(L) : /\ L[i].id[1] # "refund"
                               /\ \A j \in Charges(L) : L[i].id = L[j].id => i = j,
         NEW n \in DOMAIN L, L[n].status = "succeeded"
  PROVE  L[n].id # RefundKey(Head(todo).id, Head(todo).amount)
<1> DEFINE p == PartsOf(L, T)
           r == RefundRows(L)
           c == ChargeRows(L)
           h == Len(r) + 1
<1>1. /\ p \in Seq(Shares(S)) /\ r \in Seq(S) /\ Len(p) \in Nat /\ Len(r) \in Nat /\ Len(c) \in Nat
      /\ \A i \in 1..Len(p) : i \in 1..Len(c) /\ p[i].id = c[i].id
  BY RefundParts
<1>2. Len(r) <= Len(p) /\ \A i \in 1..Len(r) : r[i].id = RefundKey(p[i].id, p[i].amount)
  BY DEF BackInOrder
<1>3. Head(todo) = p[h] /\ h \in 1..Len(p)
  <2>1. PICK k \in Len(r)..Len(p) : todo = SubSeq(p, Len(r) + 1, k)
    BY DEF OnItsWay
  <2> HIDE DEF p, r, c
  <2>2. k \in Nat /\ (k = Len(r) => SubSeq(p, Len(r) + 1, k) = <<>>)
    BY <1>1, <2>1
  <2>3. Len(r) + 1 \in 1..k /\ Len(r) + 1 \in 1..Len(p)
    BY <1>1, <2>1, <2>2
  <2> QED
    BY <1>1, <2>1, <2>2, <2>3
<1>4. /\ DOMAIN L = 1..Len(L) /\ Len(L) \in Nat
      /\ Refunds(L) \in SUBSET (1..Len(L)) /\ Charges(L) \in SUBSET (1..Len(L))
  BY DEF Refunds, Charges
<1>5. SUFFICES ASSUME L[n].id = RefundKey(p[h].id, p[h].amount) PROVE FALSE
  BY <1>3
<1>6. CASE L[n].kind # "refund"
  <2>1. L[n].id[1] # "refund"
    BY <1>6 DEF Charges
  <2> QED
    BY <1>5, <2>1 DEF RefundKey
<1>7. CASE L[n].kind = "refund"
  <2>1. n \in Refunds(L)
    BY <1>7 DEF Refunds
  <2> DEFINE i == Place(Refunds(L), n)
  <2>2. i \in 1..Len(r) /\ r[i] = L[n]
    BY <1>4, <2>1, RowInPlace DEF RefundRows
  <2> HIDE DEF i
  <2>3. i \in 1..Len(p) /\ i # h /\ i \in 1..Len(c) /\ h \in 1..Len(c)
    <3> HIDE DEF p, r, c
    <3>1. i \in 1..Len(p) /\ i # h /\ h \in 1..Len(p)
      BY <1>1, <1>2, <1>3, <2>2
    <3> QED
      BY <1>1, <3>1
  <2>4. c[i].id = c[h].id
    <3>1. RefundKey(p[i].id, p[i].amount) = RefundKey(p[h].id, p[h].amount)
      BY <1>2, <1>5, <2>2
    <3>2. p[i].id = p[h].id
      BY <3>1 DEF RefundKey
    <3> QED
      BY <1>1, <1>3, <2>3, <3>2
  <2> HIDE DEF h
  <2>5. PICK u \in Charges(L) : Place(Charges(L), u) = i /\ c[i] = L[u]
    BY <1>4, <2>3, PlaceHasRow DEF ChargeRows
  <2>6. PICK v \in Charges(L) : Place(Charges(L), v) = h /\ c[h] = L[v]
    BY <1>4, <2>3, PlaceHasRow DEF ChargeRows
  <2> QED
    BY <2>3, <2>4, <2>5, <2>6
<1> QED
  BY <1>6, <1>7

(* What went back stays back. *)
LEMMA BackStaysBack ==
  ASSUME NEW S, Priced(S), NEW L \in Seq(S), NEW x \in S
  PROVE  Refunded(L) <= Refunded(Append(L, x)) /\ Charged(L) <= Charged(Append(L, x))
<1> DEFINE M == Append(L, x)
<1>1. M \in Seq(S)
  OBVIOUS
<1>2. /\ RefundRows(M) = RefundRows(L) \/ RefundRows(M) = Append(RefundRows(L), x)
      /\ ChargeRows(M) = ChargeRows(L) \/ ChargeRows(M) = Append(ChargeRows(L), x)
  BY LedgerAppend
<1>3. /\ RefundRows(L) \in Seq(S) /\ Refunded(L) = Amounts(RefundRows(L)) /\ Refunded(L) \in Nat
      /\ ChargeRows(L) \in Seq(S) /\ Charged(L) = Amounts(ChargeRows(L)) /\ Charged(L) \in Nat
  BY LedgerSums
<1>4. Refunded(M) = Amounts(RefundRows(M)) /\ Charged(M) = Amounts(ChargeRows(M))
  BY <1>1, LedgerSums
<1>5. \A s \in Seq(S) : Amounts(Append(s, x)) = Amounts(s) + x.amount
  BY AmountsAppend
<1>6. x.amount \in Nat
  BY DEF Priced
<1> HIDE DEF M
<1>7. Refunded(L) <= Refunded(M)
  <2>1. Amounts(RefundRows(M)) = Amounts(RefundRows(L)) \/ Amounts(RefundRows(M)) = Amounts(RefundRows(L)) + x.amount
    BY <1>2, <1>3, <1>5
  <2> QED
    BY <1>3, <1>4, <1>6, <2>1
<1>8. Charged(L) <= Charged(M)
  <2>1. Amounts(ChargeRows(M)) = Amounts(ChargeRows(L)) \/ Amounts(ChargeRows(M)) = Amounts(ChargeRows(L)) + x.amount
    BY <1>2, <1>3, <1>5
  <2> QED
    BY <1>3, <1>4, <1>6, <2>1
<1> QED
  BY <1>7, <1>8 DEF M

(* A guest told once: the refund is queued, in its order and far enough, or *)
(* what was promised has gone back.                                        *)
TellsOnce(L, T, run, promised) ==
  IF T = NoJob THEN promised <= Refunded(L)
  ELSE /\ T <= Charged(L) /\ promised <= Asked(L, T) /\ BackInOrder(L, T)
       /\ run.on => OnItsWay(L, T, run.todo, promised)

ToldOnce(b) == TellsOnce(ledger[b], refundJob[b], refunding[b], mail[b].promised)
NotTold(b)  == refundJob[b] = NoJob /\ RefundRows(ledger[b]) = <<>> /\ mail[b].promised = 0

ToldOf(b) ==
  /\ mail[b].cancellation \in Nat /\ mail[b].promised \in Nat
  /\ mail[b].cancellation = 0 => NotTold(b)
  /\ mail[b].cancellation = 1 => ToldOnce(b)

(* A ledger holds whole cents and no charge twice, and the job runs while   *)
(* its row is there, over what is left of a list of parts.                 *)
Filed(L) ==
  /\ \E S : Priced(S) /\ L \in Seq(S)
  /\ \A m, n \in Charges(L) : L[m].id = L[n].id => m = n

FileOf(b) ==
  /\ Filed(ledger[b])
  /\ refundJob[b] \in Nat \union {NoJob}
  /\ \E S : Priced(S) /\ refunding[b].todo \in Seq(S)
  /\ refunding[b].on => refundJob[b] # NoJob
  /\ refunding[b].sent => refunding[b].on /\ refunding[b].todo # <<>>

PromiseInv == \A b \in Bookings : FileOf(b) /\ ToldOf(b)

(* What else is in flight: no payment has a refund's name, a decline to     *)
(* record is of whole cents, and a cancellation has read no more than was   *)
(* collected.                                                              *)
AnswerInv ==
  /\ \A i \in intents : i.id[1] # "refund"
  /\ balance.call.type = "failure" => balance.call.amount \in Nat
  /\ \A c \in cancelling : c.found.paid \in Nat /\ c.found.paid <= bill[c.b].paid

LEMMA AnswerStep ==
  ASSUME FlightInv, BillInv, BillInv', CashInv, AnswerInv, Grows, [Next]_vars
  PROVE  AnswerInv'
<1> USE DEF rooms, money, stripe, flight
<1>1. \A i \in intents' : i.id[1] # "refund"
  <2>1. CASE NothingAsked
    BY <2>1 DEF NothingAsked, AnswerInv
  <2>2. ASSUME NEW b \in Bookings, NEW via \in {"link", "moto"}, Open(b, via)
        PROVE  \A i \in intents' : i.id[1] # "refund"
    <3> DEFINE new == [id |-> IntentKey(via, b, Outstanding(b)), b |-> b, kind |-> PaymentKind(b),
                       amount |-> Outstanding(b), card |-> bill[b].scheduled]
    <3>1. intents' = intents \/ intents' = intents \union {new}
      BY <2>2 DEF Open, CreateIntent
    <3>2. new.id[1] # "refund"
      BY DEF IntentKey
    <3> HIDE DEF new
    <3> QED
      BY <3>1, <3>2 DEF AnswerInv
  <2>3. ASSUME NEW i, NEW amount, CompletePayment(i, amount) \/ ChargeBalances
        PROVE  \A j \in intents' : j.id[1] # "refund"
    BY <2>3 DEF CompletePayment, ChargeBalances, AnswerInv
  <2>4. ASSUME NEW d, AskedOffSession(d) PROVE \A i \in intents' : i.id[1] # "refund"
    BY <2>4 DEF AskedOffSession, BalanceIntent, BalanceKey, AnswerInv
  <2> QED
    BY <2>1, <2>2, <2>3, <2>4, AskStep
<1>2. balance'.call.type = "failure" => balance'.call.amount \in Nat
  <2> DEFINE Goal == balance'.call.type = "failure" => balance'.call.amount \in Nat
  <2>1. ASSUME balance'.call = balance.call PROVE Goal
    BY <2>1 DEF AnswerInv
  <2>2. ASSUME balance'.call.type # "failure" PROVE Goal
    BY <2>2
  <2>3. ASSUME NEW b, NEW r, NEW via, NEW manual, NEW amount, NEW k, NEW i, NEW c, NEW id, NEW named,
               \/ Create(b, r, manual) \/ StartPayment(b) \/ ReadForCancel(b) \/ Cancel(c)
               \/ Open(b, via) \/ CompletePayment(i, amount) \/ RecordCharge(i)
               \/ ConsoleRefund(b, amount) \/ Block(k) \/ Unblock(k) \/ NextDay \/ HoldLapses(b)
               \/ GraceLapses(b) \/ StartRefund(b) \/ SendRefund(b) \/ SendRefundUnheard(b)
               \/ RecordRefund(b) \/ FinishRefund(b)
               \/ SweepExpiredHolds \/ ExpireAbandonedBookings \/ DeclinePayment(i)
               \/ DeliverSucceeded(r, named) \/ DeliverFailed(id)
               \/ ChargeBalances \/ FlagUncollectable(i) \/ UNCHANGED vars
        PROVE  Goal
    <3>1. CASE ChargeBalances
      BY <2>1, <3>1 DEF ChargeBalances
    <3>2. CASE FlagUncollectable(i)
      BY <2>1, <3>2 DEF FlagUncollectable
    <3>3. balance' = balance \/ ChargeBalances \/ FlagUncollectable(i)
      BY <2>3 DEF Create, StartPayment, ReadForCancel, Cancel, Open, CompletePayment, RecordCharge,
                  ChargeAlreadyApplied, ChargeUnderpaid, ConfirmCharge, RefundDue, Finish,
                  ConsoleRefund, Block, Unblock, NextDay, HoldLapses, GraceLapses, StartRefund,
                  SendRefund, SendRefundUnheard, RecordRefund, FinishRefund, SweepExpiredHolds,
                  ExpireAbandonedBookings, DeclinePayment, DeliverSucceeded, DeliverFailed, vars
    <3> QED
      BY <2>1, <3>1, <3>2, <3>3
  <2>4. ASSUME NEW d \in balance.todo, ChargeOffSession(d) \/ OffSessionDeclined(d) PROVE Goal
    <3>1. d.amount \in Nat
      BY DEF CashInv
    <3>2. \/ balance'.call = NoCall \/ balance'.call = Succeeded(d)
          \/ \E id : balance'.call = Refused(d, id)
      BY <2>4 DEF ChargeOffSession, OffSessionDeclined, Calls
    <3>3. ASSUME balance'.call = NoCall \/ balance'.call = Succeeded(d) PROVE Goal
      BY <3>3 DEF NoCall, Succeeded
    <3>4. ASSUME NEW id, balance'.call = Refused(d, id) PROVE Goal
      <4>1. Refused(d, id).amount = d.amount
        BY DEF Refused
      <4> QED
        BY <3>1, <3>4, <4>1
    <3> QED
      BY <3>2, <3>3, <3>4
  <2>5. ASSUME RecordBalance \/ RecordBalanceFailure \/ Crash PROVE Goal
    <3>1. balance'.call = NoCall
      <4>1. balance' = [balance EXCEPT !.call = NoCall] \/ balance' = [todo |-> {}, call |-> NoCall]
        BY <2>5 DEF RecordBalance, RecordBalanceFailure, Crash
      <4>2. CASE balance' = [todo |-> {}, call |-> NoCall]
        BY <4>2
      <4>3. CASE balance' = [balance EXCEPT !.call = NoCall]
        BY <2>5, <4>3 DEF AnswerInv
      <4> QED
        BY <4>1, <4>2, <4>3
    <3> QED
      BY <3>1 DEF NoCall
  <2> HIDE DEF Goal
  <2>6. Goal
    BY <2>3, <2>4, <2>5 DEF Next, Guest, Console, Processor, Record, Jobs, Time
  <2> QED
    BY <2>6 DEF Goal
<1>3. \A c \in cancelling' : c \in cancelling \/ (c.b \in Bookings /\ c.found = Found(c.b))
  <2>1. ASSUME NEW b \in Bookings, ReadForCancel(b)
        PROVE  \A c \in cancelling' : c \in cancelling \/ (c.b = b /\ c.found = Found(b))
    BY <2>1 DEF ReadForCancel
  <2>2. ASSUME NEW b, NEW r, NEW via, NEW manual, NEW amount, NEW k, NEW i, NEW c, NEW id, NEW named,
               \/ Create(b, r, manual) \/ StartPayment(b) \/ Cancel(c)
               \/ Open(b, via) \/ CompletePayment(i, amount) \/ RecordCharge(i)
               \/ ConsoleRefund(b, amount) \/ Block(k) \/ Unblock(k) \/ NextDay \/ HoldLapses(b)
               \/ GraceLapses(b) \/ StartRefund(b) \/ SendRefund(b) \/ SendRefundUnheard(b)
               \/ RecordRefund(b) \/ FinishRefund(b)
               \/ SweepExpiredHolds \/ ExpireAbandonedBookings \/ DeclinePayment(i)
               \/ DeliverSucceeded(r, named) \/ DeliverFailed(id)
               \/ ChargeBalances \/ FlagUncollectable(i) \/ ChargeOffSession(i) \/ OffSessionDeclined(i)
               \/ RecordBalance \/ RecordBalanceFailure \/ Crash \/ UNCHANGED vars
        PROVE  cancelling' \subseteq cancelling
    BY <2>2 DEF Create, StartPayment, Cancel, Open, CompletePayment, RecordCharge,
                ChargeAlreadyApplied, ChargeUnderpaid, ConfirmCharge, RefundDue, Finish,
                ConsoleRefund, Block, Unblock, NextDay, HoldLapses, GraceLapses, StartRefund,
                SendRefund, SendRefundUnheard, RecordRefund, FinishRefund, SweepExpiredHolds,
                ExpireAbandonedBookings, DeclinePayment, DeliverSucceeded, DeliverFailed,
                ChargeBalances, FlagUncollectable, ChargeOffSession, OffSessionDeclined,
                RecordBalance, RecordBalanceFailure, Crash, vars
  <2> QED
    BY <2>1, <2>2 DEF Next, Guest, Console, Processor, Record, Jobs, Time
<1>4. ASSUME NEW c \in cancelling' PROVE c.found.paid \in Nat /\ c.found.paid <= bill'[c.b].paid
  <2>1. c.b \in Bookings /\ c.found.paid \in Nat /\ c.found.paid <= bill[c.b].paid
    <3>1. CASE c \in cancelling
      BY <3>1 DEF AnswerInv, FlightInv, Written
    <3>2. CASE c.b \in Bookings /\ c.found = Found(c.b)
      <4>1. c.found.paid = bill[c.b].paid /\ bill[c.b].paid \in Nat
        BY <3>2 DEF Found, BillInv
      <4> QED
        BY <3>2, <4>1
    <3> QED
      BY <1>3, <1>4, <3>1, <3>2
  <2>2. bill'[c.b].paid >= bill[c.b].paid /\ bill[c.b].paid \in Nat /\ bill'[c.b].paid \in Nat
    BY <2>1 DEF Grows, BillInv
  <2> QED
    BY <2>1, <2>2
<1> QED
  BY <1>1, <1>2, <1>4 DEF AnswerInv

-----------------------------------------------------------------------------
(* Only a cancellation writes to the guest of a refund.                     *)
PromisesKept ==
  \A b \in Bookings : /\ mail'[b].cancellation = mail[b].cancellation
                      /\ mail'[b].promised = mail[b].promised

LEMMA PromiseUntouched ==
  ASSUME MailInv, NEW b \in Bookings, NEW template \in {"confirmation", "receipt", "failed"},
         Send(b, template)
  PROVE  PromisesKept
<1>1. /\ \A c \in Bookings \ {b} : mail'[c] = mail[c]
      /\ mail'[b] = [mail[b] EXCEPT ![template] = mail[b][template] + 1]
  BY DEF MailInv, Send
<1>2. "cancellation" \in DOMAIN mail[b] /\ "promised" \in DOMAIN mail[b]
  BY DEF MailInv, NoMail
<1>3. mail'[b].cancellation = mail[b].cancellation /\ mail'[b].promised = mail[b].promised
  BY <1>1, <1>2
<1> QED
  BY <1>1, <1>3 DEF PromisesKept

LEMMA PromiseMade ==
  ASSUME MailInv, NEW b \in Bookings, NEW refunded, CancellationMail(b, refunded)
  PROVE  /\ mail'[b].cancellation = mail[b].cancellation + 1 /\ mail'[b].promised = refunded
         /\ \A c \in Bookings \ {b} : mail'[c] = mail[c]
<1> DEFINE told == [mail EXCEPT ![b].cancellation = @ + 1]
<1>1. /\ told = [c \in Bookings |-> told[c]]
      /\ \A c \in Bookings \ {b} : told[c] = mail[c]
      /\ told[b] = [mail[b] EXCEPT !.cancellation = mail[b].cancellation + 1]
  BY DEF MailInv
<1>2. /\ "cancellation" \in DOMAIN told[b] /\ "promised" \in DOMAIN told[b]
      /\ told[b].cancellation = mail[b].cancellation + 1
  BY <1>1 DEF MailInv, NoMail
<1>3. mail' = [told EXCEPT ![b].promised = refunded]
  BY DEF CancellationMail
<1> HIDE DEF told
<1>4. /\ \A c \in Bookings \ {b} : mail'[c] = mail[c]
      /\ mail'[b] = [told[b] EXCEPT !.promised = refunded]
  BY <1>1, <1>3
<1>5. mail'[b].promised = refunded /\ mail'[b].cancellation = told[b].cancellation
  BY <1>2, <1>4
<1> QED
  BY <1>2, <1>4, <1>5

(* A row that gives nothing back, of a payment not entered before.          *)
RowTaken(b, id, kind, amount, st) ==
  /\ RecordPayment(b, id, kind, amount, st) /\ amount \in Nat
  /\ st = "failed" \/ (kind # "refund" /\ ~Recorded(b, id, "succeeded"))

(* The job's run of a booking goes on as it was, is lost, or has sent the   *)
(* next part.                                                              *)
RunStands(b) ==
  \/ refunding'[b] = refunding[b]
  \/ refunding'[b] = Idle
  \/ NextPart(b) /\ refunding'[b] = [refunding[b] EXCEPT !.sent = TRUE]

(* What a step does to the ledger, the refund job and what was promised, as *)
(* long as nobody asks for a manual refund.                                 *)
RefundsStand ==
  UNCHANGED <<ledger, refundJob>> /\ PromisesKept /\ \A b \in Bookings : RunStands(b)

PaymentWritten ==
  /\ UNCHANGED <<refundJob, refunding>> /\ PromisesKept
  /\ \E b \in Bookings : \E id, kind, amount, st : RowTaken(b, id, kind, amount, st)

LEMMA PromiseStep ==
  ASSUME FlightInv, BillInv, CashInv, HeardInv, MailInv, AskedInv, AnswerInv,
         "refund" \notin Exercised, [Next]_vars
  PROVE  \/ RefundsStand \/ PaymentWritten
         \/ \E b \in Bookings : StartRefund(b) \/ RecordRefund(b) \/ FinishRefund(b)
         \/ \E c \in cancelling : Cancel(c)
         \/ \E t \in charging : RefundDue(t)
<1> USE DEF rooms, money, stripe, flight
<1> DEFINE OneRefund == \E b \in Bookings : StartRefund(b) \/ RecordRefund(b) \/ FinishRefund(b)
           Cancelled == \E c \in cancelling : Cancel(c)
           Late == \E t \in charging : RefundDue(t)
<1>1. ASSUME UNCHANGED mail PROVE PromisesKept
  BY <1>1 DEF PromisesKept
<1>2. ASSUME UNCHANGED <<ledger, refundJob, refunding>>, PromisesKept PROVE RefundsStand
  BY <1>2 DEF RefundsStand, RunStands
<1>3. ASSUME NEW b, NEW via, NEW amount, NEW k, NEW i, NEW r, NEW named,
             \/ Create(b, r, FALSE)
             \/ Open(b, via) \/ ReadForCancel(b)
             \/ Block(k) \/ Unblock(k) \/ NextDay \/ HoldLapses(b)
             \/ StartPayment(b) \/ GraceLapses(b)
             \/ SweepExpiredHolds \/ ExpireAbandonedBookings \/ DeclinePayment(i)
             \/ CompletePayment(i, amount) \/ DeliverSucceeded(r, named)
             \/ ChargeBalances \/ RecordBalance
             \/ ChargeOffSession(i) \/ OffSessionDeclined(i) \/ ChargeAlreadyApplied(i)
             \/ UNCHANGED vars
      PROVE  RefundsStand
  <2>1. UNCHANGED <<ledger, refundJob, refunding, mail>>
    BY <1>3 DEF Create, Open, ReadForCancel, Block, Unblock, NextDay, HoldLapses,
                StartPayment, GraceLapses, SweepExpiredHolds, ExpireAbandonedBookings,
                DeclinePayment, CompletePayment, DeliverSucceeded, ChargeBalances, RecordBalance,
                ChargeOffSession, OffSessionDeclined, ChargeAlreadyApplied, Finish, vars
  <2> QED
    BY <1>1, <1>2, <2>1
<1>4. ASSUME NEW b, NEW amount, ConsoleRefund(b, amount) PROVE FALSE
  BY <1>4 DEF ConsoleRefund
<1>5. ASSUME NEW b \in Bookings, NEW r \in Requests, Create(b, r, TRUE) PROVE RefundsStand
  <2>1. UNCHANGED <<ledger, refundJob, refunding>> /\ Send(b, "confirmation")
    BY <1>5 DEF Create
  <2> QED
    BY <1>2, <2>1, PromiseUntouched
<1>6. ASSUME NEW d \in balance.todo, FlagUncollectable(d) PROVE RefundsStand
  <2>1. d.b \in Bookings
    BY DEF FlightInv, Written
  <2>2. UNCHANGED <<ledger, refundJob, refunding>> /\ Send(d.b, "failed")
    BY <1>6 DEF FlagUncollectable
  <2> QED
    BY <1>2, <2>1, <2>2, PromiseUntouched
<1>7. ASSUME NEW b \in Bookings, NEW id, NEW kind, NEW amount \in Nat,
             RecordFailure(b, id, kind, amount), UNCHANGED <<refundJob, refunding>>
      PROVE  RefundsStand \/ PaymentWritten
  <2>1. PromisesKept
    <3>1. UNCHANGED mail \/ Send(b, "failed")
      BY <1>7 DEF RecordFailure
    <3> QED
      BY <1>1, <3>1, PromiseUntouched
  <2>2. UNCHANGED ledger \/ RecordPayment(b, id, kind, amount, "failed")
    BY <1>7 DEF RecordFailure
  <2>3. CASE UNCHANGED ledger
    BY <1>2, <1>7, <2>1, <2>3
  <2>4. CASE RecordPayment(b, id, kind, amount, "failed")
    <3>1. RowTaken(b, id, kind, amount, "failed")
      BY <2>4 DEF RowTaken
    <3> QED
      BY <1>7, <2>1, <3>1 DEF PaymentWritten
  <2> QED
    BY <2>2, <2>3, <2>4
<1>8. ASSUME NEW id, DeliverFailed(id) PROVE RefundsStand \/ PaymentWritten
  <2>1. /\ IntentOf(id).b \in Bookings /\ IntentOf(id).amount \in Nat
        /\ UNCHANGED <<refundJob, refunding>>
    BY <1>8, KnownIntent DEF DeliverFailed, FlightInv, Written, AskedInv
  <2>2. \/ UNCHANGED <<bill, ledger, mail>>
        \/ RecordFailure(IntentOf(id).b, id, IntentOf(id).kind, IntentOf(id).amount)
    BY <1>8 DEF DeliverFailed
  <2> QED
    BY <1>1, <1>2, <1>7, <2>1, <2>2
<1>9. ASSUME RecordBalanceFailure PROVE RefundsStand \/ PaymentWritten
  <2>1. /\ balance.call.b \in Bookings /\ balance.call.amount \in Nat
        /\ RecordFailure(balance.call.b, balance.call.id, "balance", balance.call.amount)
        /\ UNCHANGED <<refundJob, refunding>>
    BY <1>9 DEF RecordBalanceFailure, FlightInv, Written, AnswerInv
  <2> QED
    BY <1>7, <2>1
<1>10. ASSUME NEW t \in charging, ChargeUnderpaid(t) \/ ConfirmCharge(t) PROVE PaymentWritten
  <2>1. /\ t.in.b \in Bookings /\ t.in.amount \in Nat /\ t.in.kind # "refund"
        /\ UNCHANGED <<refundJob, refunding>>
    BY <1>10 DEF FlightInv, Written, CashInv, HeardInv, ChargeUnderpaid, ConfirmCharge, Finish
  <2>2. PromisesKept
    <3>1. UNCHANGED mail \/ Send(t.in.b, "confirmation") \/ Send(t.in.b, "receipt")
      BY <1>10 DEF ChargeUnderpaid, ConfirmCharge
    <3> QED
      BY <1>1, <2>1, <3>1, PromiseUntouched
  <2>3. RowTaken(t.in.b, t.in.id, t.in.kind, t.in.amount, "succeeded")
    BY <1>10, <2>1 DEF ChargeUnderpaid, ConfirmCharge, TakeMoney, Applied, RowTaken
  <2> QED
    BY <2>1, <2>2, <2>3 DEF PaymentWritten
<1>11. ASSUME NEW b \in Bookings, SendRefund(b) \/ SendRefundUnheard(b) PROVE RefundsStand
  <2>1. UNCHANGED <<ledger, refundJob, mail>>
    BY <1>11 DEF SendRefund, SendRefundUnheard
  <2>2. \/ refunding' = [refunding EXCEPT ![b] = Idle]
        \/ NextPart(b) /\ refunding' = [refunding EXCEPT ![b].sent = TRUE]
    BY <1>11 DEF SendRefund, SendRefundUnheard, GiveUp
  <2>3. \A c \in Bookings : RunStands(c)
    BY <2>2 DEF RunStands, FlightInv
  <2> QED
    BY <1>1, <2>1, <2>3 DEF RefundsStand
<1>12. ASSUME Crash PROVE RefundsStand
  <2>1. UNCHANGED <<ledger, refundJob, mail>> /\ \A b \in Bookings : RunStands(b)
    BY <1>12 DEF Crash, RunStands
  <2> QED
    BY <1>1, <2>1 DEF RefundsStand
<1> HIDE DEF OneRefund, Cancelled, Late
<1>13. ASSUME Guest \/ Console PROVE RefundsStand \/ Cancelled
  BY <1>3, <1>4, <1>5, <1>13 DEF Guest, Console, Cancelled
<1>14. ASSUME Processor \/ Record PROVE RefundsStand \/ PaymentWritten \/ Late
  BY <1>3, <1>8, <1>10, <1>14 DEF Processor, Record, RecordCharge, Late
<1>15. ASSUME Jobs \/ Time \/ Crash PROVE RefundsStand \/ PaymentWritten \/ OneRefund
  BY <1>3, <1>6, <1>9, <1>11, <1>12, <1>15 DEF Jobs, Time, OneRefund
<1> QED
  BY <1>3, <1>13, <1>14, <1>15 DEF Next, OneRefund, Cancelled, Late

-----------------------------------------------------------------------------
(* A row more, with what it does to the files. *)
LEMMA FiledAppend ==
  ASSUME NEW L, Filed(L), NEW x, x.amount \in Nat,
         \/ x.status # "succeeded" \/ x.kind = "refund"
         \/ \A n \in DOMAIN L : L[n].status = "succeeded" => L[n].id # x.id
  PROVE  Filed(Append(L, x))
<1> DEFINE M == Append(L, x)
           k == Len(L) + 1
<1>1. PICK S : Priced(S) /\ L \in Seq(S)
  BY DEF Filed
<1>2. Priced(S \union {x}) /\ L \in Seq(S \union {x}) /\ x \in S \union {x}
  BY <1>1 DEF Priced
<1>3. M \in Seq(S \union {x})
  BY <1>2
<1>4. /\ Len(L) \in Nat /\ DOMAIN L = 1..Len(L) /\ DOMAIN M = (1..Len(L)) \union {k} /\ k \notin 1..Len(L)
      /\ M[k] = x /\ \A n \in 1..Len(L) : M[n] = L[n]
  BY <1>1
<1> HIDE DEF M, k
<1>5. ASSUME NEW n \in Charges(M)
      PROVE  \/ n \in Charges(L) /\ M[n] = L[n] /\ n \in DOMAIN L
             \/ n = k /\ k \in Charges(M)
  <2>1. n \in DOMAIN M /\ M[n].status = "succeeded" /\ M[n].kind # "refund"
    BY DEF Charges
  <2>2. n \in DOMAIN L \/ n = k
    BY <1>4, <2>1
  <2>3. CASE n \in DOMAIN L
    <3>1. M[n] = L[n]
      BY <1>4, <2>3
    <3> QED
      BY <2>1, <2>3, <3>1 DEF Charges
  <2> QED
    BY <2>2, <2>3
<1>6. k \in Charges(M) => x.status = "succeeded" /\ x.kind # "refund"
  BY <1>4 DEF Charges
<1>7. \A n \in Charges(L) : L[n].status = "succeeded" /\ n \in DOMAIN L
  BY DEF Charges
<1>8. ASSUME NEW m \in Charges(M), NEW n \in Charges(M), M[m].id = M[n].id PROVE m = n
  BY <1>4, <1>5, <1>6, <1>7, <1>8 DEF Filed
<1> QED
  BY <1>2, <1>3, <1>8 DEF Filed, M

AddsRow(b, id, kind, amount, st) ==
  /\ \E x : /\ x.id = id /\ x.kind = kind /\ x.amount = amount /\ x.status = st
            /\ ledger'[b] = Append(ledger[b], x)
  /\ Filed(ledger'[b])
  /\ \A c \in Bookings \ {b} : ledger'[c] = ledger[c]

LEMMA RowFiled ==
  ASSUME LedgerInv, NEW b \in Bookings, NEW id, NEW kind, NEW amount \in Nat, NEW st,
         RecordPayment(b, id, kind, amount, st), FileOf(b),
         st = "failed" \/ kind = "refund" \/ ~Recorded(b, id, "succeeded")
  PROVE  AddsRow(b, id, kind, amount, st)
<1> DEFINE x == [id |-> id, kind |-> kind, amount |-> amount, status |-> st]
<1>1. x.id = id /\ x.kind = kind /\ x.amount = amount /\ x.status = st
  OBVIOUS
<1>2. ledger' = [ledger EXCEPT ![b] = Append(@, x)]
  BY DEF RecordPayment
<1> HIDE DEF x
<1>3. ledger'[b] = Append(ledger[b], x) /\ \A c \in Bookings \ {b} : ledger'[c] = ledger[c]
  BY <1>2 DEF LedgerInv
<1>4. Filed(Append(ledger[b], x))
  <2>1. Filed(ledger[b])
    BY DEF FileOf
  <2>2. \/ x.status # "succeeded" \/ x.kind = "refund"
        \/ \A n \in DOMAIN ledger[b] : ledger[b][n].status = "succeeded" => ledger[b][n].id # x.id
    BY <1>1 DEF Recorded
  <2> QED
    BY <1>1, <2>1, <2>2, FiledAppend
<1> QED
  BY <1>1, <1>3, <1>4 DEF AddsRow

(* A payment written down leaves what was promised and queued in order. *)
LEMMA TellsStill ==
  ASSUME NEW L, Filed(L), NEW x, x.amount \in Nat, x.status # "succeeded" \/ x.kind # "refund",
         NEW T \in Nat \union {NoJob}, NEW run, NEW promised \in Nat, TellsOnce(L, T, run, promised)
  PROVE  TellsOnce(Append(L, x), T, run, promised)
<1>1. PICK S : Priced(S) /\ L \in Seq(S)
  BY DEF Filed
<1> DEFINE R == S \union {x}
           M == Append(L, x)
<1>2. Priced(R) /\ L \in Seq(R) /\ x \in R /\ M \in Seq(R)
  BY <1>1 DEF Priced
<1> HIDE DEF R
<1>3. /\ Refunded(L) <= Refunded(M) /\ Charged(L) <= Charged(M)
      /\ Refunded(L) \in Nat /\ Charged(L) \in Nat /\ Refunded(M) \in Nat /\ Charged(M) \in Nat
  <2>1. Refunded(L) <= Refunded(M) /\ Charged(L) <= Charged(M)
    BY <1>2, BackStaysBack
  <2>2. Refunded(L) \in Nat /\ Charged(L) \in Nat
    BY <1>2, LedgerSums
  <2> HIDE DEF M
  <2>3. Refunded(M) \in Nat /\ Charged(M) \in Nat
    BY <1>2, LedgerSums
  <2> QED
    BY <2>1, <2>2, <2>3
<1>4. CASE T = NoJob
  <2> HIDE DEF M
  <2>1. promised <= Refunded(M)
    BY <1>3, <1>4 DEF TellsOnce
  <2> QED
    BY <1>4, <2>1 DEF TellsOnce, M
<1>5. CASE T # NoJob
  <2>1. T \in Nat /\ T <= Charged(L) /\ promised <= Asked(L, T) /\ BackInOrder(L, T)
        /\ (run.on => OnItsWay(L, T, run.todo, promised))
    BY <1>5 DEF TellsOnce
  <2>2. /\ BackInOrder(M, T)
        /\ \A todo, owed : OnItsWay(L, T, todo, owed) => OnItsWay(M, T, todo, owed)
    BY <1>2, <2>1, RefundOutlivesPayment
  <2> HIDE DEF M
  <2>3. T <= Charged(M) /\ promised <= Asked(M, T)
    BY <1>3, <2>1 DEF Asked
  <2> QED
    BY <1>5, <2>1, <2>2, <2>3 DEF TellsOnce, M
<1> QED
  BY <1>4, <1>5

(* A booking the step does not touch. *)
LEMMA PromiseStands ==
  ASSUME NEW b \in Bookings, SentInv, FileOf(b), ToldOf(b), ledger'[b] = ledger[b], refundJob'[b] = refundJob[b],
         mail'[b].cancellation = mail[b].cancellation, mail'[b].promised = mail[b].promised,
         RunStands(b)
  PROVE  FileOf(b)' /\ ToldOf(b)'
<1>1. /\ refunding'[b].on => refunding[b].on /\ refunding'[b].todo = refunding[b].todo
      /\ refunding'[b].sent => refunding'[b].on /\ refunding'[b].todo # <<>>
      /\ refunding'[b].todo = refunding[b].todo \/ refunding'[b].todo = <<>>
  <2>1. CASE refunding'[b] = refunding[b]
    BY <2>1 DEF FileOf
  <2>2. CASE refunding'[b] = Idle
    BY <2>2 DEF Idle
  <2>3. CASE NextPart(b) /\ refunding'[b] = [refunding[b] EXCEPT !.sent = TRUE]
    <3>1. refunding'[b].on = refunding[b].on /\ refunding'[b].todo = refunding[b].todo
      BY <2>3 DEF SentInv
    <3> QED
      BY <2>3, <3>1 DEF NextPart
  <2> QED
    BY <2>1, <2>2, <2>3 DEF RunStands
<1>2. \E S : Priced(S) /\ refunding'[b].todo \in Seq(S)
  <2>1. CASE refunding'[b].todo = refunding[b].todo
    BY <2>1 DEF FileOf
  <2>2. CASE refunding'[b].todo = <<>>
    <3>1. Priced({}) /\ <<>> \in Seq({})
      BY DEF Priced
    <3> QED
      BY <2>2, <3>1
  <2> QED
    BY <1>1, <2>1, <2>2
<1>3. FileOf(b)'
  BY <1>1, <1>2 DEF FileOf
<1>4. ToldOf(b)'
  <2>1. NotTold(b) => NotTold(b)'
    BY DEF NotTold
  <2>2. ToldOnce(b) => ToldOnce(b)'
    BY <1>1 DEF ToldOnce, TellsOnce
  <2> QED
    BY <2>1, <2>2 DEF ToldOf
<1> QED
  BY <1>3, <1>4

LEMMA PromiseSame ==
  ASSUME NEW b \in Bookings, SentInv, FileOf(b), ToldOf(b), ledger'[b] = ledger[b],
         refundJob'[b] = refundJob[b], refunding'[b] = refunding[b], mail'[b] = mail[b]
  PROVE  FileOf(b)' /\ ToldOf(b)'
BY PromiseStands DEF RunStands

-----------------------------------------------------------------------------
(* The refund job: begun, a part written down, done.                        *)
LEMMA AllocateIsPriced ==
  ASSUME NEW S, Priced(S), NEW L \in Seq(S), NEW T \in Nat
  PROVE  Priced(Shares(S)) /\ Allocate(L, T) \in Seq(Shares(S))
<1> DEFINE p == PartsOf(L, T)
<1>1. p \in Seq(Shares(S))
  BY RefundParts
<1>2. \E K \in SUBSET (1..Len(p)) : Allocate(L, T) = AtIndices(p, K)
  <2> DEFINE r == RefundRows(L)
             same(s, n, amount) == Cardinality({i \in 1..n : s[i].amount = amount})
             K == {i \in DOMAIN p :
                     ~(same(p, i - 1, p[i].amount) < same(r, Len(r), p[i].amount))}
  <2>1. Allocate(L, T) = AtIndices(p, K)
    BY DEF Allocate, PartsOf
  <2> HIDE DEF same, p
  <2>2. K \in SUBSET (1..Len(p))
    BY <1>1
  <2> QED
    BY <2>1, <2>2
<1> HIDE DEF p
<1> QED
  BY <1>1, <1>2, AtIndicesType, SharesPriced

LEMMA PromiseRefundStarted ==
  ASSUME FlightInv, SentInv, PromiseInv, NEW b \in Bookings, StartRefund(b)
  PROVE  PromiseInv'
<1> DEFINE L == ledger[b]
           T == refundJob[b]
           run == [on |-> TRUE, todo |-> Allocate(L, T), sent |-> FALSE]
<1>1. /\ UNCHANGED <<ledger, refundJob, mail>> /\ T # NoJob
      /\ refunding' = [refunding EXCEPT ![b] = run]
  BY DEF StartRefund, rooms, money
<1>2. run.on = TRUE /\ run.todo = Allocate(L, T) /\ run.sent = FALSE
  OBVIOUS
<1> HIDE DEF run
<1>3. refunding'[b] = run /\ \A c \in Bookings \ {b} : refunding'[c] = refunding[c]
  BY <1>1 DEF FlightInv
<1>4. FileOf(b) /\ ToldOf(b) /\ T \in Nat
  BY <1>1 DEF PromiseInv, FileOf
<1>5. PICK S : Priced(S) /\ L \in Seq(S)
  BY <1>4 DEF FileOf, Filed
<1>6. FileOf(b)'
  <2>1. \E R : Priced(R) /\ refunding'[b].todo \in Seq(R)
    BY <1>2, <1>3, <1>4, <1>5, AllocateIsPriced
  <2> QED
    BY <1>1, <1>2, <1>3, <1>4, <2>1 DEF FileOf
<1>7. ToldOf(b)'
  <2>1. mail[b].cancellation # 0
    BY <1>1, <1>4 DEF ToldOf, NotTold
  <2>2. ASSUME mail[b].cancellation = 1 PROVE ToldOnce(b)'
    <3>1. T <= Charged(L) /\ mail[b].promised <= Asked(L, T) /\ BackInOrder(L, T)
      BY <1>1, <1>4, <2>2 DEF ToldOf, ToldOnce, TellsOnce
    <3>2. OnItsWay(L, T, Allocate(L, T), mail[b].promised)
      BY <1>4, <1>5, <3>1, RestOnItsWay DEF ToldOf
    <3> QED
      BY <1>1, <1>2, <1>3, <3>1, <3>2 DEF ToldOnce, TellsOnce
  <2> QED
    BY <1>1, <1>4, <2>1, <2>2 DEF ToldOf
<1>8. ASSUME NEW c \in Bookings \ {b} PROVE FileOf(c)' /\ ToldOf(c)'
  BY <1>1, <1>3, PromiseSame DEF PromiseInv
<1> QED
  BY <1>6, <1>7, <1>8 DEF PromiseInv

LEMMA PromiseRefundFinished ==
  ASSUME FlightInv, SentInv, PromiseInv, NEW b \in Bookings, FinishRefund(b)
  PROVE  PromiseInv'
<1> DEFINE L == ledger[b]
           T == refundJob[b]
<1>1. /\ UNCHANGED <<ledger, mail>> /\ refunding[b].on /\ refunding[b].todo = <<>>
      /\ refunding' = [refunding EXCEPT ![b] = Idle]
      /\ refundJob' = [refundJob EXCEPT ![b] = NoJob]
  BY DEF FinishRefund
<1>2. /\ refunding'[b] = Idle /\ \A c \in Bookings \ {b} : refunding'[c] = refunding[c]
      /\ refundJob'[b] = NoJob /\ \A c \in Bookings \ {b} : refundJob'[c] = refundJob[c]
  BY <1>1 DEF FlightInv
<1>3. FileOf(b) /\ ToldOf(b) /\ T \in Nat /\ T # NoJob
  BY <1>1 DEF PromiseInv, FileOf
<1>4. FileOf(b)'
  <2>1. Idle.on = FALSE /\ Idle.sent = FALSE /\ Idle.todo = <<>>
    BY DEF Idle
  <2>2. Priced({}) /\ <<>> \in Seq({})
    BY DEF Priced
  <2> QED
    BY <1>1, <1>2, <1>3, <2>1, <2>2 DEF FileOf
<1>5. ToldOf(b)'
  <2>1. mail[b].cancellation # 0
    BY <1>3 DEF ToldOf, NotTold
  <2>2. ASSUME mail[b].cancellation = 1 PROVE ToldOnce(b)'
    <3>1. BackInOrder(L, T) /\ OnItsWay(L, T, <<>>, mail[b].promised) /\ mail[b].promised \in Nat
      BY <1>1, <1>3, <2>2 DEF ToldOf, ToldOnce, TellsOnce
    <3>2. PICK S : Priced(S) /\ L \in Seq(S)
      BY <1>3 DEF FileOf, Filed
    <3>3. mail[b].promised <= Refunded(L)
      BY <1>3, <3>1, <3>2, AllSent
    <3> QED
      BY <1>1, <1>2, <3>3 DEF ToldOnce, TellsOnce
  <2> QED
    BY <1>1, <1>3, <2>1, <2>2 DEF ToldOf
<1>6. ASSUME NEW c \in Bookings \ {b} PROVE FileOf(c)' /\ ToldOf(c)'
  BY <1>1, <1>2, PromiseSame DEF PromiseInv
<1> QED
  BY <1>4, <1>5, <1>6 DEF PromiseInv

(* Money taken is money of an intent, and none of them has a refund's name. *)
LEMMA ChargesAreAsked ==
  ASSUME FlightInv, LedgerInv, AnswerInv, NEW b \in Bookings, NEW i \in Charges(ledger[b])
  PROVE  ledger[b][i].id[1] # "refund"
<1>1. [id |-> ledger[b][i].id, amount |-> ledger[b][i].amount] \in receipts
  BY DEF Charges, LedgerInv, LedgerIsTrue
<1>2. Known(ledger[b][i].id)
  BY <1>1 DEF FlightInv
<1> QED
  BY <1>2 DEF Known, AnswerInv

LEMMA PromiseRefundRecorded ==
  ASSUME FlightInv, SentInv, LedgerInv, AnswerInv, PromiseInv, NEW b \in Bookings, RecordRefund(b)
  PROVE  PromiseInv'
<1> DEFINE L    == ledger[b]
           T    == refundJob[b]
           todo == refunding[b].todo
           part == Head(todo)
           id   == RefundKey(part.id, part.amount)
<1>1. /\ refunding[b].sent /\ UNCHANGED <<refundJob, mail>>
      /\ refunding' = [refunding EXCEPT ![b].todo = Tail(@), ![b].sent = FALSE]
      /\ IF Recorded(b, id, "succeeded") THEN UNCHANGED ledger
         ELSE RecordPayment(b, id, "refund", part.amount, "succeeded")
  BY DEF RecordRefund, money
<1>2. FileOf(b) /\ ToldOf(b)
  BY DEF PromiseInv
<1>3. refunding[b].on /\ todo # <<>> /\ T # NoJob /\ T \in Nat
  BY <1>1, <1>2 DEF FileOf
<1>4. /\ refunding'[b].on /\ refunding'[b].todo = Tail(todo) /\ refunding'[b].sent = FALSE
      /\ \A c \in Bookings \ {b} : refunding'[c] = refunding[c]
  <2>1. /\ refunding = [c \in Bookings |-> refunding[c]]
        /\ DOMAIN refunding[b] = {"on", "todo", "sent"}
    BY DEF FlightInv, SentInv
  <2>2. /\ refunding'[b] = [refunding[b] EXCEPT !.todo = Tail(todo), !.sent = FALSE]
        /\ \A c \in Bookings \ {b} : refunding'[c] = refunding[c]
    BY <1>1, <2>1
  <2> HIDE DEF todo
  <2> QED
    BY <1>3, <2>1, <2>2
<1>5. PICK R : Priced(R) /\ todo \in Seq(R)
  BY <1>2 DEF FileOf
<1>6. part.amount \in Nat /\ Tail(todo) \in Seq(R)
  <2>1. part \in R /\ Tail(todo) \in Seq(R)
    BY <1>3, <1>5
  <2> QED
    BY <1>5, <2>1 DEF Priced
<1>7. PICK S : Priced(S) /\ L \in Seq(S)
  BY <1>2 DEF FileOf, Filed
<1> HIDE DEF part
<1>8. CASE Recorded(b, id, "succeeded")
  <2>1. UNCHANGED ledger
    BY <1>1, <1>8
  <2>2. mail[b].cancellation # 0 /\ mail[b].cancellation # 1
    <3>1. mail[b].cancellation # 0
      BY <1>2, <1>3 DEF ToldOf, NotTold
    <3>2. ASSUME mail[b].cancellation = 1 PROVE FALSE
      <4>1. BackInOrder(L, T) /\ OnItsWay(L, T, todo, mail[b].promised)
        BY <1>2, <1>3, <3>2 DEF ToldOf, ToldOnce, TellsOnce
      <4>2. \A i \in Charges(L) : /\ L[i].id[1] # "refund"
                                  /\ \A j \in Charges(L) : L[i].id = L[j].id => i = j
        BY <1>2, ChargesAreAsked DEF FileOf, Filed
      <4>3. PICK n \in DOMAIN L : L[n].id = id /\ L[n].status = "succeeded"
        BY <1>8 DEF Recorded
      <4>4. L[n].id # RefundKey(Head(todo).id, Head(todo).amount)
        <5> HIDE DEF L, T, todo, id
        <5> QED
          BY <1>3, <1>7, <4>1, <4>2, <4>3, PartNotWritten
      <4> QED
        BY <4>3, <4>4 DEF part
    <3> QED
      BY <3>1, <3>2
  <2>3. FileOf(b)'
    BY <1>1, <1>2, <1>3, <1>4, <1>5, <1>6, <2>1 DEF FileOf
  <2>4. ToldOf(b)'
    BY <1>1, <1>2, <2>2 DEF ToldOf
  <2>5. ASSUME NEW c \in Bookings \ {b} PROVE FileOf(c)' /\ ToldOf(c)'
    BY <1>1, <1>4, <2>1, PromiseSame DEF PromiseInv
  <2> QED
    BY <2>3, <2>4, <2>5 DEF PromiseInv
<1>9. CASE ~Recorded(b, id, "succeeded")
  <2>1. PICK x : /\ x.id = id /\ x.kind = "refund" /\ x.amount = part.amount /\ x.status = "succeeded"
                 /\ ledger'[b] = Append(L, x) /\ Filed(ledger'[b])
                 /\ \A c \in Bookings \ {b} : ledger'[c] = ledger[c]
    <3>1. RecordPayment(b, id, "refund", part.amount, "succeeded")
      BY <1>1, <1>9
    <3> HIDE DEF id, L
    <3>2. AddsRow(b, id, "refund", part.amount, "succeeded")
      BY <1>2, <1>6, <3>1, RowFiled
    <3> QED
      BY <3>2 DEF L, AddsRow
  <2>2. FileOf(b)'
    BY <1>1, <1>2, <1>3, <1>4, <1>5, <1>6, <2>1 DEF FileOf
  <2>3. ToldOf(b)'
    <3>1. mail[b].cancellation # 0
      BY <1>2, <1>3 DEF ToldOf, NotTold
    <3>2. ASSUME mail[b].cancellation = 1 PROVE ToldOnce(b)'
      <4>1. /\ BackInOrder(L, T) /\ OnItsWay(L, T, todo, mail[b].promised)
            /\ T <= Charged(L) /\ mail[b].promised <= Asked(L, T)
        BY <1>2, <1>3, <3>2 DEF ToldOf, ToldOnce, TellsOnce
      <4> DEFINE Q == S \union {x}
      <4>2. Priced(Q) /\ L \in Seq(Q) /\ x \in Q
        BY <1>6, <1>7, <2>1 DEF Priced
      <4>3. x.id = RefundKey(Head(todo).id, Head(todo).amount) /\ x.amount = Head(todo).amount
        BY <2>1 DEF part
      <4> HIDE DEF Q, L, T, todo, id
      <4>4. /\ BackInOrder(Append(L, x), T)
            /\ OnItsWay(Append(L, x), T, Tail(todo), mail[b].promised)
            /\ Charged(Append(L, x)) = Charged(L)
        BY <1>3, <2>1, <4>1, <4>2, <4>3, PartWritten
      <4>5. T <= Charged(Append(L, x)) /\ mail[b].promised <= Asked(Append(L, x), T)
        BY <4>1, <4>4 DEF Asked
      <4>6. TellsOnce(Append(L, x), T, refunding'[b], mail[b].promised)
        BY <1>3, <1>4, <4>4, <4>5 DEF TellsOnce
      <4> QED
        BY <1>1, <2>1, <4>6 DEF ToldOnce, T
    <3> QED
      BY <1>1, <1>2, <3>1, <3>2 DEF ToldOf
  <2>4. ASSUME NEW c \in Bookings \ {b} PROVE FileOf(c)' /\ ToldOf(c)'
    BY <1>1, <1>4, <2>1, PromiseSame DEF PromiseInv
  <2> QED
    BY <2>2, <2>3, <2>4 DEF PromiseInv
<1> QED
  BY <1>8, <1>9

-----------------------------------------------------------------------------
(* A guest is told of a refund, and it is queued beside the message.        *)
LEMMA PromiseCancelled ==
  ASSUME MoneyInv, SentInv, GrossIsLedger, MailInv, AnswerInv, PromiseInv,
         NEW c \in cancelling, Cancel(c)
  PROVE  PromiseInv'
<1> DEFINE b == c.b
           L == ledger[b]
           refund == Refund(Quote(b), c.found.paid, IsLateCancellation(c.on, stay[b].checkin), RefundRate)
<1>1. /\ UNCHANGED <<ledger, refunding>> /\ CancellationMail(b, refund)
      /\ IF refund > 0 THEN QueueRefund(b, refund) ELSE UNCHANGED refundJob
  BY DEF Cancel
<1>2. b \in Bookings /\ status[b] # "absent" /\ FileOf(b) /\ ToldOf(b)
  BY DEF MoneyInv, FlightInv, Written, PromiseInv
<1>3. refund \in 0..c.found.paid
  <2>1. stay[b].total \in Nat /\ c.found.paid \in Nat /\ RefundRate \in Nat
    BY <1>2, BoundAssumption DEF MoneyInv, StayInv, AnswerInv
  <2>2. IsLateCancellation(c.on, stay[b].checkin) \in BOOLEAN
    BY DEF IsLateCancellation
  <2> QED
    BY <2>1, <2>2, RefundBounded DEF Quote
<1> HIDE DEF refund
<1>4. PICK S : Priced(S) /\ L \in Seq(S)
  BY <1>2 DEF FileOf, Filed
<1>5. Charged(L) \in Nat /\ Refunded(L) \in Nat /\ refund \in Nat /\ refund <= Charged(L)
  <2>1. Charged(L) \in Nat /\ Refunded(L) \in Nat
    BY <1>4, LedgerSums
  <2>2. c.found.paid \in Nat /\ c.found.paid <= Charged(L)
    BY <1>2 DEF AnswerInv, GrossIsLedger, Gross
  <2> QED
    BY <1>3, <2>1, <2>2
<1>6. /\ mail'[b].cancellation = mail[b].cancellation + 1 /\ mail'[b].promised = refund
      /\ \A a \in Bookings \ {b} : mail'[a] = mail[a]
  BY <1>1, <1>2, PromiseMade
<1>7. /\ refundJob'[b] = IF refundJob[b] = NoJob /\ refund > 0 THEN refund ELSE refundJob[b]
      /\ \A a \in Bookings \ {b} : refundJob'[a] = refundJob[a]
  BY <1>1, <1>2 DEF QueueRefund, MoneyInv, FlightInv
<1> HIDE DEF b
<1>8. FileOf(b)'
  <2>1. refundJob'[b] \in Nat \union {NoJob}
    BY <1>2, <1>5, <1>7 DEF FileOf
  <2>2. refunding[b].on => refundJob'[b] # NoJob
    BY <1>2, <1>7 DEF FileOf
  <2> QED
    BY <1>1, <1>2, <2>1, <2>2 DEF FileOf
<1>9. ToldOf(b)'
  <2>1. mail[b].cancellation \in Nat
    BY <1>2 DEF ToldOf
  <2>2. ASSUME mail[b].cancellation = 0 PROVE ToldOnce(b)'
    <3>1. refundJob[b] = NoJob /\ RefundRows(L) = <<>> /\ ~refunding[b].on
      BY <1>2, <2>2 DEF ToldOf, NotTold, FileOf
    <3>2. CASE refund = 0
      <4>1. refundJob'[b] = NoJob /\ refund <= Refunded(L)
        BY <1>5, <1>7, <3>1, <3>2
      <4> QED
        BY <1>1, <1>6, <4>1 DEF ToldOnce, TellsOnce
    <3>3. CASE refund # 0
      <4>1. refundJob'[b] = refund /\ refund # NoJob
        BY <1>5, <1>7, <3>1, <3>3 DEF NoJob
      <4>2. Asked(L, refund) = refund /\ refund <= refund
        BY <1>5, <3>3 DEF Asked
      <4>3. BackInOrder(L, refund)
        BY <1>4, <1>5, <3>1, NothingBack
      <4>4. TellsOnce(L, refund, refunding[b], refund)
        BY <1>5, <3>1, <4>1, <4>2, <4>3 DEF TellsOnce
      <4> QED
        BY <1>1, <1>6, <4>1, <4>4 DEF ToldOnce
    <3> QED
      BY <3>2, <3>3
  <2> QED
    BY <1>5, <1>6, <2>1, <2>2 DEF ToldOf
<1>10. ASSUME NEW a \in Bookings \ {b} PROVE FileOf(a)' /\ ToldOf(a)'
  <2>1. ledger'[a] = ledger[a] /\ refunding'[a] = refunding[a]
    BY <1>1
  <2> QED
    BY <1>6, <1>7, <2>1, PromiseSame DEF PromiseInv
<1> QED
  BY <1>8, <1>9, <1>10 DEF PromiseInv

LEMMA PromiseLate ==
  ASSUME MoneyInv, TruthInv, GrossIsLedger', MailInv, PromiseInv, NEW t \in charging, RefundDue(t)
  PROVE  PromiseInv'
<1>1. PICK b \in Bookings : b = t.in.b
  BY DEF MoneyInv, FlightInv, Written
<1> DEFINE L == ledger[b]
           told == t.found.paid + t.in.amount
<1>2. /\ TakeMoney(t) /\ QueueRefund(b, 0) /\ CancellationMail(b, told) /\ UNCHANGED refunding
      /\ ~Recorded(b, t.in.id, "succeeded")
  BY <1>1 DEF RefundDue, Finish, Applied
<1>3. b \in Bookings /\ FileOf(b) /\ ToldOf(b)
  BY <1>1 DEF MoneyInv, FlightInv, Written, PromiseInv
<1>4. t.in.amount \in Nat /\ t.found.paid \in Nat /\ t.found.paid <= bill[b].paid
  BY <1>1 DEF MoneyInv, CashInv
<1>5. PICK x : /\ x.amount = t.in.amount /\ x.kind = t.in.kind /\ ledger'[b] = Append(L, x)
               /\ Filed(ledger'[b])
               /\ \A a \in Bookings \ {b} : ledger'[a] = ledger[a]
  <2>1. RecordPayment(b, t.in.id, t.in.kind, t.in.amount, "succeeded") /\ LedgerInv
    BY <1>1, <1>2 DEF TakeMoney, TruthInv
  <2>2. AddsRow(b, t.in.id, t.in.kind, t.in.amount, "succeeded")
    BY <1>2, <1>3, <1>4, <2>1, RowFiled
  <2> QED
    BY <2>2 DEF AddsRow
<1> DEFINE M == ledger'[b]
<1>6. told \in Nat /\ told <= Charged(M)
  <2>1. bill'[b].paid = bill[b].paid + t.in.amount /\ bill[b].paid \in Nat
    BY <1>1, <1>2, <1>3, MoneyTaken DEF MoneyInv, BillInv
  <2>2. bill'[b].paid = Charged(M)
    BY <1>3 DEF GrossIsLedger, Gross
  <2> HIDE DEF M
  <2> QED
    BY <1>4, <2>1, <2>2
<1>7. /\ mail'[b].cancellation = mail[b].cancellation + 1 /\ mail'[b].promised = told
      /\ \A a \in Bookings \ {b} : mail'[a] = mail[a]
  BY <1>2, <1>3, PromiseMade
<1>8. /\ refundJob'[b] = IF refundJob[b] = NoJob THEN 0 ELSE refundJob[b]
      /\ \A a \in Bookings \ {b} : refundJob'[a] = refundJob[a]
  BY <1>2, <1>3 DEF QueueRefund, MoneyInv, FlightInv
<1> HIDE DEF told
<1>9. FileOf(b)'
  <2>1. refundJob'[b] \in Nat \union {NoJob} /\ (refunding[b].on => refundJob'[b] # NoJob)
    BY <1>3, <1>8 DEF FileOf, NoJob
  <2> QED
    BY <1>2, <1>3, <1>5, <2>1 DEF FileOf
<1>10. ToldOf(b)'
  <2>1. mail[b].cancellation \in Nat
    BY <1>3 DEF ToldOf
  <2>2. ASSUME mail[b].cancellation = 0 PROVE ToldOnce(b)'
    <3>1. refundJob[b] = NoJob /\ RefundRows(L) = <<>> /\ ~refunding[b].on
      BY <1>3, <2>2 DEF ToldOf, NotTold, FileOf
    <3>2. refundJob'[b] = 0 /\ 0 # NoJob
      BY <1>8, <3>1 DEF NoJob
    <3>3. PICK S : Priced(S) /\ L \in Seq(S)
      BY <1>3 DEF FileOf, Filed
    <3> DEFINE Q == S \union {x}
    <3>4. Priced(Q) /\ L \in Seq(Q) /\ x \in Q /\ Append(L, x) \in Seq(Q)
      BY <1>4, <1>5, <3>3 DEF Priced
    <3> HIDE DEF Q
    <3>5. x.kind # "refund"
      BY <1>5 DEF TruthInv, HeardInv
    <3>6. RefundRows(Append(L, x)) = <<>>
      BY <3>1, <3>4, <3>5, LedgerAppend
    <3>7. Charged(Append(L, x)) \in Nat /\ BackInOrder(Append(L, x), 0)
      <4> DEFINE A == Append(L, x)
      <4>1. A \in Seq(Q) /\ RefundRows(A) = <<>> /\ 0 \in Nat
        BY <3>4, <3>6
      <4> HIDE DEF A
      <4>2. Charged(A) \in Nat /\ BackInOrder(A, 0)
        BY <3>4, <4>1, LedgerSums, NothingBack
      <4> QED
        BY <4>2 DEF A
    <3>8. TellsOnce(M, 0, refunding'[b], told)
      <4>1. 0 <= Charged(M) /\ told <= Asked(M, 0) /\ BackInOrder(M, 0)
        BY <1>5, <1>6, <3>7 DEF Asked
      <4> QED
        BY <1>2, <3>1, <3>2, <4>1 DEF TellsOnce
    <3> QED
      BY <1>7, <3>2, <3>8 DEF ToldOnce
  <2> QED
    BY <1>6, <1>7, <2>1, <2>2 DEF ToldOf
<1>11. ASSUME NEW a \in Bookings \ {b} PROVE FileOf(a)' /\ ToldOf(a)'
  BY <1>2, <1>5, <1>7, <1>8, PromiseSame DEF PromiseInv, TruthInv
<1> QED
  BY <1>9, <1>10, <1>11 DEF PromiseInv

(* A payment taken or refused, whatever is queued for its booking.          *)
LEMMA PromiseThroughPayment ==
  ASSUME LedgerInv, SentInv, PromiseInv, PaymentWritten
  PROVE  PromiseInv'
<1>1. PICK b \in Bookings : \E id, kind, amount, st : RowTaken(b, id, kind, amount, st)
  BY DEF PaymentWritten
<1>2. PICK id, kind, amount, st : RowTaken(b, id, kind, amount, st)
  BY <1>1
<1>3. FileOf(b) /\ ToldOf(b) /\ UNCHANGED <<refundJob, refunding>> /\ PromisesKept
  BY DEF PromiseInv, PaymentWritten
<1> DEFINE L == ledger[b]
<1>4. PICK x : /\ x.amount = amount /\ x.kind = kind /\ x.status = st /\ ledger'[b] = Append(L, x)
               /\ Filed(ledger'[b])
               /\ \A a \in Bookings \ {b} : ledger'[a] = ledger[a]
  <2>1. AddsRow(b, id, kind, amount, st)
    BY <1>2, <1>3, RowFiled DEF RowTaken
  <2> QED
    BY <2>1 DEF AddsRow
<1>5. x.amount \in Nat /\ (x.status # "succeeded" \/ x.kind # "refund")
  BY <1>2, <1>4 DEF RowTaken
<1>6. FileOf(b)'
  BY <1>3, <1>4 DEF FileOf
<1>7. ToldOf(b)'
  <2>1. mail'[b].cancellation = mail[b].cancellation /\ mail'[b].promised = mail[b].promised
    BY <1>3 DEF PromisesKept
  <2>2. NotTold(b) => NotTold(b)'
    <3>1. PICK S : Priced(S) /\ L \in Seq(S)
      BY <1>3 DEF FileOf, Filed
    <3>2. L \in Seq(S \union {x}) /\ x \in S \union {x}
      BY <3>1
    <3>3. RefundRows(Append(L, x)) = RefundRows(L)
      BY <1>5, <3>2, LedgerAppend
    <3> QED
      BY <1>3, <1>4, <2>1, <3>3 DEF NotTold
  <2>3. mail[b].promised \in Nat /\ ToldOnce(b) => ToldOnce(b)'
    <3>1. Filed(L) /\ refundJob[b] \in Nat \union {NoJob}
      BY <1>3 DEF FileOf
    <3>2. ASSUME mail[b].promised \in Nat, TellsOnce(L, refundJob[b], refunding[b], mail[b].promised)
          PROVE  TellsOnce(Append(L, x), refundJob[b], refunding[b], mail[b].promised)
      <4> HIDE DEF L
      <4> QED
        BY <1>5, <3>1, <3>2, TellsStill
    <3> QED
      BY <1>3, <1>4, <2>1, <3>2 DEF ToldOnce
  <2> QED
    BY <1>3, <2>1, <2>2, <2>3 DEF ToldOf
<1>8. ASSUME NEW a \in Bookings \ {b} PROVE FileOf(a)' /\ ToldOf(a)'
  <2>1. ledger'[a] = ledger[a] /\ refundJob'[a] = refundJob[a] /\ refunding'[a] = refunding[a]
        /\ mail'[a].cancellation = mail[a].cancellation /\ mail'[a].promised = mail[a].promised
    BY <1>3, <1>4 DEF PromisesKept
  <2> QED
    BY <2>1, PromiseStands DEF PromiseInv, RunStands
<1> QED
  BY <1>6, <1>7, <1>8 DEF PromiseInv

LEMMA PromiseInvStep ==
  ASSUME "refund" \notin Exercised, MoneyInv, TruthInv, AskedInv, GrossIsLedger, GrossIsLedger',
         MailInv, AnswerInv, PromiseInv, [Next]_vars
  PROVE  PromiseInv'
<1>1. FlightInv /\ BillInv /\ CashInv /\ HeardInv /\ SentInv /\ LedgerInv
  BY DEF MoneyInv, TruthInv
<1>2. CASE RefundsStand
  <2>1. ASSUME NEW b \in Bookings PROVE FileOf(b)' /\ ToldOf(b)'
    BY <1>1, <1>2, PromiseStands DEF RefundsStand, PromisesKept, PromiseInv
  <2> QED
    BY <2>1 DEF PromiseInv
<1>3. CASE PaymentWritten
  BY <1>1, <1>3, PromiseThroughPayment
<1>4. ASSUME NEW b \in Bookings, StartRefund(b) \/ RecordRefund(b) \/ FinishRefund(b) PROVE PromiseInv'
  BY <1>1, <1>4, PromiseRefundStarted, PromiseRefundRecorded, PromiseRefundFinished
<1>5. ASSUME NEW c \in cancelling, Cancel(c) PROVE PromiseInv'
  BY <1>1, <1>5, PromiseCancelled
<1>6. ASSUME NEW t \in charging, RefundDue(t) PROVE PromiseInv'
  BY <1>6, PromiseLate
<1> QED
  BY <1>1, <1>2, <1>3, <1>4, <1>5, <1>6, PromiseStep

LEMMA PromiseStart == Init => AnswerInv /\ PromiseInv
<1> SUFFICES ASSUME Init PROVE AnswerInv /\ PromiseInv
  OBVIOUS
<1>1. AnswerInv
  BY DEF Init, AnswerInv, NoCall
<1>2. ASSUME NEW b \in Bookings PROVE FileOf(b) /\ ToldOf(b)
  <2>1. ledger[b] = <<>> /\ refundJob[b] = NoJob /\ mail[b] = NoMail /\ refunding[b] = Idle
    BY DEF Init
  <2>2. Charges(<<>>) = {} /\ Refunds(<<>>) = {}
    BY DEF Charges, Refunds
  <2>3. Priced({}) /\ <<>> \in Seq({})
    BY DEF Priced
  <2>4. FileOf(b)
    BY <2>1, <2>2, <2>3 DEF FileOf, Filed, Idle
  <2>5. RefundRows(<<>>) = <<>>
    BY <2>2, AtIndicesNone DEF RefundRows
  <2>6. ToldOf(b)
    BY <2>1, <2>5 DEF ToldOf, NotTold, NoMail
  <2> QED
    BY <2>4, <2>6
<1> QED
  BY <1>1, <1>2 DEF PromiseInv

(* The guest has been written to of one cancellation at most: not by Cancel  *)
(* and then by a balance that lands too late, nor by two of either.         *)
OnceCancelled == \A b \in Bookings : mail[b].cancellation <= 1

(* refundDue: a guest is never "told money is coming back without a record  *)
(* of it": while less has gone back than was promised, a refund is queued.  *)
(* It takes both hypotheses: the refund is queued ON CONFLICT DO NOTHING,    *)
(* so one that is queued for a first message, or by the owner, swallows the  *)
(* one the guest is told of.                                                *)
THEOREM WhatIsPromisedIsQueued ==
  ASSUME "refund" \notin Exercised
  PROVE  Spec => [](OnceCancelled => PromiseKept)
<1> DEFINE I == /\ MoneyInv /\ TruthInv /\ OnceInv /\ GrossIsLedger /\ MailInv
                /\ AnswerInv /\ PromiseInv
<1>1. Init => I
  <2>1. Init => \A b \in Bookings : bill[b].paid = 0 /\ ledger[b] = <<>>
    BY DEF Init, NewBill
  <2>2. Charged(<<>>) = 0
    <3>1. Charges(<<>>) = {}
      BY DEF Charges
    <3> QED
      BY <3>1, SumOfNone DEF Charged
  <2>3. Init => GrossIsLedger
    BY <2>1, <2>2 DEF GrossIsLedger, Gross
  <2>4. Init => MailInv
    BY DEF Init, MailInv, NoMail
  <2> QED
    BY <2>3, <2>4, MoneyStart, TruthInitially, OnceStart, PromiseStart
<1>2. ASSUME I, [Next]_vars PROVE I'
  <2>1. MoneyInv' /\ Grows /\ TruthInv' /\ OnceInv' /\ GrossIsLedger'
    BY <1>2, MoneyStep, TruthStep, OnceStep, GrossStep
  <2>2. FlightInv /\ BillInv /\ CashInv /\ BillInv' /\ AskedInv
    BY <1>2, <2>1 DEF MoneyInv, OnceInv
  <2>3. MailInv'
    BY <1>2, <2>2, FlagStep
  <2>4. AnswerInv'
    BY <1>2, <2>1, <2>2, AnswerStep
  <2>5. PromiseInv'
    BY <1>2, <2>1, <2>2, PromiseInvStep
  <2> QED
    BY <2>1, <2>3, <2>4, <2>5
<1>3. I => (OnceCancelled => PromiseKept)
  <2> SUFFICES ASSUME I, OnceCancelled, NEW b \in Bookings,
                      mail[b].promised > SentBack(b), refundJob[b] = NoJob
               PROVE  FALSE
    BY DEF PromiseKept
  <2>1. ToldOf(b) /\ FileOf(b)
    BY DEF PromiseInv
  <2>2. mail[b].cancellation = 0 \/ mail[b].cancellation = 1
    BY <2>1 DEF OnceCancelled, ToldOf
  <2>3. Refunded(ledger[b]) \in Nat
    BY <2>1, LedgerSums DEF FileOf, Filed
  <2>4. mail[b].promised <= Refunded(ledger[b])
    <3>1. CASE mail[b].cancellation = 0
      BY <2>1, <2>3, <3>1 DEF ToldOf, NotTold
    <3>2. CASE mail[b].cancellation = 1
      BY <2>1, <3>2 DEF ToldOf, ToldOnce, TellsOnce
    <3> QED
      BY <2>2, <3>1, <3>2
  <2> QED
    BY <2>1, <2>3, <2>4 DEF SentBack, ToldOf
<1> QED
  BY <1>1, <1>2, <1>3, PTL DEF Spec
=============================================================================
