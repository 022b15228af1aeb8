--------------------------------- MODULE Inn ---------------------------------
(***************************************************************************)
(* The inn: checkouts and phone bookings (internal/booking), the sweeper,  *)
(* the owner's console (internal/console), the calendar and the clock,     *)
(* composed with the payment handlers of Payments.                         *)
(***************************************************************************)
EXTENDS Payments

Init ==
  /\ today = 0
  /\ status = [b \in Bookings |-> "absent"]
  /\ stay = [b \in Bookings |-> NoRequest]
  /\ occ = [b \in Bookings |-> "none"]
  /\ blocks = {}
  /\ bill = [b \in Bookings |-> NewBill]
  /\ ledger = [b \in Bookings |-> <<>>]
  /\ seen = {}
  /\ refundJob = [b \in Bookings |-> NoJob]
  /\ mail = [b \in Bookings |-> NoMail]
  /\ intents = {} /\ receipts = {} /\ declines = {} /\ returned = {}
  /\ opening = {} /\ charging = {} /\ cancelling = {}
  /\ balance = [todo |-> {}, call |-> NoCall]
  /\ refunding = [b \in Bookings |-> Idle]
  /\ sweeping = FALSE
  /\ opens = [b \in Bookings |-> 0]

-----------------------------------------------------------------------------
(* A booking and its row of room_occupancy are written in one transaction; *)
(* the exclusion constraint refuses the loser of a race.  A phone booking  *)
(* is confirmed unpaid, with the confirmation queued beside it.            *)
Create(b, r, manual) ==
  /\ status[b] = "absent"
  /\ manual => "manual" \in Exercised
  /\ today <= r.checkin
  /\ Rooms!Free(r, stay, occ, blocks)
  /\ status' = [status EXCEPT ![b] = IF manual THEN "confirmed" ELSE "pending"]
  /\ stay' = [stay EXCEPT ![b] = r]
  /\ bill' = [bill EXCEPT ![b].manual = manual,
                          ![b].scheduled = ~manual /\ ~IsShortNotice(today, r.checkin)]
  /\ occ' = [occ EXCEPT ![b] = IF manual THEN "booking" ELSE "hold"]
  /\ IF manual THEN Send(b, "confirmation") ELSE UNCHANGED mail
  /\ UNCHANGED <<today, blocks, ledger, seen, refundJob, stripe, flight, opens>>

(* Mutant: holds are swept whether or not they have expired.               *)
SweepAllHolds ==
  /\ ~sweeping
  /\ occ' = [b \in Bookings |-> IF occ[b] \in {"hold", "lapsed"} THEN "none" ELSE occ[b]]
  /\ sweeping' = TRUE
  /\ UNCHANGED <<today, status, stay, blocks, money, stripe,
                 opening, charging, cancelling, balance, refunding, opens>>

(* The two statements of Sweep, each committed on its own.                 *)
SweepExpiredHolds ==
  /\ ~sweeping
  /\ occ' = [b \in Bookings |-> IF occ[b] = "lapsed" THEN "none" ELSE occ[b]]
  /\ sweeping' = TRUE
  /\ UNCHANGED <<today, status, stay, blocks, money, stripe,
                 opening, charging, cancelling, balance, refunding, opens>>

(* Mutant: a payment once begun protects a checkout for good.              *)
AbandonedNeverOpened(b) ==
  status[b] = "pending" /\ occ[b] \notin {"hold", "lapsed"} /\ bill[b].started = "never"

Abandoned(b) ==
  /\ status[b] = "pending"
  /\ occ[b] \notin {"hold", "lapsed"}
  /\ bill[b].started # "recent"

ExpireAbandonedBookings ==
  /\ sweeping
  /\ status' = [b \in Bookings |-> IF Abandoned(b) THEN "expired" ELSE status[b]]
  /\ sweeping' = FALSE
  /\ UNCHANGED <<today, stay, occ, blocks, money, stripe,
                 opening, charging, cancelling, balance, refunding, opens>>

-----------------------------------------------------------------------------
(* The console.                                                            *)

Block(k) ==
  /\ "block" \in Exercised
  /\ Rooms!Free(k, stay, occ, blocks)
  /\ blocks' = blocks \union {k}
  /\ UNCHANGED <<today, status, stay, occ, money, stripe, flight, opens>>

Unblock(k) ==
  /\ k \in blocks
  /\ blocks' = blocks \ {k}
  /\ UNCHANGED <<today, status, stay, occ, money, stripe, flight, opens>>

ConsoleRefund(b, amount) ==
  /\ "refund" \in Exercised
  /\ status[b] # "absent"
  /\ amount > 0 /\ amount <= bill[b].paid
  /\ QueueRefund(b, amount)
  /\ UNCHANGED <<today, rooms, bill, ledger, seen, mail, stripe, flight, opens>>

-----------------------------------------------------------------------------
(* Time, and the process dying: everything in flight is lost, every table  *)
(* is kept.                                                                *)

NextDay ==
  /\ today < MaxDay
  /\ today' = today + 1
  /\ UNCHANGED <<rooms, money, stripe, flight, opens>>

HoldLapses(b) ==
  /\ occ[b] = "hold"
  /\ occ' = [occ EXCEPT ![b] = "lapsed"]
  /\ UNCHANGED <<today, status, stay, blocks, money, stripe, flight, opens>>

GraceLapses(b) ==
  /\ bill[b].started = "recent"
  /\ bill' = [bill EXCEPT ![b].started = "old"]
  /\ UNCHANGED <<today, rooms, ledger, seen, refundJob, mail, stripe, flight, opens>>

Crash ==
  /\ "crash" \in Exercised
  /\ opening' = {} /\ charging' = {} /\ cancelling' = {}
  /\ balance' = [todo |-> {}, call |-> NoCall]
  /\ refunding' = [b \in Bookings |-> Idle]
  /\ sweeping' = FALSE
  /\ UNCHANGED <<today, rooms, money, stripe, opens>>

-----------------------------------------------------------------------------
Guest ==
  \/ \E b \in Bookings, r \in Requests : Create(b, r, FALSE)
  \/ \E b \in Bookings : Open(b, "link") \/ StartPayment(b) \/ ReadForCancel(b)
  \/ \E c \in cancelling : Cancel(c)

Console ==
  \/ \E b \in Bookings, r \in Requests : Create(b, r, TRUE)
  \/ \E b \in Bookings : Open(b, "moto")
  \/ \E b \in Bookings : \E amount \in 1..bill[b].paid : ConsoleRefund(b, amount)
  \/ \E k \in Blockable : Block(k) \/ Unblock(k)

Processor ==
  \/ \E i \in intents : DeclinePayment(i)
  \/ \E i \in intents : \E amount \in 1..i.amount : CompletePayment(i, amount)
  \/ \E r \in receipts, named \in BOOLEAN : DeliverSucceeded(r, named)
  \/ \E id \in declines : DeliverFailed(id)

Record == \E t \in charging : RecordCharge(t)

Jobs ==
  \/ SweepExpiredHolds \/ ExpireAbandonedBookings
  \/ ChargeBalances
  \/ \E d \in balance.todo : FlagUncollectable(d) \/ ChargeOffSession(d) \/ OffSessionDeclined(d)
  \/ RecordBalance \/ RecordBalanceFailure
  \/ \E b \in Bookings : StartRefund(b) \/ SendRefund(b) \/ SendRefundUnheard(b)
                         \/ RecordRefund(b) \/ FinishRefund(b)

Time ==
  \/ NextDay
  \/ \E b \in Bookings : HoldLapses(b) \/ GraceLapses(b)

Next == Guest \/ Console \/ Processor \/ Record \/ Jobs \/ Time \/ Crash

Spec == Init /\ [][Next]_vars

(* What the scheduling gives.  Clocks run.  The runner runs every periodic *)
(* job and every queued job again until it ends, the processor delivers an *)
(* event until it is answered, and neither a crash nor a lost answer       *)
(* strikes each attempt at the same step for ever: a step that is enabled  *)
(* again and again is taken.                                               *)
Undelivered(r) == <<"succeeded", r.id>> \notin seen

Fairness ==
  /\ \A b \in Bookings : WF_vars(HoldLapses(b)) /\ WF_vars(GraceLapses(b))
  /\ WF_vars(SweepExpiredHolds) /\ SF_vars(ExpireAbandonedBookings)
  /\ SF_vars(\E r \in receipts : Undelivered(r) /\ DeliverSucceeded(r, TRUE))
  /\ WF_vars(\E id \in declines : DeliverFailed(id))
  /\ WF_vars(Record) /\ SF_vars(\E t \in charging : ~Applied(t) /\ RecordCharge(t))
  /\ WF_vars(ChargeBalances)
  /\ SF_vars(\E d \in balance.todo :
               FlagUncollectable(d) \/ ChargeOffSession(d) \/ OffSessionDeclined(d))
  /\ SF_vars(RecordBalance) /\ SF_vars(RecordBalanceFailure)
  /\ \A b \in Bookings :
       /\ WF_vars(StartRefund(b)) /\ SF_vars(SendRefund(b))
       /\ SF_vars(RecordRefund(b)) /\ SF_vars(FinishRefund(b))

FairSpec == Spec /\ Fairness

-----------------------------------------------------------------------------
Gross(b)    == Charged(ledger[b])
SentBack(b) == Refunded(ledger[b])

ConfirmedHoldsRoom == Rooms!ConfirmedHoldsRoom
NoDoubleBooking == Rooms!NoDoubleBooking

(* amount_paid_cents is the gross collected: it is the sum of the succeeded *)
(* charges in the ledger, however often a charge is delivered, recorded by  *)
(* the job as well as by the webhook, or retried after a crash.             *)
GrossIsLedger == \A b \in Bookings : bill[b].paid = Gross(b)

(* The ledger never claims money the processor did not take, and a refund   *)
(* is never recorded that it did not send.                                  *)
LedgerIsTrue ==
  \A b \in Bookings : \A n \in DOMAIN ledger[b] :
    LET row == ledger[b][n] IN
    row.status = "succeeded" =>
      IF row.kind = "refund"
      THEN \E r \in returned : row.id = RefundKey(r.id, r.amount) /\ row.amount = r.amount
      ELSE [id |-> row.id, amount |-> row.amount] \in receipts

(* RecordCharge: "Nothing is confirmed until the money due at booking has   *)
(* actually arrived", phone bookings apart.                                 *)
ConfirmedIsPaid ==
  \A b \in Bookings :
    status[b] = "confirmed" /\ ~bill[b].manual
      => bill[b].paid >= ChargeAtBooking(Quote(b), ~bill[b].scheduled)

(* The payments opened for a booking, and whether they were all opened from  *)
(* one side: by the guest over the link, or by the owner on the phone.       *)
Opened(b) == {i \in intents : i.b = b /\ i.id # BalanceKey(b)}
OneSided(b) == \A i, j \in Opened(b) : i.id[1] = j.id[1]

(* ChargeBalances: "Running twice is safe at both ends", and CreateIntent:   *)
(* "a guest who reloads the pay page gets the payment they already had":     *)
(* nobody whose payment is opened from one side pays more than their stay    *)
(* costs.  (Opened from both, it is two payments, and both can be made.)     *)
NeverOvercharged ==
  \A b \in Bookings :
    status[b] # "absent" /\ OneSided(b) => bill[b].paid <= stay[b].total

(* refundDue: a guest is never "told money is coming back without a record  *)
(* of it": while less has gone back than the last cancellation message      *)
(* promised, a refund is queued.                                            *)
PromiseKept ==
  \A b \in Bookings : mail[b].promised > SentBack(b) => refundJob[b] # NoJob

(* RecordCharge: a guest whose balance lands must not read it as "a second  *)
(* booking": one confirmation message per stay, however often its payments  *)
(* are opened from one side, delivered, or recorded by the job as well.     *)
OneConfirmation == \A b \in Bookings : OneSided(b) => mail[b].confirmation <= 1

(* RecordFailure and flagUncollectable: "the guest hears about it in the    *)
(* same transaction as the flag the owner sees, so the two can never        *)
(* disagree": the flag is up exactly when the guest was written to.         *)
FlagMatchesMail == \A b \in Bookings : bill[b].failed <=> mail[b].failed > 0

(* amount_paid_cents is the gross: no step, a refund or a cancellation      *)
(* least of all, ever makes it smaller.                                     *)
GrossOnlyGrows == [][\A b \in Bookings : bill'[b].paid >= bill[b].paid]_vars

(* Ops.Refund: a manual refund "sends money back without cancelling         *)
(* anything": recording one leaves the status of the stay as it was.        *)
RefundLeavesStay ==
  [][\A b \in Bookings : RecordRefund(b) => status'[b] = status[b]]_vars

(* RecordCharge: "a cancelled booking cannot be revived by a late payment". *)
CancelledIsFinal ==
  [][\A b \in Bookings : status[b] = "cancelled" => status'[b] = "cancelled"]_vars

(* The rooms behave as Occupancy says they may, whatever the payments do.   *)
RoomsSpec == Rooms!Spec

(* A checkout does not stay pending: it is confirmed, cancelled or expired, *)
(* even when its guest never pays or the process keeps dying.               *)
PendingResolves == \A b \in Bookings : status[b] = "pending" ~> status[b] # "pending"

(* Money the processor took is money the ledger comes to know of, when the  *)
(* job that took it died before writing it down too.                        *)
Taken(b) == MapThenSumSet(LAMBDA r : r.amount, {r \in receipts : IntentOf(r.id).b = b})

ReceiptsReachLedger == \A b \in Bookings : Taken(b) > bill[b].paid ~> Taken(b) = bill[b].paid

(* What a cancellation message promised goes back, through lost answers and *)
(* crashes of the refund job.                                               *)
RefundsArrive ==
  \A b \in Bookings : mail[b].promised > SentBack(b) ~> mail[b].promised <= SentBack(b)

(* A stay whose balance is due drops out of the balance scan: it is paid,   *)
(* or the owner is told.                                                    *)
Due(b) == b \in {d.b : d \in DueForBalanceCharge}

BalanceSettles == \A b \in Bookings : Due(b) ~> ~Due(b)
=============================================================================
