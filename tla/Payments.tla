------------------------------ MODULE Payments ------------------------------
(***************************************************************************)
(* internal/payments over the database and the card processor: opening a   *)
(* payment, the webhook, the balance job, the refund job and cancelling.   *)
(*                                                                         *)
(* Every handler is one READ COMMITTED transaction that begins by reading  *)
(* the booking without a lock.  Where the handler goes on to decide with   *)
(* what it read, it is two actions here: one that reads (the row read is   *)
(* kept as `found') and one that does all the writes, decided by what was  *)
(* found; anything may commit in between.  A handler that only uses the    *)
(* booking's id is one action.  The calls to the processor are outside the *)
(* transactions, so they are actions of their own.                         *)
(***************************************************************************)
EXTENDS Pricing, RefundPlan

CONSTANTS
  Bookings, Requests, Blockable, NoRequest,   \* as in Occupancy
  RefundRate,      \* settings.refund_processing_rate_scaled
  MaxDay,          \* bound: the last civil day of the instance
  MaxOpens,        \* bound: how often the pay page is opened for one booking
  MaxInFlight,     \* bound: RecordCharge transactions open at once
  MaxCancels,      \* bound: cancellations of one booking, begun or done
  Exercised        \* bound: the optional operations this instance exercises

VARIABLES
  today,                         \* the civil day at the inn
  status, stay, occ, blocks,     \* bookings.status and room_occupancy
  bill,        \* the money columns of a booking row
  ledger,      \* payments, by booking, in the order written
  seen,        \* stripe_events
  refundJob,   \* the payload of the queued payment.refund job of a booking
  mail,        \* messages queued to the guest, by template
  intents, receipts, declines, returned,      \* the processor
  opening,     \* payments opened at the processor, StartPayment still to run
  charging,    \* RecordCharge transactions that have read their booking
  cancelling,  \* Cancel transactions that have read their booking
  balance,     \* the balance.charge job: what the scan found, what it records next
  refunding,   \* the payment.refund job of a booking: the parts still to send
  sweeping,    \* the hold.sweep job is between its two statements
  opens        \* how often the pay page was opened (for MaxOpens)

rooms   == <<status, stay, occ, blocks>>
money   == <<bill, ledger, seen, refundJob, mail>>
stripe  == <<intents, receipts, declines, returned>>
flight  == <<opening, charging, cancelling, balance, refunding, sweeping>>
vars    == <<today, rooms, money, stripe, flight, opens>>

Rooms == INSTANCE Occupancy

Optional == {"refund", "moto", "manual", "block", "decline", "partial", "cardless", "crash"}

ASSUME BoundAssumption ==
  /\ MaxDay \in Nat /\ MaxOpens \in Nat /\ MaxInFlight \in Nat \ {0}
  /\ MaxCancels \in Nat
  /\ RefundRate \in Nat
  /\ Exercised \subseteq Optional

ASSUME RequestAssumption ==
  \A r \in Requests : /\ r.total \in Nat \ {0}
                      /\ r.checkin \in Int /\ r.checkout \in Int /\ r.checkin < r.checkout

NoJob  == -1
NoCall == [type |-> "none"]
Idle   == [on |-> FALSE, todo |-> <<>>, sent |-> FALSE]

NewBill == [paid |-> 0, scheduled |-> FALSE, started |-> "never",
            card |-> FALSE, failed |-> FALSE, manual |-> FALSE]

NoMail == [confirmation |-> 0, receipt |-> 0, failed |-> 0, cancellation |-> 0, promised |-> 0]

-----------------------------------------------------------------------------
(* The processor.  An intent is named by the idempotency key it was made   *)
(* with, so asking again with the same key finds the same intent; a refund *)
(* likewise.  A decline is an attempt that failed: the intent stays open.  *)

IntentKey(via, b, amount) == <<via, b, amount>>
BalanceKey(b)             == <<"balance", b, 0>>
RefundKey(id, amount)     == <<"refund", id, amount>>

Received(id) == {r \in receipts : r.id = id}
IntentOf(id) == CHOOSE i \in intents : i.id = id
Known(id)    == \E i \in intents : i.id = id

CreateIntent(i) ==
  intents' = IF Known(i.id) THEN intents ELSE intents \union {i}

(* The guest, or the owner with the card read out, completes the payment;  *)
(* what arrives may be less than what was asked for.                       *)
CompletePayment(i, amount) ==
  /\ i \in intents /\ i.id # BalanceKey(i.b)
  /\ Received(i.id) = {}
  /\ amount = i.amount \/ "partial" \in Exercised
  /\ receipts' = receipts \union {[id |-> i.id, amount |-> amount]}
  /\ UNCHANGED <<today, rooms, money, intents, declines, returned, flight, opens>>

DeclinePayment(i) ==
  /\ "decline" \in Exercised
  /\ i \in intents /\ i.id # BalanceKey(i.b)
  /\ Received(i.id) = {}
  /\ declines' = declines \union {i.id}
  /\ UNCHANGED <<today, rooms, money, intents, receipts, returned, flight, opens>>

(* A refund is accepted while the intent has that much left.               *)
RefundAccepted(part) ==
  \/ [id |-> part.id, amount |-> part.amount] \in returned
  \/ \E r \in Received(part.id) :
       r.amount >= part.amount
                     + SumSet({x.amount : x \in {y \in returned : y.id = part.id}})

-----------------------------------------------------------------------------
(* Statements shared by the handlers.                                      *)

Quote(b) == QuoteOf(stay[b].total)

Found(b) == [status |-> status[b], paid |-> bill[b].paid]

Recorded(b, id, st) == \E n \in DOMAIN ledger[b] : ledger[b][n].id = id /\ ledger[b][n].status = st

RecordPayment(b, id, kind, amount, st) ==
  ledger' = [ledger EXCEPT ![b] =
               Append(@, [id |-> id, kind |-> kind, amount |-> amount, status |-> st])]

(* ON CONFLICT DO NOTHING on the key payment.refund:<code>.                *)
QueueRefund(b, amount) ==
  refundJob' = [refundJob EXCEPT ![b] = IF @ = NoJob THEN amount ELSE @]

Send(b, template) == mail' = [mail EXCEPT ![b][template] = @ + 1]

CancellationMail(b, refunded) ==
  mail' = [mail EXCEPT ![b].cancellation = @ + 1, ![b].promised = refunded]

(* Mutant: the room is not put back on sale.                               *)
CancelOnly(b) ==
  /\ status' = [status EXCEPT ![b] = "cancelled"]
  /\ UNCHANGED <<occ, stay, blocks>>

(* ReleaseBookingOccupancy, then CancelBooking.                            *)
ReleaseAndCancel(b) ==
  /\ occ' = [occ EXCEPT ![b] = "none"]
  /\ status' = [status EXCEPT ![b] = "cancelled"]
  /\ UNCHANGED <<stay, blocks>>

-----------------------------------------------------------------------------
(* Opening a payment.                                                      *)

Payable(b) ==
  \/ status[b] = "pending"
  \/ status[b] = "confirmed" /\ ~bill[b].scheduled

Outstanding(b) == ChargeAtBooking(Quote(b), ~bill[b].scheduled) - bill[b].paid

PaymentKind(b) ==
  IF status[b] = "confirmed" THEN "balance"
  ELSE IF bill[b].scheduled THEN "deposit" ELSE "full"

Open(b, via) ==
  /\ via = "moto" => "moto" \in Exercised
  /\ opens[b] < MaxOpens
  /\ Payable(b)
  /\ Outstanding(b) > 0
  /\ LET id == IntentKey(via, b, Outstanding(b))
     IN  /\ CreateIntent([id |-> id, b |-> b, kind |-> PaymentKind(b),
                          amount |-> Outstanding(b), card |-> bill[b].scheduled])
         /\ opening' = opening \union {b}
  /\ opens' = [opens EXCEPT ![b] = @ + 1]
  /\ UNCHANGED <<today, rooms, money, receipts, declines, returned,
                 charging, cancelling, balance, refunding, sweeping>>

StartPayment(b) ==
  /\ b \in opening
  /\ opening' = opening \ {b}
  /\ bill' = [bill EXCEPT ![b].started = "recent"]
  /\ UNCHANGED <<today, rooms, ledger, seen, refundJob, mail, stripe,
                 charging, cancelling, balance, refunding, sweeping, opens>>

-----------------------------------------------------------------------------
(* Recording a charge.  A charge comes from a delivery of the processor's  *)
(* event, made again for as long as anyone likes, or from the balance job. *)

ChargeOf(i, amount, card, delivered) ==
  [id |-> i.id, b |-> i.b, kind |-> i.kind, amount |-> amount,
   card |-> card, event |-> delivered]

ReadForCharge(in) ==
  /\ Cardinality(charging) < MaxInFlight
  /\ charging' = charging \union {[in |-> in, found |-> Found(in.b)]}

(* Mutant: the event is noted in a transaction of its own, ahead of the work. *)
DeliverSeenFirst(r, named) ==
  /\ r \in receipts
  /\ ~named => "cardless" \in Exercised
  /\ ReadForCharge(ChargeOf(IntentOf(r.id), r.amount, IntentOf(r.id).card /\ named, TRUE))
  /\ seen' = seen \union {<<"succeeded", r.id>>}
  /\ UNCHANGED <<today, rooms, bill, ledger, refundJob, mail, stripe, opening, cancelling, balance, refunding, sweeping, opens>>

(* Mutant: the amount asked for is recorded, not the amount received.      *)
DeliverAskedFor(r, named) ==
  /\ r \in receipts
  /\ ~named => "cardless" \in Exercised
  /\ LET i == IntentOf(r.id)
     IN  ReadForCharge(ChargeOf(i, i.amount, i.card /\ named, TRUE))
  /\ UNCHANGED <<today, rooms, money, stripe, opening, cancelling, balance, refunding, sweeping, opens>>

(* The event names the card of an intent opened to keep it, or names none. *)
DeliverSucceeded(r, named) ==
  /\ r \in receipts
  /\ ~named => "cardless" \in Exercised
  /\ ReadForCharge(ChargeOf(IntentOf(r.id), r.amount, IntentOf(r.id).card /\ named, TRUE))
  /\ UNCHANGED <<today, rooms, money, stripe, opening, cancelling, balance, refunding, sweeping, opens>>

Finish(t) ==
  /\ t \in charging
  /\ charging' = charging \ {t}
  /\ seen' = IF t.in.event THEN seen \union {<<"succeeded", t.in.id>>} ELSE seen
  /\ UNCHANGED <<today, stripe, opening, cancelling, balance, refunding, sweeping, opens>>

(* Mutant: the ledger is not asked.                                        *)
AppliedByEvent(t) == t.in.event /\ <<"succeeded", t.in.id>> \in seen

(* The event is known, or the ledger has this payment.                     *)
Applied(t) ==
  \/ t.in.event /\ <<"succeeded", t.in.id>> \in seen
  \/ Recorded(t.in.b, t.in.id, "succeeded")

ChargeAlreadyApplied(t) ==
  /\ Finish(t)
  /\ Applied(t)
  /\ UNCHANGED <<rooms, bill, ledger, refundJob, mail>>

(* Mutant: the gross grows by what was asked for.                          *)
TakeAskedFor(t) ==
  LET b == t.in.b
  IN  /\ RecordPayment(b, t.in.id, t.in.kind, t.in.amount, "succeeded")
      /\ bill' = [bill EXCEPT ![b].paid = @ + IntentOf(t.in.id).amount,
                              ![b].card = @ \/ t.in.card]

(* The money is written down whatever happens to the room.                 *)
TakeMoney(t) ==
  LET b == t.in.b
  IN  /\ RecordPayment(b, t.in.id, t.in.kind, t.in.amount, "succeeded")
      /\ bill' = [bill EXCEPT ![b].paid = @ + t.in.amount,
                              ![b].card = @ \/ t.in.card]

(* Mutant: any payment confirms.                                           *)
NoShortfall(t) == 0

Shortfall(t) ==
  LET due == ChargeAtBooking(Quote(t.in.b), ~bill[t.in.b].scheduled)
  IN  IF t.found.paid + t.in.amount < due THEN due - (t.found.paid + t.in.amount) ELSE 0

ChargeUnderpaid(t) ==
  /\ Finish(t)
  /\ ~Applied(t)
  /\ Shortfall(t) > 0
  /\ TakeMoney(t)
  /\ UNCHANGED <<rooms, refundJob, mail>>

(* secureRoom: the hold is promoted, or the booking still has its row, or  *)
(* the room is taken again and the exclusion constraint lets it.           *)
Secured(b) == occ[b] # "none" \/ Rooms!Free(stay[b], stay, occ, blocks)

(* Mutant: every charge that lands sends a confirmation.                   *)
ConfirmAlwaysMailing(t) ==
  /\ Finish(t)
  /\ ~Applied(t)
  /\ Shortfall(t) = 0
  /\ Secured(t.in.b) /\ t.found.status # "cancelled"
  /\ TakeMoney(t)
  /\ occ' = [occ EXCEPT ![t.in.b] = "booking"]
  /\ status' = [status EXCEPT ![t.in.b] = "confirmed"]
  /\ Send(t.in.b, "confirmation")
  /\ UNCHANGED <<stay, blocks, refundJob>>

ConfirmCharge(t) ==
  /\ Finish(t)
  /\ ~Applied(t)
  /\ Shortfall(t) = 0
  /\ Secured(t.in.b) /\ t.found.status # "cancelled"
  /\ TakeMoney(t)
  /\ occ' = [occ EXCEPT ![t.in.b] = "booking"]
  /\ status' = [status EXCEPT ![t.in.b] = "confirmed"]
  /\ IF t.found.status # "confirmed" THEN Send(t.in.b, "confirmation")
     ELSE IF t.in.kind = "balance" THEN Send(t.in.b, "receipt")
     ELSE UNCHANGED mail
  /\ UNCHANGED <<stay, blocks, refundJob>>

(* Mutant: the guest is told, and no refund is queued.                     *)
RefundDueUnqueued(t) ==
  /\ Finish(t)
  /\ ~Applied(t)
  /\ Shortfall(t) = 0
  /\ ~Secured(t.in.b) \/ t.found.status = "cancelled"
  /\ TakeMoney(t)
  /\ ReleaseAndCancel(t.in.b)
  /\ CancellationMail(t.in.b, t.found.paid + t.in.amount)
  /\ UNCHANGED refundJob

RefundDue(t) ==
  /\ Finish(t)
  /\ ~Applied(t)
  /\ Shortfall(t) = 0
  /\ ~Secured(t.in.b) \/ t.found.status = "cancelled"
  /\ TakeMoney(t)
  /\ ReleaseAndCancel(t.in.b)
  /\ QueueRefund(t.in.b, 0)
  /\ CancellationMail(t.in.b, t.found.paid + t.in.amount)

RecordCharge(t) ==
  ChargeAlreadyApplied(t) \/ ChargeUnderpaid(t) \/ ConfirmCharge(t) \/ RefundDue(t)

-----------------------------------------------------------------------------
(* Recording a decline.  The status is left alone.                         *)

(* Mutant: a declined deposit raises the flag too.                         *)
FailureAlwaysFlags(b, id, kind, amount) ==
  IF Recorded(b, id, "failed") THEN UNCHANGED <<bill, ledger, mail>>
  ELSE /\ RecordPayment(b, id, kind, amount, "failed")
       /\ bill' = [bill EXCEPT ![b].failed = TRUE]
       /\ IF kind = "balance" THEN Send(b, "failed") ELSE UNCHANGED mail

RecordFailure(b, id, kind, amount) ==
  IF Recorded(b, id, "failed") THEN UNCHANGED <<bill, ledger, mail>>
  ELSE /\ RecordPayment(b, id, kind, amount, "failed")
       /\ IF kind = "balance"
          THEN bill' = [bill EXCEPT ![b].failed = TRUE] /\ Send(b, "failed")
          ELSE UNCHANGED <<bill, mail>>

DeliverFailed(id) ==
  /\ id \in declines
  /\ seen' = seen \union {<<"failed", id>>}
  /\ IF <<"failed", id>> \in seen THEN UNCHANGED <<bill, ledger, mail>>
     ELSE LET i == IntentOf(id) IN RecordFailure(i.b, id, i.kind, i.amount)
  /\ UNCHANGED <<today, rooms, refundJob, stripe, flight, opens>>

-----------------------------------------------------------------------------
(* The balance job: a scan, then for each stay found the processor is      *)
(* asked and the answer recorded, each in a transaction of its own.        *)

DueForBalanceCharge ==
  {[b |-> b, amount |-> stay[b].total - bill[b].paid, card |-> bill[b].card] :
     b \in {c \in Bookings :
              /\ status[c] = "confirmed"
              /\ bill[c].scheduled
              /\ BalanceChargeDate(stay[c].checkin) <= today
              /\ bill[c].paid < stay[c].total
              /\ ~bill[c].failed}}

JobIsRecording == balance.call # NoCall \/ \E t \in charging : ~t.in.event

ChargeBalances ==
  /\ balance.todo = {} /\ ~JobIsRecording
  /\ DueForBalanceCharge # {}
  /\ balance' = [balance EXCEPT !.todo = DueForBalanceCharge]
  /\ UNCHANGED <<today, rooms, money, stripe, opening, charging, cancelling, refunding, sweeping, opens>>

NextDue(d) ==
  /\ ~JobIsRecording
  /\ d \in balance.todo

(* Mutant: a stay without a card is passed over.                           *)
SkipUncollectable(d) ==
  /\ NextDue(d) /\ ~d.card
  /\ balance' = [balance EXCEPT !.todo = @ \ {d}]
  /\ UNCHANGED <<today, rooms, money, stripe, opening, charging, cancelling,
                 refunding, sweeping, opens>>

FlagUncollectable(d) ==
  /\ NextDue(d) /\ ~d.card
  /\ balance' = [balance EXCEPT !.todo = @ \ {d}]
  /\ bill' = [bill EXCEPT ![d.b].failed = TRUE]
  /\ Send(d.b, "failed")
  /\ UNCHANGED <<today, rooms, ledger, seen, refundJob, stripe,
                 opening, charging, cancelling, refunding, sweeping, opens>>

(* The call the job makes next on an answer it heard.                      *)
Calls(d, answer) ==
  balance' = [todo |-> balance.todo \ {d}, call |-> answer]

BalanceIntent(d) ==
  [id |-> BalanceKey(d.b), b |-> d.b, kind |-> "balance", amount |-> d.amount, card |-> TRUE]

Succeeded(d) == [type |-> "charge", b |-> d.b, id |-> BalanceKey(d.b), amount |-> d.amount]
Refused(d, id) == [type |-> "failure", b |-> d.b, id |-> id, amount |-> d.amount]

(* The processor takes the money, or made that charge already; the job may *)
(* not hear of it.  Reusing the key with another amount is an error.       *)
ChargeOffSession(d) ==
  /\ NextDue(d) /\ d.card
  /\ LET id == BalanceKey(d.b)
     IN  IF ~Known(id)
         THEN /\ intents' = intents \union {BalanceIntent(d)}
              /\ receipts' = receipts \union {[id |-> id, amount |-> d.amount]}
              /\ Calls(d, Succeeded(d)) \/ Calls(d, NoCall)
         ELSE /\ Calls(d, IF IntentOf(id).amount = d.amount /\ Received(id) # {}
                          THEN Succeeded(d) ELSE NoCall)
              /\ UNCHANGED <<intents, receipts>>
  /\ UNCHANGED <<today, rooms, money, declines, returned, opening, charging,
                 cancelling, refunding, sweeping, opens>>

(* The card is refused, with or without the attempt named.                 *)
OffSessionDeclined(d) ==
  /\ "decline" \in Exercised
  /\ NextDue(d) /\ d.card
  /\ LET id == BalanceKey(d.b)
     IN  \/ /\ ~Known(id)
            /\ intents' = intents \union {BalanceIntent(d)}
            /\ declines' = declines \union {id}
            /\ Calls(d, Refused(d, id)) \/ Calls(d, Refused(d, <<"declined", d.b, 0>>))
         \/ /\ id \in declines /\ IntentOf(id).amount = d.amount
            /\ Calls(d, Refused(d, id))
            /\ UNCHANGED <<intents, declines>>
  /\ UNCHANGED <<today, rooms, money, receipts, returned, opening, charging,
                 cancelling, refunding, sweeping, opens>>

RecordBalance ==
  /\ balance.call.type = "charge"
  /\ ReadForCharge(ChargeOf(IntentOf(balance.call.id), balance.call.amount, FALSE, FALSE))
  /\ balance' = [balance EXCEPT !.call = NoCall]
  /\ UNCHANGED <<today, rooms, money, stripe, opening, cancelling, refunding, sweeping, opens>>

RecordBalanceFailure ==
  /\ balance.call.type = "failure"
  /\ RecordFailure(balance.call.b, balance.call.id, "balance", balance.call.amount)
  /\ balance' = [balance EXCEPT !.call = NoCall]
  /\ UNCHANGED <<today, rooms, seen, refundJob, stripe, opening, charging,
                 cancelling, refunding, sweeping, opens>>

-----------------------------------------------------------------------------
(* Cancelling a confirmed stay, from the guest's link or the console.      *)

ReadForCancel(b) ==
  /\ Cardinality({c \in cancelling : c.b = b}) + mail[b].cancellation < MaxCancels
  /\ status[b] = "confirmed"
  /\ today < stay[b].checkin
  /\ cancelling' = cancelling \union {[b |-> b, on |-> today, found |-> Found(b)]}
  /\ UNCHANGED <<today, rooms, money, stripe, opening, charging, balance, refunding, sweeping, opens>>

Cancel(c) ==
  LET late   == IsLateCancellation(c.on, stay[c.b].checkin)
      refund == Refund(Quote(c.b), c.found.paid, late, RefundRate)
  IN  /\ c \in cancelling
      /\ cancelling' = cancelling \ {c}
      /\ ReleaseAndCancel(c.b)
      /\ IF refund > 0 THEN QueueRefund(c.b, refund) ELSE UNCHANGED refundJob
      /\ CancellationMail(c.b, refund)
      /\ UNCHANGED <<today, bill, ledger, seen, stripe, opening, charging,
                     balance, refunding, sweeping, opens>>

-----------------------------------------------------------------------------
(* The refund job: read the ledger, then for each part ask the processor   *)
(* and record the refund.  The job's row is deleted when all are done, and *)
(* stays when a part is refused.                                           *)

(* Mutant: a target of zero is taken to mean nothing.                      *)
StartRefundLiterally(b) ==
  /\ refundJob[b] # NoJob /\ ~refunding[b].on
  /\ refunding' = [refunding EXCEPT ![b] =
                     [on |-> TRUE, sent |-> FALSE,
                      todo |-> IF refundJob[b] = 0 THEN <<>>
                               ELSE Allocate(ledger[b], refundJob[b])]]
  /\ UNCHANGED <<today, rooms, money, stripe, opening, charging, cancelling, balance, sweeping, opens>>

StartRefund(b) ==
  /\ refundJob[b] # NoJob /\ ~refunding[b].on
  /\ refunding' = [refunding EXCEPT ![b] =
                     [on |-> TRUE, todo |-> Allocate(ledger[b], refundJob[b]), sent |-> FALSE]]
  /\ UNCHANGED <<today, rooms, money, stripe, opening, charging, cancelling, balance, sweeping, opens>>

NextPart(b) ==
  /\ refunding[b].on /\ refunding[b].todo # <<>> /\ ~refunding[b].sent

GiveUp(b) == refunding' = [refunding EXCEPT ![b] = Idle]

SendRefund(b) ==
  /\ NextPart(b)
  /\ LET part == Head(refunding[b].todo)
     IN  IF RefundAccepted(part)
         THEN /\ returned' = returned \union {[id |-> part.id, amount |-> part.amount]}
              /\ refunding' = [refunding EXCEPT ![b].sent = TRUE]
         ELSE GiveUp(b) /\ UNCHANGED returned
  /\ UNCHANGED <<today, rooms, money, intents, receipts, declines,
                 opening, charging, cancelling, balance, sweeping, opens>>

(* The processor sends the money and the answer is lost.                   *)
SendRefundUnheard(b) ==
  /\ NextPart(b)
  /\ LET part == Head(refunding[b].todo)
     IN  /\ RefundAccepted(part)
         /\ returned' = returned \union {[id |-> part.id, amount |-> part.amount]}
  /\ GiveUp(b)
  /\ UNCHANGED <<today, rooms, money, intents, receipts, declines,
                 opening, charging, cancelling, balance, sweeping, opens>>

(* Mutant: a refund is taken off the gross.                                *)
SubtractRefund(b) ==
  /\ refunding[b].sent
  /\ LET part == Head(refunding[b].todo)
         id   == RefundKey(part.id, part.amount)
     IN  IF Recorded(b, id, "succeeded") THEN UNCHANGED <<rooms, bill, ledger>>
         ELSE /\ RecordPayment(b, id, "refund", part.amount, "succeeded")
              /\ ReleaseAndCancel(b)
              /\ bill' = [bill EXCEPT ![b].paid = @ - part.amount]
  /\ refunding' = [refunding EXCEPT ![b].todo = Tail(@), ![b].sent = FALSE]
  /\ UNCHANGED <<today, seen, refundJob, mail, stripe,
                 opening, charging, cancelling, balance, sweeping, opens>>

RecordRefund(b) ==
  /\ refunding[b].sent
  /\ LET part == Head(refunding[b].todo)
         id   == RefundKey(part.id, part.amount)
     IN  IF Recorded(b, id, "succeeded") THEN UNCHANGED <<rooms, ledger>>
         ELSE /\ RecordPayment(b, id, "refund", part.amount, "succeeded")
              /\ ReleaseAndCancel(b)
  /\ refunding' = [refunding EXCEPT ![b].todo = Tail(@), ![b].sent = FALSE]
  /\ UNCHANGED <<today, bill, seen, refundJob, mail, stripe,
                 opening, charging, cancelling, balance, sweeping, opens>>

FinishRefund(b) ==
  /\ refunding[b].on /\ refunding[b].todo = <<>>
  /\ refunding' = [refunding EXCEPT ![b] = Idle]
  /\ refundJob' = [refundJob EXCEPT ![b] = NoJob]
  /\ UNCHANGED <<today, rooms, bill, ledger, seen, mail, stripe,
                 opening, charging, cancelling, balance, sweeping, opens>>
=============================================================================
