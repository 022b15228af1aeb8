------------------------------- MODULE Pricing -------------------------------
(***************************************************************************)
(* The money and date arithmetic of internal/pricing: pure integer         *)
(* functions over cents and civil days.  The clock is an argument, as it   *)
(* is in the source.  The lead times and the scale of a rate are constants *)
(* of the source (7 days, 8 days, 100000); they are parameters here so     *)
(* that a small instance can bring the boundaries close together.          *)
(***************************************************************************)
EXTENDS Integers, Sequences, FiniteSetsExt, Functions

CONSTANTS
  BalanceLeadDays,   \* the balance is charged this many days before arrival
  ShortNoticeDays,   \* an arrival nearer than this is charged in full
  RateScale          \* a rate of RateScale is 100%

ASSUME LeadAssumption ==
  /\ BalanceLeadDays \in Nat
  /\ ShortNoticeDays \in Nat
  /\ BalanceLeadDays < ShortNoticeDays

ASSUME ScaleAssumption == RateScale \in Nat \ {0}

-----------------------------------------------------------------------------
(* Rounding.                                                               *)

tax(base, rate) == (base * rate + RateScale \div 2) \div RateScale

(* Mutant: rounded down.                                                   *)
floorScaled(base, rate) == (base * rate) \div RateScale

ceilScaled(base, rate) == (base * rate + RateScale - 1) \div RateScale

halfRoundedUp(n) == (n + 1) \div 2

(* A quote.  The balance is the remainder, never a second rounding.        *)
QuoteOf(total) ==
  [total |-> total,
   deposit |-> halfRoundedUp(total),
   balance |-> total - halfRoundedUp(total)]

Compute(nightly, rate) ==
  LET subtotal == SumFunction(nightly)
  IN  QuoteOf(subtotal + tax(subtotal, rate))

ChargeAtBooking(q, shortNotice) == IF shortNotice THEN q.total ELSE q.deposit

Penalty(q, late) == IF late THEN q.deposit ELSE 0

ProcessingFee(paid, rate) ==
  IF paid <= 0 \/ rate <= 0 THEN 0 ELSE ceilScaled(paid, rate)

(* The larger of the penalty and the fee, not their sum.                   *)
Retained(q, paid, late, rate) ==
  LET penalty == Penalty(q, late)
      fee     == ProcessingFee(paid, rate)
  IN  IF fee > penalty THEN fee ELSE penalty

(* Mutant: derived from the total, not from what was collected.            *)
RefundOfTotal(q, paid, late, rate) ==
  LET refund == q.total - Retained(q, paid, late, rate)
  IN  IF refund < 0 THEN 0 ELSE refund

Refund(q, paid, late, rate) ==
  LET refund == paid - Retained(q, paid, late, rate)
  IN  IF refund < 0 THEN 0 ELSE refund

-----------------------------------------------------------------------------
(* Civil days.                                                             *)

(* Mutant: a day too few.                                                  *)
ShortNoticeOffByOne(today, checkin) == checkin < today + ShortNoticeDays - 1

IsShortNotice(today, checkin) == checkin < today + ShortNoticeDays

IsLateCancellation(on, checkin) == checkin < on + BalanceLeadDays

BalanceChargeDate(checkin) == checkin - BalanceLeadDays
=============================================================================
