------------------------------ MODULE MCPricing ------------------------------
(***************************************************************************)
(* One booking's money over bounded inputs: quoted, paid a cent at a time, *)
(* and what a cancellation on a day would return.                          *)
(***************************************************************************)
EXTENDS Pricing

CONSTANTS
  MaxNight,      \* bound: the dearest night
  MaxTaxRate,    \* bound: the highest tax rate
  MaxRetention,  \* bound: the highest refund_processing_rate
  MaxDays        \* bound: days until arrival

VARIABLES
  nightly, rate, \* what the quote is computed from
  paid,          \* amount_paid_cents
  retention,     \* settings.refund_processing_rate_scaled
  ahead          \* days from today to arrival

(* refund_processing_rate has a CHECK that it is below 1.                  *)
ASSUME BoundAssumption ==
  /\ MaxNight \in Nat /\ MaxTaxRate \in Nat /\ MaxDays \in Nat
  /\ MaxRetention \in 0..(RateScale - 1)

Quote == Compute(nightly, rate)

quoted == <<nightly, rate, paid, retention, ahead>>

QuoteInit ==
  /\ nightly \in [1..2 -> 0..MaxNight]
  /\ rate \in 0..MaxTaxRate
  /\ retention \in 0..MaxRetention
  /\ ahead = MaxDays
  /\ paid = 0

Pay ==
  /\ paid < Quote.total
  /\ paid' = paid + 1
  /\ UNCHANGED <<nightly, rate, retention, ahead>>

DayPasses ==
  /\ ahead > 0
  /\ ahead' = ahead - 1
  /\ UNCHANGED <<nightly, rate, paid, retention>>

QuoteNext == Pay \/ DayPasses

QuoteSpec == QuoteInit /\ [][QuoteNext]_quoted

-----------------------------------------------------------------------------
Back(p, days) == Refund(Quote, p, IsLateCancellation(0, days), retention)

(* Retained: "the inn is never short": what it keeps of a cancelled stay    *)
(* covers the processor's cut of what was collected, in cents, and never    *)
(* more than was collected.                                                 *)
InnNeverShort ==
  /\ Back(paid, ahead) \in 0..paid
  /\ RateScale * (paid - Back(paid, ahead)) >= paid * retention

(* A guest gains nothing by paying less before cancelling, nor by cancelling *)
(* later.                                                                    *)
RefundMonotone ==
  /\ paid > 0 => Back(paid - 1, ahead) <= Back(paid, ahead)
  /\ Back(paid, ahead) <= Back(paid, ahead + 1)

(* ShortNoticeDays is one more than BalanceLeadDays so that a balance put    *)
(* off at booking still has the day before its charge ahead of it, the day   *)
(* the guest is warned.                                                      *)
WarningStillAhead == ~IsShortNotice(0, ahead) => BalanceChargeDate(ahead) - 1 >= 0
=============================================================================
