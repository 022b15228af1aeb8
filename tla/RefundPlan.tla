----------------------------- MODULE RefundPlan -----------------------------
(***************************************************************************)
(* The payments ledger of one booking and how a refund is divided over it: *)
(* ledger.allocate of internal/payments/refund.go.  A ledger is a sequence *)
(* of rows [id, kind, amount, status] in the order they were written.      *)
(***************************************************************************)
EXTENDS Integers, Sequences, FiniteSets, SequencesExt, FiniteSetsExt

AmountAt(s) == [i \in DOMAIN s |-> s[i].amount]
Amounts(s)  == SumFunction(AmountAt(s))

(* The rows of s whose index is in keep, in order.                         *)
AtIndices(s, keep) ==
  LET place(i) == Cardinality({j \in keep : j <= i})
  IN  [n \in 1..Cardinality(keep) |-> s[CHOOSE i \in keep : place(i) = n]]

(* What has been taken, and what has gone back.                            *)
Charges(rows) == {i \in DOMAIN rows : rows[i].status = "succeeded" /\ rows[i].kind # "refund"}
Refunds(rows) == {i \in DOMAIN rows : rows[i].status = "succeeded" /\ rows[i].kind = "refund"}

ChargeRows(rows) == AtIndices(rows, Charges(rows))
RefundRows(rows) == AtIndices(rows, Refunds(rows))

Charged(rows)  == SumFunctionOnSet(AmountAt(rows), Charges(rows))
Refunded(rows) == SumFunctionOnSet(AmountAt(rows), Refunds(rows))

(* Mutant: a charge is asked for when the target is already met.           *)
PartsPastGoal(charges, target) ==
  LET goal == IF target <= 0 THEN Amounts(charges) ELSE target
      before(i) == Amounts(SubSeq(charges, 1, i - 1))
      part(i) == [id |-> charges[i].id,
                  amount |-> IF charges[i].amount > goal - before(i)
                             THEN goal - before(i) ELSE charges[i].amount]
  IN  [i \in 1..Cardinality({j \in DOMAIN charges : before(j) <= goal}) |-> part(i)]

(* The charges filled in ledger order until the target is met; a target of *)
(* zero is everything.                                                     *)
Parts(charges, target) ==
  LET goal == IF target <= 0 THEN Amounts(charges) ELSE target
      before(i) == Amounts(SubSeq(charges, 1, i - 1))
      part(i) == [id |-> charges[i].id,
                  amount |-> IF charges[i].amount > goal - before(i)
                             THEN goal - before(i) ELSE charges[i].amount]
  IN  [i \in 1..Cardinality({j \in DOMAIN charges : before(j) < goal}) |-> part(i)]

(* Mutant: one record strikes every part of its amount.                    *)
AllocateStrikingTwice(rows, target) ==
  LET parts   == Parts(ChargeRows(rows), target)
      refunds == RefundRows(rows)
      done(i) == \E n \in DOMAIN refunds : refunds[n].amount = parts[i].amount
  IN  AtIndices(parts, {i \in DOMAIN parts : ~done(i)})

(* A part is dropped when a refund of its amount is recorded and no earlier *)
(* part has used that record up.                                           *)
Allocate(rows, target) ==
  LET parts    == Parts(ChargeRows(rows), target)
      refunds  == RefundRows(rows)
      same(s, n, amount) == Cardinality({i \in 1..n : s[i].amount = amount})
      done(i)  == same(parts, i - 1, parts[i].amount)
                    < same(refunds, Len(refunds), parts[i].amount)
  IN  AtIndices(parts, {i \in DOMAIN parts : ~done(i)})
=============================================================================
