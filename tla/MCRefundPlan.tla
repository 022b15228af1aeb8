---------------------------- MODULE MCRefundPlan ----------------------------
(***************************************************************************)
(* The refund job over one ledger, tried again after every part it records: *)
(* charges and declines land before it is asked for and while it runs.     *)
(***************************************************************************)
EXTENDS RefundPlan

CONSTANTS
  MaxAmount,    \* bound: the largest charge
  MaxRows       \* bound: charges and declines in the ledger

VARIABLES
  rows,         \* the ledger
  target        \* what the queued job was asked to return; -1 before

Unasked == -1

planned == <<rows, target>>

PlanInit == rows = <<>> /\ target = Unasked

Entered == Cardinality({i \in DOMAIN rows : rows[i].kind # "refund"})

Collect(amount, st) ==
  /\ Entered < MaxRows
  /\ rows' = Append(rows, [id |-> <<"charge", Entered + 1>>, kind |-> "deposit", amount |-> amount, status |-> st])
  /\ UNCHANGED target

Ask(amount) ==
  /\ target = Unasked
  /\ amount <= Charged(rows)
  /\ target' = amount
  /\ UNCHANGED rows

(* One part is sent and recorded; the next try plans anew.                 *)
ReturnPart ==
  /\ target # Unasked
  /\ Allocate(rows, target) # <<>>
  /\ LET part == Head(Allocate(rows, target))
     IN  rows' = Append(rows, [id |-> <<"refund", part.id[2]>>, kind |-> "refund",
                               amount |-> part.amount, status |-> "succeeded"])
  /\ UNCHANGED target

PlanNext ==
  \/ \E amount \in 1..MaxAmount, st \in {"succeeded", "failed"} : Collect(amount, st)
  \/ \E amount \in 0..Charged(rows) : Ask(amount)
  \/ ReturnPart

-----------------------------------------------------------------------------
Goal == IF target = 0 THEN Charged(rows) ELSE target

(* Refund: "a retry computes the same division": whatever was recorded when *)
(* the job died, what is planned next is exactly what is still owed, and no *)
(* payment is asked to return more than it took.                            *)
Returned(i) ==
  Amounts(AtIndices(rows, {j \in DOMAIN rows : rows[j].id = <<"refund", rows[i].id[2]>>}))

RestIsOwed ==
  target # Unasked =>
    /\ Refunded(rows) + Amounts(Allocate(rows, target)) = Goal
    /\ \A i \in DOMAIN rows : rows[i].kind # "refund" => Returned(i) <= rows[i].amount

(* The loops of ledger.allocate, by what they leave after each element.    *)
FillOne(was, c) ==
  LET part == IF c.amount > was.remaining THEN was.remaining ELSE c.amount
  IN  IF was.remaining <= 0 THEN was
      ELSE [remaining |-> was.remaining - part,
            parts |-> Append(was.parts, [id |-> c.id, amount |-> part])]

Filling(charges, goal) ==
  LET after[n \in 0..Len(charges)] ==
        IF n = 0 THEN [remaining |-> goal, parts |-> <<>>] ELSE FillOne(after[n - 1], charges[n])
  IN  after

Fill(charges, goal) == Filling(charges, goal)[Len(charges)].parts

StrikeOne(was, part) ==
  LET hit == {i \in DOMAIN was.done : was.done[i].amount = part.amount}
  IN  IF hit = {} THEN [was EXCEPT !.out = Append(@, part)]
      ELSE [was EXCEPT !.done = RemoveAt(@, Min(hit))]

Striking(parts, recorded) ==
  LET after[n \in 0..Len(parts)] ==
        IF n = 0 THEN [done |-> recorded, out |-> <<>>] ELSE StrikeOne(after[n - 1], parts[n])
  IN  after

Strike(parts, recorded) == Striking(parts, recorded)[Len(parts)].out

(* Allocate, stated by counting, is what those loops compute, for any       *)
(* target and not only the one asked for.                                   *)
AllocateIsTheLoop ==
  \A t \in 0..Charged(rows) :
    Allocate(rows, t) =
      Strike(Fill(ChargeRows(rows), IF t = 0 THEN Charged(rows) ELSE t),
             RefundRows(rows))
=============================================================================
