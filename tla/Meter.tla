--------------------------------- MODULE Meter ---------------------------------
(***************************************************************************)
(* What the rate limiter of internal/httpx/ratelimit.go promises each      *)
(* caller, whatever it keeps in memory and whatever it forgets: one        *)
(* request per interval, of which up to a burst can be saved.              *)
(*                                                                         *)
(* due[k] is the time at which k's allowance is whole again, or 0 when it  *)
(* is whole already; each request granted puts it off by an interval.      *)
(***************************************************************************)
EXTENDS Integers

CONSTANTS
  Keys,       \* callers
  Interval,   \* how long one token takes to refill
  Burst       \* how many can be saved

VARIABLES now, due, answer

meterVars == <<now, due, answer>>

MeterInit == now = 0 /\ due = [k \in Keys |-> 0] /\ answer = <<>>

InTime(k) == due[k] <= now + (Burst - 1) * Interval

Grant(k) ==
  /\ InTime(k)
  /\ answer' = <<k, TRUE>>
  /\ \E later \in (now + 1)..(now + Interval) :
       due' = [due EXCEPT ![k] = IF due[k] > now THEN due[k] + Interval ELSE later]
  /\ UNCHANGED now

Refuse(k) ==
  /\ ~InTime(k)
  /\ answer' = <<k, FALSE>>
  /\ UNCHANGED <<now, due>>

Elapse ==
  /\ now' = now + 1
  /\ due' = [k \in Keys |-> IF due[k] > now + 1 THEN due[k] ELSE 0]
  /\ UNCHANGED answer

MeterNext == (\E k \in Keys : Grant(k) \/ Refuse(k)) \/ Elapse

MeterSpec == MeterInit /\ [][MeterNext]_meterVars
=============================================================================
