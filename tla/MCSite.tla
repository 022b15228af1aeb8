-------------------------------- MODULE MCSite --------------------------------
(***************************************************************************)
(* The parts of the site that share no state, in one instance: `part' is   *)
(* the one that moves, and the others stay as they begin.                  *)
(***************************************************************************)
EXTENDS Content, SignIn, MCRates, Limiter, Reports, Push, Notices, TLC

CONSTANTS a1, a2, g1, g2

VARIABLE part

(* The dates of every stay.                                                *)
ChargeDays   == [s \in Stays |-> 2]
CheckoutDays == [s \in Stays |-> 3]

(* Requests, browsers and clients are taken from one set of two, and       *)
(* nothing tells them apart.                                               *)
Symmetry == Permutations({a1, a2})

Init ==
  /\ part \in {"content", "sign in", "rates", "limiter", "reports", "push", "notices"}
  /\ ContentInit /\ SignInInit /\ RatesInit /\ LimiterInit /\ ReportsInit /\ PushInit
  /\ NoticesInit

Next ==
  /\ UNCHANGED part
  /\ \/ part = "content" /\ ContentNext
        /\ UNCHANGED <<signInVars, ratesVars, limiterVars, reportVars, pushVars, noticeVars>>
     \/ part = "sign in" /\ SignInNext
        /\ UNCHANGED <<contentVars, ratesVars, limiterVars, reportVars, pushVars, noticeVars>>
     \/ part = "rates" /\ RatesNext
        /\ UNCHANGED <<contentVars, signInVars, limiterVars, reportVars, pushVars, noticeVars>>
     \/ part = "limiter" /\ LimiterNext
        /\ UNCHANGED <<contentVars, signInVars, ratesVars, reportVars, pushVars, noticeVars>>
     \/ part = "reports" /\ ReportsNext
        /\ UNCHANGED <<contentVars, signInVars, ratesVars, limiterVars, pushVars, noticeVars>>
     \/ part = "push" /\ PushNext
        /\ UNCHANGED <<contentVars, signInVars, ratesVars, limiterVars, reportVars, noticeVars>>
     \/ part = "notices" /\ NoticesNext
        /\ UNCHANGED <<contentVars, signInVars, ratesVars, limiterVars, reportVars, pushVars>>

allVars ==
  <<part, contentVars, signInVars, ratesVars, limiterVars, reportVars, pushVars, noticeVars>>

Spec == Init /\ [][Next]_allVars
=============================================================================
