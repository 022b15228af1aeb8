-------------------------------- MODULE Notices --------------------------------
(***************************************************************************)
(* The two scans that write to guests: the warning sent the day before the *)
(* balance is charged (internal/payments/balance.go), which catches up,    *)
(* and the note of the departure morning (internal/booking/checkout.go),   *)
(* which does not.  Each reads whom to write to, then takes the stays one  *)
(* transaction at a time, while payments, refusals and cancellations land. *)
(***************************************************************************)
EXTENDS Integers

CONSTANTS
  Stays,            \* confirmed bookings with a balance ahead
  Broken,           \* those whose transaction always fails
  Workers,          \* job runners
  balanceChargeAt, checkout,   \* the dates of a stay
  warningLeadDays,
  LastDay,         \* bound: the last day
  MaxMishaps        \* bound: crashes, and scans started while one still runs

VARIABLES
  today,
  stays,            \* stay -> [status, balance, warned, reminded]
  letters,          \* history: kind -> stay -> messages queued
  scans,            \* worker -> [kind, due, todo]
  mishaps, overlaps \* how many so far

noticeVars == <<today, stays, letters, scans, mishaps, overlaps>>

ASSUME NoticeAssumption ==
  /\ Broken \subseteq Stays /\ warningLeadDays \in Nat
  /\ \A s \in Stays : balanceChargeAt[s] \in Nat /\ checkout[s] \in Nat

Warning  == "balance.warn"
Reminder == "checkout.remind"
Resting  == [kind |-> "none", due |-> {}, todo |-> {}]

NoticesInit ==
  /\ today = 1
  /\ stays = [s \in Stays |-> [status |-> "confirmed", balance |-> "owed",
                               warned |-> FALSE, reminded |-> FALSE]]
  /\ letters = [kind \in {Warning, Reminder} |-> [s \in Stays |-> 0]]
  /\ scans = [w \in Workers |-> Resting]
  /\ mishaps = 0 /\ overlaps = [kind \in {Warning, Reminder} |-> 0]

-----------------------------------------------------------------------------
(* Who is owed a letter.                                                   *)

ListBookingsToWarnAboutBalance(day) ==
  {s \in Stays : /\ stays[s].status = "confirmed" /\ stays[s].balance = "owed"
                 /\ balanceChargeAt[s] <= day /\ ~stays[s].warned}

DueForBalanceWarning == ListBookingsToWarnAboutBalance(today + warningLeadDays)

ListBookingsDueForCheckoutEmail ==
  {s \in Stays : stays[s].status = "confirmed" /\ checkout[s] = today /\ ~stays[s].reminded}

(* The runner starts a scan.  A second one starts while the first still    *)
(* runs only when the first has outlived its lease.                        *)
Start(w, kind, due) ==
  LET running == \E u \in Workers : scans[u].kind = kind
  IN  /\ scans[w] = Resting /\ due # {}
      /\ running => mishaps < MaxMishaps
      /\ mishaps' = IF running THEN mishaps + 1 ELSE mishaps
      /\ overlaps' = IF running THEN [overlaps EXCEPT ![kind] = @ + 1] ELSE overlaps
      /\ scans' = [scans EXCEPT ![w] = [kind |-> kind, due |-> due, todo |-> due]]
      /\ UNCHANGED <<today, stays, letters>>

WarnBalances(w) == Start(w, Warning, DueForBalanceWarning)

SendCheckoutEmails(w) == Start(w, Reminder, ListBookingsDueForCheckoutEmail)

-----------------------------------------------------------------------------
(* One transaction for each guest.                                         *)

Mail(kind, s) == letters' = [letters EXCEPT ![kind][s] = @ + 1]

(* Mutant: the mark is a transaction of its own, which may be lost.        *)
MarkApart(s) == stays' = [stays EXCEPT ![s].warned = TRUE] \/ UNCHANGED stays

MarkBalanceWarned(s) == stays' = [stays EXCEPT ![s].warned = TRUE]

MarkCheckoutEmailSent(s) == stays' = [stays EXCEPT ![s].reminded = TRUE]

(* A scan with nothing left to do is over.                                 *)
Ahead(w, s) ==
  LET rest == scans[w].todo \ {s}
  IN  scans' = [scans EXCEPT ![w] = IF rest = {} THEN Resting ELSE [@ EXCEPT !.todo = rest]]

warnOne(w, s) ==
  /\ scans[w].kind = Warning /\ s \in scans[w].todo \ Broken
  /\ Mail(Warning, s) /\ MarkBalanceWarned(s) /\ Ahead(w, s)
  /\ UNCHANGED <<today, mishaps, overlaps>>

remindOne(w, s) ==
  /\ scans[w].kind = Reminder /\ s \in scans[w].todo \ Broken
  /\ Mail(Reminder, s) /\ MarkCheckoutEmailSent(s) /\ Ahead(w, s)
  /\ UNCHANGED <<today, mishaps, overlaps>>

(* Mutant: the first failure ends the batch.                               *)
GiveUp(w, s) == scans' = [scans EXCEPT ![w] = Resting]

(* Failures are collected, so the guests after a bad row still hear.       *)
Collect(w, s) == Ahead(w, s)

Skip(w, s) ==
  /\ s \in scans[w].todo \intersect Broken
  /\ Collect(w, s)
  /\ UNCHANGED <<today, stays, letters, mishaps, overlaps>>

(* The server dies; the queue will start the scan again.                   *)
CrashInScan(w) ==
  /\ scans[w] # Resting /\ mishaps < MaxMishaps
  /\ mishaps' = mishaps + 1
  /\ scans' = [scans EXCEPT ![w] = Resting]
  /\ UNCHANGED <<today, stays, letters, overlaps>>

-----------------------------------------------------------------------------
(* What the rest of the system does meanwhile.                             *)

(* The balance is taken, or refused, when it is due; a guest may pay it    *)
(* earlier.                                                                *)
Settle(s) ==
  /\ stays[s].balance = "owed" /\ stays[s].status = "confirmed"
  /\ \E result \in {"paid"} \union (IF today >= balanceChargeAt[s] THEN {"failed"} ELSE {}) :
       stays' = [stays EXCEPT ![s].balance = result]
  /\ UNCHANGED <<today, letters, scans, mishaps, overlaps>>

CancelStay(s) ==
  /\ stays[s].status = "confirmed"
  /\ stays' = [stays EXCEPT ![s].status = "cancelled"]
  /\ UNCHANGED <<today, letters, scans, mishaps, overlaps>>

Midnight ==
  /\ today < LastDay /\ today' = today + 1
  /\ UNCHANGED <<stays, letters, scans, mishaps, overlaps>>

NoticesNext ==
  \/ \E w \in Workers :
       \/ WarnBalances(w) \/ SendCheckoutEmails(w) \/ CrashInScan(w)
       \/ \E s \in Stays : warnOne(w, s) \/ remindOne(w, s) \/ Skip(w, s)
  \/ \E s \in Stays : Settle(s) \/ CancelStay(s)
  \/ Midnight

NoticesSpec == NoticesInit /\ [][NoticesNext]_noticeVars

-----------------------------------------------------------------------------
(* warnOne: "a crash between them can neither lose a warning nor send it   *)
(* twice".  A guest gets each letter once, and is marked when it is        *)
(* queued, however often the scans crash; one more for each scan that      *)
(* began while another of its kind was running.                            *)
WrittenOnce ==
  \A s \in Stays :
    /\ letters[Warning][s] <= 1 + overlaps[Warning]
    /\ letters[Reminder][s] <= 1 + overlaps[Reminder]
    /\ stays[s].warned <=> letters[Warning][s] > 0
    /\ stays[s].reminded <=> letters[Reminder][s] > 0

(* WarnBalances: "the guests after a bad row still hear from the inn": a    *)
(* scan that comes to its end has written to everybody it found, except     *)
(* where the transaction itself failed.                                     *)
ScanReachesAll ==
  [][\A w \in Workers :
       scans[w] # Resting /\ scans'[w] = Resting /\ mishaps' = mishaps
         => \A s \in scans[w].due \ Broken : letters'[scans[w].kind][s] > 0]_noticeVars
=============================================================================
