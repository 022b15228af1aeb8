-------------------------------- MODULE Jobs --------------------------------
(***************************************************************************)
(* internal/jobs: the durable queue.  One table, polled by the runner of   *)
(* every server; a claim is a lease carried by run_at, and a handler's     *)
(* outcome is written by a second statement, keyed on the row's id alone.  *)
(*                                                                         *)
(* Time is relative: a row's wait is run_at minus now, and it is due when  *)
(* nothing is left of it.                                                  *)
(***************************************************************************)
EXTENDS Integers, FiniteSets

CONSTANTS
  Runners,      \* one per server
  Kinds,        \* job kinds that are enqueued
  Periodic,     \* registered with Every: the row is rescheduled
  Keyed,        \* enqueued with a unique key; a periodic kind is its own key
  Handled,      \* kinds this build registers a handler for
  Lease, Repeat, BackoffCap,   \* in ticks
  MaxJobs,      \* bound: rows ever inserted, the periodic ones first
  MaxAttempts,  \* bound: attempts past this one are not told apart
  MaxLate       \* bound: lateness past this is not told apart

VARIABLES
  table,        \* the rows: id -> [kind, wait, attempts]
  inserted,     \* the ids given out, 1..inserted
  hand,         \* what each runner has claimed, with what is left of its lease
  up,           \* the servers running
  succeeded     \* history: rows whose handler returned without an error

vars == <<table, inserted, hand, up, succeeded>>

ASSUME KindAssumption ==
  /\ Periodic \subseteq Keyed /\ Periodic \subseteq Handled
  /\ Keyed \subseteq Kinds /\ Handled \subseteq Kinds
  /\ IsFiniteSet(Periodic)

ASSUME TimeAssumption ==
  /\ Lease \in Nat \ {0} /\ Repeat \in Nat \ {0} /\ BackoffCap \in Nat \ {0}
  /\ MaxJobs \in Nat /\ MaxAttempts \in Nat \ {0} /\ MaxLate \in Nat

Idle == [id |-> 0, kind |-> "none", attempts |-> 0, lease |-> 0]

Init ==
  /\ table = <<>> /\ inserted = 0
  /\ hand = [r \in Runners |-> Idle]
  /\ up = {}
  /\ succeeded = {}

-----------------------------------------------------------------------------
(* Mutant: the key is not part of the row.                                 *)
NeverDropped(kind) == FALSE

(* Enqueue.  The partial unique index drops a second row of one key.       *)
Dropped(kind) == kind \in Keyed /\ \E n \in DOMAIN table : table[n].kind = kind

NewRow(kind) == [kind |-> kind, wait |-> 0, attempts |-> 0]

Unscheduled == {k \in Periodic : ~Dropped(k)}

Enqueue(kind) ==
  /\ ~Dropped(kind)
  /\ inserted + Cardinality(Unscheduled) < MaxJobs
  /\ inserted' = inserted + 1
  /\ table' = [n \in DOMAIN table \union {inserted'} |->
                 IF n = inserted' THEN NewRow(kind) ELSE table[n]]
  /\ UNCHANGED <<hand, up, succeeded>>

(* A server starts: ensurePeriodic gives every periodic kind its one row.  *)
Boot(r) ==
  LET missing == Unscheduled
  IN  /\ r \notin up
      /\ up' = up \union {r}
      /\ inserted + Cardinality(missing) <= MaxJobs
      /\ inserted' = inserted + Cardinality(missing)
      /\ \E order \in [inserted + 1 .. inserted' -> missing] :
           /\ \A k \in missing : \E n \in DOMAIN order : order[n] = k
           /\ table' = [n \in DOMAIN table \union DOMAIN order |->
                          IF n \in DOMAIN order THEN NewRow(order[n]) ELSE table[n]]
      /\ UNCHANGED <<hand, succeeded>>

(* The process goes: whatever it had claimed is left to its lease.         *)
Die(r) ==
  /\ r \in up
  /\ up' = up \ {r}
  /\ hand' = [hand EXCEPT ![r] = Idle]
  /\ UNCHANGED <<table, inserted, succeeded>>

-----------------------------------------------------------------------------
(* Once.                                                                   *)

backoff(attempts) == IF 2^attempts < BackoffCap THEN 2^attempts ELSE BackoffCap

Oldest(n) == \A k \in DOMAIN table : table[n].wait <= table[k].wait

(* ClaimJob: the row due longest, leased, and the attempt counted: a job   *)
(* that takes the process down still counts towards its own retries.       *)
Claim(r, n) ==
  /\ r \in up /\ hand[r] = Idle
  /\ n \in DOMAIN table
  /\ table[n].wait <= 0 /\ Oldest(n)
  /\ LET tries == IF table[n].attempts < MaxAttempts THEN table[n].attempts + 1 ELSE MaxAttempts
     IN  /\ table' = [table EXCEPT ![n].wait = Lease, ![n].attempts = tries]
         /\ hand' = [hand EXCEPT ![r] = [id |-> n, kind |-> table[n].kind,
                                         attempts |-> tries, lease |-> Lease]]
  /\ UNCHANGED <<inserted, up, succeeded>>

(* RescheduleJob and DeleteJob name the id, and a row already gone is left. *)
Reschedule(n, delay) ==
  table' = IF n \in DOMAIN table THEN [table EXCEPT ![n].wait = delay] ELSE table

(* Mutant: the row is kept for its lease.                                  *)
DeleteNothing(n) == UNCHANGED table

Delete(n) == table' = [k \in DOMAIN table \ {n} |-> table[k]]

(* Mutant: periodic work is deleted like the rest.                         *)
SucceedDeleting(r) ==
  LET job == hand[r]
  IN  /\ job # Idle /\ job.kind \in Handled
      /\ hand' = [hand EXCEPT ![r] = Idle]
      /\ succeeded' = succeeded \union {job.id}
      /\ Delete(job.id)
      /\ UNCHANGED <<inserted, up>>

Succeed(r) ==
  LET job == hand[r]
  IN  /\ job # Idle /\ job.kind \in Handled
      /\ hand' = [hand EXCEPT ![r] = Idle]
      /\ succeeded' = succeeded \union {job.id}
      /\ IF job.kind \in Periodic THEN Reschedule(job.id, Repeat) ELSE Delete(job.id)
      /\ UNCHANGED <<inserted, up>>

(* Mutant: a failure is the end of the job.                                *)
FailDeleting(r) ==
  LET job == hand[r]
  IN  /\ job # Idle
      /\ hand' = [hand EXCEPT ![r] = Idle]
      /\ Delete(job.id)
      /\ UNCHANGED <<inserted, up, succeeded>>

(* The handler answered an error or panicked, or there is none.            *)
Fail(r) ==
  LET job == hand[r]
  IN  /\ job # Idle
      /\ hand' = [hand EXCEPT ![r] = Idle]
      /\ Reschedule(job.id, IF job.kind \in Handled THEN backoff(job.attempts) ELSE BackoffCap)
      /\ UNCHANGED <<inserted, up, succeeded>>

Tick ==
  /\ table' = [n \in DOMAIN table |->
                 [table[n] EXCEPT !.wait = IF @ > -MaxLate THEN @ - 1 ELSE @]]
  /\ hand' = [r \in Runners |->
                [hand[r] EXCEPT !.lease = IF @ > 0 THEN @ - 1 ELSE 0]]
  /\ UNCHANGED <<inserted, up, succeeded>>

-----------------------------------------------------------------------------
Next ==
  \/ \E kind \in Kinds \ Periodic : Enqueue(kind)
  \/ \E r \in Runners : Boot(r) \/ Die(r) \/ Succeed(r) \/ Fail(r)
  \/ \E r \in Runners, n \in 1..MaxJobs : Claim(r, n)
  \/ Tick

Spec == Init /\ [][Next]_vars

(* Servers are started again, clocks run, and no job fails for ever.  The  *)
(* run_at of a row left due stands still while every claim moves another    *)
(* row's ahead, so each row is in time the oldest and is claimed.          *)
Fairness ==
  /\ WF_vars(Tick)
  /\ \A r \in Runners : WF_vars(Boot(r)) /\ WF_vars(Fail(r))
  /\ \A n \in 1..MaxJobs :
       /\ SF_vars(\E r \in Runners : Claim(r, n))
       /\ SF_vars(\E r \in Runners : hand[r].id = n /\ Succeed(r))

FairSpec == Spec /\ Fairness

-----------------------------------------------------------------------------
(* "Two jobs with the same key cannot both be queued", however claims,      *)
(* lapses and deletions interleave with the enqueueing.                     *)
OneRowPerKey ==
  \A m, n \in DOMAIN table :
    table[m].kind = table[n].kind /\ table[m].kind \in Keyed => m = n

(* "A crash mid-job loses nothing": a row that is gone was done.            *)
LostOnlyWhenDone == \A n \in 1..inserted : n \notin DOMAIN table => n \in succeeded

(* "The schedule survives restarts": once a server has started, every       *)
(* periodic kind keeps its row, whoever dies.                               *)
SchedulesSurvive ==
  up # {} => \A k \in Periodic : \E n \in DOMAIN table : table[n].kind = k

(* Work that is queued and can be handled is done in the end, and its row   *)
(* leaves the table, through lapsed leases, crashes and retries.            *)
WorkGetsDone ==
  \A n \in 1..MaxJobs :
    (n \in DOMAIN table /\ table[n].kind \in Handled \ Periodic) ~> n \notin DOMAIN table

(* Lease: "how long a claimed job is hidden from other runners": nobody     *)
(* claims a job another server still has a lease on.                        *)
LeaseHides ==
  \A r, s \in Runners :
    r # s /\ hand[r] # Idle /\ hand[r].id = hand[s].id
      => hand[r].lease = 0 \/ hand[s].lease = 0
=============================================================================
