------------------------------ MODULE JobsProofs ------------------------------
(***************************************************************************)
(* The queue loses nothing and keeps its keys, for any number of servers,  *)
(* kinds and rows, any lease and any backoff.                              *)
(***************************************************************************)
EXTENDS Jobs, FiniteSetTheorems, TLAPS

(* Rows are numbered as they are inserted. *)
RowsInv ==
  /\ inserted \in Nat
  /\ DOMAIN table \subseteq 1..inserted
  /\ \A n \in DOMAIN table : {"kind", "wait", "attempts"} \subseteq DOMAIN table[n]

(* A server knows the kind of the row it claimed for as long as there is    *)
(* such a row: it is what its outcome is decided by, whoever deletes or     *)
(* inserts in between.                                                     *)
HandInv ==
  /\ DOMAIN hand = Runners
  /\ \A r \in Runners :
       /\ {"id", "kind", "lease"} \subseteq DOMAIN hand[r]
       /\ hand[r].id \in 0..inserted
       /\ hand[r].id \in DOMAIN table => table[hand[r].id].kind = hand[r].kind

JobInv == RowsInv /\ HandInv /\ OneRowPerKey /\ LostOnlyWhenDone /\ SchedulesSurvive

-----------------------------------------------------------------------------
(* A step that only postpones rows and counts attempts keeps everything.   *)
LEMMA SameRows ==
  ASSUME JobInv, inserted' = inserted, up' \subseteq up, succeeded \subseteq succeeded',
         DOMAIN table' = DOMAIN table,
         \A n \in DOMAIN table : /\ table'[n].kind = table[n].kind
                                 /\ DOMAIN table'[n] = DOMAIN table[n]
  PROVE  RowsInv' /\ OneRowPerKey' /\ LostOnlyWhenDone' /\ SchedulesSurvive'
<1> USE DEF JobInv
<1>1. RowsInv'
  BY DEF RowsInv
<1>2. OneRowPerKey'
  BY DEF OneRowPerKey
<1>3. LostOnlyWhenDone'
  BY DEF LostOnlyWhenDone
<1>4. SchedulesSurvive'
  BY DEF SchedulesSurvive
<1> QED
  BY <1>1, <1>2, <1>3, <1>4

(* Rescheduling changes when a row is due and nothing else. *)
LEMMA Postponed ==
  ASSUME JobInv, NEW n, NEW delay, Reschedule(n, delay)
  PROVE  /\ DOMAIN table' = DOMAIN table
         /\ \A k \in DOMAIN table : /\ table'[k].kind = table[k].kind
                                     /\ DOMAIN table'[k] = DOMAIN table[k]
  BY DEF JobInv, RowsInv, Reschedule

(* A runner that lets go of its row leaves the others what they had. *)
LEMMA Released ==
  ASSUME JobInv, NEW r \in Runners, hand' = [hand EXCEPT ![r] = Idle],
         inserted' = inserted, DOMAIN table' \subseteq DOMAIN table,
         \A n \in DOMAIN table' : table'[n].kind = table[n].kind
  PROVE  HandInv'
<1>1. ASSUME NEW s \in Runners
      PROVE  hand'[s] = IF s = r THEN Idle ELSE hand[s]
  BY DEF JobInv, HandInv
<1>2. {"id", "kind", "lease"} \subseteq DOMAIN Idle /\ Idle.id = 0
  BY DEF Idle
<1>3. 0 \notin DOMAIN table
  BY DEF JobInv, RowsInv
<1> QED
  BY <1>1, <1>2, <1>3 DEF JobInv, RowsInv, HandInv

-----------------------------------------------------------------------------
(* One row more, of a kind that has none if it is keyed. *)
LEMMA EnqueueStep ==
  ASSUME JobInv, NEW kind \in Kinds, Enqueue(kind)
  PROVE  JobInv'
<1> USE DEF JobInv
<1>1. /\ inserted' = inserted + 1
      /\ DOMAIN table' = DOMAIN table \union {inserted'}
      /\ table'[inserted'] = NewRow(kind)
      /\ UNCHANGED <<hand, up, succeeded>>
  BY DEF Enqueue
<1>2. inserted \in Nat /\ inserted' \notin DOMAIN table
  BY <1>1 DEF RowsInv
<1>3. \A n \in DOMAIN table : table'[n] = table[n]
  BY <1>2 DEF Enqueue
<1>4. RowsInv'
  BY <1>1, <1>2, <1>3 DEF RowsInv, NewRow
<1>5. HandInv'
  BY <1>1, <1>2, <1>3 DEF RowsInv, HandInv
<1>6. OneRowPerKey'
  BY <1>1, <1>2, <1>3 DEF OneRowPerKey, Enqueue, Dropped, NewRow
<1>7. LostOnlyWhenDone'
  BY <1>1, <1>2 DEF LostOnlyWhenDone
<1>8. SchedulesSurvive'
  BY <1>1, <1>3 DEF SchedulesSurvive
<1> QED
  BY <1>4, <1>5, <1>6, <1>7, <1>8

(* The rows of ensurePeriodic are one for each kind that has none: there    *)
(* are as many ids as kinds, so the order that gives every kind a row gives *)
(* no kind two.                                                            *)
LEMMA BootStep ==
  ASSUME JobInv, NEW r \in Runners, Boot(r)
  PROVE  JobInv'
<1> USE DEF JobInv
<1> DEFINE new == inserted + 1 .. inserted'
<1>1. IsFiniteSet(Unscheduled) /\ Cardinality(Unscheduled) \in Nat
  <2>1. Unscheduled \in SUBSET Periodic
    BY DEF Unscheduled
  <2> QED
    BY <2>1, KindAssumption, FS_Subset, FS_CardinalityType
<1>2. /\ inserted' = inserted + Cardinality(Unscheduled)
      /\ up' = up \union {r}
      /\ UNCHANGED <<hand, succeeded>>
  BY DEF Boot
<1>3. PICK order \in [new -> Unscheduled] :
        /\ \A k \in Unscheduled : \E n \in DOMAIN order : order[n] = k
        /\ table' = [n \in DOMAIN table \union DOMAIN order |->
                       IF n \in DOMAIN order THEN NewRow(order[n]) ELSE table[n]]
  BY DEF Boot
<1>4. inserted \in Nat /\ inserted' \in Nat /\ inserted <= inserted'
  BY <1>1, <1>2 DEF RowsInv
<1>5. /\ \A n \in new : n \notin DOMAIN table /\ n \in 1..inserted' /\ n \notin 0..inserted
      /\ \A n \in 1..inserted' : n \in 1..inserted \/ n \in new
  BY <1>4 DEF RowsInv
<1>6. IsFiniteSet(new) /\ Cardinality(new) = Cardinality(Unscheduled)
  <2>1. /\ IsFiniteSet(new)
        /\ Cardinality(new) = IF inserted + 1 > inserted' THEN 0
                               ELSE inserted' - (inserted + 1) + 1
    <3>1. inserted + 1 \in Int /\ inserted' \in Int
      BY <1>4
    <3> QED
      BY <3>1, FS_Interval, Zenon
  <2> QED
    BY <1>1, <1>2, <1>4, <2>1
<1> HIDE DEF new
<1>7. ASSUME NEW m \in new, NEW n \in new, order[m] = order[n] PROVE m = n
  <2>1. order \in Surjection(new, Unscheduled)
    BY <1>3 DEF Surjection
  <2>2. order \in Injection(new, Unscheduled)
    BY <1>6, <2>1, FS_SurjSameCardinalityImpliesInj
  <2> QED
    BY <1>7, <2>2 DEF Injection, IsInjective
<1>8. /\ DOMAIN table' = DOMAIN table \union new
      /\ \A n \in new : table'[n] = NewRow(order[n]) /\ order[n] \in Unscheduled
      /\ \A n \in DOMAIN table : table'[n] = table[n]
  BY <1>3, <1>5
<1>9. RowsInv'
  BY <1>4, <1>5, <1>8 DEF RowsInv, NewRow
<1>10. HandInv'
  BY <1>2, <1>4, <1>5, <1>8 DEF RowsInv, HandInv
<1>11. OneRowPerKey'
  BY <1>5, <1>7, <1>8 DEF OneRowPerKey, Unscheduled, Dropped, NewRow
<1>12. LostOnlyWhenDone'
  BY <1>2, <1>5, <1>8 DEF LostOnlyWhenDone
<1>13. SchedulesSurvive'
  <2>1. ASSUME NEW k \in Periodic PROVE \E n \in DOMAIN table' : table'[n].kind = k
    <3>1. CASE k \in Unscheduled
      BY <1>3, <1>8, <3>1 DEF NewRow
    <3>2. CASE k \notin Unscheduled
      BY <1>8, <3>2 DEF Unscheduled, Dropped
    <3> QED
      BY <3>1, <3>2
  <2> QED
    BY <2>1 DEF SchedulesSurvive
<1> QED
  BY <1>9, <1>10, <1>11, <1>12, <1>13

-----------------------------------------------------------------------------
LEMMA ClaimStep ==
  ASSUME JobInv, NEW r \in Runners, NEW n, Claim(r, n)
  PROVE  JobInv'
<1> USE DEF JobInv
<1>1. PICK tries :
        /\ table' = [table EXCEPT ![n].wait = Lease, ![n].attempts = tries]
        /\ hand' = [hand EXCEPT ![r] = [id |-> n, kind |-> table[n].kind,
                                        attempts |-> tries, lease |-> Lease]]
  BY DEF Claim
<1>2. n \in DOMAIN table /\ UNCHANGED <<inserted, up, succeeded>>
  BY DEF Claim
<1>3. /\ DOMAIN table' = DOMAIN table
      /\ \A k \in DOMAIN table : /\ table'[k].kind = table[k].kind
                                  /\ DOMAIN table'[k] = DOMAIN table[k]
  BY <1>1, <1>2 DEF RowsInv
<1>4. RowsInv' /\ OneRowPerKey' /\ LostOnlyWhenDone' /\ SchedulesSurvive'
  BY <1>2, <1>3, SameRows
<1>5. HandInv'
  BY <1>1, <1>2, <1>3 DEF RowsInv, HandInv
<1> QED
  BY <1>4, <1>5

(* What succeeded is rescheduled if it is periodic, and else deleted: the   *)
(* kind the runner decides by is the kind of the row it deletes.           *)
LEMMA SucceedStep ==
  ASSUME JobInv, NEW r \in Runners, Succeed(r)
  PROVE  JobInv'
<1> USE DEF JobInv
<1>1. /\ hand' = [hand EXCEPT ![r] = Idle]
      /\ succeeded' = succeeded \union {hand[r].id}
      /\ UNCHANGED <<inserted, up>>
  BY DEF Succeed
<1>2. CASE hand[r].kind \in Periodic
  <2>1. Reschedule(hand[r].id, Repeat)
    BY <1>2 DEF Succeed
  <2> QED
    BY <1>1, <2>1, Postponed, SameRows, Released
<1>3. CASE hand[r].kind \notin Periodic
  <2>1. table' = [k \in DOMAIN table \ {hand[r].id} |-> table[k]]
    BY <1>3 DEF Succeed, Delete
  <2>2. HandInv'
    BY <1>1, <2>1, Released
  <2>3. RowsInv'
    BY <1>1, <2>1 DEF RowsInv
  <2>4. OneRowPerKey'
    BY <2>1 DEF OneRowPerKey
  <2>5. LostOnlyWhenDone'
    BY <1>1, <2>1 DEF LostOnlyWhenDone
  <2>6. SchedulesSurvive'
    BY <1>1, <1>3, <2>1 DEF SchedulesSurvive, HandInv
  <2> QED
    BY <2>2, <2>3, <2>4, <2>5, <2>6
<1> QED
  BY <1>2, <1>3

LEMMA FailStep ==
  ASSUME JobInv, NEW r \in Runners, Fail(r)
  PROVE  JobInv'
<1>1. /\ hand' = [hand EXCEPT ![r] = Idle]
      /\ UNCHANGED <<inserted, up, succeeded>>
      /\ \E delay : Reschedule(hand[r].id, delay)
  BY DEF Fail
<1> QED
  BY <1>1, Postponed, SameRows, Released DEF JobInv

LEMMA DieStep ==
  ASSUME JobInv, NEW r \in Runners, Die(r)
  PROVE  JobInv'
<1>1. /\ hand' = [hand EXCEPT ![r] = Idle]
      /\ up' \subseteq up /\ UNCHANGED <<table, inserted, succeeded>>
  BY DEF Die
<1> QED
  BY <1>1, SameRows, Released DEF JobInv

LEMMA TickStep ==
  ASSUME JobInv, Tick
  PROVE  JobInv'
<1>1. /\ DOMAIN table' = DOMAIN table
      /\ \A k \in DOMAIN table : /\ table'[k].kind = table[k].kind
                                  /\ DOMAIN table'[k] = DOMAIN table[k]
  BY DEF Tick, JobInv, RowsInv
<1>2. /\ DOMAIN hand' = Runners
      /\ \A r \in Runners : /\ hand'[r].id = hand[r].id
                             /\ hand'[r].kind = hand[r].kind
                             /\ DOMAIN hand'[r] = DOMAIN hand[r]
  BY DEF Tick, JobInv, HandInv
<1>3. UNCHANGED <<inserted, up, succeeded>>
  BY DEF Tick
<1> QED
  BY <1>1, <1>2, <1>3, SameRows DEF JobInv, HandInv

LEMMA QueueKept == Spec => []JobInv
<1>1. Init => JobInv
  BY DEF Init, JobInv, RowsInv, HandInv, OneRowPerKey, LostOnlyWhenDone, SchedulesSurvive, Idle
<1>2. ASSUME JobInv, [Next]_vars PROVE JobInv'
  <2>1. CASE UNCHANGED vars
    BY <1>2, <2>1 DEF vars, JobInv, RowsInv, HandInv, OneRowPerKey, LostOnlyWhenDone,
                      SchedulesSurvive
  <2>2. CASE Next
    BY <1>2, <2>2, EnqueueStep, BootStep, DieStep, SucceedStep, FailStep, ClaimStep, TickStep
       DEF Next
  <2> QED
    BY <1>2, <2>1, <2>2
<1> QED
  BY <1>1, <1>2, PTL DEF Spec

(* "Two jobs with the same key cannot both be queued", for any number of    *)
(* servers that start, claim, lapse and die.                               *)
THEOREM KeysAreUnique == Spec => []OneRowPerKey
  BY QueueKept, PTL DEF JobInv

(* "A crash mid-job loses nothing": a row is only ever gone when its work   *)
(* was done.                                                               *)
THEOREM NothingIsLost == Spec => []LostOnlyWhenDone
  BY QueueKept, PTL DEF JobInv

(* "The schedule survives restarts": no outcome of any runner, however late, *)
(* takes a periodic row away.                                              *)
THEOREM SchedulesAreKept == Spec => []SchedulesSurvive
  BY QueueKept, PTL DEF JobInv
=============================================================================
