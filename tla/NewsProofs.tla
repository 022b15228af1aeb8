----------------------------- MODULE NewsProofs -----------------------------
(***************************************************************************)
(* What is told to whom: the owner's notifications, the letters to guests   *)
(* and the reports of errors, for any number of browsers, guests, errors,   *)
(* workers, retries and deaths of the server.                              *)
(***************************************************************************)
EXTENDS Push, Notices, Reports, FiniteSetTheorems, TLAPS

Phases == {"none", "queued", "sending", "done"}

(* The tables and the jobs keep their shape.                               *)
PushTypeOK ==
  /\ subscriptions \subseteq Browsers
  /\ notes \in [Inquiries -> [phase : Phases, todo : SUBSET Browsers, failed : BOOLEAN]]
  /\ delivered \in [Inquiries -> SUBSET Browsers]
  /\ owed \in [Inquiries -> SUBSET Browsers]

(* Who is owed a notification is still subscribed: a list read later than   *)
(* the notification was queued cannot miss anybody.                        *)
OwedAreListed == \A i \in Inquiries : owed[i] \subseteq subscriptions

(* A job in which nothing has failed so far has yet to try whoever is owed *)
(* the notification and has not had it.                                    *)
NobodySkipped ==
  \A i \in Inquiries :
    notes[i].phase = "sending" /\ ~notes[i].failed
      => owed[i] \subseteq (delivered[i] \union notes[i].todo)

PushInv == PushTypeOK /\ OwedAreListed /\ NobodySkipped /\ ToldOrGone

-----------------------------------------------------------------------------
(* Nothing is queued at first.                                             *)
LEMMA PushInitially == PushInit => PushInv
BY DEF PushInit, PushInv, PushTypeOK, Phases, OwedAreListed, NobodySkipped, ToldOrGone, Unsent

(* A browser that is forgotten is owed nothing any more.                   *)
LEMMA ForgottenKeeps ==
  ASSUME PushInv, NEW b \in Browsers, Forgotten(b), UNCHANGED <<notes, delivered>>
  PROVE  PushInv'
BY DEF PushInv, PushTypeOK, OwedAreListed, NobodySkipped, ToldOrGone, Forgotten

(* A row with two of its columns written.                                  *)
LEMMA RowWritten ==
  ASSUME NEW P, NEW S, NEW B, NEW w \in [phase : P, todo : S, failed : B], NEW t \in S, NEW f \in B
  PROVE  /\ [w EXCEPT !.todo = t, !.failed = f] \in [phase : P, todo : S, failed : B]
         /\ [w EXCEPT !.todo = t, !.failed = f].phase = w.phase
         /\ [w EXCEPT !.todo = t, !.failed = f].todo = t
         /\ [w EXCEPT !.todo = t, !.failed = f].failed = f
OBVIOUS

(* Trying a browser takes it off the list of its notification, and notes   *)
(* whether it failed.                                                      *)
LEMMA TriedWrites ==
  ASSUME PushTypeOK, NEW i \in Inquiries, NEW b \in Browsers, NEW failed \in BOOLEAN,
         Tried(i, b, failed)
  PROVE  /\ notes' \in [Inquiries -> [phase : Phases, todo : SUBSET Browsers, failed : BOOLEAN]]
         /\ \A j \in Inquiries :
              /\ notes'[j].phase = notes[j].phase
              /\ j # i => notes'[j] = notes[j]
         /\ notes'[i].todo = notes[i].todo \ {b}
         /\ ~notes'[i].failed => ~notes[i].failed /\ ~failed
<1> DEFINE was  == notes[i]
<1> DEFINE rest == was.todo \ {b}
<1> DEFINE said == was.failed \/ failed
<1> DEFINE row  == [was EXCEPT !.todo = rest, !.failed = said]
<1> DEFINE Note == [phase : Phases, todo : SUBSET Browsers, failed : BOOLEAN]
<1>1. was \in Note /\ notes \in [Inquiries -> Note]
  BY DEF PushTypeOK
<1>2. said \in BOOLEAN /\ (~said => ~was.failed /\ ~failed)
  OBVIOUS
<1>3. rest \in SUBSET Browsers
  BY <1>1
<1>4. row \in Note /\ row.phase = was.phase /\ row.todo = rest /\ row.failed = said
  <2> HIDE DEF was, rest, said
  <2>1. QED BY <1>1, <1>2, <1>3, RowWritten
<1>5. notes' = [notes EXCEPT ![i] = row]
  <2>1. notes' = [notes EXCEPT ![i].todo = rest, ![i].failed = said]
    BY <1>1 DEF Tried
  <2> HIDE DEF rest, said
  <2>2. QED BY <1>1, <2>1
<1> HIDE DEF row, Note
<1>6. notes' \in [Inquiries -> Note] /\ notes'[i] = row /\ \A j \in Inquiries : j # i => notes'[j] = notes[j]
  BY <1>1, <1>4, <1>5
<1> HIDE DEF was, rest, said
<1>7. /\ \A j \in Inquiries : notes'[j].phase = notes[j].phase
      /\ notes'[i].todo = rest /\ notes'[i].failed = said
  BY <1>4, <1>6 DEF was
<1>8. ~notes'[i].failed => ~was.failed /\ ~failed
  BY <1>2, <1>7
<1>9. QED BY <1>6, <1>7, <1>8 DEF Note, was, rest

(* Each browser tried keeps the account of who has been and who is to be.  *)
LEMMA SendKeeps ==
  ASSUME PushInv, NEW i \in Inquiries, NEW b \in Browsers, Send(i, b)
  PROVE  PushInv'
<1> USE DEF PushInv, PushTypeOK, OwedAreListed, NobodySkipped, ToldOrGone
<1>1. notes[i].phase = "sending" /\ b \in notes[i].todo
  BY DEF Send
<1>2. CASE Deliver(i, b)
  <2>1. Tried(i, b, FALSE) /\ delivered' = [delivered EXCEPT ![i] = @ \union {b}]
        /\ subscriptions' = subscriptions /\ owed' = owed
    BY <1>2 DEF Deliver
  <2>2. PushTypeOK' /\ OwedAreListed' /\ ToldOrGone'
    BY <1>1, <2>1, TriedWrites, ZenonT(40)
  <2>3. NobodySkipped'
    <3> SUFFICES ASSUME NEW j \in Inquiries, notes'[j].phase = "sending", ~notes'[j].failed
                 PROVE  owed[j] \subseteq (delivered'[j] \union notes'[j].todo)
      BY <2>1
    <3>1. CASE j = i
      <4>1. notes'[i].todo = notes[i].todo \ {b} /\ ~notes[i].failed
        BY <2>1, <3>1, TriedWrites
      <4>2. delivered'[i] = delivered[i] \union {b}
        BY <2>1
      <4>3. owed[i] \subseteq (delivered[i] \union notes[i].todo)
        BY <1>1, <4>1
      <4>4. QED BY <3>1, <4>1, <4>2, <4>3
    <3>2. CASE j # i
      BY <2>1, <3>2, TriedWrites
    <3>3. QED BY <3>1, <3>2
  <2>4. QED BY <2>2, <2>3
<1>3. CASE FailToSend(i, b)
  <2>1. Tried(i, b, TRUE) /\ UNCHANGED <<subscriptions, delivered, owed>>
    BY <1>3 DEF FailToSend
  <2>2. QED BY <1>1, <2>1, TriedWrites
<1>4. CASE DeletePushSubscription(i, b)
  <2>1. CASE Tried(i, b, FALSE) /\ Forgotten(b) /\ UNCHANGED delivered
    BY <1>1, <2>1, TriedWrites, ZenonT(40) DEF Forgotten
  <2>2. CASE Tried(i, b, TRUE) /\ UNCHANGED <<subscriptions, delivered, owed>>
    BY <1>1, <2>2, TriedWrites
  <2>3. QED BY <1>4, <2>1, <2>2 DEF DeletePushSubscription
<1>5. QED BY <1>2, <1>3, <1>4 DEF Send

(* Every step keeps the invariant.                                         *)
LEMMA PushStep == PushInv /\ [PushNext]_pushVars => PushInv'
<1> SUFFICES ASSUME PushInv, [PushNext]_pushVars PROVE PushInv'
  OBVIOUS
<1> USE DEF PushInv, PushTypeOK, OwedAreListed, NobodySkipped, ToldOrGone, Phases
<1>1. ASSUME NEW b \in Browsers, SavePushSubscription(b) PROVE PushInv'
  BY <1>1 DEF SavePushSubscription
<1>2. ASSUME NEW b \in Browsers, ForgetPushSubscription(b) PROVE PushInv'
  BY <1>2, ForgottenKeeps DEF ForgetPushSubscription
<1>3. ASSUME NEW b \in Browsers, Uninstall(b) PROVE PushInv'
  BY <1>3 DEF Uninstall
<1>4. ASSUME NEW i \in Inquiries, SubmitInquiry(i) PROVE PushInv'
  BY <1>4 DEF SubmitInquiry, Queue, Waiting
<1>5. ASSUME NEW i \in Inquiries, ListPushSubscriptions(i) PROVE PushInv'
  BY <1>5 DEF ListPushSubscriptions
<1>6. ASSUME NEW i \in Inquiries, Return(i) PROVE PushInv'
  <2>1. CASE notes[i].failed
    BY <1>6, <2>1 DEF Return, Result, Waiting
  <2>2. CASE ~notes[i].failed
    BY <1>6, <2>2 DEF Return, Result
  <2>3. QED BY <2>1, <2>2
<1>7. ASSUME NEW i \in Inquiries, CrashInSend(i) PROVE PushInv'
  BY <1>7 DEF CrashInSend, Waiting
<1>8. ASSUME NEW i \in Inquiries, NEW st \in {"new", "closed"}, SetInquiryStatus(i, st)
      PROVE  PushInv'
  BY <1>8 DEF SetInquiryStatus
<1>9. ASSUME NEW i \in Inquiries, NEW b \in Browsers, Send(i, b) PROVE PushInv'
  BY <1>9, SendKeeps
<1>10. CASE UNCHANGED pushVars
  BY <1>10 DEF pushVars
<1>11. QED BY <1>1, <1>2, <1>3, <1>4, <1>5, <1>6, <1>7, <1>8, <1>9, <1>10 DEF PushNext

(* Handler: when the job of a notification is done, whoever was subscribed *)
(* when it was queued has had it, or was switched off or found gone since; *)
(* for any number of browsers, retries and deaths of the server.           *)
THEOREM ToldInTheEnd == PushSpec => []ToldOrGone
<1>1. PushInv => ToldOrGone
  BY DEF PushInv
<1>2. QED BY <1>1, PushInitially, PushStep, PTL DEF PushSpec

-----------------------------------------------------------------------------
(* The letters to guests.                                                  *)

Letters == {Warning, Reminder}

Marked(kind, s) == IF kind = Warning THEN stays[s].warned ELSE stays[s].reminded

(* A worker rests, or runs a scan of one kind.                             *)
Scan == {Resting} \union [kind : Letters, due : SUBSET Stays, todo : SUBSET Stays]

NoticesTypeOK ==
  /\ stays \in [Stays -> [status : {"confirmed", "cancelled"}, balance : {"owed", "paid", "failed"},
                          warned : BOOLEAN, reminded : BOOLEAN]]
  /\ letters \in [Letters -> [Stays -> Nat]]
  /\ scans \in [Workers -> Scan]
  /\ mishaps \in Nat /\ overlaps \in [Letters -> Nat]

(* The scans of a kind that run, and those of them still to write to s.    *)
Busy(kind)       == {w \in Workers : scans[w].kind = kind}
Holding(kind, s) == {w \in Busy(kind) : s \in scans[w].todo}

(* One scan of a kind runs at a time, but for those counted; each of them   *)
(* may still write to whom it found before the mark was set.                *)
FewScans ==
  \A kind \in Letters :
    IsFiniteSet(Busy(kind)) /\ Cardinality(Busy(kind)) <= 1 + overlaps[kind]

FewLetters ==
  \A kind \in Letters, s \in Stays :
    /\ letters[kind][s] + Cardinality(Holding(kind, s)) <= 1 + overlaps[kind]
    /\ Marked(kind, s) <=> letters[kind][s] > 0

(* A scan has written to whoever it found and is past.                     *)
NobodyPassedOver ==
  \A w \in Workers : scans[w].kind # "none" =>
    \A s \in scans[w].due \ (scans[w].todo \union Broken) : letters[scans[w].kind][s] > 0

NoticesInv == NoticesTypeOK /\ FewScans /\ FewLetters /\ NobodyPassedOver

-----------------------------------------------------------------------------
LEMMA NoticesInitially == NoticesInit => NoticesInv
<1> SUFFICES ASSUME NoticesInit PROVE NoticesInv
  OBVIOUS
<1> USE DEF NoticesInit, Letters, Warning, Reminder, Resting
<1>1. NoticesTypeOK
  BY DEF NoticesTypeOK, Scan
<1>2. \A kind \in Letters : Busy(kind) = {} /\ \A s \in Stays : Holding(kind, s) = {}
  BY DEF Busy, Holding
<1>3. FewScans
  <2> SUFFICES ASSUME NEW kind \in Letters
               PROVE  IsFiniteSet(Busy(kind)) /\ Cardinality(Busy(kind)) <= 1 + overlaps[kind]
    BY DEF FewScans
  <2>1. IsFiniteSet(Busy(kind)) /\ Cardinality(Busy(kind)) = 0
    BY <1>2, FS_EmptySet
  <2>2. QED BY <2>1
<1>4. FewLetters
  <2> SUFFICES ASSUME NEW kind \in Letters, NEW s \in Stays
               PROVE  /\ letters[kind][s] + Cardinality(Holding(kind, s)) <= 1 + overlaps[kind]
                      /\ Marked(kind, s) <=> letters[kind][s] > 0
    BY DEF FewLetters
  <2>1. letters[kind][s] = 0 /\ overlaps[kind] = 0 /\ ~Marked(kind, s)
    BY DEF Marked
  <2>2. Cardinality(Holding(kind, s)) = 0
    BY <1>2, FS_EmptySet
  <2>3. QED BY <2>1, <2>2
<1>5. NobodyPassedOver
  BY DEF NobodyPassedOver
<1>6. QED BY <1>1, <1>3, <1>4, <1>5 DEF NoticesInv

(* Fewer of a finite set are not more.                                     *)
LEMMA NotMore ==
  ASSUME NEW S, IsFiniteSet(S), NEW T \in SUBSET S
  PROVE  IsFiniteSet(T) /\ Cardinality(T) \in Nat /\ Cardinality(S) \in Nat
         /\ Cardinality(T) <= Cardinality(S)
BY FS_Subset, FS_CardinalityType

(* The set of scans running is finite, and so are those about to write to   *)
(* somebody.                                                               *)
LEMMA CountsAreNat ==
  ASSUME FewScans, NEW kind \in Letters, NEW s \in Stays
  PROVE  /\ IsFiniteSet(Busy(kind)) /\ IsFiniteSet(Holding(kind, s))
         /\ Cardinality(Busy(kind)) \in Nat /\ Cardinality(Holding(kind, s)) \in Nat
         /\ Cardinality(Holding(kind, s)) <= Cardinality(Busy(kind))
<1>1. IsFiniteSet(Busy(kind)) /\ Holding(kind, s) \in SUBSET Busy(kind)
  BY DEF FewScans, Holding
<1>2. QED BY <1>1, NotMore

(* While no scan begins, no more scans run.                                *)
LEMMA FewerScansKeep ==
  ASSUME FewScans, NoticesTypeOK, UNCHANGED overlaps,
         \A kind \in Letters : Busy(kind)' \subseteq Busy(kind)
  PROVE  FewScans'
<1> SUFFICES ASSUME NEW kind \in Letters
             PROVE  IsFiniteSet(Busy(kind)') /\ Cardinality(Busy(kind)') <= 1 + overlaps[kind]
  BY DEF FewScans
<1>1. IsFiniteSet(Busy(kind)) /\ Cardinality(Busy(kind)) <= 1 + overlaps[kind]
  BY DEF FewScans
<1>2. IsFiniteSet(Busy(kind)') /\ Cardinality(Busy(kind)') \in Nat /\ Cardinality(Busy(kind)) \in Nat
      /\ Cardinality(Busy(kind)') <= Cardinality(Busy(kind))
  BY <1>1, NotMore
<1>3. overlaps[kind] \in Nat
  BY DEF NoticesTypeOK
<1>4. QED BY <1>1, <1>2, <1>3

(* A guest not written to, and whom no new scan means to write to.          *)
LEMMA FewLettersKeep ==
  ASSUME FewScans, FewLetters, NoticesTypeOK, NEW kind \in Letters, NEW s \in Stays,
         Holding(kind, s)' \subseteq Holding(kind, s), letters'[kind][s] = letters[kind][s],
         Marked(kind, s)' <=> Marked(kind, s), overlaps'[kind] \in {overlaps[kind], overlaps[kind] + 1}
  PROVE  /\ letters'[kind][s] + Cardinality(Holding(kind, s)') <= 1 + overlaps'[kind]
         /\ Marked(kind, s)' <=> letters'[kind][s] > 0
<1>1. IsFiniteSet(Holding(kind, s)) /\ Holding(kind, s)' \in SUBSET Holding(kind, s)
  BY CountsAreNat
<1>2. Cardinality(Holding(kind, s)') \in Nat /\ Cardinality(Holding(kind, s)) \in Nat
      /\ Cardinality(Holding(kind, s)') <= Cardinality(Holding(kind, s))
  BY <1>1, NotMore
<1>3. letters[kind][s] \in Nat /\ overlaps[kind] \in Nat
  BY DEF NoticesTypeOK
<1>4. letters[kind][s] + Cardinality(Holding(kind, s)) <= 1 + overlaps[kind]
  BY DEF FewLetters
<1>5. Marked(kind, s)' <=> letters'[kind][s] > 0
  BY DEF FewLetters
<1> QED BY <1>2, <1>3, <1>4, <1>5

(* Whoever still scans has done nothing but pass s.                        *)
MovesOn(w, s) ==
  \A v \in Workers : scans'[v].kind # "none" =>
    /\ scans'[v].kind = scans[v].kind /\ scans'[v].due = scans[v].due
    /\ scans'[v].todo = IF v = w THEN scans[v].todo \ {s} ELSE scans[v].todo

(* A scan that goes on, or comes to its end, with one guest less to do.     *)
LEMMA AheadMoves ==
  ASSUME NoticesTypeOK, NEW w \in Workers, NEW s \in scans[w].todo, Ahead(w, s),
         scans[w].kind \in Letters
  PROVE  /\ scans' \in [Workers -> Scan]
         /\ MovesOn(w, s)
         /\ scans'[w].kind # "none" \/ scans[w].todo = {s}
         /\ \A kind \in Letters : Busy(kind)' \subseteq Busy(kind)
         /\ \A kind \in Letters, t \in Stays : Holding(kind, t)' \subseteq Holding(kind, t) \
              (IF t = s THEN {w} ELSE {})
<1> DEFINE Running == [kind : Letters, due : SUBSET Stays, todo : SUBSET Stays]
<1> DEFINE was  == scans[w]
<1> DEFINE rest == was.todo \ {s}
<1> DEFINE less == [was EXCEPT !.todo = rest]
<1> DEFINE row  == IF rest = {} THEN Resting ELSE less
<1>1. was \in Running /\ rest \in SUBSET Stays
  BY DEF NoticesTypeOK, Scan, Resting, Letters, Warning, Reminder
<1>2. /\ less \in Running /\ less.kind = was.kind /\ less.due = was.due /\ less.todo = rest
  <2> HIDE DEF was, rest
  <2>1. QED BY <1>1
<1>3. Resting \in Scan /\ Resting.kind = "none"
  BY DEF Resting, Scan
<1>4. scans' = [scans EXCEPT ![w] = row] /\ scans \in [Workers -> Scan]
  BY DEF Ahead, NoticesTypeOK
<1> HIDE DEF less
<1>5. /\ row \in Scan /\ (row.kind = "none" \/ row = less)
      /\ (was.todo # {s} => row = less)
  BY <1>2, <1>3 DEF Scan
<1>6. \A v \in Workers : scans'[v] = IF v = w THEN row ELSE scans[v]
  BY <1>4
<1>7. scans' \in [Workers -> Scan]
  BY <1>4, <1>5
<1> HIDE DEF row
<1>8. \A v \in Workers : scans'[v].kind # "none" =>
         /\ scans'[v].kind = scans[v].kind /\ scans'[v].due = scans[v].due
         /\ scans'[v].todo = IF v = w THEN scans[v].todo \ {s} ELSE scans[v].todo
  BY <1>2, <1>5, <1>6
<1>9. scans'[w].kind # "none" \/ scans[w].todo = {s}
  BY <1>2, <1>5, <1>6 DEF Letters, Warning, Reminder
<1>10. \A kind \in Letters : kind # "none"
  BY DEF Letters, Warning, Reminder
<1>11. \A kind \in Letters : Busy(kind)' \subseteq Busy(kind)
  BY <1>8, <1>10 DEF Busy
<1>12. \A kind \in Letters, t \in Stays : Holding(kind, t)' \subseteq Holding(kind, t) \
              (IF t = s THEN {w} ELSE {})
  BY <1>8, <1>10 DEF Busy, Holding
<1>13. QED BY <1>7, <1>8, <1>9, <1>11, <1>12 DEF MovesOn

(* A scan begins, of stays whose letter has not been marked: alone of its   *)
(* kind, or counted as an overlap.                                         *)
LEMMA StartKeeps ==
  ASSUME NoticesInv, NEW w \in Workers, NEW kind \in Letters, NEW due \in SUBSET Stays,
         \A s \in due : ~Marked(kind, s), Start(w, kind, due)
  PROVE  NoticesInv'
<1> DEFINE row == [kind |-> kind, due |-> due, todo |-> due]
<1> DEFINE running == \E u \in Workers : scans[u].kind = kind
<1> USE DEF NoticesInv
<1>1. /\ scans[w] = Resting /\ UNCHANGED <<today, stays, letters>>
      /\ overlaps' = IF running THEN [overlaps EXCEPT ![kind] = @ + 1] ELSE overlaps
      /\ mishaps' \in {mishaps, mishaps + 1}
      /\ scans' = [scans EXCEPT ![w] = row]
  BY DEF Start
<1>2. \A v \in Workers : scans'[v] = IF v = w THEN row ELSE scans[v]
  BY <1>1 DEF NoticesTypeOK
<1>3. NoticesTypeOK'
  BY <1>1 DEF NoticesTypeOK, Scan
<1>4. \A k \in Letters : k # "none"
  BY DEF Letters, Warning, Reminder
<1>5. \A k \in Letters : Busy(k)' = IF k = kind THEN Busy(k) \union {w} ELSE Busy(k)
  BY <1>1, <1>2, <1>4 DEF Busy, Resting
<1>6. \A k \in Letters, s \in Stays : Holding(k, s)' =
        IF k = kind /\ s \in due THEN Holding(k, s) \union {w} ELSE Holding(k, s)
  BY <1>1, <1>2, <1>4 DEF Busy, Holding, Resting
<1>7. IsFiniteSet(Busy(kind)') /\ Cardinality(Busy(kind)') <= 1 + overlaps'[kind]
  <2>1. IsFiniteSet(Busy(kind)) /\ Cardinality(Busy(kind)) \in Nat
        /\ Cardinality(Busy(kind)) <= 1 + overlaps[kind] /\ overlaps[kind] \in Nat
    BY FS_CardinalityType DEF FewScans, NoticesTypeOK
  <2>2. IsFiniteSet(Busy(kind)') /\ Cardinality(Busy(kind)') <= Cardinality(Busy(kind)) + 1
    <3>1. /\ IsFiniteSet(Busy(kind) \union {w})
          /\ Cardinality(Busy(kind) \union {w})
               = IF w \in Busy(kind) THEN Cardinality(Busy(kind)) ELSE Cardinality(Busy(kind)) + 1
      BY <2>1, FS_AddElement
    <3>2. Busy(kind)' = Busy(kind) \union {w}
      BY <1>5
    <3>3. QED BY <2>1, <3>1, <3>2
  <2>3. CASE running
    <3>1. overlaps'[kind] = overlaps[kind] + 1
      BY <1>1, <2>3 DEF NoticesTypeOK
    <3>2. Cardinality(Busy(kind)') \in Nat
      BY <2>2, FS_CardinalityType
    <3>3. QED BY <2>1, <2>2, <3>1, <3>2
  <2>4. CASE ~running
    <3>1. Busy(kind) = {} /\ overlaps' = overlaps
      BY <1>1, <2>4 DEF Busy
    <3>2. Busy(kind)' = {w}
      BY <1>5, <3>1
    <3>3. Cardinality(Busy(kind)') = 1
      BY <3>2, FS_Singleton
    <3>4. QED BY <2>1, <2>2, <3>1, <3>3
  <2>5. QED BY <2>3, <2>4
<1>8. \A k \in Letters : k # kind => overlaps'[k] = overlaps[k]
  BY <1>1 DEF NoticesTypeOK
<1>9. FewScans'
  BY <1>5, <1>7, <1>8 DEF FewScans
<1>10. \A k \in Letters, s \in Stays : Marked(k, s)' = Marked(k, s)
  BY <1>1 DEF Marked
<1>11. FewLetters'
  <2> SUFFICES ASSUME NEW k \in Letters, NEW s \in Stays
               PROVE  /\ letters'[k][s] + Cardinality(Holding(k, s)') <= 1 + overlaps'[k]
                      /\ Marked(k, s)' <=> letters'[k][s] > 0
    BY DEF FewLetters
  <2>1. CASE k = kind /\ s \in due
    <3>1. letters[k][s] \in Nat /\ ~(letters[k][s] > 0)
      BY <2>1 DEF NoticesTypeOK, FewLetters
    <3>2. IsFiniteSet(Busy(k)') /\ Holding(k, s)' \in SUBSET Busy(k)'
      BY <1>9 DEF FewScans, Holding
    <3>3. Cardinality(Holding(k, s)') <= Cardinality(Busy(k)') /\ Cardinality(Holding(k, s)') \in Nat
          /\ Cardinality(Busy(k)') \in Nat
      BY <3>2, NotMore
    <3>4. Cardinality(Busy(k)') <= 1 + overlaps'[k] /\ overlaps'[k] \in Nat
      BY <1>3, <1>7, <2>1 DEF NoticesTypeOK
    <3>5. letters'[k][s] = 0 /\ ~Marked(k, s)'
      BY <1>1, <1>10, <2>1, <3>1
    <3>6. QED BY <3>3, <3>4, <3>5
  <2>2. CASE ~(k = kind /\ s \in due)
    <3>1. Holding(k, s)' \subseteq Holding(k, s) /\ letters'[k][s] = letters[k][s]
          /\ Marked(k, s)' = Marked(k, s)
      BY <1>1, <1>6, <1>10, <2>2
    <3>2. overlaps'[k] \in {overlaps[k], overlaps[k] + 1}
      BY <1>1 DEF NoticesTypeOK
    <3>3. QED BY <3>1, <3>2, FewLettersKeep
  <2>3. QED BY <2>1, <2>2
<1>12. NobodyPassedOver'
  BY <1>1, <1>2 DEF NobodyPassedOver
<1>13. QED BY <1>3, <1>9, <1>11, <1>12

(* A transaction of a scan commits: a letter, its mark, and the scan ahead. *)
LEMMA LetterKeeps ==
  ASSUME NoticesInv, NEW w \in Workers, NEW kind \in Letters, scans[w].kind = kind,
         NEW s \in scans[w].todo, Mail(kind, s), Ahead(w, s), UNCHANGED <<mishaps, overlaps>>,
         \A k \in Letters, t \in Stays :
           Marked(k, t)' <=> (Marked(k, t) \/ (k = kind /\ t = s)),
         stays' \in [Stays -> [status : {"confirmed", "cancelled"},
                               balance : {"owed", "paid", "failed"},
                               warned : BOOLEAN, reminded : BOOLEAN]]
  PROVE  NoticesInv'
<1> USE DEF NoticesInv
<1>1. s \in Stays
  BY DEF NoticesTypeOK, Scan, Resting, Letters, Warning, Reminder
<1>2. \A k \in Letters, t \in Stays :
        letters'[k][t] = IF k = kind /\ t = s THEN letters[k][t] + 1 ELSE letters[k][t]
  BY DEF Mail, NoticesTypeOK
<1>3. letters' \in [Letters -> [Stays -> Nat]]
  <2>1. letters \in [Letters -> [Stays -> Nat]] /\ letters[kind][s] + 1 \in Nat
    BY <1>1 DEF NoticesTypeOK
  <2> DEFINE more == letters[kind][s] + 1
  <2>2. letters' = [letters EXCEPT ![kind][s] = more]
    BY DEF Mail
  <2> HIDE DEF more
  <2>3. QED BY <2>1, <2>2 DEF more
<1>4. NoticesTypeOK'
  BY <1>3, AheadMoves DEF NoticesTypeOK
<1>9. MovesOn(w, s)
  BY AheadMoves
<1>5. FewScans'
  BY AheadMoves, FewerScansKeep
<1>6. FewLetters'
  <2> SUFFICES ASSUME NEW k \in Letters, NEW t \in Stays
               PROVE  /\ letters'[k][t] + Cardinality(Holding(k, t)') <= 1 + overlaps'[k]
                      /\ Marked(k, t)' <=> letters'[k][t] > 0
    BY DEF FewLetters
  <2>1. CASE k = kind /\ t = s
    <3>1. IsFiniteSet(Holding(k, t)) /\ Cardinality(Holding(k, t)) \in Nat
      BY CountsAreNat
    <3>2. w \in Holding(k, t) /\ Holding(k, t)' \in SUBSET (Holding(k, t) \ {w})
      BY <2>1, AheadMoves DEF Holding, Busy
    <3>3. IsFiniteSet(Holding(k, t) \ {w})
          /\ Cardinality(Holding(k, t) \ {w}) = Cardinality(Holding(k, t)) - 1
      BY <3>1, <3>2, FS_RemoveElement
    <3>4. Cardinality(Holding(k, t)') <= Cardinality(Holding(k, t) \ {w})
          /\ Cardinality(Holding(k, t)') \in Nat
      BY <3>2, <3>3, NotMore
    <3>5. letters[k][t] \in Nat /\ overlaps[k] \in Nat /\ overlaps'[k] = overlaps[k]
      BY DEF NoticesTypeOK
    <3>6. letters[k][t] + Cardinality(Holding(k, t)) <= 1 + overlaps[k]
      BY DEF FewLetters
    <3>7. letters'[k][t] = letters[k][t] + 1 /\ Marked(k, t)'
      BY <1>2, <2>1
    <3>8. QED BY <3>1, <3>3, <3>4, <3>5, <3>6, <3>7
  <2>2. CASE ~(k = kind /\ t = s)
    <3>1. Holding(k, t)' \subseteq Holding(k, t) /\ letters'[k][t] = letters[k][t]
      BY <1>2, <2>2, AheadMoves
    <3>2. Marked(k, t)' <=> Marked(k, t)
      BY <2>2
    <3>3. QED BY <3>1, <3>2, FewLettersKeep
  <2>3. QED BY <2>1, <2>2
<1>7. NobodyPassedOver'
  <2> SUFFICES ASSUME NEW v \in Workers, scans'[v].kind # "none",
                      NEW t \in scans'[v].due \ (scans'[v].todo \union Broken)
               PROVE  letters'[scans'[v].kind][t] > 0
    BY DEF NobodyPassedOver
  <2>1. scans'[v].kind = scans[v].kind /\ scans'[v].due = scans[v].due
        /\ scans'[v].todo = IF v = w THEN scans[v].todo \ {s} ELSE scans[v].todo
    BY <1>9 DEF MovesOn
  <2>2. scans[v].kind \in Letters /\ t \in Stays
    BY <2>1 DEF NoticesTypeOK, Scan, Resting, Letters
  <2>3. letters[scans[v].kind][t] \in Nat
    BY <2>2 DEF NoticesTypeOK
  <2>4. CASE t \in scans[v].todo
    BY <1>2, <2>1, <2>2, <2>3, <2>4
  <2>5. CASE t \notin scans[v].todo
    <3>1. letters[scans[v].kind][t] > 0
      BY <2>1, <2>5 DEF NobodyPassedOver
    <3>2. QED BY <1>2, <2>1, <2>2, <2>3, <3>1
  <2>6. QED BY <2>4, <2>5
<1>10. QED BY <1>4, <1>5, <1>6, <1>7

(* Nothing is written and no scan begins: a row that fails, a scan that     *)
(* dies, a payment, a cancellation, the next day.                          *)
LEMMA QuietKeeps ==
  ASSUME NoticesInv, NoticesTypeOK', UNCHANGED <<letters, overlaps>>,
         \A kind \in Letters : Busy(kind)' \subseteq Busy(kind),
         \A kind \in Letters, s \in Stays : Holding(kind, s)' \subseteq Holding(kind, s),
         \A kind \in Letters, s \in Stays : Marked(kind, s)' <=> Marked(kind, s),
         \A w \in Workers : scans'[w].kind # "none" =>
           /\ scans'[w].kind = scans[w].kind /\ scans'[w].due = scans[w].due
           /\ scans[w].todo \subseteq scans'[w].todo \union Broken
  PROVE  NoticesInv'
<1> USE DEF NoticesInv
<1>1. FewScans'
  BY FewerScansKeep
<1>2. FewLetters'
  <2> SUFFICES ASSUME NEW k \in Letters, NEW s \in Stays
               PROVE  /\ letters'[k][s] + Cardinality(Holding(k, s)') <= 1 + overlaps'[k]
                      /\ Marked(k, s)' <=> letters'[k][s] > 0
    BY DEF FewLetters
  <2>1. QED BY FewLettersKeep
<1>3. NobodyPassedOver'
  BY DEF NobodyPassedOver
<1>4. QED BY <1>1, <1>2, <1>3

(* A stay's row with one of its columns written.                           *)
LEMMA StayWritten ==
  ASSUME NEW s \in Stays, NoticesTypeOK
  PROVE  LET Rows == [Stays -> [status : {"confirmed", "cancelled"},
                                balance : {"owed", "paid", "failed"},
                                warned : BOOLEAN, reminded : BOOLEAN]]
             Same(rows) == \A t \in Stays : rows[t].warned = stays[t].warned
                                            /\ rows[t].reminded = stays[t].reminded
             cancelled == [stays EXCEPT ![s].status = "cancelled"]
             warned    == [stays EXCEPT ![s].warned = TRUE]
             reminded  == [stays EXCEPT ![s].reminded = TRUE]
         IN  /\ cancelled \in Rows /\ Same(cancelled)
             /\ \A b \in {"paid", "failed"} :
                  [stays EXCEPT ![s].balance = b] \in Rows /\ Same([stays EXCEPT ![s].balance = b])
             /\ warned \in Rows /\ reminded \in Rows
             /\ \A t \in Stays :
                  /\ warned[t].warned = (stays[t].warned \/ t = s)
                  /\ warned[t].reminded = stays[t].reminded
                  /\ reminded[t].reminded = (stays[t].reminded \/ t = s)
                  /\ reminded[t].warned = stays[t].warned
BY ZenonT(40) DEF NoticesTypeOK

LEMMA NoticesStep == NoticesInv /\ [NoticesNext]_noticeVars => NoticesInv'
<1> SUFFICES ASSUME NoticesInv, [NoticesNext]_noticeVars PROVE NoticesInv'
  OBVIOUS
<1> NoticesTypeOK
  BY DEF NoticesInv
<1>1. ASSUME NEW w \in Workers, WarnBalances(w) PROVE NoticesInv'
  <2>1. DueForBalanceWarning \in SUBSET Stays /\ \A s \in DueForBalanceWarning : ~Marked(Warning, s)
    BY DEF DueForBalanceWarning, ListBookingsToWarnAboutBalance, Marked
  <2>2. QED BY <1>1, <2>1, StartKeeps DEF WarnBalances, Letters
<1>2. ASSUME NEW w \in Workers, SendCheckoutEmails(w) PROVE NoticesInv'
  <2>1. /\ ListBookingsDueForCheckoutEmail \in SUBSET Stays
        /\ \A s \in ListBookingsDueForCheckoutEmail : ~Marked(Reminder, s)
    BY DEF ListBookingsDueForCheckoutEmail, Marked, Warning, Reminder
  <2>2. QED BY <1>2, <2>1, StartKeeps DEF SendCheckoutEmails, Letters
<1>3. ASSUME NEW w \in Workers, CrashInScan(w) PROVE NoticesInv'
  <2>1. scans' = [scans EXCEPT ![w] = Resting] /\ mishaps' = mishaps + 1
        /\ UNCHANGED <<stays, letters, overlaps>>
    BY <1>3 DEF CrashInScan
  <2>2. NoticesTypeOK' /\ \A v \in Workers : scans'[v] = IF v = w THEN Resting ELSE scans[v]
    BY <2>1 DEF NoticesTypeOK, Scan
  <2>3. \A k \in Letters : k # "none"
    BY DEF Letters, Warning, Reminder
  <2>4. /\ \A kind \in Letters : Busy(kind)' \subseteq Busy(kind)
        /\ \A kind \in Letters, s \in Stays : Holding(kind, s)' \subseteq Holding(kind, s)
    BY <2>2, <2>3 DEF Busy, Holding, Resting
  <2>5. \A kind \in Letters, s \in Stays : Marked(kind, s)' <=> Marked(kind, s)
    BY <2>1 DEF Marked
  <2>6. \A v \in Workers : scans'[v].kind # "none" => scans'[v] = scans[v]
    BY <2>2 DEF Resting
  <2>7. QED BY <2>1, <2>2, <2>4, <2>5, <2>6, QuietKeeps
<1>4. ASSUME NEW w \in Workers, NEW s \in Stays, warnOne(w, s) PROVE NoticesInv'
  <2>1. /\ scans[w].kind = Warning /\ s \in scans[w].todo /\ Mail(Warning, s) /\ Ahead(w, s)
        /\ stays' = [stays EXCEPT ![s].warned = TRUE] /\ UNCHANGED <<mishaps, overlaps>>
    BY <1>4 DEF warnOne, MarkBalanceWarned
  <2>2. \A k \in Letters, t \in Stays : Marked(k, t)' <=> (Marked(k, t) \/ (k = Warning /\ t = s))
    <3>1. \A t \in Stays :
            /\ stays'[t].warned = (stays[t].warned \/ t = s) /\ stays'[t].reminded = stays[t].reminded
      BY <2>1, StayWritten
    <3>2. QED BY <3>1 DEF Marked, Letters, Warning, Reminder
  <2>3. stays' \in [Stays -> [status : {"confirmed", "cancelled"}, balance : {"owed", "paid", "failed"},
                              warned : BOOLEAN, reminded : BOOLEAN]]
    BY <2>1, StayWritten
  <2>4. QED BY <2>1, <2>2, <2>3, LetterKeeps DEF Letters
<1>5. ASSUME NEW w \in Workers, NEW s \in Stays, remindOne(w, s) PROVE NoticesInv'
  <2>1. /\ scans[w].kind = Reminder /\ s \in scans[w].todo /\ Mail(Reminder, s) /\ Ahead(w, s)
        /\ stays' = [stays EXCEPT ![s].reminded = TRUE] /\ UNCHANGED <<mishaps, overlaps>>
    BY <1>5 DEF remindOne, MarkCheckoutEmailSent
  <2>2. \A k \in Letters, t \in Stays : Marked(k, t)' <=> (Marked(k, t) \/ (k = Reminder /\ t = s))
    <3>1. \A t \in Stays :
            /\ stays'[t].reminded = (stays[t].reminded \/ t = s) /\ stays'[t].warned = stays[t].warned
      BY <2>1, StayWritten
    <3>2. QED BY <3>1 DEF Marked, Letters, Warning, Reminder
  <2>3. stays' \in [Stays -> [status : {"confirmed", "cancelled"}, balance : {"owed", "paid", "failed"},
                              warned : BOOLEAN, reminded : BOOLEAN]]
    BY <2>1, StayWritten
  <2>4. QED BY <2>1, <2>2, <2>3, LetterKeeps DEF Letters
<1>6. ASSUME NEW w \in Workers, NEW s \in Stays, Skip(w, s) PROVE NoticesInv'
  <2>1. s \in scans[w].todo /\ s \in Broken /\ Ahead(w, s)
        /\ UNCHANGED <<stays, letters, mishaps, overlaps>>
    BY <1>6 DEF Skip, Collect
  <2>2. scans[w].kind \in Letters
    BY <2>1 DEF NoticesTypeOK, Scan, Resting
  <2>3. /\ NoticesTypeOK'
        /\ \A kind \in Letters : Busy(kind)' \subseteq Busy(kind)
        /\ \A kind \in Letters, t \in Stays : Holding(kind, t)' \subseteq Holding(kind, t)
    BY <2>1, <2>2, AheadMoves DEF NoticesTypeOK
  <2>4. MovesOn(w, s)
    BY <2>1, <2>2, AheadMoves
  <2>5. \A v \in Workers : scans'[v].kind # "none" =>
           /\ scans'[v].kind = scans[v].kind /\ scans'[v].due = scans[v].due
           /\ scans[v].todo \subseteq scans'[v].todo \union Broken
    BY <2>1, <2>4 DEF MovesOn
  <2>6. \A kind \in Letters, t \in Stays : Marked(kind, t)' <=> Marked(kind, t)
    BY <2>1 DEF Marked
  <2>7. QED BY <2>1, <2>3, <2>5, <2>6, QuietKeeps
<1>7. ASSUME UNCHANGED <<letters, scans, mishaps, overlaps>>, NoticesTypeOK',
             \A t \in Stays : stays'[t].warned = stays[t].warned
                              /\ stays'[t].reminded = stays[t].reminded
      PROVE  NoticesInv'
  <2>1. \A kind \in Letters, t \in Stays : Marked(kind, t)' <=> Marked(kind, t)
    BY <1>7 DEF Marked
  <2>2. \A kind \in Letters : Busy(kind)' = Busy(kind)
                              /\ \A t \in Stays : Holding(kind, t)' = Holding(kind, t)
    BY <1>7 DEF Busy, Holding
  <2>3. QED BY <1>7, <2>1, <2>2, QuietKeeps
<1>8. ASSUME NEW s \in Stays, Settle(s) PROVE NoticesInv'
  <2>1. PICK b \in {"paid", "failed"} : stays' = [stays EXCEPT ![s].balance = b]
    BY <1>8 DEF Settle
  <2>2. UNCHANGED <<letters, scans, mishaps, overlaps>>
    BY <1>8 DEF Settle
  <2>3. NoticesTypeOK'
    BY <2>1, <2>2, StayWritten DEF NoticesTypeOK
  <2>4. QED BY <1>7, <2>1, <2>2, <2>3, StayWritten
<1>9. ASSUME NEW s \in Stays, CancelStay(s) PROVE NoticesInv'
  <2>1. stays' = [stays EXCEPT ![s].status = "cancelled"]
        /\ UNCHANGED <<letters, scans, mishaps, overlaps>>
    BY <1>9 DEF CancelStay
  <2>2. NoticesTypeOK'
    BY <2>1, StayWritten DEF NoticesTypeOK
  <2>3. QED BY <1>7, <2>1, <2>2, StayWritten
<1>10. CASE Midnight \/ UNCHANGED noticeVars
  <2>1. UNCHANGED <<stays, letters, scans, mishaps, overlaps>>
    BY <1>10 DEF Midnight, noticeVars
  <2>2. NoticesTypeOK'
    BY <2>1 DEF NoticesTypeOK
  <2>3. QED BY <1>7, <2>1, <2>2
<1>11. QED BY <1>1, <1>2, <1>3, <1>4, <1>5, <1>6, <1>8, <1>9, <1>10 DEF NoticesNext

(* A scan comes to its end only with its last guest: everybody before has   *)
(* been written to, or has failed.                                         *)
LEMMA EndReachesAll ==
  ASSUME NoticesInv, [NoticesNext]_noticeVars, NEW w \in Workers,
         scans[w] # Resting, scans'[w] = Resting, mishaps' = mishaps,
         NEW s \in scans[w].due \ Broken
  PROVE  letters'[scans[w].kind][s] > 0
<1> USE DEF NoticesInv
<1>1. /\ scans[w].kind \in Letters /\ s \in Stays /\ letters[scans[w].kind][s] \in Nat
      /\ mishaps \in Nat /\ Resting.kind = "none" /\ \A k \in Letters : k # "none"
  BY DEF NoticesTypeOK, Scan, Resting, Letters, Warning, Reminder
<1>2. s \notin scans[w].todo => letters[scans[w].kind][s] > 0
  BY <1>1 DEF NobodyPassedOver
<1>3. ASSUME NEW u \in Workers, NEW kind \in Letters, NEW due, Start(u, kind, due) PROVE FALSE
  <2>1. /\ scans[u] = Resting
        /\ scans' = [scans EXCEPT ![u] = [kind |-> kind, due |-> due, todo |-> due]]
    BY <1>3 DEF Start
  <2>2. scans'[w] = scans[w]
    BY <2>1 DEF NoticesTypeOK
  <2>3. QED BY <2>2
<1>4. ASSUME NEW u \in Workers, NEW t \in scans[u].todo, Ahead(u, t)
      PROVE  u = w /\ scans[w].todo = {t}
  <2>1. u = w
    BY <1>4 DEF Ahead, NoticesTypeOK
  <2>2. QED BY <1>1, <1>4, <2>1, AheadMoves
<1>5. ASSUME NEW u \in Workers, WarnBalances(u) \/ SendCheckoutEmails(u) \/ CrashInScan(u)
      PROVE  FALSE
  BY <1>1, <1>3, <1>5 DEF WarnBalances, SendCheckoutEmails, CrashInScan, Letters
<1>6. ASSUME NEW u \in Workers, NEW t \in Stays, NEW kind \in Letters, scans[u].kind = kind,
             t \in scans[u].todo, Mail(kind, t), Ahead(u, t)
      PROVE  letters'[scans[w].kind][s] > 0
  <2>1. u = w /\ scans[w].todo = {t}
    BY <1>4, <1>6
  <2>2. letters'[kind][s] = IF s = t THEN letters[kind][s] + 1 ELSE letters[kind][s]
    BY <1>1, <1>6 DEF Mail, NoticesTypeOK
  <2>3. QED BY <1>1, <1>2, <1>6, <2>1, <2>2
<1>7. ASSUME NEW u \in Workers, NEW t \in Stays, warnOne(u, t) \/ remindOne(u, t)
      PROVE  letters'[scans[w].kind][s] > 0
  BY <1>6, <1>7 DEF warnOne, remindOne, Letters
<1>8. ASSUME NEW u \in Workers, NEW t \in Stays, Skip(u, t)
      PROVE  letters'[scans[w].kind][s] > 0
  BY <1>2, <1>4, <1>8 DEF Skip, Collect
<1>9. ASSUME NEW t \in Stays, Settle(t) \/ CancelStay(t) PROVE FALSE
  BY <1>9 DEF Settle, CancelStay
<1>10. ASSUME Midnight \/ UNCHANGED noticeVars PROVE FALSE
  BY <1>10 DEF Midnight, noticeVars
<1>11. QED BY <1>5, <1>7, <1>8, <1>9, <1>10 DEF NoticesNext

(* warnOne: "a crash between them can neither lose a warning nor send it   *)
(* twice": a guest is marked when a letter is queued and gets one of each   *)
(* kind, and one more at most for each scan that began while another of its *)
(* kind ran; for any number of stays, runners, crashes and days.           *)
THEOREM LettersAreFew == NoticesSpec => []WrittenOnce
<1>1. NoticesInv => WrittenOnce
  <2> SUFFICES ASSUME NoticesInv, NEW s \in Stays
               PROVE  /\ letters[Warning][s] <= 1 + overlaps[Warning]
                      /\ letters[Reminder][s] <= 1 + overlaps[Reminder]
                      /\ stays[s].warned <=> letters[Warning][s] > 0
                      /\ stays[s].reminded <=> letters[Reminder][s] > 0
    BY DEF WrittenOnce
  <2>1. \A k \in Letters :
          /\ letters[k][s] <= 1 + overlaps[k]
          /\ Marked(k, s) <=> letters[k][s] > 0
    <3> SUFFICES ASSUME NEW k \in Letters
                 PROVE  letters[k][s] <= 1 + overlaps[k] /\ (Marked(k, s) <=> letters[k][s] > 0)
      OBVIOUS
    <3>1. Cardinality(Holding(k, s)) \in Nat
      BY CountsAreNat DEF NoticesInv
    <3>2. letters[k][s] \in Nat /\ overlaps[k] \in Nat
      BY DEF NoticesInv, NoticesTypeOK
    <3>3. letters[k][s] + Cardinality(Holding(k, s)) <= 1 + overlaps[k]
          /\ (Marked(k, s) <=> letters[k][s] > 0)
      BY DEF NoticesInv, FewLetters
    <3>4. letters[k][s] <= 1 + overlaps[k]
      BY <3>1, <3>2, <3>3
    <3>5. QED BY <3>3, <3>4
  <2>2. QED BY <2>1 DEF Letters, Marked, Warning, Reminder
<1>2. QED BY <1>1, NoticesInitially, NoticesStep, PTL DEF NoticesSpec

(* WarnBalances: "the guests after a bad row still hear from the inn": a    *)
(* scan that comes to its end has written to everybody it found, except     *)
(* where the transaction itself failed.                                    *)
THEOREM NobodyIsPassedOver == NoticesSpec => ScanReachesAll
<1>1. NoticesInv /\ [NoticesNext]_noticeVars =>
        [\A w \in Workers :
           scans[w] # Resting /\ scans'[w] = Resting /\ mishaps' = mishaps
             => \A s \in scans[w].due \ Broken : letters'[scans[w].kind][s] > 0]_noticeVars
  BY EndReachesAll
<1>2. QED BY <1>1, NoticesInitially, NoticesStep, PTL DEF NoticesSpec, ScanReachesAll

-----------------------------------------------------------------------------
(* The reports of errors.                                                  *)

ReportsTypeOK ==
  /\ queue \in Seq(Errors)
  /\ worker \in [phase : {"waiting", "sending", "gone"}, event : Errors \union {NoEvent},
                 flushing : BOOLEAN]
  /\ stopped \in BOOLEAN /\ dropped \in Nat /\ told \in Nat
  /\ logged \in [ever : SUBSET Errors, early : SUBSET Errors]

(* Reports in the queue, the one being posted, and those logged before      *)
(* close that are nowhere.                                                 *)
Queued  == {queue[i] : i \in 1..Len(queue)}
InHand  == IF worker.phase = "sending" THEN {worker.event} ELSE {}
Missing == logged.early \ (posted \union Queued \union InHand)

(* Every report that is nowhere was counted when the queue was full.        *)
LossesCounted == IsFiniteSet(Missing) /\ Cardinality(Missing) <= dropped

(* The worker leaves after close, so what is logged early is settled.       *)
LeavesLast == worker.phase = "gone" => stopped /\ IsFiniteSet(logged.early \ posted)

ReportsInv == ReportsTypeOK /\ LossesCounted /\ LeavesLast /\ FlushedAndTold

LEMMA ReportsInitially == ReportsInit => ReportsInv
<1> SUFFICES ASSUME ReportsInit PROVE ReportsInv
  OBVIOUS
<1> USE DEF ReportsInit
<1>1. ReportsTypeOK
  <2>1. worker.phase = "waiting" /\ worker \in [phase : {"waiting", "sending", "gone"},
                                               event : Errors \union {NoEvent}, flushing : BOOLEAN]
    OBVIOUS
  <2>2. queue \in Seq(Errors) /\ logged \in [ever : SUBSET Errors, early : SUBSET Errors]
    OBVIOUS
  <2>3. QED BY <2>1, <2>2 DEF ReportsTypeOK
<1>5. LeavesLast /\ FlushedAndTold
  BY DEF LeavesLast, FlushedAndTold
<1>2. Missing = {}
  BY DEF Missing
<1>3. LossesCounted
  BY <1>2, FS_EmptySet DEF LossesCounted
<1>6. QED BY <1>1, <1>3, <1>5 DEF ReportsInv

(* Nothing more goes missing, so the count of losses still stands.          *)
LEMMA LossesStay ==
  ASSUME ReportsTypeOK, LossesCounted, Missing' \subseteq Missing, UNCHANGED dropped
  PROVE  LossesCounted'
<1>1. Missing' \in SUBSET Missing
  OBVIOUS
<1>2. IsFiniteSet(Missing') /\ Cardinality(Missing') \in Nat /\ Cardinality(Missing) \in Nat
      /\ Cardinality(Missing') <= Cardinality(Missing)
  BY <1>1, NotMore DEF LossesCounted
<1>3. QED BY <1>2 DEF LossesCounted, ReportsTypeOK

LEMMA ReportKeeps ==
  ASSUME ReportsInv, NEW e \in Errors, report(e)
  PROVE  ReportsInv'
<1> USE DEF ReportsInv
<1>1. /\ logged' = [ever |-> logged.ever \union {e},
                    early |-> IF stopped THEN logged.early ELSE logged.early \union {e}]
      /\ UNCHANGED <<worker, stopped, told, posted>>
  BY DEF report, Log
<1>2. /\ logged' \in [ever : SUBSET Errors, early : SUBSET Errors]
      /\ logged'.early \subseteq logged.early \union {e}
      /\ stopped => logged'.early = logged.early
  BY <1>1 DEF ReportsTypeOK
<1>3. LeavesLast' /\ FlushedAndTold'
  BY <1>1, <1>2 DEF LeavesLast, FlushedAndTold
<1>4. InHand' = InHand
  BY <1>1 DEF InHand
<1>5. CASE queue' = Append(queue, e) /\ UNCHANGED dropped
  <2>1. Queued' = Queued \union {e}
    <3>1. queue \in Seq(Errors)
      BY DEF ReportsTypeOK
    <3>2. /\ Len(queue') = Len(queue) + 1 /\ Len(queue) \in Nat
          /\ \A i \in 1..Len(queue) : queue'[i] = queue[i]
          /\ queue'[Len(queue) + 1] = e
      BY <1>5, <3>1
    <3>3. QED BY <3>2 DEF Queued
  <2>2. Missing' \subseteq Missing
    BY <1>1, <1>2, <1>4, <2>1 DEF Missing
  <2>3. ReportsTypeOK'
    BY <1>1, <1>2, <1>5 DEF ReportsTypeOK
  <2>4. QED BY <1>3, <1>5, <2>2, <2>3, LossesStay
<1>6. CASE dropped' = dropped + 1 /\ UNCHANGED queue
  <2>1. Missing' \in SUBSET (Missing \union {e})
    BY <1>1, <1>2, <1>4, <1>6 DEF Missing, Queued
  <2>2. IsFiniteSet(Missing) /\ Cardinality(Missing) \in Nat /\ Cardinality(Missing) <= dropped
    BY FS_CardinalityType DEF LossesCounted
  <2>3. IsFiniteSet(Missing \union {e}) /\ Cardinality(Missing \union {e}) <= Cardinality(Missing) + 1
        /\ Cardinality(Missing \union {e}) \in Nat
    <3>1. /\ IsFiniteSet(Missing \union {e})
          /\ Cardinality(Missing \union {e})
               = IF e \in Missing THEN Cardinality(Missing) ELSE Cardinality(Missing) + 1
      BY <2>2, FS_AddElement
    <3>2. QED BY <2>2, <3>1
  <2>4. IsFiniteSet(Missing') /\ Cardinality(Missing') <= Cardinality(Missing \union {e})
        /\ Cardinality(Missing') \in Nat
    BY <2>1, <2>3, NotMore
  <2>5. dropped \in Nat
    BY DEF ReportsTypeOK
  <2>6. LossesCounted'
    BY <1>6, <2>2, <2>3, <2>4, <2>5 DEF LossesCounted
  <2>7. ReportsTypeOK'
    BY <1>1, <1>2, <1>6, <2>5 DEF ReportsTypeOK
  <2>8. QED BY <1>3, <2>6, <2>7
<1>7. QED BY <1>5, <1>6 DEF report

(* The worker takes the first report from the queue into its hand.          *)
LEMMA ReceiveKeeps ==
  ASSUME ReportsInv, Receive
  PROVE  ReportsInv'
<1> USE DEF ReportsInv
<1>1. /\ worker.phase = "waiting" /\ queue # <<>>
      /\ worker' = [worker EXCEPT !.phase = "sending", !.event = Head(queue)]
      /\ queue' = Tail(queue) /\ UNCHANGED <<stopped, dropped, told, logged, posted>>
  BY DEF Receive
<1>2. queue \in Seq(Errors)
  BY DEF ReportsTypeOK
<1>3. /\ Head(queue) = queue[1] /\ Head(queue) \in Errors /\ queue' \in Seq(Errors)
      /\ Len(queue') = Len(queue) - 1 /\ Len(queue) \in Nat \ {0}
      /\ \A i \in 1..Len(queue') : queue'[i] = queue[i + 1]
  BY <1>1, <1>2
<1>4. Queued \subseteq Queued' \union {queue[1]}
  <2> SUFFICES ASSUME NEW i \in 1..Len(queue), i # 1 PROVE queue[i] \in Queued'
    BY DEF Queued
  <2>1. i - 1 \in 1..Len(queue') /\ queue'[i - 1] = queue[i]
    BY <1>3
  <2>2. QED BY <2>1 DEF Queued
<1>5. ReportsTypeOK' /\ worker'.phase = "sending" /\ worker'.event = queue[1]
  BY <1>1, <1>3 DEF ReportsTypeOK
<1>6. InHand = {} /\ InHand' = {queue[1]}
  BY <1>1, <1>5 DEF InHand
<1>7. Missing' \subseteq Missing
  BY <1>1, <1>4, <1>6 DEF Missing
<1>8. LossesCounted'
  BY <1>1, <1>7, LossesStay
<1>9. LeavesLast' /\ FlushedAndTold'
  BY <1>5 DEF LeavesLast, FlushedAndTold
<1>10. QED BY <1>5, <1>8, <1>9

LEMMA ReportsStep == ReportsInv /\ [ReportsNext]_reportVars => ReportsInv'
<1> SUFFICES ASSUME ReportsInv, [ReportsNext]_reportVars PROVE ReportsInv'
  OBVIOUS
<1> USE DEF ReportsInv
<1>1. ASSUME NEW e \in Errors, report(e) PROVE ReportsInv'
  BY <1>1, ReportKeeps
<1>2. ASSUME close PROVE ReportsInv'
  <2>1. stopped' = TRUE /\ UNCHANGED <<queue, worker, dropped, told, logged, posted>>
    BY <1>2 DEF close
  <2>2. ReportsTypeOK' /\ LeavesLast' /\ FlushedAndTold'
    BY <2>1 DEF ReportsTypeOK, LeavesLast, FlushedAndTold
  <2>3. Missing' = Missing
    BY <2>1 DEF Missing, Queued, InHand
  <2>4. QED BY <2>1, <2>2, <2>3, LossesStay
<1>3. ASSUME Receive PROVE ReportsInv'
  BY <1>3, ReceiveKeeps
<1>4. ASSUME send PROVE ReportsInv'
  <2>1. /\ worker.phase = "sending" /\ posted' = posted \union {worker.event}
        /\ worker' = [worker EXCEPT !.phase = "waiting", !.event = NoEvent]
        /\ UNCHANGED <<queue, stopped, dropped, told, logged>>
    BY <1>4 DEF send
  <2>2. ReportsTypeOK' /\ worker'.phase = "waiting"
    BY <2>1 DEF ReportsTypeOK
  <2>3. Missing' \subseteq Missing
    BY <2>1 DEF Missing, Queued, InHand
  <2>4. LeavesLast' /\ FlushedAndTold'
    BY <2>2 DEF LeavesLast, FlushedAndTold
  <2>5. QED BY <2>1, <2>2, <2>3, <2>4, LossesStay
<1>5. ASSUME Flush PROVE ReportsInv'
  <2>1. worker.phase = "waiting" /\ stopped /\ UNCHANGED <<queue, stopped, dropped, logged, posted>>
    BY <1>5 DEF Flush
  <2>2. CASE worker' = [worker EXCEPT !.flushing = TRUE] /\ UNCHANGED told
    <3>1. ReportsTypeOK' /\ worker'.phase = "waiting"
      BY <2>1, <2>2 DEF ReportsTypeOK
    <3>2. Missing' = Missing
      BY <2>1, <3>1 DEF Missing, Queued, InHand
    <3>3. LeavesLast' /\ FlushedAndTold'
      BY <3>1 DEF LeavesLast, FlushedAndTold
    <3>4. QED BY <2>1, <3>1, <3>2, <3>3, LossesStay
  <2>3. CASE queue = <<>> /\ Gone /\ reportDrops
    <3>1. ReportsTypeOK' /\ worker'.phase = "gone" /\ told' = dropped
      BY <2>1, <2>3 DEF ReportsTypeOK, Gone, reportDrops
    <3>2. Missing = logged.early \ posted /\ Missing' = Missing
      BY <2>1, <2>3, <3>1 DEF Missing, Queued, InHand
    <3>3. LeavesLast' /\ FlushedAndTold'
      BY <2>1, <3>1, <3>2 DEF LeavesLast, FlushedAndTold, LossesCounted
    <3>4. QED BY <2>1, <3>1, <3>2, <3>3, LossesStay
  <2>4. QED BY <1>5, <2>2, <2>3 DEF Flush
<1>6. CASE UNCHANGED reportVars
  BY <1>6 DEF reportVars, ReportsTypeOK, LossesCounted, Missing, Queued, InHand, LeavesLast,
              FlushedAndTold
<1>7. QED BY <1>1, <1>2, <1>3, <1>4, <1>5, <1>6 DEF ReportsNext

(* Close: "flushes what is queued and stops the worker", "A dropped event   *)
(* is counted": when the worker has left, every error logged before close   *)
(* has been posted or is among those said to be dropped; for any depth of   *)
(* the queue and any number of errors.                                     *)
THEOREM NothingLostUntold == ReportsSpec => []FlushedAndTold
<1>1. ReportsInv => FlushedAndTold
  BY DEF ReportsInv
<1>2. QED BY <1>1, ReportsInitially, ReportsStep, PTL DEF ReportsSpec
=============================================================================
