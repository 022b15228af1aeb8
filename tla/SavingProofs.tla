----------------------------- MODULE SavingProofs -----------------------------
(***************************************************************************)
(* What the console saves whole: the documents of the site, for any number *)
(* of savers, readers and saves, and the nightly calendar that is rebuilt  *)
(* from the seasons, for any seasons, horizon and number of editors.       *)
(***************************************************************************)
EXTENDS Content, Rates, FiniteSetTheorems, WellFoundedInduction, TLAPS

-----------------------------------------------------------------------------
(* The documents.                                                          *)

AnyRow == [id : Nat, of : Nat, by : 0..MaxSaves, shown : BOOLEAN]

Pages ==
  {"menu", "public menu", "events", "public events", "attractions", "rooms", "copy", "page", "email"}

AnySave ==
  [phase : {"deleting", "writing"}, doc : Documents, content : {"blank", "full"},
   name : 1..MaxSaves, old : SUBSET Nat, alone : BOOLEAN]

AnyView == [phase : {"reading"}, page : Pages, got : Seq(SUBSET AnyRow)]

ContentTypeOK ==
  /\ tables \in [Tables -> SUBSET AnyRow]
  /\ saves \in [Savers -> {Quiet} \union AnySave]
  /\ views \in [Readers -> {Quiet} \union AnyView]
  /\ begun \in 0..MaxSaves

(* A save that nobody has overlapped still finds the rows it found when it  *)
(* began, and a room is saved by one transaction at a time.                *)
AloneFindsAll ==
  \A s \in Savers, d \in Documents : saves[s] # Quiet /\ saves[s].doc = d =>
    /\ d = "room" => saves[s].alone
    /\ saves[s].alone => Rivals(s, d) = {} /\ saves[s].old = Present(d)

(* The foreign keys of the tables that cascade.                            *)
NoOrphans ==
  /\ \A row \in tables["menu_items"] : row.of \in Present("menu")
  /\ \A row \in tables["event_photos"] : row.of \in Present("events")

(* A save's rows have the two ids it was given, and no other's.             *)
Keys2(by) == {by, by + MaxSaves}
Parents(rows)  == \A row \in rows : row.by \in 1..MaxSaves /\ row.id \in Keys2(row.by)
Belongings(rows) == \A row \in rows : row.by \in 1..MaxSaves /\ row.of \in Keys2(row.by)

Signed ==
  /\ Parents(tables["menu_sections"]) /\ Parents(tables["events"])
  /\ Belongings(tables["menu_items"]) /\ Belongings(tables["event_photos"])

TwoTier == {"menu", "public menu", "events", "public events"}

ReadSigned ==
  \A r \in Readers : views[r] # Quiet /\ views[r].page \in TwoTier =>
    /\ Len(views[r].got) \in 1..2 /\ Parents(views[r].got[1])
    /\ Len(views[r].got) = 2 => Belongings(views[r].got[2])

OneRoom == \A room \in tables["rooms"] : room.id = RoomId

ContentInv ==
  ContentTypeOK /\ AloneFindsAll /\ NoOrphans /\ Signed /\ ReadSigned /\ OneRoom /\ RoomIsOneSave

-----------------------------------------------------------------------------
(* A row that a save writes is signed by it.                               *)
LEMMA RowTyped ==
  ASSUME NEW v \in AnySave, NEW id, id \in Nat, NEW of, of \in Nat, NEW shown, shown \in BOOLEAN
  PROVE  Row(v, id, of, shown) \subseteq AnyRow
<1>1. v.name \in 0..MaxSaves
  BY SaverAssumption DEF AnySave, SaverAssumption
<1>2. [id |-> id, of |-> of, by |-> v.name, shown |-> shown] \in AnyRow
  BY <1>1 DEF AnyRow
<1>3. QED BY <1>2 DEF Row

LEMMA RowKey ==
  ASSUME NEW v, NEW id, NEW of, NEW shown, NEW row \in Row(v, id, of, shown)
  PROVE  row.id = id
BY DEF Row

LEMMA RowOwner ==
  ASSUME NEW v, NEW id, NEW of, NEW shown, NEW row \in Row(v, id, of, shown)
  PROVE  row.of = of
BY DEF Row

LEMMA RowBy ==
  ASSUME NEW v, NEW id, NEW of, NEW shown, NEW row \in Row(v, id, of, shown)
  PROVE  row.by = v.name
BY DEF Row

LEMMA MenuWritten ==
  ASSUME NEW v \in AnySave
  PROVE  /\ MenuRows(v, "menu_sections") \subseteq AnyRow
         /\ MenuRows(v, "menu_items") \subseteq AnyRow
         /\ Parents(MenuRows(v, "menu_sections")) /\ Belongings(MenuRows(v, "menu_items"))
         /\ \A row \in MenuRows(v, "menu_items") :
              row.of \in {section.id : section \in MenuRows(v, "menu_sections")}
<1>1. v.name \in Nat /\ v.name \in 1..MaxSaves /\ v.name + MaxSaves \in Nat /\ 0 \in Nat
      /\ TRUE \in BOOLEAN /\ FALSE \in BOOLEAN
  BY SaverAssumption DEF AnySave, SaverAssumption
<1>2. /\ MenuRows(v, "menu_sections") \subseteq AnyRow
      /\ \A row \in MenuRows(v, "menu_sections") : row.id = v.name /\ row.by = v.name
  <2>1. MenuRows(v, "menu_sections") = Row(v, v.name, 0, TRUE)
    BY DEF MenuRows, CreateMenuSection
  <2>2. Row(v, v.name, 0, TRUE) \subseteq AnyRow
    BY <1>1, RowTyped
  <2>3. \A row \in Row(v, v.name, 0, TRUE) : row.id = v.name
    BY RowKey
  <2>4. \A row \in Row(v, v.name, 0, TRUE) : row.by = v.name
    BY RowBy
  <2>5. QED BY <2>1, <2>2, <2>3, <2>4
<1>3. MenuRows(v, "menu_items") = UNION {CreateMenuItem(v, p.id) : p \in CreateMenuSection(v)}
  BY DEF MenuRows, Children
<1>4. CreateMenuItem(v, v.name) \subseteq AnyRow
      /\ \A row \in CreateMenuItem(v, v.name) : row.of = v.name /\ row.by = v.name
  <2>1. Row(v, v.name, v.name, TRUE) \subseteq AnyRow
        /\ Row(v, v.name + MaxSaves, v.name, FALSE) \subseteq AnyRow
    BY <1>1, RowTyped
  <2>2. /\ \A row \in Row(v, v.name, v.name, TRUE) : row.of = v.name
        /\ \A row \in Row(v, v.name + MaxSaves, v.name, FALSE) : row.of = v.name
    BY RowOwner
  <2>3. /\ \A row \in Row(v, v.name, v.name, TRUE) : row.by = v.name
        /\ \A row \in Row(v, v.name + MaxSaves, v.name, FALSE) : row.by = v.name
    BY RowBy
  <2>4. QED BY <2>1, <2>2, <2>3 DEF CreateMenuItem
<1>5. /\ MenuRows(v, "menu_items") \subseteq AnyRow
      /\ \A row \in MenuRows(v, "menu_items") : row.of = v.name /\ row.by = v.name
      /\ MenuRows(v, "menu_items") # {} => MenuRows(v, "menu_sections") # {}
  BY <1>2, <1>3, <1>4 DEF MenuRows
<1>6. Parents(MenuRows(v, "menu_sections")) /\ Belongings(MenuRows(v, "menu_items"))
  BY <1>1, <1>2, <1>5 DEF Parents, Belongings, Keys2
<1>7. \A row \in MenuRows(v, "menu_items") :
              row.of \in {section.id : section \in MenuRows(v, "menu_sections")}
  BY <1>2, <1>5
<1>8. QED BY <1>2, <1>5, <1>6, <1>7

LEMMA EventsWritten ==
  ASSUME NEW v \in AnySave
  PROVE  /\ EventRows(v, "events") \subseteq AnyRow
         /\ EventRows(v, "event_photos") \subseteq AnyRow
         /\ Parents(EventRows(v, "events")) /\ Belongings(EventRows(v, "event_photos"))
         /\ \A row \in EventRows(v, "event_photos") :
              row.of \in {event.id : event \in EventRows(v, "events")}
<1>1. v.name \in Nat /\ v.name \in 1..MaxSaves /\ v.name + MaxSaves \in Nat /\ 0 \in Nat
      /\ TRUE \in BOOLEAN /\ FALSE \in BOOLEAN
  BY SaverAssumption DEF AnySave, SaverAssumption
<1>2. /\ EventRows(v, "events") \subseteq AnyRow
      /\ \A row \in EventRows(v, "events") :
           row.by = v.name /\ row.id \in {v.name, v.name + MaxSaves}
  <2>1. EventRows(v, "events") = Row(v, v.name, 0, TRUE) \union Row(v, v.name + MaxSaves, 0, FALSE)
    BY DEF EventRows, CreateEvent
  <2>2. Row(v, v.name, 0, TRUE) \subseteq AnyRow
        /\ Row(v, v.name + MaxSaves, 0, FALSE) \subseteq AnyRow
    BY <1>1, RowTyped
  <2>3. /\ \A row \in Row(v, v.name, 0, TRUE) : row.id = v.name
        /\ \A row \in Row(v, v.name + MaxSaves, 0, FALSE) : row.id = v.name + MaxSaves
    BY RowKey
  <2>4. /\ \A row \in Row(v, v.name, 0, TRUE) : row.by = v.name
        /\ \A row \in Row(v, v.name + MaxSaves, 0, FALSE) : row.by = v.name
    BY RowBy
  <2>5. QED BY <2>1, <2>2, <2>3, <2>4
<1>3. EventRows(v, "event_photos") = UNION {CreateEventPhoto(v, p.id) : p \in EventRows(v, "events")}
  BY DEF EventRows, Children
<1>4. ASSUME NEW id \in {v.name, v.name + MaxSaves}
      PROVE  /\ CreateEventPhoto(v, id) \subseteq AnyRow
             /\ \A row \in CreateEventPhoto(v, id) : row.of = id /\ row.by = v.name
  <2>1. id \in Nat
    BY <1>1
  <2>2. CreateEventPhoto(v, id) = Row(v, id, id, TRUE)
    BY DEF CreateEventPhoto
  <2>3. Row(v, id, id, TRUE) \subseteq AnyRow
    BY <1>1, <2>1, RowTyped
  <2>4. \A row \in Row(v, id, id, TRUE) : row.of = id
    BY RowOwner
  <2>5. \A row \in Row(v, id, id, TRUE) : row.by = v.name
    BY RowBy
  <2>6. QED BY <2>2, <2>3, <2>4, <2>5
<1>5. /\ EventRows(v, "event_photos") \subseteq AnyRow
      /\ \A row \in EventRows(v, "event_photos") :
           /\ row.by = v.name /\ row.of \in {v.name, v.name + MaxSaves}
           /\ row.of \in {event.id : event \in EventRows(v, "events")}
  <2> SUFFICES ASSUME NEW row \in EventRows(v, "event_photos")
               PROVE  /\ row \in AnyRow
                      /\ row.by = v.name /\ row.of \in {v.name, v.name + MaxSaves}
                      /\ row.of \in {event.id : event \in EventRows(v, "events")}
    OBVIOUS
  <2>1. PICK p \in EventRows(v, "events") : row \in CreateEventPhoto(v, p.id)
    BY <1>3
  <2>2. row \in AnyRow /\ row.of = p.id /\ row.by = v.name /\ p.id \in {v.name, v.name + MaxSaves}
    BY <1>2, <1>4, <2>1
  <2>3. QED BY <2>2
<1>6. Parents(EventRows(v, "events")) /\ Belongings(EventRows(v, "event_photos"))
  BY <1>1, <1>2, <1>5 DEF Parents, Belongings, Keys2
<1>7. QED BY <1>2, <1>5, <1>6

LEMMA OthersWritten ==
  ASSUME NEW v \in AnySave
  PROVE  /\ CreateLocalAttraction(v) \subseteq AnyRow /\ CreatePagePhoto(v) \subseteq AnyRow
         /\ \A t \in {"room_photos", "room_beds"} :
              /\ RoomRows(v, t) \subseteq AnyRow
              /\ \A row \in RoomRows(v, t) : row.of = RoomId /\ row.by = v.name
<1>1. v.name \in Nat /\ 0 \in Nat /\ RoomId \in Nat /\ TRUE \in BOOLEAN
  BY SaverAssumption DEF AnySave, SaverAssumption, RoomId
<1>2. Row(v, v.name, 0, TRUE) \subseteq AnyRow /\ Row(v, v.name, RoomId, TRUE) \subseteq AnyRow
  BY <1>1, RowTyped
<1>3. \A row \in Row(v, v.name, RoomId, TRUE) : row.of = RoomId
  BY RowOwner
<1>4. \A row \in Row(v, v.name, RoomId, TRUE) : row.by = v.name
  BY RowBy
<1>5. QED BY <1>2, <1>3, <1>4 DEF CreateLocalAttraction, CreatePagePhoto, RoomRows,
                                CreateRoomPhoto, CreateRoomBed

(* Which tables a document has.                                            *)
LEMMA TablesOf ==
  /\ Replaced["menu"] = {"menu_sections"} /\ Cascaded["menu"] = {"menu_items"}
  /\ Replaced["events"] = {"events"} /\ Cascaded["events"] = {"event_photos"}
  /\ Replaced["attractions"] = {"local_attractions"} /\ Cascaded["attractions"] = {}
  /\ Replaced["gallery"] = {"page_photos"} /\ Cascaded["gallery"] = {}
  /\ Replaced["room"] = {"room_photos", "room_beds"} /\ Cascaded["room"] = {}
  /\ Documents = {"menu", "events", "attractions", "gallery", "room"}
  /\ Tables = {"menu_sections", "menu_items", "events", "event_photos", "local_attractions",
               "page_photos", "room_photos", "room_beds", "rooms", "page_copy", "email_templates"}
<1>1. /\ Replaced["menu"] = {"menu_sections"} /\ Cascaded["menu"] = {"menu_items"}
      /\ Replaced["events"] = {"events"} /\ Cascaded["events"] = {"event_photos"}
      /\ Replaced["attractions"] = {"local_attractions"} /\ Cascaded["attractions"] = {}
      /\ Replaced["gallery"] = {"page_photos"} /\ Cascaded["gallery"] = {}
      /\ Replaced["room"] = {"room_photos", "room_beds"} /\ Cascaded["room"] = {}
  BY DEF Replaced, Cascaded
<1>2. Documents = {"menu", "events", "attractions", "gallery", "room"}
  BY DEF Documents, Lists
<1>3. UNION {Replaced[d] \union Cascaded[d] : d \in Documents} =
        {"menu_sections", "menu_items", "events", "event_photos", "local_attractions",
         "page_photos", "room_photos", "room_beds"}
  BY <1>1, <1>2
<1>4. Tables = {"menu_sections", "menu_items", "events", "event_photos", "local_attractions",
                "page_photos", "room_photos", "room_beds", "rooms", "page_copy", "email_templates"}
  BY <1>3 DEF Tables, Words
<1>5. QED BY <1>1, <1>2, <1>4

(* What a document's tables hold once it is saved: rows the DELETE did not  *)
(* take, and the save's own.                                               *)
LEMMA WrittenTyped ==
  ASSUME NEW v \in AnySave, NEW t \in Replaced[v.doc] \union Cascaded[v.doc]
  PROVE  Written(v, t) \subseteq AnyRow
<1>1. v.doc \in {"menu", "events", "attractions", "gallery", "room"}
  BY TablesOf DEF AnySave
<1>2. CASE v.doc = "menu"
  BY <1>2, TablesOf, MenuWritten DEF Written
<1>3. CASE v.doc = "events"
  BY <1>3, TablesOf, EventsWritten DEF Written
<1>4. CASE v.doc \in {"attractions", "gallery"}
  BY <1>4, OthersWritten DEF Written
<1>5. CASE v.doc = "room"
  BY <1>5, TablesOf, OthersWritten DEF Written
<1>6. QED BY <1>1, <1>2, <1>3, <1>4, <1>5

(* No two documents share a table.                                         *)
LEMMA TablesApart ==
  ASSUME NEW d \in Documents, NEW t \in Replaced[d] \union Cascaded[d]
  PROVE  /\ t \in Tables /\ t # "rooms" /\ t \notin Words
         /\ \A e \in Documents : t \in Replaced[e] \union Cascaded[e] => e = d
<1>1. d \in {"menu", "events", "attractions", "gallery", "room"}
  BY TablesOf
<1>2. t \in Tables /\ t # "rooms" /\ t \notin Words
  BY <1>1, TablesOf DEF Words
<1>3. ASSUME NEW e \in Documents, t \in Replaced[e] \union Cascaded[e] PROVE e = d
  <2>1. e \in {"menu", "events", "attractions", "gallery", "room"}
    BY TablesOf
  <2>2. QED BY <1>1, <1>3, <2>1, TablesOf
<1>4. QED BY <1>2, <1>3

LEMMA PresentIs ==
  ASSUME ContentTypeOK
  PROVE  /\ Present("menu") = {row.id : row \in tables["menu_sections"]}
         /\ Present("events") = {row.id : row \in tables["events"]}
         /\ \A d \in Documents : Present(d) \subseteq Nat
         /\ \A d \in Documents : \A t \in Replaced[d] : \A row \in tables[t] : row.id \in Present(d)
<1>1. /\ Present("menu") = {row.id : row \in tables["menu_sections"]}
      /\ Present("events") = {row.id : row \in tables["events"]}
  BY TablesOf DEF Present
<1>2. ASSUME NEW d \in Documents PROVE Present(d) \subseteq Nat
  <2>1. \A t \in Replaced[d] : tables[t] \subseteq AnyRow
    BY TablesApart DEF ContentTypeOK
  <2>2. QED BY <2>1 DEF Present, AnyRow
<1>3. \A d \in Documents : \A t \in Replaced[d] : \A row \in tables[t] : row.id \in Present(d)
  BY DEF Present
<1>4. QED BY <1>1, <1>2, <1>3

LEMMA ContentInitially == ContentInit => ContentInv
<1> SUFFICES ASSUME ContentInit PROVE ContentInv
  OBVIOUS
<1> DEFINE first == [id |-> RoomId, of |-> RoomId, by |-> 0, shown |-> TRUE]
<1>1. first \in AnyRow /\ first.id = RoomId /\ first.by = 0
  BY SaverAssumption DEF AnyRow, RoomId, SaverAssumption
<1>2. /\ \A t \in Tables : tables[t] = IF t = "rooms" THEN {first} ELSE {}
      /\ tables \in [Tables -> SUBSET AnyRow]
  BY <1>1 DEF ContentInit
<1> HIDE DEF first
<1>3. ContentTypeOK
  BY <1>2, SaverAssumption DEF ContentInit, ContentTypeOK, SaverAssumption
<1>4. AloneFindsAll /\ ReadSigned
  BY DEF ContentInit, AloneFindsAll, ReadSigned
<1>5. \A t \in Tables : t # "rooms" => tables[t] = {}
  BY <1>2
<1>6. NoOrphans /\ Signed
  BY <1>5, TablesOf DEF NoOrphans, Signed, Parents, Belongings
<1>7. OneRoom
  BY <1>1, <1>2, TablesOf DEF OneRoom
<1>8. RoomIsOneSave
  BY <1>5, TablesOf DEF RoomIsOneSave
<1>9. QED BY <1>3, <1>4, <1>6, <1>7, <1>8 DEF ContentInv

(* What a step leaves of the tables that matter.                           *)
LEMMA TablesKept ==
  ASSUME ContentInv, ContentTypeOK', \A t \in Tables \ Words : tables'[t] = tables[t]
  PROVE  NoOrphans' /\ Signed' /\ OneRoom' /\ RoomIsOneSave'
         /\ \A d \in Documents : Present(d)' = Present(d)
<1> USE DEF ContentInv
<1>1. /\ \A t \in {"menu_sections", "menu_items", "events", "event_photos", "rooms",
                   "room_photos", "room_beds"} : tables'[t] = tables[t]
  BY TablesOf DEF Words
<1>2. \A d \in Documents : Present(d)' = Present(d)
  BY TablesApart DEF Present
<1>3. "menu" \in Documents /\ "events" \in Documents
  BY TablesOf
<1>4. NoOrphans'
  BY <1>1, <1>2, <1>3 DEF NoOrphans
<1>5. Signed' /\ OneRoom'
  BY <1>1 DEF Signed, OneRoom
<1>6. RoomIsOneSave'
  BY <1>1, TablesOf DEF RoomIsOneSave
<1>7. QED BY <1>2, <1>4, <1>5, <1>6

LEMMA BeginKeeps ==
  ASSUME ContentInv, NEW s \in Savers, NEW d \in Documents, NEW content \in {"blank", "full"},
         d = "room" => Rivals(s, d) = {}, Begin(s, d, content)
  PROVE  ContentInv'
<1> DEFINE mine == [phase |-> "deleting", doc |-> d, content |-> content, name |-> begun + 1,
                    old |-> Present(d), alone |-> Rivals(s, d) = {}]
<1> USE DEF ContentInv
<1>1. /\ saves[s] = Quiet /\ begun < MaxSaves /\ begun' = begun + 1 /\ UNCHANGED <<tables, views>>
      /\ saves' = [t \in Savers |->
           IF t = s THEN mine
           ELSE IF t \in Rivals(s, d) THEN [saves[t] EXCEPT !.alone = FALSE] ELSE saves[t]]
  BY DEF Begin, Write
<1>2. mine \in AnySave /\ begun' \in 0..MaxSaves
  <2>1. begun + 1 \in 1..MaxSaves /\ begun + 1 \in 0..MaxSaves
    BY <1>1, SaverAssumption DEF ContentTypeOK, SaverAssumption
  <2>2. Present(d) \in SUBSET Nat
    BY PresentIs
  <2> DEFINE n == begun + 1
  <2> DEFINE them == Present(d)
  <2> DEFINE alone == Rivals(s, d) = {}
  <2>3. n \in 1..MaxSaves /\ them \in SUBSET Nat /\ alone \in BOOLEAN
    BY <2>1, <2>2
  <2> HIDE DEF n, them, alone
  <2>4. [phase |-> "deleting", doc |-> d, content |-> content, name |-> n,
         old |-> them, alone |-> alone] \in AnySave
    BY <2>3 DEF AnySave
  <2>5. QED BY <1>1, <2>1, <2>4 DEF n, them, alone
<1>3. /\ mine.doc = d /\ mine.old = Present(d) /\ (mine.alone <=> Rivals(s, d) = {})
      /\ mine # Quiet
  BY DEF Quiet
<1> HIDE DEF mine
<1>4. \A t \in Rivals(s, d) : saves[t] \in AnySave /\ saves[t].doc = d /\ t \in Savers /\ t # s
  BY DEF Rivals, ContentTypeOK
<1>5. \A t \in Rivals(s, d) :
        /\ saves'[t] \in AnySave /\ saves'[t].doc = d /\ ~saves'[t].alone
        /\ saves[t].doc = d
  BY <1>1, <1>4 DEF AnySave
<1>6. \A t \in Savers \ {s} : t \notin Rivals(s, d) => saves'[t] = saves[t]
  BY <1>1
<1>7. saves'[s] = mine
  BY <1>1
<1>8. saves' \in [Savers -> {Quiet} \union AnySave]
  <2>1. \A t \in Savers : saves'[t] \in {Quiet} \union AnySave
    BY <1>2, <1>4, <1>5, <1>6, <1>7 DEF ContentTypeOK
  <2>2. QED BY <1>1, <2>1
<1>9. ContentTypeOK'
  BY <1>1, <1>2, <1>8 DEF ContentTypeOK
<1>10. NoOrphans' /\ Signed' /\ OneRoom' /\ RoomIsOneSave' /\ Present(d)' = Present(d)
       /\ \A e \in Documents : Present(e)' = Present(e)
  BY <1>1, <1>9, TablesKept
<1>11. ReadSigned'
  BY <1>1 DEF ReadSigned
<1>12. \A t \in Savers : saves'[t] # Quiet =>
         (t = s \/ (saves[t] # Quiet /\ saves'[t].doc = saves[t].doc))
  <2> SUFFICES ASSUME NEW t \in Savers, t # s, saves'[t] # Quiet
               PROVE  saves[t] # Quiet /\ saves'[t].doc = saves[t].doc
    OBVIOUS
  <2>1. CASE t \in Rivals(s, d)
    <3>1. saves[t] # Quiet
      BY <2>1 DEF Rivals
    <3>2. QED BY <1>5, <2>1, <3>1
  <2>2. CASE t \notin Rivals(s, d)
    BY <1>6, <2>2
  <2>3. QED BY <2>1, <2>2
<1>13. AloneFindsAll'
  <2> SUFFICES ASSUME NEW t \in Savers, NEW e \in Documents, saves'[t] # Quiet, saves'[t].doc = e
               PROVE  /\ e = "room" => saves'[t].alone
                      /\ saves'[t].alone => Rivals(t, e)' = {} /\ saves'[t].old = Present(e)'
    BY DEF AloneFindsAll
  <2>1. CASE t = s
    <3>1. Rivals(s, d)' \subseteq Rivals(s, d)
      BY <1>12 DEF Rivals
    <3>2. QED BY <1>3, <1>7, <1>10, <2>1, <3>1
  <2>2. CASE t \in Rivals(s, d)
    BY <1>5, <2>2
  <2>3. CASE t # s /\ t \notin Rivals(s, d)
    <3>1. saves'[t] = saves[t] /\ saves[t].doc # d /\ saves[t].doc \in Documents
      BY <1>6, <2>3 DEF Rivals, ContentTypeOK, AnySave
    <3>2. Rivals(t, e)' \subseteq Rivals(t, e)
      BY <1>3, <1>7, <1>12, <3>1 DEF Rivals
    <3>3. Present(e)' = Present(e)
      BY <1>10
    <3>4. QED BY <3>1, <3>2, <3>3 DEF AloneFindsAll
  <2>4. QED BY <2>1, <2>2, <2>3
<1>14. QED BY <1>9, <1>10, <1>11, <1>13

LEMMA DeleteKeeps ==
  ASSUME ContentInv, NEW s \in Savers, NEW d \in Documents, Delete(s, d)
  PROVE  ContentInv'
<1> USE DEF ContentInv
<1> DEFINE was == saves[s]
<1> DEFINE found == was.old \intersect Present(d)
<1> DEFINE row == [was EXCEPT !.phase = "writing", !.old = found]
<1>1. /\ was \in AnySave /\ was.phase = "deleting" /\ was.doc = d
      /\ UNCHANGED <<tables, views, begun>>
  BY DEF Delete, ContentTypeOK, Quiet, AnySave
<1>2. saves' = [saves EXCEPT ![s] = row] /\ found \in SUBSET Nat
  BY <1>1 DEF Delete, ContentTypeOK, AnySave
<1>3. /\ row \in AnySave /\ row.doc = d /\ row.alone = was.alone /\ row.old = found
  <2> HIDE DEF was, found
  <2>1. QED BY <1>1, <1>2 DEF AnySave
<1> HIDE DEF row
<1>4. \A t \in Savers : saves'[t] = IF t = s THEN row ELSE saves[t]
  BY <1>2 DEF ContentTypeOK
<1>5. ContentTypeOK'
  BY <1>1, <1>2, <1>3 DEF ContentTypeOK
<1>6. NoOrphans' /\ Signed' /\ OneRoom' /\ RoomIsOneSave'
       /\ \A e \in Documents : Present(e)' = Present(e)
  BY <1>1, <1>5, TablesKept
<1>7. ReadSigned'
  BY <1>1 DEF ReadSigned
<1>8. was # Quiet
  BY <1>1 DEF Quiet
<1>9. \A t \in Savers, e \in Documents : Rivals(t, e)' \subseteq Rivals(t, e)
  BY <1>1, <1>3, <1>4, <1>8 DEF Rivals
<1>10. AloneFindsAll'
  <2> SUFFICES ASSUME NEW t \in Savers, NEW e \in Documents, saves'[t] # Quiet, saves'[t].doc = e
               PROVE  /\ e = "room" => saves'[t].alone
                      /\ saves'[t].alone => Rivals(t, e)' = {} /\ saves'[t].old = Present(e)'
    BY DEF AloneFindsAll
  <2>1. CASE t = s
    <3>1. d = "room" => was.alone
      BY <1>1, <1>8 DEF AloneFindsAll
    <3>2. was.alone => Rivals(s, d) = {} /\ was.old = Present(d)
      BY <1>1, <1>8 DEF AloneFindsAll
    <3>3. /\ e = d /\ saves'[t].alone = was.alone /\ saves'[t].old = was.old \intersect Present(d)
          /\ Rivals(s, d)' \subseteq Rivals(s, d) /\ Present(d)' = Present(d)
      BY <1>1, <1>3, <1>4, <1>6, <1>9, <2>1
    <3>4. QED BY <2>1, <3>1, <3>2, <3>3
  <2>2. CASE t # s
    <3>1. saves'[t] = saves[t] /\ saves[t].doc \in Documents
      BY <1>4, <2>2 DEF ContentTypeOK, AnySave
    <3>2. QED BY <1>6, <1>9, <3>1 DEF AloneFindsAll
  <2>3. QED BY <2>1, <2>2
<1>11. QED BY <1>5, <1>6, <1>7, <1>10

(* A save takes back whatever it did.                                      *)
LEMMA RollbackKeeps ==
  ASSUME ContentInv, NEW s \in Savers, Rollback(s)
  PROVE  ContentInv'
<1> USE DEF ContentInv
<1>1. saves' = [saves EXCEPT ![s] = Quiet] /\ UNCHANGED <<tables, views, begun>>
  BY DEF Rollback
<1>2. ContentTypeOK' /\ \A t \in Savers : saves'[t] = IF t = s THEN Quiet ELSE saves[t]
  BY <1>1 DEF ContentTypeOK
<1>3. NoOrphans' /\ Signed' /\ OneRoom' /\ RoomIsOneSave'
       /\ \A e \in Documents : Present(e)' = Present(e)
  BY <1>1, <1>2, TablesKept
<1>4. ReadSigned'
  BY <1>1 DEF ReadSigned
<1>5. \A t \in Savers, e \in Documents : Rivals(t, e)' \subseteq Rivals(t, e)
  BY <1>2 DEF Rivals
<1>6. AloneFindsAll'
  BY <1>2, <1>3, <1>5 DEF AloneFindsAll
<1>7. QED BY <1>2, <1>3, <1>4, <1>6

(* The rows of a document once it is saved.                                *)
LEMMA CommitWrites ==
  ASSUME ContentInv, NEW s \in Savers, Commit(s)
  PROVE  /\ saves[s] \in AnySave /\ saves[s].phase = "writing" /\ saves[s] # Quiet
         /\ \A t \in Replaced[saves[s].doc] :
              tables'[t] = {row \in tables[t] : row.id \notin saves[s].old} \union Written(saves[s], t)
         /\ \A t \in Cascaded[saves[s].doc] :
              tables'[t] = {row \in tables[t] : row.of \notin saves[s].old} \union Written(saves[s], t)
         /\ tables'["rooms"] = IF saves[s].doc = "room" THEN UpdateRoom(saves[s]) ELSE tables["rooms"]
         /\ \A t \in Tables : t \notin Replaced[saves[s].doc] \union Cascaded[saves[s].doc] \union {"rooms"}
              => tables'[t] = tables[t]
         /\ tables' \in [Tables -> SUBSET AnyRow]
<1> DEFINE v == saves[s]
<1>1. v \in AnySave /\ v.phase = "writing" /\ v # Quiet
  BY DEF Commit, ContentInv, ContentTypeOK, Quiet, AnySave
<1>2. v.doc \in Documents
  BY <1>1 DEF AnySave
<1>3. tables' = [t \in Tables |-> Committed(v, t)]
  BY DEF Commit
<1> HIDE DEF v
<1>4. \A t \in Replaced[v.doc] : t \notin Cascaded[v.doc] /\ t \in Tables /\ t # "rooms"
  <2>1. v.doc \in {"menu", "events", "attractions", "gallery", "room"}
    BY <1>2, TablesOf
  <2>2. QED BY <1>2, <2>1, TablesOf, TablesApart
<1>5. \A t \in Cascaded[v.doc] : t \notin Replaced[v.doc] /\ t \in Tables /\ t # "rooms"
  BY <1>2, <1>4, TablesApart
<1>6. \A t \in Replaced[v.doc] :
              tables'[t] = {row \in tables[t] : row.id \notin v.old} \union Written(v, t)
  BY <1>3, <1>4 DEF Committed
<1>7. \A t \in Cascaded[v.doc] :
              tables'[t] = {row \in tables[t] : row.of \notin v.old} \union Written(v, t)
  BY <1>3, <1>5 DEF Committed
<1>8. tables'["rooms"] = IF v.doc = "room" THEN UpdateRoom(v) ELSE tables["rooms"]
  BY <1>3, <1>4, <1>5, TablesOf DEF Committed
<1>9. \A t \in Tables : t \notin Replaced[v.doc] \union Cascaded[v.doc] \union {"rooms"}
              => tables'[t] = tables[t]
  BY <1>3 DEF Committed
<1>10. UpdateRoom(v) \subseteq AnyRow
  <2> SUFFICES ASSUME NEW room \in tables["rooms"] PROVE [room EXCEPT !.by = v.name] \in AnyRow
    BY DEF UpdateRoom
  <2>1. room \in AnyRow
    BY TablesOf DEF ContentInv, ContentTypeOK
  <2>2. v.name \in 0..MaxSaves
    BY <1>1, SaverAssumption DEF AnySave, SaverAssumption
  <2>3. QED BY <2>1, <2>2 DEF AnyRow
<1>11. \A t \in Tables : tables[t] \subseteq AnyRow
  BY DEF ContentInv, ContentTypeOK
<1>12. ASSUME NEW t \in Tables PROVE tables'[t] \subseteq AnyRow
  <2>1. CASE t \in Replaced[v.doc]
    BY <1>1, <1>6, <1>11, <2>1, WrittenTyped
  <2>2. CASE t \in Cascaded[v.doc]
    BY <1>1, <1>7, <1>11, <2>2, WrittenTyped
  <2>3. CASE t = "rooms"
    BY <1>8, <1>10, <1>11, <2>3
  <2>4. CASE t \notin Replaced[v.doc] \union Cascaded[v.doc] \union {"rooms"}
    BY <1>9, <1>11, <2>4
  <2>5. QED BY <2>1, <2>2, <2>3, <2>4
<1>13. tables' \in [Tables -> SUBSET AnyRow]
  BY <1>3, <1>12
<1>14. QED BY <1>1, <1>6, <1>7, <1>8, <1>9, <1>13 DEF v

LEMMA CommitKeeps ==
  ASSUME ContentInv, NEW s \in Savers, Commit(s)
  PROVE  ContentInv'
<1> DEFINE v == saves[s]
<1> USE DEF ContentInv
<1>1. v \in AnySave /\ v.phase = "writing" /\ v # Quiet /\ v.doc \in Documents
  BY CommitWrites DEF AnySave
<1>2. saves' = [saves EXCEPT ![s] = Quiet] /\ UNCHANGED <<views, begun>>
  BY DEF Commit
<1>3. ContentTypeOK' /\ \A t \in Savers : saves'[t] = IF t = s THEN Quiet ELSE saves[t]
  BY <1>2, CommitWrites DEF ContentTypeOK
<1>4. ReadSigned'
  BY <1>2 DEF ReadSigned
<1>5. \A t \in Tables : t \notin Replaced[v.doc] \union Cascaded[v.doc] \union {"rooms"}
              => tables'[t] = tables[t]
  BY CommitWrites
<1>6. /\ \A t \in Replaced[v.doc] :
           tables'[t] = {row \in tables[t] : row.id \notin v.old} \union Written(v, t)
      /\ \A t \in Cascaded[v.doc] :
           tables'[t] = {row \in tables[t] : row.of \notin v.old} \union Written(v, t)
  BY CommitWrites
<1>7. tables'["rooms"] = IF v.doc = "room" THEN UpdateRoom(v) ELSE tables["rooms"]
  BY CommitWrites
<1>8. v.doc = "room" => v.alone /\ v.old = Present("room")
  BY <1>1 DEF AloneFindsAll
<1>9. ASSUME NEW t \in Savers, t # s, saves[t] # Quiet, saves[t].doc = v.doc PROVE ~saves[t].alone
  BY <1>1, <1>9 DEF AloneFindsAll, Rivals
<1> HIDE DEF v
<1>10. AloneFindsAll'
  <2> SUFFICES ASSUME NEW t \in Savers, NEW e \in Documents, saves'[t] # Quiet, saves'[t].doc = e
               PROVE  /\ e = "room" => saves'[t].alone
                      /\ saves'[t].alone => Rivals(t, e)' = {} /\ saves'[t].old = Present(e)'
    BY DEF AloneFindsAll
  <2>1. t # s /\ saves'[t] = saves[t]
    BY <1>3
  <2>2. /\ e = "room" => saves[t].alone
        /\ saves[t].alone => Rivals(t, e) = {} /\ saves[t].old = Present(e)
    BY <2>1 DEF AloneFindsAll
  <2>3. Rivals(t, e)' \subseteq Rivals(t, e)
    BY <1>3 DEF Rivals
  <2>4. e # v.doc => Present(e)' = Present(e)
    <3> SUFFICES ASSUME e # v.doc PROVE Present(e)' = Present(e)
      OBVIOUS
    <3>1. \A q \in Replaced[e] : tables'[q] = tables[q]
      BY <1>1, <1>5, TablesApart
    <3>2. QED BY <3>1 DEF Present
  <2>5. e = v.doc => ~saves[t].alone
    BY <1>9, <2>1
  <2>6. QED BY <2>1, <2>2, <2>3, <2>4, <2>5
<1>11. NoOrphans' /\ Signed'
  <2>1. /\ {"menu_sections", "menu_items", "events", "event_photos"} \subseteq Tables
        /\ \A d \in {"attractions", "gallery", "room"} :
             Replaced[d] \intersect {"menu_sections", "menu_items", "events", "event_photos"} = {}
             /\ Cascaded[d] = {}
    BY TablesOf
  <2>2. /\ Present("menu")' = {row.id : row \in tables'["menu_sections"]}
        /\ Present("events")' = {row.id : row \in tables'["events"]}
        /\ Present("menu") = {row.id : row \in tables["menu_sections"]}
        /\ Present("events") = {row.id : row \in tables["events"]}
    BY <1>3, PresentIs, TablesOf DEF Present
  <2>3. /\ v.doc # "menu" => /\ tables'["menu_sections"] = tables["menu_sections"]
                             /\ tables'["menu_items"] = tables["menu_items"]
        /\ v.doc # "events" => /\ tables'["events"] = tables["events"]
                               /\ tables'["event_photos"] = tables["event_photos"]
    <3>1. v.doc \in {"menu", "events", "attractions", "gallery", "room"}
      BY <1>1, TablesOf
    <3>2. QED BY <1>5, <2>1, <3>1, TablesOf
  <2>4. CASE v.doc = "menu"
    <3>1. /\ tables'["menu_sections"] = {row \in tables["menu_sections"] : row.id \notin v.old}
                                          \union MenuRows(v, "menu_sections")
          /\ tables'["menu_items"] = {row \in tables["menu_items"] : row.of \notin v.old}
                                       \union MenuRows(v, "menu_items")
      BY <1>6, <2>4, TablesOf DEF Written
    <3>2. Parents(MenuRows(v, "menu_sections")) /\ Belongings(MenuRows(v, "menu_items"))
          /\ \A row \in MenuRows(v, "menu_items") :
               row.of \in {section.id : section \in MenuRows(v, "menu_sections")}
      BY <1>1, MenuWritten
    <3>3. Parents(tables'["menu_sections"]) /\ Belongings(tables'["menu_items"])
      BY <3>1, <3>2 DEF Signed, Parents, Belongings
    <3>4. \A row \in tables'["menu_items"] : row.of \in {section.id : section \in tables'["menu_sections"]}
      BY <2>2, <3>1, <3>2 DEF NoOrphans
    <3>5. Signed'
      BY <2>3, <2>4, <3>3 DEF Signed
    <3>6. NoOrphans'
      BY <2>2, <2>3, <2>4, <3>4 DEF NoOrphans
    <3>7. QED BY <3>5, <3>6
  <2>5. CASE v.doc = "events"
    <3>1. /\ tables'["events"] = {row \in tables["events"] : row.id \notin v.old}
                                          \union EventRows(v, "events")
          /\ tables'["event_photos"] = {row \in tables["event_photos"] : row.of \notin v.old}
                                       \union EventRows(v, "event_photos")
      BY <1>6, <2>5, TablesOf DEF Written
    <3>2. Parents(EventRows(v, "events")) /\ Belongings(EventRows(v, "event_photos"))
          /\ \A row \in EventRows(v, "event_photos") :
               row.of \in {event.id : event \in EventRows(v, "events")}
      BY <1>1, EventsWritten
    <3>3. Parents(tables'["events"]) /\ Belongings(tables'["event_photos"])
      BY <3>1, <3>2 DEF Signed, Parents, Belongings
    <3>4. \A row \in tables'["event_photos"] : row.of \in {event.id : event \in tables'["events"]}
      BY <2>2, <3>1, <3>2 DEF NoOrphans
    <3>5. Signed'
      BY <2>3, <2>5, <3>3 DEF Signed
    <3>6. NoOrphans'
      BY <2>2, <2>3, <2>5, <3>4 DEF NoOrphans
    <3>7. QED BY <3>5, <3>6
  <2>6. CASE v.doc # "menu" /\ v.doc # "events"
    BY <2>2, <2>3, <2>6 DEF NoOrphans, Signed
  <2>7. QED BY <2>4, <2>5, <2>6
<1>12. OneRoom' /\ RoomIsOneSave'
  <2>1. /\ Replaced["room"] = {"room_photos", "room_beds"}
        /\ {"room_photos", "room_beds", "rooms"} \subseteq Tables
    BY TablesOf
  <2>2. CASE v.doc = "room"
    <3>1. \A t \in {"room_photos", "room_beds"} : tables'[t] = RoomRows(v, t)
      <4> SUFFICES ASSUME NEW t \in {"room_photos", "room_beds"} PROVE tables'[t] = RoomRows(v, t)
        OBVIOUS
      <4>1. tables'[t] = {row \in tables[t] : row.id \notin v.old} \union RoomRows(v, t)
        BY <1>6, <2>1, <2>2 DEF Written
      <4>2. \A row \in tables[t] : row.id \in v.old
        BY <1>8, <2>1, <2>2 DEF Present
      <4>3. QED BY <4>1, <4>2
    <3>2. \A t \in {"room_photos", "room_beds"} : \A row \in tables'[t] :
            row.of = RoomId /\ row.by = v.name
      BY <1>1, <3>1, OthersWritten
    <3>3. \A room \in tables'["rooms"] : room.id = RoomId /\ room.by = v.name
      <4> SUFFICES ASSUME NEW room \in tables'["rooms"]
                   PROVE  room.id = RoomId /\ room.by = v.name
        OBVIOUS
      <4>1. PICK r \in tables["rooms"] : room = [r EXCEPT !.by = v.name]
        BY <1>7, <2>2 DEF UpdateRoom
      <4>2. r \in AnyRow /\ r.id = RoomId
        BY <2>1 DEF ContentTypeOK, OneRoom
      <4>3. QED BY <4>1, <4>2 DEF AnyRow
    <3>4. QED BY <2>1, <3>2, <3>3 DEF OneRoom, RoomIsOneSave
  <2>3. CASE v.doc # "room"
    <3>1. \A t \in {"room_photos", "room_beds", "rooms"} : tables'[t] = tables[t]
      <4>1. \A t \in {"room_photos", "room_beds"} :
              t \notin Replaced[v.doc] \union Cascaded[v.doc] \union {"rooms"}
        <5>1. "room" \in Documents
          BY TablesOf
        <5>2. QED BY <1>1, <2>1, <2>3, <5>1, TablesApart
      <4>2. QED BY <1>5, <1>7, <2>1, <2>3, <4>1
    <3>2. QED BY <2>1, <3>1 DEF OneRoom, RoomIsOneSave
  <2>4. QED BY <2>2, <2>3
<1>13. QED BY <1>3, <1>4, <1>10, <1>11, <1>12

(* The words in single rows.                                               *)
LEMMA WordsKeep ==
  ASSUME ContentInv, SaveCopy \/ SaveEmailCopy \/ ResetEmailCopy
  PROVE  ContentInv'
<1> USE DEF ContentInv
<1>1. begun < MaxSaves /\ begun' = begun + 1 /\ UNCHANGED <<saves, views>>
  BY DEF SaveCopy, SaveEmailCopy, ResetEmailCopy, Write
<1>2. PICK t \in Words, rows \in {WordRow, {}} : tables' = [tables EXCEPT ![t] = rows]
  BY DEF SaveCopy, SaveEmailCopy, ResetEmailCopy, UpsertPageCopy, DeletePageCopy,
         UpsertEmailTemplate, DeleteEmailTemplate, Words
<1>3. rows \in SUBSET AnyRow
  <2>1. [id |-> RoomId, of |-> RoomId, by |-> 0, shown |-> TRUE] \in AnyRow
    BY SaverAssumption DEF AnyRow, RoomId, SaverAssumption
  <2>2. QED BY <2>1 DEF WordRow
<1>4. t \in Tables
  BY DEF Tables
<1>5. tables' \in [Tables -> SUBSET AnyRow] /\ \A u \in Tables \ Words : tables'[u] = tables[u]
  BY <1>2, <1>3, <1>4 DEF ContentTypeOK
<1>6. begun' \in 0..MaxSaves
  BY <1>1, SaverAssumption DEF ContentTypeOK, SaverAssumption
<1>7. ContentTypeOK'
  BY <1>1, <1>5, <1>6 DEF ContentTypeOK
<1>8. NoOrphans' /\ Signed' /\ OneRoom' /\ RoomIsOneSave'
      /\ \A d \in Documents : Present(d)' = Present(d)
  BY <1>5, <1>7, TablesKept
<1>9. ReadSigned'
  BY <1>1 DEF ReadSigned
<1>10. \A s \in Savers, d \in Documents : Rivals(s, d)' = Rivals(s, d)
  BY <1>1 DEF Rivals
<1>11. AloneFindsAll'
  BY <1>1, <1>8, <1>10 DEF AloneFindsAll
<1>12. QED BY <1>7, <1>8, <1>9, <1>11

(* What a statement answers: rows of one table, or of one that belongs to   *)
(* it; those a page shows are signed like those it is made from.           *)
LEMMA AnswerSigned ==
  ASSUME ContentInv, NEW page \in Pages
  PROVE  /\ \A n \in 1..Statements(page) : Answer(page, n) \in SUBSET AnyRow
         /\ Statements(page) \in {1, 2, 3}
         /\ page \in TwoTier => /\ Statements(page) = 2
                                /\ Parents(Answer(page, 1)) /\ Belongings(Answer(page, 2))
<1> USE DEF ContentInv
<1>1. Statements(page) = IF page \in {"attractions", "email"} THEN 1 ELSE IF page = "rooms" THEN 3 ELSE 2
  BY DEF Statements
<1>2. \A t \in Tables : tables[t] \in SUBSET AnyRow
  BY DEF ContentTypeOK
<1>3. /\ ListMenuSections \in SUBSET AnyRow /\ ListMenuItems \in SUBSET AnyRow
      /\ Shown(ListMenuItems) \in SUBSET AnyRow /\ ListEvents \in SUBSET AnyRow
      /\ ListPublishedEvents \in SUBSET AnyRow /\ ListEventPhotos \in SUBSET AnyRow
      /\ ListLocalAttractions \in SUBSET AnyRow
  BY <1>2, TablesOf DEF ListMenuSections, ListMenuItems, Shown, ListEvents, ListPublishedEvents,
                        ListEventPhotos, ListLocalAttractions
<1>4. /\ ListRooms \in SUBSET AnyRow /\ ListPhotosForRooms \in SUBSET AnyRow
      /\ ListBedsForRooms \in SUBSET AnyRow /\ ListPageCopy \in SUBSET AnyRow
      /\ ListPagePhotos \in SUBSET AnyRow /\ GetPageCopy \in SUBSET AnyRow
      /\ ListPagePhotosFor \in SUBSET AnyRow /\ ListEmailTemplates \in SUBSET AnyRow
  BY <1>2, TablesOf DEF ListRooms, ListPhotosForRooms, ListBedsForRooms, ListPageCopy,
                        ListPagePhotos, GetPageCopy, ListPagePhotosFor, ListEmailTemplates
<1>5. ASSUME NEW n \in 1..Statements(page) PROVE Answer(page, n) \in SUBSET AnyRow
  <2>1. n \in {1, 2, 3} /\ (n = 3 => page = "rooms") /\ (n = 2 => page \notin {"attractions", "email"})
    BY <1>1
  <2>2. CASE page \in TwoTier
    BY <1>3, <2>1, <2>2 DEF Answer, TwoTier
  <2>3. CASE page \in {"attractions", "rooms", "copy"}
    BY <1>3, <1>4, <2>1, <2>3 DEF Answer
  <2>4. CASE page \in {"page", "email"}
    BY <1>4, <2>1, <2>4 DEF Answer
  <2>5. QED BY <2>2, <2>3, <2>4 DEF Pages, TwoTier
<1>6. ASSUME page \in TwoTier
      PROVE  Statements(page) = 2 /\ Parents(Answer(page, 1)) /\ Belongings(Answer(page, 2))
  <2>1. /\ Parents(ListMenuSections) /\ Parents(ListEvents) /\ Parents(ListPublishedEvents)
        /\ Belongings(ListMenuItems) /\ Belongings(Shown(ListMenuItems)) /\ Belongings(ListEventPhotos)
    BY DEF Signed, Parents, Belongings, ListMenuSections, ListEvents, ListPublishedEvents, Shown,
           ListMenuItems, ListEventPhotos
  <2>2. Statements(page) = 2
    BY <1>1, <1>6 DEF TwoTier
  <2>3. Answer("menu", 1) = ListMenuSections /\ Answer("public menu", 1) = ListMenuSections
    BY DEF Answer
  <2>4. Answer("menu", 2) = ListMenuItems /\ Answer("public menu", 2) = Shown(ListMenuItems)
    BY DEF Answer
  <2>5. Answer("events", 1) = ListEvents /\ Answer("public events", 1) = ListPublishedEvents
    BY DEF Answer
  <2>6. Answer("events", 2) = ListEventPhotos /\ Answer("public events", 2) = ListEventPhotos
    BY DEF Answer
  <2>7. QED BY <1>6, <2>1, <2>2, <2>3, <2>4, <2>5, <2>6 DEF TwoTier
<1>7. QED BY <1>1, <1>5, <1>6

(* A view that one reader has, and the tables as they were.                 *)
LEMMA ViewKeeps ==
  ASSUME ContentInv, NEW r \in Readers, NEW view \in {Quiet} \union AnyView,
         views' = [views EXCEPT ![r] = view], UNCHANGED <<tables, saves, begun>>,
         view # Quiet /\ view.page \in TwoTier =>
           /\ Len(view.got) \in 1..2 /\ Parents(view.got[1])
           /\ Len(view.got) = 2 => Belongings(view.got[2])
  PROVE  ContentInv'
<1> USE DEF ContentInv
<1>1. \A q \in Readers : views'[q] = IF q = r THEN view ELSE views[q]
  BY DEF ContentTypeOK
<1>2. ContentTypeOK'
  BY DEF ContentTypeOK
<1>3. NoOrphans' /\ Signed' /\ OneRoom' /\ RoomIsOneSave'
      /\ \A d \in Documents : Present(d)' = Present(d)
  BY <1>2, TablesKept
<1>4. ReadSigned'
  BY <1>1 DEF ReadSigned
<1>5. \A s \in Savers, d \in Documents : Rivals(s, d)' = Rivals(s, d)
  BY DEF Rivals
<1>6. AloneFindsAll'
  BY <1>3, <1>5 DEF AloneFindsAll
<1>7. QED BY <1>2, <1>3, <1>4, <1>6

LEMMA ReadKeeps ==
  ASSUME ContentInv, NEW r \in Readers, NEW page \in Pages, Read(r, page)
  PROVE  ContentInv'
<1> DEFINE a == Answer(page, 1)
<1> DEFINE view == [phase |-> "reading", page |-> page, got |-> <<a>>]
<1>1. 1 \in 1..Statements(page) /\ a \in SUBSET AnyRow /\ (page \in TwoTier => Parents(a))
  BY AnswerSigned
<1>2. views' = [views EXCEPT ![r] = view] /\ UNCHANGED <<tables, saves, begun>>
  BY DEF Read
<1> HIDE DEF a
<1>3. <<a>> \in Seq(SUBSET AnyRow) /\ Len(<<a>>) = 1 /\ <<a>>[1] = a
  BY <1>1
<1>4. view \in AnyView /\ view.page = page /\ view.got = <<a>>
  BY <1>3 DEF AnyView
<1> HIDE DEF view
<1>5. view.page \in TwoTier =>
           /\ Len(view.got) \in 1..2 /\ Parents(view.got[1])
           /\ Len(view.got) = 2 => Belongings(view.got[2])
  BY <1>1, <1>3, <1>4
<1>6. QED BY <1>2, <1>4, <1>5, ViewKeeps

LEMMA ReadOnKeeps ==
  ASSUME ContentInv, NEW r \in Readers, ReadOn(r)
  PROVE  ContentInv'
<1> DEFINE v == views[r]
<1> DEFINE n == Len(v.got) + 1
<1> DEFINE more == Append(v.got, Answer(v.page, n))
<1> DEFINE view == [v EXCEPT !.got = more]
<1>1. v \in AnyView /\ v # Quiet /\ v.page \in Pages /\ v.got \in Seq(SUBSET AnyRow)
  BY DEF ReadOn, ContentInv, ContentTypeOK, AnyView
<1>2. n <= Statements(v.page) /\ views' = [views EXCEPT ![r] = view]
      /\ UNCHANGED <<tables, saves, begun>>
  BY DEF ReadOn
<1>3. n \in 1..Statements(v.page)
  BY <1>1, <1>2, AnswerSigned
<1>4. Answer(v.page, n) \in SUBSET AnyRow
  BY <1>1, <1>3, AnswerSigned
<1>5. /\ more \in Seq(SUBSET AnyRow) /\ Len(more) = n
      /\ \A i \in 1..Len(v.got) : more[i] = v.got[i]
      /\ more[n] = Answer(v.page, n)
  <2> DEFINE got == v.got
  <2> DEFINE next == Answer(v.page, n)
  <2>1. got \in Seq(SUBSET AnyRow) /\ next \in SUBSET AnyRow
    BY <1>1, <1>4
  <2> HIDE DEF got, next
  <2>2. /\ Append(got, next) \in Seq(SUBSET AnyRow) /\ Len(Append(got, next)) = Len(got) + 1
        /\ \A i \in 1..Len(got) : Append(got, next)[i] = got[i]
        /\ Append(got, next)[Len(got) + 1] = next
    BY <2>1
  <2>3. QED BY <2>2 DEF got, next
<1>6. ASSUME v.page \in TwoTier
      PROVE  Len(more) = 2 /\ Parents(more[1]) /\ Belongings(more[2])
  <2>1. Len(v.got) \in 1..2 /\ Parents(v.got[1]) /\ Statements(v.page) = 2
    BY <1>1, <1>6, AnswerSigned DEF ContentInv, ReadSigned
  <2>2. n = 2 /\ Len(v.got) = 1
    BY <1>3, <2>1
  <2>3. Belongings(Answer(v.page, 2))
    BY <1>1, <1>6, AnswerSigned
  <2>4. QED BY <1>5, <2>1, <2>2, <2>3
<1> HIDE DEF more
<1>7. view \in AnyView /\ view.page = v.page /\ view.got = more
  <2> HIDE DEF v
  <2>1. QED BY <1>1, <1>5 DEF AnyView
<1> HIDE DEF view, v, n
<1>8. view.page \in TwoTier =>
           /\ Len(view.got) \in 1..2 /\ Parents(view.got[1])
           /\ Len(view.got) = 2 => Belongings(view.got[2])
  BY <1>6, <1>7
<1>9. QED BY <1>2, <1>7, <1>8, ViewKeeps

LEMMA LeaveKeeps ==
  ASSUME ContentInv, NEW r \in Readers, Leave(r)
  PROVE  ContentInv'
BY ViewKeeps DEF Leave

LEMMA ContentStep == ContentInv /\ [ContentNext]_contentVars => ContentInv'
<1> SUFFICES ASSUME ContentInv, [ContentNext]_contentVars PROVE ContentInv'
  OBVIOUS
<1>1. ASSUME NEW s \in Savers, SaveMenu(s) \/ SaveEvents(s) \/ SaveAttractions(s) \/ SavePagePhotos(s)
      PROVE  ContentInv'
  <2>1. PICK d \in {"menu", "events", "attractions", "gallery"}, content \in {"blank", "full"} :
          Begin(s, d, content)
    BY <1>1 DEF SaveMenu, SaveEvents, SaveAttractions, SavePagePhotos
  <2>2. d \in Documents /\ d # "room"
    BY TablesOf
  <2>3. QED BY <2>1, <2>2, BeginKeeps
<1>2. ASSUME NEW s \in Savers, SaveRoom(s) PROVE ContentInv'
  <2>1. PICK content \in {"blank", "full"} : Begin(s, "room", content)
    BY <1>2 DEF SaveRoom
  <2>2. "room" \in Documents /\ Rivals(s, "room") = {}
    BY <1>2, TablesOf DEF SaveRoom, RoomLocked
  <2>3. QED BY <2>1, <2>2, BeginKeeps
<1>3. ASSUME NEW s \in Savers, \/ DeleteAllMenuSections(s) \/ DeleteAllEvents(s) \/ DeletePagePhotos(s)
                               \/ DeleteRoomPhotos(s) \/ DeleteLocalAttractions(s)
      PROVE  ContentInv'
  <2>1. PICK d \in Documents : Delete(s, d)
    BY <1>3, TablesOf DEF DeleteAllMenuSections, DeleteAllEvents, DeletePagePhotos, DeleteRoomPhotos,
                          DeleteLocalAttractions
  <2>2. QED BY <2>1, DeleteKeeps
<1>4. ASSUME NEW s \in Savers, ConsoleSaves(s) PROVE ContentInv'
  BY <1>1, <1>2, <1>3, <1>4, CommitKeeps, RollbackKeeps DEF ConsoleSaves
<1>5. ASSUME NEW r \in Readers, Reads(r) PROVE ContentInv'
  <2>1. CASE \E page \in Pages : Read(r, page)
    BY <2>1, ReadKeeps
  <2>2. CASE ReadOn(r) \/ Leave(r)
    BY <2>2, ReadOnKeeps, LeaveKeeps
  <2>3. QED BY <1>5, <2>1, <2>2 DEF Reads, Pages, Menu, PublicMenu, Events, PublicEvents, Attractions,
                                    Rooms, Copy, PageFor, EmailCopy
<1>6. CASE UNCHANGED contentVars
  <2>1. UNCHANGED <<tables, saves, views, begun>>
    BY <1>6 DEF contentVars
  <2>2. ContentTypeOK' /\ ReadSigned'
    BY <2>1 DEF ContentInv, ContentTypeOK, ReadSigned
  <2>3. NoOrphans' /\ Signed' /\ OneRoom' /\ RoomIsOneSave'
        /\ \A d \in Documents : Present(d)' = Present(d)
    BY <2>1, <2>2, TablesKept
  <2>4. \A s \in Savers, d \in Documents : Rivals(s, d)' = Rivals(s, d)
    BY <2>1 DEF Rivals
  <2>5. AloneFindsAll'
    BY <2>1, <2>3, <2>4 DEF ContentInv, AloneFindsAll
  <2>6. QED BY <2>2, <2>3, <2>5 DEF ContentInv
<1>7. QED BY <1>4, <1>5, <1>6, WordsKeep DEF ContentNext

-----------------------------------------------------------------------------
(* SaveRoom: whoever saves a room at the same time, its row, its photos and *)
(* its beds come from one save; for any number of savers and saves.         *)
THEOREM RoomComesWhole == ContentSpec => []RoomIsOneSave
<1>1. ContentInv => RoomIsOneSave
  BY DEF ContentInv
<1>2. QED BY <1>1, ContentInitially, ContentStep, PTL DEF ContentSpec

(* Menu, Events: two reads, and a save that may fall between them: a dish   *)
(* is never shown under a course, nor a photo under an event, of another    *)
(* save; for any number of readers and savers.                             *)
THEOREM ReadsAreOfOneSave == ContentSpec => []NeverMixed
<1>1. ContentInv => NeverMixed
  <2> SUFFICES ASSUME ContentInv, NEW r \in Readers, views[r] # Quiet, views[r].page \in TwoTier,
                      Len(views[r].got) = 2, NEW row \in views[r].got[1],
                      NEW b \in Under(row, views[r].got[2])
               PROVE  b.by = row.by
    BY DEF NeverMixed, TwoTier
  <2>1. row.by \in 1..MaxSaves /\ row.id \in {row.by, row.by + MaxSaves}
    BY DEF ContentInv, ReadSigned, Parents, Keys2
  <2>2. b.by \in 1..MaxSaves /\ b.of \in {b.by, b.by + MaxSaves} /\ b.of = row.id
    BY DEF ContentInv, ReadSigned, Belongings, Keys2, Under
  <2>3. MaxSaves \in Nat
    BY SaverAssumption DEF SaverAssumption
  <2>4. QED BY <2>1, <2>2, <2>3
<1>2. QED BY <1>1, ContentInitially, ContentStep, PTL DEF ContentSpec

(* SaveMenu and its like: a save that no other of the document overlapped   *)
(* leaves exactly its own rows, whatever it found there, doubles included;  *)
(* for any number of savers and saves.                                      *)
THEOREM AloneIsWhole == ContentSpec => SavedAloneIsWhole
<1>1. ASSUME ContentInv, NEW s \in Savers, Commit(s), saves[s].alone,
             NEW t \in Replaced[saves[s].doc] \union Cascaded[saves[s].doc]
      PROVE  tables'[t] = Written(saves[s], t)
  <2> DEFINE v == saves[s]
  <2>1. v \in AnySave /\ v # Quiet /\ v.doc \in Documents
    BY <1>1, CommitWrites DEF AnySave
  <2>2. v.old = Present(v.doc)
    BY <1>1, <2>1 DEF ContentInv, AloneFindsAll
  <2>3. CASE t \in Replaced[v.doc]
    <3>1. \A row \in tables[t] : row.id \in v.old
      BY <2>2, <2>3 DEF Present
    <3>2. tables'[t] = {row \in tables[t] : row.id \notin v.old} \union Written(v, t)
      BY <1>1, <2>3, CommitWrites
    <3>3. QED BY <3>1, <3>2
  <2>4. CASE t \in Cascaded[v.doc]
    <3>1. (v.doc = "menu" /\ t = "menu_items") \/ (v.doc = "events" /\ t = "event_photos")
      <4>1. v.doc \in {"menu", "events", "attractions", "gallery", "room"}
        BY <2>1, TablesOf
      <4> DEFINE d == v.doc
      <4>2. t \in Cascaded[d] /\ d \in {"menu", "events", "attractions", "gallery", "room"}
        BY <2>4, <4>1
      <4> HIDE DEF d
      <4>3. (d = "menu" /\ t = "menu_items") \/ (d = "events" /\ t = "event_photos")
        BY <4>2, TablesOf
      <4>4. QED BY <4>3 DEF d
    <3>2. \A row \in tables[t] : row.of \in v.old
      BY <1>1, <2>2, <3>1 DEF ContentInv, NoOrphans
    <3>3. tables'[t] = {row \in tables[t] : row.of \notin v.old} \union Written(v, t)
      BY <1>1, <2>4, CommitWrites
    <3>4. QED BY <3>2, <3>3
  <2>5. QED BY <1>1, <2>3, <2>4
<1>2. ContentInv => [\A s \in Savers :
       Commit(s) /\ saves[s].alone
         => \A t \in Replaced[saves[s].doc] \union Cascaded[saves[s].doc] :
              tables'[t] = Written(saves[s], t)]_contentVars
  BY <1>1
<1>3. QED BY <1>2, ContentInitially, ContentStep, PTL DEF ContentSpec, SavedAloneIsWhole

-----------------------------------------------------------------------------
(* The rate editor.                                                        *)

Rows     == [by : SeasonIds, price : Nat, written : Nat]
Possible == [SeasonIds -> Offered \union {NoSeason}]
Plans    == UNION {[S -> Rows \union {Unpriced}] : S \in SUBSET Nights}

AnyEdit ==
  [phase : {"edited", "deleting", "deleted", "inserted"}, name : Nat,
   id : SeasonIds \union {0}, season : Offered \union {NoSeason}, from : 1..MaxToday,
   old : SUBSET [night : Nights, row : Rows], new : Plans,
   alone : BOOLEAN, held : BOOLEAN, promised : SUBSET Nights]

RatesTypeOK ==
  /\ seasons \in Possible
  /\ calendar \in [Nights -> Rows \union {Unpriced}]
  /\ edits \in [Editors -> AnyEdit \union {Closed}]
  /\ serial \in 0..MaxSeasons /\ rebuilds \in Nat
  /\ previewed \in [id : SeasonIds, season : Offered, promised : SUBSET Nights]
                     \union {Nothing}
  /\ civilDay \in 1..MaxToday

(* What a transaction sees, finds and generates, of the seasons and the     *)
(* calendar it is told of.                                                  *)
SeenIn(v, table) ==
  IF v.id = 0 THEN table ELSE [table EXCEPT ![v.id] = v.season]

FoundBy(v, cal) ==
  {[night |-> n, row |-> cal[n]] : n \in {k \in Nights : k >= v.from /\ cal[k] # Unpriced}}

Planned(v, table) ==
  [n \in {k \in Window(v.from) : k >= v.from /\ Covering(SeenIn(v, table), k) # {}} |->
     Generated(SeenIn(v, table), n, v.name)]

Changes(table, cal, day) ==
  {n \in Window(day) : ~Same(cal[n], Generated(table, n, 0))}

(* One that nobody else has disturbed has found and generated what is so.   *)
Undisturbed(v, table, cal) ==
  /\ v.phase # "edited" => v.old = FoundBy(v, cal)
  /\ v.phase = "inserted" => v.new = Planned(v, table)

Sound(v, table, cal, day) ==
  /\ v.from <= day
  /\ DOMAIN v.new \subseteq Window(v.from)
  /\ v.held => /\ v.from = day /\ v.id \in SeasonIds
               /\ v.promised = Changes(SeenIn(v, table), cal, day)
  /\ v.alone \/ v.held => Undisturbed(v, table, cal)

EditsSound == \A e \in Editors : Open(e) => Sound(edits[e], seasons, calendar, civilDay)

AloneIsAlone ==
  \A e, u \in Editors : Open(e) /\ edits[e].alone /\ Open(u) => u = e

PreviewHolds ==
  previewed # Nothing =>
    previewed.promised =
      Changes([seasons EXCEPT ![previewed.id] = previewed.season], calendar, civilDay)

(* No calendar reaches further than the horizon of the day.                 *)
NothingBeyond == \A n \in Nights : n > civilDay + Horizon => calendar[n] = Unpriced

RatesInv == RatesTypeOK /\ EditsSound /\ AloneIsAlone /\ PreviewHolds /\ NothingBeyond

USE SeasonAssumption DEF SeasonAssumption

(* A set of numbers has a least.                                            *)
LEMMA LeastOf ==
  ASSUME NEW T, T \subseteq Nat, T # {}
  PROVE  \E n \in T : \A m \in T : n <= m
<1> DEFINE less == {ss \in Nat \X Nat : ss[1] < ss[2]}
<1>1. IsWellFoundedOn(less, Nat)
  BY NatLessThanWellFounded DEF OpToRel
<1>2. PICK n \in T : \A m \in T : ~(<<m, n>> \in less)
  <2> HIDE DEF less
  <2>1. QED BY <1>1, WFMin
<1>3. ASSUME NEW m \in T PROVE n <= m
  <2>1. ~(<<m, n>> \in less) /\ m \in Nat /\ n \in Nat
    BY <1>2
  <2>2. QED BY <2>1
<1>4. QED BY <1>3

(* Of some numbered things with priorities, one comes before the others.    *)
LEMMA FirstOfAny ==
  ASSUME NEW m \in Nat, NEW S, S \subseteq 1..m, S # {}, NEW p \in [S -> Nat]
  PROVE  \E i \in S : \A j \in S \ {i} : p[i] > p[j] \/ (p[i] = p[j] /\ i > j)
<1> DEFINE Upto(k) == S \intersect (1..k)
           Leads(i, R) == \A j \in R \ {i} : p[i] > p[j] \/ (p[i] = p[j] /\ i > j)
           bad == {k \in Nat : Upto(k) # {} /\ ~(\E i \in Upto(k) : Leads(i, Upto(k)))}
<1>1. SUFFICES bad = {}
  <2>1. Upto(m) = S
    OBVIOUS
  <2>2. m \notin bad
    BY <1>1
  <2>3. \E i \in S : Leads(i, S)
    BY <2>1, <2>2
  <2>4. QED BY <2>3
<1>2. SUFFICES ASSUME bad # {} PROVE FALSE
  OBVIOUS
<1>3. PICK k \in bad : \A l \in bad : k <= l
  <2>1. bad \subseteq Nat
    OBVIOUS
  <2> HIDE DEF bad
  <2>2. QED BY <1>2, <2>1, LeastOf
<1>4. k \in Nat /\ k >= 1 /\ Upto(k) # {} /\ ~(\E i \in Upto(k) : Leads(i, Upto(k)))
  <2>1. k \in Nat /\ Upto(k) # {} /\ ~(\E i \in Upto(k) : Leads(i, Upto(k)))
    BY <1>3
  <2>2. k # 0
    BY <2>1
  <2>3. QED BY <2>1, <2>2
<1>5. (k - 1) \in Nat /\ (k - 1) \notin bad
  <2>1. (k - 1) \in Nat /\ ~(k <= k - 1)
    BY <1>4
  <2>2. (k - 1) \notin bad
    <3> HIDE DEF bad
    <3>1. QED BY <2>1, <1>3
  <2>3. QED BY <2>1, <2>2
<1>6. Upto(k) = Upto(k - 1) \/ (k \in S /\ Upto(k) = Upto(k - 1) \union {k})
  BY <1>4
<1>7. CASE Upto(k - 1) = {}
  <2>1. Upto(k) = {k}
    BY <1>4, <1>6, <1>7
  <2>2. Leads(k, {k})
    OBVIOUS
  <2> HIDE DEF Upto, Leads
  <2>3. QED BY <1>4, <2>1, <2>2
<1>8. CASE Upto(k - 1) # {}
  <2>1. PICK b \in Upto(k - 1) : Leads(b, Upto(k - 1))
    BY <1>5, <1>8
  <2>2. Upto(k) = Upto(k - 1) \union {k} /\ k \in S
    <3>1. Upto(k) # Upto(k - 1)
      <4> HIDE DEF Upto, Leads
      <4>1. QED BY <1>4, <2>1
    <3>2. QED BY <3>1, <1>6
  <2>3. CASE p[k] >= p[b]
    <3>1. ASSUME NEW j \in Upto(k) \ {k} PROVE p[k] > p[j] \/ (p[k] = p[j] /\ k > j)
      <4>1. j \in Upto(k - 1) /\ j \in S /\ j < k
        BY <2>2, <3>1, <1>4
      <4>2. p[b] >= p[j]
        <5>1. p[j] \in Nat /\ p[b] \in Nat
          BY <4>1, <2>1
        <5>2. CASE j = b
          BY <5>1, <5>2
        <5>3. CASE j # b
          BY <5>1, <5>3, <4>1, <2>1
        <5>4. QED BY <5>2, <5>3
      <4>3. p[j] \in Nat /\ p[b] \in Nat /\ p[k] \in Nat /\ j \in Nat
        BY <4>1, <2>1, <2>2
      <4>4. k > j /\ p[k] >= p[j]
        <5>1. k \in Nat
          BY <1>4
        <5> HIDE DEF Upto, Leads, bad
        <5>2. QED BY <4>1, <4>2, <4>3, <2>3, <5>1
      <4>5. QED BY <4>3, <4>4
    <3>2. Leads(k, Upto(k)) /\ k \in Upto(k)
      <4>1. Leads(k, Upto(k))
        BY <3>1
      <4>2. k \in Upto(k)
        BY <2>2
      <4>3. QED BY <4>1, <4>2
    <3> HIDE DEF Upto, Leads
    <3>3. QED BY <3>2, <1>4
  <2>4. CASE ~(p[k] >= p[b])
    <3>1. p[b] > p[k] /\ b \in Upto(k)
      <4>1. p[b] \in Nat /\ p[k] \in Nat
        BY <2>1, <2>2
      <4>2. b \in Upto(k)
        <5> HIDE DEF Upto
        <5>1. QED BY <2>1, <2>2
      <4>3. QED BY <4>1, <4>2, <2>4
    <3>2. Leads(b, Upto(k))
      <4>1. ASSUME NEW j \in Upto(k) \ {b} PROVE p[b] > p[j] \/ (p[b] = p[j] /\ b > j)
        <5>1. j \in Upto(k - 1) \/ j = k
          <6> HIDE DEF Upto
          <6>1. QED BY <2>2, <4>1
        <5>2. QED BY <5>1, <3>1, <2>1
      <4>2. QED BY <4>1
    <3> HIDE DEF Upto, Leads
    <3>3. QED BY <3>1, <3>2, <1>4
  <2>5. QED BY <2>3, <2>4
<1>9. QED BY <1>7, <1>8

LEMMA BestExists ==
  ASSUME NEW table \in Possible, NEW n \in Nat, Covering(table, n) # {}
  PROVE  \E i \in Covering(table, n) : \A j \in Covering(table, n) \ {i} : Before(table, i, j)
<1> DEFINE S == Covering(table, n)
           p == [i \in S |-> table[i].priority]
<1>1. \A i \in S : i \in SeasonIds /\ table[i] \in Offered
  BY DEF Covering, Prices, Possible
<1>2. p \in [S -> Nat]
  BY <1>1
<1>3. S \subseteq 1..MaxSeasons /\ S # {}
  BY <1>1 DEF SeasonIds
<1>4. \E i \in S : \A j \in S \ {i} : p[i] > p[j] \/ (p[i] = p[j] /\ i > j)
  <2> HIDE DEF S, p
  <2>1. QED BY <1>2, <1>3, FirstOfAny
<1>5. QED BY <1>4 DEF Before

(* What is generated is what generated_rate_calendar promises.              *)
LEMMA GeneratedChosen ==
  ASSUME NEW table \in Possible, NEW n \in Nat, NEW name \in Nat, Covering(table, n) # {}
  PROVE  \E i \in Covering(table, n) :
           /\ \A j \in Covering(table, n) \ {i} : Before(table, i, j)
           /\ Generated(table, n, name) = [by |-> i, price |-> table[i].price, written |-> name]
<1> DEFINE S == Covering(table, n)
           first == CHOOSE i \in S : \A j \in S \ {i} : Before(table, i, j)
<1>1. \E i \in S : \A j \in S \ {i} : Before(table, i, j)
  BY BestExists
<1>2. first \in S /\ \A j \in S \ {first} : Before(table, first, j)
  <2> HIDE DEF S
  <2>1. QED BY <1>1
<1>3. Generated(table, n, name) = [by |-> first, price |-> table[first].price, written |-> name]
  BY DEF Generated
<1> HIDE DEF first
<1>4. QED BY <1>2, <1>3

LEMMA GeneratedRow ==
  ASSUME NEW table \in Possible, NEW n \in Nat, NEW name \in Nat, Covering(table, n) # {}
  PROVE  Generated(table, n, name) \in Rows
<1>1. PICK i \in Covering(table, n) :
        Generated(table, n, name) = [by |-> i, price |-> table[i].price, written |-> name]
  BY GeneratedChosen
<1>2. i \in SeasonIds /\ table[i] \in Offered /\ table[i].price \in Nat
  BY DEF Covering, Prices, Possible
<1>3. QED BY <1>1, <1>2 DEF Rows

LEMMA NotARow == Unpriced \notin Rows
<1>1. \A row \in Rows : row \in [by : Nat, price : Nat, written : Nat]
  BY DEF Rows, SeasonIds
<1>2. QED BY <1>1

LEMMA GeneratedResolves ==
  ASSUME NEW table \in Possible, NEW n \in Nat, NEW name \in Nat
  PROVE  Resolved(table, Generated(table, n, name), n)
<1> DEFINE row == Generated(table, n, name)
           covering == {id \in SeasonIds : table[id] # NoSeason /\ table[id].price # 0
                                            /\ n \in table[id].first..table[id].last}
<1>1. covering = Covering(table, n)
  <2>1. ASSUME NEW id \in SeasonIds PROVE id \in covering <=> id \in Covering(table, n)
    <3>1. CASE table[id] = NoSeason
      BY <3>1 DEF Covering, Prices
    <3>2. CASE table[id] # NoSeason
      <4>1. table[id] \in Offered
        BY <3>2 DEF Possible
      <4>2. table[id].price \in Nat /\ table[id].first \in Nat /\ table[id].last \in Nat
        BY <4>1
      <4>3. QED BY <3>2, <4>2 DEF Covering, Prices
    <3>3. QED BY <3>1, <3>2
  <2>2. QED BY <2>1 DEF Covering
<1>2. CASE covering = {}
  <2>1. row = Unpriced
    BY <1>1, <1>2 DEF Generated
  <2>2. QED BY <1>2, <2>1 DEF Resolved
<1>3. CASE covering # {}
  <2>1. PICK i \in covering :
          /\ \A j \in covering \ {i} : Before(table, i, j)
          /\ row = [by |-> i, price |-> table[i].price, written |-> name]
    BY <1>1, <1>3, GeneratedChosen
  <2>2. row # Unpriced
    BY <1>1, <1>3, GeneratedRow, NotARow
  <2>3. row.by = i /\ row.price = table[i].price
    BY <2>1
  <2>4. ASSUME NEW id \in covering
        PROVE  /\ table[id].priority <= table[i].priority
               /\ table[id].priority = table[i].priority => id <= i
    <3>1. table[id] \in Offered /\ table[i] \in Offered
      BY DEF Possible
    <3>2. table[id].priority \in Nat /\ table[i].priority \in Nat /\ id \in Nat /\ i \in Nat
      BY <3>1 DEF SeasonIds
    <3>3. CASE id = i
      BY <3>2, <3>3
    <3>4. CASE id # i
      <4>1. Before(table, i, id)
        BY <2>1, <3>4
      <4>2. QED BY <3>2, <4>1 DEF Before
    <3>5. QED BY <3>3, <3>4
  <2>5. /\ row.by \in covering /\ row.price = table[row.by].price
        /\ \A id \in covering :
             /\ table[id].priority <= table[row.by].priority
             /\ table[id].priority = table[row.by].priority => id <= row.by
    <3> HIDE DEF row, covering
    <3>1. QED BY <2>3, <2>4, <2>1
  <2>6. row # Unpriced => Resolved(table, row, n)
    <3> HIDE DEF row
    <3>1. QED BY <2>5 DEF Resolved
  <2>7. QED BY <2>2, <2>6
<1>4. QED BY <1>2, <1>3

(* The name of the transaction is no part of the price.                     *)
LEMMA SamePrice ==
  ASSUME NEW table \in Possible, NEW n \in Nat, NEW name \in Nat, NEW row
  PROVE  Same(row, Generated(table, n, 0)) <=> Same(row, Generated(table, n, name))
<1>1. CASE Covering(table, n) = {}
  BY <1>1 DEF Generated
<1>2. CASE Covering(table, n) # {}
  <2>1. Generated(table, n, 0).price = Generated(table, n, name).price
    BY <1>2 DEF Generated
  <2>2. Generated(table, n, 0) # Unpriced /\ Generated(table, n, name) # Unpriced
    BY <1>2, GeneratedRow, NotARow
  <2>3. QED BY <2>1, <2>2 DEF Same
<1>3. QED BY <1>1, <1>2

LEMMA RatesInitially == RatesInit => RatesInv
<1> SUFFICES ASSUME RatesInit PROVE RatesInv
  OBVIOUS
<1>1. RatesTypeOK
  BY DEF RatesInit, RatesTypeOK, Possible
<1>2. EditsSound /\ AloneIsAlone
  BY DEF RatesInit, EditsSound, AloneIsAlone, Open
<1>3. PreviewHolds
  BY DEF RatesInit, PreviewHolds
<1>4. NothingBeyond
  BY DEF RatesInit, NothingBeyond
<1>5. QED BY <1>1, <1>2, <1>3, <1>4 DEF RatesInv

LEMMA OpenIs ==
  ASSUME RatesInv, NEW e \in Editors, Open(e)
  PROVE  edits[e] \in AnyEdit
BY DEF RatesInv, RatesTypeOK, Open

LEMMA NotClosed == ASSUME NEW v \in AnyEdit PROVE v # Closed
<1>1. v.phase # "closed" /\ Closed.phase = "closed"
  BY DEF AnyEdit, Closed
<1>2. QED BY <1>1

LEMMA SeenPossible ==
  ASSUME NEW v \in AnyEdit, NEW table \in Possible
  PROVE  SeenIn(v, table) \in Possible
BY DEF SeenIn, AnyEdit, Possible

LEMMA SeenIsSeen ==
  ASSUME NEW e \in Editors
  PROVE  Seen(e) = SeenIn(edits[e], seasons)
BY DEF Seen, SeenIn

LEMMA WindowIsAhead ==
  ASSUME NEW day \in 1..MaxToday
  PROVE  Window(day) \subseteq Nights
BY DEF Window, Nights

(* One transaction moves, or ends, and nothing else does.                   *)
LEMMA EditMoves ==
  ASSUME RatesInv, NEW e \in Editors, Open(e), NEW w \in AnyEdit \union {Closed},
         w # Closed => /\ Sound(w, seasons, calendar, civilDay)
                       /\ w.alone = edits[e].alone,
         edits' = [edits EXCEPT ![e] = w],
         UNCHANGED <<seasons, calendar, serial, rebuilds, previewed, civilDay>>
  PROVE  RatesInv'
<1>1. edits \in [Editors -> AnyEdit \union {Closed}]
  BY DEF RatesInv, RatesTypeOK
<1>2. edits'[e] = w /\ \A u \in Editors \ {e} : edits'[u] = edits[u]
  BY <1>1
<1>3. RatesTypeOK'
  <2>1. edits' \in [Editors -> AnyEdit \union {Closed}]
    BY <1>1
  <2>2. QED BY <2>1 DEF RatesInv, RatesTypeOK
<1>4. EditsSound'
  <2>1. ASSUME NEW u \in Editors, edits'[u] # Closed
        PROVE  Sound(edits'[u], seasons, calendar, civilDay)
    <3>1. CASE u = e
      BY <3>1, <2>1, <1>2
    <3>2. CASE u # e
      BY <3>2, <2>1, <1>2 DEF RatesInv, EditsSound, Open
    <3>3. QED BY <3>1, <3>2
  <2>2. seasons' = seasons /\ calendar' = calendar /\ civilDay' = civilDay
    OBVIOUS
  <2>3. QED BY <2>1, <2>2 DEF EditsSound, Open
<1>5. AloneIsAlone'
  BY <1>2 DEF RatesInv, AloneIsAlone, Open
<1>6. PreviewHolds'
  BY DEF RatesInv, PreviewHolds
<1>7. NothingBeyond'
  BY DEF RatesInv, NothingBeyond
<1>8. QED BY <1>3, <1>4, <1>5, <1>6, <1>7 DEF RatesInv

LEMMA FindOldKeeps ==
  ASSUME RatesInv, NEW e \in Editors, FindOld(e)
  PROVE  RatesInv'
<1> DEFINE v == edits[e]
           found == {[night |-> n, row |-> calendar[n]] :
                       n \in {k \in Nights : Rebuilt(e, k) /\ calendar[k] # Unpriced}}
           w == [v EXCEPT !.phase = "deleting", !.old = found]
<1>1. Open(e)
  BY DEF FindOld, Open, Closed
<1>2. v \in AnyEdit /\ edits \in [Editors -> AnyEdit \union {Closed}]
  BY <1>1, OpenIs DEF RatesInv, RatesTypeOK
<1>3. found \in SUBSET [night : Nights, row : Rows]
  BY DEF RatesInv, RatesTypeOK
<1>4. edits' = [edits EXCEPT ![e] = w]
  BY <1>2 DEF FindOld
<1>5. found = FoundBy(v, calendar)
  BY DEF FoundBy, Rebuilt
<1>6. Sound(v, seasons, calendar, civilDay)
  BY <1>1 DEF RatesInv, EditsSound
<1> HIDE DEF found
<1>7. w \in AnyEdit /\ w.alone = v.alone
  BY <1>2, <1>3 DEF AnyEdit
<1>8. /\ w.phase = "deleting" /\ w.old = found /\ w.from = v.from /\ w.new = v.new
      /\ w.held = v.held /\ w.id = v.id /\ w.season = v.season /\ w.promised = v.promised
  BY <1>2 DEF AnyEdit
<1> HIDE DEF w, v
<1>9. Sound(w, seasons, calendar, civilDay)
  BY <1>5, <1>6, <1>7, <1>8 DEF Sound, Undisturbed, FoundBy, SeenIn
<1>10. QED BY <1>1, <1>4, <1>7, <1>9, EditMoves DEF FindOld, v

LEMMA DeleteOldKeeps ==
  ASSUME RatesInv, NEW e \in Editors, DeleteOld(e)
  PROVE  RatesInv'
<1> DEFINE v == edits[e]
           left == StillThere(e)
           w == [v EXCEPT !.phase = "deleted", !.old = left]
<1>1. Open(e) /\ v.phase = "deleting"
  BY DEF DeleteOld, Open, Closed
<1>2. v \in AnyEdit /\ edits \in [Editors -> AnyEdit \union {Closed}]
  BY <1>1, OpenIs DEF RatesInv, RatesTypeOK
<1>3. left \in SUBSET [night : Nights, row : Rows]
  BY <1>2 DEF StillThere, AnyEdit
<1>4. edits' = [edits EXCEPT ![e] = w]
  BY <1>2 DEF DeleteOld
<1>5. v.old = FoundBy(v, calendar) => left = v.old
  BY DEF FoundBy, StillThere
<1>6. Sound(v, seasons, calendar, civilDay)
  BY <1>1 DEF RatesInv, EditsSound
<1> HIDE DEF left
<1>7. w \in AnyEdit /\ w.alone = v.alone
  BY <1>2, <1>3 DEF AnyEdit
<1>8. /\ w.phase = "deleted" /\ w.old = left /\ w.from = v.from /\ w.new = v.new
      /\ w.held = v.held /\ w.id = v.id /\ w.season = v.season /\ w.promised = v.promised
  BY <1>2 DEF AnyEdit
<1> HIDE DEF w, v
<1>9. Sound(w, seasons, calendar, civilDay)
  BY <1>1, <1>5, <1>6, <1>7, <1>8 DEF Sound, Undisturbed, FoundBy, SeenIn
<1>10. QED BY <1>1, <1>4, <1>7, <1>9, EditMoves DEF DeleteOld, v

LEMMA InsertNewKeeps ==
  ASSUME RatesInv, NEW e \in Editors, InsertNew(e)
  PROVE  RatesInv'
<1> DEFINE v == edits[e]
           plan == [n \in Inserted(e) |-> Generated(Seen(e), n, v.name)]
           w == [v EXCEPT !.phase = "inserted", !.new = plan]
<1>1. Open(e) /\ v.phase = "deleted"
  BY DEF InsertNew, Open, Closed
<1>2. v \in AnyEdit /\ edits \in [Editors -> AnyEdit \union {Closed}] /\ seasons \in Possible
  BY <1>1, OpenIs DEF RatesInv, RatesTypeOK
<1>3. Seen(e) \in Possible /\ Seen(e) = SeenIn(v, seasons)
  BY <1>2, SeenPossible, SeenIsSeen
<1>4. v.from \in 1..MaxToday /\ v.name \in Nat
  BY <1>2 DEF AnyEdit
<1>5. Inserted(e) \subseteq Window(v.from) /\ Inserted(e) \subseteq Nights
  BY <1>4, WindowIsAhead DEF Inserted
<1>6. plan \in Plans
  <2>1. ASSUME NEW n \in Inserted(e) PROVE Generated(Seen(e), n, v.name) \in Rows
    <3>1. n \in Nat /\ Covering(Seen(e), n) # {}
      BY <2>1, <1>5 DEF Inserted, Nights
    <3>2. QED BY <3>1, <1>3, <1>4, GeneratedRow
  <2>2. plan \in [Inserted(e) -> Rows \union {Unpriced}]
    BY <2>1
  <2> HIDE DEF plan
  <2>3. QED BY <2>2, <1>5 DEF Plans
<1>7. plan = Planned(v, seasons)
  BY <1>3 DEF Planned, Inserted, Rebuilt
<1>8. edits' = [edits EXCEPT ![e] = w] \/ edits' = [edits EXCEPT ![e] = Closed]
  BY <1>2 DEF InsertNew
<1>9. Sound(v, seasons, calendar, civilDay)
  BY <1>1 DEF RatesInv, EditsSound
<1>10. DOMAIN plan \subseteq Window(v.from)
  BY <1>5
<1> HIDE DEF plan
<1>11. w \in AnyEdit /\ w.alone = v.alone
  BY <1>2, <1>6 DEF AnyEdit
<1>12. /\ w.phase = "inserted" /\ w.new = plan /\ w.from = v.from /\ w.old = v.old
       /\ w.held = v.held /\ w.id = v.id /\ w.season = v.season /\ w.promised = v.promised
       /\ w.name = v.name
  BY <1>2 DEF AnyEdit
<1> HIDE DEF w, v
<1>13. Planned(w, seasons) = Planned(v, seasons) /\ FoundBy(w, calendar) = FoundBy(v, calendar)
       /\ SeenIn(w, seasons) = SeenIn(v, seasons)
  BY <1>12 DEF Planned, FoundBy, SeenIn
<1>14. Sound(w, seasons, calendar, civilDay)
  BY <1>1, <1>7, <1>9, <1>10, <1>11, <1>12, <1>13 DEF Sound, Undisturbed
<1>15. UNCHANGED <<seasons, calendar, serial, rebuilds, previewed, civilDay>>
  BY DEF InsertNew
<1>16. CASE edits' = [edits EXCEPT ![e] = w]
  BY <1>1, <1>16, <1>11, <1>14, <1>15, EditMoves DEF v
<1>17. CASE edits' = [edits EXCEPT ![e] = Closed]
  BY <1>1, <1>17, <1>15, EditMoves
<1>18. QED BY <1>8, <1>16, <1>17

LEMMA RebuildBegins ==
  ASSUME RatesInv, NEW e \in Editors, NEW id \in SeasonIds \union {0},
         NEW season \in Offered \union {NoSeason}, BeginRebuild(e, id, season),
         serial' \in 0..MaxSeasons
  PROVE  RatesInv'
<1> DEFINE v == [phase |-> "edited", name |-> rebuilds + 1, id |-> id, season |-> season,
                 from |-> civilDay, old |-> {}, new |-> <<>>,
                 alone |-> \A w \in Editors : ~Open(w),
                 held |-> previewed # Nothing /\ previewed.id = id
                            /\ previewed.season = season,
                 promised |-> previewed.promised]
<1>1. /\ ~Open(e) /\ edits \in [Editors -> AnyEdit \union {Closed}] /\ rebuilds \in Nat
      /\ civilDay \in 1..MaxToday
      /\ seasons' = seasons /\ calendar' = calendar /\ civilDay' = civilDay
      /\ previewed' = previewed /\ rebuilds' = rebuilds + 1
  BY DEF BeginRebuild, RatesInv, RatesTypeOK
<1>2. edits' = [u \in Editors |->
         IF u = e THEN v
         ELSE IF Open(u) THEN [edits[u] EXCEPT !.alone = FALSE] ELSE Closed]
  BY DEF BeginRebuild
<1>3. previewed.promised \in SUBSET Nights
  BY DEF RatesInv, RatesTypeOK, Nothing
<1>4. <<>> \in Plans /\ DOMAIN <<>> = {}
  <2>1. <<>> \in [{} -> Rows \union {Unpriced}]
    OBVIOUS
  <2>2. QED BY <2>1 DEF Plans
<1>5. v \in AnyEdit
  BY <1>1, <1>3, <1>4 DEF AnyEdit
<1>6. v.held => /\ previewed # Nothing /\ previewed.id = id /\ previewed.season = season
  OBVIOUS
<1>7. /\ v.phase = "edited" /\ v.id = id /\ v.season = season /\ v.from = civilDay
      /\ v.new = <<>> /\ v.promised = previewed.promised
      /\ v.alone = (\A w \in Editors : ~Open(w))
  OBVIOUS
<1> HIDE DEF v
<1>8. ASSUME NEW u \in Editors, u # e, Open(u)
      PROVE  /\ edits'[u] \in AnyEdit /\ edits'[u].alone = FALSE
             /\ Sound(edits'[u], seasons, calendar, civilDay)
  <2>1. edits[u] \in AnyEdit /\ Sound(edits[u], seasons, calendar, civilDay)
    BY <1>8, OpenIs DEF RatesInv, EditsSound
  <2>2. edits'[u] = [edits[u] EXCEPT !.alone = FALSE]
    BY <1>8, <1>2
  <2>3. edits'[u] \in AnyEdit /\ edits'[u].alone = FALSE
    BY <2>1, <2>2 DEF AnyEdit
  <2>4. \E x, y : x = edits[u] /\ y = edits'[u]
    OBVIOUS
  <2>5. PICK x, y : x = edits[u] /\ y = edits'[u]
    BY <2>4
  <2>6. /\ y.phase = x.phase /\ y.old = x.old /\ y.from = x.from /\ y.new = x.new
        /\ y.held = x.held /\ y.id = x.id /\ y.season = x.season
        /\ y.promised = x.promised /\ y.name = x.name
    BY <2>1, <2>2, <2>5 DEF AnyEdit
  <2>7. /\ Planned(y, seasons) = Planned(x, seasons)
        /\ FoundBy(y, calendar) = FoundBy(x, calendar)
        /\ SeenIn(y, seasons) = SeenIn(x, seasons)
    BY <2>6 DEF Planned, FoundBy, SeenIn
  <2>8. y.alone = FALSE /\ Sound(x, seasons, calendar, civilDay)
    BY <2>1, <2>3, <2>5
  <2>9. Sound(y, seasons, calendar, civilDay)
    BY <2>6, <2>7, <2>8 DEF Sound, Undisturbed
  <2>10. QED BY <2>3, <2>5, <2>9
<1>9. Sound(v, seasons, calendar, civilDay)
  <2>1. v.held => /\ v.id \in SeasonIds
                  /\ v.promised = Changes(SeenIn(v, seasons), calendar, civilDay)
    <3>1. SUFFICES ASSUME v.held PROVE /\ v.id \in SeasonIds
                  /\ v.promised = Changes(SeenIn(v, seasons), calendar, civilDay)
      OBVIOUS
    <3>2. previewed \in [id : SeasonIds, season : Offered, promised : SUBSET Nights]
      BY <3>1, <1>6 DEF RatesInv, RatesTypeOK
    <3>3. v.id \in SeasonIds /\ v.id # 0
      BY <3>1, <3>2, <1>6, <1>7 DEF SeasonIds
    <3>4. previewed.promised = Changes([seasons EXCEPT ![id] = season], calendar, civilDay)
      BY <3>1, <1>6 DEF RatesInv, PreviewHolds
    <3>5. SeenIn(v, seasons) = [seasons EXCEPT ![id] = season]
      BY <3>3, <1>7 DEF SeenIn
    <3>6. QED BY <3>3, <3>4, <3>5, <1>7
  <2>2. v.from <= civilDay
    BY <1>1, <1>7
  <2>3. DOMAIN v.new \subseteq Window(v.from)
    BY <1>4, <1>7
  <2>4. QED BY <2>1, <2>2, <2>3, <1>7 DEF Sound, Undisturbed
<1>10. edits'[e] = v /\ \A u \in Editors : u # e /\ ~Open(u) => edits'[u] = Closed
  BY <1>2
<1>11. RatesTypeOK'
  <2>1. edits' \in [Editors -> AnyEdit \union {Closed}]
    <3>1. ASSUME NEW u \in Editors PROVE edits'[u] \in AnyEdit \union {Closed}
      <4>1. CASE u = e
        BY <4>1, <1>5, <1>10
      <4>2. CASE u # e /\ Open(u)
        BY <4>2, <1>8
      <4>3. CASE u # e /\ ~Open(u)
        BY <4>3, <1>10
      <4>4. QED BY <4>1, <4>2, <4>3
    <3>2. QED BY <3>1, <1>2
  <2>2. QED BY <2>1, <1>1 DEF RatesInv, RatesTypeOK
<1>12. EditsSound'
  <2>1. ASSUME NEW u \in Editors, edits'[u] # Closed
        PROVE  Sound(edits'[u], seasons, calendar, civilDay)
    <3>1. CASE u = e
      BY <3>1, <1>9, <1>10
    <3>2. CASE u # e
      BY <3>2, <2>1, <1>8, <1>10
    <3>3. QED BY <3>1, <3>2
  <2>2. QED BY <2>1, <1>1 DEF EditsSound, Open
<1>13. AloneIsAlone'
  <2>1. ASSUME NEW u \in Editors, NEW w \in Editors,
               edits'[u] # Closed, edits'[u].alone, edits'[w] # Closed
        PROVE  w = u
    <3>1. u = e
      BY <2>1, <1>8, <1>10
    <3>2. \A x \in Editors : ~Open(x)
      BY <3>1, <2>1, <1>7, <1>10
    <3>3. w = e
      BY <3>2, <2>1, <1>10
    <3>4. QED BY <3>1, <3>3
  <2>2. QED BY <2>1 DEF AloneIsAlone, Open
<1>14. PreviewHolds'
  BY <1>1 DEF RatesInv, PreviewHolds
<1>15. NothingBeyond'
  BY <1>1 DEF RatesInv, NothingBeyond
<1>16. QED BY <1>11, <1>12, <1>13, <1>14, <1>15 DEF RatesInv

LEMMA SamePlan ==
  ASSUME NEW x, NEW y, NEW table, y.from = x.from, y.name = x.name,
         SeenIn(y, table) = SeenIn(x, table)
  PROVE  Planned(y, table) = Planned(x, table)
BY DEF Planned

(* The others, when what was previewed no longer holds for them.            *)
LEMMA OutdatedKeeps ==
  ASSUME RatesInv, NEW u \in Editors, Open(u), NEW y,
         y = [edits[u] EXCEPT !.held = FALSE]
  PROVE  /\ y \in AnyEdit /\ y.alone = edits[u].alone /\ y.held = FALSE
         /\ y.from = edits[u].from /\ DOMAIN y.new \subseteq Window(y.from)
         /\ y.from <= civilDay
         /\ y.alone => Undisturbed(y, seasons, calendar)
<1>1. PICK x : x = edits[u]
  OBVIOUS
<1>2. x \in AnyEdit /\ Sound(x, seasons, calendar, civilDay)
  BY <1>1, OpenIs DEF RatesInv, EditsSound
<1>3. y \in AnyEdit /\ y.held = FALSE
  BY <1>1, <1>2 DEF AnyEdit
<1>4. /\ y.phase = x.phase /\ y.old = x.old /\ y.from = x.from /\ y.new = x.new
      /\ y.alone = x.alone /\ y.id = x.id /\ y.season = x.season /\ y.name = x.name
  BY <1>1, <1>2 DEF AnyEdit
<1>5. /\ Planned(y, seasons) = Planned(x, seasons)
      /\ FoundBy(y, calendar) = FoundBy(x, calendar)
  <2>1. SeenIn(y, seasons) = SeenIn(x, seasons)
    BY <1>4 DEF SeenIn
  <2>2. Planned(y, seasons) = Planned(x, seasons)
    BY <1>4, <2>1, SamePlan
  <2>3. FoundBy(y, calendar) = FoundBy(x, calendar)
    BY <1>4, Zenon DEF FoundBy
  <2>4. QED BY <2>2, <2>3
<1>6. y.alone => Undisturbed(y, seasons, calendar)
  BY <1>2, <1>4, <1>5 DEF Sound, Undisturbed
<1>7. y.from <= civilDay /\ DOMAIN y.new \subseteq Window(y.from)
  BY <1>2, <1>4 DEF Sound
<1>8. QED BY <1>1, <1>3, <1>4, <1>6, <1>7

LEMMA DayKeeps == ASSUME RatesInv, DayTurns PROVE RatesInv'
<1>1. /\ civilDay \in 1..MaxToday /\ civilDay' = civilDay + 1 /\ civilDay < MaxToday
      /\ seasons' = seasons /\ calendar' = calendar
      /\ previewed' = Nothing /\ rebuilds' = rebuilds /\ serial' = serial
      /\ edits' = Outdated(edits)
  BY DEF DayTurns, RatesInv, RatesTypeOK
<1>2. \A u \in Editors : edits'[u] = IF Open(u) THEN [edits[u] EXCEPT !.held = FALSE] ELSE Closed
  BY <1>1 DEF Outdated
<1>3. ASSUME NEW u \in Editors, Open(u)
      PROVE  /\ edits'[u] \in AnyEdit /\ edits'[u].alone = edits[u].alone
             /\ Sound(edits'[u], seasons, calendar, civilDay + 1)
  <2>1. PICK y : y = [edits[u] EXCEPT !.held = FALSE]
    OBVIOUS
  <2>2. /\ y \in AnyEdit /\ y.alone = edits[u].alone /\ y.held = FALSE
        /\ DOMAIN y.new \subseteq Window(y.from) /\ y.from <= civilDay
        /\ y.alone => Undisturbed(y, seasons, calendar)
    BY <1>3, <2>1, OutdatedKeeps
  <2>3. y.from <= civilDay + 1
    <3>1. y.from \in Nat /\ civilDay \in Nat
      BY <2>2, <1>1 DEF AnyEdit
    <3>2. QED BY <3>1, <2>2
  <2>4. Sound(y, seasons, calendar, civilDay + 1)
    BY <2>2, <2>3 DEF Sound
  <2>5. edits'[u] = y
    BY <1>3, <1>2, <2>1
  <2>6. QED BY <2>2, <2>4, <2>5
<1>4. RatesTypeOK'
  <2>1. edits' \in [Editors -> AnyEdit \union {Closed}]
    BY <1>1, <1>2, <1>3 DEF Outdated
  <2>2. QED BY <2>1, <1>1 DEF RatesInv, RatesTypeOK
<1>5. EditsSound'
  BY <1>1, <1>2, <1>3 DEF EditsSound, Open
<1>6. AloneIsAlone'
  BY <1>2, <1>3 DEF RatesInv, AloneIsAlone, Open
<1>7. PreviewHolds'
  BY <1>1 DEF PreviewHolds
<1>8. NothingBeyond'
  BY <1>1 DEF RatesInv, NothingBeyond, Nights
<1>9. QED BY <1>4, <1>5, <1>6, <1>7, <1>8 DEF RatesInv

LEMMA PreviewKeeps ==
  ASSUME RatesInv, NEW id \in SeasonIds \union {0}, NEW season \in Offered,
         PreviewSeason(id, season)
  PROVE  RatesInv'
<1> DEFINE at == IF id = 0 THEN serial + 1 ELSE id
           promised == Changes([seasons EXCEPT ![at] = season], calendar, civilDay)
<1>1. /\ UNCHANGED <<seasons, calendar, edits, serial, rebuilds, civilDay>>
      /\ previewed' = [id |-> at, season |-> season, promised |-> promised]
  BY DEF PreviewSeason, SummariseRateChanges, Changes
<1>2. at \in SeasonIds
  BY DEF RatesInv, RatesTypeOK, SeasonIds, PreviewSeason
<1>3. promised \in SUBSET Nights
  BY WindowIsAhead DEF RatesInv, RatesTypeOK, Changes
<1> HIDE DEF at
<1>4. previewed'.id = at /\ previewed'.season = season /\ previewed'.promised = promised
  BY <1>1
<1> HIDE DEF promised
<1>5. RatesTypeOK'
  BY <1>1, <1>2, <1>3 DEF RatesInv, RatesTypeOK
<1>6. PreviewHolds'
  BY <1>1, <1>4 DEF PreviewHolds, promised
<1>7. EditsSound' /\ AloneIsAlone' /\ NothingBeyond'
  BY <1>1 DEF RatesInv, EditsSound, AloneIsAlone, NothingBeyond, Open
<1>8. QED BY <1>5, <1>6, <1>7 DEF RatesInv

(* What a commit that nobody disturbed leaves on every night of its window. *)
LEMMA CommitLeaves ==
  ASSUME RatesInv, NEW e \in Editors, CommitRebuild(e),
         edits[e].alone \/ edits[e].held,
         NEW n \in Window(edits[e].from)
  PROVE  calendar'[n] = Generated(seasons', n, edits[e].name)
<1> DEFINE v == edits[e]
<1>1. Open(e) /\ v.phase = "inserted"
  BY DEF CommitRebuild, Open, Closed
<1>2. v \in AnyEdit /\ v.from \in 1..MaxToday
  BY <1>1, OpenIs DEF AnyEdit
<1>3. v.old = FoundBy(v, calendar) /\ v.new = Planned(v, seasons)
  BY <1>1 DEF RatesInv, EditsSound, Sound, Undisturbed
<1>4. seasons' = SeenIn(v, seasons)
  BY SeenIsSeen DEF CommitRebuild
<1>5. n \in Nights /\ n >= v.from
  BY <1>2, WindowIsAhead DEF Window
<1>6. calendar'[n] = IF n \in DOMAIN v.new THEN v.new[n]
                     ELSE IF n \in OldNights(e) THEN Unpriced ELSE calendar[n]
  BY <1>5 DEF CommitRebuild
<1>7. DOMAIN v.new = {k \in Window(v.from) : k >= v.from /\ Covering(seasons', k) # {}}
  BY <1>3, <1>4 DEF Planned
<1>8. CASE Covering(seasons', n) # {}
  <2>1. n \in DOMAIN v.new
    BY <1>5, <1>7, <1>8
  <2>2. v.new[n] = Generated(seasons', n, v.name)
    BY <2>1, <1>3, <1>4, <1>7 DEF Planned
  <2>3. QED BY <2>1, <2>2, <1>6
<1>9. CASE Covering(seasons', n) = {}
  <2>1. n \notin DOMAIN v.new
    BY <1>7, <1>9
  <2>2. n \notin OldNights(e) => calendar[n] = Unpriced
    <3>1. SUFFICES ASSUME calendar[n] # Unpriced PROVE n \in OldNights(e)
      OBVIOUS
    <3>2. [night |-> n, row |-> calendar[n]] \in v.old
      BY <3>1, <1>3, <1>5 DEF FoundBy
    <3>3. QED BY <3>2 DEF OldNights
  <2>3. QED BY <2>1, <2>2, <1>6, <1>9 DEF Generated
<1>10. QED BY <1>8, <1>9

(* Beyond the window nothing is written.                                    *)
LEMMA NothingWrittenBeyond ==
  ASSUME RatesInv, NEW e \in Editors, CommitRebuild(e),
         NEW n \in Nights, n > civilDay + Horizon
  PROVE  calendar[n] = Unpriced /\ calendar'[n] = Unpriced
<1>1. Open(e)
  BY DEF CommitRebuild, Open, Closed
<1>2. edits[e] \in AnyEdit /\ Sound(edits[e], seasons, calendar, civilDay)
  BY <1>1, OpenIs DEF RatesInv, EditsSound
<1>3. edits[e].from \in Nat /\ civilDay \in Nat
  BY <1>2 DEF AnyEdit, RatesInv, RatesTypeOK
<1>4. n \notin Window(edits[e].from)
  BY <1>2, <1>3 DEF Sound, Window, Nights
<1>5. n \notin DOMAIN edits[e].new
  BY <1>2, <1>4 DEF Sound
<1>6. calendar[n] = Unpriced
  BY DEF RatesInv, NothingBeyond
<1>7. QED BY <1>5, <1>6 DEF CommitRebuild

LEMMA RebuildCommits ==
  ASSUME RatesInv, NEW e \in Editors, CommitRebuild(e)
  PROVE  RatesInv'
<1> DEFINE v == edits[e]
<1>1. Open(e)
  BY DEF CommitRebuild, Open, Closed
<1>2. v \in AnyEdit
  BY <1>1, OpenIs
<1>3. seasons \in Possible /\ calendar \in [Nights -> Rows \union {Unpriced}]
  BY DEF RatesInv, RatesTypeOK
<1>4. seasons' \in Possible
  BY <1>2, <1>3, SeenPossible, SeenIsSeen DEF CommitRebuild
<1>5. calendar' \in [Nights -> Rows \union {Unpriced}]
  <2>1. PICK S \in SUBSET Nights : v.new \in [S -> Rows \union {Unpriced}]
    BY <1>2 DEF AnyEdit, Plans
  <2>2. \A n \in DOMAIN v.new : v.new[n] \in Rows \union {Unpriced}
    BY <2>1
  <2> HIDE DEF v
  <2>3. calendar' = [n \in Nights |->
          IF n \in DOMAIN v.new THEN v.new[n]
          ELSE IF n \in OldNights(e) THEN Unpriced ELSE calendar[n]]
    BY DEF CommitRebuild, v
  <2>4. QED BY <2>2, <2>3, <1>3
<1>6. /\ edits' = [Outdated(edits) EXCEPT ![e] = Closed] /\ previewed' = Nothing
      /\ civilDay' = civilDay /\ serial' = serial /\ rebuilds' = rebuilds
  BY DEF CommitRebuild
<1>7. edits'[e] = Closed
  BY <1>6 DEF Outdated
<1>8. \A u \in Editors : u # e =>
        edits'[u] = IF Open(u) THEN [edits[u] EXCEPT !.held = FALSE] ELSE Closed
  BY <1>6 DEF Outdated
<1>9. ASSUME NEW u \in Editors, u # e, Open(u)
      PROVE  /\ edits'[u] \in AnyEdit /\ edits'[u].alone = FALSE
             /\ Sound(edits'[u], seasons', calendar', civilDay)
  <2>1. PICK y : y = [edits[u] EXCEPT !.held = FALSE]
    OBVIOUS
  <2>2. /\ y \in AnyEdit /\ y.alone = edits[u].alone /\ y.held = FALSE
        /\ DOMAIN y.new \subseteq Window(y.from) /\ y.from <= civilDay
    BY <1>9, <2>1, OutdatedKeeps
  <2>3. y.alone = FALSE
    <3>1. ~edits[u].alone
      BY <1>1, <1>9 DEF RatesInv, AloneIsAlone
    <3>2. y.alone \in BOOLEAN
      BY <2>2 DEF AnyEdit
    <3>3. QED BY <3>1, <3>2, <2>2
  <2>4. Sound(y, seasons', calendar', civilDay)
    BY <2>2, <2>3 DEF Sound
  <2>5. edits'[u] = y
    BY <1>9, <1>8, <2>1
  <2>6. QED BY <2>2, <2>3, <2>4, <2>5
<1>10. RatesTypeOK'
  <2>1. ASSUME NEW u \in Editors PROVE edits'[u] \in AnyEdit \union {Closed}
    <3>1. CASE u = e
      BY <3>1, <1>7
    <3>2. CASE u # e /\ Open(u)
      BY <3>2, <1>9
    <3>3. CASE u # e /\ ~Open(u)
      BY <3>3, <1>8
    <3>4. QED BY <3>1, <3>2, <3>3
  <2>2. edits' \in [Editors -> AnyEdit \union {Closed}]
    BY <2>1, <1>6 DEF Outdated
  <2>3. QED BY <2>2, <1>4, <1>5, <1>6 DEF RatesInv, RatesTypeOK
<1>11. EditsSound'
  BY <1>6, <1>7, <1>8, <1>9 DEF EditsSound, Open
<1>12. AloneIsAlone'
  BY <1>7, <1>8, <1>9 DEF AloneIsAlone, Open
<1>13. PreviewHolds'
  BY <1>6 DEF PreviewHolds
<1>14. NothingBeyond'
  BY <1>6, NothingWrittenBeyond DEF NothingBeyond
<1>15. QED BY <1>10, <1>11, <1>12, <1>13, <1>14 DEF RatesInv

LEMMA RatesStep == RatesInv /\ [RatesNext]_ratesVars => RatesInv'
<1> SUFFICES ASSUME RatesInv, [RatesNext]_ratesVars PROVE RatesInv'
  OBVIOUS
<1>1. ASSUME NEW id \in SeasonIds \union {0}, NEW s \in Offered, PreviewSeason(id, s)
      PROVE  RatesInv'
  BY <1>1, PreviewKeeps
<1>2. ASSUME NEW e \in Editors, SaveSeasonAndRebuild(e) PROVE RatesInv'
  <2>1. PICK season \in Offered :
          CreateRateSeason(e, season) \/ \E id \in SeasonIds : UpdateRateSeason(e, id, season)
    BY <1>2 DEF SaveSeasonAndRebuild
  <2>2. CASE CreateRateSeason(e, season)
    <3>1. serial + 1 \in SeasonIds /\ serial' \in 0..MaxSeasons
      BY <2>2 DEF CreateRateSeason, RatesInv, RatesTypeOK, SeasonIds
    <3>2. QED BY <2>2, <3>1, RebuildBegins DEF CreateRateSeason
  <2>3. ASSUME NEW id \in SeasonIds, UpdateRateSeason(e, id, season) PROVE RatesInv'
    <3>1. serial' \in 0..MaxSeasons
      BY <2>3 DEF UpdateRateSeason, RatesInv, RatesTypeOK
    <3>2. QED BY <2>3, <3>1, RebuildBegins DEF UpdateRateSeason
  <2>4. QED BY <2>1, <2>2, <2>3
<1>3. ASSUME NEW e \in Editors, DeleteSeason(e) PROVE RatesInv'
  <2>1. PICK id \in SeasonIds : DeleteRateSeason(e, id)
    BY <1>3 DEF DeleteSeason
  <2>2. serial' \in 0..MaxSeasons
    BY <2>1 DEF DeleteRateSeason, RatesInv, RatesTypeOK
  <2>3. QED BY <2>1, <2>2, RebuildBegins DEF DeleteRateSeason
<1>4. ASSUME NEW e \in Editors, RebuildHorizon(e) PROVE RatesInv'
  <2>1. serial' \in 0..MaxSeasons
    BY <1>4 DEF RebuildHorizon, RatesInv, RatesTypeOK
  <2>2. QED BY <1>4, <2>1, RebuildBegins DEF RebuildHorizon
<1>5. ASSUME NEW e \in Editors, FindOld(e) PROVE RatesInv'
  BY <1>5, FindOldKeeps
<1>6. ASSUME NEW e \in Editors, DeleteOld(e) PROVE RatesInv'
  BY <1>6, DeleteOldKeeps
<1>7. ASSUME NEW e \in Editors, InsertNew(e) PROVE RatesInv'
  BY <1>7, InsertNewKeeps
<1>8. ASSUME NEW e \in Editors, CommitRebuild(e) PROVE RatesInv'
  BY <1>8, RebuildCommits
<1>9. ASSUME NEW e \in Editors, RollBackRebuild(e) PROVE RatesInv'
  BY <1>9, EditMoves DEF RollBackRebuild
<1>10. ASSUME DayTurns PROVE RatesInv'
  BY <1>10, DayKeeps
<1>11. ASSUME UNCHANGED ratesVars PROVE RatesInv'
  <2>1. UNCHANGED <<seasons, calendar, edits, serial, rebuilds, previewed, civilDay>>
    BY <1>11 DEF ratesVars
  <2>2. RatesTypeOK'
    BY <2>1 DEF RatesInv, RatesTypeOK
  <2>3. EditsSound' /\ AloneIsAlone' /\ PreviewHolds' /\ NothingBeyond'
    BY <2>1 DEF RatesInv, EditsSound, AloneIsAlone, PreviewHolds, NothingBeyond, Open
  <2>4. QED BY <2>2, <2>3 DEF RatesInv
<1>12. CASE RatesNext
  BY <1>12, <1>1, <1>2, <1>3, <1>4, <1>5, <1>6, <1>7, <1>8, <1>9, <1>10 DEF RatesNext
<1>13. QED BY <1>11, <1>12

(* SaveSeasonAndRebuild: a rebuild that no other overlapped leaves every    *)
(* night of its window as the seasons resolve it, and repairs whatever      *)
(* earlier ones left there; for any seasons, horizon and number of editors. *)
THEOREM AloneRepairs == RatesSpec => RebuildRepairs
<1>1. ASSUME RatesInv, NEW e \in Editors, CommitRebuild(e), edits[e].alone,
             NEW n \in Window(edits[e].from)
      PROVE  Resolved(seasons', calendar'[n], n)
  <2>1. Open(e)
    BY <1>1 DEF CommitRebuild, Open, Closed
  <2>2. edits[e] \in AnyEdit
    BY <1>1, <2>1, OpenIs
  <2>3. edits[e].name \in Nat /\ edits[e].from \in 1..MaxToday
    BY <2>2 DEF AnyEdit
  <2>4. n \in Nat
    BY <1>1, <2>3, WindowIsAhead DEF Nights
  <2>5. seasons' \in Possible
    BY <1>1, RebuildCommits DEF RatesInv, RatesTypeOK
  <2>6. calendar'[n] = Generated(seasons', n, edits[e].name)
    BY <1>1, CommitLeaves
  <2>7. PICK table : table = seasons'
    OBVIOUS
  <2>8. Resolved(table, Generated(table, n, edits[e].name), n)
    BY <2>3, <2>4, <2>5, <2>7, GeneratedResolves
  <2>9. QED BY <2>6, <2>7, <2>8
<1>2. RatesInv => [\A e \in Editors :
       CommitRebuild(e) /\ edits[e].alone
         => \A n \in Window(edits[e].from) : Resolved(seasons', calendar'[n], n)]_ratesVars
  BY <1>1
<1>3. QED BY <1>2, RatesInitially, RatesStep, PTL DEF RatesSpec, RebuildRepairs

(* PreviewSeason: when nothing has changed since the preview, saving the    *)
(* season changes the nights that were shown and no other; for any seasons, *)
(* horizon and number of editors.                                           *)
THEOREM PreviewIsKept == RatesSpec => PreviewIsHonest
<1>1. ASSUME RatesInv, NEW e \in Editors, CommitRebuild(e), edits[e].held
      PROVE  edits[e].promised = {n \in Nights : ~Same(calendar[n], calendar'[n])}
  <2> DEFINE v == edits[e]
  <2>1. Open(e)
    BY <1>1 DEF CommitRebuild, Open, Closed
  <2>2. v \in AnyEdit /\ Sound(v, seasons, calendar, civilDay)
    BY <1>1, <2>1, OpenIs DEF RatesInv, EditsSound
  <2>3. v.name \in Nat /\ v.from \in 1..MaxToday
    BY <2>2 DEF AnyEdit
  <2>4. v.from = civilDay /\ v.promised = Changes(SeenIn(v, seasons), calendar, civilDay)
    BY <1>1, <2>2 DEF Sound
  <2>5. seasons' = SeenIn(v, seasons) /\ seasons' \in Possible
    BY <1>1, SeenIsSeen, RebuildCommits DEF CommitRebuild, RatesInv, RatesTypeOK
  <2>6. PICK table \in Possible : table = SeenIn(v, seasons)
    BY <2>5
  <2>7. ASSUME NEW n \in Window(civilDay)
        PROVE  Same(calendar[n], Generated(table, n, 0)) <=> Same(calendar[n], calendar'[n])
    <3>1. n \in Nat /\ n \in Window(v.from)
      BY <2>3, <2>4, <2>7, WindowIsAhead DEF Nights
    <3>2. calendar'[n] = Generated(table, n, v.name)
      BY <1>1, <3>1, <2>5, <2>6, CommitLeaves
    <3>3. QED BY <3>1, <3>2, <2>3, SamePrice
  <2>8. ASSUME NEW n \in Nights, n \notin Window(civilDay)
        PROVE  Same(calendar[n], calendar'[n])
    <3>1. n < v.from \/ n > civilDay + Horizon
      BY <2>3, <2>4, <2>8 DEF Window, Nights
    <3>2. CASE n > civilDay + Horizon
      BY <3>2, <1>1, NothingWrittenBeyond DEF Same
    <3>3. CASE n < v.from
      <4>1. n \notin DOMAIN v.new
        BY <2>2, <2>4, <2>8 DEF Sound
      <4>2. n \notin OldNights(e)
        <5>1. v.old = FoundBy(v, calendar)
          BY <1>1, <2>2 DEF Sound, Undisturbed, CommitRebuild
        <5>2. \A k \in Nights : k >= v.from => k # n
          BY <3>3, <2>3 DEF Nights
        <5>3. QED BY <5>1, <5>2 DEF FoundBy, OldNights
      <4>3. calendar'[n] = calendar[n]
        BY <1>1, <2>8, <4>1, <4>2 DEF CommitRebuild
      <4>4. QED BY <4>3 DEF Same
    <3>4. QED BY <3>1, <3>2, <3>3
  <2>9. Window(civilDay) \subseteq Nights
    BY <2>3, <2>4, WindowIsAhead
  <2>10. v.promised = {n \in Window(civilDay) : ~Same(calendar[n], Generated(table, n, 0))}
    BY <2>4, <2>6 DEF Changes
  <2>11. QED BY <2>7, <2>8, <2>9, <2>10
<1>2. RatesInv => [\A e \in Editors :
       CommitRebuild(e) /\ edits[e].held
         => edits[e].promised = {n \in Nights : ~Same(calendar[n], calendar'[n])}]_ratesVars
  BY <1>1
<1>3. QED BY <1>2, RatesInitially, RatesStep, PTL DEF RatesSpec, PreviewIsHonest
=============================================================================
