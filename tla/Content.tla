------------------------------- MODULE Content -------------------------------
(***************************************************************************)
(* The documents of the public site (internal/console/content.go): the     *)
(* menu, the events, the nearby attractions, a page's gallery, a room with *)
(* its photos and beds, and the words kept in single rows.                 *)
(*                                                                         *)
(* A document is saved whole: in one READ COMMITTED transaction its rows   *)
(* are deleted and written again.  DELETE works on the rows its snapshot   *)
(* shows, waits for those another transaction is deleting, and skips those *)
(* that are gone when it gets there; rows committed meanwhile it does not  *)
(* see.  A room is saved by an UPDATE of its row first, which makes a      *)
(* second save of the room wait for the first one's end.                   *)
(*                                                                         *)
(* A page is read by one statement a table, with nothing to hold them      *)
(* together.                                                               *)
(*                                                                         *)
(* The rows one save writes into a table stand here as one row; `by' is    *)
(* the save that wrote it, `id' its key, `of' the row it belongs to.       *)
(***************************************************************************)
EXTENDS Integers, FiniteSets, Sequences

CONSTANTS
  Savers,        \* requests that save, one at a time each
  Readers,       \* requests that read
  MaxSaves       \* bound: saves begun

VARIABLES
  tables,    \* table -> its rows
  saves,     \* the transaction of each saver
  views,     \* what each reader has read
  begun      \* how many saves were begun; their names are 1..begun

contentVars == <<tables, saves, views, begun>>

ASSUME SaverAssumption == MaxSaves \in Nat

Lists     == {"menu", "events", "attractions", "gallery"}
Documents == Lists \union {"room"}

(* The table a document's DELETE empties, and the tables that go with it by *)
(* ON DELETE CASCADE.                                                       *)
Replaced == [menu |-> {"menu_sections"}, events |-> {"events"},
             attractions |-> {"local_attractions"}, gallery |-> {"page_photos"},
             room |-> {"room_photos", "room_beds"}]

Cascaded == [menu |-> {"menu_items"}, events |-> {"event_photos"},
             attractions |-> {}, gallery |-> {}, room |-> {}]

Words  == {"page_copy", "email_templates"}
Tables == {"rooms"} \union Words \union UNION {Replaced[d] \union Cascaded[d] : d \in Documents}

RoomId == 0
Quiet  == [phase |-> "quiet"]

ContentInit ==
  /\ tables = [t \in Tables |->
       IF t = "rooms" THEN {[id |-> RoomId, of |-> RoomId, by |-> 0, shown |-> TRUE]} ELSE {}]
  /\ saves = [s \in Savers |-> Quiet]
  /\ views = [r \in Readers |-> Quiet]
  /\ begun = 0

-----------------------------------------------------------------------------
(* Statements that write.  A save writes nothing at all, or every kind of   *)
(* row there is: dishes to be had and one that has run out, an event that   *)
(* is published and a draft.                                                *)

Row(v, id, of, shown) ==
  IF v.content = "blank" THEN {}
  ELSE {[id |-> id, of |-> of, by |-> v.name, shown |-> shown]}

(* Mutant: a course keeps its number from one menu to the next.            *)
NumberedSection(v) == Row(v, 1, 0, TRUE)

(* The serial never gives an id twice.                                     *)
CreateMenuSection(v)       == Row(v, v.name, 0, TRUE)
CreateMenuItem(v, section) ==
  Row(v, v.name, section, TRUE) \union Row(v, v.name + MaxSaves, section, FALSE)
CreateEvent(v)             == Row(v, v.name, 0, TRUE) \union Row(v, v.name + MaxSaves, 0, FALSE)
CreateEventPhoto(v, event) == Row(v, event, event, TRUE)
CreateLocalAttraction(v)   == Row(v, v.name, 0, TRUE)
CreatePagePhoto(v)         == Row(v, v.name, 0, TRUE)
CreateRoomPhoto(v)         == Row(v, v.name, RoomId, TRUE)
CreateRoomBed(v)           == Row(v, v.name, RoomId, TRUE)

UpdateRoom(v) == {[room EXCEPT !.by = v.name] : room \in tables["rooms"]}

Children(parents, Create(_)) == UNION {Create(p.id) : p \in parents}

(* What a save writes into a table.                                        *)
MenuRows(v, t) ==
  IF t = "menu_sections" THEN CreateMenuSection(v)
  ELSE Children(CreateMenuSection(v), LAMBDA id : CreateMenuItem(v, id))

EventRows(v, t) ==
  IF t = "events" THEN CreateEvent(v)
  ELSE Children(CreateEvent(v), LAMBDA id : CreateEventPhoto(v, id))

RoomRows(v, t) == IF t = "room_photos" THEN CreateRoomPhoto(v) ELSE CreateRoomBed(v)

Written(v, t) ==
  CASE v.doc = "menu"        -> MenuRows(v, t)
    [] v.doc = "events"      -> EventRows(v, t)
    [] v.doc = "attractions" -> CreateLocalAttraction(v)
    [] v.doc = "gallery"     -> CreatePagePhoto(v)
    [] v.doc = "room"        -> RoomRows(v, t)

-----------------------------------------------------------------------------
(* A save that is refused (a course without a name, a photo without words  *)
(* for it) is refused before the transaction begins and changes nothing.   *)

(* One more save, within the bound. *)
Write == begun < MaxSaves /\ begun' = begun + 1

Rivals(s, d) == {t \in Savers \ {s} : saves[t] # Quiet /\ saves[t].doc = d}

(* The keys of the rows the document's DELETE finds.                        *)
Present(d) == UNION {{row.id : row \in tables[t]} : t \in Replaced[d]}

Begin(s, d, content) ==
  /\ saves[s] = Quiet
  /\ Write
  /\ saves' = [t \in Savers |->
       IF t = s THEN [phase |-> "deleting", doc |-> d, content |-> content, name |-> begun + 1,
                      old |-> Present(d), alone |-> Rivals(s, d) = {}]
       ELSE IF t \in Rivals(s, d) THEN [saves[t] EXCEPT !.alone = FALSE]
       ELSE saves[t]]
  /\ UNCHANGED <<tables, views>>

SaveMenu(s)        == \E content \in {"blank", "full"} : Begin(s, "menu", content)
SaveEvents(s)      == \E content \in {"blank", "full"} : Begin(s, "events", content)
SaveAttractions(s) == \E content \in {"blank", "full"} : Begin(s, "attractions", content)
SavePagePhotos(s)  == \E content \in {"blank", "full"} : Begin(s, "gallery", content)

(* Mutant: the room's row is not written first.                            *)
RoomUnlocked(s) == TRUE

(* UPDATE rooms ... WHERE id: one transaction at a time.                   *)
RoomLocked(s) == Rivals(s, "room") = {}

SaveRoom(s) ==
  /\ RoomLocked(s)
  /\ \E content \in {"blank", "full"} : Begin(s, "room", content)

(* The rows another save has deleted and not yet committed or given back.  *)
Locked(s, d) ==
  UNION {saves[t].old : t \in {u \in Rivals(s, d) : saves[u].phase = "writing"}}

Delete(s, d) ==
  /\ saves[s].phase = "deleting" /\ saves[s].doc = d
  /\ saves[s].old \intersect Present(d) \intersect Locked(s, d) = {}
  /\ saves' = [saves EXCEPT ![s].phase = "writing", ![s].old = @ \intersect Present(d)]
  /\ UNCHANGED <<tables, views, begun>>

DeleteAllMenuSections(s)  == Delete(s, "menu")
DeleteAllEvents(s)        == Delete(s, "events")
DeletePagePhotos(s)       == Delete(s, "gallery")
DeleteRoomPhotos(s)       == Delete(s, "room")     \* and its beds

(* Mutant: the attractions already there are left.                         *)
LeaveAttractions(s) ==
  /\ saves[s].phase = "deleting" /\ saves[s].doc = "attractions"
  /\ saves' = [saves EXCEPT ![s].phase = "writing", ![s].old = {}]
  /\ UNCHANGED <<tables, views, begun>>

DeleteLocalAttractions(s) == Delete(s, "attractions")

Committed(v, t) ==
  IF t \in Replaced[v.doc] THEN {row \in tables[t] : row.id \notin v.old} \union Written(v, t)
  ELSE IF t \in Cascaded[v.doc] THEN {row \in tables[t] : row.of \notin v.old} \union Written(v, t)
  ELSE IF v.doc = "room" /\ t = "rooms" THEN UpdateRoom(v)
  ELSE tables[t]

Commit(s) ==
  /\ saves[s].phase = "writing"
  /\ tables' = [t \in Tables |-> Committed(saves[s], t)]
  /\ saves' = [saves EXCEPT ![s] = Quiet]
  /\ UNCHANGED <<views, begun>>

(* A constraint refuses a row, the browser goes away, the server dies.     *)
Rollback(s) ==
  /\ saves[s] # Quiet
  /\ saves' = [saves EXCEPT ![s] = Quiet]
  /\ UNCHANGED <<tables, views, begun>>

-----------------------------------------------------------------------------
(* The words in single rows: emptying a page and resetting a message       *)
(* delete the row, and leave the page's gallery alone.                     *)

WordRow == {[id |-> RoomId, of |-> RoomId, by |-> 0, shown |-> TRUE]}

UpsertPageCopy      == tables' = [tables EXCEPT !["page_copy"] = WordRow]
DeletePageCopy      == tables' = [tables EXCEPT !["page_copy"] = {}]
UpsertEmailTemplate == tables' = [tables EXCEPT !["email_templates"] = WordRow]
DeleteEmailTemplate == tables' = [tables EXCEPT !["email_templates"] = {}]

SaveCopy ==
  /\ Write
  /\ DeletePageCopy \/ UpsertPageCopy
  /\ UNCHANGED <<saves, views>>

SaveEmailCopy  == Write /\ UpsertEmailTemplate /\ UNCHANGED <<saves, views>>
ResetEmailCopy == Write /\ DeleteEmailTemplate /\ UNCHANGED <<saves, views>>

-----------------------------------------------------------------------------
(* Statements that read, and the pages they are put together into.          *)

Shown(rows) == {row \in rows : row.shown}

ListMenuSections      == tables["menu_sections"]
ListMenuItems         == {item \in tables["menu_items"] :
                            \E section \in tables["menu_sections"] : section.id = item.of}
ListEvents            == tables["events"]
ListPublishedEvents   == Shown(tables["events"])
ListEventPhotos       == tables["event_photos"]
ListLocalAttractions  == tables["local_attractions"]
ListRooms             == tables["rooms"]
ListPhotosForRooms    == tables["room_photos"]
ListBedsForRooms      == tables["room_beds"]
ListPageCopy          == tables["page_copy"]
ListPagePhotos        == tables["page_photos"]
ListEmailTemplates    == tables["email_templates"]

(* The same, of the one page that is asked for.                             *)
GetPageCopy           == tables["page_copy"]
ListPagePhotosFor     == tables["page_photos"]

(* The statements of a page, in order, one after another's answer.          *)
Answer(page, n) ==
  CASE page \in {"menu", "public menu"} /\ n = 1 -> ListMenuSections
    [] page = "menu" /\ n = 2                    -> ListMenuItems
    [] page = "public menu" /\ n = 2             -> Shown(ListMenuItems)
    [] page = "events" /\ n = 1                  -> ListEvents
    [] page = "public events" /\ n = 1           -> ListPublishedEvents
    [] page \in {"events", "public events"} /\ n = 2 -> ListEventPhotos
    [] page = "attractions"                      -> ListLocalAttractions
    [] page = "rooms" /\ n = 1                   -> ListRooms
    [] page = "rooms" /\ n = 2                   -> ListPhotosForRooms
    [] page = "rooms" /\ n = 3                   -> ListBedsForRooms
    [] page = "copy" /\ n = 1                    -> ListPageCopy
    [] page = "copy" /\ n = 2                    -> ListPagePhotos
    [] page = "page" /\ n = 1                    -> GetPageCopy
    [] page = "page" /\ n = 2                    -> ListPagePhotosFor
    [] page = "email"                            -> ListEmailTemplates

Statements(page) ==
  CASE page \in {"attractions", "email"} -> 1
    [] page = "rooms" -> 3
    [] OTHER -> 2

Read(r, page) ==
  /\ views[r] = Quiet
  /\ views' = [views EXCEPT ![r] = [phase |-> "reading", page |-> page, got |-> <<Answer(page, 1)>>]]
  /\ UNCHANGED <<tables, saves, begun>>

Menu(r)         == Read(r, "menu")
PublicMenu(r)   == Read(r, "public menu")
Events(r)       == Read(r, "events")
PublicEvents(r) == Read(r, "public events")
Attractions(r)  == Read(r, "attractions")
Rooms(r)        == Read(r, "rooms")
Copy(r)         == Read(r, "copy")
PageFor(r)      == Read(r, "page")
EmailCopy(r)    == Read(r, "email")

ReadOn(r) ==
  /\ views[r] # Quiet
  /\ LET v == views[r]
         n == Len(v.got) + 1
     IN  /\ n <= Statements(v.page)
         /\ views' = [views EXCEPT ![r].got = Append(@, Answer(v.page, n))]
  /\ UNCHANGED <<tables, saves, begun>>

Leave(r) ==
  /\ views[r] # Quiet
  /\ views' = [views EXCEPT ![r] = Quiet]
  /\ UNCHANGED <<tables, saves, begun>>

(* bySection, byEvent: what belongs to a row is found by its key.           *)
Under(row, belonging) == {b \in belonging : b.of = row.id}

-----------------------------------------------------------------------------
ConsoleSaves(s) ==
  \/ SaveMenu(s) \/ SaveEvents(s) \/ SaveAttractions(s) \/ SavePagePhotos(s) \/ SaveRoom(s)
  \/ DeleteAllMenuSections(s) \/ DeleteAllEvents(s) \/ DeleteLocalAttractions(s)
  \/ DeletePagePhotos(s) \/ DeleteRoomPhotos(s)
  \/ Commit(s) \/ Rollback(s)

Reads(r) ==
  \/ Menu(r) \/ PublicMenu(r) \/ Events(r) \/ PublicEvents(r)
  \/ Attractions(r) \/ Rooms(r) \/ Copy(r) \/ PageFor(r) \/ EmailCopy(r)
  \/ ReadOn(r) \/ Leave(r)

ContentNext ==
  \/ \E s \in Savers : ConsoleSaves(s)
  \/ SaveCopy \/ SaveEmailCopy \/ ResetEmailCopy
  \/ \E r \in Readers : Reads(r)

ContentSpec == ContentInit /\ [][ContentNext]_contentVars

-----------------------------------------------------------------------------
(* SaveRoom: "an owner reordering a gallery ... must not end up with a room *)
(* showing three of its five pictures": whoever saves a room at the same    *)
(* time, its row, its photos and its beds come from one save.               *)
RoomIsOneSave ==
  \A room \in tables["rooms"], t \in Replaced["room"] :
    \A row \in tables[t] : row.of = room.id /\ row.by = room.by

(* SaveMenu and its like: a save that no other save of the same document   *)
(* overlapped leaves exactly its own rows, whatever it found there: saving  *)
(* once more, alone, also repairs a document two saves have doubled.        *)
SavedAloneIsWhole ==
  [][\A s \in Savers :
       Commit(s) /\ saves[s].alone
         => \A t \in Replaced[saves[s].doc] \union Cascaded[saves[s].doc] :
              tables'[t] = Written(saves[s], t)]_contentVars

(* The menu and the events page are put together from two reads that a save *)
(* may fall between; a dish is still never shown under a course, nor a      *)
(* photo under an event, of another save.                                   *)
NeverMixed ==
  \A r \in Readers :
    views[r] # Quiet /\ views[r].page \in {"menu", "public menu", "events", "public events"}
        /\ Len(views[r].got) = 2
      => \A row \in views[r].got[1] : \A b \in Under(row, views[r].got[2]) : b.by = row.by
=============================================================================
