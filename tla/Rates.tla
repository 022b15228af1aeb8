-------------------------------- MODULE Rates --------------------------------
(***************************************************************************)
(* The rate editor (internal/console/rates.go) and the monthly job of      *)
(* internal/rates: the seasons the owner edits, and the nightly calendar   *)
(* generated from them, which is what every search reads.                  *)
(*                                                                         *)
(* A save is one READ COMMITTED transaction: the season is written, the    *)
(* calendar from today on is deleted and what the seasons now generate is  *)
(* inserted.  The DELETE works on the rows its snapshot shows, waits for   *)
(* those another transaction has deleted, and skips those that are gone by *)
(* then; the INSERT takes a later snapshot of the seasons, and the primary *)
(* key of the calendar decides against a row that is there already.        *)
(*                                                                         *)
(* Rooms are priced independently, so there is one here.  A season's       *)
(* minimum stay travels with its price and is left out.                    *)
(***************************************************************************)
EXTENDS Integers, FiniteSets

CONSTANTS
  Editors,      \* requests and jobs, one transaction at a time each
  Offered,      \* what a season can be: [first, last, priority, price]
  NoSeason,     \* a season not written yet, or deleted
  Unpriced,     \* a night without a row in the calendar
  Horizon,      \* how many nights ahead the calendar is generated
  MaxSeasons,   \* bound: seasons ever written
  MaxRebuilds,  \* bound: transactions begun
  MaxToday      \* bound: the last day

VARIABLES
  seasons,      \* rate_seasons with rate_season_prices, by id
  calendar,     \* rate_calendar: night -> [by, price, written] or Unpriced
  edits,        \* the transaction of each editor
  serial,       \* season ids given out
  rebuilds,     \* transactions begun, and the name of the last one
  previewed,    \* the preview on the owner's screen, while nothing has changed
  civilDay      \* today at the inn

ratesVars == <<seasons, calendar, edits, serial, rebuilds, previewed, civilDay>>

ASSUME SeasonAssumption ==
  /\ \A s \in Offered : {s.first, s.last, s.priority, s.price} \subseteq Nat
  /\ NoSeason \notin Offered
  /\ Unpriced \notin [by : Nat, price : Nat, written : Nat]
  /\ Horizon \in Nat /\ MaxToday \in Nat \ {0} /\ MaxSeasons \in Nat

SeasonIds == 1..MaxSeasons
Nights    == 1..(MaxToday + Horizon)
Closed    == [phase |-> "closed"]
Nothing   == [id |-> 0, season |-> NoSeason, promised |-> {}]

RatesInit ==
  /\ seasons = [id \in SeasonIds |-> NoSeason]
  /\ calendar = [n \in Nights |-> Unpriced]
  /\ edits = [e \in Editors |-> Closed]
  /\ serial = 0 /\ rebuilds = 0
  /\ previewed = Nothing
  /\ civilDay = 1

-----------------------------------------------------------------------------
(* generated_rate_calendar.                                                *)

(* A price of zero is a room the season does not price.                    *)
Prices(season, n) ==
  season # NoSeason /\ season.first <= n /\ n <= season.last /\ season.price > 0

Covering(table, n) == {id \in SeasonIds : Prices(table[id], n)}

(* Mutant: ties go to the oldest season.                                   *)
OldestFirst(table, i, j) ==
  \/ table[i].priority > table[j].priority
  \/ table[i].priority = table[j].priority /\ i < j

(* ORDER BY priority DESC, id DESC.                                        *)
Before(table, i, j) ==
  \/ table[i].priority > table[j].priority
  \/ table[i].priority = table[j].priority /\ i > j

Generated(table, n, name) ==
  IF Covering(table, n) = {} THEN Unpriced
  ELSE LET id == CHOOSE i \in Covering(table, n) :
                   \A j \in Covering(table, n) \ {i} : Before(table, i, j)
       IN  [by |-> id, price |-> table[id].price, written |-> name]

Window(from) == from..(from + Horizon)

Same(row, other) ==
  IF row = Unpriced \/ other = Unpriced THEN row = other ELSE row.price = other.price

(* rate_calendar_changes: the nights a rebuild would change.               *)
SummariseRateChanges(table) ==
  {n \in Window(civilDay) : ~Same(calendar[n], Generated(table, n, 0))}

-----------------------------------------------------------------------------
Open(e) == edits[e] # Closed

(* The seasons as a transaction sees them: what is committed, and its own. *)
Seen(e) == IF edits[e].id = 0 THEN seasons
           ELSE [seasons EXCEPT ![edits[e].id] = edits[e].season]

(* A season another transaction has written makes this one wait.           *)
Writable(id) == \A e \in Editors : Open(e) => edits[e].id # id

(* PreviewSeason: the edit is made, the difference taken, and all of it    *)
(* rolled back.                                                            *)
PreviewSeason(id, season) ==
  /\ id # 0 => seasons[id] # NoSeason /\ Writable(id)
  /\ id = 0 => serial < MaxSeasons
  /\ LET at == IF id = 0 THEN serial + 1 ELSE id
     IN  previewed' = [id |-> at, season |-> season,
                       promised |-> SummariseRateChanges([seasons EXCEPT ![at] = season])]
  /\ UNCHANGED <<seasons, calendar, edits, serial, rebuilds, civilDay>>

BeginRebuild(e, id, season) ==
  /\ ~Open(e) /\ rebuilds < MaxRebuilds
  /\ rebuilds' = rebuilds + 1
  /\ edits' = [u \in Editors |->
       IF u = e THEN [phase |-> "edited", name |-> rebuilds + 1, id |-> id, season |-> season,
                      from |-> civilDay, old |-> {}, new |-> <<>>,
                      alone |-> \A w \in Editors : ~Open(w),
                      held |-> previewed # Nothing /\ previewed.id = id
                                 /\ previewed.season = season,
                      promised |-> previewed.promised]
       ELSE IF Open(u) THEN [edits[u] EXCEPT !.alone = FALSE] ELSE Closed]
  /\ UNCHANGED <<seasons, calendar, previewed, civilDay>>

CreateRateSeason(e, season) ==
  /\ serial < MaxSeasons
  /\ BeginRebuild(e, serial + 1, season)
  /\ serial' = serial + 1

UpdateRateSeason(e, id, season) ==
  /\ seasons[id] # NoSeason /\ Writable(id)
  /\ BeginRebuild(e, id, season)
  /\ UNCHANGED serial

DeleteRateSeason(e, id) ==
  /\ seasons[id] # NoSeason /\ Writable(id)
  /\ BeginRebuild(e, id, NoSeason)
  /\ UNCHANGED serial

SaveSeasonAndRebuild(e) ==
  \E season \in Offered :
    CreateRateSeason(e, season) \/ \E id \in SeasonIds : UpdateRateSeason(e, id, season)

DeleteSeason(e) == \E id \in SeasonIds : DeleteRateSeason(e, id)

(* The monthly job, and the button that does the same.                     *)
RebuildHorizon(e) == BeginRebuild(e, 0, NoSeason) /\ UNCHANGED serial

(* Mutant: only the nights of the season itself are rebuilt.               *)
OwnSpan(e, n) ==
  /\ n >= edits[e].from
  /\ edits[e].season # NoSeason => edits[e].season.first <= n /\ n <= edits[e].season.last

(* The whole horizon, whatever season was edited.                          *)
Rebuilt(e, n) == n >= edits[e].from

(* The DELETE takes its snapshot ...                                       *)
FindOld(e) ==
  /\ edits[e].phase = "edited"
  /\ edits' = [edits EXCEPT ![e].phase = "deleting",
       ![e].old = {[night |-> n, row |-> calendar[n]] :
                     n \in {k \in Nights : Rebuilt(e, k) /\ calendar[k] # Unpriced}}]
  /\ UNCHANGED <<seasons, calendar, serial, rebuilds, previewed, civilDay>>

(* ... and deletes the rows of it that are still there.                    *)
StillThere(e) == {o \in edits[e].old : calendar[o.night] = o.row}

Rewriting(e) == {u \in Editors \ {e} : edits[u].phase \in {"deleted", "inserted"}}

OldNights(e) == {o.night : o \in edits[e].old}

DeleteOld(e) ==
  /\ edits[e].phase = "deleting"
  /\ \A u \in Rewriting(e) : StillThere(e) \intersect edits[u].old = {}
  /\ edits' = [edits EXCEPT ![e].phase = "deleted", ![e].old = StillThere(e)]
  /\ UNCHANGED <<seasons, calendar, serial, rebuilds, previewed, civilDay>>

Inserted(e) == {n \in Window(edits[e].from) :
                  Rebuilt(e, n) /\ Covering(Seen(e), n) # {}}

(* A row another transaction may yet keep or take away makes this one wait. *)
Contested(e, u) == Inserted(e) \intersect (OldNights(u) \union DOMAIN edits[u].new)

InsertNew(e) ==
  /\ edits[e].phase = "deleted"
  /\ \A u \in Rewriting(e) : Contested(e, u) = {}
  /\ edits' = [edits EXCEPT ![e] =
       IF \E n \in Inserted(e) \ OldNights(e) : calendar[n] # Unpriced
       THEN Closed       \* the primary key refuses, and all is rolled back
       ELSE [@ EXCEPT !.phase = "inserted",
               !.new = [n \in Inserted(e) |-> Generated(Seen(e), n, edits[e].name)]]]
  /\ UNCHANGED <<seasons, calendar, serial, rebuilds, previewed, civilDay>>

(* What was previewed no longer holds for anybody else.                    *)
Outdated(others) ==
  [u \in Editors |-> IF Open(u) THEN [others[u] EXCEPT !.held = FALSE] ELSE Closed]

CommitRebuild(e) ==
  /\ edits[e].phase = "inserted"
  /\ seasons' = Seen(e)
  /\ calendar' = [n \in Nights |->
       IF n \in DOMAIN edits[e].new THEN edits[e].new[n]
       ELSE IF n \in OldNights(e) THEN Unpriced ELSE calendar[n]]
  /\ edits' = [Outdated(edits) EXCEPT ![e] = Closed]
  /\ previewed' = Nothing
  /\ UNCHANGED <<serial, rebuilds, civilDay>>

RollBackRebuild(e) ==
  /\ Open(e)
  /\ edits' = [edits EXCEPT ![e] = Closed]
  /\ UNCHANGED <<seasons, calendar, serial, rebuilds, previewed, civilDay>>

DayTurns ==
  /\ civilDay < MaxToday
  /\ civilDay' = civilDay + 1
  /\ previewed' = Nothing
  /\ edits' = Outdated(edits)
  /\ UNCHANGED <<seasons, calendar, serial, rebuilds>>

-----------------------------------------------------------------------------
RatesNext ==
  \/ \E id \in SeasonIds \union {0}, s \in Offered : PreviewSeason(id, s)
  \/ \E e \in Editors :
       \/ SaveSeasonAndRebuild(e) \/ DeleteSeason(e) \/ RebuildHorizon(e)
       \/ FindOld(e) \/ DeleteOld(e) \/ InsertNew(e) \/ CommitRebuild(e) \/ RollBackRebuild(e)
  \/ DayTurns

RatesSpec == RatesInit /\ [][RatesNext]_ratesVars

-----------------------------------------------------------------------------
(* generated_rate_calendar, said another way: the night has the price of a  *)
(* season that covers it, which no season of a higher priority and no newer *)
(* one of the same overrides, and no price when nothing covers it.          *)
Resolved(table, row, n) ==
  LET covering == {id \in SeasonIds : table[id] # NoSeason /\ table[id].price # 0
                                        /\ n \in table[id].first..table[id].last}
  IN  IF row = Unpriced THEN covering = {}
      ELSE /\ row.by \in covering /\ row.price = table[row.by].price
           /\ \A id \in covering :
                /\ table[id].priority <= table[row.by].priority
                /\ table[id].priority = table[row.by].priority => id <= row.by

(* SaveSeasonAndRebuild: the whole horizon is rebuilt.  A rebuild that no   *)
(* other overlapped leaves every night of it as the seasons say, whatever   *)
(* earlier ones left in the calendar.                                       *)
RebuildRepairs ==
  [][\A e \in Editors :
       CommitRebuild(e) /\ edits[e].alone
         => \A n \in Window(edits[e].from) : Resolved(seasons', calendar'[n], n)]_ratesVars

(* PreviewSeason: "That is what makes the number honest": when nothing has  *)
(* changed since the preview, saving changes the nights it named, no other. *)
PreviewIsHonest ==
  [][\A e \in Editors :
       CommitRebuild(e) /\ edits[e].held
         => edits[e].promised = {n \in Nights : ~Same(calendar[n], calendar'[n])}]_ratesVars

(* SaveSeasonAndRebuild: "the calendar can never be left priced from a      *)
(* season that was not saved, or a season saved with no prices generated    *)
(* from it": every priced night ahead has its price from the saved seasons. *)
PricedFromSaved ==
  (\A e \in Editors : ~Open(e)) =>
    \A n \in Nights :
      n >= civilDay /\ calendar[n] # Unpriced
        => seasons[calendar[n].by] # NoSeason /\ seasons[calendar[n].by].price = calendar[n].price
=============================================================================
