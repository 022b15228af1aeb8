-------------------------------- MODULE Search --------------------------------
(***************************************************************************)
(* What can be booked, answered twice: by the search, one query over the   *)
(* nightly calendar and the rows of room_occupancy                         *)
(* (internal/availability/availability.go), and by the date picker, which  *)
(* takes runs of sellable nights from the server (calendar.go) and decides *)
(* in the browser what can be picked (web/src/lib/spans.ts).  Creating a   *)
(* booking asks the search again.                                          *)
(*                                                                         *)
(* Nights are numbered; a stay is the nights checkin..checkout - 1.        *)
(***************************************************************************)
EXTENDS Integers, FiniteSets

CONSTANTS
  SearchRooms, Sleeps,     \* the rooms, and rooms.max_occupancy
  Parties,                 \* how many guests may ask
  MinStays,                \* minimum stays the seasons demand
  StayCaps,                \* values an owner gives settings.max_stay_nights
  LastNight,               \* the end of the rate horizon
  MaxTaken                 \* bound: rows of room_occupancy

VARIABLES
  minStay,      \* rate_calendar: room -> night -> its min_stay, 0 without a row
  taken,        \* the spans of room_occupancy: stays, holds and blocks
  maxStayNights,\* settings.max_stay_nights
  arriving      \* today at the inn

searchVars == <<minStay, taken, maxStayNights, arriving>>

ASSUME SearchAssumption ==
  /\ MinStays \subseteq Nat \ {0} /\ StayCaps \subseteq Nat \ {0}
  /\ LastNight \in Nat \ {0} /\ MaxTaken \in Nat
  /\ \A room \in SearchRooms : Sleeps[room] \in Nat

AllNights == 1..LastNight
Days      == 1..(LastNight + 1)

SearchInit ==
  /\ minStay = [room \in SearchRooms |-> [n \in AllNights |-> 0]]
  /\ taken = {}
  /\ maxStayNights \in StayCaps
  /\ arriving = 1

-----------------------------------------------------------------------------
(* The search.                                                             *)

(* o.during && daterange(checkin, checkout).                               *)
Occupied(room, checkin, checkout) ==
  \E o \in taken : o.room = room /\ o.checkin < checkout /\ checkin < o.checkout

(* validate: what is refused before the calendar is asked.                 *)
Valid(checkin, checkout) ==
  /\ checkin < checkout /\ checkin >= arriving
  /\ checkout - checkin <= maxStayNights

(* Rooms that sleep the party, are free, and are priced on every night,    *)
(* with the minimum stay of the arrival night kept.                        *)
SearchAvailability(checkin, checkout, guests) ==
  {room \in SearchRooms :
     /\ Sleeps[room] >= guests
     /\ ~Occupied(room, checkin, checkout)
     /\ \A n \in checkin..(checkout - 1) : n \in AllNights /\ minStay[room][n] > 0
     /\ checkout - checkin >= minStay[room][checkin]}

SearchResult(checkin, checkout, guests) ==
  IF Valid(checkin, checkout) THEN SearchAvailability(checkin, checkout, guests) ELSE {}

-----------------------------------------------------------------------------
(* The calendar of the picker.                                             *)

(* o.during @> date: the nights of the window nobody has and that have a   *)
(* price.                                                                  *)
ListSellableNights(room, from, to, guests) ==
  {n \in AllNights :
     /\ from <= n /\ n < to
     /\ Sleeps[room] >= guests
     /\ minStay[room][n] > 0
     /\ ~\E o \in taken : o.room = room /\ o.checkin <= n /\ n < o.checkout}

(* Mutant: a gap does not end a run.                                       *)
Joined(sellable) ==
  {[first |-> ends[1], last |-> ends[2]] : ends \in
     {p \in sellable \X sellable : \A n \in sellable : p[1] <= n /\ n <= p[2]}}

(* group: the unbroken runs, as long as they go.                           *)
Runs(sellable) ==
  {[first |-> ends[1], last |-> ends[2]] : ends \in
     {p \in sellable \X sellable :
        /\ p[1] <= p[2] /\ p[1]..p[2] \subseteq sellable
        /\ p[1] - 1 \notin sellable /\ p[2] + 1 \notin sellable}}

group(room, sellable) ==
  {[start |-> run.first,
    minStays |-> [i \in 0..(run.last - run.first) |-> minStay[room][run.first + i]]] :
     run \in Runs(sellable)}

(* clamp: from today to the horizon, and never inverted.                   *)
ClampFrom(from) == IF from < arriving THEN arriving ELSE from

ClampTo(from, to) ==
  LET end == IF to > LastNight + 1 THEN LastNight + 1 ELSE to
  IN  IF end > from THEN end ELSE from + 1

Spans(from, to, guests) ==
  UNION {group(room, ListSellableNights(room, ClampFrom(from), ClampTo(ClampFrom(from), to),
                                        guests)) : room \in SearchRooms}

-----------------------------------------------------------------------------
(* spans.ts: what the picker lets a guest choose.                          *)

Length(span) == 1 + (CHOOSE i \in DOMAIN span.minStays : i + 1 \notin DOMAIN span.minStays)

arrivals(spans) ==
  UNION {{span.start + i : i \in {k \in DOMAIN span.minStays :
            k + span.minStays[k] <= Length(span)}} : span \in spans}

Longest(n) == IF maxStayNights < n THEN maxStayNights ELSE n

departures(spans, checkin) ==
  UNION {LET offset == checkin - span.start
         IN  IF offset \notin DOMAIN span.minStays THEN {}
             ELSE {checkin + stay : stay \in
                     span.minStays[offset]..Longest(Length(span) - offset)} : span \in spans}

-----------------------------------------------------------------------------
(* The tables as others leave them: the calendar as it is rebuilt, holds,  *)
(* stays and blocks under the exclusion constraint, and the date.          *)
PriceNight(room, n, m) ==
  /\ minStay[room][n] = 0
  /\ minStay' = [minStay EXCEPT ![room][n] = m]
  /\ UNCHANGED <<taken, maxStayNights, arriving>>

Occupy(room, checkin, checkout) ==
  /\ Cardinality(taken) < MaxTaken
  /\ checkin < checkout /\ ~Occupied(room, checkin, checkout)
  /\ taken' = taken \union {[room |-> room, checkin |-> checkin, checkout |-> checkout]}
  /\ UNCHANGED <<minStay, maxStayNights, arriving>>

(* Console: the longest stay is not compared with what the seasons demand,  *)
(* and the calendar stays as it was built.                                  *)
UpdateSettings(nights) == maxStayNights' = nights

SaveSettings(nights) ==
  /\ nights # maxStayNights
  /\ UpdateSettings(nights)
  /\ UNCHANGED <<minStay, taken, arriving>>

MidnightPasses ==
  /\ arriving < LastNight
  /\ arriving' = arriving + 1
  /\ UNCHANGED <<minStay, taken, maxStayNights>>

SearchNext ==
  \/ \E room \in SearchRooms, n \in AllNights, m \in MinStays : PriceNight(room, n, m)
  \/ \E room \in SearchRooms, checkin, checkout \in Days : Occupy(room, checkin, checkout)
  \/ \E nights \in StayCaps : SaveSettings(nights)
  \/ MidnightPasses

SearchSpec == SearchInit /\ [][SearchNext]_searchVars

-----------------------------------------------------------------------------
SomePriced == \E room \in SearchRooms, n \in AllNights : minStay[room][n] > 0

(* Decision #14: a stay is offerable only if one room covers all of it.     *)
(* The picker lets a guest choose exactly the stays of its window that the  *)
(* search finds a room for, so that no choice comes back empty and nothing  *)
(* for sale cannot be chosen.  (With nothing priced both offer nothing.)    *)
PickerMatchesSearch ==
  SomePriced => \A guests \in Parties, from \in Days, to \in Days :
    LET spans == Spans(from, to, guests)
        end   == ClampTo(ClampFrom(from), to)
    IN  \A checkin \in Days :
          LET offered == departures(spans, checkin)
          IN  /\ offered # {} => checkin \in arrivals(spans)
              /\ \A checkout \in Days : checkout \in offered
                  <=> /\ checkin >= ClampFrom(from) /\ checkout <= end
                      /\ SearchResult(checkin, checkout, guests) # {}
=============================================================================
