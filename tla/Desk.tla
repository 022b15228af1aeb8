--------------------------------- MODULE Desk ---------------------------------
(***************************************************************************)
(* What the screens show of the inn: the owner's board of a day, list of   *)
(* reservations, one reservation opened and calendar                       *)
(* (internal/console/bookings.go, calendar.go), and the guest's own page   *)
(* (internal/httpx/manage.go).  The calendar is read from room_occupancy,  *)
(* by its rows; all the rest from bookings, by its dates and its status.   *)
(* Each query draws the edge of a day in its own way.                      *)
(***************************************************************************)
EXTENDS Inn

Stays == {b \in Bookings : status[b] # "absent"}

(* The board of one day.                                                   *)

(* Mutant: the day of departure is not on the board.                       *)
OnBoardByNight(b, on) ==
  status[b] = "confirmed" /\ stay[b].checkin <= on /\ stay[b].checkout > on

OnBoard(b, on) ==
  status[b] = "confirmed" /\ stay[b].checkin <= on /\ stay[b].checkout >= on

Bucket(b, on) ==
  IF stay[b].checkin = on THEN "arrival"
  ELSE IF stay[b].checkout = on THEN "departure" ELSE "in_house"

TodayBoard(on) == {[b |-> b, bucket |-> Bucket(b, on)] : b \in {c \in Stays : OnBoard(c, on)}}

outstanding(total, paid) == IF paid >= total THEN 0 ELSE total - paid

StayOf(b) ==
  [b |-> b, status |-> status[b], failed |-> bill[b].failed,
   outstanding |-> outstanding(stay[b].total, bill[b].paid)]

CountFlaggedBookings == Cardinality({b \in Stays : status[b] = "confirmed" /\ bill[b].failed})

Today(on) ==
  LET of(bucket) == {StayOf(row.b) : row \in {r \in TodayBoard(on) : r.bucket = bucket}}
  IN  [arrivals |-> of("arrival"), departures |-> of("departure"),
       inHouse |-> of("in_house"), flagged |-> CountFlaggedBookings]

(* The list, for the days from..to and one status or all ("").              *)
SearchBookings(from, to, wanted, onlyFlagged) ==
  {b \in Stays :
     /\ stay[b].checkout > from /\ stay[b].checkin <= to
     /\ wanted \in {"", status[b]}
     /\ onlyFlagged => bill[b].failed}

Reservations(from, to, wanted, onlyFlagged) ==
  {StayOf(b) : b \in SearchBookings(from, to, wanted, onlyFlagged)}

(* What cancelling on a day would return.                                  *)
RefundFor(b, on) ==
  Refund(Quote(b), bill[b].paid, IsLateCancellation(on, stay[b].checkin), RefundRate)

(* One reservation opened by the owner.                                     *)
Reservation(b, on) ==
  [payments |-> ledger[b],
   cancellable |-> status[b] = "confirmed" /\ on < stay[b].checkin,
   refund |-> RefundFor(b, on)]

(* The same one opened by the guest: read by its code to be paid for, or    *)
(* through the link of the confirmation to be cancelled.                    *)
Get(b) ==
  [status |-> status[b], chargeNow |-> ChargeAtBooking(Quote(b), ~bill[b].scheduled)]

cancellable(b, on) ==
  status[b] \notin {"cancelled", "expired", "pending"} /\ ~(stay[b].checkin <= on)

manageBooking(b, on) ==
  [booking |-> Get(b), cancellable |-> cancellable(b, on), refund |-> RefundFor(b, on)]

(* The calendar: the rows of room_occupancy that touch from..to - 1.        *)
ListOccupancyBetween(from, to) ==
  LET touching(span) == span.checkin < to /\ from < span.checkout
  IN  {[kind |-> "block", b |-> {}, span |-> k] : k \in {s \in blocks : touching(s)}}
      \union {[kind |-> IF occ[b] = "booking" THEN "booking" ELSE "hold",
               b |-> {b}, span |-> stay[b]] : b \in {c \in Stays : occ[c] # "none" /\ touching(stay[c])}}

Grid(from, to) ==
  {row \in ListOccupancyBetween(from, to) : from < to}

-----------------------------------------------------------------------------
(* From the day before an arrival to the day of the departure.              *)
AllDays == UNION {(r.checkin - 1)..r.checkout : r \in Requests}

Codes(shown) == {s.b : s \in shown}

Booked(rows) == UNION {row.b : row \in {r \in rows : r.kind = "booking"}}

DayAgrees(on) ==
  LET board   == Today(on)
      staying == Codes(board.arrivals) \union Codes(board.inHouse)
  IN  /\ staying = Codes(Reservations(on, on, "confirmed", FALSE))
      /\ staying = Booked(Grid(on, on + 1))
      /\ Codes(board.departures) = Booked(Grid(on - 1, on)) \ Booked(Grid(on, on + 1))
      /\ \A s \in board.arrivals \union board.inHouse :
           bill[s.b].scheduled \/ s.outstanding = outstanding(Outstanding(s.b), 0)

StayAgrees(b, on) ==
  LET opened == Reservation(b, on)
      guests == manageBooking(b, on)
  IN  /\ opened.cancellable = guests.cancellable
      /\ opened.cancellable =>
           /\ \A n \in stay[b].checkin..(stay[b].checkout - 1) : b \in Booked(Grid(n, n + 1))
           /\ opened.refund = guests.refund
           /\ opened.refund <= Charged(opened.payments)
      /\ guests.booking.status = "pending" /\ bill[b].paid = 0
           => guests.booking.chargeNow = Outstanding(b)

FlagsAgree(on) ==
  \A from, to \in AllDays :
    (\A b \in Stays : stay[b].checkout > from /\ stay[b].checkin <= to)
      => Today(on).flagged = Cardinality(Reservations(from, to, "confirmed", TRUE))

(* The screens tell one story of every day: whoever the board has arriving  *)
(* or staying is on the list of that day and has the room on the calendar,  *)
(* and nobody else does; whoever it has leaving had the room the night      *)
(* before.  What it says a guest owes is what another payment would ask     *)
(* for, and so is what the guest of an unpaid checkout is told.  Owner and  *)
(* guest are offered the same cancellation for the same refund, which is    *)
(* money the owner's list of payments shows collected, of a stay that has   *)
(* its room for every night.  As many stays are flagged as a list that      *)
(* covers them all has with a flag.                                         *)
ScreensAgree ==
  \A on \in AllDays :
    DayAgrees(on) /\ FlagsAgree(on) /\ \A b \in Stays : StayAgrees(b, on)
=============================================================================
