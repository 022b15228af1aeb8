------------------------------ MODULE PartsProofs ------------------------------
(***************************************************************************)
(* The parts of a booking that can be looked at alone: the rooms, for any  *)
(* bookings, requests and blocks; a quote and what cancelling it returns,  *)
(* for any prices and rates; the two answers to what can be booked, for any *)
(* rooms, seasons and parties; and a refund job that is tried again, for   *)
(* any ledger.                                                             *)
(***************************************************************************)
EXTENDS Occupancy, Search, MCPricing, MCRefundPlan, PricingProofs

-----------------------------------------------------------------------------
(* The rooms.                                                              *)

LEMMA OverlapSymmetric ==
  ASSUME NEW r, NEW s, Overlap(r, s)
  PROVE  Overlap(s, r)
  BY DEF Overlap

(* Type correctness of the two tables. *)
THEOREM TypeCorrect == Spec => []TypeOK
<1>1. Init => TypeOK
  BY SpanAssumption DEF Init, TypeOK, Statuses, Kinds
<1>2. TypeOK /\ [Next]_roomVars => TypeOK'
  <2> SUFFICES ASSUME TypeOK, [Next]_roomVars PROVE TypeOK'
    OBVIOUS
  <2>1. ASSUME NEW b \in Bookings, NEW r \in Requests, NEW manual \in BOOLEAN,
               Reserve(b, r, manual)
        PROVE  TypeOK'
    BY <2>1, SpanAssumption DEF Reserve, TypeOK, Statuses, Kinds
  <2>2. ASSUME NEW b \in Bookings, Secure(b) PROVE TypeOK'
    BY <2>2 DEF Secure, TypeOK, Statuses, Kinds
  <2>3. ASSUME NEW b \in Bookings, Withdraw(b) PROVE TypeOK'
    BY <2>3 DEF Withdraw, TypeOK, Statuses, Kinds
  <2>4. ASSUME NEW b \in Bookings, HoldLapses(b) PROVE TypeOK'
    BY <2>4 DEF HoldLapses, TypeOK, Kinds
  <2>5. CASE SweepExpiredHolds
    BY <2>5 DEF SweepExpiredHolds, TypeOK, Kinds
  <2>6. ASSUME NEW abandoned \in SUBSET Bookings, ExpireAbandonedBookings(abandoned)
        PROVE  TypeOK'
    BY <2>6 DEF ExpireAbandonedBookings, TypeOK, Statuses
  <2>7. ASSUME NEW k \in Blockable, Block(k) PROVE TypeOK'
    BY <2>7 DEF Block, TypeOK
  <2>8. ASSUME NEW k \in Blockable, Unblock(k) PROVE TypeOK'
    BY <2>8 DEF Unblock, TypeOK
  <2>9. CASE UNCHANGED roomVars
    BY <2>9 DEF roomVars, TypeOK
  <2> QED
    BY <2>1, <2>2, <2>3, <2>4, <2>5, <2>6, <2>7, <2>8, <2>9 DEF Next
<1> QED
  BY <1>1, <1>2, PTL DEF Spec

-----------------------------------------------------------------------------
(* A step keeps the correspondence of status and row.  No action moves one *)
(* of the two alone except those that touch a checkout still pending.      *)
LEMMA StatusFollowsRoom ==
  ASSUME RoomInv, [Next]_roomVars
  PROVE  ConfirmedHoldsRoom'
<1> USE DEF RoomInv, TypeOK, ConfirmedHoldsRoom, Statuses, Kinds
<1>1. ASSUME NEW b \in Bookings, NEW r \in Requests, NEW manual \in BOOLEAN,
             Reserve(b, r, manual)
      PROVE  ConfirmedHoldsRoom'
  BY <1>1 DEF Reserve
<1>2. ASSUME NEW b \in Bookings, Secure(b) PROVE ConfirmedHoldsRoom'
  BY <1>2 DEF Secure
<1>3. ASSUME NEW b \in Bookings, Withdraw(b) PROVE ConfirmedHoldsRoom'
  BY <1>3 DEF Withdraw
<1>4. ASSUME NEW b \in Bookings, HoldLapses(b) PROVE ConfirmedHoldsRoom'
  BY <1>4 DEF HoldLapses
<1>5. CASE SweepExpiredHolds
  BY <1>5 DEF SweepExpiredHolds
<1>6. ASSUME NEW abandoned \in SUBSET Bookings, ExpireAbandonedBookings(abandoned)
      PROVE  ConfirmedHoldsRoom'
  BY <1>6 DEF ExpireAbandonedBookings
<1>7. ASSUME NEW k \in Blockable, Block(k) \/ Unblock(k) PROVE ConfirmedHoldsRoom'
  BY <1>7 DEF Block, Unblock
<1>8. CASE UNCHANGED roomVars
  BY <1>8 DEF roomVars
<1> QED
  BY <1>1, <1>2, <1>3, <1>4, <1>5, <1>6, <1>7, <1>8 DEF Next

(* A step keeps the rows of room_occupancy apart.  Only three statements   *)
(* insert a row (a new booking, a room taken again by a late payment, a    *)
(* block) and each is refused unless the span is free.                     *)
LEMMA RowsStayApart ==
  ASSUME RoomInv, [Next]_roomVars
  PROVE  Exclusion'
<1> USE DEF RoomInv, TypeOK, Exclusion
<1>1. ASSUME NEW b \in Bookings, NEW r \in Requests, NEW manual \in BOOLEAN,
             Reserve(b, r, manual)
      PROVE  Exclusion'
  BY <1>1, OverlapSymmetric DEF Reserve, Free
<1>2. ASSUME NEW b \in Bookings, Secure(b) PROVE Exclusion'
  BY <1>2, OverlapSymmetric DEF Secure, Free
<1>3. ASSUME NEW b \in Bookings, Withdraw(b) PROVE Exclusion'
  BY <1>3 DEF Withdraw
<1>4. ASSUME NEW b \in Bookings, HoldLapses(b) PROVE Exclusion'
  BY <1>4 DEF HoldLapses
<1>5. CASE SweepExpiredHolds
  BY <1>5 DEF SweepExpiredHolds
<1>6. ASSUME NEW abandoned \in SUBSET Bookings, ExpireAbandonedBookings(abandoned)
      PROVE  Exclusion'
  BY <1>6 DEF ExpireAbandonedBookings
<1>7. ASSUME NEW k \in Blockable, Block(k) PROVE Exclusion'
  BY <1>7, OverlapSymmetric DEF Block, Free
<1>8. ASSUME NEW k \in Blockable, Unblock(k) PROVE Exclusion'
  BY <1>8 DEF Unblock
<1>9. CASE UNCHANGED roomVars
  BY <1>9 DEF roomVars
<1> QED
  BY <1>1, <1>2, <1>3, <1>4, <1>5, <1>6, <1>7, <1>8, <1>9 DEF Next

(* The inductive invariant holds in every reachable state. *)
THEOREM RoomInvariant == Spec => []RoomInv
<1>1. Init => RoomInv
  <2>1. Init => ConfirmedHoldsRoom /\ Exclusion
    BY DEF Init, ConfirmedHoldsRoom, Exclusion
  <2>2. Init => TypeOK
    BY SpanAssumption DEF Init, TypeOK, Statuses, Kinds
  <2> QED
    BY <2>1, <2>2 DEF RoomInv
<1>2. RoomInv /\ TypeOK' /\ [Next]_roomVars => RoomInv'
  BY StatusFollowsRoom, RowsStayApart DEF RoomInv
<1> QED
  BY <1>1, <1>2, TypeCorrect, PTL DEF Spec

(* Two confirmed stays never share a room for a night, whatever the number *)
(* of rooms, stays and blocks.                                             *)
THEOREM NoRoomSoldTwice == Spec => []NoDoubleBooking
<1>1. RoomInv => NoDoubleBooking
  BY DEF RoomInv, ConfirmedHoldsRoom, Exclusion, NoDoubleBooking
<1> QED
  BY <1>1, RoomInvariant, PTL

-----------------------------------------------------------------------------
(* A quote, and what cancelling would return.                              *)

QuoteInv ==
  /\ nightly \in [1..2 -> Nat] /\ rate \in Nat
  /\ retention \in 0..(RateScale - 1)
  /\ paid \in Nat /\ ahead \in Nat

LEMMA QuoteInvariant == QuoteSpec => []QuoteInv
<1>1. QuoteInit => QuoteInv
  BY BoundAssumption, ScaleAssumption DEF QuoteInit, QuoteInv
<1>2. QuoteInv /\ [QuoteNext]_quoted => QuoteInv'
  BY DEF QuoteInv, QuoteNext, Pay, DayPasses, quoted
<1>3. QED BY <1>1, <1>2, PTL DEF QuoteSpec

(* The nights of a stay cost a natural number of cents.                     *)
LEMMA QuoteIsOf ==
  ASSUME QuoteInv
  PROVE  \E total \in Nat : Quote = QuoteOf(total)
<1> DEFINE subtotal == SumFunction(nightly)
<1>1. DOMAIN nightly = {1, 2} /\ \A n \in {1, 2} : nightly[n] \in Nat
  BY DEF QuoteInv
<1>2. SumFunctionOnSet(nightly, {1}) = nightly[1]
  <2>1. IsFiniteSet({}) /\ {1} = {} \union {1} /\ 1 \notin {}
    BY FS_EmptySet
  <2>2. SumFunctionOnSet(nightly, {} \union {1}) = SumFunctionOnSet(nightly, {}) + nightly[1]
    BY <1>1, <2>1, SumAdd
  <2>3. QED BY <1>1, <2>1, <2>2, SumOfNone
<1>3. SumFunctionOnSet(nightly, {1, 2}) = nightly[1] + nightly[2]
  <2>1. {1, 2} = {1} \union {2} /\ 2 \notin {1}
    OBVIOUS
  <2>2. IsFiniteSet({1})
    BY FS_Singleton, Zenon
  <2>3. SumFunctionOnSet(nightly, {1} \union {2}) = SumFunctionOnSet(nightly, {1}) + nightly[2]
    BY <1>1, <2>1, <2>2, SumAdd
  <2>4. QED BY <1>2, <2>1, <2>3
<1>4. subtotal \in Nat
  BY <1>1, <1>3 DEF SumFunction
<1> HIDE DEF subtotal
<1>5. tax(subtotal, rate) \in Nat
  <2>1. subtotal * rate \in Nat /\ RateScale \div 2 \in Nat
    BY <1>4, ScaleAssumption DEF QuoteInv
  <2>2. \A n \in Nat : n \div RateScale \in Nat
    BY ScaleAssumption, SMTT(30)
  <2>3. QED BY <2>1, <2>2 DEF tax
<1>6. Quote = QuoteOf(subtotal + tax(subtotal, rate))
  BY DEF Quote, Compute, subtotal
<1>7. QED BY <1>4, <1>5, <1>6

(* Retained: "the inn is never short": what is kept of a cancelled stay     *)
(* covers the processor's cut, and no more goes back than was collected;    *)
(* for any prices, rates below 100%, payments and days ahead.               *)
THEOREM NeverShort == QuoteSpec => []InnNeverShort
<1>1. QuoteInv => InnNeverShort
  <2> SUFFICES ASSUME QuoteInv PROVE InnNeverShort
    OBVIOUS
  <2>1. PICK total \in Nat : Quote = QuoteOf(total)
    BY QuoteIsOf
  <2>2. retention \in Nat /\ retention \in 0..RateScale /\ paid \in Nat
    BY ScaleAssumption DEF QuoteInv
  <2>3. IsLateCancellation(0, ahead) \in BOOLEAN
    BY DEF IsLateCancellation
  <2>4. Back(paid, ahead) \in 0..paid
    BY <2>1, <2>2, <2>3, RefundBounded DEF Back
  <2>5. RateScale * (paid - Back(paid, ahead)) >= paid * retention
    BY <2>1, <2>2, <2>3, KeepsTheFee DEF Back
  <2>6. QED BY <2>4, <2>5 DEF InnNeverShort
<1>2. QED BY <1>1, QuoteInvariant, PTL

(* One cent more collected costs at most one cent more of fee.              *)
LEMMA CeilSteps ==
  ASSUME NEW base \in Nat, NEW r \in 0..RateScale
  PROVE  /\ ceilScaled(base + 1, r) <= ceilScaled(base, r) + 1
         /\ ceilScaled(base, r) <= ceilScaled(base + 1, r)
<1> DEFINE q == ceilScaled(base, r)
           s == ceilScaled(base + 1, r)
           p == base * r
<1>1. r \in Nat /\ base + 1 \in Nat /\ RateScale \in Nat \ {0} /\ p \in Nat
  BY ScaleAssumption
<1>2. /\ q \in Nat /\ RateScale * q >= base * r /\ RateScale * q < base * r + RateScale
  BY <1>1, CeilBounds
<1>3. /\ s \in Nat /\ RateScale * s >= (base + 1) * r
      /\ RateScale * s < (base + 1) * r + RateScale
  BY <1>1, CeilBounds
<1>4. (base + 1) * r = p + r
  BY <1>1
<1>5. /\ RateScale * q >= p /\ RateScale * q < p + RateScale
      /\ RateScale * s >= p + r /\ RateScale * s < p + r + RateScale
  BY <1>2, <1>3, <1>4
<1> HIDE DEF q, s, p
<1>6. ASSUME NEW x \in Nat, NEW y \in Nat, x > y PROVE RateScale * x >= RateScale * y + RateScale
  <2>1. RateScale * (x - y) >= RateScale
    <3>1. PICK d \in Nat : d = x - y - 1
      BY <1>6
    <3>2. RateScale * (d + 1) = RateScale * d + RateScale /\ RateScale * d \in Nat
      BY <1>1
    <3>3. QED BY <3>1, <3>2, <1>6, <1>1
  <2>2. RateScale * x = RateScale * (x - y) + RateScale * y
    BY <1>1
  <2>3. RateScale * x \in Nat /\ RateScale * y \in Nat /\ RateScale * (x - y) \in Int
    BY <1>1
  <2>4. QED BY <2>1, <2>2, <2>3, <1>1
<1>7. RateScale * q \in Nat /\ RateScale * s \in Nat /\ RateScale * (q + 1) = RateScale * q + RateScale
  BY <1>1, <1>2, <1>3
<1>8. s <= q + 1
  <2>1. SUFFICES ASSUME s > q + 1 PROVE FALSE
    BY <1>2, <1>3
  <2>2. RateScale * s >= RateScale * (q + 1) + RateScale
    BY <2>1, <1>2, <1>3, <1>6
  <2>3. QED BY <2>2, <1>1, <1>5, <1>7
<1>9. q <= s
  <2>1. SUFFICES ASSUME q > s PROVE FALSE
    BY <1>2, <1>3
  <2>2. RateScale * q >= RateScale * s + RateScale
    BY <2>1, <1>2, <1>3, <1>6
  <2>3. QED BY <2>2, <1>1, <1>5, <1>7
<1>10. QED BY <1>8, <1>9 DEF q, s

LEMMA FeeIsWhole ==
  ASSUME NEW p \in Nat, NEW r \in Nat
  PROVE  ProcessingFee(p, r) \in Nat
BY CeilBounds DEF ProcessingFee

(* Paying a cent less never returns more.                                   *)
LEMMA LessPaidLessBack ==
  ASSUME NEW total \in Nat, NEW base \in Nat, NEW late \in BOOLEAN, NEW r \in 0..RateScale
  PROVE  Refund(QuoteOf(total), base, late, r) <= Refund(QuoteOf(total), base + 1, late, r)
<1>1. Penalty(QuoteOf(total), late) \in Nat
  BY SplitIsExact DEF Penalty
<1>2. r \in Nat /\ ProcessingFee(base, r) \in Nat /\ ProcessingFee(base + 1, r) \in Nat
  <2>1. r \in Nat /\ base + 1 \in Nat
    BY ScaleAssumption
  <2>2. QED BY <2>1, FeeIsWhole
<1>3. base = 0 \/ ProcessingFee(base + 1, r) <= ProcessingFee(base, r) + 1
  <2>1. CASE r = 0
    BY <2>1, <1>2 DEF ProcessingFee
  <2>2. CASE base > 0 /\ r > 0
    <3>1. ProcessingFee(base + 1, r) = ceilScaled(base + 1, r) /\ ProcessingFee(base, r) = ceilScaled(base, r)
      BY <2>2, <1>2 DEF ProcessingFee
    <3>2. QED BY <3>1, CeilSteps
  <2>3. QED BY <2>1, <2>2, <1>2
<1>4. CASE base = 0
  <2>1. Refund(QuoteOf(total), base, late, r) = 0
    BY <1>1, <1>2, <1>4 DEF Refund, Retained
  <2>2. Refund(QuoteOf(total), base + 1, late, r) \in 0..(base + 1)
    <3>1. PICK more \in Nat : more = base + 1
      OBVIOUS
    <3>2. Refund(QuoteOf(total), more, late, r) \in 0..more
      BY <1>2, RefundBounded
    <3>3. QED BY <3>1, <3>2
  <2>3. QED BY <2>1, <2>2
<1>5. CASE base # 0
  BY <1>1, <1>2, <1>3, <1>5 DEF Refund, Retained
<1>6. QED BY <1>4, <1>5

(* Nor does cancelling later.                                               *)
LEMMA LateIsDearer ==
  ASSUME NEW total \in Nat, NEW p \in Nat, NEW r \in Nat,
         NEW late \in BOOLEAN, NEW early \in BOOLEAN,
         Penalty(QuoteOf(total), early) <= Penalty(QuoteOf(total), late)
  PROVE  Refund(QuoteOf(total), p, late, r) <= Refund(QuoteOf(total), p, early, r)
<1>1. Penalty(QuoteOf(total), late) \in Nat /\ Penalty(QuoteOf(total), early) \in Nat
  BY SplitIsExact DEF Penalty
<1>2. ProcessingFee(p, r) \in Nat
  BY FeeIsWhole
<1>3. QED BY <1>1, <1>2 DEF Refund, Retained

(* A guest gains nothing by paying less before cancelling, nor by           *)
(* cancelling later; for any prices, rates below 100%, payments and days.   *)
THEOREM NothingToGain == QuoteSpec => []RefundMonotone
<1>1. QuoteInv => RefundMonotone
  <2> SUFFICES ASSUME QuoteInv PROVE RefundMonotone
    OBVIOUS
  <2>1. PICK total \in Nat : Quote = QuoteOf(total)
    BY QuoteIsOf
  <2>2. retention \in Nat /\ retention \in 0..RateScale /\ paid \in Nat /\ ahead \in Nat
    BY ScaleAssumption DEF QuoteInv
  <2>3. ASSUME paid > 0 PROVE Back(paid - 1, ahead) <= Back(paid, ahead)
    <3>1. PICK base \in Nat : base = paid - 1
      BY <2>2, <2>3
    <3>2. paid = base + 1 /\ IsLateCancellation(0, ahead) \in BOOLEAN
      BY <3>1, <2>2 DEF IsLateCancellation
    <3>3. QED BY <2>1, <2>2, <3>1, <3>2, LessPaidLessBack DEF Back
  <2>4. Back(paid, ahead) <= Back(paid, ahead + 1)
    <3>1. IsLateCancellation(0, ahead + 1) => IsLateCancellation(0, ahead)
      BY <2>2, LeadAssumption DEF IsLateCancellation
    <3>2. IsLateCancellation(0, ahead) \in BOOLEAN /\ IsLateCancellation(0, ahead + 1) \in BOOLEAN
      BY DEF IsLateCancellation
    <3>3. PICK late \in BOOLEAN, early \in BOOLEAN :
            late = IsLateCancellation(0, ahead) /\ early = IsLateCancellation(0, ahead + 1)
      BY <3>2
    <3>4. early => late
      BY <3>1, <3>3
    <3>5. Penalty(QuoteOf(total), early) <= Penalty(QuoteOf(total), late)
      BY <3>4, SplitIsExact DEF Penalty
    <3>6. Refund(QuoteOf(total), paid, late, retention)
            <= Refund(QuoteOf(total), paid, early, retention)
      BY <2>2, <3>5, LateIsDearer
    <3>7. QED BY <2>1, <3>3, <3>6 DEF Back
  <2>5. QED BY <2>3, <2>4 DEF RefundMonotone
<1>2. QED BY <1>1, QuoteInvariant, PTL

(* IsShortNotice: a balance put off at booking still has ahead of it the    *)
(* day the guest is warned; for any lead times, one longer than the other.  *)
THEOREM WarnedInTime == QuoteSpec => []WarningStillAhead
<1>1. QuoteInv => WarningStillAhead
  BY ScheduledIsAhead DEF QuoteInv, WarningStillAhead
<1>2. QED BY <1>1, QuoteInvariant, PTL

-----------------------------------------------------------------------------
(* What can be booked, answered twice.                                     *)

USE SearchAssumption DEF SearchAssumption

SearchInv ==
  /\ minStay \in [SearchRooms -> [AllNights -> Nat]]
  /\ maxStayNights \in Nat /\ arriving \in 1..LastNight
  /\ \A o \in taken : o.checkin \in Int /\ o.checkout \in Int /\ o.checkin < o.checkout

LEMMA SearchInvariant == SearchSpec => []SearchInv
<1>1. SearchInit => SearchInv
  BY DEF SearchInit, SearchInv
<1>2. SearchInv /\ [SearchNext]_searchVars => SearchInv'
  <2> SUFFICES ASSUME SearchInv, [SearchNext]_searchVars PROVE SearchInv'
    OBVIOUS
  <2>1. ASSUME NEW room \in SearchRooms, NEW n \in AllNights, NEW m \in MinStays,
               PriceNight(room, n, m)
        PROVE  SearchInv'
    BY <2>1 DEF PriceNight, SearchInv
  <2>2. ASSUME NEW room \in SearchRooms, NEW checkin \in Days, NEW checkout \in Days,
               Occupy(room, checkin, checkout)
        PROVE  SearchInv'
    BY <2>2 DEF Occupy, SearchInv, Days
  <2>3. ASSUME NEW nights \in StayCaps, SaveSettings(nights) PROVE SearchInv'
    BY <2>3 DEF SaveSettings, UpdateSettings, SearchInv
  <2>4. ASSUME MidnightPasses PROVE SearchInv'
    BY <2>4 DEF MidnightPasses, SearchInv
  <2>5. ASSUME UNCHANGED searchVars PROVE SearchInv'
    BY <2>5 DEF searchVars, SearchInv
  <2>6. QED BY <2>1, <2>2, <2>3, <2>4, <2>5 DEF SearchNext
<1>3. QED BY <1>1, <1>2, PTL DEF SearchSpec

(* Every sellable night lies in one unbroken run of them.                   *)
LEMMA RunAround ==
  ASSUME NEW L, L \subseteq 1..LastNight, NEW n \in L
  PROVE  \E run \in Runs(L) : run.first <= n /\ n <= run.last /\ run.first \in L /\ run.last \in L
<1> DEFINE before == {s \in 1..n : s..n \subseteq L}
           gaps   == {k \in Nat : k > n /\ k \notin L}
<1>1. n \in 1..LastNight
  OBVIOUS
<1>2. PICK s \in before : \A t \in before : s <= t
  <2>1. n \in before /\ before \subseteq Nat
    BY <1>1
  <2> HIDE DEF before
  <2>2. QED BY <2>1, Least
<1>3. PICK k \in gaps : \A j \in gaps : k <= j
  <2>1. LastNight + 1 \in gaps /\ gaps \subseteq Nat
    BY <1>1
  <2> HIDE DEF gaps
  <2>2. QED BY <2>1, Least
<1>4. s \in 1..n /\ s..n \subseteq L
  BY <1>2
<1>5. k \in Nat /\ k > n /\ k \notin L
  BY <1>3
<1>6. s - 1 \notin L
  <2>1. SUFFICES ASSUME s - 1 \in L PROVE FALSE
    OBVIOUS
  <2>2. s - 1 \in 1..n /\ (s - 1)..n \subseteq L
    BY <2>1, <1>1, <1>4
  <2>3. s - 1 \in before
    BY <2>2
  <2> HIDE DEF before
  <2>4. QED BY <2>3, <1>2, <1>4
<1>7. \A j \in n..(k - 1) : j \in L
  <2>1. SUFFICES ASSUME NEW j \in n..(k - 1), j \notin L PROVE FALSE
    OBVIOUS
  <2>2. j \in Nat /\ j # n /\ j > n /\ ~(k <= j)
    BY <2>1, <1>1, <1>5
  <2>3. j \in gaps
    BY <2>1, <2>2
  <2> HIDE DEF gaps
  <2>4. QED BY <2>2, <2>3, <1>3
<1>8. s \in L /\ (k - 1) \in L /\ s..(k - 1) \subseteq L
  BY <1>1, <1>4, <1>5, <1>7
<1> DEFINE ends == <<s, k - 1>>
<1>9. ends \in {p \in L \X L : /\ p[1] <= p[2] /\ p[1]..p[2] \subseteq L
                               /\ p[1] - 1 \notin L /\ p[2] + 1 \notin L}
  BY <1>1, <1>4, <1>5, <1>6, <1>8
<1>10. [first |-> s, last |-> k - 1] \in Runs(L)
  BY <1>9 DEF Runs
<1>11. QED BY <1>1, <1>4, <1>5, <1>8, <1>10

LEMMA RunIs ==
  ASSUME NEW L, L \subseteq 1..LastNight, NEW run \in Runs(L)
  PROVE  /\ run.first \in 1..LastNight /\ run.last \in 1..LastNight
         /\ run.first <= run.last /\ run.first..run.last \subseteq L
<1>1. PICK p \in L \X L : /\ run = [first |-> p[1], last |-> p[2]]
                          /\ p[1] <= p[2] /\ p[1]..p[2] \subseteq L
  BY DEF Runs
<1>2. run.first = p[1] /\ run.last = p[2] /\ p[1] \in L /\ p[2] \in L
  BY <1>1
<1>3. QED BY <1>1, <1>2

(* The span of a run: where it starts, how long it is, and the minimum      *)
(* stays of its nights.                                                     *)
SpanOf(room, run) ==
  [start |-> run.first,
   minStays |-> [i \in 0..(run.last - run.first) |-> minStay[room][run.first + i]]]

LEMMA LengthIs ==
  ASSUME NEW room, NEW run, run.first \in Nat, run.last \in Nat, run.first <= run.last
  PROVE  Length(SpanOf(room, run)) = 1 + run.last - run.first
<1> DEFINE d == run.last - run.first
           D == DOMAIN SpanOf(room, run).minStays
<1>1. D = 0..d /\ d \in Nat
  BY DEF SpanOf
<1>2. d \in 0..d /\ d + 1 \notin 0..d /\ \A i \in 0..d : i + 1 \notin 0..d => i = d
  BY <1>1
<1>3. (CHOOSE i \in D : i + 1 \notin D) = d
  <2> HIDE DEF D
  <2>1. \E i \in D : i + 1 \notin D
    BY <1>1, <1>2
  <2>2. QED BY <1>1, <1>2, <2>1
<1>4. Length(SpanOf(room, run)) = 1 + d
  BY <1>3 DEF Length
<1>5. QED BY <1>4

LEMMA SpansAre ==
  ASSUME NEW from, NEW to, NEW guests
  PROVE  Spans(from, to, guests) =
           UNION {{SpanOf(room, run) :
                     run \in Runs(ListSellableNights(room, ClampFrom(from),
                                                     ClampTo(ClampFrom(from), to), guests))} :
                  room \in SearchRooms}
BY DEF Spans, group, SpanOf

(* A room is free for a stay exactly when nobody has any night of it.       *)
LEMMA FreeByNight ==
  ASSUME SearchInv, NEW room, NEW checkin \in Int, NEW checkout \in Int, checkin < checkout
  PROVE  Occupied(room, checkin, checkout) <=>
           \E n \in checkin..(checkout - 1) :
             \E o \in taken : o.room = room /\ o.checkin <= n /\ n < o.checkout
<1>1. ASSUME Occupied(room, checkin, checkout)
      PROVE  \E n \in checkin..(checkout - 1) :
               \E o \in taken : o.room = room /\ o.checkin <= n /\ n < o.checkout
  <2>1. PICK o \in taken : o.room = room /\ o.checkin < checkout /\ checkin < o.checkout
    BY <1>1 DEF Occupied
  <2>2. o.checkin \in Int /\ o.checkout \in Int /\ o.checkin < o.checkout
    BY DEF SearchInv
  <2>3. CASE o.checkin <= checkin
    <3>1. checkin \in checkin..(checkout - 1)
      OBVIOUS
    <3>2. QED BY <2>1, <2>2, <2>3, <3>1
  <2>4. CASE o.checkin > checkin
    <3>1. o.checkin \in checkin..(checkout - 1)
      BY <2>1, <2>2, <2>4
    <3>2. QED BY <2>1, <2>2, <3>1
  <2>5. QED BY <2>2, <2>3, <2>4
<1>2. ASSUME NEW n \in checkin..(checkout - 1), NEW o \in taken,
             o.room = room, o.checkin <= n, n < o.checkout
      PROVE  Occupied(room, checkin, checkout)
  <2>1. o.checkin \in Int /\ o.checkout \in Int
    BY DEF SearchInv
  <2>2. o.checkin < checkout /\ checkin < o.checkout
    BY <1>2, <2>1
  <2>3. QED BY <1>2, <2>2 DEF Occupied
<1>3. QED BY <1>1, <1>2

(* The search gives a room exactly when all the nights are sellable in it   *)
(* and the minimum stay of the first is kept.                               *)
LEMMA GivenByNight ==
  ASSUME SearchInv, NEW room \in SearchRooms, NEW guests,
         NEW from \in Nat, NEW end \in Nat,
         NEW checkin \in Nat, NEW checkout \in Nat,
         checkin < checkout, from <= checkin, checkout <= end
  PROVE  room \in SearchAvailability(checkin, checkout, guests) <=>
           /\ checkin..(checkout - 1) \subseteq ListSellableNights(room, from, end, guests)
           /\ checkout - checkin >= minStay[room][checkin]
<1>1. \A n \in checkin..(checkout - 1) : n \in Nat /\ from <= n /\ n < end
  OBVIOUS
<1>2. checkin \in checkin..(checkout - 1)
  OBVIOUS
<1>3. ASSUME room \in SearchAvailability(checkin, checkout, guests)
      PROVE  /\ checkin..(checkout - 1) \subseteq ListSellableNights(room, from, end, guests)
             /\ checkout - checkin >= minStay[room][checkin]
  <2>1. /\ Sleeps[room] >= guests /\ ~Occupied(room, checkin, checkout)
        /\ \A n \in checkin..(checkout - 1) : n \in AllNights /\ minStay[room][n] > 0
        /\ checkout - checkin >= minStay[room][checkin]
    BY <1>3 DEF SearchAvailability
  <2>2. ASSUME NEW n \in checkin..(checkout - 1)
        PROVE  n \in ListSellableNights(room, from, end, guests)
    <3>1. ~\E o \in taken : o.room = room /\ o.checkin <= n /\ n < o.checkout
      BY <2>1, FreeByNight
    <3>2. QED BY <2>1, <1>1, <3>1 DEF ListSellableNights
  <2>3. QED BY <2>1, <2>2
<1>4. ASSUME checkin..(checkout - 1) \subseteq ListSellableNights(room, from, end, guests),
             checkout - checkin >= minStay[room][checkin]
      PROVE  room \in SearchAvailability(checkin, checkout, guests)
  <2>1. \A n \in checkin..(checkout - 1) :
          /\ n \in AllNights /\ minStay[room][n] > 0 /\ Sleeps[room] >= guests
          /\ ~\E o \in taken : o.room = room /\ o.checkin <= n /\ n < o.checkout
    BY <1>4 DEF ListSellableNights
  <2>2. ~Occupied(room, checkin, checkout)
    BY <2>1, FreeByNight
  <2>3. QED BY <1>2, <1>4, <2>1, <2>2 DEF SearchAvailability
<1>5. QED BY <1>3, <1>4

(* The days one span lets a guest leave on.                                 *)
Leaves(span, checkin) ==
  LET offset == checkin - span.start
  IN  IF offset \notin DOMAIN span.minStays THEN {}
      ELSE {checkin + nights : nights \in
              span.minStays[offset]..Longest(Length(span) - offset)}

LEMMA DeparturesAre ==
  ASSUME NEW spans, NEW checkin
  PROVE  departures(spans, checkin) = UNION {Leaves(span, checkin) : span \in spans}
BY DEF departures, Leaves

(* The days it lets a guest arrive on.                                      *)
Comes(span) ==
  {span.start + i : i \in {k \in DOMAIN span.minStays :
     k + span.minStays[k] <= Length(span)}}

LEMMA ArrivalsAre ==
  ASSUME NEW spans
  PROVE  arrivals(spans) = UNION {Comes(span) : span \in spans}
BY DEF arrivals, Comes

LEMMA LeavesOf ==
  ASSUME NEW room, NEW run, run.first \in Nat, run.last \in Nat, run.first <= run.last,
         NEW checkin \in Nat
  PROVE  Leaves(SpanOf(room, run), checkin) =
           IF checkin \in run.first..run.last
           THEN {checkin + nights : nights \in
                   minStay[room][checkin]..Longest(run.last + 1 - checkin)}
           ELSE {}
<1> DEFINE span == SpanOf(room, run)
           offset == checkin - run.first
<1>1. span.start = run.first /\ DOMAIN span.minStays = 0..(run.last - run.first)
  BY DEF SpanOf
<1>2. offset \in 0..(run.last - run.first) <=> checkin \in run.first..run.last
  OBVIOUS
<1>3. ASSUME offset \in 0..(run.last - run.first)
      PROVE  span.minStays[offset] = minStay[room][checkin]
  <2>1. span.minStays[offset] = minStay[room][run.first + offset]
    BY <1>3 DEF SpanOf
  <2>2. run.first + offset = checkin
    OBVIOUS
  <2>3. QED BY <2>1, <2>2
<1>4. Length(span) - offset = run.last + 1 - checkin
  <2>1. Length(span) = 1 + run.last - run.first
    BY LengthIs
  <2> HIDE DEF span
  <2>2. QED BY <2>1
<1> HIDE DEF span
<1>5. Leaves(span, checkin) =
        IF offset \notin DOMAIN span.minStays THEN {}
        ELSE {checkin + nights : nights \in
                span.minStays[offset]..Longest(Length(span) - offset)}
  BY <1>1 DEF Leaves
<1> HIDE DEF offset
<1>6. CASE offset \in 0..(run.last - run.first)
  <2>1. span.minStays[offset] = minStay[room][checkin] /\ checkin \in run.first..run.last
    BY <1>2, <1>3, <1>6
  <2>2. Leaves(span, checkin) = {checkin + nights : nights \in
                span.minStays[offset]..Longest(Length(span) - offset)}
    BY <1>1, <1>5, <1>6
  <2>3. Leaves(span, checkin) = {checkin + nights : nights \in
                minStay[room][checkin]..Longest(run.last + 1 - checkin)}
    BY <1>4, <2>1, <2>2, Zenon
  <2>4. QED BY <2>1, <2>3 DEF span
<1>7. CASE offset \notin 0..(run.last - run.first)
  <2>1. Leaves(span, checkin) = {} /\ checkin \notin run.first..run.last
    BY <1>1, <1>2, <1>5, <1>7
  <2>2. QED BY <2>1 DEF span
<1>8. QED BY <1>6, <1>7

LEMMA LongestIs ==
  ASSUME SearchInv, NEW n \in Nat
  PROVE  /\ Longest(n) \in Nat /\ Longest(n) <= n /\ Longest(n) <= maxStayNights
         /\ \A m \in Nat : m <= n /\ m <= maxStayNights => m <= Longest(n)
BY DEF Longest, SearchInv

LEMMA WindowIs ==
  ASSUME SearchInv, NEW from \in Days, NEW to \in Days
  PROVE  /\ ClampFrom(from) \in Nat /\ ClampFrom(from) >= arriving
         /\ ClampTo(ClampFrom(from), to) \in Nat
<1>1. from \in Nat /\ to \in Nat /\ arriving \in Nat
  BY DEF SearchInv, Days
<1>2. ClampFrom(from) \in Nat /\ ClampFrom(from) >= arriving
  BY <1>1 DEF ClampFrom
<1>3. QED BY <1>1, <1>2 DEF ClampTo

(* What the picker offers, in terms of rooms and runs.                      *)
LEMMA OfferedIs ==
  ASSUME SearchInv, NEW from \in Days, NEW to \in Days, NEW guests,
         NEW checkin \in Days, NEW checkout,
         checkout \in departures(Spans(from, to, guests), checkin)
  PROVE  \E room \in SearchRooms :
           \E run \in Runs(ListSellableNights(room, ClampFrom(from),
                                              ClampTo(ClampFrom(from), to), guests)) :
             /\ checkin \in run.first..run.last
             /\ \E nights \in minStay[room][checkin]..Longest(run.last + 1 - checkin) :
                  checkout = checkin + nights
             /\ SpanOf(room, run) \in Spans(from, to, guests)
<1> DEFINE L(room) == ListSellableNights(room, ClampFrom(from),
                                         ClampTo(ClampFrom(from), to), guests)
<1>1. PICK span \in Spans(from, to, guests) : checkout \in Leaves(span, checkin)
  BY DeparturesAre
<1> HIDE DEF L
<1>2. PICK room \in SearchRooms : \E run \in Runs(L(room)) : span = SpanOf(room, run)
  BY <1>1, SpansAre DEF L
<1>3. PICK run \in Runs(L(room)) : span = SpanOf(room, run)
  BY <1>2
<1>4. L(room) \subseteq 1..LastNight
  BY DEF L, ListSellableNights, AllNights
<1>5. run.first \in Nat /\ run.last \in Nat /\ run.first <= run.last
  BY <1>4, <1>3, RunIs
<1>6. checkin \in Nat
  BY DEF Days
<1>7. /\ checkin \in run.first..run.last
      /\ \E nights \in minStay[room][checkin]..Longest(run.last + 1 - checkin) :
           checkout = checkin + nights
  BY <1>1, <1>3, <1>5, <1>6, LeavesOf
<1>8. QED BY <1>1, <1>3, <1>7 DEF L

LEMMA IsOffered ==
  ASSUME SearchInv, NEW from \in Days, NEW to \in Days, NEW guests,
         NEW checkin \in Days, NEW room \in SearchRooms,
         NEW run \in Runs(ListSellableNights(room, ClampFrom(from),
                                             ClampTo(ClampFrom(from), to), guests)),
         checkin \in run.first..run.last,
         NEW nights \in minStay[room][checkin]..Longest(run.last + 1 - checkin)
  PROVE  checkin + nights \in departures(Spans(from, to, guests), checkin)
<1> DEFINE L == ListSellableNights(room, ClampFrom(from), ClampTo(ClampFrom(from), to), guests)
<1>1. L \subseteq 1..LastNight
  BY DEF ListSellableNights, AllNights
<1>2. run.first \in Nat /\ run.last \in Nat /\ run.first <= run.last
  <2>1. PICK K : K = L /\ K \subseteq 1..LastNight /\ run \in Runs(K)
    BY <1>1
  <2>2. QED BY <2>1, RunIs
<1>3. checkin + nights \in Leaves(SpanOf(room, run), checkin)
  <2>1. checkin \in Nat
    BY DEF Days
  <2>2. QED BY <1>2, <2>1, LeavesOf
<1>4. SpanOf(room, run) \in Spans(from, to, guests)
  BY SpansAre
<1>5. QED BY <1>3, <1>4, DeparturesAre

(* Decision #14: the picker lets a guest choose exactly the stays of its    *)
(* window that the search finds a room for; for any rooms, parties,         *)
(* minimum stays, caps and horizon, and whatever is taken.                  *)
THEOREM PickerIsTheSearch == SearchSpec => []PickerMatchesSearch
<1>1. ASSUME SearchInv, NEW from \in Days, NEW to \in Days, NEW guests,
             NEW checkin \in Days, NEW checkout,
             checkout \in departures(Spans(from, to, guests), checkin)
      PROVE  /\ checkin \in arrivals(Spans(from, to, guests))
             /\ checkin >= ClampFrom(from) /\ checkout <= ClampTo(ClampFrom(from), to)
             /\ SearchResult(checkin, checkout, guests) # {}
  <2> DEFINE f == ClampFrom(from)
             end == ClampTo(f, to)
             L(room) == ListSellableNights(room, f, end, guests)
  <2> DEFINE Fits(room, run) ==
               /\ checkin \in run.first..run.last
               /\ \E nights \in minStay[room][checkin]..Longest(run.last + 1 - checkin) :
                    checkout = checkin + nights
               /\ SpanOf(room, run) \in Spans(from, to, guests)
  <2>1. PICK room \in SearchRooms : \E run \in Runs(L(room)) : Fits(room, run)
    BY <1>1, OfferedIs
  <2>2. PICK run \in Runs(L(room)) : Fits(room, run)
    BY <2>1
  <2>3. L(room) \subseteq 1..LastNight /\ L(room) \subseteq {n \in Nat : f <= n /\ n < end}
    BY DEF ListSellableNights, AllNights
  <2>4. /\ run.first \in Nat /\ run.last \in Nat /\ run.first <= run.last
        /\ run.first..run.last \subseteq L(room)
    <3> HIDE DEF L
    <3>1. QED BY <2>2, <2>3, RunIs
  <2>5. f \in Nat /\ f >= arriving /\ end \in Nat
    BY <1>1, WindowIs
  <2>6. checkin \in Nat /\ arriving \in Nat
    BY <1>1 DEF Days, SearchInv
  <2>7. checkin \in L(room) /\ minStay[room][checkin] \in Nat /\ minStay[room][checkin] > 0
    <3>1. checkin \in L(room)
      BY <2>2, <2>4
    <3>2. QED BY <1>1, <3>1 DEF ListSellableNights, SearchInv
  <2>8. PICK nights \in minStay[room][checkin]..Longest(run.last + 1 - checkin) :
          checkout = checkin + nights
    BY <2>2
  <2>9. run.last + 1 - checkin \in Nat /\ Longest(run.last + 1 - checkin) \in Nat
        /\ Longest(run.last + 1 - checkin) <= run.last + 1 - checkin
        /\ Longest(run.last + 1 - checkin) <= maxStayNights
    <3>1. run.last + 1 - checkin \in Nat
      BY <2>2, <2>4, <2>6
    <3>2. QED BY <1>1, <3>1, LongestIs
  <2>10. /\ nights \in Nat /\ nights > 0 /\ nights >= minStay[room][checkin]
        /\ nights <= run.last + 1 - checkin /\ nights <= maxStayNights
    BY <1>1, <2>7, <2>8, <2>9 DEF SearchInv
  <2>11. /\ checkout \in Nat /\ checkin < checkout /\ checkout - checkin = nights
         /\ checkin..(checkout - 1) \subseteq run.first..run.last
    BY <2>2, <2>4, <2>6, <2>8, <2>10
  <2>12. checkin..(checkout - 1) \subseteq L(room) /\ checkout - 1 \in L(room)
    <3>1. checkout - 1 \in checkin..(checkout - 1)
      BY <2>6, <2>11
    <3> HIDE DEF L
    <3>2. QED BY <2>4, <2>11, <3>1
  <2>13. f <= checkin /\ checkout <= end
    <3> HIDE DEF L, f, end
    <3>1. f <= checkin /\ checkout - 1 < end
      BY <2>3, <2>7, <2>12
    <3>2. QED BY <3>1, <2>5, <2>6, <2>11
  <2>14. room \in SearchAvailability(checkin, checkout, guests)
    BY <1>1, <2>5, <2>6, <2>10, <2>11, <2>12, <2>13, GivenByNight
  <2>15. Valid(checkin, checkout)
    BY <1>1, <2>5, <2>6, <2>10, <2>11, <2>13 DEF Valid, SearchInv
  <2>16. checkin \in arrivals(Spans(from, to, guests))
    <3> DEFINE span == SpanOf(room, run)
               i == checkin - run.first
    <3>1. /\ span.start = run.first /\ DOMAIN span.minStays = 0..(run.last - run.first)
          /\ i \in 0..(run.last - run.first) /\ run.first + i = checkin
      BY <2>2, <2>4, <2>6, SMTT(30) DEF SpanOf
    <3>2. span.minStays[i] = minStay[room][checkin]
      BY <3>1 DEF SpanOf
    <3>3. Length(span) = 1 + run.last - run.first
      BY <2>4, LengthIs
    <3> HIDE DEF span
    <3>4. i + span.minStays[i] <= Length(span)
      BY <2>4, <2>6, <2>7, <2>10, <3>2, <3>3
    <3>5. span \in Spans(from, to, guests)
      BY <2>2 DEF span
    <3>6. checkin \in Comes(span)
      BY <3>1, <3>4 DEF Comes
    <3>7. QED BY <3>5, <3>6, ArrivalsAre
  <2>17. QED BY <2>13, <2>14, <2>15, <2>16 DEF SearchResult
<1>2. ASSUME SearchInv, NEW from \in Days, NEW to \in Days, NEW guests,
             NEW checkin \in Days, NEW checkout \in Days,
             checkin >= ClampFrom(from), checkout <= ClampTo(ClampFrom(from), to),
             SearchResult(checkin, checkout, guests) # {}
      PROVE  checkout \in departures(Spans(from, to, guests), checkin)
  <2> DEFINE f == ClampFrom(from)
             end == ClampTo(f, to)
             L(room) == ListSellableNights(room, f, end, guests)
  <2>1. PICK room \in SearchRooms : /\ room \in SearchAvailability(checkin, checkout, guests)
                                    /\ Valid(checkin, checkout)
    BY <1>2 DEF SearchResult, SearchAvailability
  <2>2. f \in Nat /\ f >= arriving /\ end \in Nat
    BY <1>2, WindowIs
  <2>3. checkin \in Nat /\ checkout \in Nat
    BY <1>2 DEF Days
  <2>4. checkin < checkout /\ checkout - checkin <= maxStayNights
    BY <2>1 DEF Valid
  <2>5. /\ checkin..(checkout - 1) \subseteq L(room)
        /\ checkout - checkin >= minStay[room][checkin]
    BY <1>2, <2>1, <2>2, <2>3, <2>4, GivenByNight
  <2>6. L(room) \subseteq 1..LastNight /\ checkin \in L(room)
    <3>1. checkin \in checkin..(checkout - 1)
      BY <2>3, <2>4
    <3>2. QED BY <2>5, <3>1 DEF ListSellableNights, AllNights
  <2>7. PICK run \in Runs(L(room)) : run.first <= checkin /\ checkin <= run.last
    <3> HIDE DEF L
    <3>1. QED BY <2>6, RunAround
  <2>8. run.first \in 1..LastNight /\ run.last \in 1..LastNight
    <3> HIDE DEF L
    <3>1. QED BY <2>6, <2>7, RunIs
  <2>9. run.last + 1 \notin L(room)
    <3> HIDE DEF L
    <3>1. QED BY <2>7 DEF Runs
  <2>10. checkout <= run.last + 1
    <3>1. SUFFICES ASSUME checkout > run.last + 1 PROVE FALSE
      BY <2>3, <2>8
    <3>2. run.last + 1 \in checkin..(checkout - 1)
      BY <2>3, <2>7, <2>8, <3>1
    <3> HIDE DEF L
    <3>3. QED BY <3>2, <2>5, <2>9
  <2>11. minStay[room][checkin] \in Nat
    BY <1>2, <2>6 DEF ListSellableNights, SearchInv
  <2> DEFINE nights == checkout - checkin
             left == run.last + 1 - checkin
  <2>12. nights \in Nat /\ left \in Nat /\ nights <= left /\ nights <= maxStayNights
         /\ nights >= minStay[room][checkin] /\ checkin + nights = checkout
    BY <2>3, <2>4, <2>5, <2>7, <2>8, <2>10
  <2>13. nights <= Longest(left) /\ Longest(left) \in Nat
    <3> HIDE DEF nights, left
    <3>1. QED BY <1>2, <2>12, LongestIs
  <2>14. nights \in minStay[room][checkin]..Longest(left)
    <3> HIDE DEF nights, left
    <3>1. QED BY <2>11, <2>12, <2>13
  <2>15. checkin \in run.first..run.last
    BY <2>3, <2>7, <2>8
  <2>16. checkin + nights \in departures(Spans(from, to, guests), checkin)
    <3> HIDE DEF nights
    <3>1. QED BY <1>2, <2>7, <2>14, <2>15, IsOffered
  <2>17. QED BY <2>12, <2>16
<1>3. SearchInv => PickerMatchesSearch
  <2> SUFFICES ASSUME SearchInv, NEW guests \in Parties, NEW from \in Days, NEW to \in Days,
                      NEW checkin \in Days
               PROVE  LET spans == Spans(from, to, guests)
                          end   == ClampTo(ClampFrom(from), to)
                          offered == departures(spans, checkin)
                      IN  /\ offered # {} => checkin \in arrivals(spans)
                          /\ \A checkout \in Days : checkout \in offered
                              <=> /\ checkin >= ClampFrom(from) /\ checkout <= end
                                  /\ SearchResult(checkin, checkout, guests) # {}
    BY DEF PickerMatchesSearch
  <2>1. departures(Spans(from, to, guests), checkin) # {}
          => checkin \in arrivals(Spans(from, to, guests))
    <3>1. SUFFICES ASSUME NEW checkout,
                          checkout \in departures(Spans(from, to, guests), checkin)
                   PROVE  checkin \in arrivals(Spans(from, to, guests))
      OBVIOUS
    <3>2. QED BY <3>1, <1>1
  <2>2. QED BY <2>1, <1>1, <1>2
<1>4. QED BY <1>3, SearchInvariant, PTL

-----------------------------------------------------------------------------
(* The refund job.                                                         *)

PlanRows == [id : {"charge", "refund"} \X Nat, kind : {"deposit", "refund"},
             amount : Nat, status : {"succeeded", "failed"}]

(* A charge has a number of its own; a refund row is a refund that went    *)
(* through.                                                                *)
RowsNamed ==
  \A i \in DOMAIN rows :
    IF rows[i].kind = "refund"
    THEN rows[i].id[1] = "refund" /\ rows[i].status = "succeeded"
    ELSE /\ rows[i].id[1] = "charge" /\ rows[i].id[2] <= Entered
         /\ \A j \in DOMAIN rows : rows[j].id = rows[i].id => i = j

(* What has gone back is the first parts, in their order.                  *)
FirstPartsBack ==
  LET parts == Parts(ChargeRows(rows), target)
      back  == RefundRows(rows)
  IN  /\ Len(back) <= Len(parts)
      /\ \A n \in 1..Len(back) :
           back[n].id = <<"refund", parts[n].id[2]>> /\ back[n].amount = parts[n].amount

LedgerInv ==
  /\ rows \in Seq(PlanRows) /\ target \in Nat \union {Unasked}
  /\ RowsNamed
  /\ target = Unasked => RefundRows(rows) = <<>>
  /\ target # Unasked => target <= Charged(rows) /\ FirstPartsBack

LEMMA PlanRowsPriced == Priced(PlanRows)
BY DEF Priced, PlanRows

LEMMA RowIs ==
  ASSUME rows \in Seq(PlanRows), NEW i \in DOMAIN rows
  PROVE  /\ rows[i] \in PlanRows /\ rows[i].amount \in Nat /\ rows[i].id[2] \in Nat
         /\ rows[i].id = <<rows[i].id[1], rows[i].id[2]>>
<1>1. rows[i] \in PlanRows
  OBVIOUS
<1>2. rows[i].id \in {"charge", "refund"} \X Nat /\ rows[i].amount \in Nat
  BY <1>1 DEF PlanRows
<1>3. \A y \in {"charge", "refund"} \X Nat : y[2] \in Nat /\ y = <<y[1], y[2]>>
  OBVIOUS
<1> QED
  BY <1>1, <1>2, <1>3

LEMMA EnteredIsNat ==
  ASSUME rows \in Seq(PlanRows)
  PROVE  Entered \in Nat
<1>1. {i \in DOMAIN rows : rows[i].kind # "refund"} \in SUBSET (1..Len(rows)) /\ Len(rows) \in Nat
  OBVIOUS
<1> QED
  BY <1>1, PlaceIsCount DEF Entered

LEMMA CollectKeepsLedger ==
  ASSUME LedgerInv, NEW amount \in Nat, NEW st \in {"succeeded", "failed"}, Collect(amount, st)
  PROVE  LedgerInv'
<1> DEFINE x == [id |-> <<"charge", Entered + 1>>, kind |-> "deposit", amount |-> amount, status |-> st]
           k == Len(rows) + 1
<1>1. rows' = Append(rows, x) /\ target' = target
  BY DEF Collect
<1>2. rows \in Seq(PlanRows) /\ Entered \in Nat /\ target \in Nat \union {Unasked}
  BY EnteredIsNat DEF LedgerInv
<1>3. x \in PlanRows /\ x.kind = "deposit" /\ x.id = <<"charge", Entered + 1>> /\ x.amount = amount
      /\ x.status = st
  BY <1>2 DEF PlanRows
<1> HIDE DEF x
<1>4. /\ rows' \in Seq(PlanRows) /\ rows'[k] = x /\ Len(rows) \in Nat
      /\ DOMAIN rows = 1..Len(rows) /\ DOMAIN rows' = (1..Len(rows)) \union {k} /\ k \notin 1..Len(rows)
      /\ \A i \in 1..Len(rows) : rows'[i] = rows[i]
  BY <1>1, <1>2, <1>3
<1> HIDE DEF k
<1>5. Entered' = Entered + 1
  <2> DEFINE E == {i \in 1..Len(rows) : rows[i].kind # "refund"}
  <2>1. {i \in DOMAIN rows' : rows'[i].kind # "refund"} = E \union {k} /\ k \notin E
    BY <1>3, <1>4
  <2>2. IsFiniteSet(E)
    BY <1>4, PlaceIsCount, E \in SUBSET (1..Len(rows))
  <2>3. Entered = Cardinality(E)
    BY <1>4 DEF Entered
  <2> HIDE DEF E
  <2> QED
    BY <2>1, <2>2, <2>3, FS_AddElement DEF Entered
<1>6. RowsNamed'
  <2>1. \A i \in 1..Len(rows) : rows[i].id # x.id
    <3> SUFFICES ASSUME NEW i \in 1..Len(rows) PROVE rows[i].id # x.id
      OBVIOUS
    <3>1. CASE rows[i].kind = "refund"
      BY <1>3, <1>4, <3>1 DEF LedgerInv, RowsNamed
    <3>2. CASE rows[i].kind # "refund"
      <4>1. rows[i].id[2] <= Entered
        BY <1>4, <3>2 DEF LedgerInv, RowsNamed
      <4>2. x.id[2] = Entered + 1
        BY <1>3
      <4> QED
        BY <1>2, <4>1, <4>2
    <3> QED
      BY <3>1, <3>2
  <2> SUFFICES ASSUME NEW i \in DOMAIN rows'
               PROVE  IF rows'[i].kind = "refund"
                      THEN rows'[i].id[1] = "refund" /\ rows'[i].status = "succeeded"
                      ELSE /\ rows'[i].id[1] = "charge" /\ rows'[i].id[2] <= Entered'
                           /\ \A j \in DOMAIN rows' : rows'[j].id = rows'[i].id => i = j
    BY DEF RowsNamed
  <2>2. CASE i = k
    <3>1. x.id[1] = "charge" /\ x.id[2] = Entered + 1
      BY <1>3
    <3> QED
      BY <1>2, <1>3, <1>4, <1>5, <2>1, <2>2, <3>1
  <2>3. CASE i \in 1..Len(rows)
    <3>1. IF rows[i].kind = "refund"
          THEN rows[i].id[1] = "refund" /\ rows[i].status = "succeeded"
          ELSE /\ rows[i].id[1] = "charge" /\ rows[i].id[2] <= Entered
               /\ \A j \in DOMAIN rows : rows[j].id = rows[i].id => i = j
      BY <1>4, <2>3 DEF LedgerInv, RowsNamed
    <3>2. rows[i].id[2] <= Entered => rows[i].id[2] <= Entered + 1
      <4>1. rows[i].id[2] \in Nat
        BY <1>2, <1>4, <2>3, RowIs
      <4> QED
        BY <1>2, <4>1
    <3> QED
      BY <1>4, <1>5, <2>1, <2>3, <3>1, <3>2
  <2> QED
    BY <1>4, <2>2, <2>3
<1>7. /\ ChargeRows(rows)' = IF st = "succeeded" THEN Append(ChargeRows(rows), x) ELSE ChargeRows(rows)
      /\ RefundRows(rows)' = RefundRows(rows)
  BY <1>1, <1>2, <1>3, LedgerAppend
<1>8. /\ ChargeRows(rows) \in Seq(PlanRows) /\ RefundRows(rows) \in Seq(PlanRows)
      /\ Charged(rows) = Amounts(ChargeRows(rows)) /\ Charged(rows) \in Nat
      /\ Charged(rows)' = Amounts(ChargeRows(rows)')
  BY <1>2, <1>4, PlanRowsPriced, LedgerSums
<1>9. ASSUME target # Unasked, st = "succeeded" PROVE target <= Charged(rows)' /\ FirstPartsBack'
  <2> DEFINE c == ChargeRows(rows)
             p == Parts(c, target)
             q == Parts(Append(c, x), target)
             r == RefundRows(rows)
  <2>1. /\ target \in Int /\ target <= Amounts(c)
        /\ Len(r) <= Len(p)
        /\ \A n \in 1..Len(r) : r[n].id = <<"refund", p[n].id[2]>> /\ r[n].amount = p[n].amount
    BY <1>2, <1>8, <1>9 DEF LedgerInv, FirstPartsBack
  <2>2. c \in Seq(PlanRows) /\ r \in Seq(PlanRows) /\ Append(c, x) \in Seq(PlanRows)
    BY <1>3, <1>8
  <2>3. /\ Len(p) <= Len(q) /\ \A i \in 1..Len(p) : q[i] = p[i]
    BY <1>3, <2>1, <2>2, PlanRowsPriced, PartsGrow
  <2>4. Len(r) \in Nat /\ Len(p) \in Nat /\ Len(q) \in Nat
    <3>1. p \in Seq(Shares(PlanRows)) /\ q \in Seq(Shares(PlanRows))
      BY <2>1, <2>2, PlanRowsPriced, PartsAre
    <3> HIDE DEF p, q, r
    <3> QED
      BY <2>2, <3>1
  <2>5. FirstPartsBack' = (/\ Len(r) <= Len(q)
                           /\ \A n \in 1..Len(r) : r[n].id = <<"refund", q[n].id[2]>> /\ r[n].amount = q[n].amount)
    BY <1>1, <1>7, <1>9 DEF FirstPartsBack
  <2>6. Amounts(Append(c, x)) = Amounts(c) + amount /\ Amounts(c) \in Nat
    BY <1>3, <2>2, PlanRowsPriced, AmountsAppend, SumToSteps
  <2>7. \A n \in 1..Len(r) : n \in 1..Len(p)
    BY <2>1, <2>4
  <2> HIDE DEF p, q, r
  <2>8. FirstPartsBack'
    BY <2>1, <2>3, <2>4, <2>5, <2>7
  <2> HIDE DEF c
  <2>9. target <= Charged(rows)'
    BY <1>7, <1>8, <1>9, <2>1, <2>6 DEF c
  <2> QED
    BY <2>8, <2>9
<1>10. ASSUME target # Unasked, st # "succeeded" PROVE target <= Charged(rows)' /\ FirstPartsBack'
  BY <1>1, <1>7, <1>8, <1>10 DEF LedgerInv, FirstPartsBack
<1> QED
  BY <1>1, <1>2, <1>4, <1>6, <1>7, <1>9, <1>10 DEF LedgerInv, Unasked

LEMMA AskKeepsLedger ==
  ASSUME LedgerInv, NEW amount \in 0..Charged(rows), Ask(amount)
  PROVE  LedgerInv'
<1>1. rows' = rows /\ target' = amount /\ target = Unasked /\ amount \in Nat /\ amount <= Charged(rows)
  BY PlanRowsPriced, LedgerSums DEF Ask, LedgerInv
<1>2. RefundRows(rows) = <<>>
  BY <1>1 DEF LedgerInv
<1>3. FirstPartsBack'
  <2>1. Parts(ChargeRows(rows), amount) \in Seq(Shares(PlanRows))
    BY <1>1, PlanRowsPriced, LedgerSums, PartsAre DEF LedgerInv
  <2>2. Len(Parts(ChargeRows(rows), amount)) \in Nat /\ Len(<<>>) = 0
    BY <2>1
  <2> QED
    BY <1>1, <1>2, <2>2 DEF FirstPartsBack
<1>4. RowsNamed' /\ Charged(rows)' = Charged(rows)
  BY <1>1 DEF LedgerInv, RowsNamed, Entered
<1> QED
  BY <1>1, <1>3, <1>4 DEF LedgerInv, Unasked

(* What is planned with the first parts back. *)
LEMMA PlannedIsRest ==
  ASSUME LedgerInv, target # Unasked
  PROVE  LET p == Parts(ChargeRows(rows), target)
             r == RefundRows(rows)
         IN  /\ p \in Seq(Shares(PlanRows)) /\ r \in Seq(PlanRows) /\ target \in Nat
             /\ Len(p) \in Nat /\ Len(r) \in 0..Len(p)
             /\ \A n \in 1..Len(p) : p[n].id = ChargeRows(rows)[n].id
             /\ \A n \in 1..Len(p) : n \in 1..Len(ChargeRows(rows))
             /\ \A n \in 1..Len(p) : p[n].amount <= ChargeRows(rows)[n].amount
             /\ Allocate(rows, target) = SubSeq(p, Len(r) + 1, Len(p))
<1> DEFINE c == ChargeRows(rows)
           p == Parts(c, target)
           r == RefundRows(rows)
<1>1. rows \in Seq(PlanRows) /\ target \in Nat
  BY DEF LedgerInv
<1>2. c \in Seq(PlanRows) /\ r \in Seq(PlanRows)
  BY <1>1, PlanRowsPriced, LedgerSums
<1>3. /\ p \in Seq(Shares(PlanRows)) /\ Len(p) \in 0..Len(c)
      /\ \A i \in 1..Len(p) : p[i].id = c[i].id /\ p[i].amount <= c[i].amount
  BY <1>1, <1>2, PlanRowsPriced, PartsAre
<1>4. Len(r) <= Len(p) /\ \A n \in 1..Len(r) : r[n].amount = p[n].amount
  BY DEF LedgerInv, FirstPartsBack
<1>5. Allocate(rows, target) = SubSeq(p, Len(r) + 1, Len(p))
  BY <1>1, <1>4, PlanRowsPriced, AllocateRest
<1> HIDE DEF c, p, r
<1>6. Len(p) \in Nat /\ Len(r) \in Nat /\ Len(c) \in Nat
  BY <1>2, <1>3
<1>7. \A n \in 1..Len(p) : n \in 1..Len(c)
  BY <1>3, <1>6
<1> QED
  BY <1>1, <1>2, <1>3, <1>4, <1>5, <1>6, <1>7 DEF c, p, r

LEMMA ReturnKeepsLedger ==
  ASSUME LedgerInv, ReturnPart
  PROVE  LedgerInv'
<1> DEFINE c == ChargeRows(rows)
           p == Parts(c, target)
           r == RefundRows(rows)
           m == Len(r) + 1
           x == [id |-> <<"refund", p[m].id[2]>>, kind |-> "refund",
                 amount |-> p[m].amount, status |-> "succeeded"]
           k == Len(rows) + 1
<1>1. target # Unasked /\ target' = target /\ Allocate(rows, target) # <<>>
      /\ rows' = Append(rows, [id |-> <<"refund", Head(Allocate(rows, target)).id[2]>>, kind |-> "refund",
                               amount |-> Head(Allocate(rows, target)).amount, status |-> "succeeded"])
  BY DEF ReturnPart
<1>2. /\ p \in Seq(Shares(PlanRows)) /\ r \in Seq(PlanRows) /\ target \in Nat
      /\ Len(p) \in Nat /\ Len(r) \in 0..Len(p)
      /\ \A n \in 1..Len(p) : p[n].id = c[n].id /\ n \in 1..Len(c)
      /\ Allocate(rows, target) = SubSeq(p, m, Len(p))
  BY <1>1, PlannedIsRest
<1>3. rows \in Seq(PlanRows) /\ Entered \in Nat /\ c \in Seq(PlanRows)
  BY PlanRowsPriced, LedgerSums, EnteredIsNat DEF LedgerInv
<1>4. m \in 1..Len(p) /\ Head(Allocate(rows, target)) = p[m]
  <2> HIDE DEF p, r, c
  <2> QED
    BY <1>1, <1>2
<1>5. rows' = Append(rows, x)
  BY <1>1, <1>4
<1>6. p[m].id[2] \in Nat /\ p[m].amount \in Nat
  <2>1. p[m] \in Shares(PlanRows) /\ m \in 1..Len(c) /\ p[m].id = c[m].id
    <3> HIDE DEF p, c, m
    <3> QED
      BY <1>2, <1>4
  <2>2. c[m] \in PlanRows
    <3> HIDE DEF c, m
    <3> QED
      BY <1>3, <2>1
  <2> HIDE DEF c, p, m
  <2> QED
    BY <2>1, <2>2 DEF Shares, PlanRows
<1>7. /\ x \in PlanRows /\ x.kind = "refund" /\ x.status = "succeeded"
      /\ x.id = <<"refund", p[m].id[2]>> /\ x.id[1] = "refund" /\ x.amount = p[m].amount
  <2> HIDE DEF p, m
  <2> QED
    BY <1>6 DEF PlanRows
<1> HIDE DEF x
<1>8. /\ rows' \in Seq(PlanRows) /\ rows'[k] = x /\ Len(rows) \in Nat
      /\ DOMAIN rows = 1..Len(rows) /\ DOMAIN rows' = (1..Len(rows)) \union {k} /\ k \notin 1..Len(rows)
      /\ \A i \in 1..Len(rows) : rows'[i] = rows[i]
  <2> HIDE DEF p, c, r, m
  <2> QED
    BY <1>3, <1>5, <1>7
<1> HIDE DEF k
<1>9. Entered' = Entered
  <2>1. {i \in DOMAIN rows' : rows'[i].kind # "refund"} = {i \in DOMAIN rows : rows[i].kind # "refund"}
    <3> HIDE DEF p, c, r, m
    <3> QED
      BY <1>7, <1>8
  <2> QED
    BY <2>1 DEF Entered
<1>10. RowsNamed'
  <2> SUFFICES ASSUME NEW i \in DOMAIN rows'
               PROVE  IF rows'[i].kind = "refund"
                      THEN rows'[i].id[1] = "refund" /\ rows'[i].status = "succeeded"
                      ELSE /\ rows'[i].id[1] = "charge" /\ rows'[i].id[2] <= Entered'
                           /\ \A j \in DOMAIN rows' : rows'[j].id = rows'[i].id => i = j
    BY DEF RowsNamed
  <2>1. CASE i = k
    BY <1>7, <1>8, <2>1
  <2>2. CASE i \in 1..Len(rows)
    <3>1. IF rows[i].kind = "refund"
          THEN rows[i].id[1] = "refund" /\ rows[i].status = "succeeded"
          ELSE /\ rows[i].id[1] = "charge" /\ rows[i].id[2] <= Entered
               /\ \A j \in DOMAIN rows : rows[j].id = rows[i].id => i = j
      BY <1>8, <2>2 DEF LedgerInv, RowsNamed
    <3>2. rows[i].id[1] = "charge" => x.id # rows[i].id
      BY <1>7
    <3> HIDE DEF p, c, r, m
    <3> QED
      BY <1>8, <1>9, <2>2, <3>1, <3>2
  <2> QED
    BY <1>8, <2>1, <2>2
<1>11. ChargeRows(rows)' = c /\ RefundRows(rows)' = Append(r, x)
  BY <1>3, <1>5, <1>7, LedgerAppend
<1>12. Charged(rows)' = Charged(rows)
  BY <1>3, <1>8, <1>11, PlanRowsPriced, LedgerSums
<1>13. FirstPartsBack'
  <2>1. /\ Len(r) <= Len(p)
        /\ \A n \in 1..Len(r) : r[n].id = <<"refund", p[n].id[2]>> /\ r[n].amount = p[n].amount
    BY <1>1 DEF LedgerInv, FirstPartsBack
  <2> DEFINE s == Append(r, x)
  <2>2. FirstPartsBack' = (/\ Len(s) <= Len(p)
                           /\ \A n \in 1..Len(s) : s[n].id = <<"refund", p[n].id[2]>> /\ s[n].amount = p[n].amount)
    BY <1>1, <1>11 DEF FirstPartsBack
  <2> HIDE DEF p, c, r
  <2>3. /\ Len(s) = m /\ s[m] = x /\ \A n \in 1..Len(r) : s[n] = r[n]
        /\ \A n \in 1..m : n \in 1..Len(r) \/ n = m
    BY <1>2, <1>7
  <2> HIDE DEF s, m
  <2>4. m <= Len(p)
    BY <1>2, <1>4
  <2> QED
    BY <1>7, <2>1, <2>2, <2>3, <2>4
<1> QED
  BY <1>1, <1>8, <1>10, <1>12, <1>13 DEF LedgerInv

LEMMA LedgerInvariant == PlanInit /\ [][PlanNext]_planned => []LedgerInv
<1>1. PlanInit => LedgerInv
  <2> SUFFICES ASSUME PlanInit PROVE LedgerInv
    OBVIOUS
  <2>1. rows = <<>> /\ target = Unasked
    BY DEF PlanInit
  <2>2. Refunds(rows) = {} /\ DOMAIN rows = {}
    BY <2>1 DEF Refunds
  <2>3. RefundRows(rows) = <<>>
    BY <2>2, AtIndicesNone DEF RefundRows
  <2> QED
    BY <2>1, <2>2, <2>3 DEF LedgerInv, RowsNamed
<1>2. LedgerInv /\ [PlanNext]_planned => LedgerInv'
  <2> SUFFICES ASSUME LedgerInv, [PlanNext]_planned PROVE LedgerInv'
    OBVIOUS
  <2>1. ASSUME NEW amount \in 1..MaxAmount, NEW st \in {"succeeded", "failed"}, Collect(amount, st)
        PROVE  LedgerInv'
    <3>1. amount \in Nat
      OBVIOUS
    <3> QED
      BY <2>1, <3>1, CollectKeepsLedger
  <2>2. ASSUME NEW amount \in 0..Charged(rows), Ask(amount) PROVE LedgerInv'
    BY <2>2, AskKeepsLedger
  <2>3. CASE ReturnPart
    BY <2>3, ReturnKeepsLedger
  <2>4. CASE UNCHANGED planned
    BY <2>4 DEF planned, LedgerInv, RowsNamed, FirstPartsBack, Entered
  <2> QED
    BY <2>1, <2>2, <2>3, <2>4 DEF PlanNext
<1> QED
  BY <1>1, <1>2, PTL

(* What went back and what is planned next add up to what was asked for. *)
LEMMA RestMakesWhole ==
  ASSUME LedgerInv, target # Unasked
  PROVE  Refunded(rows) + Amounts(Allocate(rows, target)) = Goal
<1> DEFINE c == ChargeRows(rows)
           p == Parts(c, target)
           r == RefundRows(rows)
           m == Len(r)
<1>1. /\ p \in Seq(Shares(PlanRows)) /\ r \in Seq(PlanRows) /\ target \in Nat
      /\ Len(p) \in Nat /\ m \in 0..Len(p)
      /\ Allocate(rows, target) = SubSeq(p, m + 1, Len(p))
  BY PlannedIsRest
<1>2. /\ c \in Seq(PlanRows) /\ Charged(rows) = Amounts(c) /\ Charged(rows) \in Nat
      /\ Refunded(rows) = Amounts(r)
      /\ target <= Charged(rows) /\ \A n \in 1..m : r[n].amount = p[n].amount
  BY PlanRowsPriced, LedgerSums DEF LedgerInv, FirstPartsBack
<1>3. Amounts(p) = IF Amounts(c) <= Sought(c, target) THEN Amounts(c) ELSE Sought(c, target)
  BY <1>1, <1>2, PlanRowsPriced, PartsSum
<1>4. Amounts(p) = Goal
  BY <1>1, <1>2, <1>3 DEF Goal, Sought
<1> HIDE DEF c, p, r
<1>5. Amounts(r) = SumTo(r, m)
  BY <1>1, PlanRowsPriced, AmountsOf
<1>6. SumTo(r, m) = SumTo(p, m)
  <2>1. m \in 0..m /\ m <= Len(p)
    BY <1>1
  <2> QED
    BY <1>1, <1>2, <2>1, PlanRowsPriced, SharesPriced, SumToSame
<1>7. SumTo(p, m) + Amounts(SubSeq(p, m + 1, Len(p))) = Amounts(p)
  BY <1>1, SharesPriced, AmountsOfRest
<1> QED
  BY <1>1, <1>2, <1>4, <1>5, <1>6, <1>7

(* A payment is asked to return no more than it took: of the refunds that   *)
(* name it there is at most one, the part it was given.                    *)
LEMMA ReturnedOnce ==
  ASSUME LedgerInv, target # Unasked, NEW i \in DOMAIN rows, rows[i].kind # "refund"
  PROVE  Returned(i) <= rows[i].amount
<1> DEFINE c == ChargeRows(rows)
           p == Parts(c, target)
           r == RefundRows(rows)
           K == {j \in DOMAIN rows : rows[j].id = <<"refund", rows[i].id[2]>>}
<1>1. /\ rows \in Seq(PlanRows) /\ DOMAIN rows = 1..Len(rows) /\ Len(rows) \in Nat
      /\ Refunds(rows) \in SUBSET (1..Len(rows)) /\ Charges(rows) \in SUBSET (1..Len(rows))
      /\ K \in SUBSET (1..Len(rows))
  BY DEF LedgerInv, Refunds, Charges
<1>2. /\ Len(r) \in Nat /\ Len(p) \in Nat /\ Len(r) \in 0..Len(p)
      /\ \A n \in 1..Len(p) : p[n].id = c[n].id /\ n \in 1..Len(c) /\ p[n].amount <= c[n].amount
      /\ \A n \in 1..Len(r) : r[n].id = <<"refund", p[n].id[2]>> /\ r[n].amount = p[n].amount
  BY PlannedIsRest DEF LedgerInv, FirstPartsBack
<1>3. rows[i].id = <<"charge", rows[i].id[2]>> /\ rows[i].amount \in Nat
  <2>1. rows[i].id[1] = "charge"
    BY DEF LedgerInv, RowsNamed
  <2> QED
    BY <1>1, <2>1, RowIs
(* A refund that names the row is the part laid out for it. *)
<1>4. ASSUME NEW j \in K
      PROVE  /\ j \in Refunds(rows) /\ Place(Refunds(rows), j) \in 1..Len(c)
             /\ c[Place(Refunds(rows), j)] = rows[i]
             /\ i \in Charges(rows) /\ Place(Charges(rows), i) = Place(Refunds(rows), j)
             /\ rows[j].amount <= rows[i].amount
  <2> DEFINE n == Place(Refunds(rows), j)
  <2>1. j \in DOMAIN rows /\ rows[j].id = <<"refund", rows[i].id[2]>>
    OBVIOUS
  <2>2. j \in Refunds(rows)
    <3>1. rows[j].id[1] = "refund"
      BY <2>1
    <3> QED
      BY <2>1, <3>1 DEF LedgerInv, RowsNamed, Refunds
  <2>3. n \in 1..Len(r) /\ r[n] = rows[j]
    <3> HIDE DEF K
    <3> QED
      BY <1>1, <2>2, RowInPlace DEF RefundRows
  <2>4. n \in 1..Len(p) /\ n \in 1..Len(c)
    <3> HIDE DEF n, r, p, c
    <3> QED
      BY <1>2, <2>3
  <2>5. PICK l \in Charges(rows) : Place(Charges(rows), l) = n /\ c[n] = rows[l]
    <3> HIDE DEF n
    <3> QED
      BY <1>1, <2>4, PlaceHasRow DEF ChargeRows
  <2> HIDE DEF n, r, p, c, K
  <2>6. rows[l].id[2] = rows[i].id[2]
    <3>1. rows[j].id = <<"refund", rows[l].id[2]>>
      BY <1>2, <2>3, <2>4, <2>5
    <3> QED
      BY <2>1, <3>1
  <2>7. l \in DOMAIN rows /\ rows[l].kind # "refund" /\ rows[l].id = <<"charge", rows[l].id[2]>>
    <3>1. l \in DOMAIN rows /\ rows[l].kind # "refund"
      BY <2>5 DEF Charges
    <3>2. rows[l].id[1] = "charge"
      BY <3>1 DEF LedgerInv, RowsNamed
    <3> QED
      BY <1>1, <3>1, <3>2, RowIs
  <2>8. l = i
    BY <1>3, <2>6, <2>7 DEF LedgerInv, RowsNamed
  <2>9. rows[j].amount <= rows[i].amount
    BY <1>2, <2>3, <2>4, <2>5, <2>8
  <2> QED
    BY <2>2, <2>4, <2>5, <2>8, <2>9 DEF n
<1> HIDE DEF c, p, r
<1>5. ASSUME NEW j \in K, NEW l \in K PROVE j = l
  <2>1. Place(Refunds(rows), j) = Place(Refunds(rows), l) /\ j \in Refunds(rows) /\ l \in Refunds(rows)
    BY <1>4
  <2> QED
    BY <1>1, <2>1, PlaceTells
<1>6. CASE K = {}
  <2>1. Returned(i) = SumFunctionOnSet(AmountAt(rows), K)
    <3> HIDE DEF K
    <3> QED
      BY <1>1, PlanRowsPriced, AmountsKept DEF Returned, K
  <2> QED
    <3>1. SumFunctionOnSet(AmountAt(rows), {}) = 0
      BY SumOfNone
    <3> HIDE DEF K
    <3>2. Returned(i) = 0
      BY <1>6, <2>1, <3>1
    <3> QED
      BY <1>3, <3>2
<1>7. CASE K # {}
  <2>1. PICK j : j \in K
    BY <1>7
  <2>2. K = {j}
    BY <1>5, <2>1
  <2>3. Returned(i) = SumFunctionOnSet(AmountAt(rows), K)
    <3> HIDE DEF K
    <3> QED
      BY <1>1, PlanRowsPriced, AmountsKept DEF Returned, K
  <2>4. j \in 1..Len(rows) /\ AmountAt(rows)[j] = rows[j].amount /\ rows[j].amount \in Nat
    BY <1>1, <2>1, PlanRowsPriced, AmountsOf
  <2>5. Returned(i) = rows[j].amount
    <3>1. SumFunctionOnSet(AmountAt(rows), {j}) = AmountAt(rows)[j]
      <4>1. AmountAt(rows)[j] \in Int
        BY <2>4
      <4> HIDE DEF K
      <4> QED
        BY <4>1, SumOfOne, Zenon
    <3> HIDE DEF K
    <3>2. SumFunctionOnSet(AmountAt(rows), K) = SumFunctionOnSet(AmountAt(rows), {j})
      BY <2>2
    <3> QED
      BY <2>3, <2>4, <3>1, <3>2
  <2> QED
    BY <1>4, <2>1, <2>5
<1> QED
  BY <1>6, <1>7

(* Refund: "a retry computes the same division": whatever was charged and  *)
(* recorded before the job runs again, what it plans is what is still owed, *)
(* and no payment is asked to return more than it took.                    *)
THEOREM RetryPlansTheRest == PlanInit /\ [][PlanNext]_planned => []RestIsOwed
<1>1. LedgerInv => RestIsOwed
  BY RestMakesWhole, ReturnedOnce DEF RestIsOwed
<1> QED
  BY <1>1, LedgerInvariant, PTL

-----------------------------------------------------------------------------
(* The division as the code computes it, one element after the other.      *)

LEMMA SubSeqMore ==
  ASSUME NEW S, NEW p \in Seq(S), NEW n \in 1..Len(p)
  PROVE  SubSeq(p, 1, n) = Append(SubSeq(p, 1, n - 1), p[n])
<1>1. n \in Nat /\ n - 1 \in Nat /\ Len(p) \in Nat /\ \A i \in 1..n : i \in 1..Len(p)
  OBVIOUS
<1>2. SubSeq(p, 1, n) = [i \in 1..n |-> p[i]] /\ SubSeq(p, 1, n - 1) = [i \in 1..(n - 1) |-> p[i]]
  BY <1>1
<1>3. SubSeq(p, 1, n - 1) \in Seq(S) /\ Len(SubSeq(p, 1, n - 1)) = n - 1
  BY <1>1
<1>4. Append(SubSeq(p, 1, n - 1), p[n]) = [i \in 1..n |-> p[i]]
  BY <1>1, <1>2, <1>3
<1> QED
  BY <1>2, <1>4

Filled(after, charges, goal) ==
  after = [n \in 0..Len(charges) |->
             IF n = 0 THEN [remaining |-> goal, parts |-> <<>>] ELSE FillOne(after[n - 1], charges[n])]

LEMMA FillingIs ==
  ASSUME NEW charges, NEW goal, \E after : Filled(after, charges, goal)
  PROVE  Filled(Filling(charges, goal), charges, goal)
<1>1. Filling(charges, goal) = CHOOSE after : Filled(after, charges, goal)
  BY DEF Filling, Filled
<1> QED
  BY <1>1

(* The first loop leaves the first parts, and what is still to be found.   *)
LEMMA FillIsParts ==
  ASSUME NEW S, Priced(S), NEW c \in Seq(S), NEW t \in Int
  PROVE  Fill(c, Sought(c, t)) = Parts(c, t)
<1> DEFINE p == Parts(c, t)
           g == Sought(c, t)
           left(n) == IF SumTo(c, n) <= g THEN g - SumTo(c, n) ELSE 0
           some(n) == SubSeq(p, 1, IF n <= Len(p) THEN n ELSE Len(p))
           w == [n \in 0..Len(c) |-> [remaining |-> left(n), parts |-> some(n)]]
<1>1. /\ g \in Nat /\ p \in Seq(Shares(S)) /\ Len(p) \in 0..Len(c)
      /\ \A i \in 1..Len(c) : i <= Len(p) <=> SumTo(c, i - 1) < g
      /\ \A i \in 1..Len(p) :
           /\ p[i].id = c[i].id
           /\ p[i].amount = IF c[i].amount > g - SumTo(c, i - 1)
                            THEN g - SumTo(c, i - 1) ELSE c[i].amount
  BY PartsAre
<1> HIDE DEF p, g
<1>2. /\ SumTo(c, 0) = 0 /\ Len(c) \in Nat /\ Len(p) \in Nat
      /\ \A n \in 1..Len(c) : SumTo(c, n) = SumTo(c, n - 1) + c[n].amount
      /\ \A n \in 0..Len(c) : SumTo(c, n) \in Nat
      /\ \A n \in 1..Len(c) : c[n].amount \in Nat
  BY <1>1, SumToSteps, AmountsOf
<1>3. w[0] = [remaining |-> g, parts |-> <<>>]
  <2>1. 0 \in 0..Len(c) /\ 0 <= Len(p) /\ 0 <= g
    BY <1>1, <1>2
  <2>2. left(0) = g /\ some(0) = <<>>
    BY <1>1, <1>2, <2>1
  <2> QED
    BY <2>1, <2>2
<1>4. ASSUME NEW n \in 1..Len(c)
      PROVE  w[n] = FillOne(w[n - 1], c[n])
  <2>1. n \in 0..Len(c) /\ n - 1 \in 0..Len(c) /\ n \in Nat /\ n - 1 \in Nat
    BY <1>2
  <2>2. w[n - 1] = [remaining |-> left(n - 1), parts |-> some(n - 1)]
        /\ w[n] = [remaining |-> left(n), parts |-> some(n)]
    BY <2>1
  <2>3. /\ SumTo(c, n) = SumTo(c, n - 1) + c[n].amount /\ SumTo(c, n) \in Nat
        /\ SumTo(c, n - 1) \in Nat /\ c[n].amount \in Nat
    BY <1>2, <2>1
  <2> DEFINE a == c[n].amount
             s == SumTo(c, n - 1)
             part == IF a > left(n - 1) THEN left(n - 1) ELSE a
  <2>4. CASE n <= Len(p)
    <3>1. s < g /\ left(n - 1) = g - s /\ left(n - 1) > 0
      BY <1>1, <2>3, <2>4
    <3>2. n \in 1..Len(p) /\ p[n] \in Shares(S)
      BY <1>1, <1>2, <2>1, <2>4
    <3>3. p[n] = [id |-> c[n].id, amount |-> part]
      <4>1. p[n].id = c[n].id /\ p[n].amount = part
        BY <1>1, <3>1, <3>2
      <4> QED
        BY <3>2, <4>1 DEF Shares
    <3>4. left(n) = left(n - 1) - part
      BY <1>1, <2>3, <3>1, SMTT(30)
    <3>5. some(n) = Append(some(n - 1), p[n])
      <4>1. some(n) = SubSeq(p, 1, n) /\ some(n - 1) = SubSeq(p, 1, n - 1)
        BY <1>2, <2>1, <2>4
      <4>2. n - 1 \in 0..Len(p) /\ n \in 0..Len(p) /\ (n - 1) + 1 = n
        BY <2>1, <3>2
      <4> QED
        BY <1>1, <3>2, <4>1, <4>2, SubSeqMore
    <3>6. FillOne(w[n - 1], c[n]) = [remaining |-> left(n - 1) - part,
                                     parts |-> Append(some(n - 1), [id |-> c[n].id, amount |-> part])]
      <4> HIDE DEF left, some, w
      <4>1. ~(left(n - 1) <= 0)
        BY <2>1, <3>1, <1>1, <2>3
      <4> QED
        BY <2>2, <4>1 DEF FillOne
    <3> HIDE DEF left, some, w, part
    <3> QED
      BY <2>2, <3>3, <3>4, <3>5, <3>6
  <2>5. CASE ~(n <= Len(p))
    <3>1. s >= g /\ left(n - 1) = 0 /\ left(n) = 0
      BY <1>1, <2>3, <2>5
    <3>2. some(n) = some(n - 1)
      <4>1. (IF n <= Len(p) THEN n ELSE Len(p)) = Len(p) /\ (IF n - 1 <= Len(p) THEN n - 1 ELSE Len(p)) = Len(p)
        BY <1>2, <2>1, <2>5
      <4> QED
        BY <4>1
    <3>3. FillOne(w[n - 1], c[n]) = w[n - 1]
      <4> HIDE DEF left, some, w
      <4> QED
        BY <2>2, <3>1 DEF FillOne
    <3> HIDE DEF left, some, w
    <3> QED
      BY <2>2, <3>1, <3>2, <3>3
  <2> QED
    BY <2>4, <2>5
<1>5. Filled(w, c, g)
  <2>1. w = [n \in 0..Len(c) |-> w[n]]
    OBVIOUS
  <2> HIDE DEF w
  <2>2. \A n \in 0..Len(c) : n # 0 => n \in 1..Len(c)
    BY <1>2
  <2> QED
    BY <1>3, <1>4, <2>1, <2>2 DEF Filled
<1> DEFINE f == Filling(c, g)
<1>6. Filled(f, c, g)
  BY <1>5, FillingIs
<1>7. w = [n \in 0..Len(c) |-> w[n]]
  OBVIOUS
<1>8. w[Len(c)].parts = p
  <2>1. Len(c) \in 0..Len(c) /\ (IF Len(c) <= Len(p) THEN Len(c) ELSE Len(p)) = Len(p)
    BY <1>1, <1>2
  <2>2. w[Len(c)].parts = SubSeq(p, 1, Len(p))
    BY <2>1
  <2> QED
    BY <1>1, <2>2
<1> HIDE DEF w, f
<1>9. \A n \in 0..Len(c) : f[n] = w[n]
  <2> DEFINE T == {n \in 0..Len(c) : f[n] # w[n]}
  <2>1. SUFFICES ASSUME T # {} PROVE FALSE
    OBVIOUS
  <2>2. T \subseteq Nat
    BY <1>2
  <2>3. PICK n \in T : \A m \in T : n <= m
    <3> HIDE DEF T
    <3> QED
      BY <2>1, <2>2, Least
  <2>4. n \in 0..Len(c) /\ f[n] # w[n]
    OBVIOUS
  <2>5. n # 0
    BY <1>3, <1>6, <2>4 DEF Filled
  <2>6. n \in 1..Len(c) /\ n - 1 \in 0..Len(c) /\ ~(n <= n - 1)
    BY <1>2, <2>4, <2>5
  <2>7. f[n - 1] = w[n - 1]
    BY <2>3, <2>6
  <2>8. f[n] = FillOne(f[n - 1], c[n])
    BY <1>6, <2>4, <2>5 DEF Filled
  <2> QED
    BY <1>4, <2>4, <2>6, <2>7, <2>8
<1>10. Fill(c, g) = p
  <2>1. Len(c) \in 0..Len(c)
    BY <1>2
  <2> QED
    BY <1>8, <1>9, <2>1 DEF Fill, f
<1> QED
  BY <1>10 DEF p, g

(* How many of the first n rows have an amount. *)
Alike(s, n, a) == Cardinality({i \in 1..n : s[i].amount = a})

LEMMA AlikeSteps ==
  ASSUME NEW s, NEW n \in Nat, NEW a
  PROVE  /\ IsFiniteSet({i \in 1..n : s[i].amount = a}) /\ Alike(s, n, a) \in Nat
         /\ n = 0 => Alike(s, n, a) = 0
         /\ n # 0 => Alike(s, n, a) = Alike(s, n - 1, a) + IF s[n].amount = a THEN 1 ELSE 0
<1> DEFINE like(k) == {i \in 1..k : s[i].amount = a}
<1>1. \A k \in Nat : IsFiniteSet(like(k)) /\ Cardinality(like(k)) \in Nat
  <2> SUFFICES ASSUME NEW k \in Nat PROVE IsFiniteSet(like(k)) /\ Cardinality(like(k)) \in Nat
    OBVIOUS
  <2>1. like(k) \in SUBSET (1..k)
    OBVIOUS
  <2> HIDE DEF like
  <2> QED
    BY <2>1, PlaceIsCount
<1>2. CASE n = 0
  <2>1. like(n) = {}
    BY <1>2
  <2>2. Cardinality(like(n)) = 0
    BY <2>1, FS_EmptySet
  <2> QED
    BY <1>1, <1>2, <2>2 DEF Alike
<1>3. CASE n # 0
  <2>1. n - 1 \in Nat /\ n \notin 1..(n - 1) /\ 1..n = (1..(n - 1)) \union {n}
    BY <1>3
  <2>2. n \notin like(n - 1) /\ like(n) = IF s[n].amount = a THEN like(n - 1) \union {n} ELSE like(n - 1)
    BY <2>1
  <2>3. IsFiniteSet(like(n - 1)) /\ Cardinality(like(n - 1)) \in Nat
    BY <1>1, <2>1
  <2>4. Alike(s, n, a) = Cardinality(like(n)) /\ Alike(s, n - 1, a) = Cardinality(like(n - 1))
    BY DEF Alike
  <2> HIDE DEF like
  <2>5. CASE s[n].amount = a
    <3>1. Cardinality(like(n - 1) \union {n}) = Cardinality(like(n - 1)) + 1
      BY <2>2, <2>3, FS_AddElement
    <3> QED
      BY <1>1, <1>3, <2>2, <2>4, <2>5, <3>1 DEF like
  <2>6. CASE s[n].amount # a
    <3>1. like(n) = like(n - 1)
      BY <2>2, <2>6
    <3>2. Alike(s, n, a) = Alike(s, n - 1, a) + 0
      BY <2>3, <2>4, <3>1
    <3> QED
      BY <1>1, <1>3, <2>6, <3>2, <2>4 DEF like
  <2> QED
    BY <2>5, <2>6
<1> QED
  BY <1>2, <1>3

(* A record that is used up is gone once. *)
LEMMA RemoveOne ==
  ASSUME NEW S, NEW s \in Seq(S), NEW h \in 1..Len(s)
  PROVE  /\ RemoveAt(s, h) \in Seq(S)
         /\ \A a : Alike(RemoveAt(s, h), Len(RemoveAt(s, h)), a)
                     = Alike(s, Len(s), a) - IF s[h].amount = a THEN 1 ELSE 0
<1> DEFINE L == Len(s)
           t == RemoveAt(s, h)
<1>1. /\ L \in Nat /\ h \in Nat /\ 1 <= h /\ h <= L
      /\ t \in Seq(S) /\ Len(t) = L - 1
      /\ \A i \in 1..(L - 1) : t[i] = IF i < h THEN s[i] ELSE s[i + 1]
  <2> DEFINE u == SubSeq(s, 1, h - 1)
             v == SubSeq(s, h + 1, L)
  <2>1. L \in Nat /\ h \in Nat /\ 1 <= h /\ h <= L
    OBVIOUS
  <2>2. u \in Seq(S) /\ Len(u) = h - 1 /\ \A i \in 1..(h - 1) : u[i] = s[i]
    OBVIOUS
  <2>3. v \in Seq(S) /\ Len(v) = L - h /\ \A i \in 1..(L - h) : v[i] = s[h + i]
    BY <2>1
  <2>4. t = u \o v
    BY DEF RemoveAt
  <2> HIDE DEF t, u, v
  <2>5. /\ t \in Seq(S) /\ Len(t) = (h - 1) + (L - h)
        /\ \A i \in 1..((h - 1) + (L - h)) : t[i] = IF i <= h - 1 THEN u[i] ELSE v[i - (h - 1)]
    <3>1. u \o v \in Seq(S) /\ Len(u \o v) = Len(u) + Len(v)
      <4>1. u \in Seq(S) /\ v \in Seq(S)
        BY <2>2, <2>3
      <4> QED
        BY <4>1
    <3>2. \A i \in 1..(Len(u) + Len(v)) : (u \o v)[i] = IF i <= Len(u) THEN u[i] ELSE v[i - Len(u)]
      BY <2>2, <2>3
    <3> QED
      BY <2>2, <2>3, <2>4, <3>1, <3>2
  <2>6. ASSUME NEW i \in 1..(L - 1) PROVE t[i] = IF i < h THEN s[i] ELSE s[i + 1]
    <3>1. i \in 1..((h - 1) + (L - h)) /\ i \in Nat
      BY <2>1
    <3>2. CASE i < h
      BY <2>1, <2>2, <2>5, <3>1, <3>2
    <3>3. CASE ~(i < h)
      <4>1. i - (h - 1) \in 1..(L - h) /\ h + (i - (h - 1)) = i + 1 /\ ~(i <= h - 1)
        BY <2>1, <3>1, <3>3
      <4>2. t[i] = v[i - (h - 1)] /\ v[i - (h - 1)] = s[h + (i - (h - 1))]
        BY <2>3, <2>5, <3>1, <4>1
      <4> QED
        BY <3>3, <4>1, <4>2
    <3> QED
      BY <3>2, <3>3
  <2>7. (h - 1) + (L - h) = L - 1
    BY <2>1
  <2> QED
    BY <2>1, <2>5, <2>6, <2>7
<1> HIDE DEF t
<1>2. ASSUME NEW a
      PROVE  Alike(t, Len(t), a) = Alike(s, L, a) - IF s[h].amount = a THEN 1 ELSE 0
  <2> DEFINE A == {i \in 1..(L - 1) : t[i].amount = a}
             F == {i \in 1..L : s[i].amount = a}
             B == F \ {h}
             f == [i \in A |-> IF i < h THEN i ELSE i + 1]
  <2>1. ASSUME NEW i \in A PROVE f[i] \in B
    <3>1. i \in 1..(L - 1) /\ t[i].amount = a /\ t[i] = IF i < h THEN s[i] ELSE s[i + 1]
      BY <1>1
    <3>2. (IF i < h THEN i ELSE i + 1) \in 1..L /\ (IF i < h THEN i ELSE i + 1) # h
      BY <1>1, <3>1
    <3> QED
      BY <3>1, <3>2
  <2>2. ASSUME NEW i \in A, NEW j \in A, f[i] = f[j] PROVE i = j
    <3>1. i \in Nat /\ j \in Nat
      BY <1>1
    <3> QED
      BY <1>1, <2>2, <3>1
  <2>3. ASSUME NEW j \in B PROVE \E i \in A : f[i] = j
    <3>1. j \in 1..L /\ s[j].amount = a /\ j # h
      OBVIOUS
    <3> DEFINE i == IF j < h THEN j ELSE j - 1
    <3>2. i \in 1..(L - 1) /\ (IF i < h THEN i ELSE i + 1) = j
      BY <1>1, <3>1
    <3>3. t[i] = s[j]
      BY <1>1, <3>2
    <3> HIDE DEF i
    <3>4. i \in A
      BY <3>1, <3>2, <3>3
    <3> QED
      BY <3>2, <3>4
  <2>4. IsFiniteSet(A) /\ IsFiniteSet(F)
    <3>1. A \in SUBSET (1..(L - 1)) /\ F \in SUBSET (1..L) /\ L - 1 \in Nat
      BY <1>1
    <3> HIDE DEF A, F
    <3> QED
      BY <1>1, <3>1, PlaceIsCount
  <2>5. Cardinality(A) = Cardinality(B)
    <3>1. f \in [A -> B] /\ \A i, j \in A : f[i] = f[j] => i = j
      BY <2>1, <2>2
    <3>2. \A j \in B : \E i \in A : f[i] = j
      BY <2>3
    <3> HIDE DEF f, A, B
    <3>3. f \in Bijection(A, B)
      BY <3>1, <3>2 DEF Bijection, Injection, Surjection, IsInjective
    <3> QED
      BY <2>4, <3>3, FS_Bijection DEF ExistsBijection
  <2>6. h \in F <=> s[h].amount = a
    OBVIOUS
  <2>7. Cardinality(F) \in Nat
    BY <2>4, FS_CardinalityType
  <2>8. Cardinality(B) = Cardinality(F) - IF s[h].amount = a THEN 1 ELSE 0
    <3> HIDE DEF F
    <3>1. Cardinality(F \ {h}) = IF h \in F THEN Cardinality(F) - 1 ELSE Cardinality(F)
      BY <2>4, FS_RemoveElement
    <3> QED
      BY <2>6, <2>7, <3>1
  <2>9. Alike(t, Len(t), a) = Cardinality(A) /\ Alike(s, L, a) = Cardinality(F)
    BY <1>1 DEF Alike
  <2> HIDE DEF A, B, F
  <2> QED
    BY <2>5, <2>8, <2>9
<1> QED
  BY <1>1, <1>2 DEF t

(* What the second loop holds: the records not used up, the parts kept.     *)
Strikes(S, Q) == [done : Seq(S), out : Seq(Q)]

(* One round of the second loop: the part is kept, or one record of its     *)
(* amount is used up.                                                      *)
Round(was, part, next) ==
  /\ Alike(was.done, Len(was.done), part.amount) = 0 =>
       next.done = was.done /\ next.out = Append(was.out, part)
  /\ Alike(was.done, Len(was.done), part.amount) # 0 =>
       /\ next.out = was.out
       /\ \A b : Alike(next.done, Len(next.done), b)
                  = Alike(was.done, Len(was.done), b) - IF b = part.amount THEN 1 ELSE 0

LEMMA StrikeOneIs ==
  ASSUME NEW S, NEW Q, NEW was \in Strikes(S, Q), NEW part \in Q
  PROVE  StrikeOne(was, part) \in Strikes(S, Q) /\ Round(was, part, StrikeOne(was, part))
<1> DEFINE a == part.amount
           s == was.done
           hit == {i \in DOMAIN s : s[i].amount = a}
<1>1. /\ s \in Seq(S) /\ was.out \in Seq(Q) /\ was = [done |-> s, out |-> was.out]
      /\ DOMAIN s = 1..Len(s) /\ Len(s) \in Nat /\ hit \subseteq Nat /\ hit \subseteq 1..Len(s)
  BY DEF Strikes
<1>2. IsFiniteSet(hit) /\ Alike(s, Len(s), a) = Cardinality(hit)
  <2>1. hit = {i \in 1..Len(s) : s[i].amount = a}
    BY <1>1
  <2> HIDE DEF hit, s, a
  <2>2. Len(s) \in Nat
    BY <1>1
  <2>3. IsFiniteSet(hit)
    BY <1>1, <2>2, PlaceIsCount
  <2> QED
    BY <2>1, <2>3 DEF Alike
<1>3. hit = {} <=> Alike(s, Len(s), a) = 0
  <2> HIDE DEF hit
  <2> QED
    BY <1>2, FS_EmptySet
<1>4. StrikeOne(was, part) = IF hit = {} THEN [done |-> s, out |-> Append(was.out, part)]
                             ELSE [done |-> RemoveAt(s, Min(hit)), out |-> was.out]
  <2>1. StrikeOne(was, part) = IF hit = {} THEN [was EXCEPT !.out = Append(was.out, part)]
                               ELSE [was EXCEPT !.done = RemoveAt(s, Min(hit))]
    BY DEF StrikeOne
  <2>2. [was EXCEPT !.out = Append(was.out, part)] = [done |-> s, out |-> Append(was.out, part)]
    <3> DEFINE more == Append(was.out, part)
    <3> HIDE DEF more, s
    <3>1. was = [done |-> s, out |-> was.out]
      BY <1>1
    <3>2. [was EXCEPT !.out = more] = [done |-> s, out |-> more]
      BY <3>1
    <3> QED
      BY <3>2 DEF more
  <2>3. [was EXCEPT !.done = RemoveAt(s, Min(hit))] = [done |-> RemoveAt(s, Min(hit)), out |-> was.out]
    <3> DEFINE rest == RemoveAt(s, Min(hit))
    <3> HIDE DEF rest, s
    <3>1. [was EXCEPT !.done = rest] = [done |-> rest, out |-> was.out]
      BY <1>1
    <3> QED
      BY <3>1 DEF rest
  <2> QED
    BY <2>1, <2>2, <2>3
<1>5. CASE hit = {}
  <2> HIDE DEF hit, s, a
  <2>1. Append(was.out, part) \in Seq(Q)
    BY <1>1
  <2> QED
    BY <1>1, <1>3, <1>4, <1>5, <2>1 DEF a, s, Strikes, Round
<1>6. CASE hit # {}
  <2> DEFINE h == Min(hit)
  <2>1. h \in hit
    <3>1. \E n \in hit : \A m \in hit : n <= m
      <4> HIDE DEF hit
      <4> QED
        BY <1>1, <1>6, Least
    <3> HIDE DEF hit
    <3> QED
      BY <3>1 DEF Min
  <2>2. h \in 1..Len(s) /\ s[h].amount = a
    BY <1>1, <2>1
  <2> HIDE DEF hit, h
  <2>3. /\ RemoveAt(s, h) \in Seq(S)
        /\ \A b : Alike(RemoveAt(s, h), Len(RemoveAt(s, h)), b)
                    = Alike(s, Len(s), b) - IF s[h].amount = b THEN 1 ELSE 0
    BY <1>1, <2>2, RemoveOne
  <2>4. StrikeOne(was, part) = [done |-> RemoveAt(s, h), out |-> was.out]
    BY <1>4, <1>6 DEF h
  <2> HIDE DEF s, a
  <2>5. StrikeOne(was, part) \in Strikes(S, Q)
    BY <1>1, <2>3, <2>4 DEF Strikes
  <2>6. StrikeOne(was, part).done = RemoveAt(s, h) /\ StrikeOne(was, part).out = was.out
    BY <2>4
  <2> QED
    BY <1>3, <1>6, <2>2, <2>3, <2>5, <2>6 DEF a, s, Round
<1> QED
  BY <1>5, <1>6

Struck(after, parts, recorded) ==
  after = [n \in 0..Len(parts) |->
             IF n = 0 THEN [done |-> recorded, out |-> <<>>] ELSE StrikeOne(after[n - 1], parts[n])]

LEMMA StrikingIs ==
  ASSUME NEW parts, NEW recorded, \E after : Struck(after, parts, recorded)
  PROVE  Struck(Striking(parts, recorded), parts, recorded)
<1>1. Striking(parts, recorded) = CHOOSE after : Struck(after, parts, recorded)
  BY DEF Striking, Struck
<1> QED
  BY <1>1

LEMMA StruckExists ==
  ASSUME NEW S, NEW Q, NEW p \in Seq(Q), NEW r \in Seq(S)
  PROVE  \E f : Struck(f, p, r)
<1> DEFINE X == Strikes(S, Q)
           N == Len(p)
           base == [done |-> r, out |-> <<>>]
           Loops(f, m) == f[0] = base /\ \A n \in 1..m : f[n] = StrikeOne(f[n - 1], p[n])
           T == {m \in 0..N : ~ \E f \in [0..m -> X] : Loops(f, m)}
<1>1. N \in Nat /\ base \in X /\ \A n \in 1..N : p[n] \in Q
  BY DEF Strikes
<1>2. T = {}
  <2>1. SUFFICES ASSUME T # {} PROVE FALSE
    OBVIOUS
  <2>2. T \subseteq Nat
    BY <1>1
  <2>3. PICK m \in T : \A k \in T : m <= k
    <3> HIDE DEF T
    <3> QED
      BY <2>1, <2>2, Least
  <2> HIDE DEF base, X, N
  <2>4. m # 0
    <3> DEFINE f == [n \in 0..0 |-> base]
    <3>1. f \in [0..0 -> X] /\ Loops(f, 0)
      BY <1>1
    <3> QED
      BY <2>3, <3>1
  <2>5. m \in Nat /\ m - 1 \in 0..N /\ m \in 1..N
    BY <1>1, <2>3, <2>4
  <2>6. PICK f \in [0..(m - 1) -> X] : Loops(f, m - 1)
    <3>1. m - 1 \notin T
      <4> HIDE DEF T
      <4> QED
        BY <2>3, <2>5
    <3> QED
      BY <2>5, <3>1
  <2> DEFINE g == [n \in 0..m |-> IF n = m THEN StrikeOne(f[m - 1], p[m]) ELSE f[n]]
  <2>7. f[m - 1] \in X /\ p[m] \in Q
    BY <1>1, <2>5
  <2>8. StrikeOne(f[m - 1], p[m]) \in X
    BY <2>7, StrikeOneIs DEF X
  <2>9. g \in [0..m -> X]
    <3> SUFFICES ASSUME NEW n \in 0..m
                 PROVE  (IF n = m THEN StrikeOne(f[m - 1], p[m]) ELSE f[n]) \in X
      OBVIOUS
    <3>1. n # m => n \in 0..(m - 1)
      BY <2>5
    <3> QED
      BY <2>8, <3>1
  <2>10. Loops(g, m)
    <3>1. g[0] = base
      BY <2>5, <2>6
    <3>2. ASSUME NEW n \in 1..m PROVE g[n] = StrikeOne(g[n - 1], p[n])
      <4>1. n \in 0..m /\ n - 1 \in 0..m /\ n - 1 # m
        BY <2>5
      <4>2. g[n - 1] = f[n - 1]
        BY <4>1
      <4>3. CASE n = m
        BY <4>1, <4>2, <4>3
      <4>4. CASE n # m
        <5>1. n \in 1..(m - 1)
          BY <2>5, <4>4
        <5>2. g[n] = f[n]
          BY <4>1, <4>4
        <5> QED
          BY <2>6, <4>2, <5>1, <5>2
      <4> QED
        BY <4>3, <4>4
    <3> QED
      BY <3>1, <3>2
  <2> QED
    BY <2>3, <2>9, <2>10
<1>3. PICK f \in [0..N -> X] : Loops(f, N)
  <2>1. N \in 0..N
    BY <1>1
  <2> QED
    BY <1>2, <2>1
<1>4. ASSUME NEW n \in 0..N
      PROVE  f[n] = IF n = 0 THEN base ELSE StrikeOne(f[n - 1], p[n])
  <2>1. n # 0 => n \in 1..N
    BY <1>1
  <2> QED
    BY <1>3, <2>1
<1> HIDE DEF N, base, X
<1>5. f = [n \in 0..N |-> IF n = 0 THEN base ELSE StrikeOne(f[n - 1], p[n])]
  BY <1>4
<1>6. Struck(f, p, r)
  BY <1>5 DEF Struck, N, base
<1> QED
  BY <1>6

(* The second loop keeps what the counts say it keeps. *)
LEMMA StrikeIsCount ==
  ASSUME NEW S, NEW Q, NEW p \in Seq(Q), NEW r \in Seq(S)
  PROVE  Strike(p, r) =
           AtIndices(p, {i \in 1..Len(p) : ~(Alike(p, i - 1, p[i].amount) < Alike(r, Len(r), p[i].amount))})
<1> DEFINE N == Len(p)
           f == Striking(p, r)
           X == Strikes(S, Q)
           owed(i) == ~(Alike(p, i - 1, p[i].amount) < Alike(r, Len(r), p[i].amount))
           kept(n) == {i \in 1..n : owed(i)}
           unused(a, n) == IF Alike(r, Len(r), a) > Alike(p, n, a)
                           THEN Alike(r, Len(r), a) - Alike(p, n, a) ELSE 0
           Right(n) == /\ f[n] \in X /\ f[n].out = AtIndices(p, kept(n))
                       /\ \A a : Alike(f[n].done, Len(f[n].done), a) = unused(a, n)
<1>1. Struck(f, p, r)
  BY StruckExists, StrikingIs
<1>2. N \in Nat /\ Len(r) \in Nat /\ \A n \in 1..N : p[n] \in Q
  OBVIOUS
<1> HIDE DEF f
<1>3. f[0] = [done |-> r, out |-> <<>>] /\ \A n \in 0..N : n # 0 => f[n] = StrikeOne(f[n - 1], p[n])
  <2>1. f = [n \in 0..N |-> IF n = 0 THEN [done |-> r, out |-> <<>>] ELSE StrikeOne(f[n - 1], p[n])]
    BY <1>1 DEF Struck
  <2> HIDE DEF N
  <2>2. \A n \in 0..N : f[n] = IF n = 0 THEN [done |-> r, out |-> <<>>] ELSE StrikeOne(f[n - 1], p[n])
    BY <2>1
  <2>3. 0 \in 0..N
    BY <1>2
  <2> QED
    BY <2>2, <2>3
<1>4. Right(0)
  <2>1. kept(0) = {}
    OBVIOUS
  <2>2. AtIndices(p, kept(0)) = <<>>
    BY <2>1, AtIndicesNone
  <2>3. f[0] \in X /\ f[0].out = <<>> /\ f[0].done = r
    BY <1>3 DEF Strikes
  <2>4. \A a : unused(a, 0) = Alike(r, Len(r), a)
    <3> SUFFICES ASSUME NEW a PROVE unused(a, 0) = Alike(r, Len(r), a)
      OBVIOUS
    <3>1. Alike(p, 0, a) = 0 /\ Alike(r, Len(r), a) \in Nat
      BY <1>2, AlikeSteps
    <3> QED
      BY <3>1
  <2> HIDE DEF unused, kept, X
  <2> QED
    BY <2>2, <2>3, <2>4
<1>5. ASSUME NEW n \in 1..N, Right(n - 1)
      PROVE  Right(n)
  <2> DEFINE was == f[n - 1]
             b == p[n].amount
  <2>1. n \in Nat /\ n - 1 \in Nat /\ n \in 0..N /\ n # 0 /\ p[n] \in Q
    BY <1>2
  <2>2. f[n] = StrikeOne(was, p[n]) /\ was \in X
    BY <1>3, <1>5, <2>1
  <2>3. /\ f[n] \in X
        /\ Alike(was.done, Len(was.done), b) = 0 => f[n].done = was.done /\ f[n].out = Append(was.out, p[n])
        /\ Alike(was.done, Len(was.done), b) # 0 =>
             /\ f[n].out = was.out
             /\ \A a : Alike(f[n].done, Len(f[n].done), a)
                         = Alike(was.done, Len(was.done), a) - IF a = b THEN 1 ELSE 0
    <3>1. f[n] \in X /\ Round(was, p[n], f[n])
      BY <2>1, <2>2, StrikeOneIs
    <3> QED
      BY <3>1 DEF Round
  <2>4. was.out = AtIndices(p, kept(n - 1)) /\ \A a : Alike(was.done, Len(was.done), a) = unused(a, n - 1)
    BY <1>5
  <2>5. \A a : /\ Alike(p, n - 1, a) \in Nat /\ Alike(r, Len(r), a) \in Nat
               /\ Alike(p, n, a) = Alike(p, n - 1, a) + IF b = a THEN 1 ELSE 0
    <3>1. Len(r) \in Nat
      BY <1>2
    <3>2. ASSUME NEW a PROVE Alike(p, n - 1, a) \in Nat
      BY <2>1, AlikeSteps
    <3>3. ASSUME NEW a PROVE Alike(r, Len(r), a) \in Nat
      BY <3>1, AlikeSteps
    <3>4. ASSUME NEW a PROVE Alike(p, n, a) = Alike(p, n - 1, a) + IF p[n].amount = a THEN 1 ELSE 0
      BY <2>1, AlikeSteps, ZenonT(40)
    <3> QED
      BY <3>2, <3>3, <3>4
  <2>6. owed(n) <=> unused(b, n - 1) = 0
    BY <2>5
  <2>7. kept(n) = IF owed(n) THEN kept(n - 1) \union {n} ELSE kept(n - 1)
    <3>1. 1..n = (1..(n - 1)) \union {n}
      BY <2>1
    <3> HIDE DEF owed
    <3> QED
      BY <3>1
  <2>8. kept(n - 1) \in SUBSET (1..N) /\ n \in 1..N /\ \A i \in kept(n - 1) : i < n
    <3> HIDE DEF owed
    <3> QED
      BY <1>2, <2>1
  <2>9. CASE owed(n)
    <3>1. AtIndices(p, kept(n)) = Append(AtIndices(p, kept(n - 1)), p[n])
      <4> HIDE DEF owed, kept
      <4> QED
        BY <2>7, <2>8, <2>9, AtIndicesLast
    <3>2. \A a : unused(a, n) = unused(a, n - 1)
      BY <2>5, <2>6, <2>9
    <3> HIDE DEF owed, kept, unused, X, was, b
    <3> QED
      BY <2>3, <2>4, <2>6, <2>9, <3>1, <3>2
  <2>10. CASE ~owed(n)
    <3>1. \A a : unused(a, n) = unused(a, n - 1) - IF a = b THEN 1 ELSE 0
      BY <2>5, <2>6, <2>10, SMTT(30)
    <3> HIDE DEF owed, kept, unused, X, was, b
    <3> QED
      BY <2>3, <2>4, <2>6, <2>7, <2>10, <3>1
  <2> QED
    BY <2>9, <2>10
<1>6. Right(N)
  <2> DEFINE T == {n \in 0..N : ~Right(n)}
  <2>1. SUFFICES ASSUME T # {} PROVE FALSE
    <3>1. N \in 0..N
      BY <1>2
    <3> HIDE DEF Right
    <3> QED
      BY <2>1, <3>1
  <2>2. T \subseteq Nat
    BY <1>2
  <2>3. PICK n \in T : \A m \in T : n <= m
    <3> HIDE DEF T
    <3> QED
      BY <2>1, <2>2, Least
  <2> HIDE DEF Right
  <2>4. n \in 0..N /\ ~Right(n) /\ n # 0
    BY <1>4, <2>3
  <2>5. n \in 1..N /\ n - 1 \in 0..N /\ ~(n <= n - 1)
    BY <1>2, <2>4
  <2>6. Right(n - 1)
    BY <2>3, <2>5
  <2> QED
    BY <1>5, <2>4, <2>5, <2>6
<1>7. f[N].out = AtIndices(p, kept(N))
  BY <1>6
<1> QED
  BY <1>7 DEF Strike, f

(* Allocate, stated by counting, is what the two loops of ledger.allocate   *)
(* compute, whatever the ledger and for any target up to what was charged. *)
THEOREM LoopIsCounted == PlanInit /\ [][PlanNext]_planned => []AllocateIsTheLoop
<1>1. ASSUME LedgerInv PROVE AllocateIsTheLoop
  <2> SUFFICES ASSUME NEW t \in 0..Charged(rows)
               PROVE  Allocate(rows, t) =
                        Strike(Fill(ChargeRows(rows), IF t = 0 THEN Charged(rows) ELSE t), RefundRows(rows))
    BY DEF AllocateIsTheLoop
  <2> DEFINE c == ChargeRows(rows)
             r == RefundRows(rows)
             p == Parts(c, t)
  <2>1. rows \in Seq(PlanRows)
    BY <1>1 DEF LedgerInv
  <2>2. c \in Seq(PlanRows) /\ r \in Seq(PlanRows) /\ Charged(rows) = Amounts(c) /\ Charged(rows) \in Nat
    BY <2>1, PlanRowsPriced, LedgerSums
  <2>3. t \in Int /\ (IF t = 0 THEN Charged(rows) ELSE t) = Sought(c, t)
    BY <2>2 DEF Sought
  <2>4. Fill(c, Sought(c, t)) = p /\ p \in Seq(Shares(PlanRows))
    BY <2>2, <2>3, PlanRowsPriced, FillIsParts, PartsAre
  <2>5. Strike(p, r) =
          AtIndices(p, {i \in 1..Len(p) : ~(Alike(p, i - 1, p[i].amount) < Alike(r, Len(r), p[i].amount))})
    <3> HIDE DEF p, r
    <3> QED
      BY <2>2, <2>4, StrikeIsCount
  <2>6. Allocate(rows, t) =
          AtIndices(p, {i \in 1..Len(p) : ~(Alike(p, i - 1, p[i].amount) < Alike(r, Len(r), p[i].amount))})
    <3>1. DOMAIN p = 1..Len(p)
      <4> HIDE DEF p
      <4> QED
        BY <2>4
    <3> QED
      BY <3>1 DEF Allocate, Alike
  <2> QED
    BY <2>3, <2>4, <2>5, <2>6
<1> QED
  BY <1>1, LedgerInvariant, PTL

=============================================================================
