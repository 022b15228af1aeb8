------------------------------ MODULE GateProofs ------------------------------
(***************************************************************************)
(* What stands at the door: the rate limiter, which implements Meter for   *)
(* any clients, any interval and any burst that refills within             *)
(* idleBucketTTL, and the sign-in, for any number of ceremonies, devices   *)
(* and revocations at once.                                                *)
(***************************************************************************)
EXTENDS Limiter, SignIn, FiniteSetTheorems, TLAPS

-----------------------------------------------------------------------------
(* The limiter.  The buckets of the map and the allowances of Meter are    *)
(* tied by FullAt: a request taken puts it off by an interval, refilling   *)
(* leaves it where it is, and a bucket the sweep drops had passed it.      *)

(* What the map holds.  The clock has no bound here.                       *)
LInv ==
  /\ now \in Nat /\ swept \in Nat
  /\ buckets \in [DOMAIN buckets -> [tokens : 0..Burst, seen : 0..now]]
  /\ DOMAIN buckets \subseteq Keys

-----------------------------------------------------------------------------
LEMMA Times == ASSUME NEW a \in Int, NEW b \in Int PROVE a * b \in Int
  BY Z3

LEMMA Distributes ==
  ASSUME NEW a \in Int, NEW b \in Int, NEW c \in Int
  PROVE  (a - b) * c = a * c - b * c
  BY Z3

LEMMA Grows ==
  ASSUME NEW a \in Int, NEW b \in Int, NEW c \in Nat, a <= b
  PROVE  a * c <= b * c
  BY Z3

LEMMA Division ==
  ASSUME NEW n \in Nat, NEW d \in Nat \ {0}
  PROVE  /\ n \div d \in Nat
         /\ (n \div d) * d <= n
         /\ n < (n \div d) * d + d
  BY Z3

-----------------------------------------------------------------------------
(* When a bucket [tokens |-> t, seen |-> s] will be full.                  *)
Whole(t, s) == s + (Burst - t) * Interval

LEMMA WholeIsInt ==
  ASSUME LimiterAssumption, NEW t \in 0..Burst, NEW s \in Int
  PROVE  /\ Whole(t, s) \in Int
         /\ Whole(t, s) = s + Burst * Interval - t * Interval
         /\ Burst * Interval \in Int /\ t * Interval \in Int
  <1>1. Burst \in Int /\ Interval \in Int /\ t \in Int
    BY DEF LimiterAssumption
  <1>2. Burst * Interval \in Int /\ t * Interval \in Int
    BY <1>1, Times
  <1>3. (Burst - t) * Interval = Burst * Interval - t * Interval
    BY <1>1, Distributes
  <1> QED
    BY <1>1, <1>2, <1>3 DEF Whole

(* One token fewer is one interval later.                                  *)
LEMMA TakingOne ==
  ASSUME LimiterAssumption, NEW t \in 1..Burst, NEW s \in Int
  PROVE  Whole(t - 1, s) = Whole(t, s) + Interval
  <1>1. Interval \in Int /\ t \in Int /\ t - 1 \in 0..Burst /\ t \in 0..Burst
    BY DEF LimiterAssumption
  <1>2. (t - 1) * Interval = t * Interval - 1 * Interval
    BY <1>1, Distributes
  <1>3. Whole(t - 1, s) = s + Burst * Interval - (t - 1) * Interval
    BY <1>1, WholeIsInt
  <1>4. Whole(t, s) = s + Burst * Interval - t * Interval
    BY <1>1, WholeIsInt
  <1>5. Burst * Interval \in Int /\ t * Interval \in Int
    BY <1>1, WholeIsInt
  <1> QED
    BY <1>1, <1>2, <1>3, <1>4, <1>5

(* A token earned moves the bucket on, not the time it will be full.       *)
LEMMA Refilling ==
  ASSUME LimiterAssumption, NEW t \in 0..Burst, NEW s \in Int, NEW e \in Nat, t + e \in 0..Burst
  PROVE  Whole(t + e, s + e * Interval) = Whole(t, s)
  <1>1. Interval \in Int /\ t \in Int /\ e \in Int /\ -e \in Int
    BY DEF LimiterAssumption
  <1>2. e * Interval \in Int
    BY <1>1, Times
  <1>3. (t - (-e)) * Interval = t * Interval - (-e) * Interval
    BY <1>1, Distributes
  <1>4. (0 - e) * Interval = 0 * Interval - e * Interval
    BY <1>1, Distributes
  <1>5. (t + e) * Interval = t * Interval + e * Interval
    BY <1>1, <1>2, <1>3, <1>4, Times
  <1>6. Whole(t + e, s + e * Interval) = s + e * Interval + Burst * Interval - (t + e) * Interval
    BY <1>2, WholeIsInt
  <1>7. Whole(t, s) = s + Burst * Interval - t * Interval
    BY WholeIsInt
  <1>8. Burst * Interval \in Int /\ t * Interval \in Int
    BY WholeIsInt
  <1> QED
    BY <1>2, <1>5, <1>6, <1>7, <1>8

(* A bucket is full within Burst intervals of the last token it was given, *)
(* which is before the sweep may drop it.                                  *)
LEMMA FullInTime ==
  ASSUME LimiterAssumption, NEW t \in 0..Burst, NEW s \in Int
  PROVE  Whole(t, s) <= s + idleBucketTTL
  <1>1. Interval \in Nat /\ t \in Int /\ Burst \in Int
    BY DEF LimiterAssumption
  <1>2. 0 * Interval <= t * Interval
    BY <1>1, Grows
  <1>3. Whole(t, s) = s + Burst * Interval - t * Interval
    BY WholeIsInt
  <1>4. Burst * Interval \in Int /\ t * Interval \in Int
    BY WholeIsInt
  <1>5. Interval * Burst = Burst * Interval
    BY <1>1, Z3
  <1> QED
    BY <1>1, <1>2, <1>3, <1>4, <1>5 DEF LimiterAssumption

-----------------------------------------------------------------------------
LEMMA Bucket ==
  ASSUME LimiterAssumption, LInv, NEW k \in DOMAIN buckets
  PROVE  /\ buckets[k].tokens \in 0..Burst
         /\ buckets[k].seen \in 0..now
         /\ FullAt(k) = Whole(buckets[k].tokens, buckets[k].seen)
         /\ FullAt(k) \in Int
  <1>1. buckets[k] \in [tokens : 0..Burst, seen : 0..now]
    BY DEF LInv
  <1>2. buckets[k].tokens \in 0..Burst /\ buckets[k].seen \in 0..now
    BY <1>1
  <1>3. FullAt(k) = Whole(buckets[k].tokens, buckets[k].seen)
    BY DEF FullAt, Whole
  <1>4. buckets[k].seen \in Int
    BY <1>2 DEF LInv
  <1> QED
    BY <1>2, <1>3, <1>4, WholeIsInt

(* A caller the sweep forgets, and one it never knew, has its whole        *)
(* allowance.                                                              *)
LEMMA Forgotten ==
  ASSUME LimiterAssumption, LInv, NEW k \in Keys, k \notin sweep
  PROVE  Due[k] = 0
  <1>1. CASE k \notin DOMAIN buckets
    BY <1>1 DEF Due
  <1>2. CASE k \in DOMAIN buckets
    <2>1. now - buckets[k].seen > idleBucketTTL
      <3>1. buckets[k].seen \in Int /\ now \in Int /\ idleBucketTTL \in Int
        BY <1>2, Bucket DEF LInv, LimiterAssumption
      <3> QED
        BY <1>2, <3>1 DEF sweep, Recent
    <2>2. buckets[k].tokens \in 0..Burst /\ buckets[k].seen \in Int
      BY <1>2, Bucket DEF LInv
    <2>3. FullAt(k) <= buckets[k].seen + idleBucketTTL
      BY <1>2, <2>2, Bucket, FullInTime
    <2>4. ~(FullAt(k) > now)
      BY <1>2, <2>1, <2>2, <2>3, Bucket DEF LInv, LimiterAssumption
    <2> QED
      BY <2>4 DEF Due
  <1> QED
    BY <1>1, <1>2

(* Refilling a bucket changes nothing a caller is owed: it is full, or it   *)
(* will be full when it would have been.                                    *)
LEMMA RefillKeeps ==
  ASSUME LimiterAssumption, LInv, NEW k \in Keys, NEW r, r = Refilled(Found(k))
  PROVE  /\ r = [tokens |-> r.tokens, seen |-> r.seen]
         /\ r.tokens \in 0..Burst /\ r.seen \in 0..now
         /\ now < r.seen + Interval
         /\ r.tokens < Burst => /\ Due[k] = Whole(r.tokens, r.seen)
                                /\ Due[k] > now
         /\ r.tokens = Burst => Due[k] = 0
  <1> DEFINE f == Found(k)
             e == Earned(f)
  <1>1. /\ f.tokens \in 0..Burst /\ f.seen \in 0..now
        /\ Due[k] = IF Whole(f.tokens, f.seen) > now THEN Whole(f.tokens, f.seen) ELSE 0
    <2>1. CASE k \in sweep
      <3>1. k \in DOMAIN buckets /\ f = buckets[k]
        BY <2>1 DEF sweep, Found
      <3> QED
        BY <3>1, Bucket DEF Due
    <2>2. CASE k \notin sweep
      <3>1. f.tokens = Burst /\ f.seen = now
        BY <2>2 DEF Found
      <3>2. Whole(Burst, now) = now
        <4>1. Burst \in 0..Burst /\ now \in Int /\ Burst * Interval \in Int
          BY WholeIsInt DEF LimiterAssumption, LInv
        <4> QED
          BY <4>1, WholeIsInt
      <3>3. Due[k] = 0
        BY <2>2, Forgotten
      <3> QED
        BY <3>1, <3>2, <3>3 DEF LimiterAssumption, LInv
    <2> QED
      BY <2>1, <2>2
  <1>2. /\ e \in Nat /\ e * Interval \in Nat
        /\ e * Interval <= now - f.seen /\ now - f.seen < e * Interval + Interval
    <2>1. now - f.seen \in Nat
      BY <1>1 DEF LInv
    <2>2. Interval \in Nat \ {0}
      BY DEF LimiterAssumption
    <2>3. /\ e \in Nat
          /\ e * Interval <= now - f.seen /\ now - f.seen < e * Interval + Interval
      BY <2>1, <2>2, Division DEF Earned
    <2>4. e * Interval \in Nat
      BY <2>2, <2>3, Z3
    <2> QED
      BY <2>3, <2>4
  <1>3. /\ r.tokens = IF f.tokens + e < Burst THEN f.tokens + e ELSE Burst
        /\ r.seen = f.seen + e * Interval
        /\ r = [tokens |-> r.tokens, seen |-> r.seen]
    BY DEF Refilled, Credited
  <1> HIDE DEF f, e
  <1>4. r.tokens \in 0..Burst /\ r.seen \in 0..now /\ now < r.seen + Interval
    BY <1>1, <1>2, <1>3 DEF LimiterAssumption, LInv
  <1>5. ASSUME r.tokens < Burst
        PROVE  Due[k] = Whole(r.tokens, r.seen) /\ Due[k] > now
    <2>1. f.tokens + e < Burst /\ r.tokens = f.tokens + e
      BY <1>1, <1>2, <1>3, <1>5 DEF LimiterAssumption
    <2>2. f.seen \in Int /\ r.seen \in Int /\ f.tokens + e \in 0..Burst
      BY <1>1, <1>2, <1>4, <2>1 DEF LInv, LimiterAssumption
    <2>3. Whole(r.tokens, r.seen) = Whole(f.tokens, f.seen)
      BY <1>1, <1>2, <1>3, <2>1, <2>2, Refilling
    <2>4. r.seen + Interval <= Whole(r.tokens, r.seen)
      <3>1. 1 <= Burst - r.tokens /\ Burst - r.tokens \in Int /\ Interval \in Nat
        BY <1>4, <1>5 DEF LimiterAssumption
      <3>2. 1 * Interval <= (Burst - r.tokens) * Interval
        BY <3>1, Grows
      <3>3. (Burst - r.tokens) * Interval \in Int
        BY <3>1, Times
      <3> QED
        BY <2>2, <3>1, <3>2, <3>3 DEF Whole
    <2>5. Whole(r.tokens, r.seen) \in Int
      BY <1>4, <2>2, WholeIsInt
    <2> QED
      BY <1>1, <1>4, <2>2, <2>3, <2>4, <2>5 DEF LimiterAssumption, LInv
  <1>6. ASSUME r.tokens = Burst
        PROVE  Due[k] = 0
    <2>1. Burst - f.tokens <= e /\ Burst - f.tokens \in Int /\ Interval \in Nat
      BY <1>1, <1>2, <1>3, <1>6 DEF LimiterAssumption
    <2>2. (Burst - f.tokens) * Interval <= e * Interval
      BY <1>2, <2>1, Grows
    <2>3. (Burst - f.tokens) * Interval \in Int
      BY <2>1, Times
    <2>4. ~(Whole(f.tokens, f.seen) > now)
      BY <1>1, <1>2, <2>2, <2>3 DEF Whole, LInv
    <2> QED
      BY <1>1, <2>4
  <1> QED
    BY <1>3, <1>4, <1>5, <1>6

-----------------------------------------------------------------------------
LEMMA LimiterInvariant == LimiterSpec => []LInv
  <1>1. LimiterInit => LInv
    <2> SUFFICES ASSUME LimiterInit PROVE LInv
      OBVIOUS
    <2>1. DOMAIN buckets = {}
      BY DEF LimiterInit
    <2> QED
      BY <2>1 DEF LimiterInit, LInv
  <1>2. LInv /\ [LimiterNext]_limiterVars => LInv'
    <2> SUFFICES ASSUME LInv, [LimiterNext]_limiterVars PROVE LInv'
      OBVIOUS
    <2>1. ASSUME NEW k \in Keys, allow(k) PROVE LInv'
      <3> DEFINE r == Refilled(Found(k))
                 cells == [tokens : 0..Burst, seen : 0..now]
      <3>1. /\ r = [tokens |-> r.tokens, seen |-> r.seen]
            /\ r.tokens \in 0..Burst /\ r.seen \in 0..now
        BY LimiterAssumption, RefillKeeps
      <3>2. /\ buckets' = [c \in sweep \union {k} |->
                 IF c # k THEN buckets[c]
                 ELSE IF r.tokens > 0 THEN [tokens |-> r.tokens - 1, seen |-> r.seen] ELSE r]
            /\ now' = now /\ swept' = IF Sweeping THEN now ELSE swept
        BY <2>1 DEF allow
      <3> HIDE DEF r
      <3>3. sweep \subseteq DOMAIN buckets
        BY DEF sweep
      <3>4. r \in cells
        BY <3>1
      <3>5. ASSUME r.tokens > 0 PROVE [tokens |-> r.tokens - 1, seen |-> r.seen] \in cells
        <4>1. r.tokens - 1 \in 0..Burst
          BY <3>1, <3>5, LimiterAssumption DEF LimiterAssumption
        <4> QED
          BY <3>1, <4>1
      <3>6. \A c \in sweep : buckets[c] \in cells
        BY <3>3 DEF LInv
      <3>7. buckets' \in [sweep \union {k} -> cells]
        BY <3>2, <3>4, <3>5, <3>6
      <3>8. DOMAIN buckets' = sweep \union {k}
        BY <3>2
      <3> QED
        BY <3>2, <3>3, <3>7, <3>8 DEF LInv
    <2>2. CASE Time
      <3> DEFINE cells(n) == [tokens : 0..Burst, seen : 0..n]
      <3>1. now \in Nat /\ now' = now + 1 /\ buckets' = buckets /\ swept' = swept
        BY <2>2 DEF Time, LInv
      <3>2. 0..now \subseteq 0..now'
        BY <3>1
      <3>3. buckets \in [DOMAIN buckets -> cells(now)]
        BY DEF LInv
      <3>4. cells(now) \subseteq cells(now')
        BY <3>2
      <3>5. buckets' \in [DOMAIN buckets' -> cells(now')]
        BY <3>1, <3>3, <3>4
      <3> QED
        BY <3>1, <3>5 DEF LInv
    <2>3. CASE UNCHANGED limiterVars
      BY <2>3 DEF limiterVars, LInv
    <2> QED
      BY <2>1, <2>2, <2>3 DEF LimiterNext
  <1> QED
    BY <1>1, <1>2, PTL DEF LimiterSpec

-----------------------------------------------------------------------------
(* A request answered: allowed, it puts off the time k's allowance is      *)
(* whole; refused, it changes nothing.                                     *)
LEMMA AnswerIsGrantOrRefuse ==
  ASSUME LInv, NEW k \in Keys, allow(k)
  PROVE  Promise!Grant(k) \/ Promise!Refuse(k)
  <1> DEFINE r == Refilled(Found(k))
             kept == IF r.tokens > 0 THEN [tokens |-> r.tokens - 1, seen |-> r.seen] ELSE r
  <1> USE LimiterAssumption
  <1>1. /\ r = [tokens |-> r.tokens, seen |-> r.seen]
        /\ r.tokens \in 0..Burst /\ r.seen \in 0..now
        /\ now < r.seen + Interval
        /\ r.tokens < Burst => Due[k] = Whole(r.tokens, r.seen) /\ Due[k] > now
        /\ r.tokens = Burst => Due[k] = 0
    BY RefillKeeps
  <1>2. /\ answer' = <<k, r.tokens > 0>>
        /\ buckets' = [c \in sweep \union {k} |-> IF c # k THEN buckets[c] ELSE kept]
        /\ now' = now
    BY DEF allow
  <1> HIDE DEF r
  <1>3. /\ kept.seen = r.seen
        /\ kept.tokens = IF r.tokens > 0 THEN r.tokens - 1 ELSE r.tokens
    OBVIOUS
  <1> HIDE DEF kept
  <1>4. /\ Interval \in Nat \ {0} /\ Burst \in Nat \ {0} /\ now \in Nat
        /\ r.tokens \in Int /\ r.seen \in Int
    BY <1>1 DEF LimiterAssumption, LInv
  <1>5. \A c \in Keys \ {k} : Due'[c] = Due[c]
    <2> TAKE c \in Keys \ {k}
    <2>1. CASE c \in sweep
      <3>1. c \in DOMAIN buckets /\ c \in DOMAIN buckets' /\ buckets'[c] = buckets[c]
        BY <1>2, <2>1 DEF sweep
      <3> QED
        BY <1>2, <3>1 DEF Due, FullAt
    <2>2. CASE c \notin sweep
      <3>1. c \notin DOMAIN buckets'
        BY <1>2, <2>2
      <3> QED
        BY <2>2, <3>1, Forgotten DEF Due
    <2> QED
      BY <2>1, <2>2
  <1>6. Due'[k] = IF Whole(kept.tokens, r.seen) > now THEN Whole(kept.tokens, r.seen) ELSE 0
    <2>1. k \in DOMAIN buckets' /\ buckets'[k] = kept
      BY <1>2
    <2> QED
      BY <1>2, <1>3, <2>1 DEF Due, FullAt, Whole
  <1>7. Promise!InTime(k) <=> Due[k] <= now + (Burst - 1) * Interval
    BY DEF Promise!InTime
  <1>8. (Burst - 1) * Interval = Burst * Interval - Interval /\ Burst * Interval \in Int
    BY <1>4, Distributes, Times
  <1>9. ASSUME r.tokens > 0 PROVE Promise!Grant(k)
    <2>1. kept.tokens = r.tokens - 1 /\ r.tokens \in 1..Burst
      BY <1>1, <1>3, <1>4, <1>9
    <2>2. Whole(kept.tokens, r.seen) = Whole(r.tokens, r.seen) + Interval
      BY <1>4, <2>1, TakingOne
    <2>3. CASE r.tokens < Burst
      <3>1. Due[k] = Whole(r.tokens, r.seen) /\ Due[k] > now
        BY <1>1, <2>3
      <3>2. Whole(r.tokens, r.seen) \in Int
        BY <1>1, <1>4, WholeIsInt
      <3>3. Due'[k] = Due[k] + Interval
        BY <1>4, <1>6, <2>2, <3>1, <3>2
      <3>4. Due[k] <= now + (Burst - 1) * Interval
        <4>1. 1 * Interval <= r.tokens * Interval
          BY <1>4, <2>1, Grows
        <4>2. Whole(r.tokens, r.seen) = r.seen + Burst * Interval - r.tokens * Interval
          BY <1>1, <1>4, WholeIsInt
        <4>3. r.tokens * Interval \in Int /\ r.seen <= now
          BY <1>1, <1>4, Times
        <4> QED
          BY <1>4, <1>8, <3>1, <4>1, <4>2, <4>3
      <3>5. PICK later \in (now + 1)..(now + Interval) : TRUE
        BY <1>4
      <3>6. Due' = [Due EXCEPT ![k] = IF Due[k] > now THEN Due[k] + Interval ELSE later]
        BY <1>5, <3>1, <3>3 DEF Due
      <3> QED
        BY <1>2, <1>7, <1>9, <3>4, <3>5, <3>6 DEF Promise!Grant
    <2>4. CASE r.tokens = Burst
      <3>1. Due[k] = 0
        BY <1>1, <2>4
      <3>2. Whole(Burst, r.seen) = r.seen
        <4>1. Burst \in 0..Burst
          BY <1>4
        <4> QED
          BY <1>4, <1>8, <4>1, WholeIsInt
      <3>3. Due'[k] = r.seen + Interval
        BY <1>1, <1>4, <1>6, <2>2, <2>4, <3>2
      <3>4. r.seen + Interval \in (now + 1)..(now + Interval)
        BY <1>1, <1>4
      <3>5. 0 <= (Burst - 1) * Interval /\ (Burst - 1) * Interval \in Int
        <4>1. 0 <= Burst - 1 /\ 0 \in Int /\ Burst - 1 \in Int
          BY <1>4
        <4>2. 0 * Interval <= (Burst - 1) * Interval
          BY <1>4, <4>1, Grows
        <4> QED
          BY <1>4, <4>1, <4>2, Times
      <3>6. Due[k] <= now + (Burst - 1) * Interval
        BY <1>4, <3>1, <3>5
      <3>7. Due' = [Due EXCEPT ![k] = IF Due[k] > now THEN Due[k] + Interval ELSE r.seen + Interval]
        <4>1. ~(Due[k] > now)
          BY <1>4, <3>1
        <4>2. Due = [c \in Keys |-> Due[c]] /\ Due' = [c \in Keys |-> Due'[c]]
          BY DEF Due
        <4> QED
          BY <1>5, <3>3, <4>1, <4>2
      <3> QED
        BY <1>2, <1>7, <1>9, <3>4, <3>6, <3>7 DEF Promise!Grant
    <2> QED
      BY <1>1, <1>4, <2>3, <2>4
  <1>10. ASSUME ~(r.tokens > 0) PROVE Promise!Refuse(k)
    <2>1. r.tokens = 0 /\ kept.tokens = 0
      BY <1>1, <1>3, <1>4, <1>10
    <2>2. Due[k] = Whole(0, r.seen) /\ Due[k] > now
      BY <1>1, <1>4, <2>1
    <2>3. 0 * Interval = 0 /\ Whole(0, r.seen) = r.seen + Burst * Interval - 0 * Interval
      BY <1>4, WholeIsInt
    <2>4. ~(Due[k] <= now + (Burst - 1) * Interval)
      BY <1>1, <1>4, <1>8, <2>2, <2>3
    <2>5. Due' = Due
      BY <1>5, <1>6, <2>1, <2>2 DEF Due
    <2> QED
      <3>1. answer' = <<k, FALSE>>
        <4>1. (r.tokens > 0) = FALSE
          BY <1>10
        <4> QED
          BY <1>2, <4>1, Zenon
      <3>2. ~Promise!InTime(k)
        BY <1>7, <2>4
      <3> QED
        BY <1>2, <2>5, <3>1, <3>2 DEF Promise!Refuse
  <1> QED
    BY <1>9, <1>10

(* A tick of the clock only makes allowances whole.                        *)
LEMMA TimeElapses ==
  ASSUME LInv, Time
  PROVE  Promise!Elapse
  <1>1. now' = now + 1 /\ buckets' = buckets /\ answer' = answer /\ now \in Nat
    BY DEF Time, LInv
  <1>2. \A k \in Keys : Due'[k] = IF Due[k] > now + 1 THEN Due[k] ELSE 0
    <2> TAKE k \in Keys
    <2>1. CASE k \in DOMAIN buckets
      <3>1. FullAt(k) \in Int /\ FullAt(k)' = FullAt(k)
        BY <1>1, <2>1, LimiterAssumption, Bucket DEF FullAt
      <3> QED
        BY <1>1, <2>1, <3>1 DEF Due
    <2>2. CASE k \notin DOMAIN buckets
      BY <1>1, <2>2 DEF Due
    <2> QED
      BY <2>1, <2>2
  <1>3. Due' = [k \in Keys |-> Due'[k]]
    BY DEF Due
  <1> QED
    BY <1>1, <1>2, <1>3 DEF Promise!Elapse

(* ratelimit.go: whatever the map forgets and however lazily it refills,   *)
(* each caller gets one request per interval with a burst to spare, no     *)
(* more and no less: the limiter implements Meter.                         *)
THEOREM LimiterImplementsMeter == LimiterSpec => MeterSpec
  <1>1. LimiterInit => Promise!MeterInit
    <2> SUFFICES ASSUME LimiterInit PROVE Promise!MeterInit
      OBVIOUS
    <2>1. DOMAIN buckets = {}
      BY DEF LimiterInit
    <2>2. Due = [k \in Keys |-> 0]
      BY <2>1 DEF Due
    <2> QED
      BY <2>2 DEF LimiterInit, Promise!MeterInit
  <1>2. LInv /\ [LimiterNext]_limiterVars => [Promise!MeterNext]_Promise!meterVars
    <2> SUFFICES ASSUME LInv, [LimiterNext]_limiterVars
                 PROVE  [Promise!MeterNext]_Promise!meterVars
      OBVIOUS
    <2>1. ASSUME NEW k \in Keys, allow(k) PROVE Promise!MeterNext
      BY <2>1, AnswerIsGrantOrRefuse DEF Promise!MeterNext
    <2>2. CASE Time
      BY <2>2, TimeElapses DEF Promise!MeterNext
    <2>3. CASE UNCHANGED limiterVars
      BY <2>3 DEF limiterVars, Promise!meterVars, Due, FullAt
    <2> QED
      BY <2>1, <2>2, <2>3 DEF LimiterNext
  <1> QED
    BY <1>1, <1>2, LimiterInvariant, PTL DEF LimiterSpec, MeterSpec, Promise!MeterSpec

-----------------------------------------------------------------------------
(* Invitations.  A ceremony holds its invitation from the claim until the  *)
(* answer is refused: a challenge that is stored, an answer that is good,  *)
(* a passkey that came of it.                                              *)
Holds(c) ==
  \/ ceremonies[c].phase = "enrolled"
  \/ ceremonies[c].phase \in {"stored", "answered"} /\ ceremonies[c].purpose = "register"

Columns == {"minted", "used", "expired", "user"}

InviteTypeOK ==
  /\ DOMAIN ceremonies = Ceremonies
  /\ DOMAIN invited = Invitations
  /\ \A i \in Invitations : DOMAIN invited[i] = Columns
  /\ \A c \in Ceremonies : Holds(c) => ceremonies[c].invite \in Invitations

(* An invitation somebody holds is marked used, so that nobody else can    *)
(* claim it ...                                                            *)
HeldIsUsed == \A c \in Ceremonies : Holds(c) => invited[ceremonies[c].invite].used

(* ... and a refused answer releases what nobody else holds.               *)
OneHolder ==
  \A c, d \in Ceremonies :
    Holds(c) /\ Holds(d) /\ ceremonies[c].invite = ceremonies[d].invite => c = d

InviteInv == InviteTypeOK /\ HeldIsUsed /\ OneHolder

(* A ceremony that starts to hold an invitation nobody had used, or that   *)
(* goes on holding the one it held, or that ends.                          *)
LEMMA OneCeremonyMoves ==
  ASSUME InviteInv, NEW c \in Ceremonies, NEW record, Becomes(c, record),
         UNCHANGED invited,
         \/ record.phase = "done"
         \/ record.phase \in {"stored", "answered"} /\ record.purpose = "login"
         \/ /\ record.phase \in {"answered", "enrolled"} /\ Holds(c)
            /\ record.invite = ceremonies[c].invite
  PROVE  InviteInv'
<1>1. DOMAIN ceremonies' = Ceremonies /\ ceremonies'[c] = record
      /\ \A d \in Ceremonies : d # c => ceremonies'[d] = ceremonies[d]
  BY DEF InviteInv, InviteTypeOK, Becomes
<1>2. \A d \in Ceremonies : Holds(d)' => Holds(d) /\ ceremonies'[d].invite = ceremonies[d].invite
  BY <1>1 DEF Holds
<1>3. QED BY <1>1, <1>2 DEF InviteInv, InviteTypeOK, HeldIsUsed, OneHolder

(* Nothing is stored and nothing minted at first.                          *)
LEMMA InviteInitially == SignInInit => InviteInv
BY DEF SignInInit, InviteInv, InviteTypeOK, HeldIsUsed, OneHolder, Holds, Unborn, NotMinted, Columns

(* A claim: the invitation was not used, so nobody held it.                *)
LEMMA ClaimKeeps ==
  ASSUME InviteInv, NEW c \in Ceremonies, NEW i \in Invitations, BeginEnrollment(c, i)
  PROVE  InviteInv'
<1>1. /\ ~invited[i].used
      /\ invited' = [invited EXCEPT ![i].used = TRUE]
  BY DEF BeginEnrollment, ClaimEnrollment
<1>2. /\ DOMAIN invited' = Invitations
      /\ \A j \in Invitations : DOMAIN invited'[j] = Columns
      /\ invited'[i].used
      /\ \A j \in Invitations : j # i => invited'[j] = invited[j]
  BY <1>1 DEF InviteInv, InviteTypeOK, Columns
<1>3. \A d \in Ceremonies : Holds(d) => ceremonies[d].invite # i
  BY <1>1 DEF InviteInv, HeldIsUsed
<1>4. CASE UNCHANGED ceremonies
  BY <1>2, <1>3, <1>4 DEF InviteInv, InviteTypeOK, HeldIsUsed, OneHolder, Holds
<1>5. CASE CreateCeremony(c, [phase |-> "stored", purpose |-> "register", invite |-> i])
  <2>1. /\ DOMAIN ceremonies' = Ceremonies
        /\ ceremonies'[c] = [phase |-> "stored", purpose |-> "register", invite |-> i]
        /\ \A d \in Ceremonies : d # c => ceremonies'[d] = ceremonies[d]
    BY <1>5 DEF CreateCeremony, InviteInv, InviteTypeOK
  <2>2. Holds(c)' /\ ceremonies'[c].invite = i
    BY <2>1 DEF Holds
  <2>3. \A d \in Ceremonies : d # c => (Holds(d)' <=> Holds(d))
    BY <2>1 DEF Holds
  <2>4. QED
    BY <1>2, <1>3, <2>1, <2>2, <2>3 DEF InviteInv, InviteTypeOK, HeldIsUsed, OneHolder
<1>6. QED BY <1>4, <1>5 DEF BeginEnrollment

(* A release: the ceremony that held the invitation is over.               *)
LEMMA ReleaseKeeps ==
  ASSUME InviteInv, NEW c \in Ceremonies, RefuseEnrollment(c)
  PROVE  InviteInv'
<1> DEFINE i == ceremonies[c].invite
<1>1. /\ Holds(c)
      /\ ceremonies' = [ceremonies EXCEPT ![c] = [phase |-> "done"]]
      /\ invited' = [invited EXCEPT ![i].used = FALSE]
  BY DEF RefuseEnrollment, ConsumeCeremony, ReleaseEnrollment, Becomes, Holds
<1>2. i \in Invitations
  BY <1>1 DEF InviteInv, InviteTypeOK
<1>3. /\ DOMAIN invited' = Invitations
      /\ \A j \in Invitations : DOMAIN invited'[j] = Columns
      /\ \A j \in Invitations : j # i => invited'[j] = invited[j]
  BY <1>1, <1>2 DEF InviteInv, InviteTypeOK, Columns
<1>4. /\ DOMAIN ceremonies' = Ceremonies /\ ceremonies'[c] = [phase |-> "done"]
      /\ \A d \in Ceremonies : d # c => ceremonies'[d] = ceremonies[d]
  BY <1>1 DEF InviteInv, InviteTypeOK
<1>5. ~Holds(c)' /\ \A d \in Ceremonies : d # c => (Holds(d)' <=> Holds(d))
  BY <1>4 DEF Holds
<1>6. \A d \in Ceremonies : d # c /\ Holds(d) => ceremonies[d].invite # i
  BY <1>1 DEF InviteInv, OneHolder
<1>7. QED
  BY <1>3, <1>4, <1>5, <1>6 DEF InviteInv, InviteTypeOK, HeldIsUsed, OneHolder

(* Minting and expiring leave `used' alone.                                *)
LEMMA OtherColumns ==
  ASSUME InviteInv, NEW i \in Invitations, UNCHANGED ceremonies,
         \/ \E u : CreateEnrollment(i, u)
         \/ invited' = [invited EXCEPT ![i].expired = TRUE]
  PROVE  InviteInv'
<1>1. /\ DOMAIN invited' = Invitations
      /\ \A j \in Invitations : DOMAIN invited'[j] = Columns /\ invited'[j].used = invited[j].used
  BY DEF CreateEnrollment, InviteInv, InviteTypeOK, Columns
<1>2. \A d \in Ceremonies : Holds(d)' <=> Holds(d)
  BY DEF Holds
<1>3. QED BY <1>1, <1>2 DEF InviteInv, InviteTypeOK, HeldIsUsed, OneHolder

(* Every step keeps the invariant.                                         *)
LEMMA InviteStep == InviteInv /\ [SignInNext]_signInVars => InviteInv'
<1> SUFFICES ASSUME InviteInv, [SignInNext]_signInVars PROVE InviteInv'
  OBVIOUS
<1>0. ASSUME UNCHANGED <<invited, ceremonies>> PROVE InviteInv'
  BY <1>0 DEF InviteInv, InviteTypeOK, HeldIsUsed, OneHolder, Holds
<1>1. CASE Enroll
  <2>1. ASSUME NEW i \in Invitations, MintEnrollment(i) PROVE InviteInv'
    BY <2>1, OtherColumns DEF MintEnrollment
  <2>2. ASSUME NEW i \in Invitations, InvitationExpires(i) PROVE InviteInv'
    BY <2>2, OtherColumns DEF InvitationExpires
  <2>3. ASSUME NEW c \in Ceremonies, NEW i \in Invitations, BeginEnrollment(c, i) PROVE InviteInv'
    BY <2>3, ClaimKeeps
  <2>4. ASSUME NEW c \in Ceremonies, AnswerEnrollment(c) PROVE InviteInv'
    BY <2>4, OneCeremonyMoves DEF AnswerEnrollment, ConsumeCeremony, Holds
  <2>5. ASSUME NEW c \in Ceremonies, RefuseEnrollment(c) PROVE InviteInv'
    BY <2>5, ReleaseKeeps
  <2>6. ASSUME NEW c \in Ceremonies, FinishEnrollment(c) PROVE InviteInv'
    BY <2>6, OneCeremonyMoves DEF FinishEnrollment, Holds
  <2>7. QED
    BY <1>1, <2>1, <2>2, <2>3, <2>4, <2>5, <2>6 DEF Enroll, enroll, adminInvite
<1>2. CASE Login
  <2>1. ASSUME NEW c \in Ceremonies, BeginLogin(c) PROVE InviteInv'
    BY <2>1, OneCeremonyMoves DEF BeginLogin, CreateCeremony, Becomes
  <2>2. ASSUME NEW c \in Ceremonies, FinishLogin(c) PROVE InviteInv'
    BY <2>2, OneCeremonyMoves DEF FinishLogin
  <2>3. ASSUME NEW c \in Ceremonies, LoseCeremony(c) PROVE InviteInv'
    BY <2>3, OneCeremonyMoves DEF LoseCeremony, SweepExpiredAuth
  <2>4. ASSUME NEW c \in Ceremonies, NEW key \in passkeys, AnswerLogin(c, key) PROVE InviteInv'
    BY <2>4, OneCeremonyMoves DEF AnswerLogin, ConsumeCeremony
  <2>5. QED BY <1>2, <2>1, <2>2, <2>3, <2>4 DEF Login
<1>3. CASE Account
  BY <1>0, <1>3 DEF Account, adminLogout, SignOut, adminRevokeAllSessions, SignOutEverywhere,
     adminRevokePasskey, RevokePasskey, RevokeSessionsForPasskey, DeletePasskey, AbandonRevoke
<1>4. CASE UNCHANGED signInVars
  BY <1>0, <1>4 DEF signInVars
<1>5. QED BY <1>1, <1>2, <1>3, <1>4 DEF SignInNext

(* user_enrollments: an invitation makes one passkey, however claims,      *)
(* releases, second tries and deaths interleave, for any number of them.   *)
THEOREM OnePasskeyEach == SignInSpec => []SingleUse
<1>1. InviteInv => SingleUse
  BY DEF InviteInv, OneHolder, SingleUse, Holds
<1>2. QED BY <1>1, InviteInitially, InviteStep, PTL DEF SignInSpec

-----------------------------------------------------------------------------
(* The last passkey.  A revocation is open from its count to its commit.   *)
IsOpen(r) == revoking[r] # Idle

RevokeTypeOK ==
  /\ DOMAIN revoking = Revocations
  /\ \A r \in Revocations :
       IsOpen(r) => /\ revoking[r].phase \in {"counted", "revoked"}
                    /\ DOMAIN revoking[r] = {"phase", "user", "key", "out"}

(* Two revocations are open at once only for an account in `overlapped',   *)
OneAtATime ==
  \A r, s \in Revocations :
    IsOpen(r) /\ IsOpen(s) /\ revoking[r].user = revoking[s].user /\ r # s
      => revoking[r].user \in overlapped

(* so that the passkeys one of them counted are still there.               *)
TwoLeft ==
  \A r \in Revocations :
    IsOpen(r) /\ revoking[r].user \notin overlapped
      => \E k, l \in ListPasskeys(revoking[r].user) : k # l

CountInv ==
  /\ IsFiniteSet(passkeys)
  /\ RevokeTypeOK /\ OneAtATime /\ TwoLeft /\ WayIn

(* More than one is two.                                                   *)
LEMMA MoreThanOne ==
  ASSUME NEW S, IsFiniteSet(S), Cardinality(S) > 1
  PROVE  \E k, l \in S : k # l
<1>1. S # {}
  BY FS_EmptySet
<1>2. PICK k \in S : TRUE
  BY <1>1
<1>3. S # {k}
  BY FS_Singleton
<1>4. QED BY <1>2, <1>3

LEMMA CountInitially == SignInInit => CountInv
BY FS_EmptySet
   DEF SignInInit, CountInv, RevokeTypeOK, OneAtATime, TwoLeft, WayIn, IsOpen, Idle

(* The two columns a revocation writes when it has found its sessions.     *)
LEMMA SearchWrites ==
  ASSUME RevokeTypeOK, NEW r \in Revocations, RevokeSessionsForPasskey(r)
  PROVE  /\ RevokeTypeOK'
         /\ \A s \in Revocations : IsOpen(s)' <=> IsOpen(s)
         /\ \A s \in Revocations : s # r => revoking'[s] = revoking[s]
         /\ IsOpen(r) /\ revoking'[r].phase = "revoked"
         /\ revoking'[r].user = revoking[r].user /\ revoking'[r].key = revoking[r].key
         /\ revoking'[r].out = {x.id : x \in {y \in ListLiveSessions(revoking[r].user) :
                                               y.key = revoking[r].key}}
<1> DEFINE found == {x.id : x \in {y \in ListLiveSessions(revoking[r].user) :
                                     y.key = revoking[r].key}}
<1>1. /\ revoking[r].phase = "counted"
      /\ revoking' = [revoking EXCEPT ![r].phase = "revoked", ![r].out = found]
  BY DEF RevokeSessionsForPasskey
<1> HIDE DEF found
<1>2. IsOpen(r) /\ DOMAIN revoking[r] = {"phase", "user", "key", "out"}
  BY <1>1 DEF IsOpen, Idle, RevokeTypeOK
<1>3. /\ DOMAIN revoking' = Revocations
      /\ \A s \in Revocations : s # r => revoking'[s] = revoking[s]
      /\ DOMAIN revoking'[r] = {"phase", "user", "key", "out"}
      /\ revoking'[r].phase = "revoked" /\ revoking'[r].out = found
      /\ revoking'[r].user = revoking[r].user /\ revoking'[r].key = revoking[r].key
  BY <1>1, <1>2 DEF RevokeTypeOK
<1>4. revoking'[r] # Idle
  BY <1>3 DEF Idle
<1>5. QED BY <1>2, <1>3, <1>4 DEF RevokeTypeOK, IsOpen, found

(* Every step keeps the count.                                             *)
LEMMA CountStep == CountInv /\ [SignInNext]_signInVars => CountInv'
<1> SUFFICES ASSUME CountInv, [SignInNext]_signInVars PROVE CountInv'
  OBVIOUS
<1> USE DEF CountInv
<1>0. ASSUME UNCHANGED <<users, passkeys, revoking, overlapped>> PROVE CountInv'
  BY <1>0 DEF RevokeTypeOK, OneAtATime, TwoLeft, WayIn, IsOpen, ListPasskeys, Passkeys
<1>1. ASSUME NEW c \in Ceremonies, FinishEnrollment(c) PROVE CountInv'
  <2>1. PICK u : /\ users' = users \union {u}
                 /\ passkeys' = passkeys \union {[id |-> c, user |-> u]}
                 /\ UNCHANGED <<revoking, overlapped>>
    BY <1>1 DEF FinishEnrollment, CreateUser, CreatePasskey
  <2>2. IsFiniteSet(passkeys')
    BY <2>1, FS_AddElement
  <2>3. \A w : ListPasskeys(w) \subseteq ListPasskeys(w)'
    BY <2>1 DEF ListPasskeys
  <2>4. [id |-> c, user |-> u] \in ListPasskeys(u)'
    BY <2>1 DEF ListPasskeys
  <2>5. WayIn'
    BY <2>1, <2>3, <2>4 DEF WayIn, Passkeys
  <2>6. QED BY <2>1, <2>2, <2>3, <2>5 DEF RevokeTypeOK, OneAtATime, TwoLeft, IsOpen
<1>2. ASSUME NEW r \in Revocations, NEW u, NEW id, RevokePasskey(r, u, id) PROVE CountInv'
  <2>1. /\ revoking[r] = Idle /\ Cardinality(ListPasskeys(u)) > 1
        /\ revoking' = [revoking EXCEPT ![r] =
                           [phase |-> "counted", user |-> u, key |-> id, out |-> {}]]
        /\ UNCHANGED <<users, passkeys>>
        /\ overlapped \subseteq overlapped'
        /\ OpenFor(u) # {} => u \in overlapped'
    BY <1>2 DEF RevokePasskey, Removable, CountPasskeys
  <2>2. /\ DOMAIN revoking' = Revocations
        /\ revoking'[r] = [phase |-> "counted", user |-> u, key |-> id, out |-> {}]
        /\ \A s \in Revocations : s # r => revoking'[s] = revoking[s]
    BY <2>1 DEF RevokeTypeOK
  <2>3. IsOpen(r)' /\ RevokeTypeOK'
    BY <2>2 DEF IsOpen, Idle, RevokeTypeOK
  <2>4. \A s \in Revocations : s # r => (IsOpen(s)' <=> IsOpen(s))
    BY <2>2 DEF IsOpen
  <2>5. \A s \in Revocations : IsOpen(s) /\ revoking[s].user = u => u \in overlapped'
    BY <2>1 DEF OpenFor, IsOpen
  <2>6. OneAtATime'
    BY <2>1, <2>2, <2>4, <2>5 DEF OneAtATime
  <2>7. IsFiniteSet(ListPasskeys(u))
    BY FS_Subset DEF ListPasskeys
  <2>8. \E k, l \in ListPasskeys(u) : k # l
    BY <2>1, <2>7, MoreThanOne
  <2>9. \A w : ListPasskeys(w)' = ListPasskeys(w)
    BY <2>1 DEF ListPasskeys
  <2>10. TwoLeft'
    BY <2>1, <2>2, <2>4, <2>8, <2>9 DEF TwoLeft
  <2>11. WayIn'
    BY <2>1, <2>9 DEF WayIn, Passkeys
  <2>12. QED BY <2>1, <2>3, <2>6, <2>10, <2>11
<1>3. ASSUME NEW r \in Revocations, RevokeSessionsForPasskey(r) PROVE CountInv'
  <2>1. UNCHANGED <<users, passkeys, overlapped>>
    BY <1>3 DEF RevokeSessionsForPasskey
  <2>2. \A w : ListPasskeys(w)' = ListPasskeys(w)
    BY <2>1 DEF ListPasskeys
  <2>3. \A s \in Revocations : revoking'[s].user = revoking[s].user
    BY <1>3, SearchWrites
  <2>4. OneAtATime'
    BY <1>3, <2>1, <2>3, SearchWrites DEF OneAtATime
  <2>5. TwoLeft'
    BY <1>3, <2>1, <2>2, <2>3, SearchWrites DEF TwoLeft
  <2>6. QED BY <1>3, <2>1, <2>2, <2>4, <2>5, SearchWrites DEF WayIn, Passkeys
<1>4. ASSUME NEW r \in Revocations, DeletePasskey(r) \/ AbandonRevoke(r) PROVE CountInv'
  <2>1. /\ IsOpen(r)
        /\ revoking' = [revoking EXCEPT ![r] = Idle]
        /\ UNCHANGED <<users, overlapped>>
        /\ \/ passkeys' = passkeys
           \/ passkeys' = passkeys \ {[id |-> revoking[r].key, user |-> revoking[r].user]}
    <3>1. CASE AbandonRevoke(r)
      BY <3>1 DEF AbandonRevoke, IsOpen
    <3>2. CASE DeletePasskey(r)
      <4>1. revoking[r].phase = "revoked"
        BY <3>2, Zenon DEF DeletePasskey
      <4>2. IsOpen(r)
        BY <4>1 DEF IsOpen, Idle
      <4>3. QED BY <3>2, <4>2 DEF DeletePasskey
    <3>3. QED BY <1>4, <3>1, <3>2
  <2>0. PICK u : u = revoking[r].user
    OBVIOUS
  <2>2. /\ DOMAIN revoking' = Revocations /\ ~IsOpen(r)'
        /\ \A s \in Revocations : s # r => revoking'[s] = revoking[s] /\ (IsOpen(s)' <=> IsOpen(s))
    BY <2>1 DEF RevokeTypeOK, IsOpen
  <2>3. RevokeTypeOK' /\ OneAtATime'
    BY <2>1, <2>2 DEF RevokeTypeOK, OneAtATime
  <2>4. \A w : w # u => ListPasskeys(w)' = ListPasskeys(w)
    BY <2>0, <2>1 DEF ListPasskeys
  <2>5. TwoLeft'
    BY <2>0, <2>1, <2>2, <2>4 DEF TwoLeft, OneAtATime
  <2>6. ASSUME u \notin overlapped PROVE ListPasskeys(u)' # {}
    <3>1. PICK k, l \in ListPasskeys(u) : k # l
      BY <2>0, <2>1, <2>6 DEF TwoLeft
    <3>2. /\ k \in passkeys /\ k.user = u
          /\ l \in passkeys /\ l.user = u
      BY <3>1 DEF ListPasskeys
    <3> DEFINE gone == [id |-> revoking[r].key, user |-> revoking[r].user]
    <3>3. k # gone \/ l # gone
      BY <3>1
    <3>4. k \in passkeys' \/ l \in passkeys'
      BY <2>1, <3>2, <3>3
    <3>5. QED BY <3>2, <3>4 DEF ListPasskeys
  <2>7. WayIn'
    <3> SUFFICES ASSUME NEW w \in users, w \notin overlapped PROVE ListPasskeys(w)' # {}
      BY <2>1 DEF WayIn, Passkeys
    <3>1. ListPasskeys(w) # {}
      BY DEF WayIn, Passkeys
    <3>2. QED BY <2>4, <2>6, <3>1
  <2>8. IsFiniteSet(passkeys')
    BY <2>1, FS_Subset
  <2>9. QED BY <2>3, <2>5, <2>7, <2>8
<1>5. CASE Enroll
  BY <1>0, <1>1, <1>5 DEF Enroll, enroll, adminInvite, MintEnrollment, InvitationExpires,
     BeginEnrollment, AnswerEnrollment, RefuseEnrollment
<1>6. CASE Login
  BY <1>0, <1>6 DEF Login, BeginLogin, FinishLogin, LoseCeremony, AnswerLogin
<1>7. CASE Account
  BY <1>0, <1>2, <1>3, <1>4, <1>7 DEF Account, adminLogout, SignOut, adminRevokeAllSessions,
     SignOutEverywhere, adminRevokePasskey
<1>8. CASE UNCHANGED signInVars
  BY <1>0, <1>8 DEF signInVars
<1>9. QED BY <1>5, <1>6, <1>7, <1>8 DEF SignInNext

(* ErrLastPasskey: an account keeps a passkey, whatever is enrolled and    *)
(* revoked, unless two revocations of it were open at once.                *)
THEOREM NobodyLockedOut == SignInSpec => []WayIn
<1>1. CountInv => WayIn
  BY DEF CountInv
<1>2. QED BY <1>1, CountInitially, CountStep, PTL DEF SignInSpec

-----------------------------------------------------------------------------
(* What a revocation signs out.                                            *)
SessionTypeOK ==
  \A x \in sessions : /\ DOMAIN x = {"id", "user", "key", "live", "crossed"}
                       /\ x.live \in BOOLEAN /\ x.crossed \in BOOLEAN

(* A passkey is named after the ceremony that made it, so that a name never *)
(* comes back,                                                             *)
KeysAreBorn ==
  /\ DOMAIN ceremonies = Ceremonies
  /\ \A k \in passkeys : /\ k = [id |-> k.id, user |-> k.user]
                         /\ k.id \in Ceremonies /\ ceremonies[k.id].phase = "enrolled"
  /\ \A k, l \in passkeys : k.id = l.id => k = l

(* and a sign-in under way means the passkey it read or none.              *)
Answered(c) == ceremonies[c].phase = "answered" /\ ceremonies[c].purpose = "login"

SameKeyOrNone ==
  \A c \in Ceremonies : Answered(c) =>
    LET key == ceremonies[c].key IN
    /\ key = [id |-> key.id, user |-> key.user]
    /\ key.id \in Ceremonies /\ ceremonies[key.id].phase = "enrolled"
    /\ \A k \in passkeys : k.id = key.id => k = key

(* A phone that is signed in has its passkey,                              *)
LiveHasKey ==
  \A x \in sessions : x.live /\ ~x.crossed => [id |-> x.key, user |-> x.user] \in passkeys

(* and a revocation about to delete that passkey knows of the phone.       *)
NoneMissed ==
  \A r \in Revocations : \A x \in sessions :
    revoking[r].phase = "revoked" /\ x.live /\ ~x.crossed
      /\ x.key = revoking[r].key /\ x.user = revoking[r].user => x.id \in revoking[r].out

OutInv ==
  RevokeTypeOK /\ SessionTypeOK /\ KeysAreBorn /\ SameKeyOrNone /\ LiveHasKey /\ NoneMissed

LEMMA OutInitially == SignInInit => OutInv
BY DEF SignInInit, OutInv, RevokeTypeOK, SessionTypeOK, KeysAreBorn, SameKeyOrNone, LiveHasKey,
   NoneMissed, IsOpen, Answered, Idle, Unborn

(* A ceremony that makes neither a passkey nor a session.                  *)
LEMMA QuietCeremony ==
  ASSUME OutInv, NEW c \in Ceremonies, ceremonies[c].phase # "enrolled",
         NEW record, Becomes(c, record), UNCHANGED <<passkeys, sessions, revoking>>,
         record.phase = "answered" /\ record.purpose = "login" => record.key \in passkeys
  PROVE  OutInv'
<1>1. /\ DOMAIN ceremonies' = Ceremonies /\ ceremonies'[c] = record
      /\ \A d \in Ceremonies : d # c => ceremonies'[d] = ceremonies[d]
  BY DEF OutInv, KeysAreBorn, Becomes
<1>2. \A d \in Ceremonies : ceremonies[d].phase = "enrolled" => ceremonies'[d].phase = "enrolled"
  BY <1>1
<1>3. KeysAreBorn'
  BY <1>1, <1>2 DEF OutInv, KeysAreBorn
<1>4. SameKeyOrNone'
  <2> SUFFICES ASSUME NEW d \in Ceremonies, Answered(d)'
               PROVE  LET key == ceremonies'[d].key IN
                      /\ key = [id |-> key.id, user |-> key.user]
                      /\ key.id \in Ceremonies /\ ceremonies'[key.id].phase = "enrolled"
                      /\ \A k \in passkeys : k.id = key.id => k = key
    BY DEF SameKeyOrNone
  <2>1. CASE d = c
    <3>1. record.key \in passkeys
      BY <1>1, <2>1 DEF Answered
    <3>2. QED BY <1>1, <1>2, <2>1, <3>1 DEF OutInv, KeysAreBorn
  <2>2. CASE d # c
    BY <1>1, <1>2, <2>2 DEF OutInv, SameKeyOrNone, Answered
  <2>3. QED BY <2>1, <2>2
<1>5. QED
  BY <1>3, <1>4 DEF OutInv, RevokeTypeOK, SessionTypeOK, LiveHasKey, NoneMissed, IsOpen

(* A session created for a passkey that is there.                          *)
LEMMA NewSession ==
  ASSUME OutInv, NEW id, NEW u, NEW key, CreateSession(id, u, key), UNCHANGED revoking,
         [id |-> key, user |-> u] \in passkeys', passkeys \subseteq passkeys'
  PROVE  SessionTypeOK' /\ LiveHasKey' /\ NoneMissed'
<1> DEFINE late == \E r \in Revocations : revoking[r].phase = "revoked" /\ revoking[r].key = key
<1> DEFINE new  == [id |-> id, user |-> u, key |-> key, live |-> TRUE, crossed |-> late]
<1>1. sessions' = sessions \union {new}
  BY DEF CreateSession
<1>2. /\ late \in BOOLEAN
      /\ ~late => \A r \in Revocations : revoking[r].phase = "revoked" => revoking[r].key # key
  OBVIOUS
<1> HIDE DEF late
<1>3. /\ DOMAIN new = {"id", "user", "key", "live", "crossed"}
      /\ new.live \in BOOLEAN /\ new.crossed \in BOOLEAN
      /\ new.id = id /\ new.user = u /\ new.key = key /\ new.crossed = late
  BY <1>2
<1> HIDE DEF new
<1>4. SessionTypeOK'
  BY <1>1, <1>3 DEF OutInv, SessionTypeOK
<1>5. LiveHasKey'
  BY <1>1, <1>3 DEF OutInv, LiveHasKey
<1>6. NoneMissed'
  BY <1>1, <1>2, <1>3 DEF OutInv, NoneMissed
<1>7. QED BY <1>4, <1>5, <1>6

(* Sessions only signed out.                                               *)
LEMMA SigningOut ==
  ASSUME OutInv, NEW them, Revoke(them), UNCHANGED <<passkeys, ceremonies, revoking>>
  PROVE  OutInv'
<1>1. ASSUME NEW x \in sessions'
      PROVE  \E y \in sessions :
               /\ DOMAIN x = DOMAIN y /\ x.live \in BOOLEAN
               /\ x.id = y.id /\ x.user = y.user /\ x.key = y.key /\ x.crossed = y.crossed
               /\ x.live => y.live
  <2>1. PICK y \in sessions : x = [y EXCEPT !.live = @ /\ y \notin them]
    BY <1>1, Zenon DEF Revoke
  <2> DEFINE stays == y.live /\ y \notin them
  <2>2. stays \in BOOLEAN /\ (stays => y.live)
    OBVIOUS
  <2>3. x = [y EXCEPT !.live = stays]
    BY <2>1, Zenon
  <2> HIDE DEF stays
  <2>4. DOMAIN y = {"id", "user", "key", "live", "crossed"}
    BY DEF OutInv, SessionTypeOK
  <2>5. /\ DOMAIN x = DOMAIN y /\ x.live = stays
        /\ x.id = y.id /\ x.user = y.user /\ x.key = y.key /\ x.crossed = y.crossed
    BY <2>3, <2>4
  <2>6. QED BY <2>2, <2>5
<1>2. SessionTypeOK' /\ LiveHasKey' /\ NoneMissed'
  BY <1>1 DEF OutInv, SessionTypeOK, LiveHasKey, NoneMissed
<1>3. QED BY <1>2 DEF OutInv, RevokeTypeOK, KeysAreBorn, SameKeyOrNone, IsOpen, Answered

(* The passkey goes, and with it every session that named it.              *)
LEMMA Deleting ==
  ASSUME OutInv, NEW r \in Revocations, DeletePasskey(r)
  PROVE  OutInv'
<1>1. /\ revoking' = [revoking EXCEPT ![r] = Idle]
      /\ UNCHANGED ceremonies
      /\ revoking[r].phase = "revoked"
  BY Zenon DEF DeletePasskey
<1>2. /\ DOMAIN revoking' = Revocations /\ revoking'[r] = Idle
      /\ \A s \in Revocations : s # r => revoking'[s] = revoking[s]
  BY <1>1 DEF OutInv, RevokeTypeOK
<1>3. RevokeTypeOK'
  BY <1>2 DEF OutInv, RevokeTypeOK, IsOpen
<1>4. PICK k : k = [id |-> revoking[r].key, user |-> revoking[r].user]
  OBVIOUS
<1>5. k.id = revoking[r].key /\ k.user = revoking[r].user
  BY <1>4
<1>6. CASE k \notin passkeys
  <2>1. UNCHANGED <<passkeys, sessions>>
    BY <1>4, <1>6, Zenon DEF DeletePasskey
  <2>2. NoneMissed'
    BY <1>2, <2>1 DEF OutInv, NoneMissed, Idle
  <2>3. QED
    BY <1>1, <1>3, <2>1, <2>2
       DEF OutInv, SessionTypeOK, KeysAreBorn, SameKeyOrNone, LiveHasKey, Answered
<1>7. CASE k \in passkeys
  <2>1. /\ passkeys' = passkeys \ {k}
        /\ sessions' = {[x EXCEPT !.live = @ /\ x.id \notin revoking[r].out,
                                  !.key = IF @ = revoking[r].key THEN Nobody ELSE @] : x \in sessions}
    BY <1>4, <1>7, Zenon DEF DeletePasskey
  <2>2. ASSUME NEW x \in sessions'
        PROVE  \E y \in sessions :
                 /\ DOMAIN x = DOMAIN y /\ x.live \in BOOLEAN
                 /\ x.id = y.id /\ x.user = y.user /\ x.crossed = y.crossed
                 /\ x.key = IF y.key = revoking[r].key THEN Nobody ELSE y.key
                 /\ x.live => y.live /\ y.id \notin revoking[r].out
    <3>1. PICK y \in sessions :
            x = [y EXCEPT !.live = @ /\ y.id \notin revoking[r].out,
                          !.key = IF @ = revoking[r].key THEN Nobody ELSE @]
      BY <2>1, <2>2, Zenon
    <3> DEFINE stays == y.live /\ y.id \notin revoking[r].out
    <3> DEFINE names == IF y.key = revoking[r].key THEN Nobody ELSE y.key
    <3>2. stays \in BOOLEAN /\ (stays => y.live /\ y.id \notin revoking[r].out)
      OBVIOUS
    <3>3. DOMAIN y = {"id", "user", "key", "live", "crossed"}
      BY DEF OutInv, SessionTypeOK
    <3>4. x = [y EXCEPT !.live = stays, !.key = names]
      BY <3>1, <3>3
    <3> HIDE DEF stays
    <3>5. /\ DOMAIN x = DOMAIN y /\ x.live = stays /\ x.key = names
          /\ x.id = y.id /\ x.user = y.user /\ x.crossed = y.crossed
      BY <3>3, <3>4
    <3>6. QED BY <3>2, <3>5
  <2>3. ASSUME NEW x \in sessions', x.live, ~x.crossed
        PROVE  \E y \in sessions :
                 /\ y.live /\ ~y.crossed /\ y.id = x.id /\ y.user = x.user /\ y.key = x.key
                 /\ [id |-> y.key, user |-> y.user] \in passkeys
                 /\ y.key # k.id
    <3>1. PICK y \in sessions :
            /\ y.live /\ ~y.crossed /\ x.id = y.id /\ x.user = y.user
            /\ x.key = IF y.key = revoking[r].key THEN Nobody ELSE y.key
            /\ y.id \notin revoking[r].out
      BY <2>2, <2>3
    <3> DEFINE l == [id |-> y.key, user |-> y.user]
    <3>2. l \in passkeys
      BY <3>1 DEF OutInv, LiveHasKey
    <3>3. ASSUME y.key = k.id PROVE FALSE
      <4>1. l = k
        BY <1>7, <3>2, <3>3 DEF OutInv, KeysAreBorn
      <4>2. y.user = revoking[r].user
        BY <1>5, <4>1
      <4>3. QED BY <1>1, <1>5, <3>1, <3>3, <4>2 DEF OutInv, NoneMissed
    <3>4. QED BY <1>5, <3>1, <3>2, <3>3
  <2>4. SessionTypeOK'
    BY <2>2 DEF OutInv, SessionTypeOK
  <2>5. KeysAreBorn' /\ SameKeyOrNone'
    BY <1>1, <2>1 DEF OutInv, KeysAreBorn, SameKeyOrNone, Answered
  <2>6. LiveHasKey'
    <3> SUFFICES ASSUME NEW x \in sessions', x.live, ~x.crossed
                 PROVE  [id |-> x.key, user |-> x.user] \in passkeys'
      BY DEF LiveHasKey
    <3>1. x.key # k.id /\ [id |-> x.key, user |-> x.user] \in passkeys
      BY <2>3
    <3>2. [id |-> x.key, user |-> x.user] # k
      BY <3>1
    <3>3. QED BY <2>1, <3>1, <3>2
  <2>7. NoneMissed'
    <3> SUFFICES ASSUME NEW s \in Revocations, NEW x \in sessions',
                        revoking'[s].phase = "revoked", x.live, ~x.crossed,
                        x.key = revoking'[s].key, x.user = revoking'[s].user
                 PROVE  x.id \in revoking'[s].out
      BY DEF NoneMissed
    <3>1. s # r /\ revoking'[s] = revoking[s]
      BY <1>2 DEF Idle
    <3>2. PICK y \in sessions :
            y.live /\ ~y.crossed /\ y.id = x.id /\ y.user = x.user /\ y.key = x.key
      BY <2>3
    <3>3. QED BY <3>1, <3>2 DEF OutInv, NoneMissed
  <2>8. QED BY <1>3, <2>4, <2>5, <2>6, <2>7 DEF OutInv
<1>8. QED BY <1>6, <1>7

(* Every step keeps the invariant.                                         *)
LEMMA OutStep == OutInv /\ [SignInNext]_signInVars => OutInv'
<1> SUFFICES ASSUME OutInv, [SignInNext]_signInVars PROVE OutInv'
  OBVIOUS
<1>0. ASSUME UNCHANGED <<passkeys, sessions, ceremonies, revoking>> PROVE OutInv'
  BY <1>0 DEF OutInv, RevokeTypeOK, SessionTypeOK, KeysAreBorn, SameKeyOrNone, LiveHasKey,
     NoneMissed, IsOpen, Answered
<1>1. CASE Enroll
  <2>1. ASSUME NEW i \in Invitations, MintEnrollment(i) \/ InvitationExpires(i) PROVE OutInv'
    BY <1>0, <2>1 DEF MintEnrollment, InvitationExpires
  <2>2. ASSUME NEW c \in Ceremonies, NEW i \in Invitations, BeginEnrollment(c, i) PROVE OutInv'
    BY <1>0, <2>2, QuietCeremony DEF BeginEnrollment, CreateCeremony, Becomes, Unborn
  <2>3. ASSUME NEW c \in Ceremonies, AnswerEnrollment(c) PROVE OutInv'
    BY <2>3, QuietCeremony DEF AnswerEnrollment, ConsumeCeremony
  <2>4. ASSUME NEW c \in Ceremonies, RefuseEnrollment(c) PROVE OutInv'
    BY <2>4, QuietCeremony DEF RefuseEnrollment, ConsumeCeremony
  <2>5. ASSUME NEW c \in Ceremonies, FinishEnrollment(c) PROVE OutInv'
    <3>1. PICK u : /\ passkeys' = passkeys \union {[id |-> c, user |-> u]}
                   /\ CreateSession(c, u, c)
      BY <2>5 DEF FinishEnrollment, CreatePasskey
    <3>2. /\ ceremonies[c].phase = "answered" /\ ceremonies[c].purpose = "register"
          /\ UNCHANGED revoking
          /\ ceremonies' = [ceremonies EXCEPT
                             ![c] = [phase |-> "enrolled", invite |-> ceremonies[c].invite]]
      BY <2>5 DEF FinishEnrollment, Becomes
    <3>3. /\ DOMAIN ceremonies' = Ceremonies /\ ceremonies'[c].phase = "enrolled"
          /\ \A d \in Ceremonies : d # c => ceremonies'[d] = ceremonies[d]
      BY <3>2 DEF OutInv, KeysAreBorn
    <3>4. \A k \in passkeys : k.id # c
      BY <3>2 DEF OutInv, KeysAreBorn
    <3>5. KeysAreBorn'
      BY <3>1, <3>3, <3>4 DEF OutInv, KeysAreBorn
    <3>6. SameKeyOrNone'
      <4>1. \A d \in Ceremonies : Answered(d)' => Answered(d) /\ d # c
        BY <3>3 DEF Answered
      <4>2. \A d \in Ceremonies : Answered(d) => ceremonies[d].key.id # c
        BY <3>2 DEF OutInv, SameKeyOrNone
      <4>3. QED BY <3>1, <3>3, <4>1, <4>2 DEF OutInv, SameKeyOrNone
    <3>7. SessionTypeOK' /\ LiveHasKey' /\ NoneMissed'
      BY <3>1, <3>2, NewSession
    <3>8. QED BY <3>2, <3>5, <3>6, <3>7 DEF OutInv, RevokeTypeOK, IsOpen
  <2>6. QED BY <1>1, <2>1, <2>2, <2>3, <2>4, <2>5 DEF Enroll, enroll, adminInvite
<1>2. CASE Login
  <2>1. ASSUME NEW c \in Ceremonies, BeginLogin(c) PROVE OutInv'
    <3>1. /\ ceremonies[c].phase # "enrolled"
          /\ Becomes(c, [phase |-> "stored", purpose |-> "login"])
          /\ UNCHANGED <<passkeys, sessions, revoking>>
      BY <2>1 DEF BeginLogin, CreateCeremony, Becomes, Unborn
    <3>2. QED BY <3>1, QuietCeremony
  <2>2. ASSUME NEW c \in Ceremonies, LoseCeremony(c) PROVE OutInv'
    BY <2>2, QuietCeremony DEF LoseCeremony, SweepExpiredAuth
  <2>3. ASSUME NEW c \in Ceremonies, NEW key \in passkeys, AnswerLogin(c, key) PROVE OutInv'
    BY <2>3, QuietCeremony DEF AnswerLogin, ConsumeCeremony
  <2>4. ASSUME NEW c \in Ceremonies, FinishLogin(c) PROVE OutInv'
    <3>1. PICK key : key = ceremonies[c].key
      OBVIOUS
    <3>2. /\ Answered(c) /\ Becomes(c, [phase |-> "done"])
          /\ UNCHANGED <<passkeys, revoking>>
          /\ IF KeyExists(key) THEN CreateSession(c, key.user, key.id) ELSE UNCHANGED sessions
      BY <2>4, <3>1 DEF FinishLogin, Answered
    <3>3. CASE ~KeyExists(key)
      BY <3>2, <3>3, QuietCeremony DEF Answered
    <3>4. CASE KeyExists(key)
      <4>1. [id |-> key.id, user |-> key.user] \in passkeys
        BY <3>1, <3>2, <3>4 DEF OutInv, SameKeyOrNone, KeyExists
      <4>2. SessionTypeOK' /\ LiveHasKey' /\ NoneMissed'
        BY <3>2, <3>4, <4>1, NewSession
      <4>3. /\ DOMAIN ceremonies' = Ceremonies /\ ceremonies'[c] = [phase |-> "done"]
            /\ \A d \in Ceremonies : d # c => ceremonies'[d] = ceremonies[d]
        BY <3>2 DEF OutInv, KeysAreBorn, Becomes
      <4>4. \A d \in Ceremonies : ceremonies[d].phase = "enrolled" => ceremonies'[d] = ceremonies[d]
        BY <3>2, <4>3 DEF Answered
      <4>5. KeysAreBorn' /\ SameKeyOrNone'
        BY <3>2, <4>3, <4>4 DEF OutInv, KeysAreBorn, SameKeyOrNone, Answered
      <4>6. QED BY <3>2, <4>2, <4>5 DEF OutInv, RevokeTypeOK, IsOpen
    <3>5. QED BY <3>3, <3>4
  <2>5. QED BY <1>2, <2>1, <2>2, <2>3, <2>4 DEF Login
<1>3. CASE Account
  <2>1. ASSUME NEW x \in sessions, adminLogout(x) \/ adminRevokeAllSessions(x) PROVE OutInv'
    BY <2>1, SigningOut DEF adminLogout, SignOut, RevokeSession, adminRevokeAllSessions,
       SignOutEverywhere, RevokeAllSessionsForUser
  <2>2. ASSUME NEW r \in Revocations, NEW u, NEW id, RevokePasskey(r, u, id) PROVE OutInv'
    <3>1. /\ revoking' = [revoking EXCEPT ![r] =
                            [phase |-> "counted", user |-> u, key |-> id, out |-> {}]]
          /\ UNCHANGED <<passkeys, sessions, ceremonies>>
      BY <2>2 DEF RevokePasskey
    <3>2. /\ DOMAIN revoking' = Revocations
          /\ revoking'[r] = [phase |-> "counted", user |-> u, key |-> id, out |-> {}]
          /\ \A s \in Revocations : s # r => revoking'[s] = revoking[s]
      BY <3>1 DEF OutInv, RevokeTypeOK
    <3>3. RevokeTypeOK' /\ NoneMissed'
      BY <3>1, <3>2 DEF OutInv, RevokeTypeOK, NoneMissed, IsOpen
    <3>4. QED
      BY <3>1, <3>3 DEF OutInv, SessionTypeOK, KeysAreBorn, SameKeyOrNone, LiveHasKey, Answered
  <2>3. ASSUME NEW r \in Revocations, RevokeSessionsForPasskey(r) PROVE OutInv'
    <3>1. UNCHANGED <<passkeys, sessions, ceremonies>>
      BY <2>3 DEF RevokeSessionsForPasskey
    <3>2. RevokeTypeOK
      BY DEF OutInv
    <3>3. NoneMissed'
      BY <2>3, <3>1, <3>2, SearchWrites DEF OutInv, NoneMissed, ListLiveSessions
    <3>4. QED
      BY <2>3, <3>1, <3>2, <3>3, SearchWrites
         DEF OutInv, SessionTypeOK, KeysAreBorn, SameKeyOrNone, LiveHasKey, Answered
  <2>4. ASSUME NEW r \in Revocations, DeletePasskey(r) PROVE OutInv'
    BY <2>4, Deleting
  <2>5. ASSUME NEW r \in Revocations, AbandonRevoke(r) PROVE OutInv'
    <3>1. /\ revoking' = [revoking EXCEPT ![r] = Idle]
          /\ UNCHANGED <<passkeys, sessions, ceremonies>>
      BY <2>5 DEF AbandonRevoke
    <3>2. RevokeTypeOK' /\ NoneMissed'
      BY <3>1 DEF OutInv, RevokeTypeOK, NoneMissed, IsOpen, Idle
    <3>3. QED
      BY <3>1, <3>2 DEF OutInv, SessionTypeOK, KeysAreBorn, SameKeyOrNone, LiveHasKey, Answered
  <2>6. QED BY <1>3, <2>1, <2>2, <2>3, <2>4, <2>5 DEF Account, adminRevokePasskey
<1>4. CASE UNCHANGED signInVars
  BY <1>0, <1>4 DEF signInVars
<1>5. QED BY <1>1, <1>2, <1>3, <1>4 DEF SignInNext

(* RevokePasskey: a phone that is signed in with a passkey that is gone    *)
(* signed in while it was being revoked, for any number of either.         *)
THEOREM RevokedAreOut == SignInSpec => []RevokedIsOut
<1>1. OutInv => RevokedIsOut
  <2> SUFFICES ASSUME OutInv, NEW u \in users, NEW phone \in Devices(u),
                      phone.passkey \notin Passkeys(u)
               PROVE  \E x \in sessions : x.id = phone.session /\ x.crossed
    BY DEF RevokedIsOut
  <2>1. PICK x \in sessions : /\ x.user = u /\ x.live
                             /\ phone = [session |-> x.id, passkey |-> x.key]
    BY DEF Devices, ListLiveSessions
  <2>2. [id |-> x.key, user |-> x.user] \notin passkeys
    BY <2>1 DEF Passkeys, ListPasskeys
  <2>3. QED BY <2>1, <2>2 DEF OutInv, LiveHasKey
<1>2. QED BY <1>1, OutInitially, OutStep, PTL DEF SignInSpec
=============================================================================
