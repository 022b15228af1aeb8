-------------------------------- MODULE Limiter --------------------------------
(***************************************************************************)
(* The rate limiter (internal/httpx/ratelimit.go): a token bucket per      *)
(* client, refilled when it is next asked of, in a map that is swept as it *)
(* is used.  allow runs under the limiter's lock; the stamp of a request   *)
(* is taken a moment before, and here the two are one step.                *)
(***************************************************************************)
EXTENDS Integers

CONSTANTS
  Keys,           \* clients
  Interval,       \* how long one token takes to refill
  Burst,          \* the size of a bucket
  idleBucketTTL,  \* how long an unused bucket is kept
  MaxNow          \* bound: the clock

VARIABLES
  now,            \* the clock
  buckets,        \* client -> [tokens, seen], the clients of the map
  swept,          \* when the map was last swept
  answer          \* the last answer given: <<client, allowed>>

limiterVars == <<now, buckets, swept, answer>>

(* A bucket the sweeper drops would be full by then: so it is for every    *)
(* limiter the server makes, the slowest of which takes half an hour.      *)
ASSUME LimiterAssumption ==
  /\ Interval \in Nat \ {0} /\ Burst \in Nat \ {0}
  /\ idleBucketTTL \in Nat /\ Interval * Burst <= idleBucketTTL
  /\ MaxNow \in Nat

(* newLimiter.                                                             *)
LimiterInit == now = 0 /\ buckets = <<>> /\ swept = 0 /\ answer = <<>>

Time == now < MaxNow /\ now' = now + 1 /\ UNCHANGED <<buckets, swept, answer>>

(* Mutant: the sweep drops every bucket.                                   *)
Used(k) == FALSE

Recent(k) == now - buckets[k].seen <= idleBucketTTL

Sweeping == now - swept >= idleBucketTTL

(* The buckets that are left when sweep has run.                           *)
sweep == {k \in DOMAIN buckets : Sweeping => Recent(k)}

(* A new caller starts full.                                               *)
Found(k) == IF k \in sweep THEN buckets[k] ELSE [tokens |-> Burst, seen |-> now]

Earned(b) == (now - b.seen) \div Interval

(* Only the whole tokens taken are credited.                               *)
Credited(b) == b.seen + Earned(b) * Interval

Refilled(b) ==
  [tokens |-> IF b.tokens + Earned(b) < Burst THEN b.tokens + Earned(b) ELSE Burst,
   seen |-> Credited(b)]

allow(k) ==
  LET b == Refilled(Found(k))
  IN  /\ answer' = <<k, b.tokens > 0>>
      /\ buckets' = [c \in sweep \union {k} |->
           IF c # k THEN buckets[c]
           ELSE IF b.tokens > 0 THEN [tokens |-> b.tokens - 1, seen |-> b.seen] ELSE b]
      /\ swept' = IF Sweeping THEN now ELSE swept
      /\ UNCHANGED now

LimiterNext == (\E k \in Keys : allow(k)) \/ Time

LimiterSpec == LimiterInit /\ [][LimiterNext]_limiterVars

-----------------------------------------------------------------------------
LimiterTypeOK ==
  /\ now \in 0..MaxNow /\ swept \in 0..now
  /\ DOMAIN buckets \subseteq Keys
  /\ \A k \in DOMAIN buckets : buckets[k] \in [tokens : 0..Burst, seen : 0..now]

(* When k's bucket will be full; 0 when it is, or when there is none.      *)
FullAt(k) == buckets[k].seen + (Burst - buckets[k].tokens) * Interval

Due == [k \in Keys |-> IF k \in DOMAIN buckets /\ FullAt(k) > now THEN FullAt(k) ELSE 0]

Promise == INSTANCE Meter WITH due <- Due

(* ratelimit.go: refilling lazily, creating buckets on demand and sweeping *)
(* the map change nothing a caller can tell: the limiter implements Meter. *)
MeterSpec == Promise!MeterSpec
=============================================================================
