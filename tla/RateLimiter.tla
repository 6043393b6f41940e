----------------------------- MODULE RateLimiter -----------------------------
(* The token-bucket limiter in front of the API (httpx/ratelimit.go): one   *)
(* bucket per key, made when a key is first seen; a map that has grown to   *)
(* its capacity drops the buckets that look unused.  The limiter's mutex    *)
(* makes a call of Allow one step.                                          *)
EXTENDS Integers, FiniteSets

CONSTANTS
  Callers,        \* keys the requests are counted under
  Burst,          \* tokens of a full bucket
  BucketTTL,      \* ticks after which an untouched bucket may go (10 min)
  BucketCapacity, \* buckets at which eviction starts (1024)
  MaxOvershoot    \* bound: how far below zero the reference may be driven

(* A bucket that was not touched for the TTL has had the time to fill up: by *)
(* default 2 seconds (config.go), for logins 20 (server.go), of 10 minutes. *)
ASSUME LimiterAssumption ==
  /\ Burst \in Nat \ {0} /\ BucketTTL \in Nat /\ MaxOvershoot \in Nat
  /\ Burst <= BucketTTL

VARIABLES
  bucket,     \* the map: [tokens, idle] for a key that has a bucket
  allowance,  \* tokens left by the rate configured, had no bucket been dropped
  forgotten   \* keys answered from a bucket that the map did not keep

limiterVars == <<bucket, allowance, forgotten>>

(* idle is the time since `seen`; a bucket whose `seen` is still the zero   *)
(* time has been idle for longer than anything.                             *)
NeverSeen == BucketTTL + 1
Bucket == [tokens : 0..Burst, idle : 0..NeverSeen]
NewBucket == [tokens |-> Burst, idle |-> NeverSeen]

LimiterTypeOK ==
  /\ DOMAIN bucket \subseteq Callers
  /\ \A c \in DOMAIN bucket : bucket[c] \in Bucket
  /\ allowance \in [Callers -> (-MaxOvershoot)..Burst]
  /\ forgotten \subseteq Callers

LimiterInit ==
  /\ bucket = [c \in {} |-> NewBucket]
  /\ allowance = [c \in Callers |-> Burst]
  /\ forgotten = {}

Without(f, S) == [x \in DOMAIN f \ S |-> f[x]]
With(f, x, y) == [z \in DOMAIN f \cup {x} |-> IF z = x THEN y ELSE f[z]]

(* Buckets dropped as soon as they are not in use. *)
BugEvictLocked(buckets) ==
  IF Cardinality(DOMAIN buckets) < BucketCapacity THEN {}
  ELSE {c \in DOMAIN buckets : buckets[c].idle > 0}

(* The buckets evictLocked drops from a map.                                *)
EvictLocked(buckets) ==
  IF Cardinality(DOMAIN buckets) < BucketCapacity THEN {}
  ELSE {c \in DOMAIN buckets : buckets[c].idle > BucketTTL}

(* Allow: a new bucket enters the map, the eviction runs, and only then is  *)
(* the bucket marked as seen.  The request is answered from the bucket in   *)
(* hand, whether or not the map still holds it.                             *)
Allow(c) ==
  LET known   == c \in DOMAIN bucket
      b       == IF known THEN bucket[c] ELSE NewBucket
      grown   == With(bucket, c, b)
      kept    == IF known THEN bucket ELSE Without(grown, EvictLocked(grown))
      granted == b.tokens > 0
      after   == [tokens |-> IF granted THEN b.tokens - 1 ELSE 0, idle |-> 0] IN
  /\ allowance[c] > -MaxOvershoot
  /\ bucket' = IF c \in DOMAIN kept THEN [kept EXCEPT ![c] = after] ELSE kept
  /\ allowance' = IF granted THEN [allowance EXCEPT ![c] = @ - 1] ELSE allowance
  /\ forgotten' = IF c \in DOMAIN kept THEN forgotten ELSE forgotten \cup {c}

(* No cap. *)
BugRefill(n) == n + 1

(* A token comes back per tick, up to a full bucket.                        *)
Refill(n) == IF n < Burst THEN n + 1 ELSE Burst

LimiterTick ==
  /\ bucket' = [c \in DOMAIN bucket |->
                  [tokens |-> Refill(bucket[c].tokens),
                   idle |-> IF bucket[c].idle > BucketTTL THEN NeverSeen ELSE bucket[c].idle + 1]]
  /\ allowance' = [c \in Callers |-> IF allowance[c] < Burst THEN allowance[c] + 1 ELSE Burst]
  /\ UNCHANGED forgotten

LimiterNext == (\E c \in Callers : Allow(c)) \/ LimiterTick

LimiterSpec == LimiterInit /\ [][LimiterNext]_limiterVars

-----------------------------------------------------------------------------
(* No key is let through more often than the configured rate allows,        *)
(* whatever the map has dropped meanwhile: dropping a bucket is safe only   *)
(* when it had the time to fill up (evictLocked "drops buckets untouched    *)
(* for longer than the TTL").                                               *)
NoMoreThanTheLimit == \A c \in Callers : allowance[c] >= 0

(* The only way past the limit is a bucket the map never kept: a bucket     *)
(* that was kept and dropped later had the time to fill up, so its key is   *)
(* let through as often as the rate allows and no more (evictLocked).       *)
OnlyUnkeptBucketsOvershoot == \A c \in Callers \ forgotten : allowance[c] >= 0
=============================================================================
