----------------------------- MODULE TokenBucket -----------------------------
(***************************************************************************)
(* createRateLimitPolicy of packages/adapters/src/rate-limit.js: a bucket  *)
(* of tokens, refilled by the time since the last refill, that callers     *)
(* take from at once (tryAcquire) or wait for (acquire).  Amounts are in   *)
(* parts of a token, so that a tick may refill a fraction of one.          *)
(***************************************************************************)
EXTENDS Integers, Sequences, FiniteSetsExt, Functions

CONSTANTS
    Callers,       \* concurrent callers of acquire
    Capacity,      \* burst, in parts
    TokenParts,    \* parts of one token
    Refill,        \* parts refilled in one tick
    Asked,         \* numbers of tokens asked for
    MaxWait,       \* maxWaitMs, in ticks
    GrantLimit,    \* bound on the grants
    BucketEnd      \* bound on the clock

\* Something is refilled, and a caller asks for whole tokens, at least one.
ASSUME BucketAssumption ==
    /\ Capacity \in Nat /\ TokenParts \in Nat /\ Refill \in Nat \ {0}
    /\ Asked \subseteq Nat \ {0} /\ MaxWait \in Nat /\ BucketEnd \in Nat

VARIABLES
    tokens,        \* tokens, in parts, at the last refill
    lastRefill,    \* lastRefillMs
    waiters,       \* [caller -> [pc, count, until, waited, seen]]
    bucketGrants,  \* history: [at, parts] of each grant, in order
    bucketClock

bucketVars == <<tokens, lastRefill, waiters, bucketGrants, bucketClock>>

NotWaiting == [pc |-> "idle", count |-> 0, until |-> 0, waited |-> 0, seen |-> 0]

BucketInit ==
    /\ tokens = Capacity
    /\ lastRefill = 0
    /\ waiters = [w \in Callers |-> NotWaiting]
    /\ bucketGrants = <<>>
    /\ bucketClock = 0

\* refill: what the bucket holds now.
\* (mutation) the bucket overflows its capacity
RefilledOver == tokens + Refill * (bucketClock - lastRefill)
Refilled == Min({Capacity, tokens + Refill * (bucketClock - lastRefill)})

\* retryAfterMs: the ticks until the parts missing are there, rounded up.
\* (mutation) rounded down
RetryAfterShort(parts) == (parts - Refilled) \div Refill
RetryAfter(parts) == (parts - Refilled + Refill - 1) \div Refill

Take(parts) ==
    /\ tokens' = Refilled - parts
    /\ lastRefill' = bucketClock
    /\ bucketGrants' = Append(bucketGrants, [at |-> bucketClock, parts |-> parts])

Refuse ==
    /\ tokens' = Refilled /\ lastRefill' = bucketClock
    /\ UNCHANGED bucketGrants

(***************************************************************************)
(* tryAcquire: more than the capacity is refused for good.                 *)
(***************************************************************************)
tryAcquire(n) ==
    /\ IF n * TokenParts <= Refilled THEN Take(n * TokenParts) ELSE Refuse
    /\ UNCHANGED <<waiters, bucketClock>>

(***************************************************************************)
(* acquire: one round of its loop, the first or one after a pause; it gives*)
(* up when the pauses would exceed its budget.                             *)
(***************************************************************************)
Round(w, n, waited) ==
    LET parts == n * TokenParts
    IN  /\ IF parts <= Refilled
             THEN /\ Take(parts)
                  /\ waiters' = [waiters EXCEPT ![w] = NotWaiting]
             ELSE /\ Refuse
                  /\ waiters' = [waiters EXCEPT ![w] =
                        IF waited + RetryAfter(parts) > MaxWait THEN NotWaiting
                        ELSE [pc |-> "waiting", count |-> n, until |-> bucketClock + RetryAfter(parts),
                              waited |-> waited + RetryAfter(parts), seen |-> Len(bucketGrants)]]
        /\ UNCHANGED bucketClock

acquire(w, n) ==
    /\ waiters[w].pc = "idle"
    /\ n * TokenParts <= Capacity
    /\ Round(w, n, 0)

acquireAgain(w) ==
    /\ waiters[w].pc = "waiting" /\ bucketClock >= waiters[w].until
    /\ Round(w, waiters[w].count, waiters[w].waited)

bucketTick ==
    /\ bucketClock < BucketEnd
    /\ bucketClock' = bucketClock + 1
    /\ UNCHANGED <<tokens, lastRefill, waiters, bucketGrants>>

BucketNext ==
    \/ /\ Len(bucketGrants) < GrantLimit
       /\ \/ \E n \in Asked : tryAcquire(n)
          \/ \E w \in Callers, n \in Asked : acquire(w, n)
          \/ \E w \in Callers : acquireAgain(w)
    \/ bucketTick

BucketSpec == BucketInit /\ [][BucketNext]_bucketVars

\* Every variable has its type.
BucketTypeOK ==
    /\ tokens \in Nat /\ lastRefill \in 0..BucketEnd /\ bucketClock \in 0..BucketEnd
    /\ waiters \in [Callers -> [pc : {"idle", "waiting"}, count : {0} \cup Asked, until : Nat,
                                waited : 0..MaxWait, seen : Nat]]
    /\ bucketGrants \in Seq([at : 0..BucketEnd, parts : Nat])

(***************************************************************************)
(* Between any two grants, these included, no more was granted than a full *)
(* bucket and what the time between them refilled.                         *)
(***************************************************************************)
GrantsWithinRate ==
    \A i, j \in DOMAIN bucketGrants : i <= j =>
        SumFunctionOnSet([k \in DOMAIN bucketGrants |-> bucketGrants[k].parts], i..j)
            <= Capacity + Refill * (bucketGrants[j].at - bucketGrants[i].at)

(***************************************************************************)
(* The pause a caller is told is long enough: when it is over and nobody   *)
(* was granted anything meanwhile, the caller's tokens are there.          *)
(***************************************************************************)
PauseSuffices ==
    \A w \in Callers :
        (waiters[w].pc = "waiting" /\ bucketClock >= waiters[w].until
            /\ waiters[w].seen = Len(bucketGrants))
        => waiters[w].count * TokenParts <= tokens + Refill * (bucketClock - lastRefill)

RateIsKept == GrantsWithinRate /\ PauseSuffices
=============================================================================
