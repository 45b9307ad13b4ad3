---------------------------- MODULE IngressLimits ----------------------------
(***************************************************************************)
(* The request limiter of packages/security: one bucket in Redis shared by *)
(* all instances, refilled by the clock of whichever instance calls, and a *)
(* bucket of its own in each instance for the calls that Redis does not    *)
(* answer.  Amounts are in parts of a token.                               *)
(***************************************************************************)
EXTENDS Integers, Sequences, FiniteSetsExt, Functions

CONSTANTS
    Instances,     \* processes that limit the same key
    SkewChoices,   \* [instance -> how far its clock is ahead], one is in force
    BucketSize,    \* burst, in parts
    OneToken,      \* parts of a token
    PerTick,       \* parts refilled in a tick
    KeyTtl,        \* the bucket's time to live in Redis, in ticks
    AskLimit,      \* bound on the requests
    LimiterEnd     \* bound on time

\* The key lives until an empty bucket would be full again.
ASSUME LimiterAssumption ==
    /\ BucketSize \in Nat /\ OneToken \in Nat /\ PerTick \in Nat
    /\ KeyTtl \in Nat /\ BucketSize <= KeyTtl * PerTick
    /\ SkewChoices \subseteq [Instances -> Int]

VARIABLES
    sharedBucket,  \* the hash in Redis: [tokens, last], and when it was written
    localBuckets,  \* fallbackLimiter's bucket of each instance
    clockSkew,     \* the skews in force
    requestsMade,  \* history: [at, by, shared, allowed], in order
    limiterTime

limiterVars == <<sharedBucket, localBuckets, clockSkew, requestsMade, limiterTime>>

NoBucket == [tokens |-> -1, last |-> 0, written |-> 0]

LimiterInit ==
    /\ sharedBucket = NoBucket
    /\ clockSkew \in SkewChoices
    /\ localBuckets = [i \in Instances |-> [tokens |-> BucketSize, last |-> clockSkew[i]]]
    /\ requestsMade = <<>>
    /\ limiterTime = 0

ClockOf(i) == limiterTime + clockSkew[i]

\* (mutation) A bucket may hold more than its capacity.
TopUpOver(b, now) == b.tokens + PerTick * Max({0, now - b.last})

\* Time that runs backwards refills nothing.
TopUp(b, now) == Min({BucketSize, b.tokens + PerTick * Max({0, now - b.last})})

Note(i, shared, allowed) ==
    requestsMade' =
        Append(requestsMade, [at |-> limiterTime, by |-> i, shared |-> shared, allowed |-> allowed])

\* The Lua script: the caller's time is written back, earlier or not.
acquireShared(i) ==
    LET content == IF sharedBucket.tokens < 0 THEN BucketSize ELSE TopUp(sharedBucket, ClockOf(i))
        allows == content >= OneToken
    IN /\ sharedBucket' = [tokens |-> IF allows THEN content - OneToken ELSE content,
                           last |-> ClockOf(i), written |-> limiterTime]
       /\ Note(i, TRUE, allows)
       /\ UNCHANGED <<localBuckets, clockSkew, limiterTime>>

\* (mutation) Without Redis nobody is refused.
acquireFallbackOpen(i) ==
    /\ Note(i, FALSE, TRUE)
    /\ UNCHANGED <<sharedBucket, localBuckets, clockSkew, limiterTime>>

\* tryAcquireLocal, when there is no client or its call fails.
acquireFallback(i) ==
    LET content == TopUp(localBuckets[i], ClockOf(i))
        allows == content >= OneToken
    IN /\ localBuckets' = [localBuckets EXCEPT ![i] =
            [tokens |-> IF allows THEN content - OneToken ELSE content, last |-> ClockOf(i)]]
       /\ Note(i, FALSE, allows)
       /\ UNCHANGED <<sharedBucket, clockSkew, limiterTime>>

\* PEXPIRE, by the clock of Redis.
bucketExpires ==
    /\ sharedBucket.tokens >= 0
    /\ limiterTime - sharedBucket.written >= KeyTtl
    /\ sharedBucket' = NoBucket
    /\ UNCHANGED <<localBuckets, clockSkew, requestsMade, limiterTime>>

limiterTick ==
    /\ limiterTime < LimiterEnd
    /\ limiterTime' = limiterTime + 1
    /\ UNCHANGED <<sharedBucket, localBuckets, clockSkew, requestsMade>>

LimiterNext ==
    \/ /\ Len(requestsMade) < AskLimit
       /\ \E i \in Instances : acquireShared(i) \/ acquireFallback(i)
    \/ bucketExpires
    \/ limiterTick

LimiterSpec == LimiterInit /\ [][LimiterNext]_limiterVars

-----------------------------------------------------------------------------
(* Properties.                                                             *)

LimiterTypeOK ==
    /\ sharedBucket.tokens >= -1
    /\ clockSkew \in SkewChoices
    /\ \A i \in Instances : localBuckets[i].tokens >= 0

\* The requests of a stretch that Redis answered, and those of one instance that it did not.
SharedIn(from, to) == {k \in from..to : requestsMade[k].shared}
LocalIn(i, from, to) == {k \in from..to : ~requestsMade[k].shared /\ requestsMade[k].by = i}

\* What those requests were given, in parts.
Given(requests) == OneToken * Cardinality({k \in requests : requestsMade[k].allowed})

\* How far ahead of the shared request before it each shared request's clock is,
\* summed over a stretch: what differing clocks add to the bucket.
LeadAt(from, k) ==
    LET before == SharedIn(from, k - 1)
    IN  IF before = {} THEN 0
        ELSE Max({0, clockSkew[requestsMade[k].by] - clockSkew[requestsMade[Max(before)].by]})
Lead(from, to) ==
    SumFunctionOnSet([k \in DOMAIN requestsMade |-> LeadAt(from, k)], SharedIn(from, to))

\* Redis or not, nobody is ever unlimited: over any stretch an instance without
\* Redis gives a burst and the refill of the time between, and all instances
\* with it give together a burst, that refill, and what the differences of their
\* clocks refill over again at every turn from a slow clock to a fast one.  The
\* key's expiry gives nothing away.
LimitsNeverLift ==
    \A from, to \in DOMAIN requestsMade : from <= to =>
       LET elapsed == requestsMade[to].at - requestsMade[from].at IN
       /\ \A i \in Instances : Given(LocalIn(i, from, to)) <= BucketSize + PerTick * elapsed
       /\ Given(SharedIn(from, to)) <= BucketSize + PerTick * (elapsed + Lead(from, to))
=============================================================================
