------------------------ MODULE RuntimeLimits_proofs -------------------------
(***************************************************************************)
(* For every value of the constants, what the runtimes let through: the    *)
(* policy of the providers, the bucket of a client, the limiter of the     *)
(* ingress, audit partitions and roles, affiliate links and commissions,   *)
(* outreach to a contact and the deliveries of the event bus.  Each part   *)
(* has an inductive invariant of its own.                                  *)
(***************************************************************************)
EXTENDS ProviderPolicy, TokenBucket, IngressLimits, AuditAndRoles, AffiliateMemory, Outreach,
        EventBus, RuntimeRecords_proofs

-----------------------------------------------------------------------------
(* The policy for providers.                                               *)

\* Appending adds what is appended, and nothing else.
LEMMA AppendedRange ==
    ASSUME NEW S, NEW s \in Seq(S), NEW e \in S
    PROVE  {Append(s, e)[i] : i \in DOMAIN Append(s, e)} = {s[i] : i \in DOMAIN s} \cup {e}
<1>1. /\ DOMAIN Append(s, e) = 1..(Len(s) + 1) /\ DOMAIN s = 1..Len(s) /\ Len(s) \in Nat
      /\ Append(s, e)[Len(s) + 1] = e
      /\ \A i \in 1..Len(s) : Append(s, e)[i] = s[i]
  OBVIOUS
<1>2. ASSUME NEW i \in 1..(Len(s) + 1) PROVE Append(s, e)[i] \in {s[j] : j \in DOMAIN s} \cup {e}
  BY <1>1
<1>3. ASSUME NEW i \in DOMAIN s PROVE \E j \in DOMAIN Append(s, e) : s[i] = Append(s, e)[j]
  BY <1>1
<1>4. \E j \in DOMAIN Append(s, e) : e = Append(s, e)[j]
  BY <1>1
<1> QED BY <1>1, <1>2, <1>3, <1>4

\* The registered versions are those of the history, and one of them is newest;
\* every post carried a key.
PolicyInv ==
    /\ ProviderTypeOK
    /\ RegisteredVersions = {history[i] : i \in DOMAIN history}
    /\ RegisteredVersions # {} =>
         \E v \in RegisteredVersions : \A w \in RegisteredVersions \ {v} : Newer(v, w)
    /\ \A i \in DOMAIN posts : posts[i].keyed

\* The code's comparison is the order of releases, and it is total.
LEMMA NewerIsLater ==
    ASSUME NEW v \in PolicyVersions, NEW w \in PolicyVersions
    PROVE  /\ Newer(v, w) <=> ReleasedAfter(v, w)
           /\ v # w => Newer(v, w) \/ Newer(w, v)
           /\ ~(Newer(v, w) /\ Newer(w, v))
           /\ \A u \in PolicyVersions : Newer(u, v) /\ Newer(v, w) => Newer(u, w)
<1>1. PICK v1 \in Nat, v2 \in Nat, v3 \in Nat : v = <<v1, v2, v3>>
  BY PolicyVersionsAssumption
<1>2. PICK w1 \in Nat, w2 \in Nat, w3 \in Nat : w = <<w1, w2, w3>>
  BY PolicyVersionsAssumption
<1>3. ReleasedAfter(v, w) <=> \/ v[1] > w[1]
                              \/ v[2] > w[2] /\ v[1] = w[1]
                              \/ v[3] > w[3] /\ v[1] = w[1] /\ v[2] = w[2]
  <2>1. 1..3 = {1, 2, 3} /\ 1..(1 - 1) = {} /\ 1..(2 - 1) = {1} /\ 1..(3 - 1) = {1, 2}
    OBVIOUS
  <2> QED BY <2>1 DEF ReleasedAfter
<1>4. ASSUME NEW u \in PolicyVersions, Newer(u, v), Newer(v, w) PROVE Newer(u, w)
  <2>1. PICK u1 \in Nat, u2 \in Nat, u3 \in Nat : u = <<u1, u2, u3>>
    BY PolicyVersionsAssumption
  <2> QED BY <1>1, <1>2, <1>4, <2>1 DEF Newer
<1> QED BY <1>1, <1>2, <1>3, <1>4 DEF Newer

\* The provider policies start within their invariant.
LEMMA PolicyStarts == ProviderInit => PolicyInv
BY DEF ProviderInit, PolicyInv, RegisteredVersions, ProviderTypeOK

\* A version that is registered is newer than the newest or leaves it so.
LEMMA RegisterKeepsNewest ==
    ASSUME PolicyInv, NEW v \in PolicyVersions, NEW d \in Declarations, register(v, d)
    PROVE  PolicyInv'
<1> USE DEF PolicyInv, ProviderTypeOK, register
<1>1. RegisteredVersions' = RegisteredVersions \cup {v} /\ v \notin RegisteredVersions
  BY DEF RegisteredVersions
<1>2. {history'[i] : i \in DOMAIN history'} = {history[i] : i \in DOMAIN history} \cup {v}
  BY AppendedRange
<1>3. \E n \in RegisteredVersions' : \A w \in RegisteredVersions' \ {n} : Newer(n, w)
  <2>0. RegisteredVersions \subseteq PolicyVersions BY DEF RegisteredVersions
  <2>3. \A w : w \in RegisteredVersions' <=> w \in RegisteredVersions \/ w = v
    BY <1>1
  <2> HIDE DEF PolicyInv, ProviderTypeOK, register
  <2>1. CASE RegisteredVersions = {} BY <2>3, <2>1
  <2>2. CASE RegisteredVersions # {}
    <3>1. PICK n \in RegisteredVersions : \A w \in RegisteredVersions \ {n} : Newer(n, w)
      BY <2>2 DEF PolicyInv
    <3>2. n \in PolicyVersions /\ n # v BY <2>0, <1>1
    <3>3. CASE Newer(n, v) BY <3>1, <3>3, <2>3
    <3>4. CASE Newer(v, n)
      <4>1. \A w \in RegisteredVersions \ {n} : Newer(v, w)
        BY <3>1, <3>2, <3>4, <2>0, NewerIsLater
      <4> QED BY <4>1, <3>4, <2>3
    <3> QED BY <3>2, <3>3, <3>4, NewerIsLater
  <2> QED BY <2>1, <2>2
<1>4. ProviderTypeOK'
  OBVIOUS
<1>5. RegisteredVersions' = {history'[i] : i \in DOMAIN history'}
  BY <1>1, <1>2
<1>6. \A i \in DOMAIN posts' : posts'[i].keyed
  OBVIOUS
<1> QED BY <1>3, <1>4, <1>5, <1>6

\* A published version keeps the invariant of the policies.
LEMMA PublishKeeps ==
    ASSUME PolicyInv, NEW a, NEW k \in BOOLEAN, NEW r \in {"queued", "failed", "no_id"},
           publish(a, k, r)
    PROVE  PolicyInv'
<1> USE DEF PolicyInv, ProviderTypeOK, publish
<1>1. ProviderTypeOK' OBVIOUS
<1>2. \A i \in DOMAIN posts' : posts'[i].keyed
  OBVIOUS
<1>3. RegisteredVersions' = RegisteredVersions /\ history' = history
  BY DEF RegisteredVersions
<1> QED BY <1>1, <1>2, <1>3

\* Every step of the policies keeps their invariant.
LEMMA PolicyStepInv == PolicyInv /\ [ProviderNext]_policyVars => PolicyInv'
<1> SUFFICES ASSUME PolicyInv, [ProviderNext]_policyVars PROVE PolicyInv'
  OBVIOUS
<1>1. CASE UNCHANGED policyVars
  BY <1>1 DEF PolicyInv, ProviderTypeOK, policyVars, RegisteredVersions
<1> QED BY <1>1, RegisterKeepsNewest, PublishKeeps DEF ProviderNext

\* The latest entry is the newest, and it is asked.
LEMMA PolicyInvGoverns == PolicyInv => ProvidersAreGoverned
<1> SUFFICES ASSUME PolicyInv PROVE ProvidersAreGoverned OBVIOUS
<1>1. NewestDecides
  <2> SUFFICES ASSUME NEW cap \in Capabilities, NEW a \in ApprovalContexts, NEW k \in BOOLEAN,
                      resolveAware(cap, a, k), OverrideOf(cap) # "available"
               PROVE  \E i \in DOMAIN history :
                        /\ \A j \in DOMAIN history : ~ReleasedAfter(history[j], history[i])
                        /\ \E d \in policyEntries[history[i]] : Lower[cap] \in d
    BY DEF NewestDecides
  <2>1. RegisteredVersions # {} /\ Lower[cap] \in DeclaredAt(getLatest)
    <3>1. evaluatePolicy(cap, a, k).allowed
      BY DEF resolveAware
    <3> QED BY <3>1 DEF evaluatePolicy, PolicyVerdict
  <2>2. getLatest \in RegisteredVersions
        /\ \A w \in RegisteredVersions \ {getLatest} : Newer(getLatest, w)
    BY <2>1 DEF PolicyInv, getLatest
  <2> DEFINE n == getLatest
  <2>3. PICK i \in DOMAIN history : history[i] = n
    BY <2>2 DEF PolicyInv
  <2>4. RegisteredVersions \subseteq PolicyVersions BY DEF RegisteredVersions
  <2>5. ASSUME NEW w \in RegisteredVersions PROVE ~ReleasedAfter(w, n)
    <3>1. n \in PolicyVersions /\ w \in PolicyVersions BY <2>2, <2>4
    <3>2. CASE w = n
      <4>1. ~Newer(w, w) BY <3>1, NewerIsLater
      <4> QED BY <4>1, <3>1, <3>2, NewerIsLater
    <3>3. CASE w # n BY <3>1, <3>3, <2>2, NewerIsLater
    <3> QED BY <3>2, <3>3
  <2>6. \A j \in DOMAIN history : history[j] \in RegisteredVersions
    BY DEF PolicyInv
  <2>7. DeclaredAt(n) \in policyEntries[n]
    BY <2>2 DEF DeclaredAt, RegisteredVersions
  <2> HIDE DEF n
  <2> QED BY <2>1, <2>3, <2>5, <2>6, <2>7 DEF n
<1>2. MutationsAreApproved
  <2> SUFFICES ASSUME NEW cap \in Capabilities, NEW a \in ApprovalContexts, NEW k \in BOOLEAN
               PROVE  /\ a # "flag_and_id" /\ Changes(cap) /\ OverrideOf(cap) # "available" =>
                           /\ ~resolvePlain(cap, a)
                           /\ Lower[cap] = cap => ~resolveAware(cap, a, k)
                      /\ OverrideOf(cap) \in Forbidding =>
                           ~resolveAware(cap, a, k) /\ ~resolvePlain(cap, a)
    BY DEF PolicyInv, MutationsAreApproved, Forbidding
  <2>1. KindOf[cap] = "read" => ~Changes(cap)
    BY SpellingsAssumption DEF Changes
  <2>2. Changes(cap) /\ Lower[cap] = cap => KindOf[cap] = "mutating"
    BY DEF Changes
  <2> QED BY <2>1, <2>2 DEF resolveAware, resolvePlain, evaluatePolicy, PolicyVerdict,
                          decideApproval, Forbidding
<1> QED BY <1>1, <1>2 DEF ProvidersAreGoverned

\* For any spellings, versions and overrides: the newest declaration decides
\* whatever the order of registration, and no change that is spelled as the
\* entries spell it goes without an approval; however it is spelled, the adapter
\* without a policy lets none through.
THEOREM ProvidersStayGoverned == ProviderSpec => []ProvidersAreGoverned
<1>1. ProviderSpec => []PolicyInv
  BY PolicyStarts, PolicyStepInv, PTL DEF ProviderSpec
<1> QED BY <1>1, PolicyInvGoverns, PTL

-----------------------------------------------------------------------------
(* The bucket of tokens.                                                   *)

\* The parts of each grant.
PartsOf(granted) == [k \in DOMAIN granted |-> granted[k].parts]

\* What is in the bucket is within what the grants since any one of them left over.
LeftOver ==
    \A i \in DOMAIN bucketGrants :
        SumFunctionOnSet(PartsOf(bucketGrants), i..Len(bucketGrants)) + tokens
            <= Capacity + Refill * (lastRefill - bucketGrants[i].at)

\* For how long a caller still waits, counted from the last refill.
PauseLeft(w) == IF waiters[w].until >= lastRefill THEN waiters[w].until - lastRefill ELSE 0

\* A caller that waits will find its tokens, unless somebody was granted some meanwhile.
Promised(w) ==
    waiters[w].pc = "waiting" =>
        /\ waiters[w].seen <= Len(bucketGrants)
        /\ waiters[w].count * TokenParts <= Capacity
        /\ waiters[w].seen = Len(bucketGrants) =>
              waiters[w].count * TokenParts <= tokens + Refill * PauseLeft(w)

\* Grants are within the rate, and so is what they left over.
BucketInv ==
    /\ BucketTypeOK
    /\ tokens <= Capacity /\ lastRefill <= bucketClock
    /\ \A i \in DOMAIN bucketGrants : bucketGrants[i].at <= lastRefill
    /\ GrantsWithinRate /\ LeftOver
    /\ \A w \in Callers : Promised(w)

\* The bucket starts within its invariant.
LEMMA BucketStarts == BucketInit => BucketInv
BY BucketAssumption DEF BucketInit, BucketInv, BucketTypeOK, GrantsWithinRate, LeftOver, Promised, NotWaiting

\* What the bucket holds now is no more than it can, nor than the time refilled.
LEMMA RefilledBounds ==
    ASSUME BucketInv
    PROVE  /\ Refilled \in Nat /\ Refilled <= Capacity /\ tokens <= Refilled
           /\ Refilled <= tokens + Refill * (bucketClock - lastRefill)
           /\ Refilled = Capacity \/ Refilled = tokens + Refill * (bucketClock - lastRefill)
           /\ Refill * (bucketClock - lastRefill) \in Nat
<1>1. bucketClock - lastRefill \in Nat /\ tokens \in Nat /\ Capacity \in Nat /\ Refill \in Nat
  BY BucketAssumption DEF BucketInv, BucketTypeOK
<1>2. Refill * (bucketClock - lastRefill) \in Nat BY <1>1
<1>3. tokens <= Capacity BY DEF BucketInv
<1>4. tokens + Refill * (bucketClock - lastRefill) \in Int BY <1>1, <1>2
<1> DEFINE r == Refill * (bucketClock - lastRefill)
<1>5. Refilled \in {Capacity, tokens + r} /\ Refilled <= Capacity /\ Refilled <= tokens + r
  BY <1>1, <1>4, MinOfTwo DEF Refilled
<1>6. r \in Nat BY <1>2
<1> HIDE DEF r
<1>7. Refilled \in Nat /\ tokens <= Refilled /\ (Refilled = Capacity \/ Refilled = tokens + r)
  BY <1>1, <1>3, <1>5, <1>6
<1> QED BY <1>5, <1>6, <1>7 DEF r

\* What is refilled over two spells is what is refilled over both.
LEMMA RefillSplits ==
    ASSUME NEW a \in Int, NEW b \in Int, NEW c \in Int
    PROVE  Refill * (a - b) + Refill * (b - c) = Refill * (a - c)
BY BucketAssumption

\* The counts asked for are naturals.
LEMMA CountsAreNat == \A c \in {0} \cup Asked : c \in Nat
BY BucketAssumption

\* A longer spell refills no less.
LEMMA RefillGrows ==
    ASSUME NEW a \in Nat, NEW b \in Nat, a <= b
    PROVE  Refill * a <= Refill * b
<1>1. PICK d \in Nat : b = a + d
  <2>1. b - a \in Nat /\ b = a + (b - a) OBVIOUS
  <2> QED BY <2>1
<1>2. Refill * (a + d) = Refill * a + Refill * d /\ Refill * a \in Nat /\ Refill * d \in Nat
  BY BucketAssumption
<1> QED BY <1>1, <1>2

\* A grant takes from what is there.
LEMMA TakeKeepsRate ==
    ASSUME BucketInv, NEW parts \in Nat, parts <= Refilled, Take(parts)
    PROVE  /\ tokens' \in Nat /\ tokens' <= Capacity
           /\ lastRefill' = bucketClock
           /\ bucketGrants' \in Seq([at : 0..BucketEnd, parts : Nat])
           /\ Len(bucketGrants') = Len(bucketGrants) + 1
           /\ \A i \in DOMAIN bucketGrants' : bucketGrants'[i].at <= bucketClock
           /\ GrantsWithinRate'
           /\ LeftOver'
<1> DEFINE s == bucketGrants
           g == [at |-> bucketClock, parts |-> parts]
           n == Len(s)
           old == PartsOf(s)
           new == PartsOf(bucketGrants')
<1>0. /\ Refilled \in Nat /\ Refilled <= Capacity
      /\ Refilled <= tokens + Refill * (bucketClock - lastRefill)
      /\ tokens \in Nat /\ Capacity \in Nat
  BY RefilledBounds, BucketAssumption DEF BucketInv, BucketTypeOK
<1>1. tokens' = Refilled - parts /\ lastRefill' = bucketClock /\ bucketGrants' = Append(s, g)
  BY DEF Take
<1>2. s \in Seq([at : 0..BucketEnd, parts : Nat]) /\ g \in [at : 0..BucketEnd, parts : Nat]
  BY DEF BucketInv, BucketTypeOK
<1>3. /\ n \in Nat /\ DOMAIN s = 1..n /\ DOMAIN bucketGrants' = 1..(n + 1)
      /\ bucketGrants'[n + 1] = g /\ \A i \in 1..n : bucketGrants'[i] = s[i]
      /\ bucketGrants' \in Seq([at : 0..BucketEnd, parts : Nat]) /\ Len(bucketGrants') = n + 1
  BY <1>1, <1>2
<1>4. \A i \in 1..n : s[i].at <= lastRefill /\ s[i].at \in Int /\ s[i].parts \in Nat
  <2>1. \A i \in 1..n : s[i] \in [at : 0..BucketEnd, parts : Nat]
    <3> DEFINE R == [at : 0..BucketEnd, parts : Nat]
    <3>1. s \in Seq(R) BY <1>2
    <3> HIDE DEF R
    <3>2. \A i \in 1..Len(s) : s[i] \in R BY <3>1
    <3> QED BY <3>2 DEF R
  <2>2. \A i \in 1..n : s[i].at \in 0..BucketEnd /\ s[i].parts \in Nat BY <2>1
  <2>3. \A i \in 1..n : s[i].at <= lastRefill BY <1>3 DEF BucketInv
  <2> QED BY <2>2, <2>3
<1>5. lastRefill \in Int /\ bucketClock \in Int /\ lastRefill <= bucketClock /\ Refill \in Nat
  BY BucketAssumption DEF BucketInv, BucketTypeOK
<1>6. /\ \A k \in 1..n : new[k] = old[k] /\ old[k] \in Nat /\ new[k] \in Nat
      /\ new[n + 1] = parts
  BY <1>3, <1>4 DEF PartsOf
<1> HIDE DEF old, new
<1>7. ASSUME NEW i \in 1..(n + 1), NEW j \in 0..n
      PROVE  SumFunctionOnSet(new, i..j) = SumFunctionOnSet(old, i..j)
             /\ SumFunctionOnSet(old, i..j) \in Nat
  <2>1. i \in Int /\ j \in Int BY <1>3
  <2>2. \A k \in i..j : k \in 1..n BY <1>3
  <2>3. \A k \in i..j : old[k] = new[k] /\ old[k] \in Nat BY <1>6, <2>2
  <2> QED BY <2>1, <2>3, SumsOfStretch
<1>8. ASSUME NEW i \in 1..(n + 1)
      PROVE  SumFunctionOnSet(new, i..(n + 1)) = SumFunctionOnSet(old, i..n) + parts
             /\ SumFunctionOnSet(old, i..n) \in Nat
  <2>1. i \in Nat /\ i <= n + 1 /\ n \in 0..n BY <1>3
  <2>2. \A k \in i..(n + 1) : k \in 1..n \/ k = n + 1 BY <1>3
  <2>3. \A k \in i..(n + 1) : new[k] \in Int BY <2>2, <1>6
  <2>4. SumFunctionOnSet(new, i..(n + 1)) = SumFunctionOnSet(new, i..n) + new[n + 1]
    <3> HIDE DEF n
    <3> QED BY <2>1, <1>3, <2>3, SumToNext
  <2> QED BY <2>1, <2>4, <1>6, <1>7
<1>9. ASSUME NEW i \in 1..(n + 1)
      PROVE  SumFunctionOnSet(new, i..(n + 1)) + tokens'
               <= Capacity + Refill * (bucketClock - bucketGrants'[i].at)
  <2>1. CASE i \in 1..n
    <3>1. SumFunctionOnSet(old, i..n) + tokens <= Capacity + Refill * (lastRefill - s[i].at)
      BY <2>1, <1>3 DEF BucketInv, LeftOver, old
    <3>3. Refill * (bucketClock - lastRefill) + Refill * (lastRefill - s[i].at)
             = Refill * (bucketClock - s[i].at)
      BY <2>1, <1>4, <1>5, RefillSplits
    <3>4. Refill * (bucketClock - lastRefill) \in Int /\ Refill * (lastRefill - s[i].at) \in Int
          /\ Refill * (bucketClock - s[i].at) \in Int
      BY <2>1, <1>4, <1>5
    <3>5. bucketGrants'[i].at = s[i].at BY <2>1, <1>3
    <3>6. SumFunctionOnSet(new, i..(n + 1)) = SumFunctionOnSet(old, i..n) + parts
          /\ SumFunctionOnSet(old, i..n) \in Nat
      BY <1>8
    <3> DEFINE a == SumFunctionOnSet(new, i..(n + 1))
               b == SumFunctionOnSet(old, i..n)
               x == Refill * (bucketClock - lastRefill)
               y == Refill * (lastRefill - s[i].at)
               z == Refill * (bucketClock - s[i].at)
    <3> HIDE DEF a, b, x, y, z
    <3>7. b + tokens <= Capacity + y /\ x + y = z /\ a = b + parts /\ b \in Nat
          /\ x \in Int /\ y \in Int /\ z \in Int
      BY <3>1, <3>3, <3>4, <3>6 DEF a, b, x, y, z
    <3>8. a + tokens' <= Capacity + z
      BY <3>7, <1>0, <1>1 DEF x
    <3> QED BY <3>5, <3>8 DEF a, z
  <2>2. CASE i = n + 1
    <3>1. bucketGrants'[i].at = bucketClock BY <2>2, <1>3
    <3>2. Refill * (bucketClock - bucketClock) = 0 BY <1>5
    <3>3. i..n = {} BY <2>2, <1>3
    <3>4. SumFunctionOnSet(old, i..n) = SumFunctionOnSet(old, {}) BY <3>3, Zenon
    <3>5. SumFunctionOnSet(new, i..(n + 1)) = parts BY <3>4, <1>8, SumOfNone
    <3> HIDE DEF n, s
    <3> QED BY <3>1, <3>2, <3>5, <1>0, <1>1
  <2> QED BY <2>1, <2>2, <1>3
<1>10. GrantsWithinRate'
  <2> SUFFICES ASSUME NEW i \in 1..(n + 1), NEW j \in 1..(n + 1), i <= j
               PROVE  SumFunctionOnSet(new, i..j)
                        <= Capacity + Refill * (bucketGrants'[j].at - bucketGrants'[i].at)
    BY <1>3 DEF GrantsWithinRate, new, PartsOf
  <2>1. CASE j = n + 1
    <3>1. bucketGrants'[j].at = bucketClock /\ bucketGrants'[i].at \in Int
      <4>1. bucketGrants'[n + 1].at = bucketClock BY <1>3
      <4>2. CASE i = n + 1 BY <4>1, <4>2, <2>1, <1>5
      <4>3. CASE i # n + 1
        <5>1. i \in 1..n BY <4>3, <1>3
        <5>2. bucketGrants'[i] = s[i] /\ s[i].at \in Int BY <5>1, <1>3, <1>4
        <5> QED BY <4>1, <2>1, <5>2
      <4> QED BY <4>2, <4>3
    <3>2. SumFunctionOnSet(new, i..j) \in Int /\ tokens' \in Nat
      BY <2>1, <1>8, <1>0, <1>1
    <3>3. Refill * (bucketClock - bucketGrants'[i].at) \in Int BY <3>1, <1>5
    <3> HIDE DEF n, s
    <3> QED BY <2>1, <3>1, <3>2, <3>3, <1>0, <1>9
  <2>2. CASE j # n + 1
    <3>1. j \in 1..n /\ j \in 0..n /\ i \in 1..n BY <2>2, <1>3
    <3>2. SumFunctionOnSet(old, i..j) <= Capacity + Refill * (s[j].at - s[i].at)
      BY <3>1, <1>3 DEF BucketInv, GrantsWithinRate, old, PartsOf
    <3>3. bucketGrants'[j] = s[j] /\ bucketGrants'[i] = s[i] BY <3>1, <1>3
    <3> HIDE DEF n, s
    <3> QED BY <3>1, <3>2, <3>3, <1>7
  <2> QED BY <2>1, <2>2
<1>11. \A i \in DOMAIN bucketGrants' : bucketGrants'[i].at <= bucketClock
  <2> SUFFICES ASSUME NEW i \in 1..(n + 1) PROVE bucketGrants'[i].at <= bucketClock
    BY <1>3
  <2>1. CASE i \in 1..n BY <2>1, <1>3, <1>4, <1>5
  <2>2. CASE i = n + 1 BY <2>2, <1>3, <1>5
  <2> QED BY <2>1, <2>2, <1>3
<1>12. tokens' \in Nat /\ tokens' <= Capacity
  BY <1>0, <1>1
<1>13. LeftOver'
  BY <1>1, <1>3, <1>9 DEF LeftOver, new
<1> QED BY <1>1, <1>3, <1>10, <1>11, <1>12, <1>13

\* A refusal only brings the bucket up to date.
LEMMA RefuseKeepsRate ==
    ASSUME BucketInv, Refuse
    PROVE  /\ tokens' \in Nat /\ tokens' <= Capacity
           /\ lastRefill' = bucketClock
           /\ bucketGrants' = bucketGrants
           /\ \A i \in DOMAIN bucketGrants : bucketGrants[i].at <= bucketClock
           /\ GrantsWithinRate' /\ LeftOver'
<1>1. tokens' = Refilled /\ lastRefill' = bucketClock /\ bucketGrants' = bucketGrants
  BY DEF Refuse
<1>2. lastRefill \in Int /\ bucketClock \in Int /\ lastRefill <= bucketClock /\ Refill \in Nat
      /\ tokens \in Nat /\ Capacity \in Nat
  BY BucketAssumption DEF BucketInv, BucketTypeOK
<1>3. ASSUME NEW i \in DOMAIN bucketGrants
      PROVE  bucketGrants[i].at <= lastRefill /\ bucketGrants[i] \in [at : 0..BucketEnd, parts : Nat]
  <2> DEFINE R == [at : 0..BucketEnd, parts : Nat]
  <2>1. bucketGrants \in Seq(R) BY DEF BucketInv, BucketTypeOK
  <2> HIDE DEF R
  <2>2. bucketGrants[i] \in R BY <2>1
  <2> QED BY <2>2 DEF R, BucketInv
<1>4. LeftOver'
  <2> SUFFICES ASSUME NEW i \in DOMAIN bucketGrants
               PROVE  SumFunctionOnSet(PartsOf(bucketGrants), i..Len(bucketGrants)) + Refilled
                        <= Capacity + Refill * (bucketClock - bucketGrants[i].at)
    BY <1>1 DEF LeftOver
  <2> DEFINE b == SumFunctionOnSet(PartsOf(bucketGrants), i..Len(bucketGrants))
             x == Refill * (bucketClock - lastRefill)
             y == Refill * (lastRefill - bucketGrants[i].at)
             z == Refill * (bucketClock - bucketGrants[i].at)
  <2>1. b + tokens <= Capacity + y BY DEF BucketInv, LeftOver
  <2>2. bucketGrants[i].at \in Int BY <1>3, BucketAssumption
  <2>3. x + y = z /\ x \in Int /\ y \in Int /\ z \in Int
    BY <1>2, <2>2, RefillSplits
  <2>4. Refilled <= tokens + x /\ Refilled \in Nat BY RefilledBounds
  <2>5. b \in Int
    <3>1. \A k \in i..Len(bucketGrants) : k \in DOMAIN bucketGrants
      BY DEF BucketInv, BucketTypeOK
    <3>2. \A k \in i..Len(bucketGrants) : PartsOf(bucketGrants)[k] \in Nat
      BY <3>1, <1>3 DEF PartsOf
    <3>3. IsFiniteSet(i..Len(bucketGrants))
      <4>1. i \in Int /\ Len(bucketGrants) \in Int BY DEF BucketInv, BucketTypeOK
      <4> QED BY <4>1, FS_Interval
    <3> QED BY <3>2, <3>3, SumOfNats
  <2> HIDE DEF b, x, y, z
  <2>6. b + Refilled <= Capacity + z BY <2>1, <2>3, <2>4, <2>5, <1>2
  <2> QED BY <2>6 DEF b, z
<1>5. GrantsWithinRate' BY <1>1 DEF GrantsWithinRate, BucketInv
<1>6. \A i \in DOMAIN bucketGrants : bucketGrants[i].at <= bucketClock
  BY <1>2, <1>3, BucketAssumption
<1> QED BY <1>1, <1>4, <1>5, <1>6, RefilledBounds

\* What a caller was told stays true when the bucket is brought up to date.
LEMMA RefuseKeepsPromise ==
    ASSUME BucketInv, NEW w \in Callers, waiters'[w] = waiters[w], Refuse
    PROVE  Promised(w)'
<1> SUFFICES ASSUME waiters[w].pc = "waiting", waiters[w].seen = Len(bucketGrants)
             PROVE  waiters[w].count * TokenParts <= Refilled + Refill * (PauseLeft(w)')
  BY DEF BucketInv, Promised, Refuse, PauseLeft
<1> DEFINE parts == waiters[w].count * TokenParts
           until == waiters[w].until
<1>1. parts <= Capacity /\ parts <= tokens + Refill * PauseLeft(w)
  BY DEF BucketInv, Promised
<1>2. /\ until \in Nat /\ waiters[w].count \in Nat /\ lastRefill \in Nat /\ bucketClock \in Nat
      /\ lastRefill <= bucketClock /\ tokens \in Nat
  <2>1. waiters[w] \in [pc : {"idle", "waiting"}, count : {0} \cup Asked, until : Nat,
                                waited : 0..MaxWait, seen : Nat]
    BY DEF BucketInv, BucketTypeOK
  <2>2. waiters[w].until \in Nat /\ waiters[w].count \in {0} \cup Asked BY <2>1
  <2>3. lastRefill \in 0..BucketEnd /\ bucketClock \in 0..BucketEnd /\ tokens \in Nat
        /\ lastRefill <= bucketClock
    BY DEF BucketInv, BucketTypeOK
  <2>4. \A c \in {0} \cup Asked : c \in Nat BY CountsAreNat
  <2>5. \A t \in 0..BucketEnd : t \in Nat BY BucketAssumption
  <2> QED BY <2>2, <2>3, <2>4, <2>5
<1>3. parts \in Nat BY <1>2, BucketAssumption
<1>4. PauseLeft(w)' = IF until >= bucketClock THEN until - bucketClock ELSE 0
  BY DEF PauseLeft, Refuse
<1>5. Refill * (PauseLeft(w)') \in Nat
  <2>1. PauseLeft(w)' \in Nat BY <1>2, <1>4
  <2> QED BY <2>1, BucketAssumption
<1>6. CASE Refilled = Capacity
  BY <1>1, <1>3, <1>5, <1>6, BucketAssumption
<1>7. CASE Refilled = tokens + Refill * (bucketClock - lastRefill)
  <2>1. Refill * PauseLeft(w) <= Refill * (bucketClock - lastRefill) + Refill * (PauseLeft(w)')
    <3>1. CASE until >= bucketClock
      <4>1. PauseLeft(w) = until - lastRefill /\ PauseLeft(w)' = until - bucketClock
        BY <3>1, <1>2, <1>4 DEF PauseLeft
      <4>2. Refill * (until - bucketClock) + Refill * (bucketClock - lastRefill) = Refill * (until - lastRefill)
        <5>1. until \in Int /\ bucketClock \in Int /\ lastRefill \in Int BY <1>2
        <5> HIDE DEF until
        <5> QED BY <5>1, RefillSplits
      <4>3. Refill * (until - bucketClock) \in Int /\ Refill * (bucketClock - lastRefill) \in Int
            /\ Refill * (until - lastRefill) \in Int
        BY <1>2, BucketAssumption
      <4> QED BY <4>1, <4>2, <4>3
    <3>2. CASE until < bucketClock
      <4>1. PauseLeft(w) <= bucketClock - lastRefill /\ PauseLeft(w) \in Nat
        BY <3>2, <1>2 DEF PauseLeft
      <4>2. bucketClock - lastRefill \in Nat BY <1>2
      <4>3. Refill * PauseLeft(w) <= Refill * (bucketClock - lastRefill)
        BY <4>1, <4>2, RefillGrows
      <4>4. Refill * PauseLeft(w) \in Int /\ Refill * (bucketClock - lastRefill) \in Int
        BY <4>1, <4>2, BucketAssumption
      <4> QED BY <4>3, <4>4, <1>5
    <3> QED BY <3>1, <3>2, <1>2
  <2>2. Refill * PauseLeft(w) \in Nat /\ Refill * (bucketClock - lastRefill) \in Nat
    <3>1. PauseLeft(w) \in Nat BY <1>2 DEF PauseLeft
    <3> QED BY <3>1, RefilledBounds, BucketAssumption
  <2> DEFINE a == Refill * PauseLeft(w)
             b == Refill * (bucketClock - lastRefill)
             c == Refill * (PauseLeft(w)')
  <2>3. a <= b + c /\ parts <= tokens + a /\ Refilled = tokens + b /\ a \in Nat /\ b \in Nat /\ c \in Nat
    BY <2>1, <2>2, <1>1, <1>5, <1>7
  <2> HIDE DEF a, b, c, parts
  <2>4. parts <= Refilled + c BY <2>3, <1>2, <1>3
  <2> QED BY <2>4 DEF parts, c
<1> QED BY <1>6, <1>7, RefilledBounds

\* A grant makes every caller that waits look again.
LEMMA TakeKeepsPromise ==
    ASSUME BucketInv, NEW w \in Callers, waiters'[w] = waiters[w],
           Len(bucketGrants') = Len(bucketGrants) + 1
    PROVE  Promised(w)'
<1>1. waiters[w].seen \in Nat /\ Len(bucketGrants) \in Nat
  BY DEF BucketInv, BucketTypeOK
<1> QED BY <1>1 DEF BucketInv, Promised

\* A try for tokens keeps the bucket's invariant.
LEMMA tryAcquireKeeps ==
    ASSUME BucketInv, NEW n \in Asked, tryAcquire(n)
    PROVE  BucketInv'
<1>1. n * TokenParts \in Nat BY BucketAssumption
<1>2. waiters' = waiters /\ bucketClock' = bucketClock BY DEF tryAcquire
<1>3. bucketClock \in 0..BucketEnd /\ bucketClock <= bucketClock
  BY BucketAssumption DEF BucketInv, BucketTypeOK
<1>4. CASE n * TokenParts <= Refilled
  <2>1. Take(n * TokenParts) BY <1>4 DEF tryAcquire
  <2>2. \A w \in Callers : Promised(w)'
    BY <1>1, <1>2, <1>4, <2>1, TakeKeepsRate, TakeKeepsPromise
  <2> QED BY <1>1, <1>2, <1>3, <1>4, <2>1, <2>2, TakeKeepsRate DEF BucketInv, BucketTypeOK
<1>5. CASE ~(n * TokenParts <= Refilled)
  <2>1. Refuse BY <1>5 DEF tryAcquire
  <2>2. \A w \in Callers : Promised(w)'
    BY <1>2, <2>1, RefuseKeepsPromise
  <2> QED BY <1>2, <1>3, <2>1, <2>2, RefuseKeepsRate DEF BucketInv, BucketTypeOK
<1> QED BY <1>4, <1>5

\* The pause that is told is long enough for the parts that are missing.
LEMMA PauseIsEnough ==
    ASSUME BucketInv, NEW parts \in Nat, parts > Refilled
    PROVE  RetryAfter(parts) \in Nat /\ parts <= Refilled + Refill * RetryAfter(parts)
<1>1. Refilled \in Nat /\ Refill \in Nat /\ Refill > 0 BY RefilledBounds, BucketAssumption
<1> DEFINE d == parts - Refilled + Refill - 1
<1>2. d \in Nat BY <1>1
<1>3. d \div Refill \in Nat /\ d = Refill * (d \div Refill) + (d % Refill) /\ d % Refill \in 0..(Refill - 1)
  BY <1>1, <1>2
<1>4. Refill * (d \div Refill) \in Nat BY <1>1, <1>3
<1>5. d <= Refill * (d \div Refill) + Refill - 1 BY <1>1, <1>3, <1>4
<1> QED BY <1>1, <1>3, <1>4, <1>5 DEF RetryAfter

\* A round of a waiting caller keeps the bucket's invariant.
LEMMA RoundKeeps ==
    ASSUME BucketInv, NEW w \in Callers, NEW n \in {0} \cup Asked, NEW waited \in 0..MaxWait,
           n * TokenParts <= Capacity, Round(w, n, waited)
    PROVE  BucketInv'
<1> DEFINE parts == n * TokenParts
           W == [pc : {"idle", "waiting"}, count : {0} \cup Asked, until : Nat,
                 waited : 0..MaxWait, seen : Nat]
<1>1. parts \in Nat BY BucketAssumption
<1>2. bucketClock' = bucketClock BY DEF Round
<1>3. bucketClock \in 0..BucketEnd /\ bucketClock <= bucketClock /\ bucketClock \in Nat
  BY BucketAssumption DEF BucketInv, BucketTypeOK
<1>4. waiters \in [Callers -> W] BY DEF BucketInv, BucketTypeOK
<1>5. NotWaiting \in W BY BucketAssumption DEF NotWaiting
<1>6. CASE parts <= Refilled
  <2>1. Take(parts) /\ waiters' = [waiters EXCEPT ![w] = NotWaiting] BY <1>6 DEF Round
  <2>2. Len(bucketGrants') = Len(bucketGrants) + 1 BY <1>1, <1>6, <2>1, TakeKeepsRate
  <2>3. waiters' \in [Callers -> W] BY <1>4, <1>5, <2>1
  <2>4. ASSUME NEW v \in Callers PROVE Promised(v)'
    <3>1. CASE v = w BY <1>4, <2>1, <3>1 DEF Promised, NotWaiting
    <3>2. CASE v # w
      <4>1. waiters'[v] = waiters[v] BY <1>4, <2>1, <3>2
      <4> QED BY <4>1, <2>2, TakeKeepsPromise
    <3> QED BY <3>1, <3>2
  <2> QED BY <1>1, <1>2, <1>3, <1>6, <2>1, <2>3, <2>4, TakeKeepsRate DEF BucketInv, BucketTypeOK
<1>7. CASE ~(parts <= Refilled)
  <2> DEFINE pause == RetryAfter(parts)
             told == [pc |-> "waiting", count |-> n, until |-> bucketClock + pause,
                      waited |-> waited + pause, seen |-> Len(bucketGrants)]
             next == IF waited + pause > MaxWait THEN NotWaiting ELSE told
  <2>1. Refuse /\ waiters' = [waiters EXCEPT ![w] = next] BY <1>7 DEF Round
  <2>2. pause \in Nat /\ parts <= Refilled + Refill * pause
    <3>1. parts > Refilled BY <1>1, <1>7, RefilledBounds
    <3> QED BY <1>1, <3>1, PauseIsEnough
  <2>3. Len(bucketGrants) \in Nat BY DEF BucketInv, BucketTypeOK
  <2> HIDE DEF pause, parts
  <2>4. next \in W
    BY <1>3, <1>5, <2>2, <2>3, BucketAssumption
  <2>5. waiters' \in [Callers -> W] BY <1>4, <2>1, <2>4
  <2>6. ASSUME NEW v \in Callers PROVE Promised(v)'
    <3>1. CASE v = w
      <4>1. waiters'[v] = next BY <1>4, <2>1, <3>1
      <4>2. CASE next = NotWaiting BY <4>1, <4>2 DEF Promised, NotWaiting
      <4>3. CASE next = told
        <5>1. tokens' = Refilled /\ lastRefill' = bucketClock /\ bucketGrants' = bucketGrants
          BY <2>1 DEF Refuse
        <5>2. PauseLeft(v)' = pause
          BY <4>1, <4>3, <5>1, <1>3, <2>2 DEF PauseLeft
        <5>3. Promised(v)' <=> (/\ Len(bucketGrants) <= Len(bucketGrants)
                                /\ n * TokenParts <= Capacity
                                /\ n * TokenParts <= Refilled + Refill * (PauseLeft(v)'))
          BY <4>1, <4>3, <5>1 DEF Promised
        <5> QED BY <5>2, <5>3, <2>2, <2>3 DEF parts
      <4> QED BY <4>2, <4>3
    <3>2. CASE v # w
      <4>1. waiters'[v] = waiters[v] BY <1>4, <2>1, <3>2
      <4> QED BY <4>1, <2>1, RefuseKeepsPromise
    <3> QED BY <3>1, <3>2
  <2> HIDE DEF next
  <2> QED BY <1>2, <1>3, <2>1, <2>5, <2>6, RefuseKeepsRate DEF BucketInv, BucketTypeOK
<1> QED BY <1>6, <1>7

\* Every step of the bucket keeps its invariant.
LEMMA BucketStepInv == BucketInv /\ [BucketNext]_bucketVars => BucketInv'
<1> SUFFICES ASSUME BucketInv, [BucketNext]_bucketVars PROVE BucketInv'
  OBVIOUS
<1>1. CASE UNCHANGED bucketVars
  BY <1>1 DEF bucketVars, BucketInv, BucketTypeOK, GrantsWithinRate, LeftOver, Promised, PauseLeft
<1>2. CASE bucketTick
  <2>1. lastRefill <= bucketClock' /\ bucketClock' \in 0..BucketEnd
    BY <1>2, BucketAssumption DEF bucketTick, BucketInv, BucketTypeOK
  <2>2. UNCHANGED <<tokens, lastRefill, waiters, bucketGrants>> BY <1>2 DEF bucketTick
  <2> QED BY <2>1, <2>2 DEF BucketInv, BucketTypeOK, GrantsWithinRate, LeftOver, Promised, PauseLeft
<1>3. ASSUME NEW w \in Callers, NEW n \in Asked, acquire(w, n) PROVE BucketInv'
  BY <1>3, RoundKeeps, BucketAssumption DEF acquire
<1>4. ASSUME NEW w \in Callers, acquireAgain(w) PROVE BucketInv'
  <2>1. waiters[w] \in [pc : {"idle", "waiting"}, count : {0} \cup Asked, until : Nat,
                        waited : 0..MaxWait, seen : Nat]
    BY DEF BucketInv, BucketTypeOK
  <2>2. waiters[w].count * TokenParts <= Capacity
    BY <1>4 DEF acquireAgain, BucketInv, Promised
  <2> QED BY <1>4, <2>1, <2>2, RoundKeeps DEF acquireAgain
<1> QED BY <1>1, <1>2, <1>3, <1>4, tryAcquireKeeps DEF BucketNext

\* What a caller finds after its pause.
LEMMA BucketInvKeepsRate == BucketInv => RateIsKept
<1> SUFFICES ASSUME BucketInv PROVE PauseSuffices BY DEF BucketInv, RateIsKept
<1> SUFFICES ASSUME NEW w \in Callers, waiters[w].pc = "waiting", bucketClock >= waiters[w].until,
                    waiters[w].seen = Len(bucketGrants)
             PROVE  waiters[w].count * TokenParts <= tokens + Refill * (bucketClock - lastRefill)
  BY DEF PauseSuffices
<1>1. waiters[w].count * TokenParts <= tokens + Refill * PauseLeft(w)
  BY DEF BucketInv, Promised
<1>2. waiters[w] \in [pc : {"idle", "waiting"}, count : {0} \cup Asked, until : Nat,
                       waited : 0..MaxWait, seen : Nat]
  BY DEF BucketInv, BucketTypeOK
<1>3. waiters[w].until \in Nat /\ waiters[w].count \in {0} \cup Asked BY <1>2
<1>4. lastRefill \in Nat /\ bucketClock \in Nat /\ tokens \in Nat /\ lastRefill <= bucketClock
  BY BucketAssumption DEF BucketInv, BucketTypeOK
<1>5. PauseLeft(w) \in Nat /\ bucketClock - lastRefill \in Nat /\ PauseLeft(w) <= bucketClock - lastRefill
  BY <1>3, <1>4 DEF PauseLeft
<1>6. Refill * PauseLeft(w) <= Refill * (bucketClock - lastRefill)
      /\ Refill * PauseLeft(w) \in Nat /\ Refill * (bucketClock - lastRefill) \in Nat
  BY <1>5, RefillGrows, BucketAssumption
<1>7. waiters[w].count * TokenParts \in Nat
  <2>1. \A c \in {0} \cup Asked : c \in Nat BY CountsAreNat
  <2>2. \A c \in Nat : c * TokenParts \in Nat BY BucketAssumption
  <2> QED BY <1>3, <2>1, <2>2
<1> QED BY <1>1, <1>4, <1>6, <1>7

\* No stretch of time grants more than a burst and the refill of that time, and
\* the pause a caller is told is enough.
THEOREM RateStaysKept == BucketSpec => []RateIsKept
<1>1. BucketSpec => []BucketInv
  BY BucketStarts, BucketStepInv, PTL DEF BucketSpec
<1> QED BY <1>1, BucketInvKeepsRate, PTL

-----------------------------------------------------------------------------
(* The limiter of incoming requests.                                       *)

Requests == [at : Nat, by : Instances, shared : BOOLEAN, allowed : BOOLEAN]

LimiterTypes ==
    /\ sharedBucket \in [tokens : Int, last : Int, written : Int]
    /\ -1 <= sharedBucket.tokens /\ sharedBucket.tokens <= BucketSize
    /\ sharedBucket.written <= limiterTime
    /\ clockSkew \in SkewChoices
    /\ localBuckets \in [Instances -> [tokens : Nat, last : Int]]
    /\ \A i \in Instances : /\ localBuckets[i].tokens <= BucketSize
                            /\ localBuckets[i].last - clockSkew[i] <= limiterTime
    /\ limiterTime \in Nat
    /\ requestsMade \in Seq(Requests)
    /\ \A k \in DOMAIN requestsMade : requestsMade[k].at <= limiterTime

\* What an instance has in its bucket is within what its requests without Redis left.
LocalRoom ==
    \A i \in Instances, from \in DOMAIN requestsMade :
       LET asked == LocalIn(i, from, Len(requestsMade))
           since == (localBuckets[i].last - clockSkew[i]) - requestsMade[from].at
       IN  asked # {} => since \in Nat /\ Given(asked) + localBuckets[i].tokens <= BucketSize + PerTick * since

\* So is what Redis holds; a bucket that expired was full again by then.
SharedRoom ==
    \A from \in DOMAIN requestsMade :
       LET asked == SharedIn(from, Len(requestsMade))
           lead  == Lead(from, Len(requestsMade))
           since == sharedBucket.written - requestsMade[from].at
       IN  asked # {} =>
             IF sharedBucket.tokens >= 0
               THEN since \in Nat /\ Given(asked) + sharedBucket.tokens <= BucketSize + PerTick * (since + lead)
               ELSE Given(asked) <= PerTick * ((limiterTime - requestsMade[from].at) + lead)

\* The bucket was written by the clock of the last request that Redis answered.
LastWriter ==
    sharedBucket.tokens >= 0 =>
        \E k \in DOMAIN requestsMade :
           /\ requestsMade[k].shared
           /\ \A l \in DOMAIN requestsMade : requestsMade[l].shared => l <= k
           /\ sharedBucket.last = sharedBucket.written + clockSkew[requestsMade[k].by]

\* What was given and what is left are within the limits.
LimiterInv == LimiterTypes /\ LimitsNeverLift /\ LocalRoom /\ SharedRoom /\ LastWriter

\* The limiter starts within its invariant.
LEMMA LimiterStarts == LimiterInit => LimiterInv
<1> SUFFICES ASSUME LimiterInit PROVE LimiterInv OBVIOUS
<1>1. \A i \in Instances : clockSkew[i] \in Int
  BY LimiterAssumption DEF LimiterInit
<1>2. LimiterTypes
  BY <1>1, LimiterAssumption DEF LimiterInit, LimiterTypes, NoBucket
<1>3. LimitsNeverLift /\ LocalRoom /\ SharedRoom /\ LastWriter
  BY DEF LimiterInit, LimitsNeverLift, LocalRoom, SharedRoom, LastWriter, NoBucket
<1> QED BY <1>2, <1>3 DEF LimiterInv

\* A difference cut off at zero is a natural, and no less than the difference.
LEMMA UpwardOnly ==
    ASSUME NEW d \in Int
    PROVE  Max({0, d}) \in Nat /\ Max({0, d}) >= d /\ (Max({0, d}) = 0 \/ Max({0, d}) = d)
<1>1. Max({0, d}) \in {0, d} /\ Max({0, d}) >= 0 /\ Max({0, d}) >= d BY MaxOfTwo
<1> QED BY <1>1

\* What a bucket is topped up to.
LEMMA TopUpBounds ==
    ASSUME NEW b, b.tokens \in Nat, b.last \in Int, NEW now \in Int
    PROVE  /\ TopUp(b, now) \in Nat /\ TopUp(b, now) <= BucketSize
           /\ TopUp(b, now) <= b.tokens + PerTick * Max({0, now - b.last})
           /\ Max({0, now - b.last}) \in Nat
<1> DEFINE d == now - b.last
<1>1. Max({0, d}) \in Nat
  <2>1. d \in Int OBVIOUS
  <2> HIDE DEF d
  <2> QED BY <2>1, UpwardOnly
<1>2. PerTick * Max({0, now - b.last}) \in Nat BY <1>1, LimiterAssumption
<1> DEFINE x == b.tokens + PerTick * Max({0, now - b.last})
<1>3. x \in Nat BY <1>2
<1> HIDE DEF x
<1>4. Min({BucketSize, x}) \in Nat /\ Min({BucketSize, x}) <= BucketSize /\ Min({BucketSize, x}) <= x
  <2>1. BucketSize \in Int /\ x \in Int BY <1>3, LimiterAssumption
  <2>2. Min({BucketSize, x}) \in {BucketSize, x} /\ Min({BucketSize, x}) <= BucketSize /\ Min({BucketSize, x}) <= x
    BY <2>1, MinOfTwo
  <2> QED BY <1>3, <2>2, LimiterAssumption
<1> QED BY <1>1, <1>4 DEF x, TopUp

\* What two spells are worth is what both are worth together.
LEMMA TicksSplit ==
    ASSUME NEW a \in Int, NEW b \in Int
    PROVE  /\ PerTick * (a + b) = PerTick * a + PerTick * b
           /\ PerTick * a \in Int
           /\ a \in Nat => PerTick * a \in Nat
BY LimiterAssumption

\* What a request that is noted adds to its stretch, and to no other.
LEMMA NotedCounts ==
    ASSUME LimiterTypes, NEW r \in Requests, NEW n \in Nat, n = Len(requestsMade),
           requestsMade' = Append(requestsMade, r), NEW from \in 1..(n + 1)
    PROVE  /\ \A to \in 0..n : /\ SharedIn(from, to)' = SharedIn(from, to)
                               /\ \A i \in Instances : LocalIn(i, from, to)' = LocalIn(i, from, to)
           /\ SharedIn(from, n + 1)' = SharedIn(from, n) \cup (IF r.shared THEN {n + 1} ELSE {})
           /\ \A i \in Instances : LocalIn(i, from, n + 1)'
                = LocalIn(i, from, n) \cup (IF ~r.shared /\ r.by = i THEN {n + 1} ELSE {})
<1>1. /\ \A k \in 1..n : requestsMade'[k] = requestsMade[k]
      /\ requestsMade'[n + 1] = r
  BY DEF LimiterTypes
<1>2. ASSUME NEW to \in 0..n, NEW k
      PROVE k \in from..to => k \in 1..n
  OBVIOUS
<1>3. \A to \in 0..n : /\ SharedIn(from, to)' = SharedIn(from, to)
                       /\ \A i \in Instances : LocalIn(i, from, to)' = LocalIn(i, from, to)
  BY <1>1, <1>2 DEF SharedIn, LocalIn
<1>4. \A k : k \in from..(n + 1) <=> k \in from..n \/ k = n + 1
  OBVIOUS
<1>5. SharedIn(from, n + 1)' = SharedIn(from, n) \cup (IF r.shared THEN {n + 1} ELSE {})
  BY <1>1, <1>2, <1>4 DEF SharedIn
<1>6. ASSUME NEW i \in Instances
      PROVE  LocalIn(i, from, n + 1)' = LocalIn(i, from, n) \cup (IF ~r.shared /\ r.by = i THEN {n + 1} ELSE {})
  BY <1>1, <1>2, <1>4 DEF LocalIn
<1> QED BY <1>3, <1>5, <1>6

\* A noted request adds to what was given exactly the token it was allowed.
LEMMA NotedGifts ==
    ASSUME LimiterTypes, NEW r \in Requests, NEW n \in Nat, n = Len(requestsMade),
           requestsMade' = Append(requestsMade, r), NEW S \in SUBSET (1..n)
    PROVE  /\ Given(S)' = Given(S) /\ Given(S) \in Nat
           /\ Given(S \cup {n + 1})' = Given(S) + (IF r.allowed THEN OneToken ELSE 0)
<1>1. /\ \A k \in 1..n : requestsMade'[k] = requestsMade[k]
      /\ requestsMade'[n + 1] = r /\ r.allowed \in BOOLEAN
  BY DEF LimiterTypes, Requests
<1> DEFINE A == {k \in S : requestsMade[k].allowed}
           B == {k \in S \cup {n + 1} : requestsMade'[k].allowed}
<1>2. IsFiniteSet(A) /\ Cardinality(A) \in Nat
  <2>1. IsFiniteSet(1..n) BY FS_Interval
  <2>2. A \subseteq 1..n OBVIOUS
  <2>3. IsFiniteSet(A)
    <3> HIDE DEF A
    <3> QED BY <2>1, <2>2, FS_Subset
  <2> QED BY <2>3, FS_CardinalityType
<1>3. {k \in S : requestsMade'[k].allowed} = A
  BY <1>1
<1>4. B = IF r.allowed THEN A \cup {n + 1} ELSE A
  BY <1>1
<1>5. n + 1 \notin A OBVIOUS
<1>6. Given(S)' = OneToken * Cardinality(A) /\ Given(S) = OneToken * Cardinality(A)
      /\ Given(S \cup {n + 1})' = OneToken * Cardinality(B)
  <2>1. Given(S)' = OneToken * Cardinality({k \in S : requestsMade'[k].allowed})
        /\ Given(S) = OneToken * Cardinality(A)
        /\ Given(S \cup {n + 1})' = OneToken * Cardinality(B)
    BY DEF Given
  <2>2. Cardinality({k \in S : requestsMade'[k].allowed}) = Cardinality(A)
    BY <1>3, Zenon
  <2> QED BY <2>1, <2>2
<1> DEFINE m == n + 1
<1>7. /\ r.allowed => Cardinality(B) = Cardinality(A) + 1
      /\ ~r.allowed => Cardinality(B) = Cardinality(A)
  <2>1. ASSUME r.allowed PROVE Cardinality(B) = Cardinality(A) + 1
    <3>1. Cardinality(B) = Cardinality(A \cup {m}) BY <1>4, <2>1, Zenon
    <3>2. m \notin A BY <1>5
    <3> HIDE DEF A, B, m
    <3>3. Cardinality(A \cup {m}) = Cardinality(A) + 1 BY <1>2, <3>2, FS_AddElement
    <3> QED BY <3>1, <3>3
  <2>2. ASSUME ~r.allowed PROVE Cardinality(B) = Cardinality(A)
    BY <1>4, <2>2, Zenon
  <2> QED BY <2>1, <2>2
<1> HIDE DEF A, B
<1>8. OneToken * (Cardinality(A) + 1) = OneToken * Cardinality(A) + OneToken
      /\ OneToken * Cardinality(A) \in Nat
  BY <1>2, LimiterAssumption
<1> QED BY <1>2, <1>6, <1>7, <1>8

\* What the clocks add is what they added, and what the last request adds.
LEMMA NotedLead ==
    ASSUME LimiterTypes, NEW r \in Requests, NEW n \in Nat, n = Len(requestsMade),
           requestsMade' = Append(requestsMade, r), clockSkew' = clockSkew, NEW from \in 1..(n + 1)
    PROVE  /\ \A to \in 0..n : Lead(from, to)' = Lead(from, to) /\ Lead(from, to) \in Nat
           /\ ~r.shared => Lead(from, n + 1)' = Lead(from, n)
           /\ r.shared => /\ Lead(from, n + 1)' = Lead(from, n) + LeadAt(from, n + 1)'
                          /\ LeadAt(from, n + 1)' \in Nat
<1>1. /\ \A k \in 1..n : requestsMade'[k] = requestsMade[k]
      /\ requestsMade'[n + 1] = r /\ DOMAIN requestsMade = 1..n /\ DOMAIN requestsMade' = 1..(n + 1)
      /\ requestsMade' \in Seq(Requests)
  BY DEF LimiterTypes
<1>2. \A i \in Instances : clockSkew[i] \in Int
  BY LimiterAssumption DEF LimiterTypes
<1>3. ASSUME NEW k \in 1..n PROVE requestsMade[k].by \in Instances
  <2>1. requestsMade[k] \in Requests BY <1>1 DEF LimiterTypes
  <2> QED BY <2>1 DEF Requests
<1>4. ASSUME NEW k \in 1..(n + 1) PROVE requestsMade'[k].by \in Instances
  <2>1. requestsMade'[k] \in Requests BY <1>1
  <2> QED BY <2>1 DEF Requests
<1>5. ASSUME NEW k \in 1..(n + 1), SharedIn(from, k - 1)' # {}
      PROVE  Max(SharedIn(from, k - 1)') \in 1..n
  <2> DEFINE S == SharedIn(from, k - 1)'
  <2>1. S \subseteq 1..n BY DEF SharedIn
  <2>2. IsFiniteSet(S)
    <3>1. IsFiniteSet(1..n) BY FS_Interval
    <3> HIDE DEF S
    <3> QED BY <2>1, <3>1, FS_Subset
  <2>3. \A x \in S : x \in Int BY <2>1
  <2> HIDE DEF S
  <2>4. Max(S) \in S BY <1>5, <2>2, <2>3, MaxIsGreatest DEF S
  <2> QED BY <2>1, <2>4 DEF S
<1>6. ASSUME NEW k \in 1..(n + 1) PROVE LeadAt(from, k)' \in Nat
  <2>1. CASE SharedIn(from, k - 1)' = {}
    BY <2>1 DEF LeadAt
  <2>2. CASE SharedIn(from, k - 1)' # {}
    <3>0. PICK m : m = Max(SharedIn(from, k - 1)') OBVIOUS
    <3>1. m \in 1..(n + 1) BY <1>5, <2>2, <3>0
    <3>2. PICK a \in Int, b \in Int :
              a = clockSkew[requestsMade'[k].by] /\ b = clockSkew[requestsMade'[m].by]
      BY <3>1, <1>2, <1>4
    <3>3. Max({0, a - b}) \in Nat BY UpwardOnly
    <3> QED BY <2>2, <3>0, <3>2, <3>3 DEF LeadAt
  <2> QED BY <2>1, <2>2
<1>7. ASSUME NEW k \in 1..n PROVE LeadAt(from, k)' = LeadAt(from, k)
  <2>1. SharedIn(from, k - 1)' = SharedIn(from, k - 1) BY NotedCounts
  <2>2. CASE SharedIn(from, k - 1) = {} BY <2>1, <2>2 DEF LeadAt
  <2>3. CASE SharedIn(from, k - 1) # {}
    <3>1. Max(SharedIn(from, k - 1)') = Max(SharedIn(from, k - 1)) BY <2>1, Zenon
    <3>2. Max(SharedIn(from, k - 1)') \in 1..n BY <2>1, <2>3, <1>5
    <3> DEFINE m == Max(SharedIn(from, k - 1))
    <3>3. m \in 1..n /\ Max(SharedIn(from, k - 1)') = m BY <3>1, <3>2
    <3> HIDE DEF m
    <3>4. requestsMade'[m] = requestsMade[m] /\ requestsMade'[k] = requestsMade[k] BY <3>3, <1>1
    <3>5. LeadAt(from, k)' = Max({0, clockSkew[requestsMade'[k].by] - clockSkew[requestsMade'[m].by]})
      BY <2>1, <2>3, <3>3 DEF LeadAt
    <3>6. LeadAt(from, k) = Max({0, clockSkew[requestsMade[k].by] - clockSkew[requestsMade[m].by]})
      BY <2>3 DEF LeadAt, m
    <3> QED BY <3>4, <3>5, <3>6
  <2> QED BY <2>2, <2>3
<1> DEFINE f == [k \in DOMAIN requestsMade |-> LeadAt(from, k)]
           g == [k \in DOMAIN requestsMade' |-> LeadAt(from, k)']
<1>8. \A to \in Nat : Lead(from, to) = SumFunctionOnSet(f, SharedIn(from, to))
                      /\ Lead(from, to)' = SumFunctionOnSet(g, SharedIn(from, to)')
  BY DEF Lead
<1>9. /\ \A k \in 1..n : g[k] = f[k] /\ f[k] \in Nat /\ g[k] \in Nat
      /\ g[n + 1] = LeadAt(from, n + 1)' /\ g[n + 1] \in Nat
  BY <1>1, <1>6, <1>7
<1> HIDE DEF f, g
<1>10. \A to \in 0..n : SharedIn(from, to) \in SUBSET (1..n) /\ IsFiniteSet(SharedIn(from, to))
  <2>1. IsFiniteSet(1..n) BY FS_Interval
  <2>2. \A to \in 0..n : SharedIn(from, to) \in SUBSET (1..n) BY DEF SharedIn
  <2> QED BY <2>1, <2>2, FS_Subset
<1>11. ASSUME NEW to \in 0..n
       PROVE  Lead(from, to)' = Lead(from, to) /\ Lead(from, to) \in Nat
  <2>1. SharedIn(from, to)' = SharedIn(from, to) BY NotedCounts
  <2>2. SumFunctionOnSet(g, SharedIn(from, to)') = SumFunctionOnSet(g, SharedIn(from, to)) BY <2>1, Zenon
  <2>3. SumFunctionOnSet(g, SharedIn(from, to)) = SumFunctionOnSet(f, SharedIn(from, to))
        /\ SumFunctionOnSet(f, SharedIn(from, to)) \in Nat
    <3> DEFINE S == SharedIn(from, to)
    <3>1. IsFiniteSet(S) /\ \A k \in S : g[k] = f[k] /\ f[k] \in Nat BY <1>9, <1>10
    <3> HIDE DEF S
    <3> QED BY <3>1, SumsAgree, SumOfNats DEF S
  <2> QED BY <2>2, <2>3, <1>8
<1>12. ASSUME ~r.shared PROVE Lead(from, n + 1)' = Lead(from, n)
  <2>1. SharedIn(from, n + 1)' = SharedIn(from, n)'
    <3>1. SharedIn(from, n)' = SharedIn(from, n) BY NotedCounts
    <3>2. SharedIn(from, n + 1)' = SharedIn(from, n) \cup {} BY <1>12, NotedCounts
    <3> QED BY <3>1, <3>2
  <2>2. SumFunctionOnSet(g, SharedIn(from, n + 1)') = SumFunctionOnSet(g, SharedIn(from, n)') BY <2>1, Zenon
  <2> QED BY <2>2, <1>8, <1>11
<1>13. ASSUME r.shared PROVE Lead(from, n + 1)' = Lead(from, n) + LeadAt(from, n + 1)'
  <2> DEFINE S == SharedIn(from, n)
             m == n + 1
  <2>1. SharedIn(from, n + 1)' = S \cup {m} BY <1>13, NotedCounts
  <2>2. SumFunctionOnSet(g, SharedIn(from, n + 1)') = SumFunctionOnSet(g, S \cup {m}) BY <2>1, Zenon
  <2>3. IsFiniteSet(S) /\ (\A k \in S : g[k] \in Int) /\ m \notin S /\ g[m] \in Int
    BY <1>9, <1>10
  <2>4. Lead(from, n)' = SumFunctionOnSet(g, S)
    <3>1. SharedIn(from, n)' = S BY NotedCounts
    <3>2. SumFunctionOnSet(g, SharedIn(from, n)') = SumFunctionOnSet(g, S) BY <3>1, Zenon
    <3> QED BY <3>2, <1>8
  <2> HIDE DEF S, m
  <2>5. SumFunctionOnSet(g, S \cup {m}) = SumFunctionOnSet(g, S) + g[m] BY <2>3, SumWith
  <2> QED BY <2>2, <2>4, <2>5, <1>8, <1>9, <1>11 DEF m
<1> QED BY <1>6, <1>11, <1>12, <1>13

\* How far one clock runs ahead is a natural.
LEMMA LeadIsNat ==
    ASSUME LimiterTypes, NEW n \in Nat, n = Len(requestsMade), NEW from \in 1..n
    PROVE  Lead(from, n) \in Nat
<1>1. /\ DOMAIN requestsMade = 1..n /\ \A k \in 1..n : requestsMade[k] \in Requests
      /\ \A i \in Instances : clockSkew[i] \in Int
  BY LimiterAssumption DEF LimiterTypes
<1>2. ASSUME NEW k \in 1..n PROVE LeadAt(from, k) \in Nat
  <2>1. CASE SharedIn(from, k - 1) = {} BY <2>1 DEF LeadAt
  <2>2. CASE SharedIn(from, k - 1) # {}
    <3>1. PICK m \in 1..n : m = Max(SharedIn(from, k - 1))
      <4>1. PICK S : S = SharedIn(from, k - 1) OBVIOUS
      <4>2. S \in SUBSET (1..n) BY <4>1 DEF SharedIn
      <4>3. IsFiniteSet(S)
        <5>1. IsFiniteSet(1..n) BY FS_Interval
        <5> QED BY <4>2, <5>1, FS_Subset
      <4>4. Max(S) \in S BY <2>2, <4>1, <4>2, <4>3, MaxIsGreatest
      <4> QED BY <4>1, <4>2, <4>4
    <3>2. PICK a \in Int, b \in Int : a = clockSkew[requestsMade[k].by] /\ b = clockSkew[requestsMade[m].by]
      <4>1. requestsMade[k].by \in Instances /\ requestsMade[m].by \in Instances BY <1>1 DEF Requests
      <4> QED BY <4>1, <1>1
    <3>3. Max({0, a - b}) \in Nat BY UpwardOnly
    <3> QED BY <2>2, <3>1, <3>2, <3>3 DEF LeadAt
  <2> QED BY <2>1, <2>2
<1> DEFINE f == [k \in DOMAIN requestsMade |-> LeadAt(from, k)]
           S == SharedIn(from, n)
<1>3. \A k \in S : f[k] \in Nat BY <1>1, <1>2 DEF SharedIn
<1>4. IsFiniteSet(S)
  <2>1. IsFiniteSet(1..n) BY FS_Interval
  <2>2. S \in SUBSET (1..n) BY DEF SharedIn
  <2> HIDE DEF S
  <2> QED BY <2>1, <2>2, FS_Subset
<1>5. Lead(from, n) = SumFunctionOnSet(f, S) BY DEF Lead
<1> HIDE DEF f, S
<1> QED BY <1>3, <1>4, <1>5, SumOfNats

\* A longer spell is worth no less.
LEMMA MoreTicks ==
    ASSUME NEW a \in Nat, NEW b \in Int, a <= b
    PROVE  PerTick * a \in Nat /\ PerTick * b \in Nat /\ PerTick * a <= PerTick * b
<1>1. b - a \in Nat OBVIOUS
<1> DEFINE c == b - a
<1>2. b = a + c OBVIOUS
<1> HIDE DEF c
<1>3. PerTick * (a + c) = PerTick * a + PerTick * c /\ PerTick * c \in Nat /\ PerTick * a \in Nat
  BY <1>1, LimiterAssumption DEF c
<1> QED BY <1>2, <1>3

\* Where a bucket stands caps what the requests up to now were given.
LEMMA RoomCaps ==
    ASSUME LimiterTypes', LocalRoom', SharedRoom', NEW n \in Nat, n = Len(requestsMade)',
           NEW from \in 1..n, requestsMade'[from].at \in Nat
    PROVE  LET elapsed == (limiterTime - requestsMade[from].at)' IN
           /\ \A i \in Instances : Given(LocalIn(i, from, n))' <= BucketSize + PerTick * elapsed
           /\ Lead(from, n)' \in Nat =>
                Given(SharedIn(from, n))' <= BucketSize + PerTick * (elapsed + Lead(from, n)')
<1>0. DOMAIN requestsMade' = 1..n /\ limiterTime' \in Nat /\ requestsMade'[from].at <= limiterTime'
  BY DEF LimiterTypes
<1>1. PICK e \in Nat : e = (limiterTime - requestsMade[from].at)'
  BY <1>0
<1>2. BucketSize \in Nat /\ PerTick \in Nat BY LimiterAssumption
<1>3. PerTick * e \in Nat BY <1>1, <1>2
<1>4. Given({})' = 0
  <2>1. {k \in {} : requestsMade'[k].allowed} = {} OBVIOUS
  <2>2. Cardinality({k \in {} : requestsMade'[k].allowed}) = Cardinality({}) BY <2>1, Zenon
  <2>3. Given({})' = OneToken * 0 BY <2>2, FS_EmptySet DEF Given
  <2> QED BY <2>3, LimiterAssumption
<1>a. ASSUME NEW S \in SUBSET (1..n) PROVE Given(S)' \in Nat
  <2>1. IsFiniteSet(1..n) BY FS_Interval
  <2>2. IsFiniteSet({k \in S : requestsMade'[k].allowed}) BY <2>1, FS_Subset
  <2>3. Cardinality({k \in S : requestsMade'[k].allowed}) \in Nat BY <2>2, FS_CardinalityType
  <2> QED BY <2>3, LimiterAssumption DEF Given
<1>5. ASSUME NEW i \in Instances
      PROVE  Given(LocalIn(i, from, n))' <= BucketSize + PerTick * e
  <2>1. CASE LocalIn(i, from, n)' = {}
    <3>1. Given(LocalIn(i, from, n))' = Given({})' BY <2>1 DEF Given
    <3> QED BY <3>1, <1>2, <1>3, <1>4
  <2>2. CASE LocalIn(i, from, n)' # {}
    <3>1. PICK s, g, x : /\ s = ((localBuckets[i].last - clockSkew[i]) - requestsMade[from].at)'
                         /\ g = Given(LocalIn(i, from, n))' /\ x = localBuckets'[i].tokens
      OBVIOUS
    <3>2. s \in Nat /\ g + x <= BucketSize + PerTick * s
      BY <2>2, <1>0, <3>1 DEF LocalRoom
    <3>3. x \in Nat BY <3>1 DEF LimiterTypes
    <3>4. PICK a, b, c : /\ a = localBuckets'[i].last - clockSkew'[i] /\ b = requestsMade'[from].at
                         /\ c = limiterTime' OBVIOUS
    <3>5. a <= c /\ s = a - b /\ e = c - b BY <3>1, <3>4, <1>1 DEF LimiterTypes
    <3>6. s <= e
      <4>1. b \in Int /\ c \in Int BY <3>4, <1>0
      <4>2. localBuckets'[i].last \in Int /\ clockSkew'[i] \in Int BY LimiterAssumption DEF LimiterTypes
      <4>3. a \in Int BY <4>2, <3>4
      <4> QED BY <3>5, <4>1, <4>3
    <3>b. s \in Nat BY <3>2
    <3>7. PerTick * s <= PerTick * e /\ PerTick * s \in Nat BY <3>b, <3>6, MoreTicks
    <3>8. g \in Nat
      <4>1. LocalIn(i, from, n)' \in SUBSET (1..n) BY DEF LocalIn
      <4> QED BY <3>1, <4>1, <1>a
    <3>9. g <= BucketSize + PerTick * e
      <4> DEFINE y == PerTick * s
                 z == PerTick * e
      <4>1. g + x <= BucketSize + y /\ y <= z /\ y \in Nat /\ z \in Nat BY <3>2, <3>7, <1>3
      <4> HIDE DEF y, z
      <4>2. g <= BucketSize + z BY <4>1, <3>3, <3>8, <1>2
      <4> QED BY <4>2 DEF z
    <3> QED BY <3>1, <3>9
  <2> QED BY <2>1, <2>2
<1>6. ASSUME Lead(from, n)' \in Nat
      PROVE  Given(SharedIn(from, n))' <= BucketSize + PerTick * (e + Lead(from, n)')
  <2>0. PICK l \in Nat : l = Lead(from, n)' BY <1>6
  <2>a. PerTick * (e + l) \in Nat BY <2>0, <1>1, <1>2
  <2>1. CASE SharedIn(from, n)' = {}
    <3>1. Given(SharedIn(from, n))' = Given({})' BY <2>1 DEF Given
    <3> QED BY <3>1, <1>2, <2>0, <2>a, <1>4
  <2>2. CASE SharedIn(from, n)' # {}
    <3>1. PICK g \in Nat : g = Given(SharedIn(from, n))'
      <4>1. SharedIn(from, n)' \in SUBSET (1..n) BY DEF SharedIn
      <4> QED BY <4>1, <1>a
    <3>2. CASE sharedBucket'.tokens >= 0
      <4>1. PICK s, x : s = (sharedBucket.written - requestsMade[from].at)' /\ x = sharedBucket'.tokens
        OBVIOUS
      <4>2. s \in Nat /\ g + x <= BucketSize + PerTick * (s + l)
        BY <2>0, <2>2, <1>0, <3>1, <3>2, <4>1 DEF SharedRoom
      <4>3. x \in Nat BY <3>2, <4>1 DEF LimiterTypes
      <4>4. PICK a, b, c : /\ a = sharedBucket'.written /\ b = requestsMade'[from].at
                           /\ c = limiterTime' OBVIOUS
      <4>5. a <= c /\ s = a - b /\ e = c - b BY <4>1, <4>4, <1>1 DEF LimiterTypes
      <4>6. s <= e
        <5>1. b \in Int /\ c \in Int /\ a \in Int BY <4>4, <1>0 DEF LimiterTypes
        <5> QED BY <4>2, <4>5, <5>1, <1>1
      <4>7. PerTick * (s + l) <= PerTick * (e + l) /\ PerTick * (s + l) \in Nat
        <5> DEFINE p == s + l
                   q == e + l
        <5>1. p \in Nat /\ q \in Int /\ p <= q BY <4>2, <4>6, <1>1, <2>0
        <5> HIDE DEF p, q
        <5>2. PerTick * p <= PerTick * q /\ PerTick * p \in Nat BY <5>1, MoreTicks
        <5> QED BY <5>2 DEF p, q
      <4>8. g <= BucketSize + PerTick * (e + l)
        <5> DEFINE y == PerTick * (s + l)
                   z == PerTick * (e + l)
        <5>1. g + x <= BucketSize + y /\ y <= z /\ y \in Nat /\ z \in Nat BY <4>2, <4>7, <2>a
        <5> HIDE DEF y, z
        <5>2. g <= BucketSize + z BY <5>1, <4>3, <1>2
        <5> QED BY <5>2 DEF z
      <4> QED BY <2>0, <3>1, <4>8
    <3>3. CASE ~(sharedBucket'.tokens >= 0)
      <4>1. g <= PerTick * (e + l)
        BY <2>0, <2>2, <1>0, <1>1, <3>1, <3>3 DEF SharedRoom
      <4> QED BY <2>0, <2>a, <3>1, <4>1, <1>2
    <3>4. sharedBucket'.tokens >= 0 \/ ~(sharedBucket'.tokens >= 0) OBVIOUS
    <3> QED BY <3>2, <3>3, <3>4, Zenon
  <2> QED BY <2>1, <2>2
<1> QED BY <1>1, <1>5, <1>6

\* A stretch that ended before a request is what it was.
LEMMA NotedKeeps ==
    ASSUME LimiterInv, NEW r \in Requests, r.at = limiterTime, NEW n \in Nat, n = Len(requestsMade),
           requestsMade' = Append(requestsMade, r), UNCHANGED <<clockSkew, limiterTime>>,
           LimiterTypes', LocalRoom', SharedRoom'
    PROVE  LimitsNeverLift'
<1>1. LimiterTypes /\ LimitsNeverLift BY DEF LimiterInv
<1>2. DOMAIN requestsMade = 1..n /\ DOMAIN requestsMade' = 1..(n + 1) /\ (n + 1) = Len(requestsMade)'
      /\ (\A k \in 1..n : requestsMade'[k] = requestsMade[k]) /\ requestsMade'[n + 1] = r
  BY <1>1 DEF LimiterTypes
<1>3. ASSUME NEW k \in 1..(n + 1) PROVE requestsMade'[k].at \in Nat
  <2>1. requestsMade'[k] \in Requests BY <1>2 DEF LimiterTypes
  <2> QED BY <2>1 DEF Requests
<1>5. clockSkew' = clockSkew /\ n \in 0..n OBVIOUS
<1>4. ASSUME NEW from \in 1..(n + 1), NEW to \in 1..(n + 1), from <= to
      PROVE  LET elapsed == requestsMade'[to].at - requestsMade'[from].at IN
             /\ \A i \in Instances : Given(LocalIn(i, from, to))' <= BucketSize + PerTick * elapsed
             /\ Given(SharedIn(from, to))' <= BucketSize + PerTick * (elapsed + Lead(from, to)')
  <2>1. CASE to = n + 1
    <3>1. Lead(from, n + 1)' \in Nat
      <4>1. /\ Lead(from, n) \in Nat
            /\ ~r.shared => Lead(from, n + 1)' = Lead(from, n)
            /\ r.shared => /\ Lead(from, n + 1)' = Lead(from, n) + LeadAt(from, n + 1)'
                           /\ LeadAt(from, n + 1)' \in Nat
        BY <1>1, <1>5, NotedLead
      <4> QED BY <4>1
    <3> DEFINE m == n + 1
    <3>2. m \in Nat /\ m = Len(requestsMade)' /\ from \in 1..m BY <1>2
    <3>3. Lead(from, m)' \in Nat /\ to = m BY <3>1, <2>1
    <3>4. requestsMade'[m].at = limiterTime' BY <1>2
    <3> HIDE DEF m
    <3>5. requestsMade'[from].at \in Nat BY <1>3
    <3> QED BY <3>2, <3>3, <3>4, <3>5, RoomCaps
  <2>2. CASE to # n + 1
    <3>1. to \in 1..n /\ from \in 1..n BY <1>4, <2>2
    <3>2. requestsMade'[to] = requestsMade[to] /\ requestsMade'[from] = requestsMade[from]
      BY <1>2, <3>1
    <3>3. Lead(from, to)' = Lead(from, to)
      BY <1>1, <3>1, NotedLead
    <3>4. ASSUME NEW S \in SUBSET (1..n) PROVE Given(S)' = Given(S)
      BY <1>1, NotedGifts
    <3>5. Given(SharedIn(from, to))' = Given(SharedIn(from, to))
      <4>1. SharedIn(from, to)' = SharedIn(from, to) BY <1>1, <3>1, NotedCounts
      <4>2. SharedIn(from, to) \in SUBSET (1..n) BY <3>1 DEF SharedIn
      <4>3. PICK S \in SUBSET (1..n) : S = SharedIn(from, to) BY <4>2
      <4>4. Given(SharedIn(from, to))' = Given(S)' BY <4>1, <4>3 DEF Given
      <4> QED BY <3>4, <4>3, <4>4
    <3>6. ASSUME NEW i \in Instances PROVE Given(LocalIn(i, from, to))' = Given(LocalIn(i, from, to))
      <4>1. LocalIn(i, from, to)' = LocalIn(i, from, to) BY <1>1, <3>1, NotedCounts
      <4>2. LocalIn(i, from, to) \in SUBSET (1..n) BY <3>1 DEF LocalIn
      <4>3. PICK S \in SUBSET (1..n) : S = LocalIn(i, from, to) BY <4>2
      <4>4. Given(LocalIn(i, from, to))' = Given(S)' BY <4>1, <4>3 DEF Given
      <4> QED BY <3>4, <4>3, <4>4
    <3>7. LET elapsed == requestsMade[to].at - requestsMade[from].at IN
             /\ \A i \in Instances : Given(LocalIn(i, from, to)) <= BucketSize + PerTick * elapsed
             /\ Given(SharedIn(from, to)) <= BucketSize + PerTick * (elapsed + Lead(from, to))
      BY <1>1, <1>2, <1>4, <3>1 DEF LimitsNeverLift
    <3> QED BY <3>2, <3>3, <3>5, <3>6, <3>7
  <2> QED BY <2>1, <2>2
<1> QED BY <1>2, <1>4 DEF LimitsNeverLift

\* What a request that Redis does not answer leaves alone.
LEMMA NoSharedKeeps ==
    ASSUME LimiterTypes, SharedRoom, NEW r \in Requests, ~r.shared, r.at = limiterTime,
           NEW n \in Nat, n = Len(requestsMade), requestsMade' = Append(requestsMade, r),
           sharedBucket' = sharedBucket, clockSkew' = clockSkew, limiterTime' = limiterTime
    PROVE  SharedRoom'
<1>1. /\ DOMAIN requestsMade = 1..n /\ DOMAIN requestsMade' = 1..(n + 1) /\ (n + 1) = Len(requestsMade)'
      /\ (\A k \in 1..n : requestsMade'[k] = requestsMade[k])
  BY DEF LimiterTypes
<1> SUFFICES ASSUME NEW from \in 1..(n + 1), SharedIn(from, n + 1)' # {}
             PROVE  LET lead  == Lead(from, n + 1)'
                        since == sharedBucket.written - requestsMade'[from].at
                        given == Given(SharedIn(from, n + 1))'
                    IN  IF sharedBucket.tokens >= 0
                          THEN since \in Nat /\ given + sharedBucket.tokens <= BucketSize + PerTick * (since + lead)
                          ELSE given <= PerTick * ((limiterTime - requestsMade'[from].at) + lead)
  BY <1>1 DEF SharedRoom
<1>2. SharedIn(from, n) \in SUBSET (1..n) BY DEF SharedIn
<1>3. PICK S \in SUBSET (1..n) : S = SharedIn(from, n) BY <1>2
<1>4. SharedIn(from, n + 1)' = S
  <2>1. SharedIn(from, n + 1)' = SharedIn(from, n) \cup {} BY NotedCounts
  <2> QED BY <2>1, <1>3
<1>5. S # {} /\ from \in 1..n BY <1>3, <1>4 DEF SharedIn
<1>6. Given(SharedIn(from, n + 1))' = Given(S)
  <2>1. Given(SharedIn(from, n + 1))' = Given(S)' BY <1>4 DEF Given
  <2> QED BY <2>1, NotedGifts
<1>7. Lead(from, n + 1)' = Lead(from, n) BY NotedLead
<1>8. requestsMade'[from] = requestsMade[from] BY <1>1, <1>5
<1>9. LET lead  == Lead(from, n)
          since == sharedBucket.written - requestsMade[from].at
          given == Given(S)
      IN  IF sharedBucket.tokens >= 0
            THEN since \in Nat /\ given + sharedBucket.tokens <= BucketSize + PerTick * (since + lead)
            ELSE given <= PerTick * ((limiterTime - requestsMade[from].at) + lead)
  BY <1>1, <1>3, <1>5 DEF SharedRoom
<1> QED BY <1>6, <1>7, <1>8, <1>9

\* What a request that Redis answers leaves alone.
LEMMA NoLocalKeeps ==
    ASSUME LimiterTypes, LocalRoom, NEW r \in Requests, r.shared, r.at = limiterTime,
           NEW n \in Nat, n = Len(requestsMade), requestsMade' = Append(requestsMade, r),
           localBuckets' = localBuckets, clockSkew' = clockSkew
    PROVE  LocalRoom'
<1>1. /\ DOMAIN requestsMade = 1..n /\ DOMAIN requestsMade' = 1..(n + 1) /\ (n + 1) = Len(requestsMade)'
      /\ (\A k \in 1..n : requestsMade'[k] = requestsMade[k])
  BY DEF LimiterTypes
<1> SUFFICES ASSUME NEW j \in Instances, NEW from \in 1..(n + 1), LocalIn(j, from, n + 1)' # {}
             PROVE  LET since == (localBuckets[j].last - clockSkew[j]) - requestsMade'[from].at
                    IN  /\ since \in Nat
                        /\ Given(LocalIn(j, from, n + 1))' + localBuckets[j].tokens <= BucketSize + PerTick * since
  BY <1>1 DEF LocalRoom
<1>2. LocalIn(j, from, n) \in SUBSET (1..n) BY DEF LocalIn
<1>3. PICK S \in SUBSET (1..n) : S = LocalIn(j, from, n) BY <1>2
<1>4. LocalIn(j, from, n + 1)' = S
  <2>1. LocalIn(j, from, n + 1)' = LocalIn(j, from, n) \cup (IF ~r.shared /\ r.by = j THEN {n + 1} ELSE {})
    BY NotedCounts
  <2> QED BY <2>1, <1>3
<1>5. S # {} /\ from \in 1..n BY <1>3, <1>4 DEF LocalIn
<1>6. Given(LocalIn(j, from, n + 1))' = Given(S)
  <2>1. Given(LocalIn(j, from, n + 1))' = Given(S)' BY <1>4 DEF Given
  <2> QED BY <2>1, NotedGifts
<1>7. requestsMade'[from] = requestsMade[from] BY <1>1, <1>5
<1>8. LET since == (localBuckets[j].last - clockSkew[j]) - requestsMade[from].at
      IN  since \in Nat /\ Given(S) + localBuckets[j].tokens <= BucketSize + PerTick * since
  BY <1>1, <1>3, <1>5 DEF LocalRoom
<1> QED BY <1>6, <1>7, <1>8

\* A request that Redis does not answer.
LEMMA FallbackKeeps ==
    ASSUME LimiterInv, NEW i \in Instances, acquireFallback(i)
    PROVE  LimiterInv'
<1> DEFINE content == TopUp(localBuckets[i], ClockOf(i))
           allows == content >= OneToken
           left == IF allows THEN content - OneToken ELSE content
           r == [at |-> limiterTime, by |-> i, shared |-> FALSE, allowed |-> allows]
<1>0. PICK n \in Nat : n = Len(requestsMade) BY DEF LimiterInv, LimiterTypes
<1>1. LimiterTypes /\ LocalRoom /\ SharedRoom /\ LastWriter BY DEF LimiterInv
<1>2. /\ limiterTime \in Nat /\ BucketSize \in Nat /\ OneToken \in Nat /\ PerTick \in Nat
      /\ localBuckets[i].tokens \in Nat /\ localBuckets[i].last \in Int /\ clockSkew[i] \in Int
      /\ localBuckets[i].last - clockSkew[i] <= limiterTime
  BY <1>1, LimiterAssumption DEF LimiterTypes
<1>3. r \in Requests /\ r.at = limiterTime /\ ~r.shared /\ r.by = i /\ (r.allowed <=> allows)
  <2>1. allows \in BOOLEAN OBVIOUS
  <2> HIDE DEF allows
  <2> QED BY <1>2, <2>1 DEF Requests
<1>4. /\ requestsMade' = Append(requestsMade, r)
      /\ localBuckets' = [localBuckets EXCEPT ![i] = [tokens |-> left, last |-> ClockOf(i)]]
      /\ UNCHANGED <<sharedBucket, clockSkew, limiterTime>>
  BY DEF acquireFallback, Note
<1>5. /\ content \in Nat /\ content <= BucketSize
      /\ content <= localBuckets[i].tokens + PerTick * Max({0, ClockOf(i) - localBuckets[i].last})
  <2>0. PICK b : b = localBuckets[i] OBVIOUS
  <2>1. PICK now \in Int : b = localBuckets[i] /\ now = ClockOf(i) BY <1>2, <2>0 DEF ClockOf
  <2>2. b.tokens \in Nat /\ b.last \in Int BY <1>2, <2>1
  <2>3. /\ TopUp(b, now) \in Nat /\ TopUp(b, now) <= BucketSize
        /\ TopUp(b, now) <= b.tokens + PerTick * Max({0, now - b.last})
    BY <2>2, TopUpBounds
  <2> QED BY <2>1, <2>3
<1>6. PICK d \in Nat : /\ d = limiterTime - (localBuckets[i].last - clockSkew[i])
                       /\ content <= localBuckets[i].tokens + PerTick * d
  <2>1. ClockOf(i) - localBuckets[i].last = limiterTime - (localBuckets[i].last - clockSkew[i])
        /\ limiterTime - (localBuckets[i].last - clockSkew[i]) \in Nat
    BY <1>2 DEF ClockOf
  <2>2. PICK d \in Nat : d = ClockOf(i) - localBuckets[i].last /\ d = limiterTime - (localBuckets[i].last - clockSkew[i])
    BY <2>1
  <2>3. Max({0, d}) = d BY UpwardOnly
  <2> QED BY <1>5, <2>2, <2>3
<1>7. left \in Nat /\ left <= content /\ (allows => left = content - OneToken) /\ (~allows => left = content)
  BY <1>2, <1>5
<1> HIDE DEF content, allows, left, r
<1>8. /\ DOMAIN requestsMade = 1..n /\ DOMAIN requestsMade' = 1..(n + 1) /\ (n + 1) = Len(requestsMade)'
      /\ (\A k \in 1..n : requestsMade'[k] = requestsMade[k]) /\ requestsMade'[n + 1] = r
  BY <1>0, <1>1, <1>3, <1>4 DEF LimiterTypes
<1>9. LimiterTypes'
  <2>1. requestsMade' \in Seq(Requests) BY <1>1, <1>3, <1>4 DEF LimiterTypes
  <2>2. \A k \in DOMAIN requestsMade' : requestsMade'[k].at <= limiterTime'
    BY <1>1, <1>2, <1>3, <1>4, <1>8 DEF LimiterTypes
  <2>3. /\ localBuckets' \in [Instances -> [tokens : Nat, last : Int]]
        /\ \A j \in Instances : /\ localBuckets'[j].tokens <= BucketSize
                                /\ localBuckets'[j].last - clockSkew'[j] <= limiterTime'
    <3>1. left <= BucketSize /\ ClockOf(i) \in Int /\ ClockOf(i) - clockSkew[i] = limiterTime
      BY <1>2, <1>5, <1>7 DEF ClockOf
    <3>2. localBuckets \in [Instances -> [tokens : Nat, last : Int]] BY <1>1 DEF LimiterTypes
    <3>3. localBuckets' \in [Instances -> [tokens : Nat, last : Int]]
      BY <1>4, <1>7, <3>1, <3>2
    <3>4. ASSUME NEW j \in Instances, j # i
          PROVE  localBuckets'[j].tokens <= BucketSize /\ localBuckets'[j].last - clockSkew'[j] <= limiterTime'
      <4>1. localBuckets'[j] = localBuckets[j] BY <1>4, <3>2, <3>4
      <4> QED BY <1>1, <1>4, <4>1 DEF LimiterTypes
    <3>5. localBuckets'[i].tokens <= BucketSize /\ localBuckets'[i].last - clockSkew'[i] <= limiterTime'
      <4>1. localBuckets'[i].tokens = left /\ localBuckets'[i].last = ClockOf(i) BY <1>4, <3>2
      <4> QED BY <1>2, <1>4, <3>1, <4>1
    <3> QED BY <3>3, <3>4, <3>5
  <2> QED BY <1>1, <1>4, <2>1, <2>2, <2>3 DEF LimiterTypes
<1>10. LocalRoom'
  <2> SUFFICES ASSUME NEW j \in Instances, NEW from \in 1..(n + 1), LocalIn(j, from, n + 1)' # {}
               PROVE  LET since == (localBuckets[j].last - clockSkew[j])' - requestsMade'[from].at
                      IN  /\ since \in Nat
                          /\ Given(LocalIn(j, from, n + 1))' + localBuckets'[j].tokens
                               <= BucketSize + PerTick * since
    BY <1>8 DEF LocalRoom
  <2>a. LocalIn(j, from, n) \in SUBSET (1..n) BY DEF LocalIn
  <2>0. PICK S \in SUBSET (1..n) : S = LocalIn(j, from, n) BY <2>a
  <2>1. Given(S)' = Given(S) /\ Given(S) \in Nat
        /\ Given(S \cup {n + 1})' = Given(S) + (IF r.allowed THEN OneToken ELSE 0)
    BY <1>0, <1>1, <1>3, <1>4, NotedGifts
  <2>2. LocalIn(j, from, n + 1)' = S \cup (IF ~r.shared /\ r.by = j THEN {n + 1} ELSE {})
    BY <1>0, <1>1, <1>3, <1>4, <2>0, NotedCounts
  <2>3. CASE j # i
    <3>1. LocalIn(j, from, n + 1)' = S BY <1>3, <2>2, <2>3
    <3>2. S # {} /\ from \in 1..n BY <2>0, <3>1 DEF LocalIn
    <3>3. localBuckets'[j] = localBuckets[j] /\ clockSkew' = clockSkew
          /\ requestsMade'[from] = requestsMade[from]
      BY <1>1, <1>4, <1>8, <2>3, <3>2 DEF LimiterTypes
    <3>4. LET since == (localBuckets[j].last - clockSkew[j]) - requestsMade[from].at
          IN  since \in Nat /\ Given(S) + localBuckets[j].tokens <= BucketSize + PerTick * since
      BY <1>0, <1>1, <1>8, <2>0, <3>2 DEF LocalRoom
    <3>5. Given(LocalIn(j, from, n + 1))' = Given(S)
      <4>1. Given(LocalIn(j, from, n + 1))' = Given(S)' BY <3>1 DEF Given
      <4> QED BY <2>1, <4>1
    <3> QED BY <3>3, <3>4, <3>5
  <2>4. CASE j = i
    <3>1. LocalIn(j, from, n + 1)' = S \cup {n + 1} BY <1>3, <2>2, <2>4
    <3>2. Given(LocalIn(j, from, n + 1))' = Given(S) + (IF r.allowed THEN OneToken ELSE 0)
      <4>1. Given(LocalIn(j, from, n + 1))' = Given(S \cup {n + 1})' BY <3>1 DEF Given
      <4> QED BY <2>1, <4>1
    <3>3. localBuckets'[j].tokens = left /\ localBuckets'[j].last = ClockOf(i)
      BY <1>1, <1>4, <2>4 DEF LimiterTypes
    <3>4. Given(LocalIn(j, from, n + 1))' + localBuckets'[j].tokens = Given(S) + content
      BY <1>2, <1>3, <1>5, <1>7, <2>1, <3>2, <3>3
    <3>5. (localBuckets[j].last - clockSkew[j])' = limiterTime
      BY <1>2, <1>4, <3>3, <2>4 DEF ClockOf
    <3>6. PICK e \in Nat : e = limiterTime - requestsMade'[from].at
      <4>1. requestsMade'[from].at \in Nat /\ requestsMade'[from].at <= limiterTime
        <5>1. requestsMade'[from] \in Requests BY <1>8, <1>9 DEF LimiterTypes
        <5> QED BY <5>1, <1>4, <1>8, <1>9 DEF LimiterTypes, Requests
      <4> QED BY <1>2, <4>1
    <3>7. Given(S) + content <= BucketSize + PerTick * e
      <4>1. CASE S = {}
        <5>1. Given(S) = 0
          <6>1. {k \in S : requestsMade[k].allowed} = {} BY <4>1
          <6>2. Cardinality({k \in S : requestsMade[k].allowed}) = Cardinality({}) BY <6>1, Zenon
          <6>3. Given(S) = OneToken * 0 BY <6>2, FS_EmptySet DEF Given
          <6> QED BY <6>3, <1>2
        <5>2. PerTick * e \in Nat BY <1>2, <3>6
        <5> DEFINE y == PerTick * e
        <5> HIDE DEF y
        <5>3. Given(S) + content <= BucketSize + y BY <5>1, <5>2, <1>2, <1>5 DEF y
        <5> QED BY <5>3 DEF y
      <4>2. CASE S # {}
        <5>1. from \in 1..n BY <4>2, <2>0 DEF LocalIn
        <5>2. requestsMade'[from] = requestsMade[from] BY <5>1, <1>8
        <5>3. PICK s : s = (localBuckets[i].last - clockSkew[i]) - requestsMade[from].at OBVIOUS
        <5>4. s \in Nat /\ Given(S) + localBuckets[i].tokens <= BucketSize + PerTick * s
          BY <1>0, <1>1, <1>8, <2>0, <2>4, <4>2, <5>1, <5>3 DEF LocalRoom
        <5>5. e = s + d
          <6>1. requestsMade[from].at \in Nat
            <7>1. requestsMade[from] \in Requests BY <1>1, <1>8, <5>1 DEF LimiterTypes
            <7> QED BY <7>1 DEF Requests
          <6> QED BY <6>1, <5>2, <5>3, <1>2, <1>6, <3>6
        <5>a. s \in Int /\ d \in Int BY <5>4
        <5>6. PerTick * (s + d) = PerTick * s + PerTick * d /\ PerTick * s \in Int /\ PerTick * d \in Int
          <6>1. PerTick * (s + d) = PerTick * s + PerTick * d /\ PerTick * s \in Int BY <5>a, TicksSplit
          <6>2. PerTick * d \in Int BY LimiterAssumption
          <6> QED BY <6>1, <6>2
        <5> DEFINE y == PerTick * s
                   z == PerTick * d
        <5>7. /\ Given(S) + localBuckets[i].tokens <= BucketSize + y /\ y \in Int /\ z \in Int
              /\ content <= localBuckets[i].tokens + z
          BY <5>4, <5>6, <1>6
        <5>8. PerTick * e = y + z BY <5>5, <5>6
        <5> HIDE DEF y, z
        <5>9. Given(S) + content <= BucketSize + (y + z) BY <5>7, <1>2, <1>5, <2>1
        <5> QED BY <5>8, <5>9
      <4> QED BY <4>1, <4>2
    <3> QED BY <3>4, <3>5, <3>6, <3>7
  <2> QED BY <2>3, <2>4
<1>11. SharedRoom'
  <2>1. ~r.shared BY <1>3
  <2> QED BY <1>0, <1>1, <1>3, <1>4, <1>8, NoSharedKeeps
<1>12. LastWriter'
  BY <1>1, <1>3, <1>4, <1>8 DEF LastWriter
<1> QED BY <1>0, <1>3, <1>4, <1>9, <1>10, <1>11, <1>12, NotedKeeps DEF LimiterInv

\* What the bucket in Redis holds now, over a stretch that has requests there.
LEMMA SharedContent ==
    ASSUME LimiterTypes, SharedRoom, LastWriter, NEW i \in Instances,
           NEW r \in Requests, r.shared, r.by = i, r.at = limiterTime,
           NEW n \in Nat, n = Len(requestsMade), requestsMade' = Append(requestsMade, r),
           clockSkew' = clockSkew, NEW from \in 1..n, SharedIn(from, n) # {},
           NEW content, content = IF sharedBucket.tokens < 0 THEN BucketSize ELSE TopUp(sharedBucket, ClockOf(i))
    PROVE  Given(SharedIn(from, n)) + content
             <= BucketSize + PerTick * ((limiterTime - requestsMade[from].at) + Lead(from, n + 1)')
<1>1. /\ DOMAIN requestsMade = 1..n /\ (\A k \in 1..n : requestsMade[k] \in Requests)
      /\ (\A k \in 1..n : requestsMade'[k] = requestsMade[k]) /\ requestsMade'[n + 1] = r
      /\ limiterTime \in Nat /\ BucketSize \in Nat /\ PerTick \in Nat
      /\ \A k \in 1..n : requestsMade[k].at <= limiterTime
  <2>1. requestsMade \in Seq(Requests) BY DEF LimiterTypes
  <2>2. DOMAIN requestsMade = 1..n /\ (\A k \in 1..n : requestsMade[k] \in Requests)
    BY <2>1
  <2>3. (\A k \in 1..n : requestsMade'[k] = requestsMade[k]) /\ requestsMade'[n + 1] = r
    BY <2>1
  <2> QED BY <2>2, <2>3, LimiterAssumption DEF LimiterTypes
<1>2. \A k \in 1..n : requestsMade[k].at \in Nat /\ requestsMade[k].by \in Instances BY <1>1 DEF Requests
<1>3. \A j \in Instances : clockSkew[j] \in Int BY LimiterAssumption DEF LimiterTypes
<1>4. PICK e \in Nat : e = limiterTime - requestsMade[from].at
  BY <1>1, <1>2
<1>5. /\ Lead(from, n) \in Nat /\ Lead(from, n + 1)' = Lead(from, n) + LeadAt(from, n + 1)'
      /\ LeadAt(from, n + 1)' \in Nat
  BY NotedLead
<1>6. PICK l \in Nat, x \in Nat : l = Lead(from, n) /\ x = LeadAt(from, n + 1)' /\ Lead(from, n + 1)' = l + x
  BY <1>5
<1>7. SharedIn(from, n) \in SUBSET (1..n) BY DEF SharedIn
<1>8. PICK g \in Nat : g = Given(SharedIn(from, n))
  <2>1. PICK S \in SUBSET (1..n) : S = SharedIn(from, n) BY <1>7
  <2> QED BY <2>1, NotedGifts
<1>9. CASE sharedBucket.tokens < 0
  <2>1. g <= PerTick * (e + l)
    <3>1. ~(sharedBucket.tokens >= 0) BY <1>9 DEF LimiterTypes
    <3>2. Given(SharedIn(from, n)) <= PerTick * ((limiterTime - requestsMade[from].at) + Lead(from, n))
      BY <1>1, <3>1 DEF SharedRoom
    <3> QED BY <3>2, <1>4, <1>6, <1>8
  <2>2. PerTick * (e + l) <= PerTick * (e + (l + x)) /\ PerTick * (e + (l + x)) \in Nat /\ PerTick * (e + l) \in Nat
    <3> DEFINE a == e + l
               b == e + (l + x)
    <3>1. a \in Nat /\ b \in Int /\ a <= b OBVIOUS
    <3> HIDE DEF a, b
    <3>2. PerTick * a <= PerTick * b /\ PerTick * a \in Nat /\ PerTick * b \in Nat BY <3>1, MoreTicks
    <3> QED BY <3>2 DEF a, b
  <2>3. content = BucketSize BY <1>9
  <2>4. g + content <= BucketSize + PerTick * (e + (l + x))
    <3> DEFINE y == PerTick * (e + (l + x))
               z == PerTick * (e + l)
    <3>1. g <= z /\ z <= y /\ y \in Nat /\ z \in Nat BY <2>1, <2>2
    <3> HIDE DEF y, z
    <3>2. g + content <= BucketSize + y BY <3>1, <2>3, <1>1
    <3> QED BY <3>2 DEF y
  <2> QED BY <2>4, <1>4, <1>6, <1>8
<1>10. CASE ~(sharedBucket.tokens < 0)
  <2>1. sharedBucket.tokens \in Nat /\ sharedBucket.last \in Int /\ sharedBucket.written \in Int
        /\ sharedBucket.written <= limiterTime /\ sharedBucket.tokens >= 0
    BY <1>10 DEF LimiterTypes
  <2>2. PICK k \in 1..n : /\ requestsMade[k].shared
                          /\ \A m \in 1..n : requestsMade[m].shared => m <= k
                          /\ sharedBucket.last = sharedBucket.written + clockSkew[requestsMade[k].by]
    BY <2>1, <1>1 DEF LastWriter
  <2>3. Max(SharedIn(from, n)) = k
    <3>1. k \in SharedIn(from, n)
      <4>1. PICK m \in SharedIn(from, n) : TRUE OBVIOUS
      <4>2. m \in 1..n /\ from <= m /\ requestsMade[m].shared BY <4>1 DEF SharedIn
      <4> QED BY <4>2, <2>2 DEF SharedIn
    <3>2. \A m \in SharedIn(from, n) : m <= k /\ m \in Int BY <2>2 DEF SharedIn
    <3>3. PICK S : S = SharedIn(from, n) OBVIOUS
    <3>4. IsFiniteSet(S)
      <4>1. IsFiniteSet(1..n) BY FS_Interval
      <4> QED BY <4>1, <3>3, <1>7, FS_Subset
    <3>5. Max(S) \in S /\ Max(S) >= k BY <3>1, <3>2, <3>3, <3>4, MaxIsGreatest
    <3> QED BY <3>2, <3>3, <3>5
  <2>4. PICK a \in Int, b \in Int : a = clockSkew[i] /\ b = clockSkew[requestsMade[k].by]
    BY <1>2, <1>3
  <2>5. x = Max({0, a - b})
    <3>1. SharedIn(from, (n + 1) - 1)' = SharedIn(from, n)
      <4>1. (n + 1) - 1 = n OBVIOUS
      <4>2. SharedIn(from, (n + 1) - 1)' = SharedIn(from, n)' BY <4>1, Zenon
      <4>3. SharedIn(from, n)' = SharedIn(from, n) BY NotedCounts
      <4> QED BY <4>2, <4>3
    <3>2. Max(SharedIn(from, (n + 1) - 1)') = k BY <3>1, <2>3, Zenon
    <3>3. requestsMade'[n + 1].by = i /\ requestsMade'[k] = requestsMade[k] BY <1>1
    <3>4. LeadAt(from, n + 1)' = Max({0, clockSkew'[requestsMade'[n + 1].by] - clockSkew'[requestsMade'[k].by]})
      BY <3>1, <3>2 DEF LeadAt
    <3> QED BY <3>3, <3>4, <2>4, <1>6
  <2>6. x >= a - b BY <2>5, UpwardOnly
  <2>7. PICK s \in Nat : s = sharedBucket.written - requestsMade[from].at
                         /\ g + sharedBucket.tokens <= BucketSize + PerTick * (s + l)
    BY <1>1, <1>6, <1>8, <2>1 DEF SharedRoom
  <2>8. PICK u \in Nat : u = limiterTime - sharedBucket.written
    BY <1>1, <2>1
  <2>9. e = s + u
    <3>1. requestsMade[from].at \in Nat BY <1>2
    <3>2. PICK t \in Int, w \in Int, v \in Int :
             t = limiterTime /\ w = sharedBucket.written /\ v = requestsMade[from].at
      BY <3>1, <1>1, <2>1
    <3>3. e = t - v /\ s = w - v /\ u = t - w BY <3>2, <1>4, <2>7, <2>8
    <3> QED BY <3>3
  <2>10. PICK c \in Int : c = ClockOf(i) - sharedBucket.last /\ c = u + (a - b)
    <3>1. PICK t \in Int, w \in Int : t = limiterTime /\ w = sharedBucket.written
      BY <1>1, <2>1
    <3>2. ClockOf(i) = t + a /\ sharedBucket.last = w + b /\ u = t - w BY <3>1, <2>2, <2>4, <2>8 DEF ClockOf
    <3>3. (t + a) - (w + b) = u + (a - b) BY <3>2
    <3> QED BY <3>2, <3>3
  <2>11. Max({0, c}) \in Nat /\ Max({0, c}) <= u + x
    <3>1. Max({0, c}) \in Nat /\ (Max({0, c}) = 0 \/ Max({0, c}) = c) BY UpwardOnly
    <3> QED BY <3>1, <2>6, <2>10
  <2>12. content <= sharedBucket.tokens + PerTick * Max({0, c}) /\ content \in Nat
    <3>1. ClockOf(i) \in Int BY <1>1, <2>4 DEF ClockOf
    <3>2. PICK t \in Int : t = ClockOf(i) BY <3>1
    <3>3. content = TopUp(sharedBucket, t) /\ c = t - sharedBucket.last BY <1>10, <2>10, <3>2
    <3>4. TopUp(sharedBucket, t) \in Nat
          /\ TopUp(sharedBucket, t) <= sharedBucket.tokens + PerTick * Max({0, t - sharedBucket.last})
      BY <2>1, TopUpBounds
    <3> QED BY <3>3, <3>4
  <2>13. PICK q \in Nat : q = Max({0, c}) BY <2>11
  <2>14. PerTick * q <= PerTick * (u + x) /\ PerTick * q \in Nat /\ PerTick * (u + x) \in Nat
    <3> DEFINE z == u + x
    <3>1. z \in Int /\ q <= z BY <2>11, <2>13
    <3> HIDE DEF z
    <3>2. PerTick * q <= PerTick * z /\ PerTick * q \in Nat /\ PerTick * z \in Nat BY <3>1, MoreTicks
    <3> QED BY <3>2 DEF z
  <2>15. PerTick * (e + (l + x)) = PerTick * (s + l) + PerTick * (u + x) /\ PerTick * (s + l) \in Int
    <3> DEFINE y == s + l
               z == u + x
    <3>1. y \in Int /\ z \in Int /\ e + (l + x) = y + z BY <2>9
    <3> HIDE DEF y, z
    <3>2. PerTick * (y + z) = PerTick * y + PerTick * z /\ PerTick * y \in Int BY <3>1, TicksSplit
    <3> QED BY <3>1, <3>2 DEF y, z
  <2>16. g + content <= BucketSize + PerTick * (e + (l + x))
    <3> DEFINE y == PerTick * (s + l)
               z == PerTick * (u + x)
               w == PerTick * q
    <3>1. /\ g + sharedBucket.tokens <= BucketSize + y /\ y \in Int /\ z \in Nat /\ w \in Nat /\ w <= z
          /\ content <= sharedBucket.tokens + w
      BY <2>7, <2>12, <2>13, <2>14, <2>15
    <3>2. PerTick * (e + (l + x)) = y + z BY <2>15
    <3> HIDE DEF y, z, w
    <3>3. g + content <= BucketSize + (y + z) BY <3>1, <1>1, <2>1, <2>12
    <3> QED BY <3>2, <3>3
  <2> QED BY <2>16, <1>4, <1>6, <1>8
<1> QED BY <1>9, <1>10

\* A request that Redis answers.
LEMMA SharedKeeps ==
    ASSUME LimiterInv, NEW i \in Instances, acquireShared(i)
    PROVE  LimiterInv'
<1>0. PICK n \in Nat : n = Len(requestsMade) BY DEF LimiterInv, LimiterTypes
<1>1. LimiterTypes /\ LocalRoom /\ SharedRoom /\ LastWriter BY DEF LimiterInv
<1>2. /\ limiterTime \in Nat /\ BucketSize \in Nat /\ OneToken \in Nat /\ PerTick \in Nat
      /\ clockSkew[i] \in Int /\ sharedBucket \in [tokens : Int, last : Int, written : Int]
      /\ -1 <= sharedBucket.tokens
  BY <1>1, LimiterAssumption DEF LimiterTypes
<1>3. PICK content : content = IF sharedBucket.tokens < 0 THEN BucketSize ELSE TopUp(sharedBucket, ClockOf(i))
  OBVIOUS
<1>4. content \in Nat /\ content <= BucketSize
  <2>1. CASE sharedBucket.tokens < 0 BY <1>2, <1>3, <2>1
  <2>2. CASE ~(sharedBucket.tokens < 0)
    <3>1. sharedBucket.tokens \in Nat /\ sharedBucket.last \in Int BY <1>2, <2>2
    <3>2. PICK t \in Int : t = ClockOf(i) BY <1>2 DEF ClockOf
    <3>3. TopUp(sharedBucket, t) \in Nat /\ TopUp(sharedBucket, t) <= BucketSize
      BY <3>1, TopUpBounds
    <3> QED BY <3>2, <3>3, <1>3, <2>2
  <2> QED BY <2>1, <2>2
<1> DEFINE allows == content >= OneToken
           left == IF allows THEN content - OneToken ELSE content
           r == [at |-> limiterTime, by |-> i, shared |-> TRUE, allowed |-> allows]
<1>5. left \in Nat /\ left <= content /\ (allows => left = content - OneToken) /\ (~allows => left = content)
  BY <1>2, <1>4
<1>6. allows \in BOOLEAN OBVIOUS
<1>7. r \in Requests /\ r.at = limiterTime /\ r.shared /\ r.by = i /\ (r.allowed <=> allows)
  <2> HIDE DEF allows
  <2> QED BY <1>2, <1>6 DEF Requests
<1>8. /\ requestsMade' = Append(requestsMade, r)
      /\ sharedBucket' = [tokens |-> left, last |-> ClockOf(i), written |-> limiterTime]
      /\ localBuckets' = localBuckets /\ clockSkew' = clockSkew /\ limiterTime' = limiterTime
  BY <1>3 DEF acquireShared, Note
<1> HIDE DEF allows, left, r
<1>9. /\ DOMAIN requestsMade = 1..n /\ DOMAIN requestsMade' = 1..(n + 1) /\ (n + 1) = Len(requestsMade)'
      /\ (\A k \in 1..n : requestsMade'[k] = requestsMade[k]) /\ requestsMade'[n + 1] = r
      /\ requestsMade' \in Seq(Requests)
  BY <1>0, <1>1, <1>7, <1>8 DEF LimiterTypes
<1>10. LimiterTypes'
  <2>1. \A k \in DOMAIN requestsMade' : requestsMade'[k].at <= limiterTime'
    BY <1>1, <1>2, <1>7, <1>8, <1>9 DEF LimiterTypes
  <2>2. ClockOf(i) \in Int BY <1>2 DEF ClockOf
  <2>3. /\ sharedBucket' \in [tokens : Int, last : Int, written : Int]
        /\ -1 <= sharedBucket'.tokens /\ sharedBucket'.tokens <= BucketSize
        /\ sharedBucket'.written <= limiterTime'
    BY <1>2, <1>4, <1>5, <1>8, <2>2
  <2> QED BY <1>1, <1>8, <1>9, <2>1, <2>3 DEF LimiterTypes
<1>11. LocalRoom'
  BY <1>0, <1>1, <1>7, <1>8, NoLocalKeeps
<1>12. LastWriter'
  <2>1. sharedBucket'.last = sharedBucket'.written + clockSkew'[requestsMade'[n + 1].by]
    BY <1>7, <1>8, <1>9 DEF ClockOf
  <2> QED BY <2>1, <1>7, <1>9 DEF LastWriter
<1>13. SharedRoom'
  <2>0. sharedBucket'.tokens = left /\ sharedBucket'.written = limiterTime /\ left >= 0 BY <1>5, <1>8
  <2> SUFFICES ASSUME NEW from \in 1..(n + 1), SharedIn(from, n + 1)' # {}
               PROVE  LET since == limiterTime - requestsMade'[from].at IN
                      /\ since \in Nat
                      /\ Given(SharedIn(from, n + 1))' + left <= BucketSize + PerTick * (since + Lead(from, n + 1)')
    BY <1>9, <2>0 DEF SharedRoom
  <2>a. SharedIn(from, n) \in SUBSET (1..n) BY DEF SharedIn
  <2>1. PICK S \in SUBSET (1..n) : S = SharedIn(from, n) BY <2>a
  <2>2. Given(S) \in Nat /\ Given(S \cup {n + 1})' = Given(S) + (IF r.allowed THEN OneToken ELSE 0)
    BY <1>0, <1>1, <1>7, <1>8, NotedGifts
  <2>3. Given(SharedIn(from, n + 1))' = Given(S) + (IF r.allowed THEN OneToken ELSE 0)
    <3>1. SharedIn(from, n + 1)' = SharedIn(from, n) \cup (IF r.shared THEN {n + 1} ELSE {})
      BY <1>0, <1>1, <1>7, <1>8, NotedCounts
    <3>2. SharedIn(from, n + 1)' = S \cup {n + 1} BY <3>1, <2>1, <1>7
    <3>3. Given(SharedIn(from, n + 1))' = Given(S \cup {n + 1})' BY <3>2 DEF Given
    <3> QED BY <3>3, <2>2
  <2>4. Given(SharedIn(from, n + 1))' + left = Given(S) + content
    BY <1>2, <1>4, <1>5, <1>6, <1>7, <2>2, <2>3
  <2>5. PICK e \in Nat : e = limiterTime - requestsMade'[from].at
    <3>1. requestsMade'[from].at \in Nat /\ requestsMade'[from].at <= limiterTime
      <4>1. requestsMade'[from] \in Requests BY <1>9
      <4> QED BY <4>1, <1>8, <1>9, <1>10 DEF LimiterTypes, Requests
    <3> QED BY <1>2, <3>1
  <2>6. PICK l \in Nat : l = Lead(from, n + 1)'
    <3>1. /\ Lead(from, n) \in Nat
          /\ r.shared => /\ Lead(from, n + 1)' = Lead(from, n) + LeadAt(from, n + 1)'
                         /\ LeadAt(from, n + 1)' \in Nat
      BY <1>0, <1>1, <1>7, <1>8, NotedLead
    <3> QED BY <3>1, <1>7
  <2>7. Given(S) + content <= BucketSize + PerTick * (e + l)
    <3>1. CASE S = {}
      <4>1. Given(S) = 0
        <5>1. {k \in S : requestsMade[k].allowed} = {} BY <3>1
        <5>2. Cardinality({k \in S : requestsMade[k].allowed}) = Cardinality({}) BY <5>1, Zenon
        <5>3. Given(S) = OneToken * 0 BY <5>2, FS_EmptySet DEF Given
        <5> QED BY <5>3, <1>2
      <4>2. PerTick * (e + l) \in Nat BY <1>2
      <4> DEFINE y == PerTick * (e + l)
      <4> HIDE DEF y
      <4>3. Given(S) + content <= BucketSize + y BY <4>1, <4>2, <1>2, <1>4 DEF y
      <4> QED BY <4>3 DEF y
    <3>2. CASE S # {}
      <4>1. from \in 1..n BY <3>2, <2>1 DEF SharedIn
      <4>2. requestsMade'[from] = requestsMade[from] BY <4>1, <1>9
      <4>3. Given(SharedIn(from, n)) + content
             <= BucketSize + PerTick * ((limiterTime - requestsMade[from].at) + Lead(from, n + 1)')
        BY <1>0, <1>1, <1>3, <1>7, <1>8, <2>1, <3>2, <4>1, SharedContent
      <4> QED BY <4>2, <4>3, <2>1, <2>5, <2>6
    <3> QED BY <3>1, <3>2
  <2> QED BY <2>4, <2>5, <2>6, <2>7
<1> QED BY <1>0, <1>7, <1>8, <1>10, <1>11, <1>12, <1>13, NotedKeeps DEF LimiterInv

\* With the requests unchanged, what was given and the leads are unchanged.
LEMMA SameRequests ==
    ASSUME requestsMade' = requestsMade, clockSkew' = clockSkew, NEW from, NEW to
    PROVE  /\ SharedIn(from, to)' = SharedIn(from, to)
           /\ Given(SharedIn(from, to))' = Given(SharedIn(from, to))
           /\ Lead(from, to)' = Lead(from, to)
           /\ \A i : LocalIn(i, from, to)' = LocalIn(i, from, to)
           /\ \A i : Given(LocalIn(i, from, to))' = Given(LocalIn(i, from, to))
<1>1. SharedIn(from, to)' = SharedIn(from, to) BY DEF SharedIn
<1>2. \A i : LocalIn(i, from, to)' = LocalIn(i, from, to) BY DEF LocalIn
<1>3. Given(SharedIn(from, to))' = Given(SharedIn(from, to)) BY <1>1 DEF Given
<1>4. \A i : Given(LocalIn(i, from, to))' = Given(LocalIn(i, from, to)) BY <1>2 DEF Given
<1>5. ASSUME NEW k PROVE LeadAt(from, k)' = LeadAt(from, k)
  <2>1. SharedIn(from, k - 1)' = SharedIn(from, k - 1) BY DEF SharedIn
  <2> QED BY <2>1 DEF LeadAt
<1>6. Lead(from, to)' = Lead(from, to)
  <2>1. [k \in DOMAIN requestsMade |-> LeadAt(from, k)]' = [k \in DOMAIN requestsMade |-> LeadAt(from, k)]
    BY <1>5
  <2> QED BY <1>1, <2>1 DEF Lead
<1> QED BY <1>1, <1>2, <1>3, <1>4, <1>6

\* The bucket in Redis expires, full again by then.
LEMMA ExpiryKeeps == LimiterInv /\ bucketExpires => LimiterInv'
<1> SUFFICES ASSUME LimiterInv, bucketExpires PROVE LimiterInv' OBVIOUS
<1>1. /\ LimiterTypes /\ LocalRoom /\ SharedRoom /\ LimitsNeverLift
      /\ sharedBucket.tokens >= 0 /\ limiterTime - sharedBucket.written >= KeyTtl
      /\ sharedBucket' = NoBucket
      /\ UNCHANGED <<localBuckets, clockSkew, requestsMade, limiterTime>>
  BY DEF LimiterInv, bucketExpires
<1>2. LimiterTypes' BY <1>1, LimiterAssumption DEF LimiterTypes, NoBucket
<1>3. LimitsNeverLift' BY <1>1, SameRequests DEF LimitsNeverLift
<1>4. LocalRoom' BY <1>1 DEF LocalRoom, Given, LocalIn
<1>5. LastWriter' BY <1>1 DEF LastWriter, NoBucket
<1>6. SharedRoom'
  <2>1. PICK n \in Nat : n = Len(requestsMade) /\ DOMAIN requestsMade = 1..n BY <1>1 DEF LimiterTypes
  <2>a. ~(sharedBucket'.tokens >= 0) BY <1>1 DEF NoBucket
  <2> SUFFICES ASSUME NEW from \in 1..n, SharedIn(from, n) # {}
               PROVE  Given(SharedIn(from, n)) <= PerTick * ((limiterTime - requestsMade[from].at) + Lead(from, n))
    BY <1>1, <2>1, <2>a DEF SharedRoom, Given, SharedIn, Lead, LeadAt
  <2>2. /\ requestsMade[from].at \in Nat /\ limiterTime \in Nat /\ sharedBucket.written \in Int
        /\ sharedBucket.tokens \in Int /\ KeyTtl \in Nat /\ BucketSize \in Nat /\ PerTick \in Nat
        /\ BucketSize <= KeyTtl * PerTick
    <3>1. requestsMade[from] \in Requests BY <1>1, <2>1 DEF LimiterTypes
    <3> QED BY <1>1, <3>1, LimiterAssumption DEF LimiterTypes, Requests
  <2>3. PICK S \in SUBSET (1..n) : S = SharedIn(from, n)
    <3>1. SharedIn(from, n) \in SUBSET (1..n) BY DEF SharedIn
    <3> QED BY <3>1
  <2>4. PICK g \in Nat : g = Given(SharedIn(from, n))
    <3>1. IsFiniteSet(1..n) BY FS_Interval
    <3>2. IsFiniteSet({k \in S : requestsMade[k].allowed}) BY <3>1, FS_Subset
    <3>3. Cardinality({k \in S : requestsMade[k].allowed}) \in Nat BY <3>2, FS_CardinalityType
    <3>4. Given(S) \in Nat BY <3>3, LimiterAssumption DEF Given
    <3> QED BY <3>4, <2>3
  <2>5. PICK s \in Nat : s = sharedBucket.written - requestsMade[from].at
                         /\ g + sharedBucket.tokens <= BucketSize + PerTick * (s + Lead(from, n))
    BY <1>1, <2>1, <2>4 DEF SharedRoom
  <2>6. PICK l \in Nat : l = Lead(from, n) BY <1>1, <2>1, LeadIsNat
  <2>7. PICK u \in Nat : u = limiterTime - sharedBucket.written /\ u >= KeyTtl BY <1>1, <2>2
  <2>8. KeyTtl * PerTick <= PerTick * u /\ PerTick * u \in Nat
    <3>1. PerTick * KeyTtl <= PerTick * u /\ PerTick * KeyTtl \in Nat /\ PerTick * u \in Nat
      BY <2>2, <2>7, MoreTicks
    <3>2. PerTick * KeyTtl = KeyTtl * PerTick BY <2>2
    <3> QED BY <3>1, <3>2
  <2>9. (limiterTime - requestsMade[from].at) + l = u + (s + l)
    <3>1. PICK t \in Int, w \in Int, v \in Int :
             t = limiterTime /\ w = sharedBucket.written /\ v = requestsMade[from].at
      BY <2>2
    <3>2. s = w - v /\ u = t - w BY <3>1, <2>5, <2>7
    <3>3. (t - v) + l = u + (s + l) BY <3>2
    <3> QED BY <3>1, <3>3
  <2>10. PerTick * (u + (s + l)) = PerTick * u + PerTick * (s + l) /\ PerTick * (s + l) \in Int
    <3> DEFINE y == s + l
    <3>1. y \in Int /\ u \in Int OBVIOUS
    <3> HIDE DEF y
    <3>2. PerTick * (u + y) = PerTick * u + PerTick * y /\ PerTick * y \in Int BY <3>1, TicksSplit
    <3> QED BY <3>2 DEF y
  <2>11. g <= PerTick * (u + (s + l))
    <3> DEFINE y == PerTick * (s + l)
               z == PerTick * u
               k == KeyTtl * PerTick
    <3>1. /\ g + sharedBucket.tokens <= BucketSize + y /\ y \in Int /\ z \in Nat /\ BucketSize <= k /\ k <= z
          /\ k \in Nat
      BY <2>2, <2>5, <2>6, <2>8, <2>10
    <3>2. PerTick * (u + (s + l)) = z + y BY <2>10
    <3> HIDE DEF y, z, k
    <3>3. g <= z + y BY <3>1, <1>1, <2>2
    <3> QED BY <3>2, <3>3
  <2> QED BY <2>4, <2>6, <2>9, <2>11
<1> QED BY <1>1, <1>2, <1>3, <1>4, <1>5, <1>6 DEF LimiterInv

\* Time passes.
LEMMA TimeKeeps == LimiterInv /\ limiterTick => LimiterInv'
<1> SUFFICES ASSUME LimiterInv, limiterTick PROVE LimiterInv' OBVIOUS
<1>1. /\ LimiterTypes /\ LocalRoom /\ SharedRoom /\ LimitsNeverLift /\ LastWriter
      /\ limiterTime' = limiterTime + 1 /\ limiterTime \in Nat
      /\ UNCHANGED <<sharedBucket, localBuckets, clockSkew, requestsMade>>
  BY DEF LimiterInv, limiterTick, LimiterTypes
<1>2. LimiterTypes'
  <2>1. sharedBucket'.written <= limiterTime' /\ sharedBucket.written \in Int BY <1>1 DEF LimiterTypes
  <2>2. \A i \in Instances : localBuckets'[i].last - clockSkew'[i] <= limiterTime'
    <3> SUFFICES ASSUME NEW i \in Instances PROVE localBuckets[i].last - clockSkew[i] <= limiterTime + 1
      BY <1>1
    <3>1. localBuckets[i].last \in Int /\ clockSkew[i] \in Int BY <1>1, LimiterAssumption DEF LimiterTypes
    <3> QED BY <3>1, <1>1 DEF LimiterTypes
  <2>3. \A k \in DOMAIN requestsMade : requestsMade'[k].at <= limiterTime'
    <3> SUFFICES ASSUME NEW k \in DOMAIN requestsMade PROVE requestsMade[k].at <= limiterTime + 1
      BY <1>1
    <3>1. requestsMade[k] \in Requests BY <1>1 DEF LimiterTypes
    <3> QED BY <3>1, <1>1 DEF LimiterTypes, Requests
  <2> QED BY <1>1, <2>1, <2>2, <2>3 DEF LimiterTypes
<1>3. LimitsNeverLift' BY <1>1, SameRequests DEF LimitsNeverLift
<1>4. LocalRoom' BY <1>1 DEF LocalRoom, Given, LocalIn
<1>5. LastWriter' BY <1>1 DEF LastWriter
<1>6. SharedRoom'
  <2>1. PICK n \in Nat : n = Len(requestsMade) /\ DOMAIN requestsMade = 1..n BY <1>1 DEF LimiterTypes
  <2> SUFFICES ASSUME NEW from \in 1..n, SharedIn(from, n) # {}, ~(sharedBucket.tokens >= 0)
               PROVE  Given(SharedIn(from, n)) <= PerTick * (((limiterTime + 1) - requestsMade[from].at) + Lead(from, n))
    BY <1>1, <2>1 DEF SharedRoom, Given, SharedIn, Lead, LeadAt
  <2>2. requestsMade[from].at \in Nat /\ requestsMade[from].at <= limiterTime
    <3>1. requestsMade[from] \in Requests BY <1>1, <2>1 DEF LimiterTypes
    <3> QED BY <1>1, <2>1, <3>1 DEF LimiterTypes, Requests
  <2>3. PICK l \in Nat : l = Lead(from, n) BY <1>1, <2>1, LeadIsNat
  <2>4. PICK e \in Nat : e = limiterTime - requestsMade[from].at BY <1>1, <2>2
  <2>5. ((limiterTime + 1) - requestsMade[from].at) + l = (e + l) + 1 BY <1>1, <2>2, <2>4
  <2>6. Given(SharedIn(from, n)) <= PerTick * (e + l)
    BY <1>1, <2>1, <2>3, <2>4 DEF SharedRoom
  <2>7. PerTick * (e + l) <= PerTick * ((e + l) + 1) /\ PerTick * (e + l) \in Nat /\ PerTick * ((e + l) + 1) \in Nat
    <3> DEFINE y == e + l
               z == (e + l) + 1
    <3>1. y \in Nat /\ z \in Int /\ y <= z OBVIOUS
    <3> HIDE DEF y, z
    <3>2. PerTick * y <= PerTick * z /\ PerTick * y \in Nat /\ PerTick * z \in Nat BY <3>1, MoreTicks
    <3> QED BY <3>2 DEF y, z
  <2>8. Given(SharedIn(from, n)) \in Nat
    <3>1. IsFiniteSet(1..n) BY FS_Interval
    <3>2. IsFiniteSet({k \in SharedIn(from, n) : requestsMade[k].allowed}) BY <3>1, FS_Subset DEF SharedIn
    <3>3. Cardinality({k \in SharedIn(from, n) : requestsMade[k].allowed}) \in Nat BY <3>2, FS_CardinalityType
    <3> QED BY <3>3, LimiterAssumption DEF Given
  <2> DEFINE y == PerTick * (e + l)
             z == PerTick * ((e + l) + 1)
             g == Given(SharedIn(from, n))
  <2>9. g <= y /\ y <= z /\ y \in Nat /\ z \in Nat /\ g \in Nat BY <2>6, <2>7, <2>8
  <2> HIDE DEF y, z, g
  <2>10. g <= z BY <2>9
  <2> QED BY <2>3, <2>5, <2>10 DEF g, z
<1> QED BY <1>2, <1>3, <1>4, <1>5, <1>6 DEF LimiterInv

\* Every step of the limiter keeps its invariant.
LEMMA LimiterKeeps == LimiterInv /\ [LimiterNext]_limiterVars => LimiterInv'
<1> SUFFICES ASSUME LimiterInv, [LimiterNext]_limiterVars PROVE LimiterInv' OBVIOUS
<1>1. ASSUME NEW i \in Instances, acquireShared(i) PROVE LimiterInv' BY <1>1, SharedKeeps
<1>2. ASSUME NEW i \in Instances, acquireFallback(i) PROVE LimiterInv' BY <1>2, FallbackKeeps
<1>3. CASE bucketExpires BY <1>3, ExpiryKeeps
<1>4. CASE limiterTick BY <1>4, TimeKeeps
<1>5. CASE UNCHANGED limiterVars
  <2>1. /\ UNCHANGED <<sharedBucket, localBuckets, clockSkew, requestsMade, limiterTime>>
        /\ LimiterTypes /\ LocalRoom /\ SharedRoom /\ LastWriter /\ LimitsNeverLift
    BY <1>5 DEF limiterVars, LimiterInv
  <2>2. LimiterTypes' BY <2>1 DEF LimiterTypes
  <2>3. LocalRoom' BY <2>1, SameRequests DEF LocalRoom
  <2>4. SharedRoom' BY <2>1, SameRequests DEF SharedRoom
  <2>5. LastWriter' BY <2>1 DEF LastWriter
  <2>6. LimitsNeverLift' BY <2>1, SameRequests DEF LimitsNeverLift
  <2> QED BY <2>2, <2>3, <2>4, <2>5, <2>6 DEF LimiterInv
<1> QED BY <1>1, <1>2, <1>3, <1>4, <1>5 DEF LimiterNext

\* The limits hold whatever answers, whatever the clocks: no stretch of requests
\* gets more than packages/security's bucket allows in its time.
THEOREM LimitsStay == LimiterSpec => []LimitsNeverLift
<1>1. LimiterInv => LimitsNeverLift BY DEF LimiterInv
<1> QED BY <1>1, LimiterStarts, LimiterKeeps, PTL DEF LimiterSpec

-----------------------------------------------------------------------------
(* The audit log and the roles.                                            *)

\* Every entry is what append made of it.
PrevOf(i) == IF i = 1 THEN Genesis ELSE auditLog[i - 1].hash
EntriesAsWritten ==
    /\ auditLog \in Seq({auditLog[i] : i \in DOMAIN auditLog})
    /\ \A i \in DOMAIN auditLog :
         auditLog[i] = [sequence |-> i, body |-> auditLog[i].body, prev |-> PrevOf(i),
                        hash |-> <<PrevOf(i), i, auditLog[i].body>>]

Attempts == [actor : Actors, from : DOMAIN RoleRank \cup {NoRole}, target : DOMAIN RoleRank, allowed : BOOLEAN]

\* A role that is no longer the assigned one was given up by an owner or admin.
RolesAreEarned ==
    /\ roleOf \in [Actors -> DOMAIN RoleRank \cup {NoRole}]
    /\ assigned \in [Actors -> Seq(DOMAIN RoleRank)]
    /\ escalationAttempts \in Seq(Attempts)
    /\ \A a \in Actors : roleOf[a] # NoRole =>
          /\ assigned[a] # <<>>
          /\ roleOf[a] # Last(assigned[a]) => Last(assigned[a]) \in {"owner", "admin"}
    /\ RanksAreAssigned

\* The log is as it was written, and the roles were earned.
AuditInv == EntriesAsWritten /\ RolesAreEarned /\ Len(auditLog) <= AuditLimit

\* The audit log and the roles start within their invariant.
LEMMA AuditStarts == AuditInit => AuditInv
<1> SUFFICES ASSUME AuditInit PROVE AuditInv OBVIOUS
<1>1. EntriesAsWritten BY DEF AuditInit, EntriesAsWritten
<1>2. RolesAreEarned BY DEF AuditInit, RolesAreEarned, RanksAreAssigned
<1>3. Len(auditLog) <= AuditLimit BY RolesAssumption DEF AuditInit
<1> QED BY <1>1, <1>2, <1>3 DEF AuditInv

\* An appended entry keeps the log as it was written, and within its limit.
LEMMA appendKeeps ==
    ASSUME EntriesAsWritten, NEW body, append(body)
    PROVE  EntriesAsWritten' /\ Len(auditLog)' <= AuditLimit
<1> DEFINE S == {auditLog[i] : i \in DOMAIN auditLog}
           prev == PreviousHash(auditLog)
           entry == [sequence |-> Len(auditLog) + 1, body |-> body, prev |-> prev,
                     hash |-> <<prev, Len(auditLog) + 1, body>>]
           R == S \cup {entry}
<1>1. PICK n \in Nat : n = Len(auditLog) /\ DOMAIN auditLog = 1..n
  BY DEF EntriesAsWritten
<1>2. auditLog' = Append(auditLog, entry) /\ n < AuditLimit
  BY <1>1 DEF append, EntryHash
<1>3. auditLog \in Seq(R) /\ entry \in R
  <2>1. auditLog \in Seq(S) /\ S \subseteq R BY DEF EntriesAsWritten
  <2> HIDE DEF S, R
  <2>2. auditLog \in Seq(R) BY <2>1
  <2> QED BY <2>2 DEF R
<1>4. prev = IF n = 0 THEN Genesis ELSE auditLog[n].hash
  <2>1. auditLog = <<>> <=> n = 0 BY <1>1 DEF EntriesAsWritten
  <2> QED BY <2>1, <1>1 DEF PreviousHash, Last
<1> HIDE DEF S, R, entry, prev
<1>5. /\ DOMAIN auditLog' = 1..(n + 1) /\ Len(auditLog') = n + 1 /\ auditLog'[n + 1] = entry
      /\ \A i \in 1..n : auditLog'[i] = auditLog[i]
  BY <1>1, <1>2, <1>3
<1>6. \A i \in 1..(n + 1) : PrevOf(i)' = IF i = n + 1 THEN prev ELSE PrevOf(i)
  BY <1>1, <1>4, <1>5 DEF PrevOf
<1>7. \A i \in 1..(n + 1) :
         auditLog'[i] = [sequence |-> i, body |-> auditLog'[i].body, prev |-> PrevOf(i)',
                         hash |-> <<PrevOf(i)', i, auditLog'[i].body>>]
  <2> SUFFICES ASSUME NEW i \in 1..(n + 1)
               PROVE  auditLog'[i] = [sequence |-> i, body |-> auditLog'[i].body, prev |-> PrevOf(i)',
                                      hash |-> <<PrevOf(i)', i, auditLog'[i].body>>]
    OBVIOUS
  <2>1. CASE i = n + 1
    BY <2>1, <1>1, <1>5, <1>6 DEF entry
  <2>2. CASE i # n + 1
    <3>1. i \in DOMAIN auditLog /\ auditLog'[i] = auditLog[i] /\ PrevOf(i)' = PrevOf(i)
      BY <2>2, <1>1, <1>5, <1>6
    <3> QED BY <3>1 DEF EntriesAsWritten
  <2> QED BY <2>1, <2>2
<1>8. auditLog' \in Seq({auditLog'[i] : i \in DOMAIN auditLog'})
  <2>1. \E T : auditLog' \in Seq(T) BY <1>2, <1>3
  <2>2. auditLog' = [i \in 1..(n + 1) |-> auditLog'[i]] BY <2>1, <1>5
  <2> QED BY <2>2, <1>5
<1>9. Len(auditLog)' <= AuditLimit BY <1>2, <1>5, RolesAssumption
<1> QED BY <1>5, <1>7, <1>8, <1>9 DEF EntriesAsWritten

\* What was appended is last.
LEMMA LastAppended ==
    ASSUME NEW S, NEW s \in Seq(S), NEW e \in S
    PROVE  Last(Append(s, e)) = e /\ Append(s, e) # <<>> /\ Append(s, e) \in Seq(S)
BY DEF Last

\* An assigned role is one that was earned.
LEMMA assignRoleKeeps ==
    ASSUME RolesAreEarned, NEW a \in Actors, NEW role \in DOMAIN RoleRank, assignRole(a, role)
    PROVE  RolesAreEarned'
<1>1. /\ roleOf' = [roleOf EXCEPT ![a] = role]
      /\ assigned' = [assigned EXCEPT ![a] = Append(@, role)]
      /\ escalationAttempts' = escalationAttempts
  BY DEF assignRole
<1>2. /\ roleOf \in [Actors -> DOMAIN RoleRank \cup {NoRole}] /\ assigned \in [Actors -> Seq(DOMAIN RoleRank)]
      /\ escalationAttempts \in Seq(Attempts)
  BY DEF RolesAreEarned
<1>3. /\ roleOf' \in [Actors -> DOMAIN RoleRank \cup {NoRole}]
      /\ roleOf'[a] = role /\ \A b \in Actors : b # a => roleOf'[b] = roleOf[b]
  BY <1>1, <1>2
<1>4. assigned'[a] = Append(assigned[a], role) /\ \A b \in Actors : b # a => assigned'[b] = assigned[b]
  BY <1>1, <1>2
<1>5. Last(assigned'[a]) = role /\ assigned'[a] # <<>> /\ assigned'[a] \in Seq(DOMAIN RoleRank)
  <2>1. assigned[a] \in Seq(DOMAIN RoleRank) BY <1>2
  <2> QED BY <2>1, <1>4, LastAppended
<1>6. assigned' \in [Actors -> Seq(DOMAIN RoleRank)]
  BY <1>1, <1>2, <1>4, <1>5
<1>7. RoleRank[role] <= RoleRank[role] BY RolesAssumption
<1>8. GrantAllows(a, "manage")' => role \in {"owner", "admin"}
  BY <1>3, RolesAssumption DEF GrantAllows
<1>9. ASSUME NEW b \in Actors, roleOf'[b] # NoRole
      PROVE  /\ assigned'[b] # <<>>
             /\ roleOf'[b] # Last(assigned'[b]) => Last(assigned'[b]) \in {"owner", "admin"}
             /\ RoleRank[roleOf'[b]] <= RoleRank[Last(assigned'[b])]
             /\ GrantAllows(b, "manage")' => Last(assigned'[b]) \in {"owner", "admin"}
             /\ roleOf'[b] # Last(assigned'[b]) =>
                  \E k \in DOMAIN escalationAttempts' :
                     escalationAttempts'[k].actor = b /\ escalationAttempts'[k].allowed
                       /\ escalationAttempts'[k].target = roleOf'[b]
  <2>1. CASE b = a
    BY <2>1, <1>3, <1>5, <1>7, <1>8
  <2>2. CASE b # a
    <3>1. roleOf'[b] = roleOf[b] /\ assigned'[b] = assigned[b] BY <2>2, <1>3, <1>4
    <3>2. GrantAllows(b, "manage")' <=> GrantAllows(b, "manage") BY <3>1 DEF GrantAllows
    <3> QED BY <3>1, <3>2, <1>1, <1>9 DEF RolesAreEarned, RanksAreAssigned
  <2> QED BY <2>1, <2>2
<1> QED BY <1>1, <1>2, <1>3, <1>6, <1>9 DEF RolesAreEarned, RanksAreAssigned

\* An escalation, granted or refused, leaves every role earned.
LEMMA attemptEscalationKeeps ==
    ASSUME RolesAreEarned, NEW a \in Actors, NEW target \in DOMAIN RoleRank, attemptEscalation(a, target)
    PROVE  RolesAreEarned'
<1> DEFINE attempt == [actor |-> a, from |-> roleOf[a], target |-> target, allowed |-> MayTake(a, target)]
<1>1. /\ escalationAttempts' = Append(escalationAttempts, attempt)
      /\ roleOf' = IF MayTake(a, target) THEN [roleOf EXCEPT ![a] = target] ELSE roleOf
      /\ assigned' = assigned
  BY DEF attemptEscalation
<1>2. /\ roleOf \in [Actors -> DOMAIN RoleRank \cup {NoRole}] /\ assigned \in [Actors -> Seq(DOMAIN RoleRank)]
      /\ escalationAttempts \in Seq(Attempts)
  BY DEF RolesAreEarned
<1>3. attempt \in Attempts
  <2>1. MayTake(a, target) \in BOOLEAN BY DEF MayTake
  <2> QED BY <1>2, <2>1 DEF Attempts
<1>4. attempt.actor = a /\ attempt.target = target /\ (attempt.allowed <=> MayTake(a, target)) OBVIOUS
<1> HIDE DEF attempt
<1>5. PICK n \in Nat : n = Len(escalationAttempts) /\ DOMAIN escalationAttempts = 1..n BY <1>2
<1>6. /\ DOMAIN escalationAttempts' = 1..(n + 1) /\ escalationAttempts'[n + 1] = attempt
      /\ \A k \in 1..n : escalationAttempts'[k] = escalationAttempts[k]
      /\ escalationAttempts' \in Seq(Attempts)
  BY <1>1, <1>2, <1>3, <1>5
<1>7. roleOf' \in [Actors -> DOMAIN RoleRank \cup {NoRole}] BY <1>1, <1>2
<1>8. ASSUME NEW b \in Actors, roleOf'[b] # NoRole
      PROVE  /\ assigned'[b] # <<>>
             /\ roleOf'[b] # Last(assigned'[b]) => Last(assigned'[b]) \in {"owner", "admin"}
             /\ RoleRank[roleOf'[b]] <= RoleRank[Last(assigned'[b])]
             /\ GrantAllows(b, "manage")' => Last(assigned'[b]) \in {"owner", "admin"}
             /\ roleOf'[b] # Last(assigned'[b]) =>
                  \E k \in DOMAIN escalationAttempts' :
                     escalationAttempts'[k].actor = b /\ escalationAttempts'[k].allowed
                       /\ escalationAttempts'[k].target = roleOf'[b]
  <2>1. CASE b = a /\ MayTake(a, target)
    <3>1. roleOf'[a] = target /\ roleOf[a] \in {"owner", "admin"} /\ RoleRank[target] < RoleRank[roleOf[a]]
      BY <2>1, <1>1, <1>2 DEF MayTake
    <3>2. roleOf[a] # NoRole BY <3>1 DEF NoRole
    <3>3. assigned[a] # <<>> /\ Last(assigned[a]) \in {"owner", "admin"}
      BY <3>1, <3>2 DEF RolesAreEarned
    <3>4. Last(assigned[a]) \in DOMAIN RoleRank
      <4>1. assigned[a] \in Seq(DOMAIN RoleRank) BY <1>2
      <4> QED BY <3>3, <4>1 DEF Last
    <3>5. RoleRank[roleOf[a]] <= RoleRank[Last(assigned[a])] BY <3>2 DEF RolesAreEarned, RanksAreAssigned
    <3>6. roleOf[a] \in DOMAIN RoleRank BY <3>2, <1>2
    <3>7. RoleRank[target] <= RoleRank[Last(assigned[a])]
      BY <3>1, <3>4, <3>5, <3>6, RolesAssumption
    <3>8. escalationAttempts'[n + 1].actor = a /\ escalationAttempts'[n + 1].allowed
            /\ escalationAttempts'[n + 1].target = roleOf'[a]
      BY <2>1, <1>4, <1>6, <3>1
    <3>9. n + 1 \in DOMAIN escalationAttempts' BY <1>6
    <3> QED BY <2>1, <1>1, <3>1, <3>3, <3>7, <3>8, <3>9
  <2>2. CASE ~(b = a /\ MayTake(a, target))
    <3>1. roleOf'[b] = roleOf[b] /\ assigned'[b] = assigned[b] BY <2>2, <1>1, <1>2
    <3>2. GrantAllows(b, "manage")' <=> GrantAllows(b, "manage") BY <3>1 DEF GrantAllows
    <3>3. roleOf[b] # Last(assigned[b]) =>
             \E k \in DOMAIN escalationAttempts :
                 escalationAttempts[k].actor = b /\ escalationAttempts[k].allowed
                   /\ escalationAttempts[k].target = roleOf[b]
      BY <3>1, <1>8 DEF RolesAreEarned, RanksAreAssigned
    <3>4. roleOf'[b] # Last(assigned'[b]) =>
             \E k \in DOMAIN escalationAttempts' :
                 escalationAttempts'[k].actor = b /\ escalationAttempts'[k].allowed
                   /\ escalationAttempts'[k].target = roleOf'[b]
      BY <3>1, <3>3, <1>5, <1>6
    <3> QED BY <3>1, <3>2, <3>4, <1>8 DEF RolesAreEarned, RanksAreAssigned
  <2> QED BY <2>1, <2>2
<1> QED BY <1>1, <1>2, <1>6, <1>7, <1>8 DEF RolesAreEarned, RanksAreAssigned

\* Every step of the audit keeps its invariant.
LEMMA AuditStepInv == AuditInv /\ [AuditNext]_auditVars => AuditInv'
<1> SUFFICES ASSUME AuditInv, [AuditNext]_auditVars PROVE AuditInv' OBVIOUS
<1>1. EntriesAsWritten /\ RolesAreEarned /\ Len(auditLog) <= AuditLimit BY DEF AuditInv
<1>2. ASSUME auditLog' = auditLog PROVE EntriesAsWritten' /\ Len(auditLog)' <= AuditLimit
  BY <1>1, <1>2 DEF EntriesAsWritten, PrevOf
<1>3. ASSUME UNCHANGED <<roleOf, escalationAttempts, assigned>> PROVE RolesAreEarned'
  BY <1>1, <1>3 DEF RolesAreEarned, RanksAreAssigned, GrantAllows
<1>4. ASSUME NEW body \in AuditBodies, append(body) PROVE AuditInv'
  <2>1. EntriesAsWritten' /\ Len(auditLog)' <= AuditLimit BY <1>1, <1>4, appendKeeps
  <2>2. RolesAreEarned' BY <1>3, <1>4 DEF append
  <2> QED BY <2>1, <2>2 DEF AuditInv
<1>5. ASSUME NEW a \in Actors, NEW role \in DOMAIN RoleRank, assignRole(a, role) \/ attemptEscalation(a, role)
      PROVE  AuditInv'
  <2>1. RolesAreEarned' BY <1>1, <1>5, assignRoleKeeps, attemptEscalationKeeps
  <2>2. EntriesAsWritten' /\ Len(auditLog)' <= AuditLimit BY <1>2, <1>5 DEF assignRole, attemptEscalation
  <2> QED BY <2>1, <2>2 DEF AuditInv
<1>6. CASE UNCHANGED auditVars BY <1>2, <1>3, <1>6 DEF auditVars, AuditInv
<1> QED BY <1>4, <1>5, <1>6 DEF AuditNext

-----------------------------------------------------------------------------
(* What a changed log gives away.                                          *)

\* A hash tells its place, and whatever comes after it.
LEMMA HashTellsPlace ==
    ASSUME EntriesAsWritten, NEW i \in DOMAIN auditLog, NEW k \in DOMAIN auditLog
    PROVE  /\ auditLog[i].hash = auditLog[k].hash => i = k
           /\ auditLog[i].hash # Genesis
           /\ PrevOf(i) = PrevOf(k) => i = k
           /\ auditLog[k].hash = PrevOf(i) => k = i - 1
<1>1. \A j \in DOMAIN auditLog : auditLog[j].hash = <<PrevOf(j), j, auditLog[j].body>>
  BY DEF EntriesAsWritten
<1>2. \A j \in DOMAIN auditLog : auditLog[j].hash[2] = j /\ Len(auditLog[j].hash) = 3
  BY <1>1
<1>3. \A j \in DOMAIN auditLog : auditLog[j].hash # Genesis
  <2>1. Len(Genesis) = 0 BY DEF Genesis
  <2> QED BY <1>2, <2>1
<1>4. DOMAIN auditLog = 1..Len(auditLog) /\ Len(auditLog) \in Nat BY DEF EntriesAsWritten
<1>5. \A j \in DOMAIN auditLog : j # 1 => j - 1 \in DOMAIN auditLog /\ PrevOf(j) = auditLog[j - 1].hash
  BY <1>4 DEF PrevOf
<1>6. \A j \in DOMAIN auditLog : j = 1 => PrevOf(j) = Genesis BY DEF PrevOf
<1>7. PrevOf(i) = PrevOf(k) => i = k
  <2>1. CASE i = 1 BY <2>1, <1>3, <1>5, <1>6
  <2>2. CASE k = 1 BY <2>2, <1>3, <1>5, <1>6
  <2>3. CASE i # 1 /\ k # 1
    <3>1. PrevOf(i) = auditLog[i - 1].hash /\ PrevOf(k) = auditLog[k - 1].hash BY <2>3, <1>5
    <3>2. auditLog[i - 1].hash[2] = i - 1 /\ auditLog[k - 1].hash[2] = k - 1 BY <2>3, <1>2, <1>5
    <3> QED BY <3>1, <3>2, <1>4
  <2> QED BY <2>1, <2>2, <2>3
<1>8. auditLog[k].hash = PrevOf(i) => k = i - 1
  <2>1. CASE i = 1 BY <2>1, <1>3, <1>6
  <2>2. CASE i # 1
    <3>1. PrevOf(i) = auditLog[i - 1].hash /\ auditLog[i - 1].hash[2] = i - 1 BY <2>2, <1>2, <1>5
    <3> QED BY <3>1, <1>2
  <2> QED BY <2>1, <2>2
<1> QED BY <1>2, <1>3, <1>7, <1>8

\* A log whose entries are as they were written verifies.
LEMMA LogVerifies == EntriesAsWritten => VerifyChain(auditLog)
BY DEF EntriesAsWritten, VerifyChain, EntryHash, PrevOf

\* A body that says something else.
LEMMA BodyShows ==
    ASSUME EntriesAsWritten, NEW i \in DOMAIN auditLog, NEW body,
           VerifyChain([auditLog EXCEPT ![i].body = body])
    PROVE  [auditLog EXCEPT ![i].body = body] = auditLog
<1> DEFINE log == [auditLog EXCEPT ![i].body = body]
<1>1. log[i].hash = auditLog[i].hash /\ log[i].body = body /\ i \in DOMAIN log
      /\ log[i].sequence = auditLog[i].sequence /\ log[i].prev = auditLog[i].prev
      /\ log[i] = [auditLog[i] EXCEPT !.body = body]
  BY DEF EntriesAsWritten
<1>2. \E p : log[i].hash = <<p, log[i].sequence, log[i].body>>
  BY <1>1 DEF VerifyChain, EntryHash
<1>3. auditLog[i].hash = <<PrevOf(i), i, auditLog[i].body>> BY DEF EntriesAsWritten
<1>4. body = auditLog[i].body BY <1>1, <1>2, <1>3
<1>5. log[i] = auditLog[i] BY <1>1, <1>4 DEF EntriesAsWritten
<1> QED BY <1>5 DEF EntriesAsWritten

\* Two entries that changed places.
LEMMA MoveShows ==
    ASSUME EntriesAsWritten, NEW i \in DOMAIN auditLog, NEW k \in DOMAIN auditLog,
           VerifyChain([auditLog EXCEPT ![i] = auditLog[k], ![k] = auditLog[i]])
    PROVE  i = k
<1> DEFINE log == [auditLog EXCEPT ![i] = auditLog[k], ![k] = auditLog[i]]
<1>0. DOMAIN auditLog = 1..Len(auditLog) /\ Len(auditLog) \in Nat BY DEF EntriesAsWritten
<1>1. DOMAIN log = DOMAIN auditLog BY <1>0
<1>2. ASSUME i < k PROVE FALSE
  <2>1. log[i] = auditLog[k] BY <1>0, <1>2
  <2>2. \A j \in 1..(i - 1) : log[j] = auditLog[j] BY <1>0, <1>2
  <2>3. log[i].prev = IF i = 1 THEN Genesis ELSE log[i - 1].hash BY <1>1 DEF VerifyChain
  <2>4. log[i].prev = PrevOf(i) BY <2>2, <2>3, <1>0 DEF PrevOf
  <2>5. auditLog[k].prev = PrevOf(k) BY DEF EntriesAsWritten
  <2> QED BY <2>1, <2>4, <2>5, <1>2, <1>0, HashTellsPlace
<1>3. ASSUME k < i PROVE FALSE
  <2>1. log[k] = auditLog[i] BY <1>0
  <2>2. \A j \in 1..(k - 1) : log[j] = auditLog[j] BY <1>0, <1>3
  <2>3. log[k].prev = IF k = 1 THEN Genesis ELSE log[k - 1].hash BY <1>1 DEF VerifyChain
  <2>4. log[k].prev = PrevOf(k) BY <2>2, <2>3, <1>0 DEF PrevOf
  <2>5. auditLog[i].prev = PrevOf(i) BY DEF EntriesAsWritten
  <2> QED BY <2>1, <2>4, <2>5, <1>3, <1>0, HashTellsPlace
<1> QED BY <1>0, <1>2, <1>3

\* What an entry that is taken out or put in moves.
LEMMA Stretch ==
    ASSUME NEW S, NEW s \in Seq(S), NEW m \in Int, NEW n \in Int, 1 <= m, m <= n + 1, n <= Len(s)
    PROVE  /\ SubSeq(s, m, n) \in Seq(S) /\ Len(SubSeq(s, m, n)) = (n - m) + 1
           /\ \A j \in 1..((n - m) + 1) : SubSeq(s, m, n)[j] = s[(m + j) - 1]
OBVIOUS

\* What a sequence is without one of its entries.
LEMMA WithoutEntry ==
    ASSUME NEW S, NEW s \in Seq(S), NEW i \in DOMAIN s
    PROVE  /\ DOMAIN RemoveAt(s, i) = 1..(Len(s) - 1) /\ Len(RemoveAt(s, i)) = Len(s) - 1
           /\ \A j \in 1..(i - 1) : RemoveAt(s, i)[j] = s[j]
           /\ \A j \in i..(Len(s) - 1) : RemoveAt(s, i)[j] = s[j + 1]
           /\ RemoveAt(s, i) \in Seq(S)
<1>0. PICK n \in Nat : n = Len(s) /\ DOMAIN s = 1..n OBVIOUS
<1>1. PICK a : a = SubSeq(s, 1, i - 1) OBVIOUS
<1>2. PICK b : b = SubSeq(s, i + 1, n) OBVIOUS
<1>3. a \in Seq(S) /\ Len(a) = i - 1 /\ \A j \in 1..(i - 1) : a[j] = s[j]
  <2>1. /\ SubSeq(s, 1, i - 1) \in Seq(S) /\ Len(SubSeq(s, 1, i - 1)) = ((i - 1) - 1) + 1
        /\ \A j \in 1..(((i - 1) - 1) + 1) : SubSeq(s, 1, i - 1)[j] = s[(1 + j) - 1]
    BY <1>0, Stretch
  <2> QED BY <2>1, <1>0, <1>1
<1>4. b \in Seq(S) /\ Len(b) = n - i /\ \A j \in 1..(n - i) : b[j] = s[i + j]
  <2>1. /\ SubSeq(s, i + 1, n) \in Seq(S) /\ Len(SubSeq(s, i + 1, n)) = (n - (i + 1)) + 1
        /\ \A j \in 1..((n - (i + 1)) + 1) : SubSeq(s, i + 1, n)[j] = s[((i + 1) + j) - 1]
    BY <1>0, Stretch
  <2> QED BY <2>1, <1>0, <1>2
<1>5. RemoveAt(s, i) = a \o b BY <1>0, <1>1, <1>2 DEF RemoveAt
<1>6. /\ a \o b \in Seq(S) /\ Len(a \o b) = n - 1
      /\ \A j \in 1..(i - 1) : (a \o b)[j] = s[j]
      /\ \A j \in 1..(n - i) : (a \o b)[(i - 1) + j] = s[i + j]
  <2>1. PICK c : c = a \o b OBVIOUS
  <2>2. /\ c \in Seq(S) /\ Len(c) = Len(a) + Len(b)
        /\ \A j \in 1..Len(a) : c[j] = a[j]
        /\ \A j \in 1..Len(b) : c[Len(a) + j] = b[j]
    <3>1. a \in Seq(S) /\ b \in Seq(S) BY <1>3, <1>4
    <3> QED BY <3>1, <2>1, Joined
  <2>3. i \in Int /\ (i - 1) + (n - i) = n - 1 BY <1>0
  <2>4. /\ c \in Seq(S) /\ Len(c) = n - 1
        /\ \A j \in 1..(i - 1) : c[j] = s[j]
        /\ \A j \in 1..(n - i) : c[(i - 1) + j] = s[i + j]
    BY <2>2, <2>3, <1>3, <1>4
  <2> QED BY <2>1, <2>4
<1>7. ASSUME NEW j \in i..(n - 1) PROVE (a \o b)[j] = s[j + 1]
  <2>1. (j - i) + 1 \in 1..(n - i) /\ (i - 1) + ((j - i) + 1) = j /\ i + ((j - i) + 1) = j + 1 BY <1>0
  <2> QED BY <2>1, <1>6
<1>8. DOMAIN (a \o b) = 1..(n - 1) /\ i \in 1..n BY <1>0, <1>6
<1> QED
  <2>1. PICK c : c = a \o b OBVIOUS
  <2>2. RemoveAt(s, i) = c BY <2>1, <1>5
  <2>3. /\ DOMAIN c = 1..(n - 1) /\ Len(c) = n - 1 /\ c \in Seq(S)
        /\ \A j \in 1..(i - 1) : c[j] = s[j]
        /\ \A j \in i..(n - 1) : c[j] = s[j + 1]
    BY <2>1, <1>6, <1>7, <1>8
  <2> QED BY <2>2, <2>3, <1>0

\* What a sequence is with one more entry among the others.
LEMMA WithEntry ==
    ASSUME NEW S, NEW s \in Seq(S), NEW i \in DOMAIN s, NEW e \in S
    PROVE  /\ DOMAIN InsertAt(s, i, e) = 1..(Len(s) + 1)
           /\ \A j \in 1..(i - 1) : InsertAt(s, i, e)[j] = s[j]
           /\ InsertAt(s, i, e)[i] = e
           /\ InsertAt(s, i, e)[i + 1] = s[i]
<1>0. PICK n \in Nat : n = Len(s) /\ DOMAIN s = 1..n OBVIOUS
<1>1. PICK a : a = SubSeq(s, 1, i - 1) OBVIOUS
<1>2. PICK b : b = SubSeq(s, i, n) OBVIOUS
<1>3. a \in Seq(S) /\ Len(a) = i - 1 /\ \A j \in 1..(i - 1) : a[j] = s[j]
  <2>1. /\ SubSeq(s, 1, i - 1) \in Seq(S) /\ Len(SubSeq(s, 1, i - 1)) = ((i - 1) - 1) + 1
        /\ \A j \in 1..(((i - 1) - 1) + 1) : SubSeq(s, 1, i - 1)[j] = s[(1 + j) - 1]
    BY <1>0, Stretch
  <2> QED BY <2>1, <1>0, <1>1
<1>4. b \in Seq(S) /\ Len(b) = (n - i) + 1 /\ b[1] = s[i]
  <2>1. /\ SubSeq(s, i, n) \in Seq(S) /\ Len(SubSeq(s, i, n)) = (n - i) + 1
        /\ \A j \in 1..((n - i) + 1) : SubSeq(s, i, n)[j] = s[(i + j) - 1]
    BY <1>0, Stretch
  <2>2. 1 \in 1..((n - i) + 1) /\ (i + 1) - 1 = i BY <1>0
  <2> QED BY <2>1, <2>2, <1>0, <1>2
<1>5. PICK c : c = a \o <<e>> OBVIOUS
<1>6. c \in Seq(S) /\ Len(c) = i /\ c[i] = e /\ \A j \in 1..(i - 1) : c[j] = s[j]
  <2>1. <<e>> \in Seq(S) /\ Len(<<e>>) = 1 /\ <<e>>[1] = e OBVIOUS
  <2>2. /\ c \in Seq(S) /\ Len(c) = Len(a) + 1 /\ c[Len(a) + 1] = e
        /\ \A j \in 1..Len(a) : c[j] = a[j]
    BY <1>3, <1>5, <2>1, Joined
  <2> QED BY <2>2, <1>0, <1>3
<1>7. /\ Len(c \o b) = n + 1 /\ c \o b \in Seq(S)
      /\ \A j \in 1..i : (c \o b)[j] = c[j]
      /\ (c \o b)[i + 1] = b[1]
  <2>0. PICK d : d = c \o b OBVIOUS
  <2>1. 1 \in 1..Len(b) BY <1>0, <1>4
  <2>2. /\ d \in Seq(S) /\ Len(d) = Len(c) + Len(b)
        /\ \A j \in 1..Len(c) : d[j] = c[j]
        /\ \A j \in 1..Len(b) : d[Len(c) + j] = b[j]
    <3>1. c \in Seq(S) /\ b \in Seq(S) BY <1>4, <1>6
    <3> QED BY <3>1, <2>0, Joined
  <2>3. d[Len(c) + 1] = b[1] BY <2>1, <2>2
  <2>4. i \in Int /\ i + ((n - i) + 1) = n + 1 BY <1>0
  <2>5. Len(c) = i /\ Len(b) = (n - i) + 1 BY <1>4, <1>6
  <2> QED BY <2>0, <2>2, <2>3, <2>4, <2>5
<1>8. InsertAt(s, i, e) = c \o b BY <1>0, <1>1, <1>2, <1>5 DEF InsertAt
<1> QED BY <1>0, <1>4, <1>6, <1>7, <1>8

\* An entry that is missing: only the last can be, unseen.
LEMMA LossShows ==
    ASSUME EntriesAsWritten, NEW i \in DOMAIN auditLog, VerifyChain(RemoveAt(auditLog, i))
    PROVE  IsPrefix(RemoveAt(auditLog, i), auditLog)
<1> DEFINE S == {auditLog[j] : j \in DOMAIN auditLog}
           log == RemoveAt(auditLog, i)
           n == Len(auditLog)
<1>0. auditLog \in Seq(S) /\ n \in Nat /\ DOMAIN auditLog = 1..n BY DEF EntriesAsWritten
<1> HIDE DEF S
<1>1. /\ DOMAIN log = 1..(n - 1) /\ Len(log) = n - 1
      /\ \A j \in 1..(i - 1) : log[j] = auditLog[j]
      /\ \A j \in i..(n - 1) : log[j] = auditLog[j + 1]
      /\ log \in Seq(S)
  BY <1>0, WithoutEntry
<1> HIDE DEF log
<1>2. i = n
  <2> SUFFICES ASSUME i # n PROVE FALSE OBVIOUS
  <2>1. i \in 1..(n - 1) /\ i + 1 \in DOMAIN auditLog BY <1>0
  <2>2. log[i].prev = IF i = 1 THEN Genesis ELSE log[i - 1].hash BY <2>1, <1>1 DEF VerifyChain, log
  <2>3. log[i].prev = PrevOf(i) BY <2>1, <2>2, <1>1 DEF PrevOf
  <2>4. log[i] = auditLog[i + 1] BY <2>1, <1>1
  <2>5. auditLog[i + 1].prev = PrevOf(i + 1) BY <2>1 DEF EntriesAsWritten
  <2>6. i = i + 1 BY <2>1, <2>3, <2>4, <2>5, HashTellsPlace
  <2> QED BY <2>6, <1>0
<1>3. SubSeq(log, 1, n - 1) = SubSeq(auditLog, 1, n - 1)
  BY <1>0, <1>1, <1>2
<1> QED BY <1>0, <1>1, <1>3 DEF IsPrefix, log

\* An entry that is told again.
LEMMA RepetitionShows ==
    ASSUME EntriesAsWritten, NEW i \in DOMAIN auditLog, NEW k \in DOMAIN auditLog,
           VerifyChain(InsertAt(auditLog, i, auditLog[k]))
    PROVE  FALSE
<1> DEFINE S == {auditLog[j] : j \in DOMAIN auditLog}
           log == InsertAt(auditLog, i, auditLog[k])
           n == Len(auditLog)
<1>0. auditLog \in Seq(S) /\ n \in Nat /\ DOMAIN auditLog = 1..n /\ auditLog[k] \in S BY DEF EntriesAsWritten
<1> HIDE DEF S
<1>1. /\ DOMAIN log = 1..(n + 1) /\ log[i] = auditLog[k] /\ log[i + 1] = auditLog[i]
      /\ \A j \in 1..(i - 1) : log[j] = auditLog[j]
  <2>1. PICK e \in S : e = auditLog[k] BY <1>0
  <2>2. auditLog \in Seq(S) /\ i \in DOMAIN auditLog BY <1>0
  <2>3. PICK d : d = InsertAt(auditLog, i, e) OBVIOUS
  <2>4. /\ DOMAIN d = 1..(Len(auditLog) + 1)
        /\ \A j \in 1..(i - 1) : d[j] = auditLog[j]
        /\ d[i] = e /\ d[i + 1] = auditLog[i]
    BY <2>2, <2>3, WithEntry
  <2>5. d = log BY <2>1, <2>3
  <2> HIDE DEF log
  <2> QED BY <2>1, <2>4, <2>5
<1> HIDE DEF log
<1>2. log[i].prev = PrevOf(i)
  <2>1. log[i].prev = IF i = 1 THEN Genesis ELSE log[i - 1].hash BY <1>0, <1>1 DEF VerifyChain, log
  <2> QED BY <2>1, <1>0, <1>1 DEF PrevOf
<1>3. auditLog[k].prev = PrevOf(k) /\ auditLog[i].prev = PrevOf(i) BY DEF EntriesAsWritten
<1>4. k = i BY <1>1, <1>2, <1>3, HashTellsPlace
<1>5. log[i + 1].prev = log[i].hash
  <2>1. i + 1 \in DOMAIN log /\ i + 1 # 1 /\ (i + 1) - 1 = i BY <1>0, <1>1
  <2> QED BY <2>1 DEF VerifyChain, log
<1>6. auditLog[k].hash = PrevOf(i) BY <1>1, <1>3, <1>5
<1>7. k = i - 1 BY <1>6, HashTellsPlace
<1> QED BY <1>0, <1>4, <1>7

\* The audit's invariant says that the accounts are kept.
LEMMA AuditInvTells == AuditInv => AccountsAreKept
<1> SUFFICES ASSUME AuditInv PROVE AccountsAreKept OBVIOUS
<1>1. EntriesAsWritten /\ RanksAreAssigned BY DEF AuditInv, RolesAreEarned
<1>2. PICK n \in Nat : n = Len(auditLog) /\ DOMAIN auditLog = 1..n BY <1>1 DEF EntriesAsWritten
<1>3. IsPrefix(auditLog, auditLog) BY <1>2 DEF IsPrefix
<1>4. ASSUME NEW log \in TamperedLogs, VerifyChain(log)
      PROVE  IsPrefix(log, auditLog)
  <2>1. CASE \E i \in 1..n, body \in AuditBodies : log = [auditLog EXCEPT ![i].body = body]
    <3>1. PICK i \in 1..n, body \in AuditBodies : log = [auditLog EXCEPT ![i].body = body] BY <2>1
    <3>2. log = auditLog BY <3>1, <1>1, <1>2, <1>4, BodyShows
    <3> QED BY <3>2, <1>3
  <2>2. CASE \E i, k \in 1..n : log = [auditLog EXCEPT ![i] = auditLog[k], ![k] = auditLog[i]]
    <3>1. PICK i \in 1..n, k \in 1..n : log = [auditLog EXCEPT ![i] = auditLog[k], ![k] = auditLog[i]] BY <2>2
    <3>2. i = k BY <3>1, <1>1, <1>2, <1>4, MoveShows
    <3>3. log = auditLog BY <3>1, <3>2, <1>1 DEF EntriesAsWritten
    <3> QED BY <3>3, <1>3
  <2>3. CASE \E i \in 1..n : log = RemoveAt(auditLog, i)
    BY <2>3, <1>1, <1>2, <1>4, LossShows
  <2>4. CASE \E i, k \in 1..n : log = InsertAt(auditLog, i, auditLog[k])
    BY <2>4, <1>1, <1>2, <1>4, RepetitionShows
  <2> QED BY <1>2, <1>4, <2>1, <2>2, <2>3, <2>4 DEF TamperedLogs
<1> QED BY <1>1, <1>4, LogVerifies DEF AccountsAreKept, TamperingShows

\* Whatever is appended and however a log is changed afterwards, the chain tells:
\* what still verifies is the beginning of what was written.  And whatever roles
\* actors reach for, their rank is within the last one that was assigned.
THEOREM AccountsStayKept == AuditSpec => []AccountsAreKept
<1>1. AuditSpec => []AuditInv
  BY AuditStarts, AuditStepInv, PTL DEF AuditSpec
<1> QED BY <1>1, AuditInvTells, PTL

-----------------------------------------------------------------------------
(* The partitions of the affiliate runtime.                                *)

Kinds == {"product", "offer", "link", "click", "conversion", "margin"}
Names == ProductIds \cup Slugs \cup OrderRefs \cup {NoName}
Records == [kind : Kinds, tenant : Sellers, parent : Nat, name : Names, base : Int, value : Int]
Entries == [sequence : Nat \ {0}, record : Nat, dispatched : BOOLEAN]

\* What a record of a kind must rest on to keep the chain.
Rests(kind, t, parent, base, value) ==
    IF kind = "product" THEN parent = 0
    ELSE /\ parent \in DOMAIN records
         /\ records[parent].kind = ParentKind[kind] /\ records[parent].tenant = t
         /\ kind = "conversion" => Rounds(value, base, records[records[parent].parent].value)
         /\ kind = "margin" => value + base = records[parent].value

ChainedRecords ==
    /\ records \in Seq(Records)
    /\ \A i \in DOMAIN records : \A r \in Records : records[i] = r =>
         r.parent < i /\ Rests(r.kind, r.tenant, r.parent, r.base, r.value)
    /\ \A i, j \in DOMAIN records :
         /\ records[i].kind = records[j].kind /\ records[i].tenant = records[j].tenant
         /\ records[i].name = records[j].name
         /\ records[i].kind = "conversion" \/ (records[i].kind = "link" /\ records[i].name # NoName)
         => i = j

\* An outbox is what was handed out and then what was not; each record is in it once.
Tells(t, k, i) == \A j \in DOMAIN outbox[t] : outbox[t][j].record = i <=> j = k
OutboxesTell ==
    /\ outbox \in [Sellers -> Seq(Entries)]
    /\ drained \in [Sellers -> Seq(Nat)]
    /\ \A t \in Sellers :
         /\ \A k \in DOMAIN outbox[t] :
              /\ outbox[t][k].sequence = k
              /\ outbox[t][k].dispatched <=> k <= Len(drained[t])
              /\ outbox[t][k].record <= Len(records)
         /\ Len(drained[t]) <= Len(outbox[t])
         /\ \A k \in DOMAIN drained[t] : drained[t][k] = k
    /\ \A i \in DOMAIN records, t \in Sellers : records[i].tenant = t => \E k \in DOMAIN outbox[t] : Tells(t, k, i)

\* Records rest on their parents, and the outboxes tell of all of them.
MemoryInv == ChainedRecords /\ OutboxesTell

\* The runtime in memory starts within its invariant.
LEMMA MemoryStarts == MemoryInit => MemoryInv
<1> SUFFICES ASSUME MemoryInit PROVE MemoryInv OBVIOUS
<1>1. ChainedRecords BY DEF MemoryInit, ChainedRecords
<1>2. OutboxesTell BY DEF MemoryInit, OutboxesTell
<1> QED BY <1>1, <1>2 DEF MemoryInv

\* A record whose parent is there keeps the chain, if its name is free.
LEMMA RecordKeepsChain ==
    ASSUME ChainedRecords, NEW r \in Records, records' = Append(records, r),
           Rests(r.kind, r.tenant, r.parent, r.base, r.value),
           r.kind = "conversion" \/ (r.kind = "link" /\ r.name # NoName)
              => Named(r.kind, r.tenant, r.name) = {}
    PROVE  ChainedRecords'
<1>1. PICK n \in Nat : n = Len(records) /\ DOMAIN records = 1..n BY DEF ChainedRecords
<1>2. /\ records' \in Seq(Records) /\ DOMAIN records' = 1..(n + 1) /\ records'[n + 1] = r
      /\ \A k \in 1..n : records'[k] = records[k]
  BY <1>1 DEF ChainedRecords
<1>3. \A k \in 1..n : records[k] \in Records /\ records[k].parent \in Nat
  <2>1. \A r1 \in Records : r1.parent \in Nat BY DEF Records
  <2>2. \A k \in 1..n : records[k] \in Records BY <1>1 DEF ChainedRecords
  <2> QED BY <2>1, <2>2
<1>4. ASSUME NEW kind \in Kinds, NEW t \in Sellers, NEW parent \in Nat, NEW base \in Int, NEW value \in Int,
             Rests(kind, t, parent, base, value)
      PROVE  Rests(kind, t, parent, base, value)'
  <2>1. CASE kind = "product" BY <1>4, <2>1 DEF Rests
  <2>2. CASE kind # "product"
    <3>1. parent \in 1..n /\ records[parent].kind = ParentKind[kind] /\ records[parent].tenant = t
      BY <1>1, <1>4, <2>2 DEF Rests
    <3>2. records'[parent] = records[parent] BY <1>2, <3>1
    <3>3. kind = "conversion" => records'[records'[parent].parent] = records[records[parent].parent]
      <4> SUFFICES ASSUME kind = "conversion" PROVE records'[records[parent].parent] = records[records[parent].parent]
        BY <3>2
      <4>1. records[parent].kind = "link" BY <3>1 DEF ParentKind
      <4>2. PICK q \in Records : q = records[parent] BY <1>1, <3>1 DEF ChainedRecords
      <4>5. Rests(q.kind, q.tenant, q.parent, q.base, q.value) /\ q.kind = "link"
        BY <1>1, <3>1, <4>1, <4>2 DEF ChainedRecords
      <4>3. records[parent].parent \in 1..n BY <1>1, <4>2, <4>5 DEF Rests
      <4> QED BY <1>2, <4>3
    <3>4. parent \in DOMAIN records' BY <1>2, <3>1
    <3> QED BY <1>4, <2>2, <3>1, <3>2, <3>3, <3>4 DEF Rests
  <2> QED BY <2>1, <2>2
<1>5. ASSUME NEW i \in 1..(n + 1), NEW s \in Records, records'[i] = s
      PROVE  s.parent < i /\ Rests(s.kind, s.tenant, s.parent, s.base, s.value)'
  <2>1. PICK kind \in Kinds, t \in Sellers, parent \in Nat, base \in Int, value \in Int :
           kind = s.kind /\ t = s.tenant /\ parent = s.parent /\ base = s.base /\ value = s.value
    BY DEF Records
  <2>2. parent < i /\ Rests(kind, t, parent, base, value)
    <3>1. CASE i = n + 1
      <4>1. s = r BY <1>2, <1>5, <3>1
      <4>2. Rests(kind, t, parent, base, value) BY <4>1, <2>1
      <4>3. parent < n + 1 BY <1>1, <4>2 DEF Rests
      <4> QED BY <3>1, <4>2, <4>3
    <3>2. CASE i # n + 1
      <4>1. i \in 1..n /\ s = records[i] BY <1>2, <1>5, <3>2
      <4>2. s.parent < i /\ Rests(s.kind, s.tenant, s.parent, s.base, s.value)
        BY <1>1, <4>1 DEF ChainedRecords
      <4> QED BY <2>1, <4>2
    <3> QED BY <3>1, <3>2
  <2>3. Rests(kind, t, parent, base, value)' BY <2>2, <1>4
  <2> QED BY <2>1, <2>2, <2>3
<1>6. ASSUME NEW i \in 1..(n + 1), NEW j \in 1..(n + 1),
             records'[i].kind = records'[j].kind, records'[i].tenant = records'[j].tenant,
             records'[i].name = records'[j].name,
             records'[i].kind = "conversion" \/ (records'[i].kind = "link" /\ records'[i].name # NoName)
      PROVE  i = j
  <2>1. ASSUME NEW k \in 1..n, records[k].kind = r.kind, records[k].tenant = r.tenant, records[k].name = r.name,
               r.kind = "conversion" \/ (r.kind = "link" /\ r.name # NoName)
        PROVE  FALSE
    BY <2>1, <1>1 DEF Named
  <2>2. CASE i \in 1..n /\ j \in 1..n BY <2>2, <1>1, <1>2, <1>6 DEF ChainedRecords
  <2>3. CASE i = n + 1 /\ j \in 1..n BY <2>3, <2>1, <1>2, <1>6
  <2>4. CASE i \in 1..n /\ j = n + 1 BY <2>4, <2>1, <1>2, <1>6
  <2> QED BY <2>2, <2>3, <2>4
<1>7. ASSUME NEW i \in DOMAIN records', NEW s \in Records, records'[i] = s
      PROVE  s.parent < i /\ Rests(s.kind, s.tenant, s.parent, s.base, s.value)'
  BY <1>2, <1>5, <1>7
<1>8. ASSUME NEW i \in DOMAIN records', NEW j \in DOMAIN records',
             records'[i].kind = records'[j].kind, records'[i].tenant = records'[j].tenant,
             records'[i].name = records'[j].name,
             records'[i].kind = "conversion" \/ (records'[i].kind = "link" /\ records'[i].name # NoName)
      PROVE  i = j
  <2>1. i \in 1..(n + 1) /\ j \in 1..(n + 1) BY <1>2
  <2> QED BY <2>1, <1>6, <1>8
<1> QED BY <1>2, <1>7, <1>8, Zenon DEF ChainedRecords

\* An event goes behind all others of its tenant; it tells a new record, or none.
LEMMA EventKeeps ==
    ASSUME OutboxesTell, ChainedRecords, NEW t \in Sellers, NEW i \in Nat, outbox' = Noted(t, i), drained' = drained,
           \/ i = 0 /\ records' = records
           \/ i = Len(records) + 1 /\ \E r \in Records : r.tenant = t /\ records' = Append(records, r)
    PROVE  OutboxesTell'
<1>1. outbox \in [Sellers -> Seq(Entries)] /\ drained \in [Sellers -> Seq(Nat)] BY DEF OutboxesTell
<1>2. PICK m \in Nat : m = Len(outbox[t]) /\ DOMAIN outbox[t] = 1..m BY <1>1
<1>3. PICK e \in Entries : e = [sequence |-> m + 1, record |-> i, dispatched |-> FALSE]
  <2>1. m + 1 \in Nat \ {0} OBVIOUS
  <2> QED BY <2>1 DEF Entries
<1>4. e.sequence = m + 1 /\ e.record = i /\ e.dispatched = FALSE BY <1>3
<1>5. outbox' = [outbox EXCEPT ![t] = Append(outbox[t], e)] BY <1>1, <1>2, <1>3 DEF Noted
<1>6. /\ outbox' \in [Sellers -> Seq(Entries)] /\ outbox'[t] = Append(outbox[t], e)
      /\ \A u \in Sellers : u # t => outbox'[u] = outbox[u]
  BY <1>1, <1>5
<1>7. /\ DOMAIN outbox'[t] = 1..(m + 1) /\ Len(outbox'[t]) = m + 1 /\ outbox'[t][m + 1] = e
      /\ \A k \in 1..m : outbox'[t][k] = outbox[t][k]
  <2>1. outbox[t] \in Seq(Entries) BY <1>1
  <2> QED BY <2>1, <1>2, <1>6
<1>8. PICK n \in Nat : n = Len(records) /\ DOMAIN records = 1..n BY DEF ChainedRecords
<1>9. /\ i = 0 => records' = records
      /\ i # 0 => /\ i = n + 1 /\ DOMAIN records' = 1..(n + 1) /\ Len(records') = n + 1 /\ records'[n + 1].tenant = t
                  /\ \A k \in 1..n : records'[k] = records[k]
  BY <1>8 DEF ChainedRecords
<1>10. Len(records) <= Len(records') /\ i <= Len(records') /\ Len(records') \in Nat BY <1>8, <1>9
<1>11. ASSUME NEW u \in Sellers
       PROVE  /\ \A k \in DOMAIN outbox'[u] :
                   /\ outbox'[u][k].sequence = k
                   /\ outbox'[u][k].dispatched <=> k <= Len(drained[u])
                   /\ outbox'[u][k].record <= Len(records')
              /\ Len(drained[u]) <= Len(outbox'[u])
              /\ \A k \in DOMAIN drained[u] : drained[u][k] = k
  <2>0. \A k \in DOMAIN outbox[u] : outbox[u][k].record \in Nat
    <3>1. \A k \in DOMAIN outbox[u] : outbox[u][k] \in Entries BY <1>1
    <3> QED BY <3>1 DEF Entries
  <2>1. /\ \A k \in DOMAIN outbox[u] :
             /\ outbox[u][k].sequence = k
             /\ outbox[u][k].dispatched <=> k <= Len(drained[u])
             /\ outbox[u][k].record <= Len(records')
        /\ Len(drained[u]) <= Len(outbox[u]) /\ Len(drained[u]) \in Nat
        /\ \A k \in DOMAIN drained[u] : drained[u][k] = k
    <3>1. Len(drained[u]) \in Nat BY <1>1
    <3> QED BY <2>0, <3>1, <1>8, <1>10 DEF OutboxesTell
  <2>2. CASE u = t
    <3>1. Len(drained[t]) <= m /\ Len(drained[t]) \in Nat BY <2>1, <2>2, <1>2
    <3>2. ASSUME NEW k \in 1..(m + 1)
          PROVE  /\ outbox'[t][k].sequence = k
                 /\ outbox'[t][k].dispatched <=> k <= Len(drained[t])
                 /\ outbox'[t][k].record <= Len(records')
      <4>1. CASE k = m + 1 BY <4>1, <3>1, <1>4, <1>7, <1>10
      <4>2. CASE k # m + 1
        <5>1. k \in DOMAIN outbox[t] /\ outbox'[t][k] = outbox[t][k] BY <4>2, <1>2, <1>7
        <5> QED BY <5>1, <2>1, <2>2
      <4> QED BY <4>1, <4>2
    <3> QED BY <2>1, <2>2, <3>1, <3>2, <1>7
  <2>3. CASE u # t BY <2>1, <2>3, <1>6
  <2> QED BY <2>2, <2>3
<1>12. ASSUME NEW a \in DOMAIN records', NEW u \in Sellers, records'[a].tenant = u
       PROVE  \E k \in DOMAIN outbox'[u] : Tells(u, k, a)'
  <2>1. CASE a \in 1..n
    <3>1. records[a].tenant = u BY <2>1, <1>9, <1>8, <1>12
    <3>2. PICK k \in DOMAIN outbox[u] : Tells(u, k, a) BY <2>1, <1>8, <3>1 DEF OutboxesTell
    <3>3. \A j \in DOMAIN outbox[u] : outbox[u][j].record = a <=> j = k BY <3>2 DEF Tells
    <3>4. CASE u = t
      <4>1. a # i BY <2>1, <1>8, <1>9
      <4>2. k \in 1..m /\ \A j \in 1..m : outbox[t][j].record = a <=> j = k BY <3>3, <3>4, <1>2
      <4>3. \A j \in 1..(m + 1) : outbox'[t][j].record = a <=> j = k
        <5> SUFFICES ASSUME NEW j \in 1..(m + 1) PROVE outbox'[t][j].record = a <=> j = k OBVIOUS
        <5>1. CASE j \in 1..m
          <6>1. outbox'[t][j] = outbox[t][j] BY <5>1, <1>7
          <6> QED BY <6>1, <5>1, <4>2
        <5>2. CASE j = m + 1
          <6>1. outbox'[t][j] = e /\ j # k BY <5>2, <4>2, <1>7
          <6> QED BY <6>1, <4>1, <1>4
        <5> QED BY <5>1, <5>2
      <4>4. k \in DOMAIN outbox'[t] BY <4>2, <1>7
      <4> QED BY <3>4, <4>3, <4>4, <1>7 DEF Tells
    <3>5. CASE u # t
      <4>1. outbox'[u] = outbox[u] BY <3>5, <1>6
      <4> QED BY <4>1, <3>3 DEF Tells
    <3> QED BY <3>4, <3>5
  <2>2. CASE a \notin 1..n
    <3>1. a = n + 1 /\ i = n + 1 /\ u = t BY <2>2, <1>8, <1>9, <1>12
    <3>2. \A j \in 1..m : outbox[t][j].record # n + 1
      <4>1. \A j \in 1..m : outbox[t][j].record <= n BY <1>2, <1>8 DEF OutboxesTell
      <4> QED BY <4>1
    <3>3. \A j \in 1..(m + 1) : outbox'[t][j].record = n + 1 <=> j = m + 1 BY <3>1, <3>2, <1>4, <1>7
    <3>4. m + 1 \in DOMAIN outbox'[t] BY <1>7
    <3> QED BY <3>1, <3>3, <3>4, <1>7 DEF Tells
  <2> QED BY <2>1, <2>2
<1> QED BY <1>1, <1>6, <1>11, <1>12 DEF OutboxesTell

\* A stored record that belongs to its tenant keeps the runtime's invariant.
LEMMA StoreKeeps ==
    ASSUME MemoryInv, NEW kind \in Kinds, NEW t \in Sellers, NEW parent \in Nat, NEW name \in Names,
           NEW base \in Int, NEW value \in Int, Store(kind, t, parent, name, base, value),
           Rests(kind, t, parent, base, value),
           kind = "conversion" \/ (kind = "link" /\ name # NoName) => Named(kind, t, name) = {}
    PROVE  MemoryInv'
<1>1. PICK r \in Records : r = [kind |-> kind, tenant |-> t, parent |-> parent, name |-> name, base |-> base, value |-> value]
  BY DEF Records
<1>2. /\ r.kind = kind /\ r.tenant = t /\ r.parent = parent /\ r.name = name /\ r.base = base /\ r.value = value
  BY <1>1
<1>3. PICK i \in Nat : i = Len(records) + 1 BY DEF MemoryInv, ChainedRecords
<1>4. records' = Append(records, r) /\ outbox' = Noted(t, i) /\ drained' = drained
  BY <1>1, <1>3 DEF Store
<1>5. ChainedRecords' BY <1>2, <1>4, RecordKeepsChain DEF MemoryInv
<1>6. OutboxesTell' BY <1>2, <1>3, <1>4, EventKeeps DEF MemoryInv
<1> QED BY <1>5, <1>6 DEF MemoryInv

\* What is found in an outbox of which the first d entries are handed out already.
IsFound(t, limit, f) ==
    f = [k \in 0..Len(outbox[t]) |->
           IF k = 0 THEN <<>>
           ELSE IF outbox[t][k].dispatched \/ Len(f[k - 1]) = limit THEN f[k - 1]
           ELSE Append(f[k - 1], outbox[t][k])]

FoundOf(t, limit) == CHOOSE f : IsFound(t, limit, f)

\* The pending events of a drain are where its pass over the outbox ends.
LEMMA PendingIsFound ==
    ASSUME NEW t, NEW limit
    PROVE  Pending(t, limit) = FoundOf(t, limit)[Len(outbox[t])]
BY DEF Pending, FoundOf, IsFound

Lengths(t, d, m) == d = Len(drained[t]) /\ m = Len(outbox[t])

\* How many are found in the first k.
Reach(d, limit, k) == IF k <= d THEN 0 ELSE IF k <= d + limit THEN k - d ELSE limit

\* How far a drain reaches after k events of the outbox.
LEMMA ReachIs ==
    ASSUME NEW d \in Nat, NEW limit \in Nat, limit > 0, NEW m \in Nat, NEW k \in 0..m
    PROVE  /\ Reach(d, limit, k) \in Nat /\ Reach(d, limit, k) <= limit /\ Reach(d, limit, k - 1) \in Nat
           /\ (d + Reach(d, limit, k) <= m \/ Reach(d, limit, k) = 0)
           /\ k <= d => Reach(d, limit, k) = 0
           /\ k > d /\ k <= d + limit => d + Reach(d, limit, k) = k /\ Reach(d, limit, k - 1) = Reach(d, limit, k) - 1
           /\ k > d + limit => Reach(d, limit, k) = limit
           /\ k > d + limit => Reach(d, limit, k - 1) = limit
<1>1. CASE k <= d 
  <2>1. k - 1 <= d BY <1>1
  <2> QED BY <1>1, <2>1 DEF Reach
<1>2. CASE k > d /\ k <= d + limit
  <2>1. Reach(d, limit, k) = k - d BY <1>2 DEF Reach
  <2>2. CASE k - 1 <= d
    <3>1. Reach(d, limit, k - 1) = 0 /\ (k - d) - 1 = 0 BY <1>2, <2>2 DEF Reach
    <3> QED BY <1>2, <2>1, <3>1
  <2>3. CASE k - 1 > d
    <3>1. k - 1 <= d + limit /\ ~(k - 1 <= d) BY <1>2, <2>3
    <3>2. Reach(d, limit, k - 1) = (k - 1) - d BY <3>1 DEF Reach
    <3> QED BY <1>2, <2>1, <3>2
  <2> QED BY <2>2, <2>3
<1>3. CASE k > d + limit
  <2>1. Reach(d, limit, k) = limit BY <1>3 DEF Reach
  <2>2. CASE k - 1 > d + limit
    <3>1. Reach(d, limit, k - 1) = limit BY <2>2 DEF Reach
    <3> QED BY <1>3, <2>1, <3>1
  <2>3. CASE k - 1 = d + limit
    <3>1. Reach(d, limit, k - 1) = (k - 1) - d BY <2>3 DEF Reach
    <3> QED BY <1>3, <2>1, <2>3, <3>1
  <2> QED BY <1>3, <2>2, <2>3
<1> QED BY <1>1, <1>2, <1>3

\* The batch is what follows the entries that are handed out, up to the limit.
LEMMA PendingIsNext ==
    ASSUME OutboxesTell, NEW t \in Sellers, NEW limit \in Nat, limit > 0,
           NEW d \in Nat, NEW m \in Nat, Lengths(t, d, m)
    PROVE  Pending(t, limit) = [j \in 1..Reach(d, limit, m) |-> outbox[t][d + j]]
<1> DEFINE Batch(k) == [j \in 1..Reach(d, limit, k) |-> outbox[t][d + j]]
           g == [k \in 0..m |-> Batch(k)]
<1>1. /\ d <= m /\ outbox[t] \in Seq(Entries)
      /\ \A k \in 1..m : outbox[t][k].dispatched <=> k <= d
      /\ \A k \in 1..m : outbox[t][k] \in Entries
  BY DEF OutboxesTell, Lengths
<1>2. \A k \in 0..m : Reach(d, limit, k) \in Nat /\ Reach(d, limit, k) <= limit /\ (d + Reach(d, limit, k) <= m \/ Reach(d, limit, k) = 0)
  <2> SUFFICES ASSUME NEW k \in 0..m
               PROVE  Reach(d, limit, k) \in Nat /\ Reach(d, limit, k) <= limit
                        /\ (d + Reach(d, limit, k) <= m \/ Reach(d, limit, k) = 0)
    OBVIOUS
  <2> QED BY ReachIs
<1>3. \A k \in 0..m : Batch(k) \in Seq(Entries) /\ Len(Batch(k)) = Reach(d, limit, k)
  <2> SUFFICES ASSUME NEW k \in 0..m PROVE Batch(k) \in Seq(Entries) /\ Len(Batch(k)) = Reach(d, limit, k)
    OBVIOUS
  <2>1. PICK r \in Nat : r = Reach(d, limit, k) /\ (d + r <= m \/ r = 0) BY <1>2
  <2>2. \A j \in 1..r : outbox[t][d + j] \in Entries BY <1>1, <2>1
  <2>3. [j \in 1..r |-> outbox[t][d + j]] \in Seq(Entries) /\ Len([j \in 1..r |-> outbox[t][d + j]]) = r
    BY <2>2
  <2> QED BY <2>1, <2>3
<1>4. ASSUME NEW k \in 1..m
      PROVE  Batch(k) = IF outbox[t][k].dispatched \/ Len(Batch(k - 1)) = limit THEN Batch(k - 1)
                       ELSE Append(Batch(k - 1), outbox[t][k])
  <2>1. k - 1 \in 0..m /\ k \in 0..m BY <1>4
  <2>2. Len(Batch(k - 1)) = Reach(d, limit, k - 1) /\ Batch(k - 1) \in Seq(Entries) BY <1>3, <2>1
  <2>3. CASE k <= d
    <3>1. Reach(d, limit, k) = 0 /\ Reach(d, limit, k - 1) = 0 BY <2>1, <2>3 DEF Reach
    <3>2. Batch(k) = Batch(k - 1) BY <3>1
    <3> HIDE DEF Batch
    <3> QED BY <3>2, <2>3, <1>1
  <2>4. CASE k > d + limit
    <3>1. Reach(d, limit, k) = limit /\ Reach(d, limit, k - 1) = limit
      <4>1. PICK a \in Nat : a = d + limit OBVIOUS
      <4>2. ~(k <= d) /\ ~(k <= a) /\ a >= d BY <2>4, <4>1
      <4>3. Reach(d, limit, k) = limit BY <4>1, <4>2 DEF Reach
      <4>4. CASE k - 1 <= a
        <5>1. k - 1 = a BY <4>2, <4>4
        <5>2. ~(k - 1 <= d) /\ (k - 1) - d = limit BY <4>1, <5>1
        <5> QED BY <4>1, <4>3, <4>4, <5>2 DEF Reach
      <4>5. CASE ~(k - 1 <= a)
        <5>1. ~(k - 1 <= d) BY <4>2, <4>5
        <5> QED BY <4>1, <4>3, <4>5, <5>1 DEF Reach
      <4> QED BY <4>4, <4>5
    <3>2. Batch(k) = Batch(k - 1) BY <3>1
    <3> HIDE DEF Batch
    <3> QED BY <3>1, <3>2, <2>2
  <2>5. CASE d < k /\ k <= d + limit
    <3>1. d + Reach(d, limit, k) = k /\ Reach(d, limit, k - 1) = Reach(d, limit, k) - 1 BY <2>1, <2>5, ReachIs
    <3>2. PICK r \in Nat : r = Reach(d, limit, k - 1)
      <4>1. Reach(d, limit, k - 1) \in Nat BY <2>1, ReachIs
      <4> QED BY <4>1
    <3>5. Reach(d, limit, k) = r + 1 /\ d + (r + 1) = k /\ r < limit
      <4>1. Reach(d, limit, k) \in Nat BY <2>1, ReachIs
      <4> QED BY <4>1, <3>1, <3>2, <2>5
    <3>3. ~outbox[t][k].dispatched /\ Len(Batch(k - 1)) # limit
      <4>1. ~(k <= d) BY <2>5
      <4>2. ~outbox[t][k].dispatched BY <4>1, <1>1
      <4> HIDE DEF Batch
      <4> QED BY <4>2, <2>2, <3>2, <3>5
    <3>4. Append(Batch(k - 1), outbox[t][k]) = Batch(k)
      <4>1. d + (r + 1) = k BY <3>5
      <4>2. Batch(k - 1) = [j \in 1..r |-> outbox[t][d + j]] BY <3>2
      <4>3. Batch(k) = [j \in 1..(r + 1) |-> outbox[t][d + j]] BY <3>5
      <4>4. PICK s \in Seq(Entries) : s = [j \in 1..r |-> outbox[t][d + j]] BY <2>2, <4>2
      <4>5. Len(s) = r BY <2>2, <3>2, <4>2, <4>4
      <4>6. PICK e \in Entries : e = outbox[t][k] BY <1>1
      <4>7. PICK u \in Seq(Entries) : u = Append(s, e)
        <5>1. Append(s, e) \in Seq(Entries) OBVIOUS
        <5> QED BY <5>1
      <4>8. DOMAIN u = 1..(r + 1) /\ u[r + 1] = e /\ \A j \in 1..r : u[j] = s[j] BY <4>5, <4>7
      <4>9. \A j \in 1..(r + 1) : u[j] = outbox[t][d + j]
        <5>1. \A j \in 1..r : u[j] = outbox[t][d + j] BY <4>4, <4>8
        <5>2. u[r + 1] = outbox[t][d + (r + 1)] BY <4>1, <4>6, <4>8
        <5>3. \A j \in 1..(r + 1) : j = r + 1 \/ j \in 1..r OBVIOUS
        <5> QED BY <5>1, <5>2, <5>3
      <4>10. u = [j \in DOMAIN u |-> u[j]] OBVIOUS
      <4>11. u = [j \in 1..(r + 1) |-> outbox[t][d + j]] BY <4>8, <4>9, <4>10
      <4> QED BY <4>2, <4>3, <4>4, <4>6, <4>7, <4>11
    <3> QED BY <3>3, <3>4
  <2>6. k <= d \/ k > d + limit \/ (d < k /\ k <= d + limit) OBVIOUS
  <2> HIDE DEF Batch
  <2> QED BY <2>3, <2>4, <2>5, <2>6, Zenon
<1>5. Batch(0) = <<>>
  <2>1. Reach(d, limit, 0) = 0 BY DEF Reach
  <2> QED BY <2>1
<1> HIDE DEF Batch
<1>6. IsFound(t, limit, g)
  <2>1. \A k \in 0..m : k # 0 => k \in 1..m /\ k - 1 \in 0..m /\ g[k - 1] = Batch(k - 1) OBVIOUS
  <2>2. \A k \in 0..m : g[k] = IF k = 0 THEN <<>>
           ELSE IF outbox[t][k].dispatched \/ Len(g[k - 1]) = limit THEN g[k - 1]
           ELSE Append(g[k - 1], outbox[t][k])
    BY <1>4, <1>5, <2>1
  <2> QED BY <2>2 DEF IsFound, Lengths
<1>7. IsFound(t, limit, FoundOf(t, limit)) BY <1>6 DEF FoundOf
<1> PICK f : f = FoundOf(t, limit) OBVIOUS
<1>8. f[m] = Batch(m)
  <2> DEFINE Differ == {k \in 0..m : f[k] # Batch(k)}
  <2> SUFFICES ASSUME Differ # {} PROVE FALSE BY DEF Differ
  <2>1. PICK k \in Differ : \A j \in Differ : ~(j < k)
    <3>1. Differ \subseteq Nat OBVIOUS
    <3> HIDE DEF Differ
    <3> QED BY <3>1, LeastNatural
  <2>2. f = [j \in 0..m |->
           IF j = 0 THEN <<>>
           ELSE IF outbox[t][j].dispatched \/ Len(f[j - 1]) = limit THEN f[j - 1]
           ELSE Append(f[j - 1], outbox[t][j])]
    BY <1>7 DEF IsFound, Lengths
  <2>3. k \in 0..m /\ f[k] # Batch(k) OBVIOUS
  <2>4. k # 0
    <3>1. f[0] = <<>> BY <2>2
    <3> QED BY <3>1, <2>3, <1>5
  <2>5. k \in 1..m /\ k - 1 \in 0..m /\ k - 1 < k BY <2>3, <2>4
  <2>6. f[k - 1] = Batch(k - 1)
    <3>1. k - 1 \notin Differ BY <2>1, <2>5
    <3> QED BY <3>1, <2>5
  <2>7. f[k] = IF outbox[t][k].dispatched \/ Len(f[k - 1]) = limit THEN f[k - 1]
               ELSE Append(f[k - 1], outbox[t][k])
    BY <2>2, <2>3, <2>4
  <2>8. f[k] = Batch(k) BY <2>5, <2>6, <2>7, <1>4
  <2> QED BY <2>3, <2>8
<1> QED BY <1>8, PendingIsFound DEF Batch, Lengths

\* A drained outbox keeps the runtime's invariant.
LEMMA drainOutboxKeeps ==
    ASSUME MemoryInv, NEW t \in Sellers, NEW limit \in 1..EventLimit, drainOutbox(t, limit)
    PROVE  MemoryInv'
<1>0. OutboxesTell /\ ChainedRecords BY DEF MemoryInv
<1>1. outbox \in [Sellers -> Seq(Entries)] /\ drained \in [Sellers -> Seq(Nat)] BY <1>0 DEF OutboxesTell
<1>2. PICK d \in Nat, m \in Nat : Lengths(t, d, m) BY <1>1 DEF Lengths
<1>3. /\ DOMAIN outbox[t] = 1..m /\ DOMAIN drained[t] = 1..d /\ d <= m
      /\ \A k \in 1..m : outbox[t][k] \in Entries /\ outbox[t][k].sequence = k
                           /\ (outbox[t][k].dispatched <=> k <= d) /\ outbox[t][k].record <= Len(records)
      /\ \A k \in 1..d : drained[t][k] = k
      /\ drained[t] \in Seq(Nat) /\ Len(drained[t]) = d
  <2>1. d = Len(drained[t]) /\ m = Len(outbox[t]) BY <1>2 DEF Lengths
  <2>2. outbox[t] \in Seq(Entries) /\ drained[t] \in Seq(Nat) BY <1>1
  <2> QED BY <1>0, <2>1, <2>2 DEF OutboxesTell
<1>4. PICK batch : batch = Pending(t, limit) OBVIOUS
<1>5. PICK r \in Nat : r = Reach(d, limit, m) /\ (d + r <= m \/ r = 0)
  <2>1. limit \in Nat /\ limit > 0 /\ m \in 0..m OBVIOUS
  <2>2. Reach(d, limit, m) \in Nat /\ (d + Reach(d, limit, m) <= m \/ Reach(d, limit, m) = 0) BY <2>1, ReachIs
  <2> QED BY <2>2
<1>6. batch = [j \in 1..r |-> outbox[t][d + j]]
  <2>1. limit \in Nat /\ limit > 0 OBVIOUS
  <2> QED BY <2>1, <1>0, <1>2, <1>4, <1>5, PendingIsNext
<1>7. PICK sequences : sequences = [k \in DOMAIN batch |-> batch[k].sequence] OBVIOUS
<1>8. sequences = [k \in 1..r |-> d + k]
  <2>1. DOMAIN batch = 1..r BY <1>6
  <2>2. \A k \in 1..r : d + k \in 1..m BY <1>5
  <2>3. \A k \in 1..r : batch[k].sequence = d + k BY <1>3, <1>6, <2>2
  <2> QED BY <1>7, <2>1, <2>3
<1>9. sequences \in Seq(Nat) /\ Len(sequences) = r /\ DOMAIN sequences = 1..r BY <1>8
<1>10. \A k \in Nat : k \in ToSet(sequences) <=> d < k /\ k <= d + r
  <2>1. ToSet(sequences) = {sequences[j] : j \in 1..r} BY <1>9 DEF ToSet
  <2>2. \A j \in 1..r : sequences[j] = d + j BY <1>8
  <2>3. \A k \in Nat : d < k /\ k <= d + r => k - d \in 1..r /\ d + (k - d) = k OBVIOUS
  <2> QED BY <2>1, <2>2, <2>3
<1>11. /\ drained' = [drained EXCEPT ![t] = @ \o sequences] /\ records' = records
       /\ outbox' = [outbox EXCEPT ![t] =
            [k \in DOMAIN outbox[t] |-> IF k \in ToSet(sequences) THEN [outbox[t][k] EXCEPT !.dispatched = TRUE]
                                       ELSE outbox[t][k]]]
  BY <1>4, <1>7 DEF drainOutbox
<1>12. /\ drained' \in [Sellers -> Seq(Nat)]
       /\ Len(drained'[t]) = d + r /\ DOMAIN drained'[t] = 1..(d + r)
       /\ \A k \in 1..(d + r) : drained'[t][k] = k
       /\ \A u \in Sellers : u # t => drained'[u] = drained[u]
  <2>1. PICK s \in Seq(Nat) : s = drained[t] /\ Len(s) = d BY <1>3
  <2>2. PICK z \in Seq(Nat) : z = s \o sequences
    <3>1. s \o sequences \in Seq(Nat) BY <1>9
    <3> QED BY <3>1
  <2>7. /\ Len(s \o sequences) = Len(s) + Len(sequences)
        /\ \A j \in 1..Len(s) : (s \o sequences)[j] = s[j]
        /\ \A j \in 1..Len(sequences) : (s \o sequences)[Len(s) + j] = sequences[j]
    <3>1. s \in Seq(Nat) /\ sequences \in Seq(Nat) BY <1>9
    <3>2. PICK y : y = sequences /\ y \in Seq(Nat) BY <3>1
    <3>3. /\ Len(s \o y) = Len(s) + Len(y)
          /\ \A j \in 1..Len(s) : (s \o y)[j] = s[j]
          /\ \A j \in 1..Len(y) : (s \o y)[Len(s) + j] = y[j]
      BY <3>2, Joined
    <3> QED BY <3>2, <3>3
  <2>8. \A k \in (d + 1)..(d + r) : k - d \in 1..r /\ d + (k - d) = k OBVIOUS
  <2>9. Len(z) = d + r /\ (\A k \in 1..d : z[k] = s[k]) /\ \A j \in 1..r : z[d + j] = sequences[j]
    BY <1>9, <2>1, <2>2, <2>7
  <2>3. Len(z) = d + r /\ DOMAIN z = 1..(d + r) /\ (\A k \in 1..d : z[k] = s[k])
        /\ \A k \in (d + 1)..(d + r) : z[k] = sequences[k - d]
    BY <2>8, <2>9
  <2>4. \A k \in (d + 1)..(d + r) : z[k] = k
    <3>1. \A k \in (d + 1)..(d + r) : k - d \in 1..r /\ d + (k - d) = k OBVIOUS
    <3> QED BY <3>1, <2>3, <1>8
  <2>5. \A k \in 1..(d + r) : z[k] = k
    <3>1. \A k \in 1..(d + r) : k \in 1..d \/ k \in (d + 1)..(d + r) OBVIOUS
    <3> QED BY <3>1, <2>1, <2>3, <2>4, <1>3
  <2>6. drained' = [drained EXCEPT ![t] = z] BY <1>11, <2>1, <2>2
  <2> QED BY <1>1, <2>3, <2>5, <2>6
<1>13. PICK w : w = [k \in 1..m |-> IF k \in ToSet(sequences)
                                       THEN [outbox[t][k] EXCEPT !.dispatched = TRUE] ELSE outbox[t][k]]
  OBVIOUS
<1>14. \A k \in 1..m : /\ w[k] \in Entries /\ w[k].sequence = k /\ w[k].record = outbox[t][k].record
                       /\ w[k].dispatched <=> k <= d + r
  <2> SUFFICES ASSUME NEW k \in 1..m
               PROVE  /\ w[k] \in Entries /\ w[k].sequence = k /\ w[k].record = outbox[t][k].record
                      /\ w[k].dispatched <=> k <= d + r
    OBVIOUS
  <2>1. PICK e \in Entries : e = outbox[t][k] BY <1>3
  <2>2. PICK f : f = IF k \in ToSet(sequences) THEN [e EXCEPT !.dispatched = TRUE] ELSE e OBVIOUS
  <2>3. w[k] = f BY <1>13, <2>1, <2>2
  <2>4. f \in Entries /\ f.sequence = e.sequence /\ f.record = e.record
        /\ (f.dispatched <=> e.dispatched \/ k \in ToSet(sequences))
    BY <2>2 DEF Entries
  <2>5. (e.dispatched <=> k <= d) /\ e.sequence = k BY <1>3, <2>1
  <2>6. k <= d + r <=> k <= d \/ (d < k /\ k <= d + r) OBVIOUS
  <2>7. f.dispatched <=> k <= d + r BY <2>4, <2>5, <2>6, <1>10
  <2> QED BY <2>1, <2>3, <2>4, <2>5, <2>7
<1>15. outbox' = [outbox EXCEPT ![t] = w] BY <1>1, <1>3, <1>11, <1>13
<1>16. /\ outbox' \in [Sellers -> Seq(Entries)] /\ outbox'[t] = w /\ DOMAIN w = 1..m /\ Len(w) = m
       /\ \A u \in Sellers : u # t => outbox'[u] = outbox[u]
  <2>1. w \in Seq(Entries) /\ DOMAIN w = 1..m /\ Len(w) = m
    <3>1. DOMAIN w = 1..m /\ w = [k \in 1..m |-> w[k]] BY <1>13
    <3>2. \A k \in 1..m : w[k] \in Entries BY <1>14
    <3>3. w \in [1..m -> Entries]
      <4> HIDE <1>0, <1>1, <1>3
      <4> QED BY <3>1, <3>2
    <3>4. \A f \in [1..m -> Entries] : f \in Seq(Entries) /\ Len(f) = m OBVIOUS
    <3> QED BY <3>1, <3>3, <3>4
  <2> QED BY <2>1, <1>1, <1>15
<1>17. ASSUME NEW u \in Sellers
       PROVE  /\ \A k \in DOMAIN outbox'[u] :
                   /\ outbox'[u][k].sequence = k
                   /\ outbox'[u][k].dispatched <=> k <= Len(drained'[u])
                   /\ outbox'[u][k].record <= Len(records)
              /\ Len(drained'[u]) <= Len(outbox'[u])
              /\ \A k \in DOMAIN drained'[u] : drained'[u][k] = k
  <2>1. CASE u = t
    <3>1. d + r <= m BY <1>3, <1>5
    <3>2. \A k \in 1..m : w[k].record <= Len(records) BY <1>3, <1>14
    <3> QED BY <2>1, <3>1, <3>2, <1>12, <1>14, <1>16
  <2>2. CASE u # t
    <3>1. outbox'[u] = outbox[u] /\ drained'[u] = drained[u] BY <2>2, <1>12, <1>16
    <3> QED BY <3>1, <1>0 DEF OutboxesTell
  <2> QED BY <2>1, <2>2
<1>18. ASSUME NEW u \in Sellers, NEW k \in DOMAIN outbox[u], NEW i, Tells(u, k, i)
       PROVE  k \in DOMAIN outbox'[u] /\ Tells(u, k, i)'
  <2>1. CASE u = t
    <3>1. k \in 1..m /\ \A j \in 1..m : outbox[t][j].record = i <=> j = k BY <2>1, <1>3, <1>18 DEF Tells
    <3>2. \A j \in 1..m : w[j].record = i <=> j = k BY <3>1, <1>14
    <3> QED BY <2>1, <3>1, <3>2, <1>16 DEF Tells
  <2>2. CASE u # t
    <3>1. outbox'[u] = outbox[u] BY <2>2, <1>16
    <3> QED BY <3>1, <1>18 DEF Tells
  <2> QED BY <2>1, <2>2
<1>19. ASSUME NEW i \in DOMAIN records, NEW u \in Sellers, records[i].tenant = u
       PROVE  \E k \in DOMAIN outbox'[u] : Tells(u, k, i)'
  <2>1. PICK k \in DOMAIN outbox[u] : Tells(u, k, i) BY <1>0, <1>19 DEF OutboxesTell
  <2> QED BY <2>1, <1>18
<1>20. OutboxesTell' BY <1>11, <1>12, <1>16, <1>17, <1>19 DEF OutboxesTell
<1>21. ChainedRecords' BY <1>0, <1>11 DEF ChainedRecords, Rests
<1> QED BY <1>20, <1>21 DEF MemoryInv

\* A number between a multiple and the next, shifted by half, is near that multiple.
LEMMA NearMultiple ==
    ASSUME NEW x \in Int, NEW y \in Int, NEW q \in Int,
           y = x + 5000, 10000 * q <= y, y <= 10000 * q + 9999
    PROVE  Nearest(q, x)
BY SMTT(30) DEF Nearest

\* What division by ten thousand leaves over.
LEMMA DividedByBasis ==
    ASSUME NEW y \in Int
    PROVE  LET d == y \div 10000 IN d \in Int /\ 10000 * d <= y /\ y <= 10000 * d + 9999
BY SMTT(30)

\* A commission is its share of the revenue, rounded to the nearest.
LEMMA CommissionRounds ==
    ASSUME NEW revenue \in Int, NEW rate \in Int
    PROVE  CommissionFrom(revenue, rate) \in Int /\ Rounds(CommissionFrom(revenue, rate), revenue, rate)
<1>1. PICK x \in Int : x = revenue * rate
  <2>1. \A a, b \in Int : a * b \in Int OBVIOUS
  <2> QED BY <2>1
<1>2. PICK value : value = CommissionFrom(revenue, rate) OBVIOUS
<1>3. PICK y \in Int : y = x + 5000 OBVIOUS
<1>4. value \in Int /\ 10000 * value <= y /\ y <= 10000 * value + 9999
  <2>1. value = y \div 10000 BY <1>1, <1>2, <1>3 DEF CommissionFrom
  <2> QED BY <2>1, DividedByBasis
<1>5. Nearest(value, x) BY <1>3, <1>4, NearMultiple
<1>6. Rounds(value, revenue, rate) BY <1>1, <1>5, Zenon DEF Rounds
<1>7. value \in Int /\ Rounds(value, revenue, rate) BY <1>4, <1>6
<1> QED BY <1>2, <1>7, Zenon

\* Every step of the runtime keeps its invariant.
LEMMA MemoryStepInv == MemoryInv /\ [MemoryNext]_memoryVars => MemoryInv'
<1> SUFFICES ASSUME MemoryInv, [MemoryNext]_memoryVars PROVE MemoryInv' OBVIOUS
<1>0. /\ \A i \in DOMAIN records : records[i] \in Records /\ i \in Nat
      /\ NoName \in Names /\ ProductIds \subseteq Names /\ Slugs \subseteq Names /\ OrderRefs \subseteq Names
  BY DEF MemoryInv, ChainedRecords, Names
<1>1. ASSUME NEW t \in Sellers, NEW p \in ProductIds, registerProduct(t, p) PROVE MemoryInv'
  <2>1. Store("product", t, 0, p, 0, 0) BY <1>1 DEF registerProduct
  <2>2. Rests("product", t, 0, 0, 0) BY DEF Rests
  <2>3. "product" \in Kinds /\ p \in Names BY <1>0 DEF Kinds
  <2> QED BY <2>1, <2>2, <2>3, StoreKeeps
<1>2. ASSUME NEW t \in Sellers, NEW i \in DOMAIN records, NEW rate \in BasisPoints, publishOffer(t, i, rate)
      PROVE  MemoryInv'
  <2>1. Store("offer", t, i, NoName, 0, rate) BY <1>2 DEF publishOffer
  <2>2. Rests("offer", t, i, 0, rate) BY <1>2 DEF Rests, publishOffer, Owned, ParentKind
  <2>3. "offer" \in Kinds /\ rate \in Int BY MemoryAssumption DEF Kinds
  <2> QED BY <1>0, <2>1, <2>2, <2>3, StoreKeeps
<1>3. ASSUME NEW t \in Sellers, NEW i \in DOMAIN records, NEW slug \in Slugs \cup {NoName}, generateLink(t, i, slug)
      PROVE  MemoryInv'
  <2>1. Store("link", t, i, slug, 0, 0) BY <1>3 DEF generateLink
  <2>2. Rests("link", t, i, 0, 0) BY <1>3 DEF Rests, generateLink, Owned, ParentKind
  <2>3. "link" \in Kinds /\ slug \in Names BY <1>0 DEF Kinds
  <2>4. slug # NoName => Named("link", t, slug) = {} BY <1>3 DEF generateLink
  <2> QED BY <1>0, <2>1, <2>2, <2>3, <2>4, StoreKeeps
<1>4. ASSUME NEW t \in Sellers, NEW i \in DOMAIN records, recordClick(t, i) PROVE MemoryInv'
  <2>1. Store("click", t, i, NoName, 0, 0) BY <1>4 DEF recordClick
  <2>2. Rests("click", t, i, 0, 0) BY <1>4 DEF Rests, recordClick, Owned, ParentKind
  <2>3. "click" \in Kinds BY DEF Kinds
  <2> QED BY <1>0, <2>1, <2>2, <2>3, StoreKeeps
<1>5. ASSUME NEW t \in Sellers, NEW i \in DOMAIN records, NEW order \in OrderRefs, NEW revenue \in Revenues,
             recordConversion(t, i, order, revenue)
      PROVE  MemoryInv'
  <2>1. PICK rate : rate = records[records[i].parent].value OBVIOUS
  <2>2. rate \in Int /\ records[i].kind = "link" /\ records[i].tenant = t
    <3>1. records[i].kind = "link" /\ records[i].tenant = t BY <1>5 DEF recordConversion, Owned
    <3>2. PICK q \in Records : q = records[i] BY <1>0
    <3>3. Rests(q.kind, q.tenant, q.parent, q.base, q.value) /\ q.kind = "link"
      BY <3>1, <3>2 DEF MemoryInv, ChainedRecords
    <3>4. q.parent \in DOMAIN records BY <3>3 DEF Rests
    <3>5. records[q.parent] \in Records BY <3>4, <1>0
    <3>6. \A r \in Records : r.value \in Int BY DEF Records
    <3> QED BY <3>1, <3>2, <3>5, <3>6, <2>1
  <2>3. PICK value : value = CommissionFrom(revenue, rate) OBVIOUS
  <2>4. revenue \in Int BY MemoryAssumption
  <2>5. value \in Int /\ Rounds(value, revenue, rate)
    <3>1. CommissionFrom(revenue, rate) \in Int /\ Rounds(CommissionFrom(revenue, rate), revenue, rate)
      BY <2>2, <2>4, CommissionRounds
    <3> QED BY <3>1, <2>3
  <2>6. Store("conversion", t, i, order, revenue, value) /\ Named("conversion", t, order) = {}
    BY <1>5, <2>1, <2>3 DEF recordConversion, OrderUnknown
  <2>7. Rests("conversion", t, i, revenue, value) BY <2>1, <2>2, <2>5 DEF Rests, ParentKind
  <2>8. "conversion" \in Kinds BY DEF Kinds
  <2> QED BY <1>0, <2>4, <2>5, <2>6, <2>7, <2>8, StoreKeeps
<1>6. ASSUME NEW t \in Sellers, NEW i \in DOMAIN records, NEW cost \in Costs, computeMargin(t, i, cost)
      PROVE  MemoryInv'
  <2>1. PICK v \in Int : v = records[i].value
    <3>1. \A r \in Records : r.value \in Int BY DEF Records
    <3> QED BY <3>1, <1>0
  <2>2. cost \in Int /\ v - cost \in Int /\ (v - cost) + cost = v BY MemoryAssumption
  <2>3. PICK rest \in Int : rest = v - cost /\ rest + cost = v BY <2>2
  <2>4. Store("margin", t, i, NoName, cost, rest) /\ records[i].kind = "conversion" /\ records[i].tenant = t
    BY <1>6, <2>1, <2>3 DEF computeMargin, Owned
  <2>5. Rests("margin", t, i, cost, rest) BY <2>1, <2>3, <2>4 DEF Rests, ParentKind
  <2>6. "margin" \in Kinds BY DEF Kinds
  <2> QED BY <1>0, <2>2, <2>4, <2>5, <2>6, StoreKeeps
<1>7. ASSUME NEW t \in Sellers, emitDomainEvent(t) PROVE MemoryInv'
  <2>1. OutboxesTell' BY <1>7, EventKeeps DEF emitDomainEvent, MemoryInv
  <2>2. ChainedRecords' BY <1>7 DEF emitDomainEvent, MemoryInv, ChainedRecords, Rests
  <2> QED BY <2>1, <2>2 DEF MemoryInv
<1>8. CASE UNCHANGED memoryVars
  <2>1. ChainedRecords' BY <1>8 DEF memoryVars, MemoryInv, ChainedRecords, Rests
  <2>2. OutboxesTell' BY <1>8 DEF memoryVars, MemoryInv, OutboxesTell, Tells
  <2> QED BY <2>1, <2>2 DEF MemoryInv
<1> QED BY <1>1, <1>2, <1>3, <1>4, <1>5, <1>6, <1>7, <1>8, drainOutboxKeeps DEF MemoryNext

\* The runtime's invariant says that the tenants' partitions stay apart.
LEMMA MemoryInvTells == MemoryInv => PartitionsHold
<1> SUFFICES ASSUME MemoryInv PROVE PartitionsHold OBVIOUS
<1>0. ChainedRecords /\ OutboxesTell BY DEF MemoryInv
<1>1. ASSUME NEW i \in DOMAIN records, NEW r, r = records[i]
      PROVE  /\ r.kind # "product" =>
                   records[r.parent].kind = ParentKind[r.kind] /\ records[r.parent].tenant = r.tenant
             /\ r.kind = "conversion" =>
                   /\ Named("conversion", r.tenant, r.name) = {i}
                   /\ Rounds(r.value, r.base, records[records[r.parent].parent].value)
             /\ r.kind = "margin" => r.value + r.base = records[r.parent].value
             /\ r.kind = "link" /\ r.name # NoName => Named("link", r.tenant, r.name) = {i}
  <2>1. r \in Records /\ r = records[i] BY <1>0, <1>1 DEF ChainedRecords
  <2>2. Rests(r.kind, r.tenant, r.parent, r.base, r.value) BY <1>0, <2>1 DEF ChainedRecords
  <2>3. r.kind = "conversion" => Named("conversion", r.tenant, r.name) = {i}
    BY <1>0, <2>1 DEF ChainedRecords, Named
  <2>4. r.kind = "link" /\ r.name # NoName => Named("link", r.tenant, r.name) = {i}
    BY <1>0, <2>1 DEF ChainedRecords, Named
  <2>5. r.kind # "product" => records[r.parent].kind = ParentKind[r.kind] /\ records[r.parent].tenant = r.tenant
    BY <2>2 DEF Rests
  <2>6. r.kind = "conversion" => Rounds(r.value, r.base, records[records[r.parent].parent].value)
    BY <2>2 DEF Rests
  <2>7. r.kind = "margin" => r.value + r.base = records[r.parent].value BY <2>2 DEF Rests
  <2> QED BY <2>3, <2>4, <2>5, <2>6, <2>7
<1>2. ChainsHold
  <2> SUFFICES ASSUME NEW i \in DOMAIN records
               PROVE  LET r == records[i] IN
                      /\ r.kind # "product" =>
                            records[r.parent].kind = ParentKind[r.kind] /\ records[r.parent].tenant = r.tenant
                      /\ r.kind = "conversion" =>
                            /\ Named("conversion", r.tenant, r.name) = {i}
                            /\ Rounds(r.value, r.base, records[records[r.parent].parent].value)
                      /\ r.kind = "margin" => r.value + r.base = records[r.parent].value
                      /\ r.kind = "link" /\ r.name # NoName => Named("link", r.tenant, r.name) = {i}
    BY Zenon DEF ChainsHold
  <2> QED BY <1>1, Zenon
<1>3. ASSUME NEW t \in Sellers, NEW i \in DOMAIN records, records[i].tenant = t
      PROVE  Cardinality({k \in DOMAIN outbox[t] : outbox[t][k].record = i}) = 1
  <2>1. PICK k \in DOMAIN outbox[t] : Tells(t, k, i) BY <1>0, <1>3 DEF OutboxesTell
  <2>2. {j \in DOMAIN outbox[t] : outbox[t][j].record = i} = {k} BY <2>1 DEF Tells
  <2>3. Cardinality({k}) = 1 BY FS_Singleton
  <2> QED BY <2>2, <2>3, Zenon
<1>4. ASSUME NEW t \in Sellers PROVE drained[t] = [k \in 1..Len(drained[t]) |-> k]
  <2>1. drained[t] \in Seq(Nat) /\ \A k \in DOMAIN drained[t] : drained[t][k] = k BY <1>0 DEF OutboxesTell
  <2> QED BY <2>1
<1>5. OutboxDrainsOnce BY <1>0, <1>3, <1>4 DEF OutboxDrainsOnce, OutboxesTell
<1> QED BY <1>2, <1>5 DEF PartitionsHold

\* Whatever tenants record, in whatever order: every record rests on one of its
\* own tenant, an order earns one commission, rounded to the nearest unit, and the
\* outbox tells each record once and hands every event out once, in order.
THEOREM PartitionsStayApart == MemorySpec => []PartitionsHold
<1>1. MemorySpec => []MemoryInv
  BY MemoryStarts, MemoryStepInv, PTL DEF MemorySpec
<1> QED BY <1>1, MemoryInvTells, PTL

-----------------------------------------------------------------------------
(* Outreach.                                                               *)

SendRecords == [attempt : Nat, at : Nat, optedOut : BOOLEAN]
SendAttemptRecords ==
    [message : Messages, state : Settled \cup {"queued"}, tries : Nat, created : 0..OutreachEnd,
     due : 0..(OutreachEnd + 1), settled : 0..OutreachEnd, replied : BOOLEAN]

FollowUpRecords ==
    [parent : Nat, message : Messages, delay : Nat,
     state : {"contingent", "not_met", "materialized", "cancelled"}]

QueueRecords ==
    [attempts : Seq(SendAttemptRecords), dedupe : [Messages -> Nat], followUps : Seq(FollowUpRecords)]

LogEntries == [nth : Nat, at : Nat]
PassRecords ==
    [attempts : Seq(SendAttemptRecords), budget : [Channels \X Days -> Nat],
     sendLog : [Contacts -> SUBSET LogEntries], sends : Seq(SendRecords)]

\* The attempts of a message are further apart than the retention: the last that
\* is not is the one its key names.
Apart(old, dd) ==
    /\ \A i \in DOMAIN old :
          /\ old[i].created <= hour /\ old[i].tries <= SendTries
          /\ old[i].state = "queued" => old[i].tries < SendTries
    /\ \A i, k \in DOMAIN old :
          i < k /\ old[i].message = old[k].message => old[k].created - old[i].created > Retention
    /\ \A i \in DOMAIN old : hour - old[i].created <= Retention => dd[old[i].message] = i
    /\ \A m \in Messages : dd[m] <= Len(old)

\* The attempts are apart, and a follow-up names the attempt it follows.
QueueKept(q) ==
    /\ q \in QueueRecords
    /\ Apart(q.attempts, q.dedupe)
    /\ \A f \in DOMAIN q.followUps : q.followUps[f].parent \in DOMAIN q.attempts

\* What enqueueing does to the attempts: new ones, not tried yet, go behind.
Longer(old, new) ==
    /\ Len(old) <= Len(new)
    /\ \A i \in DOMAIN old : new[i] = old[i]
    /\ \A i \in DOMAIN new : i \in DOMAIN old \/ new[i].tries = 0

\* The sends of an attempt, of a contact in the hour that ends at t, of a channel on a day.
TriesOf(ss, i) == {k \in DOMAIN ss : ss[k].attempt = i}
HourSends(old, ss, c, t) ==
    {k \in DOMAIN ss : /\ ContactOf[old[ss[k].attempt].message] = c
                       /\ ss[k].at <= t /\ ss[k].at > t - Hour}

DaySends(old, ss, ch, day) ==
    {k \in DOMAIN ss : /\ ChannelOf[old[ss[k].attempt].message] = ch
                       /\ ss[k].at \div Day = day}

\* The tries count the sends of an attempt, the budget those of a day; the log of
\* a contact has at least those of the last hour.
Within(old, budget, log, ss) ==
    /\ \A k \in DOMAIN ss : ss[k].attempt \in DOMAIN old /\ ss[k].at <= hour /\ ~ss[k].optedOut
    /\ \A i \in DOMAIN old : Cardinality(TriesOf(ss, i)) = old[i].tries
    /\ \A ch \in Channels, day \in Days :
          /\ Cardinality(DaySends(old, ss, ch, day)) = budget[<<ch, day>>]
          /\ budget[<<ch, day>>] <= DailyBudget
    /\ \A c \in Contacts : IsFiniteSet(log[c])
    /\ \A k \in DOMAIN ss, c \in Contacts :
          ContactOf[old[ss[k].attempt].message] = c /\ ss[k].at > hour - Hour
             => [nth |-> k, at |-> ss[k].at] \in log[c]
    /\ \A c \in Contacts, t \in 0..hour : Cardinality(HourSends(old, ss, c, t)) <= HourlyCap

\* A contact that opted out is suppressed, and one that refused has not granted.
ContactsKept ==
    /\ hour \in 0..OutreachEnd
    /\ contacts \in [Contacts -> [known : BOOLEAN, granted : BOOLEAN, suppressed : BOOLEAN,
                                  channels : SUBSET Channels]]
    /\ optedOut \subseteq Contacts /\ refused \subseteq Contacts
    /\ \A c \in optedOut : contacts[c].suppressed
    /\ \A c \in refused : ~contacts[c].granted

\* The contacts and the queue are kept, and what was sent is within the limits.
OutreachInv ==
    /\ ContactsKept
    /\ QueueKept(Queues)
    /\ channelBudget \in [Channels \X Days -> Nat]
    /\ sendLog \in [Contacts -> SUBSET LogEntries]
    /\ sends \in Seq(SendRecords)
    /\ Within(attempts, channelBudget, sendLog, sends)

\* Nothing is queued and nothing was sent.
LEMMA OutreachStarts == OutreachInit => OutreachInv
<1> SUFFICES ASSUME OutreachInit PROVE OutreachInv OBVIOUS
<1> USE OutreachAssumption
<1>1. ContactsKept BY DEF OutreachInit, ContactsKept
<1>2. QueueKept(Queues) BY DEF OutreachInit, QueueKept, Queues, QueueRecords, Apart
<1>3. /\ channelBudget \in [Channels \X Days -> Nat]
      /\ sendLog \in [Contacts -> SUBSET LogEntries] /\ sends \in Seq(SendRecords)
  BY DEF OutreachInit
<1>4. Within(attempts, channelBudget, sendLog, sends)
  <2>1. \A c, t : HourSends(attempts, sends, c, t) = {} BY DEF OutreachInit, HourSends
  <2>2. \A ch, day : DaySends(attempts, sends, ch, day) = {} BY DEF OutreachInit, DaySends
  <2>3. Cardinality({}) = 0 /\ IsFiniteSet({}) BY FS_EmptySet
  <2>4. \A c, t : Cardinality(HourSends(attempts, sends, c, t)) = 0 BY <2>1, <2>3, Zenon
  <2>5. \A ch, day : Cardinality(DaySends(attempts, sends, ch, day)) = 0 BY <2>2, <2>3, Zenon
  <2> QED BY <2>3, <2>4, <2>5 DEF OutreachInit, Within
<1> QED BY <1>1, <1>2, <1>3, <1>4 DEF OutreachInv

\* A queue that grew twice has grown.
LEMMA LongerIsTransitive ==
    ASSUME NEW S, NEW old \in Seq(S), NEW new \in Seq(S), NEW more \in Seq(S), Longer(old, new), Longer(new, more)
    PROVE  Longer(old, more)
<1>1. DOMAIN old = 1..Len(old) /\ DOMAIN new = 1..Len(new) /\ DOMAIN more = 1..Len(more)
      /\ Len(old) \in Nat /\ Len(new) \in Nat /\ Len(more) \in Nat OBVIOUS
<1>2. \A i \in DOMAIN old : i \in DOMAIN new BY <1>1 DEF Longer
<1>3. \A i \in DOMAIN more : i \in DOMAIN old \/ more[i].tries = 0
  <2> SUFFICES ASSUME NEW i \in DOMAIN more, i \notin DOMAIN old PROVE more[i].tries = 0 OBVIOUS
  <2>1. CASE i \in DOMAIN new BY <2>1 DEF Longer
  <2>2. CASE i \notin DOMAIN new BY <2>2 DEF Longer
  <2> QED BY <2>1, <2>2
<1> QED BY <1>1, <1>2, <1>3 DEF Longer

\* A message of which no live key tells is further from all before it than the retention.
LEMMA EnqueuedKeeps ==
    ASSUME hour \in 0..OutreachEnd, NEW q, QueueKept(q), NEW m \in Messages,
           NEW due \in 0..(OutreachEnd + 1), NEW r, r = Enqueued(q, m, due)
    PROVE  QueueKept(r) /\ Longer(q.attempts, r.attempts) /\ r.followUps = q.followUps
<1> USE OutreachAssumption
<1>1. PICK old \in Seq(SendAttemptRecords), dd \in [Messages -> Nat], ups \in Seq(FollowUpRecords) :
         /\ old = q.attempts /\ dd = q.dedupe /\ ups = q.followUps
         /\ q = [attempts |-> old, dedupe |-> dd, followUps |-> ups]
  BY DEF QueueKept, QueueRecords
<1>2. PICK n \in Nat : n = Len(old) /\ DOMAIN old = 1..n OBVIOUS
<1>3. Apart(old, dd) /\ \A f \in DOMAIN ups : ups[f].parent \in 1..n BY <1>1, <1>2 DEF QueueKept
<1>4. \A i \in 1..n : old[i].message \in Messages /\ old[i].created \in Nat /\ old[i].tries \in Nat
  <2>1. \A a \in SendAttemptRecords : a.message \in Messages /\ a.created \in Nat /\ a.tries \in Nat
    BY DEF SendAttemptRecords
  <2> QED BY <1>2, <2>1
<1>5. PICK live : live = Pruned(dd, old) OBVIOUS
<1>6. /\ live \in [Messages -> Nat]
      /\ \A x \in Messages : live[x] = dd[x] \/ live[x] = 0
      /\ \A x \in Messages : dd[x] # 0 /\ hour - old[dd[x]].created <= Retention => live[x] = dd[x]
  BY <1>5 DEF Pruned
<1>7. \A i \in 1..n : hour - old[i].created <= Retention => live[old[i].message] = i
  <2> SUFFICES ASSUME NEW i \in 1..n, hour - old[i].created <= Retention PROVE live[old[i].message] = i OBVIOUS
  <2>1. dd[old[i].message] = i BY <1>2, <1>3 DEF Apart
  <2> QED BY <2>1, <1>4, <1>6
<1>8. \A x \in Messages : live[x] <= n
  <2>1. \A x \in Messages : dd[x] <= n BY <1>2, <1>3 DEF Apart
  <2> QED BY <2>1, <1>6
<1>9. CASE live[m] # 0
  <2>1. r = [attempts |-> old, dedupe |-> live, followUps |-> ups] BY <1>1, <1>5, <1>9 DEF Enqueued
  <2>2. Apart(old, live) BY <1>2, <1>3, <1>7, <1>8 DEF Apart
  <2>3. Longer(old, old) BY <1>2 DEF Longer
  <2>4. r.attempts = old /\ r.dedupe = live /\ r.followUps = ups /\ r \in QueueRecords
    BY <2>1, <1>6 DEF QueueRecords
  <2> QED BY <2>2, <2>3, <2>4, <1>1, <1>2, <1>3 DEF QueueKept
<1>10. CASE live[m] = 0
  <2>1. PICK a \in SendAttemptRecords :
           a = [message |-> m, state |-> "queued", tries |-> 0, created |-> hour,
                due |-> due, settled |-> 0, replied |-> FALSE]
    <3>1. 0 \in Nat /\ 0 \in 0..OutreachEnd OBVIOUS
    <3>2. "queued" \in Settled \cup {"queued"} /\ FALSE \in BOOLEAN OBVIOUS
    <3> QED BY <3>1, <3>2 DEF SendAttemptRecords
  <2>2. a.message = m /\ a.tries = 0 /\ a.created = hour BY <2>1
  <2>b. Append(old, a) \in Seq(SendAttemptRecords) OBVIOUS
  <2>3. PICK new \in Seq(SendAttemptRecords) : new = Append(old, a) BY <2>b
  <2>4. DOMAIN new = 1..(n + 1) /\ Len(new) = n + 1 /\ new[n + 1] = a /\ \A i \in 1..n : new[i] = old[i]
    BY <2>3, <1>2
  <2>5. PICK ee : ee = [live EXCEPT ![m] = n + 1] OBVIOUS
  <2>6. ee \in [Messages -> Nat] /\ ee[m] = n + 1 /\ \A x \in Messages : x # m => ee[x] = live[x]
    BY <2>5, <1>6
  <2>7. r = [attempts |-> new, dedupe |-> ee, followUps |-> ups]
    BY <1>1, <1>2, <1>5, <1>10, <2>1, <2>3, <2>5 DEF Enqueued
  <2>8. \A i \in 1..(n + 1) : i \in 1..n \/ i = n + 1 OBVIOUS
  <2>9. ASSUME NEW i \in 1..n, old[i].message = m PROVE hour - old[i].created > Retention
    BY <2>9, <1>7, <1>4, <1>10
  <2>10. Apart(new, ee)
    <3>1. \A i \in 1..(n + 1) : /\ new[i].created <= hour /\ new[i].tries <= SendTries
                                /\ new[i].state = "queued" => new[i].tries < SendTries
      <4> SUFFICES ASSUME NEW i \in 1..(n + 1)
                   PROVE  /\ new[i].created <= hour /\ new[i].tries <= SendTries
                          /\ new[i].state = "queued" => new[i].tries < SendTries
        OBVIOUS
      <4>1. \A k \in 1..n : /\ old[k].created <= hour /\ old[k].tries <= SendTries
                            /\ old[k].state = "queued" => old[k].tries < SendTries
        BY <1>2, <1>3 DEF Apart
      <4>2. a.created <= hour /\ a.tries <= SendTries /\ a.tries < SendTries BY <2>2
      <4>3. CASE i \in 1..n
        <5>1. new[i] = old[i] BY <4>3, <2>4
        <5>2. /\ old[i].created <= hour /\ old[i].tries <= SendTries
              /\ old[i].state = "queued" => old[i].tries < SendTries
          BY <4>1, <4>3
        <5> QED BY <5>1, <5>2, Zenon
      <4>4. CASE i = n + 1
        <5>1. new[i] = a BY <4>4, <2>4
        <5> QED BY <5>1, <4>2, Zenon
      <4> QED BY <4>3, <4>4, <2>8
    <3>2. ASSUME NEW i \in 1..(n + 1), NEW k \in 1..(n + 1), i < k, new[i].message = new[k].message
          PROVE  new[k].created - new[i].created > Retention
      <4>1. CASE k = n + 1
        <5>1. i \in 1..n /\ new[i] = old[i] /\ old[i].message = m /\ new[k].created = hour
          BY <4>1, <3>2, <2>2, <2>4
        <5> QED BY <5>1, <2>9
      <4>2. CASE k # n + 1
        <5>1. i \in 1..n /\ k \in 1..n /\ new[i] = old[i] /\ new[k] = old[k] BY <4>2, <3>2, <2>4
        <5> QED BY <5>1, <3>2, <1>2, <1>3 DEF Apart
      <4> QED BY <4>1, <4>2
    <3>3. ASSUME NEW i \in 1..(n + 1), hour - new[i].created <= Retention
          PROVE  ee[new[i].message] = i
      <4>1. CASE i = n + 1 BY <4>1, <2>2, <2>4, <2>6
      <4>2. CASE i # n + 1
        <5>1. i \in 1..n /\ new[i] = old[i] BY <4>2, <2>4
        <5>2. old[i].message # m BY <5>1, <3>3, <2>9, <1>4
        <5> QED BY <5>1, <5>2, <3>3, <1>4, <1>7, <2>6
      <4> QED BY <4>1, <4>2
    <3>4. \A x \in Messages : ee[x] <= n + 1
      <4> SUFFICES ASSUME NEW x \in Messages PROVE ee[x] <= n + 1 OBVIOUS
      <4>1. live[x] \in Nat /\ live[x] <= n BY <1>6, <1>8
      <4>2. CASE x = m BY <4>2, <2>6
      <4>3. CASE x # m
        <5>1. ee[x] = live[x] BY <4>3, <2>6
        <5> QED BY <5>1, <4>1
      <4> QED BY <4>2, <4>3
    <3> QED BY <3>1, <3>2, <3>3, <3>4, <2>4 DEF Apart
  <2>11. Longer(old, new) BY <1>2, <2>2, <2>4, <2>8 DEF Longer
  <2>12. r.attempts = new /\ r.dedupe = ee /\ r.followUps = ups /\ r \in QueueRecords
    BY <2>7, <2>6 DEF QueueRecords
  <2>13. \A f \in DOMAIN ups : ups[f].parent \in 1..(n + 1) BY <1>3
  <2> QED BY <2>4, <2>10, <2>11, <2>12, <2>13, <1>1 DEF QueueKept
<1> QED BY <1>9, <1>10

\* A follow-up that changes its state leaves the queue kept.
LEMMA BecomingKeeps ==
    ASSUME NEW q, QueueKept(q), NEW f \in DOMAIN q.followUps,
           NEW st \in {"contingent", "not_met", "materialized", "cancelled"}, NEW r, r = Becoming(q, f, st)
    PROVE  QueueKept(r) /\ r.attempts = q.attempts /\ Len(r.followUps) = Len(q.followUps)
<1>1. PICK old \in Seq(SendAttemptRecords), dd \in [Messages -> Nat], ups \in Seq(FollowUpRecords) :
         /\ old = q.attempts /\ dd = q.dedupe /\ ups = q.followUps
         /\ q = [attempts |-> old, dedupe |-> dd, followUps |-> ups]
  BY DEF QueueKept, QueueRecords
<1>2. ups[f] \in FollowUpRecords /\ f \in DOMAIN ups BY <1>1
<1>3. PICK up : up = [ups[f] EXCEPT !.state = st] OBVIOUS
<1>4. up \in FollowUpRecords /\ up.parent = ups[f].parent BY <1>2, <1>3 DEF FollowUpRecords
<1>5. PICK vs : vs = [ups EXCEPT ![f] = up] OBVIOUS
<1>6. /\ vs \in Seq(FollowUpRecords) /\ Len(vs) = Len(ups) /\ DOMAIN vs = DOMAIN ups
      /\ \A k \in DOMAIN vs : k # f => vs[k] = ups[k]
      /\ vs[f] = up
  BY <1>2, <1>4, <1>5
<1>7. r = [attempts |-> old, dedupe |-> dd, followUps |-> vs] BY <1>1, <1>3, <1>5 DEF Becoming
<1>8. r.attempts = old /\ r.dedupe = dd /\ r.followUps = vs /\ r \in QueueRecords
  BY <1>6, <1>7 DEF QueueRecords
<1>9. \A k \in DOMAIN vs : vs[k].parent \in DOMAIN old
  <2>1. \A k \in DOMAIN ups : ups[k].parent \in DOMAIN old BY <1>1 DEF QueueKept
  <2> SUFFICES ASSUME NEW k \in DOMAIN vs PROVE vs[k].parent \in DOMAIN old OBVIOUS
  <2>2. vs[k].parent = ups[k].parent
    <3>1. CASE k = f BY <3>1, <1>4, <1>6
    <3>2. CASE k # f
      <4>1. vs[k] = ups[k] BY <3>2, <1>6
      <4> QED BY <4>1, Zenon
    <3> QED BY <3>1, <3>2
  <2>3. k \in DOMAIN ups BY <1>6
  <2> QED BY <2>1, <2>2, <2>3, Zenon
<1>10. Apart(old, dd) BY <1>1 DEF QueueKept
<1> QED BY <1>1, <1>6, <1>8, <1>9, <1>10 DEF QueueKept

\* A queue that stayed has grown by nothing.
LEMMA LongerIsReflexive == \A s : s \in Seq(SendAttemptRecords) => Longer(s, s)
BY DEF Longer

\* A follow-up put on the queue leaves it kept, and only longer.
LEMMA MaterializedKeeps ==
    ASSUME hour \in 0..OutreachEnd, NEW q, QueueKept(q), NEW f \in DOMAIN q.followUps, NEW r, r = Materialized(q, f)
    PROVE  QueueKept(r) /\ Longer(q.attempts, r.attempts) /\ Len(r.followUps) = Len(q.followUps)
<1>1. q.attempts \in Seq(SendAttemptRecords) /\ q.followUps \in Seq(FollowUpRecords) BY DEF QueueKept, QueueRecords
<1>2. Longer(q.attempts, q.attempts) BY <1>1, LongerIsReflexive
<1>3. q.followUps[f].message \in Messages
  <2>1. \A a \in FollowUpRecords : a.message \in Messages BY DEF FollowUpRecords
  <2>2. q.followUps[f] \in FollowUpRecords BY <1>1
  <2> QED BY <2>1, <2>2
<1>4. PICK e : e = Enqueued(q, q.followUps[f].message, 0) OBVIOUS
<1>5. QueueKept(e) /\ Longer(q.attempts, e.attempts) /\ e.followUps = q.followUps
  <2>1. PICK x \in Messages : x = q.followUps[f].message BY <1>3
  <2>2. e = Enqueued(q, x, 0) BY <2>1, <1>4
  <2>3. 0 \in 0..(OutreachEnd + 1) BY OutreachAssumption
  <2> QED BY <2>2, <2>3, EnqueuedKeeps
<1>6. \/ r = q \/ r = Becoming(q, f, "not_met") \/ r = Becoming(q, f, "cancelled")
      \/ r = Becoming(e, f, "materialized")
  BY <1>4 DEF Materialized
<1>7. CASE r = q BY <1>7, <1>2
<1>8. CASE r = Becoming(q, f, "not_met")
  <2>1. QueueKept(r) /\ r.attempts = q.attempts /\ Len(r.followUps) = Len(q.followUps)
    BY <1>8, BecomingKeeps
  <2> QED BY <2>1, <1>2
<1>9. CASE r = Becoming(q, f, "cancelled")
  <2>1. QueueKept(r) /\ r.attempts = q.attempts /\ Len(r.followUps) = Len(q.followUps)
    BY <1>9, BecomingKeeps
  <2> QED BY <2>1, <1>2
<1>10. CASE r = Becoming(e, f, "materialized")
  <2>1. f \in DOMAIN e.followUps BY <1>5
  <2>2. QueueKept(r) /\ r.attempts = e.attempts /\ Len(r.followUps) = Len(e.followUps)
    BY <1>10, <1>5, <2>1, BecomingKeeps
  <2> QED BY <2>2, <1>5
<1> QED BY <1>6, <1>7, <1>8, <1>9, <1>10

\* The follow-ups are looked at one after the other.
IsMaterialized(f) ==
    f = [k \in 0..Len(followUps) |-> IF k = 0 THEN Queues ELSE Materialized(f[k - 1], k)]

\* The follow-ups put on the queue are where the pass over them ends.
LEMMA MaterializedIsPass == materializeFollowUps = (CHOOSE f : IsMaterialized(f))[Len(followUps)]
BY DEF materializeFollowUps, IsMaterialized

\* The pass over the follow-ups leaves the queue kept, and only longer.
LEMMA FollowUpsKeep ==
    ASSUME hour \in 0..OutreachEnd, QueueKept(Queues)
    PROVE  QueueKept(materializeFollowUps) /\ Longer(attempts, materializeFollowUps.attempts)
<1>1. PICK m \in Nat : m = Len(followUps) /\ DOMAIN followUps = 1..m
  BY DEF QueueKept, QueueRecords, Queues
<1>2. attempts \in Seq(SendAttemptRecords) BY DEF QueueKept, QueueRecords, Queues
<1> DEFINE Stage == {q \in QueueRecords : /\ QueueKept(q) /\ Longer(attempts, q.attempts)
                                         /\ Len(q.followUps) = m}
           T == [k \in 0..m |-> Stage]
           step == [k \in 1..m |-> [q \in Stage |-> Materialized(q, k)]]
<1>3. ASSUME NEW k \in 1..m, NEW q \in Stage PROVE Materialized(q, k) \in Stage
  <2>1. PICK r : r = Materialized(q, k) OBVIOUS
  <2>2. QueueKept(q) /\ Len(q.followUps) = m /\ Longer(attempts, q.attempts) OBVIOUS
  <2>3. q.followUps \in Seq(FollowUpRecords) /\ q.attempts \in Seq(SendAttemptRecords) BY DEF QueueRecords
  <2>4. k \in DOMAIN q.followUps BY <2>2, <2>3
  <2>5. QueueKept(r) /\ Longer(q.attempts, r.attempts) /\ Len(r.followUps) = Len(q.followUps)
    BY <2>1, <2>2, <2>4, MaterializedKeeps
  <2>6. r \in QueueRecords /\ r.attempts \in Seq(SendAttemptRecords) BY <2>5 DEF QueueKept, QueueRecords
  <2>7. Longer(attempts, r.attempts) BY <2>2, <2>3, <2>5, <2>6, <1>2, LongerIsTransitive
  <2> QED BY <2>1, <2>2, <2>5, <2>6, <2>7
<1>4. Queues \in Stage
  <2>1. Longer(attempts, attempts) BY <1>2, LongerIsReflexive
  <2>2. Queues.attempts = attempts /\ Queues.followUps = followUps BY DEF Queues
  <2>3. Queues \in QueueRecords BY DEF QueueKept
  <2> QED BY <1>1, <2>1, <2>2, <2>3
<1> HIDE DEF Stage
<1>5. Queues \in T[0] /\ \A k \in 1..m : \A x \in T[k - 1] : step[k][x] \in T[k]
  <2>1. Queues \in T[0] BY <1>4
  <2>2. ASSUME NEW k \in 1..m, NEW x \in T[k - 1] PROVE step[k][x] \in T[k]
    <3>1. x \in Stage /\ T[k] = Stage OBVIOUS
    <3>2. step[k][x] = Materialized(x, k) BY <3>1
    <3> QED BY <3>1, <3>2, <1>3
  <2> QED BY <2>1, <2>2
<1>6. \A k \in 0..m : T[k] = Stage OBVIOUS
<1>7. \A k \in 1..m : \A x \in Stage : step[k][x] = Materialized(x, k) OBVIOUS
<1> HIDE DEF T, step
<1>8. PICK f : /\ DOMAIN f = 0..m /\ f[0] = Queues
               /\ \A k \in 1..m : f[k] = step[k][f[k - 1]]
               /\ \A k \in 0..m : f[k] \in T[k]
  <2>1. Passes(m, T, Queues, step) BY <1>5 DEF Passes
  <2>2. \E f : PassFrom(f, m, T, Queues, step) BY <2>1, PassStarted
  <2> QED BY <2>2 DEF PassFrom
<1>9. \A k \in 0..m : f[k] \in Stage BY <1>8, <1>6
<1>10. \A k \in 1..m : f[k] = Materialized(f[k - 1], k)
  <2> SUFFICES ASSUME NEW k \in 1..m PROVE f[k] = Materialized(f[k - 1], k) OBVIOUS
  <2>1. k - 1 \in 0..m /\ f[k - 1] \in Stage BY <1>9
  <2> QED BY <2>1, <1>7, <1>8
<1>11. PICK g : g = [k \in 0..m |-> IF k = 0 THEN Queues ELSE Materialized(f[k - 1], k)] OBVIOUS
<1>12. \A k \in 0..m : g[k] = f[k]
  <2> SUFFICES ASSUME NEW k \in 0..m PROVE g[k] = f[k] OBVIOUS
  <2>1. CASE k = 0 BY <2>1, <1>8, <1>11
  <2>2. CASE k # 0 BY <2>2, <1>10, <1>11
  <2> QED BY <2>1, <2>2
<1>13. IsMaterialized(g)
  <2>1. \A k \in 0..m : k # 0 => g[k - 1] = f[k - 1] BY <1>12
  <2>2. g = [k \in 0..m |-> IF k = 0 THEN Queues ELSE Materialized(g[k - 1], k)] BY <1>11, <2>1
  <2> QED BY <2>2, <1>1 DEF IsMaterialized
<1>14. PICK h : h = (CHOOSE x : IsMaterialized(x)) OBVIOUS
<1>15. IsMaterialized(h) BY <1>13, <1>14, Zenon
<1>16. h[0] = Queues /\ \A k \in 1..m : h[k] = Materialized(h[k - 1], k)
  BY <1>1, <1>15 DEF IsMaterialized
<1>17. \A k \in 1..m : h[k - 1] = f[k - 1] => h[k] = f[k] BY <1>10, <1>16
<1>18. h[0] = f[0] BY <1>8, <1>16
<1>19. \A k \in 0..m : h[k] = f[k] BY <1>17, <1>18, PassesAgree
<1>20. h[m] = f[m] /\ f[m] \in Stage
  <2>1. m \in 0..m OBVIOUS
  <2> QED BY <2>1, <1>9, <1>19
<1>21. materializeFollowUps \in Stage BY <1>1, <1>14, <1>20, MaterializedIsPass
<1> QED BY <1>21 DEF Stage

-----------------------------------------------------------------------------
(* One attempt of the pass.                                                *)

\* What an attempt is after a transition.
LEMMA TransitionedIs ==
    ASSUME hour \in 0..OutreachEnd, NEW a \in SendAttemptRecords, NEW next \in Settled \cup {"queued"}, NEW b, b = Transitioned(a, next)
    PROVE  /\ b \in SendAttemptRecords /\ b.state = next /\ b.message = a.message
           /\ b.tries = a.tries /\ b.created = a.created
<1>1. PICK t \in 0..OutreachEnd : t = IF next \in Settled THEN hour ELSE a.settled BY DEF SendAttemptRecords
<1>2. b = [[a EXCEPT !.state = next] EXCEPT !.settled = t] BY <1>1 DEF Transitioned, SendAttemptRecords
<1>3. PICK x \in SendAttemptRecords : x = [a EXCEPT !.state = next] BY DEF SendAttemptRecords
<1>4. x.state = next /\ x.message = a.message /\ x.tries = a.tries /\ x.created = a.created
  BY <1>3 DEF SendAttemptRecords
<1>5. b = [x EXCEPT !.settled = t] BY <1>2, <1>3
<1>6. b \in SendAttemptRecords /\ b.state = x.state /\ b.message = x.message
      /\ b.tries = x.tries /\ b.created = x.created
  BY <1>5 DEF SendAttemptRecords
<1> QED BY <1>4, <1>6

\* What becomes of the attempt i.
Succeeds(b, old, i) ==
    /\ b \in SendAttemptRecords /\ b.message = old[i].message /\ b.created = old[i].created
    /\ b.tries <= SendTries /\ (b.state = "queued" => b.tries < SendTries)

Replaced(old, i, b) == [old EXCEPT ![i] = b]

\* An attempt replaced by what succeeds it leaves the attempts apart.
LEMMA ReplacedStaysApart ==
    ASSUME NEW old \in Seq(SendAttemptRecords), NEW dd, Apart(old, dd), NEW i \in DOMAIN old,
           NEW b, Succeeds(b, old, i), NEW new, new = Replaced(old, i, b)
    PROVE  /\ Apart(new, dd) /\ new \in Seq(SendAttemptRecords) /\ Len(new) = Len(old)
           /\ DOMAIN new = DOMAIN old /\ new[i] = b
           /\ \A k \in DOMAIN old : k # i => new[k] = old[k]
           /\ \A k \in DOMAIN old : new[k].message = old[k].message
<1> USE DEF Succeeds, Replaced
<1>1. /\ new \in Seq(SendAttemptRecords) /\ Len(new) = Len(old) /\ DOMAIN new = DOMAIN old
      /\ new[i] = b /\ \A k \in DOMAIN old : k # i => new[k] = old[k]
  OBVIOUS
<1>2. \A k \in DOMAIN old : new[k].message = old[k].message /\ new[k].created = old[k].created
  <2> SUFFICES ASSUME NEW k \in DOMAIN old
               PROVE  new[k].message = old[k].message /\ new[k].created = old[k].created
    OBVIOUS
  <2>1. CASE k = i BY <2>1, <1>1
  <2>2. CASE k # i
    <3>1. new[k] = old[k] BY <2>2, <1>1
    <3> QED BY <3>1, Zenon
  <2> QED BY <2>1, <2>2
<1>3. ASSUME NEW k \in DOMAIN new
      PROVE  /\ new[k].created <= hour /\ new[k].tries <= SendTries
             /\ new[k].state = "queued" => new[k].tries < SendTries
  <2>1. /\ old[k].created <= hour /\ old[k].tries <= SendTries
        /\ old[k].state = "queued" => old[k].tries < SendTries
    BY <1>1 DEF Apart
  <2>2. new[k].created <= hour BY <2>1, <1>1, <1>2
  <2>3. CASE k = i BY <2>2, <2>3, <1>1
  <2>4. CASE k # i
    <3>1. new[k] = old[k] BY <2>4, <1>1
    <3> QED BY <3>1, <2>1, Zenon
  <2> QED BY <2>3, <2>4
<1>4. ASSUME NEW k \in DOMAIN new, NEW j \in DOMAIN new, k < j, new[k].message = new[j].message
      PROVE  new[j].created - new[k].created > Retention
  BY <1>1, <1>2, <1>4 DEF Apart
<1>5. ASSUME NEW k \in DOMAIN new, hour - new[k].created <= Retention
      PROVE  dd[new[k].message] = k
  BY <1>1, <1>2, <1>5 DEF Apart
<1>6. \A m \in Messages : dd[m] <= Len(new) BY <1>1 DEF Apart
<1> QED BY <1>1, <1>2, <1>3, <1>4, <1>5, <1>6 DEF Apart

\* Who was sent to, and by which channel, does not change afterwards.
LEMMA SendsStayTold ==
    ASSUME NEW old, NEW new, NEW ss,
           \A k \in DOMAIN ss : new[ss[k].attempt].message = old[ss[k].attempt].message
    PROVE  /\ \A c, t : Cardinality(HourSends(new, ss, c, t)) = Cardinality(HourSends(old, ss, c, t))
           /\ \A ch, day : Cardinality(DaySends(new, ss, ch, day)) = Cardinality(DaySends(old, ss, ch, day))
<1>1. ASSUME NEW c, NEW t PROVE Cardinality(HourSends(new, ss, c, t)) = Cardinality(HourSends(old, ss, c, t))
  <2>1. \A k : k \in HourSends(new, ss, c, t) <=> k \in HourSends(old, ss, c, t) BY DEF HourSends
  <2> QED BY <2>1, CountsAgree
<1>2. ASSUME NEW ch, NEW day
      PROVE  Cardinality(DaySends(new, ss, ch, day)) = Cardinality(DaySends(old, ss, ch, day))
  <2>1. \A k : k \in DaySends(new, ss, ch, day) <=> k \in DaySends(old, ss, ch, day) BY DEF DaySends
  <2> QED BY <2>1, CountsAgree
<1> QED BY <1>1, <1>2

\* Attempts that were not tried since leave the sends within the limits.
LEMMA WithinTold ==
    ASSUME NEW old, NEW new, NEW budget, NEW log, NEW ss, Within(old, budget, log, ss),
           DOMAIN old \subseteq DOMAIN new,
           \A i \in DOMAIN old : new[i].message = old[i].message /\ new[i].tries = old[i].tries,
           \A i \in DOMAIN new : i \in DOMAIN old \/ new[i].tries = 0
    PROVE  Within(new, budget, log, ss)
<1>1. \A k \in DOMAIN ss : ss[k].attempt \in DOMAIN old /\ ss[k].at <= hour /\ ~ss[k].optedOut
  BY DEF Within
<1>2. \A k \in DOMAIN ss : new[ss[k].attempt].message = old[ss[k].attempt].message BY <1>1
<1>3. /\ \A c, t : Cardinality(HourSends(new, ss, c, t)) = Cardinality(HourSends(old, ss, c, t))
      /\ \A ch, day : Cardinality(DaySends(new, ss, ch, day)) = Cardinality(DaySends(old, ss, ch, day))
  BY <1>2, SendsStayTold
<1>4. ASSUME NEW i \in DOMAIN new PROVE Cardinality(TriesOf(ss, i)) = new[i].tries
  <2>1. CASE i \in DOMAIN old
    <3>1. Cardinality(TriesOf(ss, i)) = old[i].tries BY <2>1 DEF Within
    <3> QED BY <3>1, <2>1
  <2>2. CASE i \notin DOMAIN old
    <3>1. TriesOf(ss, i) = {} BY <2>2, <1>1 DEF TriesOf
    <3>2. Cardinality({}) = 0 BY FS_EmptySet
    <3>3. Cardinality(TriesOf(ss, i)) = 0 BY <3>1, <3>2, Zenon
    <3>4. new[i].tries = 0 BY <2>2
    <3> QED BY <3>3, <3>4
  <2> QED BY <2>1, <2>2
<1>5. \A k \in DOMAIN ss, c \in Contacts :
         ContactOf[new[ss[k].attempt].message] = c /\ ss[k].at > hour - Hour
            => [nth |-> k, at |-> ss[k].at] \in log[c]
  <2> SUFFICES ASSUME NEW k \in DOMAIN ss, NEW c \in Contacts,
                      ContactOf[new[ss[k].attempt].message] = c, ss[k].at > hour - Hour
               PROVE  [nth |-> k, at |-> ss[k].at] \in log[c]
    OBVIOUS
  <2>1. ContactOf[old[ss[k].attempt].message] = c BY <1>2
  <2> QED BY <2>1 DEF Within
<1>6. \A ch \in Channels, day \in Days :
         /\ Cardinality(DaySends(new, ss, ch, day)) = budget[<<ch, day>>]
         /\ budget[<<ch, day>>] <= DailyBudget
  <2> SUFFICES ASSUME NEW ch \in Channels, NEW day \in Days
               PROVE  /\ Cardinality(DaySends(new, ss, ch, day)) = budget[<<ch, day>>]
                      /\ budget[<<ch, day>>] <= DailyBudget
    OBVIOUS
  <2>1. /\ Cardinality(DaySends(old, ss, ch, day)) = budget[<<ch, day>>]
        /\ budget[<<ch, day>>] <= DailyBudget
    BY DEF Within
  <2> QED BY <2>1, <1>3
<1>7. \A c \in Contacts, t \in 0..hour : Cardinality(HourSends(new, ss, c, t)) <= HourlyCap
  <2> SUFFICES ASSUME NEW c \in Contacts, NEW t \in 0..hour
               PROVE  Cardinality(HourSends(new, ss, c, t)) <= HourlyCap
    OBVIOUS
  <2>1. Cardinality(HourSends(old, ss, c, t)) <= HourlyCap BY DEF Within
  <2> QED BY <2>1, <1>3
<1>8. \A c \in Contacts : IsFiniteSet(log[c]) BY DEF Within
<1>9. \A k \in DOMAIN ss : ss[k].attempt \in DOMAIN new /\ ss[k].at <= hour /\ ~ss[k].optedOut BY <1>1
<1> QED BY <1>4, <1>5, <1>6, <1>7, <1>8, <1>9 DEF Within

PassKept(s, dd) ==
    s \in PassRecords /\ Apart(s.attempts, dd) /\ Within(s.attempts, s.budget, s.sendLog, s.sends)

\* The log of a contact lists at least the sends of the last hour, one for one.
LEMMA RecentCountsHour ==
    ASSUME hour \in Nat, Hour \in Nat, NEW n \in Nat, NEW ss, DOMAIN ss = 1..n, NEW old, NEW c,
           NEW log \in SUBSET LogEntries, IsFiniteSet(log), \A k \in 1..n : ss[k].at \in Nat,
           \A k \in 1..n : ContactOf[old[ss[k].attempt].message] = c /\ ss[k].at > hour - Hour
              => [nth |-> k, at |-> ss[k].at] \in log
    PROVE  /\ IsFiniteSet(Recent(log)) /\ Cardinality(Recent(log)) \in Nat
           /\ Cardinality(HourSends(old, ss, c, hour)) <= Cardinality(Recent(log))
<1>1. IsFiniteSet(Recent(log)) /\ Cardinality(Recent(log)) \in Nat
  <2>1. Recent(log) \subseteq log BY DEF Recent
  <2>2. IsFiniteSet(Recent(log)) BY <2>1, FS_Subset
  <2> QED BY <2>2, FS_CardinalityType
<1>2. PICK A, B : A = HourSends(old, ss, c, hour) /\ B = Recent(log) OBVIOUS
<1>3. PICK f : f = [k \in A |-> [nth |-> k, at |-> ss[k].at]] OBVIOUS
<1>4. \A k \in A : k \in 1..n /\ f[k] \in B /\ f[k].nth = k
  <2> SUFFICES ASSUME NEW k \in A PROVE k \in 1..n /\ f[k] \in B /\ f[k].nth = k OBVIOUS
  <2>1. k \in 1..n /\ ContactOf[old[ss[k].attempt].message] = c /\ ss[k].at > hour - Hour
    BY <1>2 DEF HourSends
  <2>2. PICK e : e = [nth |-> k, at |-> ss[k].at] OBVIOUS
  <2>3. e \in log /\ e.nth = k /\ e.at = ss[k].at BY <2>1, <2>2
  <2>4. e \in B BY <2>1, <2>3, <1>2 DEF Recent
  <2>5. f[k] = e BY <1>3, <2>2
  <2> QED BY <2>1, <2>3, <2>4, <2>5
<1>5. f \in [A -> B] BY <1>3, <1>4
<1>6. f \in Injection(A, B) BY <1>4, <1>5 DEF Injection, IsInjective
<1>7. IsFiniteSet(B) BY <1>1, <1>2
<1>8. Cardinality(A) <= Cardinality(B) BY <1>6, <1>7, FS_Injection
<1> QED BY <1>1, <1>2, <1>8

\* The step from s to r keeps what is kept and touches no other attempt.
PassMoved(s, r, i, dd) ==
    /\ PassKept(r, dd) /\ Len(r.attempts) = Len(s.attempts)
    /\ \A k \in DOMAIN s.attempts : k # i => r.attempts[k] = s.attempts[k]

\* A send keeps what holds along a pass, and the pass has moved on.
LEMMA SentKeeps ==
    ASSUME ContactsKept, NEW s, NEW dd, PassKept(s, dd), NEW i \in DOMAIN s.attempts,
           s.attempts[i].state = "queued", Verdict(s, s.attempts[i]) = "sending",
           NEW ok \in BOOLEAN, NEW r, r = Sent(s, i, ok)
    PROVE  PassMoved(s, r, i, dd)
<1> USE OutreachAssumption
<1>1. PICK old \in Seq(SendAttemptRecords), budget \in [Channels \X Days -> Nat],
           log \in [Contacts -> SUBSET LogEntries], ss \in Seq(SendRecords) :
         /\ old = s.attempts /\ budget = s.budget /\ log = s.sendLog /\ ss = s.sends
  BY DEF PassKept, PassRecords
<1>2. Apart(old, dd) /\ Within(old, budget, log, ss) BY <1>1 DEF PassKept
<1>3. PICK n \in Nat : n = Len(ss) /\ DOMAIN ss = 1..n OBVIOUS
<1>4. hour \in Nat /\ hour \in 0..OutreachEnd BY DEF ContactsKept
<1>5. \A k \in 1..n : ss[k].attempt \in Nat /\ ss[k].at \in Nat
  <2>1. \A e \in SendRecords : e.attempt \in Nat /\ e.at \in Nat BY DEF SendRecords
  <2> QED BY <2>1, <1>3
<1>6. PICK a \in SendAttemptRecords : a = old[i] /\ i \in DOMAIN old BY <1>1
<1>7. PICK m \in Messages : m = a.message BY DEF SendAttemptRecords
<1>8. PICK x \in Contacts : x = ContactOf[m] BY DEF Contacts
<1>9. PICK y \in Channels : y = ChannelOf[m] BY DEF Channels
<1>10. PICK z \in Days : z = hour \div Day BY <1>4 DEF Days
<1>11. /\ ~contacts[x].suppressed /\ contacts[x].granted
       /\ ~(budget[<<y, z>>] >= DailyBudget)
       /\ ~(Cardinality(Recent(log[x])) >= HourlyCap)
  BY <1>1, <1>6, <1>7, <1>8, <1>9, <1>10 DEF Verdict
<1>12. x \notin optedOut \cup refused BY <1>11 DEF ContactsKept
<1>13. PICK tries \in Nat : tries = a.tries + 1 /\ tries <= SendTries
  <2>1. a.state = "queued" /\ a.tries \in Nat BY <1>1, <1>6 DEF SendAttemptRecords
  <2>2. a.tries < SendTries BY <2>1, <1>2, <1>6 DEF Apart
  <2> QED BY <2>1, <2>2
<1>14. PICK next \in Settled \cup {"queued"} :
          next = (IF ok THEN "sent" ELSE AfterFailure(tries)) /\ (next = "queued" => tries < SendTries)
  <2>1. CASE ok
    <3>1. "sent" \in Settled BY DEF Settled
    <3> QED BY <2>1, <3>1
  <2>2. CASE ~ok BY <2>2, <1>13 DEF AfterFailure, Settled
  <2> QED BY <2>1, <2>2
<1>15. PICK aa : aa = [a EXCEPT !.tries = tries] OBVIOUS
<1>c. aa \in SendAttemptRecords /\ aa.tries = tries /\ aa.message = m /\ aa.created = a.created
  BY <1>7, <1>13, <1>15 DEF SendAttemptRecords
<1>16. PICK b : b = Transitioned(aa, next) OBVIOUS
<1>d. /\ b \in SendAttemptRecords /\ b.state = next
      /\ b.tries = tries /\ b.message = m /\ b.created = a.created
  <2>1. /\ b \in SendAttemptRecords /\ b.state = next /\ b.message = aa.message
        /\ b.tries = aa.tries /\ b.created = aa.created
    BY <1>4, <1>16, <1>c, TransitionedIs
  <2> QED BY <2>1, <1>c
<1>e. i \in DOMAIN old /\ Succeeds(b, old, i)
  BY <1>6, <1>7, <1>13, <1>14, <1>d DEF Succeeds
<1>17. PICK new : new = [old EXCEPT ![i] = b] OBVIOUS
<1>18. /\ Apart(new, dd) /\ new \in Seq(SendAttemptRecords) /\ Len(new) = Len(old)
       /\ DOMAIN new = DOMAIN old /\ new[i] = b
       /\ \A k \in DOMAIN old : k # i => new[k] = old[k]
       /\ \A k \in DOMAIN old : new[k].message = old[k].message
  <2>1. new = Replaced(old, i, b) BY <1>17 DEF Replaced
  <2> QED BY <2>1, <1>2, <1>e, ReplacedStaysApart
<1>19. PICK bb : bb = [budget EXCEPT ![<<y, z>>] = budget[<<y, z>>] + 1] OBVIOUS
<1>20. /\ bb \in [Channels \X Days -> Nat]
       /\ \A ch \in Channels, day \in Days :
             bb[<<ch, day>>] = IF ch = y /\ day = z THEN budget[<<ch, day>>] + 1 ELSE budget[<<ch, day>>]
  <2>1. <<y, z>> \in Channels \X Days /\ budget[<<y, z>>] + 1 \in Nat OBVIOUS
  <2>2. bb \in [Channels \X Days -> Nat] BY <1>19, <2>1
  <2>3. ASSUME NEW ch \in Channels, NEW day \in Days
        PROVE  bb[<<ch, day>>] = IF ch = y /\ day = z THEN budget[<<ch, day>>] + 1 ELSE budget[<<ch, day>>]
    BY <1>19
  <2> QED BY <2>2, <2>3
<1>21. PICK e : e = [nth |-> n + 1, at |-> hour] OBVIOUS
<1>f. e \in LogEntries BY <1>4, <1>21 DEF LogEntries
<1>22. PICK rec : rec = Recent(log[x]) OBVIOUS
<1>23. PICK ll : ll = [log EXCEPT ![x] = rec \cup {e}] OBVIOUS
<1>24. PICK d : d = [attempt |-> i, at |-> hour, optedOut |-> x \in optedOut \cup refused] OBVIOUS
<1>g. d \in SendRecords
  <2>1. i \in Nat BY <1>6
  <2>3. (x \in optedOut \cup refused) = FALSE BY <1>12
  <2>2. d = [attempt |-> i, at |-> hour, optedOut |-> FALSE] BY <2>3, <1>24, Zenon
  <2> QED BY <2>1, <2>2, <1>4 DEF SendRecords
<1>25. d.attempt = i /\ d.at = hour /\ ~d.optedOut BY <1>12, <1>24, <1>g
<1>b. Append(ss, d) \in Seq(SendRecords) BY <1>g
<1>26. PICK tt \in Seq(SendRecords) : tt = Append(ss, d) BY <1>b
<1>27. /\ Len(tt) = n + 1 /\ DOMAIN tt = 1..(n + 1) /\ tt[n + 1] = d
       /\ \A k \in 1..n : tt[k] = ss[k]
  BY <1>3, <1>26
<1>28. r = [attempts |-> new, budget |-> bb, sendLog |-> ll, sends |-> tt]
  BY <1>1, <1>3, <1>6, <1>7, <1>8, <1>9, <1>10, <1>13, <1>14, <1>15, <1>16, <1>17, <1>19,
     <1>21, <1>22, <1>23, <1>24, <1>26 DEF Sent
<1>29. r.attempts = new /\ r.budget = bb /\ r.sendLog = ll /\ r.sends = tt BY <1>28
<1>30. IsFiniteSet(log[x]) /\ \A k \in 1..n : ContactOf[old[ss[k].attempt].message] = x /\ ss[k].at > hour - Hour
              => [nth |-> k, at |-> ss[k].at] \in log[x]
  BY <1>2, <1>3 DEF Within
<1>31. /\ IsFiniteSet(rec) /\ Cardinality(rec) \in Nat
       /\ Cardinality(HourSends(old, ss, x, hour)) <= Cardinality(rec)
  <2>1. PICK lx \in SUBSET LogEntries : lx = log[x] OBVIOUS
  <2>2. /\ IsFiniteSet(lx) /\ rec = Recent(lx)
        /\ \A k \in 1..n : ContactOf[old[ss[k].attempt].message] = x /\ ss[k].at > hour - Hour
              => [nth |-> k, at |-> ss[k].at] \in lx
    BY <2>1, <1>22, <1>30
  <2>3. /\ IsFiniteSet(Recent(lx)) /\ Cardinality(Recent(lx)) \in Nat
        /\ Cardinality(HourSends(old, ss, x, hour)) <= Cardinality(Recent(lx))
    <3>1. Hour \in Nat /\ \A k \in 1..n : ss[k].at \in Nat BY <1>5
    <3> QED BY <1>3, <1>4, <2>2, <3>1, RecentCountsHour
  <2> QED BY <2>2, <2>3
<1>32. ll \in [Contacts -> SUBSET LogEntries]
  <2>1. rec \subseteq log[x] BY <1>22 DEF Recent
  <2>2. rec \cup {e} \in SUBSET LogEntries BY <2>1, <1>f
  <2> QED BY <2>2, <1>23
<1>33. ll[x] = rec \cup {e} /\ \A c \in Contacts : c # x => ll[c] = log[c] BY <1>23
<1>34. \A k \in 1..(n + 1) : k \in 1..n \/ k = n + 1 OBVIOUS
<1>35. \A k \in 1..n : ss[k].attempt \in DOMAIN old /\ ss[k].at <= hour /\ ~ss[k].optedOut
  BY <1>2, <1>3 DEF Within
<1>36. Within(new, bb, ll, tt)
  <2>1. \A k \in DOMAIN tt : tt[k].attempt \in DOMAIN new /\ tt[k].at <= hour /\ ~tt[k].optedOut
    <3> SUFFICES ASSUME NEW k \in 1..(n + 1)
                 PROVE  tt[k].attempt \in DOMAIN new /\ tt[k].at <= hour /\ ~tt[k].optedOut
      BY <1>27
    <3>1. CASE k \in 1..n
      <4>1. tt[k] = ss[k] BY <3>1, <1>27
      <4>2. ss[k].attempt \in DOMAIN old /\ ss[k].at <= hour /\ ~ss[k].optedOut BY <3>1, <1>35
      <4> QED BY <4>1, <4>2, <1>18
    <3>2. CASE k = n + 1
      <4>1. tt[k] = d BY <3>2, <1>27
      <4>2. d.at <= hour BY <1>4, <1>25
      <4> QED BY <4>1, <4>2, <1>25, <1>18, <1>6
    <3> QED BY <3>1, <3>2, <1>34
  <2>2. ASSUME NEW k \in 1..n
        PROVE  /\ tt[k] = ss[k]
               /\ new[tt[k].attempt].message = old[ss[k].attempt].message
    <3>1. tt[k] = ss[k] BY <1>27
    <3>2. ss[k].attempt \in DOMAIN old BY <1>35
    <3> QED BY <3>1, <3>2, <1>18
  <2>3. tt[n + 1] = d /\ new[tt[n + 1].attempt].message = m BY <1>18, <1>25, <1>27, <1>d
  <2>4. ASSUME NEW j \in DOMAIN new PROVE Cardinality(TriesOf(tt, j)) = new[j].tries
    <3>1. PICK A, B : A = TriesOf(ss, j) /\ B = TriesOf(tt, j) OBVIOUS
    <3>2. A \in SUBSET (1..n) /\ B \in SUBSET (1..(n + 1)) BY <3>1, <1>3, <1>27 DEF TriesOf
    <3>3. \A k \in 1..n : k \in A <=> k \in B BY <3>1, <2>2, <1>3, <1>27 DEF TriesOf
    <3>4. /\ Cardinality(A) \in Nat
          /\ Cardinality(B) = IF n + 1 \in B THEN Cardinality(A) + 1 ELSE Cardinality(A)
      BY <3>2, <3>3, CountedToNext
    <3>5. n + 1 \in B <=> j = i BY <3>1, <1>25, <1>27 DEF TriesOf
    <3>6. Cardinality(A) = old[j].tries BY <3>1, <1>2, <1>18 DEF Within
    <3>7. CASE j = i
      <4>1. Cardinality(B) = tries BY <3>4, <3>5, <3>6, <3>7, <1>6, <1>13
      <4> QED BY <4>1, <3>1, <3>7, <1>18, <1>d
    <3>8. CASE j # i
      <4>1. Cardinality(B) = old[j].tries BY <3>4, <3>5, <3>6, <3>8
      <4> QED BY <4>1, <3>1, <3>8, <1>18
    <3> QED BY <3>7, <3>8
  <2>5. ASSUME NEW ch \in Channels, NEW day \in Days
        PROVE  /\ Cardinality(DaySends(new, tt, ch, day)) = bb[<<ch, day>>]
               /\ bb[<<ch, day>>] <= DailyBudget
    <3>1. PICK A, B : A = DaySends(old, ss, ch, day) /\ B = DaySends(new, tt, ch, day) OBVIOUS
    <3>2. A \in SUBSET (1..n) /\ B \in SUBSET (1..(n + 1)) BY <3>1, <1>3, <1>27 DEF DaySends
    <3>3. \A k \in 1..n : k \in A <=> k \in B BY <3>1, <2>2, <1>3, <1>27 DEF DaySends
    <3>4. /\ Cardinality(A) \in Nat
          /\ Cardinality(B) = IF n + 1 \in B THEN Cardinality(A) + 1 ELSE Cardinality(A)
      BY <3>2, <3>3, CountedToNext
    <3>5. n + 1 \in B <=> ch = y /\ day = z
      BY <3>1, <2>3, <1>9, <1>10, <1>25, <1>27 DEF DaySends
    <3>6. Cardinality(A) = budget[<<ch, day>>] /\ budget[<<ch, day>>] <= DailyBudget
      BY <3>1, <1>2 DEF Within
    <3>7. budget[<<ch, day>>] \in Nat OBVIOUS
    <3>8. CASE ch = y /\ day = z
      <4>1. bb[<<ch, day>>] = budget[<<ch, day>>] + 1 BY <3>8, <1>20
      <4>2. budget[<<ch, day>>] < DailyBudget BY <3>7, <3>8, <1>11
      <4> QED BY <4>1, <4>2, <3>1, <3>4, <3>5, <3>6, <3>7, <3>8
    <3>9. CASE ~(ch = y /\ day = z)
      <4>1. bb[<<ch, day>>] = budget[<<ch, day>>] BY <3>9, <1>20
      <4> QED BY <4>1, <3>1, <3>4, <3>5, <3>6, <3>9
    <3> QED BY <3>8, <3>9
  <2>6. \A c \in Contacts : IsFiniteSet(ll[c])
    <3> SUFFICES ASSUME NEW c \in Contacts PROVE IsFiniteSet(ll[c]) OBVIOUS
    <3>1. CASE c = x
      <4>1. IsFiniteSet(rec \cup {e}) BY <1>31, FS_AddElement
      <4> QED BY <4>1, <3>1, <1>33
    <3>2. CASE c # x BY <3>2, <1>2, <1>33 DEF Within
    <3> QED BY <3>1, <3>2
  <2>7. ASSUME NEW k \in DOMAIN tt, NEW c \in Contacts,
               ContactOf[new[tt[k].attempt].message] = c, tt[k].at > hour - Hour
        PROVE  [nth |-> k, at |-> tt[k].at] \in ll[c]
    <3>1. CASE k = n + 1
      <4>1. c = x /\ tt[k].at = hour BY <2>3, <2>7, <3>1, <1>8, <1>25
      <4>2. [nth |-> k, at |-> tt[k].at] = e BY <4>1, <3>1, <1>21
      <4> QED BY <4>1, <4>2, <1>33
    <3>2. CASE k \in 1..n
      <4>1. /\ tt[k] = ss[k] /\ ContactOf[old[ss[k].attempt].message] = c /\ ss[k].at > hour - Hour
        BY <2>2, <2>7, <3>2
      <4>2. PICK g : g = [nth |-> k, at |-> ss[k].at] OBVIOUS
      <4>3. g \in log[c] BY <4>1, <4>2, <3>2, <1>2, <1>3 DEF Within
      <4>4. g.at > hour - Hour BY <4>1, <4>2
      <4>5. g \in ll[c]
        <5>1. CASE c = x
          <6>1. g \in rec BY <4>3, <4>4, <5>1, <1>22 DEF Recent
          <6> QED BY <6>1, <5>1, <1>33
        <5>2. CASE c # x BY <5>2, <4>3, <1>33
        <5> QED BY <5>1, <5>2
      <4> QED BY <4>1, <4>2, <4>5
    <3> QED BY <3>1, <3>2, <1>27, <1>34
  <2>8. ASSUME NEW c \in Contacts, NEW t \in 0..hour
        PROVE  Cardinality(HourSends(new, tt, c, t)) <= HourlyCap
    <3>1. PICK A, B : A = HourSends(old, ss, c, t) /\ B = HourSends(new, tt, c, t) OBVIOUS
    <3>2. A \in SUBSET (1..n) /\ B \in SUBSET (1..(n + 1)) BY <3>1, <1>3, <1>27 DEF HourSends
    <3>3. \A k \in 1..n : k \in A <=> k \in B BY <3>1, <2>2, <1>3, <1>27 DEF HourSends
    <3>4. /\ Cardinality(A) \in Nat
          /\ Cardinality(B) = IF n + 1 \in B THEN Cardinality(A) + 1 ELSE Cardinality(A)
      BY <3>2, <3>3, CountedToNext
    <3>5. n + 1 \in B => c = x /\ t = hour
      <4> SUFFICES ASSUME n + 1 \in B PROVE c = x /\ t = hour OBVIOUS
      <4>1. ContactOf[new[tt[n + 1].attempt].message] = c /\ tt[n + 1].at <= t BY <3>1 DEF HourSends
      <4>2. c = x /\ hour <= t BY <4>1, <2>3, <1>8, <1>25
      <4> QED BY <4>2, <1>4
    <3>6. Cardinality(A) <= HourlyCap BY <3>1, <1>2 DEF Within
    <3>7. CASE n + 1 \in B
      <4>1. A = HourSends(old, ss, x, hour) BY <3>1, <3>5, <3>7
      <4>2. Cardinality(A) <= Cardinality(rec)
        <5>1. Cardinality(A) = Cardinality(HourSends(old, ss, x, hour)) BY <4>1, Zenon
        <5> QED BY <5>1, <1>31
      <4>3. Cardinality(rec) < HourlyCap
        <5>1. ~(Cardinality(rec) >= HourlyCap) BY <1>11, <1>22
        <5> QED BY <5>1, <1>31
      <4>4. Cardinality(B) <= HourlyCap BY <4>2, <4>3, <3>4, <3>7, <1>31
      <4> QED BY <4>4, <3>1
    <3>8. CASE n + 1 \notin B BY <3>1, <3>4, <3>6, <3>8
    <3> QED BY <3>7, <3>8
  <2> QED BY <2>1, <2>4, <2>5, <2>6, <2>7, <2>8 DEF Within
<1>37. r \in PassRecords BY <1>18, <1>20, <1>28, <1>32 DEF PassRecords
<1>38. PassKept(r, dd) BY <1>18, <1>29, <1>36, <1>37 DEF PassKept
<1> QED BY <1>1, <1>18, <1>29, <1>38 DEF PassMoved

\* Processing one attempt keeps what holds along a pass.
LEMMA ProcessedKeeps ==
    ASSUME ContactsKept, NEW s, NEW dd, PassKept(s, dd), NEW i \in DOMAIN s.attempts,
           s.attempts[i].state = "queued", NEW ok \in BOOLEAN, NEW r, r = Processed(s, i, ok)
    PROVE  PassMoved(s, r, i, dd)
<1>1. PICK answer : answer = Verdict(s, s.attempts[i]) OBVIOUS
<1>2. answer \in {"skipped_suppressed", "queued", "skipped_budget", "skipped_guardrail", "sending"}
  BY <1>1 DEF Verdict
<1>3. CASE answer = "sending"
  <2>1. r = Sent(s, i, ok) BY <1>1, <1>3 DEF Processed
  <2>2. Verdict(s, s.attempts[i]) = "sending" BY <1>1, <1>3
  <2> QED BY <2>1, <2>2, SentKeeps
<1>4. CASE answer = "queued"
  <2>1. r = s BY <1>1, <1>4 DEF Processed
  <2> QED BY <2>1 DEF PassMoved
<1>5. CASE answer \in {"skipped_suppressed", "skipped_budget", "skipped_guardrail"}
  <2>1. PICK old \in Seq(SendAttemptRecords), budget \in [Channels \X Days -> Nat],
             log \in [Contacts -> SUBSET LogEntries], ss \in Seq(SendRecords) :
           /\ old = s.attempts /\ budget = s.budget /\ log = s.sendLog /\ ss = s.sends
           /\ s = [attempts |-> old, budget |-> budget, sendLog |-> log, sends |-> ss]
    BY DEF PassKept, PassRecords
  <2>2. Apart(old, dd) /\ Within(old, budget, log, ss) BY <2>1 DEF PassKept
  <2>3. hour \in 0..OutreachEnd BY DEF ContactsKept
  <2>4. i \in DOMAIN old /\ old[i] \in SendAttemptRecords BY <2>1
  <2>5. PICK b : b = Transitioned(old[i], answer) OBVIOUS
  <2>6. answer \in Settled \cup {"queued"} /\ answer # "queued" BY <1>5 DEF Settled
  <2>7. /\ b \in SendAttemptRecords /\ b.state = answer /\ b.message = old[i].message
        /\ b.tries = old[i].tries /\ b.created = old[i].created
    BY <2>3, <2>4, <2>5, <2>6, TransitionedIs
  <2>8. Succeeds(b, old, i) BY <2>2, <2>4, <2>6, <2>7 DEF Succeeds, Apart
  <2>9. PICK new : new = Replaced(old, i, b) OBVIOUS
  <2>10. /\ Apart(new, dd) /\ new \in Seq(SendAttemptRecords) /\ Len(new) = Len(old)
         /\ DOMAIN new = DOMAIN old /\ new[i] = b
         /\ \A k \in DOMAIN old : k # i => new[k] = old[k]
         /\ \A k \in DOMAIN old : new[k].message = old[k].message
    BY <2>2, <2>4, <2>8, <2>9, ReplacedStaysApart
  <2>11. \A k \in DOMAIN old : new[k].message = old[k].message /\ new[k].tries = old[k].tries
    <3> SUFFICES ASSUME NEW k \in DOMAIN old PROVE new[k].tries = old[k].tries BY <2>10
    <3>1. CASE k = i BY <3>1, <2>7, <2>10
    <3>2. CASE k # i
      <4>1. new[k] = old[k] BY <3>2, <2>10
      <4> QED BY <4>1, Zenon
    <3> QED BY <3>1, <3>2
  <2>12. Within(new, budget, log, ss) BY <2>2, <2>10, <2>11, WithinTold
  <2>13. r = [attempts |-> new, budget |-> budget, sendLog |-> log, sends |-> ss]
    BY <2>1, <2>5, <2>9, <1>1, <1>5 DEF Processed, Replaced
  <2>14. r.attempts = new /\ r.budget = budget /\ r.sendLog = log /\ r.sends = ss /\ r \in PassRecords
    BY <2>10, <2>13 DEF PassRecords
  <2>15. PassKept(r, dd) BY <2>10, <2>12, <2>14 DEF PassKept
  <2> QED BY <2>1, <2>10, <2>14, <2>15 DEF PassMoved
<1> QED BY <1>2, <1>3, <1>4, <1>5

-----------------------------------------------------------------------------
(* The pass.                                                               *)

PassStart(atts) == [attempts |-> atts, budget |-> channelBudget, sendLog |-> sendLog, sends |-> sends]
PassStep(atts, channels, accepts, s, i) ==
    IF Due(atts[i], channels) THEN Processed(s, i, i \in accepts) ELSE s

IsPass(f, atts, channels, accepts) ==
    f = [i \in 0..Len(atts) |->
           IF i = 0 THEN PassStart(atts) ELSE PassStep(atts, channels, accepts, f[i - 1], i)]

\* The result of a pass over the queue is where its recursion ends.
LEMMA PassIsPass ==
    \A atts, channels, accepts :
       Pass(atts, channels, accepts) = (CHOOSE f : IsPass(f, atts, channels, accepts))[Len(atts)]
BY DEF Pass, IsPass, PassStart, PassStep

\* A pass over the queue keeps it, and its length.
LEMMA PassKeeps ==
    ASSUME ContactsKept, NEW atts \in Seq(SendAttemptRecords), NEW dd, PassKept(PassStart(atts), dd),
           NEW channels, NEW accepts
    PROVE  PassKept(Pass(atts, channels, accepts), dd) /\ Len(Pass(atts, channels, accepts).attempts) = Len(atts)
<1>1. PICK m \in Nat : m = Len(atts) /\ DOMAIN atts = 1..m OBVIOUS
<1> DEFINE Stage(k) == {s \in PassRecords : /\ PassKept(s, dd) /\ Len(s.attempts) = m
                                           /\ \A j \in (k + 1)..m : s.attempts[j] = atts[j]}
           T == [k \in 0..m |-> Stage(k)]
           step == [k \in 1..m |-> [s \in Stage(k - 1) |-> PassStep(atts, channels, accepts, s, k)]]
<1>2. ASSUME NEW k \in 1..m, NEW s \in Stage(k - 1)
      PROVE  PassStep(atts, channels, accepts, s, k) \in Stage(k)
  <2>1. PICK r : r = PassStep(atts, channels, accepts, s, k) OBVIOUS
  <2>2. PassKept(s, dd) /\ Len(s.attempts) = m /\ s.attempts[k] = atts[k] OBVIOUS
  <2>3. \A j \in (k + 1)..m : s.attempts[j] = atts[j] OBVIOUS
  <2>4. s.attempts \in Seq(SendAttemptRecords) BY DEF PassRecords
  <2>5. k \in DOMAIN s.attempts /\ \A j \in (k + 1)..m : j \in DOMAIN s.attempts /\ j # k BY <2>2, <2>4
  <2>6. CASE r = s
    <3>1. r \in PassRecords /\ PassKept(r, dd) /\ Len(r.attempts) = m BY <2>2, <2>6
    <3>2. \A j \in (k + 1)..m : r.attempts[j] = atts[j] BY <2>3, <2>6
    <3> QED BY <2>1, <3>1, <3>2
  <2>7. CASE r # s
    <3>1. Due(atts[k], channels) /\ r = Processed(s, k, k \in accepts) BY <2>1, <2>7 DEF PassStep
    <3>2. s.attempts[k].state = "queued" BY <2>2, <3>1 DEF Due
    <3>3. PICK ok \in BOOLEAN : ok = (k \in accepts)
      <4>1. (k \in accepts) \in BOOLEAN OBVIOUS
      <4> QED BY <4>1
    <3>4. /\ PassKept(r, dd) /\ Len(r.attempts) = Len(s.attempts)
          /\ \A j \in DOMAIN s.attempts : j # k => r.attempts[j] = s.attempts[j]
      <4>1. r = Processed(s, k, ok) BY <3>1, <3>3, Zenon
      <4>2. ok \in BOOLEAN /\ k \in DOMAIN s.attempts BY <2>5
      <4>3. PassMoved(s, r, k, dd) BY <4>1, <4>2, <2>2, <3>2, ProcessedKeeps
      <4> QED BY <4>3 DEF PassMoved
    <3>5. r \in PassRecords /\ Len(r.attempts) = m BY <2>2, <3>4 DEF PassKept
    <3>6. \A j \in (k + 1)..m : r.attempts[j] = atts[j] BY <2>3, <2>5, <3>4
    <3> QED BY <2>1, <3>4, <3>5, <3>6
  <2> QED BY <2>6, <2>7
<1>3. PassStart(atts) \in Stage(0)
  <2>1. PassStart(atts) \in PassRecords BY DEF PassKept
  <2>2. PassStart(atts).attempts = atts BY DEF PassStart
  <2> QED BY <1>1, <2>1, <2>2
<1>4. \A k \in 0..m : T[k] = Stage(k) OBVIOUS
<1>5. \A s \in Stage(m) : PassKept(s, dd) /\ Len(s.attempts) = m OBVIOUS
<1> HIDE DEF Stage
<1>6. \A k \in 1..m : \A s \in Stage(k - 1) : step[k][s] = PassStep(atts, channels, accepts, s, k) OBVIOUS
<1>7. Passes(m, T, PassStart(atts), step)
  <2>1. PassStart(atts) \in T[0] BY <1>3, <1>4
  <2>2. ASSUME NEW k \in 1..m, NEW x \in T[k - 1] PROVE step[k][x] \in T[k]
    <3>1. k - 1 \in 0..m /\ k \in 0..m OBVIOUS
    <3>2. x \in Stage(k - 1) /\ T[k] = Stage(k) BY <3>1, <1>4
    <3>3. step[k][x] = PassStep(atts, channels, accepts, x, k) BY <3>2, <1>6
    <3> QED BY <3>2, <3>3, <1>2
  <2> HIDE DEF T, step
  <2> QED BY <2>1, <2>2 DEF Passes
<1> HIDE DEF T, step
<1>8. PICK f : PassFrom(f, m, T, PassStart(atts), step) BY <1>7, PassStarted
<1>9. /\ f[0] = PassStart(atts)
      /\ \A k \in 1..m : f[k] = step[k][f[k - 1]]
      /\ \A k \in 0..m : f[k] \in T[k]
  BY <1>8 DEF PassFrom
<1>10. \A k \in 1..m : f[k] = PassStep(atts, channels, accepts, f[k - 1], k)
  <2> SUFFICES ASSUME NEW k \in 1..m PROVE f[k] = PassStep(atts, channels, accepts, f[k - 1], k) OBVIOUS
  <2>1. k - 1 \in 0..m OBVIOUS
  <2>2. f[k - 1] \in Stage(k - 1) BY <2>1, <1>4, <1>9
  <2> QED BY <2>2, <1>6, <1>9
<1>11. PICK g : g = [k \in 0..m |-> IF k = 0 THEN PassStart(atts)
                                    ELSE PassStep(atts, channels, accepts, f[k - 1], k)]
  OBVIOUS
<1>12. \A k \in 0..m : g[k] = f[k]
  <2> SUFFICES ASSUME NEW k \in 0..m PROVE g[k] = f[k] OBVIOUS
  <2>1. CASE k = 0 BY <2>1, <1>9, <1>11
  <2>2. CASE k # 0 BY <2>2, <1>10, <1>11
  <2> QED BY <2>1, <2>2
<1>13. IsPass(g, atts, channels, accepts)
  <2>1. \A k \in 0..m : k # 0 => g[k - 1] = f[k - 1] BY <1>12
  <2>2. g = [k \in 0..m |-> IF k = 0 THEN PassStart(atts)
                            ELSE PassStep(atts, channels, accepts, g[k - 1], k)]
    BY <1>11, <2>1
  <2> QED BY <2>2, <1>1 DEF IsPass
<1>14. PICK h : h = (CHOOSE x : IsPass(x, atts, channels, accepts)) OBVIOUS
<1>15. IsPass(h, atts, channels, accepts) BY <1>13, <1>14, Zenon
<1>16. h[0] = PassStart(atts) /\ \A k \in 1..m : h[k] = PassStep(atts, channels, accepts, h[k - 1], k)
  BY <1>1, <1>15 DEF IsPass
<1>17. \A k \in 1..m : h[k - 1] = f[k - 1] => h[k] = f[k] BY <1>10, <1>16
<1>18. h[0] = f[0] BY <1>9, <1>16
<1>19. \A k \in 0..m : h[k] = f[k] BY <1>17, <1>18, PassesAgree
<1>20. h[m] \in Stage(m)
  <2>1. m \in 0..m OBVIOUS
  <2> QED BY <2>1, <1>4, <1>9, <1>19
<1>21. Pass(atts, channels, accepts) \in Stage(m) BY <1>1, <1>14, <1>20, PassIsPass
<1> QED BY <1>1, <1>5, <1>21

-----------------------------------------------------------------------------
(* The actions.                                                            *)

QueueWith(atts, dd, ups) == [attempts |-> atts, dedupe |-> dd, followUps |-> ups]

\* Nothing but the clock decides whether what is kept is kept.
LEMMA KeptUnprimed ==
    ASSUME hour' = hour, NEW atts, NEW dd, NEW ups, NEW budget, NEW log, NEW ss,
           attempts' = atts, dedupe' = dd, followUps' = ups, channelBudget' = budget,
           sendLog' = log, sends' = ss, QueueKept(QueueWith(atts, dd, ups)), Within(atts, budget, log, ss)
    PROVE  QueueKept(Queues)' /\ Within(attempts, channelBudget, sendLog, sends)'
<1>1. Queues' = QueueWith(atts, dd, ups) BY DEF Queues, QueueWith
<1>2. \A q : QueueKept(q)' <=> QueueKept(q)
  <2>1. ASSUME NEW q PROVE QueueKept(q)' <=> QueueKept(q) BY DEF QueueKept, Apart
  <2> QED BY <2>1
<1>3. QueueKept(Queues)' BY <1>1, <1>2
<1>4. Within(attempts, channelBudget, sendLog, sends)' BY DEF Within
<1> QED BY <1>3, <1>4

\* A change of a contact keeps the contacts, and leaves the queue alone.
LEMMA ContactsChangedKeep ==
    ASSUME OutreachInv,
           \/ \E c \in Contacts, granted \in BOOLEAN, channels \in {{}, Channels} :
                 upsertContact(c, granted, channels)
           \/ \E c \in Contacts : suppress(c)
           \/ \E c \in Contacts, granted \in BOOLEAN : setConsent(c, granted)
    PROVE  ContactsKept' /\ UNCHANGED <<attempts, dedupe, followUps, channelBudget, sendLog, hour, sends>>
<1>1. ContactsKept BY DEF OutreachInv
<1>2. ASSUME NEW c \in Contacts, NEW granted \in BOOLEAN, NEW channels \in {{}, Channels},
             upsertContact(c, granted, channels)
      PROVE  ContactsKept' /\ UNCHANGED <<attempts, dedupe, followUps, channelBudget, sendLog, hour, sends>>
  BY <1>1, <1>2 DEF ContactsKept, upsertContact, Refusing
<1>3. ASSUME NEW c \in Contacts, suppress(c)
      PROVE  ContactsKept' /\ UNCHANGED <<attempts, dedupe, followUps, channelBudget, sendLog, hour, sends>>
  BY <1>1, <1>3 DEF ContactsKept, suppress
<1>4. ASSUME NEW c \in Contacts, NEW granted \in BOOLEAN, setConsent(c, granted)
      PROVE  ContactsKept' /\ UNCHANGED <<attempts, dedupe, followUps, channelBudget, sendLog, hour, sends>>
  BY <1>1, <1>4 DEF ContactsKept, setConsent, Refusing
<1> QED BY <1>2, <1>3, <1>4

\* What the outreach invariant says of the types.
LEMMA OutreachTypes ==
    ASSUME OutreachInv
    PROVE  /\ attempts \in Seq(SendAttemptRecords) /\ dedupe \in [Messages -> Nat]
           /\ followUps \in Seq(FollowUpRecords)
           /\ hour \in Nat /\ hour \in 0..OutreachEnd
           /\ Queues = QueueWith(attempts, dedupe, followUps)
           /\ Apart(attempts, dedupe)
           /\ \A f \in DOMAIN followUps : followUps[f].parent \in DOMAIN attempts
<1>1. QueueKept(Queues) /\ ContactsKept BY DEF OutreachInv
<1>2. Queues \in QueueRecords BY <1>1 DEF QueueKept
<1>3. Queues.attempts = attempts /\ Queues.dedupe = dedupe /\ Queues.followUps = followUps BY DEF Queues
<1>4. /\ Queues.attempts \in Seq(SendAttemptRecords) /\ Queues.dedupe \in [Messages -> Nat]
      /\ Queues.followUps \in Seq(FollowUpRecords)
  BY <1>2 DEF QueueRecords
<1>5. Apart(attempts, dedupe) /\ \A f \in DOMAIN followUps : followUps[f].parent \in DOMAIN attempts
  BY <1>1, <1>3 DEF QueueKept
<1> QED BY <1>1, <1>3, <1>4, <1>5, OutreachAssumption DEF ContactsKept, Queues, QueueWith

\* A queue that only grew stays within the limits.
LEMMA LongerStaysWithin ==
    ASSUME NEW old \in Seq(SendAttemptRecords), NEW new \in Seq(SendAttemptRecords), Longer(old, new),
           NEW budget, NEW log, NEW ss, Within(old, budget, log, ss)
    PROVE  Within(new, budget, log, ss)
<1>1. DOMAIN old \subseteq DOMAIN new BY DEF Longer
<1>2. \A i \in DOMAIN old : new[i].message = old[i].message /\ new[i].tries = old[i].tries
  <2>1. \A i \in DOMAIN old : new[i] = old[i] BY DEF Longer
  <2> QED BY <2>1
<1>3. \A i \in DOMAIN new : i \in DOMAIN old \/ new[i].tries = 0 BY DEF Longer
<1> QED BY <1>1, <1>2, <1>3, WithinTold

\* An enqueued message keeps the outreach invariant.
LEMMA EnqueueingKeeps ==
    ASSUME OutreachInv, NEW m \in Messages, NEW due \in 0..(OutreachEnd + 1), enqueueMessage(m, due)
    PROVE  OutreachInv'
<1>1. PICK q : q = Enqueued(Queues, m, due) OBVIOUS
<1>2. QueueKept(Queues) /\ hour \in 0..OutreachEnd BY OutreachTypes DEF OutreachInv
<1>3. QueueKept(q) /\ Longer(Queues.attempts, q.attempts) /\ q.followUps = Queues.followUps
  BY <1>1, <1>2, EnqueuedKeeps
<1>4. Queues.attempts = attempts /\ Queues.followUps = followUps BY DEF Queues
<1>5. PICK new \in Seq(SendAttemptRecords), dd \in [Messages -> Nat] :
         new = q.attempts /\ dd = q.dedupe /\ q = QueueWith(new, dd, followUps)
  BY <1>3, <1>4 DEF QueueKept, QueueRecords, QueueWith
<1>6. Within(new, channelBudget, sendLog, sends)
  <2>1. Longer(attempts, new) BY <1>3, <1>4, <1>5
  <2>2. attempts \in Seq(SendAttemptRecords) BY OutreachTypes
  <2>3. Within(attempts, channelBudget, sendLog, sends) BY DEF OutreachInv
  <2> QED BY <2>1, <2>2, <2>3, LongerStaysWithin
<1>7. /\ attempts' = new /\ dedupe' = dd
      /\ UNCHANGED <<contacts, followUps, channelBudget, sendLog, hour, optedOut, refused, sends>>
  BY <1>1, <1>5 DEF enqueueMessage
<1>8. QueueKept(Queues)' /\ Within(attempts, channelBudget, sendLog, sends)'
  <2>1. QueueKept(QueueWith(new, dd, followUps)) BY <1>3, <1>5
  <2> QED BY <2>1, <1>6, <1>7, KeptUnprimed
<1>9. ContactsKept' BY <1>7 DEF OutreachInv, ContactsKept
<1> QED BY <1>7, <1>8, <1>9 DEF OutreachInv

\* A scheduled follow-up keeps the outreach invariant.
LEMMA SchedulingKeeps ==
    ASSUME OutreachInv, NEW i \in DOMAIN attempts, NEW m \in Messages, scheduleFollowUp(i, m, 1)
    PROVE  OutreachInv'
<1>1. /\ attempts \in Seq(SendAttemptRecords) /\ dedupe \in [Messages -> Nat]
      /\ followUps \in Seq(FollowUpRecords) /\ Apart(attempts, dedupe)
      /\ \A f \in DOMAIN followUps : followUps[f].parent \in DOMAIN attempts
  BY OutreachTypes
<1>2. PICK up : up = [parent |-> i, message |-> m, delay |-> 1, state |-> "contingent"] OBVIOUS
<1>3. up \in FollowUpRecords /\ up.parent = i BY <1>1, <1>2 DEF FollowUpRecords
<1>4. PICK ups : ups = Append(followUps, up) OBVIOUS
<1>5. ups \in Seq(FollowUpRecords) /\ \A f \in DOMAIN ups : ups[f] = up \/ (f \in DOMAIN followUps /\ ups[f] = followUps[f])
  BY <1>1, <1>3, <1>4
<1>6. \A f \in DOMAIN ups : ups[f].parent \in DOMAIN attempts
  <2> SUFFICES ASSUME NEW f \in DOMAIN ups PROVE ups[f].parent \in DOMAIN attempts OBVIOUS
  <2>1. CASE ups[f] = up BY <2>1, <1>3
  <2>2. CASE f \in DOMAIN followUps /\ ups[f] = followUps[f]
    <3>1. followUps[f].parent \in DOMAIN attempts BY <2>2, <1>1
    <3> QED BY <3>1, <2>2, Zenon
  <2> QED BY <2>1, <2>2, <1>5
<1>7. QueueKept(QueueWith(attempts, dedupe, ups))
  <2>1. PICK q : q = QueueWith(attempts, dedupe, ups) OBVIOUS
  <2>2. q \in QueueRecords /\ q.attempts = attempts /\ q.dedupe = dedupe /\ q.followUps = ups
    BY <2>1, <1>1, <1>5 DEF QueueWith, QueueRecords
  <2>3. QueueKept(q) BY <2>2, <1>1, <1>6 DEF QueueKept
  <2> QED BY <2>1, <2>3
<1>8. followUps' = ups /\ UNCHANGED <<contacts, attempts, dedupe, channelBudget, sendLog, hour, optedOut, refused, sends>>
  BY <1>2, <1>4 DEF scheduleFollowUp
<1>9. QueueKept(Queues)' /\ Within(attempts, channelBudget, sendLog, sends)'
  <2>1. Within(attempts, channelBudget, sendLog, sends) BY DEF OutreachInv
  <2> QED BY <2>1, <1>7, <1>8, KeptUnprimed
<1>10. ContactsKept' BY <1>8 DEF OutreachInv, ContactsKept
<1> QED BY <1>8, <1>9, <1>10 DEF OutreachInv

\* The pass begins with what is kept, whatever the follow-ups have added.
LEMMA PassBegins ==
    ASSUME OutreachInv, NEW q, QueueKept(q), Longer(attempts, q.attempts),
           NEW old \in Seq(SendAttemptRecords), NEW dd, old = q.attempts, dd = q.dedupe
    PROVE  PassKept(PassStart(old), dd)
<1>1. Apart(old, dd) BY DEF QueueKept
<1>2. Within(old, channelBudget, sendLog, sends)
  <2>1. Within(attempts, channelBudget, sendLog, sends) BY DEF OutreachInv
  <2> QED BY <2>1, OutreachTypes, LongerStaysWithin
<1>3. PICK s : s = PassStart(old) OBVIOUS
<1>4. s.attempts = old /\ s.budget = channelBudget /\ s.sendLog = sendLog /\ s.sends = sends
  BY <1>3 DEF PassStart
<1>5. s \in PassRecords BY <1>3 DEF PassStart, PassRecords, OutreachInv
<1>6. PassKept(s, dd) BY <1>1, <1>2, <1>4, <1>5 DEF PassKept
<1> QED BY <1>3, <1>6

\* A processed queue keeps the outreach invariant.
LEMMA ProcessingKeeps ==
    ASSUME OutreachInv, NEW channels, NEW accepts, processQueue(channels, accepts)
    PROVE  OutreachInv'
<1>1. PICK q : q = materializeFollowUps OBVIOUS
<1>2. QueueKept(Queues) /\ hour \in 0..OutreachEnd /\ attempts \in Seq(SendAttemptRecords) BY OutreachTypes DEF OutreachInv
<1>3. QueueKept(q) /\ Longer(attempts, q.attempts) BY <1>1, <1>2, FollowUpsKeep
<1>4. PICK old \in Seq(SendAttemptRecords), dd \in [Messages -> Nat], ups \in Seq(FollowUpRecords) :
         old = q.attempts /\ dd = q.dedupe /\ ups = q.followUps
  BY <1>3 DEF QueueKept, QueueRecords
<1>5. Apart(old, dd) /\ \A f \in DOMAIN ups : ups[f].parent \in DOMAIN old
  BY <1>3, <1>4 DEF QueueKept
<1>6. PassKept(PassStart(old), dd) BY <1>3, <1>4, PassBegins
<1>7. PICK s : s = Pass(old, channels, accepts) OBVIOUS
<1>8. ContactsKept BY DEF OutreachInv
<1>9. PassKept(s, dd) /\ Len(s.attempts) = Len(old) BY <1>6, <1>7, <1>8, PassKeeps
<1>10. PICK new \in Seq(SendAttemptRecords), budget \in [Channels \X Days -> Nat],
            log \in [Contacts -> SUBSET LogEntries], ss \in Seq(SendRecords) :
          /\ new = s.attempts /\ budget = s.budget /\ log = s.sendLog /\ ss = s.sends
          /\ Apart(new, dd) /\ Within(new, budget, log, ss)
  BY <1>9 DEF PassKept, PassRecords
<1>11. /\ attempts' = new /\ dedupe' = dd /\ followUps' = ups /\ channelBudget' = budget
       /\ sendLog' = log /\ sends' = ss
       /\ UNCHANGED <<contacts, hour, optedOut, refused>>
  BY <1>1, <1>4, <1>7, <1>10 DEF processQueue
<1>12. QueueKept(QueueWith(new, dd, ups))
  <2>1. PICK x : x = QueueWith(new, dd, ups) OBVIOUS
  <2>2. x \in QueueRecords /\ x.attempts = new /\ x.dedupe = dd /\ x.followUps = ups
    BY <2>1 DEF QueueWith, QueueRecords
  <2>3. DOMAIN new = DOMAIN old BY <1>9, <1>10
  <2>4. QueueKept(x) BY <2>2, <2>3, <1>5, <1>10 DEF QueueKept
  <2> QED BY <2>1, <2>4
<1>13. QueueKept(Queues)' /\ Within(attempts, channelBudget, sendLog, sends)'
  BY <1>10, <1>11, <1>12, KeptUnprimed
<1>14. ContactsKept' BY <1>11 DEF OutreachInv, ContactsKept
<1> QED BY <1>11, <1>13, <1>14 DEF OutreachInv

\* A recorded reply keeps the outreach invariant.
LEMMA RepliesKeep ==
    ASSUME OutreachInv, NEW i \in DOMAIN attempts, recordAttribution(i)
    PROVE  OutreachInv'
<1>1. /\ attempts \in Seq(SendAttemptRecords) /\ dedupe \in [Messages -> Nat]
      /\ followUps \in Seq(FollowUpRecords) /\ Apart(attempts, dedupe)
      /\ \A f \in DOMAIN followUps : followUps[f].parent \in DOMAIN attempts
  BY OutreachTypes
<1>2. PICK a \in SendAttemptRecords : a = attempts[i] BY <1>1
<1>3. PICK b : b = [a EXCEPT !.replied = TRUE] OBVIOUS
<1>4. /\ b \in SendAttemptRecords /\ b.state = a.state /\ b.message = a.message
      /\ b.tries = a.tries /\ b.created = a.created
  BY <1>3 DEF SendAttemptRecords
<1>5. a.state = "sent" BY <1>2 DEF recordAttribution
<1>6. Succeeds(b, attempts, i)
  <2>1. a.tries <= SendTries BY <1>1, <1>2 DEF Apart
  <2> QED BY <2>1, <1>2, <1>4, <1>5 DEF Succeeds
<1>7. PICK new : new = Replaced(attempts, i, b) OBVIOUS
<1>8. /\ Apart(new, dedupe) /\ new \in Seq(SendAttemptRecords) /\ Len(new) = Len(attempts)
      /\ DOMAIN new = DOMAIN attempts /\ new[i] = b
      /\ \A k \in DOMAIN attempts : k # i => new[k] = attempts[k]
      /\ \A k \in DOMAIN attempts : new[k].message = attempts[k].message
  BY <1>1, <1>6, <1>7, ReplacedStaysApart
<1>9. \A k \in DOMAIN attempts : new[k].message = attempts[k].message /\ new[k].tries = attempts[k].tries
  <2> SUFFICES ASSUME NEW k \in DOMAIN attempts PROVE new[k].tries = attempts[k].tries BY <1>8
  <2>1. CASE k = i BY <2>1, <1>2, <1>4, <1>8
  <2>2. CASE k # i
    <3>1. new[k] = attempts[k] BY <2>2, <1>8
    <3> QED BY <3>1, Zenon
  <2> QED BY <2>1, <2>2
<1>10. Within(new, channelBudget, sendLog, sends)
  <2>1. Within(attempts, channelBudget, sendLog, sends) BY DEF OutreachInv
  <2> QED BY <2>1, <1>8, <1>9, WithinTold
<1>11. attempts' = new /\ UNCHANGED <<contacts, dedupe, followUps, channelBudget, sendLog, hour, optedOut, refused, sends>>
  BY <1>2, <1>3, <1>7 DEF recordAttribution, Replaced
<1>12. QueueKept(QueueWith(new, dedupe, followUps))
  <2>1. PICK x : x = QueueWith(new, dedupe, followUps) OBVIOUS
  <2>2. x \in QueueRecords /\ x.attempts = new /\ x.dedupe = dedupe /\ x.followUps = followUps
    BY <2>1, <1>1, <1>8 DEF QueueWith, QueueRecords
  <2>3. QueueKept(x) BY <2>2, <1>1, <1>8 DEF QueueKept
  <2> QED BY <2>1, <2>3
<1>13. QueueKept(Queues)' /\ Within(attempts, channelBudget, sendLog, sends)'
  BY <1>10, <1>11, <1>12, KeptUnprimed
<1>14. ContactsKept' BY <1>11 DEF OutreachInv, ContactsKept
<1> QED BY <1>11, <1>13, <1>14 DEF OutreachInv

\* What was sent within the hour that ends now was sent within the hour before or in it.
LEMMA HourKeeps ==
    ASSUME OutreachInv, hourPasses
    PROVE  OutreachInv'
<1> USE OutreachAssumption
<1>1. /\ attempts \in Seq(SendAttemptRecords) /\ dedupe \in [Messages -> Nat]
      /\ followUps \in Seq(FollowUpRecords) /\ Apart(attempts, dedupe) /\ hour \in Nat /\ hour \in 0..OutreachEnd
      /\ Queues = QueueWith(attempts, dedupe, followUps)
      /\ QueueKept(Queues)
  BY OutreachTypes DEF OutreachInv
<1>2. PICK next \in Nat : next = hour + 1 /\ next \in 0..OutreachEnd BY <1>1 DEF hourPasses
<1>3. hour' = next /\ UNCHANGED <<contacts, attempts, dedupe, followUps, channelBudget, sendLog, optedOut, refused, sends>>
  BY <1>2 DEF hourPasses
<1>4. ContactsKept' BY <1>2, <1>3 DEF ContactsKept, OutreachInv
<1>5. \A i \in DOMAIN attempts : attempts[i].created \in Nat
  <2>1. \A a \in SendAttemptRecords : a.created \in Nat BY DEF SendAttemptRecords
  <2> QED BY <2>1, <1>1
<1>6. Apart(attempts, dedupe)'
  <2>1. \A i \in DOMAIN attempts : attempts[i].created <= next
    <3>1. \A i \in DOMAIN attempts : attempts[i].created <= hour BY <1>1 DEF Apart
    <3> QED BY <3>1, <1>1, <1>2, <1>5
  <2>2. \A i \in DOMAIN attempts : next - attempts[i].created <= Retention => dedupe[attempts[i].message] = i
    <3>1. \A i \in DOMAIN attempts : hour - attempts[i].created <= Retention => dedupe[attempts[i].message] = i
      BY <1>1 DEF Apart
    <3> QED BY <3>1, <1>1, <1>2, <1>5
  <2> QED BY <2>1, <2>2, <1>1, <1>3 DEF Apart
<1>7. QueueKept(Queues)'
  <2>1. (Queues \in QueueRecords /\ \A f \in DOMAIN Queues.followUps : Queues.followUps[f].parent \in DOMAIN Queues.attempts)'
    BY <1>1, <1>3 DEF QueueKept, Queues
  <2>2. Queues'.attempts = attempts' /\ Queues'.dedupe = dedupe' BY DEF Queues
  <2> QED BY <2>1, <2>2, <1>6 DEF QueueKept
<1>8. Within(attempts, channelBudget, sendLog, sends)'
  <2>1. Within(attempts, channelBudget, sendLog, sends) BY DEF OutreachInv
  <2>2. sends \in Seq(SendRecords) BY DEF OutreachInv
  <2>3. \A k \in DOMAIN sends : /\ sends[k].at \in Nat /\ sends[k].attempt \in DOMAIN attempts
                                /\ sends[k].at <= hour /\ ~sends[k].optedOut
    <3>1. \A e \in SendRecords : e.at \in Nat BY DEF SendRecords
    <3> QED BY <3>1, <2>1, <2>2 DEF Within
  <2>4. \A k \in DOMAIN sends : sends[k].at <= next BY <2>3, <1>1, <1>2
  <2>5. \A k \in DOMAIN sends, c \in Contacts :
           ContactOf[attempts[sends[k].attempt].message] = c /\ sends[k].at > next - Hour
              => [nth |-> k, at |-> sends[k].at] \in sendLog[c]
    <3> SUFFICES ASSUME NEW k \in DOMAIN sends, NEW c \in Contacts,
                        ContactOf[attempts[sends[k].attempt].message] = c, sends[k].at > next - Hour
                 PROVE  [nth |-> k, at |-> sends[k].at] \in sendLog[c]
      OBVIOUS
    <3>1. sends[k].at > hour - Hour BY <2>3, <1>1, <1>2
    <3> QED BY <3>1, <2>1 DEF Within
  <2>6. ASSUME NEW c \in Contacts, NEW t \in 0..next
        PROVE  Cardinality(HourSends(attempts, sends, c, t)) <= HourlyCap
    <3>1. CASE t \in 0..hour BY <3>1, <2>1 DEF Within
    <3>2. CASE t \notin 0..hour
      <4>1. t = next BY <3>2, <1>1, <1>2
      <4>2. PICK A, B : A = HourSends(attempts, sends, c, t) /\ B = HourSends(attempts, sends, c, hour) OBVIOUS
      <4>3. A \subseteq B
        <5> SUFFICES ASSUME NEW k \in A PROVE k \in B OBVIOUS
        <5>1. /\ k \in DOMAIN sends /\ ContactOf[attempts[sends[k].attempt].message] = c
              /\ sends[k].at > next - Hour
          BY <4>1, <4>2 DEF HourSends
        <5>2. sends[k].at <= hour /\ sends[k].at > hour - Hour BY <5>1, <2>3, <1>1, <1>2
        <5> QED BY <5>1, <5>2, <4>2 DEF HourSends
      <4>4. IsFiniteSet(B)
        <5>1. PICK n \in Nat : DOMAIN sends = 1..n BY <2>2
        <5>2. B \subseteq 1..n BY <4>2, <5>1 DEF HourSends
        <5>3. IsFiniteSet(1..n) BY FS_Interval
        <5> QED BY <5>2, <5>3, FS_Subset
      <4>5. Cardinality(A) <= Cardinality(B) /\ Cardinality(A) \in Nat /\ Cardinality(B) \in Nat
        <5>1. IsFiniteSet(A) /\ Cardinality(A) <= Cardinality(B) BY <4>3, <4>4, FS_Subset
        <5> QED BY <5>1, <4>4, FS_CardinalityType
      <4>6. hour \in 0..hour BY <1>1
      <4>7. Cardinality(HourSends(attempts, sends, c, hour)) <= HourlyCap BY <4>6, <2>1 DEF Within
      <4> QED BY <4>2, <4>5, <4>7
    <3> QED BY <3>1, <3>2
  <2>7. /\ \A i \in DOMAIN attempts : Cardinality(TriesOf(sends, i)) = attempts[i].tries
        /\ \A ch \in Channels, day \in Days :
              /\ Cardinality(DaySends(attempts, sends, ch, day)) = channelBudget[<<ch, day>>]
              /\ channelBudget[<<ch, day>>] <= DailyBudget
        /\ \A c \in Contacts : IsFiniteSet(sendLog[c])
    BY <2>1 DEF Within
  <2> QED BY <2>3, <2>4, <2>5, <2>6, <2>7, <1>3 DEF Within
<1> QED BY <1>3, <1>4, <1>7, <1>8 DEF OutreachInv

\* Every step of outreach keeps its invariant.
LEMMA OutreachStepInv == OutreachInv /\ [OutreachNext]_outreachVars => OutreachInv'
<1> SUFFICES ASSUME OutreachInv, [OutreachNext]_outreachVars PROVE OutreachInv' OBVIOUS
<1>1. ASSUME ContactsKept', UNCHANGED <<attempts, dedupe, followUps, channelBudget, sendLog, hour, sends>>
      PROVE  OutreachInv'
  <2>1. QueueKept(Queues)' /\ Within(attempts, channelBudget, sendLog, sends)'
    <3>1. QueueKept(QueueWith(attempts, dedupe, followUps)) BY OutreachTypes DEF OutreachInv
    <3>2. Within(attempts, channelBudget, sendLog, sends) BY DEF OutreachInv
    <3> QED BY <3>1, <3>2, <1>1, KeptUnprimed
  <2> QED BY <2>1, <1>1 DEF OutreachInv
<1>2. CASE UNCHANGED outreachVars
  <2>1. ContactsKept' BY <1>2 DEF outreachVars, ContactsKept, OutreachInv
  <2> QED BY <2>1, <1>1, <1>2 DEF outreachVars
<1>3. CASE \/ \E c \in Contacts, granted \in BOOLEAN, channels \in {{}, Channels} :
                 upsertContact(c, granted, channels)
           \/ \E c \in Contacts : suppress(c)
           \/ \E c \in Contacts, granted \in BOOLEAN : setConsent(c, granted)
  BY <1>1, <1>3, ContactsChangedKeep
<1>4. CASE \E m \in Messages, due \in {0, hour + 1} : enqueueMessage(m, due)
  <2>1. PICK m \in Messages, due \in {0, hour + 1} : enqueueMessage(m, due) BY <1>4
  <2>2. due \in 0..(OutreachEnd + 1) BY OutreachTypes, OutreachAssumption
  <2> QED BY <2>1, <2>2, EnqueueingKeeps
<1>5. CASE \E i \in DOMAIN attempts, m \in Messages : scheduleFollowUp(i, m, 1)
  BY <1>5, SchedulingKeeps
<1>6. CASE \E channels \in {Channels} \cup {{ch} : ch \in Channels}, accepts \in SUBSET (1..SendAttempts) :
              processQueue(channels, accepts)
  BY <1>6, ProcessingKeeps
<1>7. CASE \E i \in DOMAIN attempts : recordAttribution(i) BY <1>7, RepliesKeep
<1>8. CASE hourPasses BY <1>8, HourKeeps
<1> QED BY <1>2, <1>3, <1>4, <1>5, <1>6, <1>7, <1>8 DEF OutreachNext

\* The outreach invariant says that the limits are kept.
LEMMA OutreachInvTells == OutreachInv => OutreachKeepsLimits
<1> SUFFICES ASSUME OutreachInv PROVE OutreachKeepsLimits OBVIOUS
<1>1. Within(attempts, channelBudget, sendLog, sends) /\ Apart(attempts, dedupe)
  BY OutreachTypes DEF OutreachInv
<1>2. SendsWithinCaps
  <2>1. ASSUME NEW c \in Contacts, NEW t \in 0..hour PROVE Cardinality(SentInHour(c, t)) <= HourlyCap
    <3>1. \A k : k \in SentInHour(c, t) <=> k \in HourSends(attempts, sends, c, t)
      BY DEF SentInHour, HourSends
    <3>2. Cardinality(SentInHour(c, t)) = Cardinality(HourSends(attempts, sends, c, t)) BY <3>1, CountsAgree
    <3> QED BY <3>2, <1>1 DEF Within
  <2>2. ASSUME NEW ch \in Channels, NEW day \in Days PROVE Cardinality(SentOnDay(ch, day)) <= DailyBudget
    <3>1. \A k : k \in SentOnDay(ch, day) <=> k \in DaySends(attempts, sends, ch, day)
      BY DEF SentOnDay, DaySends
    <3>2. Cardinality(SentOnDay(ch, day)) = Cardinality(DaySends(attempts, sends, ch, day)) BY <3>1, CountsAgree
    <3> QED BY <3>2, <1>1 DEF Within
  <2> QED BY <2>1, <2>2 DEF SendsWithinCaps
<1>3. NothingAfterOptOut BY <1>1 DEF Within, NothingAfterOptOut
<1>4. DuplicatesAreApart
  <2>1. ASSUME NEW i \in DOMAIN attempts
        PROVE  Cardinality({k \in DOMAIN sends : sends[k].attempt = i}) <= SendTries
    <3>1. Cardinality(TriesOf(sends, i)) = attempts[i].tries BY <1>1 DEF Within
    <3>2. attempts[i].tries <= SendTries BY <1>1 DEF Apart
    <3> QED BY <3>1, <3>2 DEF TriesOf
  <2>2. \A i, k \in DOMAIN attempts :
           i < k /\ attempts[i].message = attempts[k].message =>
              attempts[k].created - attempts[i].created > Retention
    BY <1>1 DEF Apart
  <2> QED BY <2>1, <2>2 DEF DuplicatesAreApart
<1> QED BY <1>2, <1>3, <1>4 DEF OutreachKeepsLimits

\* Theorem: no contact is sent to more often than its hourly cap, no channel
\* carries more than its daily budget, nobody hears of us after opting out and no
\* message is enqueued twice within the retention, for every timing of retries,
\* follow-ups and replies.
THEOREM LimitsOnOutreachHold == OutreachSpec => []OutreachKeepsLimits
<1>1. OutreachInit => OutreachInv BY OutreachStarts
<1>2. OutreachInv /\ [OutreachNext]_outreachVars => OutreachInv' BY OutreachStepInv
<1>3. OutreachInv => OutreachKeepsLimits BY OutreachInvTells
<1> QED BY <1>1, <1>2, <1>3, PTL DEF OutreachSpec

-----------------------------------------------------------------------------
(* The event bus.                                                          *)

CallRecords == [event : Nat, handler : Handlers, tries : Nat, delivered : BOOLEAN, nth : Nat]
Walks == [place : Nat \ {0}, present : SUBSET Handlers, dropped : BOOLEAN]
FailedOf(called) == {r \in called : ~r.delivered}
LaterThan(called, r) == {q \in FailedOf(called) : q.nth > r.nth}
Letters == [event : Nat, handler : Handlers]

\* The dead letters are the latest failures, each in the place that says how many came after.
LettersKept(letters, called) ==
    /\ letters \in Seq(Letters)
    /\ Len(letters) = (IF Cardinality(FailedOf(called)) < DeadLetterRoom
                       THEN Cardinality(FailedOf(called)) ELSE DeadLetterRoom)
    /\ \A k \in DOMAIN letters : \E r \in FailedOf(called) :
          /\ letters[k] = [event |-> r.event, handler |-> r.handler]
          /\ Cardinality(LaterThan(called, r)) = Len(letters) - k

\* While nobody leaves, the places that were walked over are those who were called.
WalkKept(subs, called, n, d) ==
    /\ d.place <= Len(subs) + 1 /\ ~d.dropped
    /\ \A h \in d.present : \E k \in DOMAIN subs : subs[k] = h
    /\ \A k \in DOMAIN subs : k < d.place => \E r \in called : r.event = n /\ r.handler = subs[k]
    /\ \A r \in called : r.event = n => \E k \in DOMAIN subs : k < d.place /\ subs[k] = r.handler

\* Handlers are subscribed once, each is called once for an event unless one left meanwhile,
\* and the dead letters are the latest failures.
BusInv ==
    /\ subscribers \in Seq(Handlers)
    /\ \A i, k \in DOMAIN subscribers : subscribers[i] = subscribers[k] => i = k
    /\ published \in Nat
    /\ reached \subseteq CallRecords /\ IsFiniteSet(reached)
    /\ \A r \in reached : r.event <= published /\ r.nth <= Cardinality(reached)
    /\ \A q, r \in reached :
          q.event = r.event /\ q.handler = r.handler /\ q # r => q.event \in disturbed
    /\ LettersKept(busLetters, reached)
    /\ delivering \subseteq Walks
    /\ \A d, e \in delivering : d = e
    /\ \A d \in delivering : published \notin disturbed => WalkKept(subscribers, reached, published, d)

\* The event bus starts within its invariant.
LEMMA BusStarts == BusInit => BusInv
<1> SUFFICES ASSUME BusInit PROVE BusInv OBVIOUS
<1> USE BusAssumption
<1>1. LettersKept(busLetters, reached)
  <2>1. FailedOf(reached) = {} BY DEF BusInit, FailedOf
  <2>2. Cardinality({}) = 0 BY FS_EmptySet
  <2>3. Cardinality(FailedOf(reached)) = 0 BY <2>1, <2>2, Zenon
  <2> QED BY <2>3 DEF LettersKept, BusInit
<1>2. IsFiniteSet({}) BY FS_EmptySet
<1> QED BY <1>1, <1>2 DEF BusInit, BusInv

\* A subscription keeps the bus's invariant.
LEMMA SubscribingKeeps == ASSUME BusInv, NEW h \in Handlers, subscribe(h) PROVE BusInv'
<1>1. PICK subs \in Seq(Handlers), n \in Nat : subs = subscribers /\ n = Len(subs) /\ DOMAIN subs = 1..n
  BY DEF BusInv
<1>2. \A i \in 1..n : subs[i] # h BY <1>1 DEF subscribe, Contains
<1>b. Append(subs, h) \in Seq(Handlers) OBVIOUS
<1>3. PICK new \in Seq(Handlers) : new = Append(subs, h) BY <1>b
<1>4. DOMAIN new = 1..(n + 1) /\ new[n + 1] = h /\ \A i \in 1..n : new[i] = subs[i] BY <1>1, <1>3
<1>5. \A i \in 1..(n + 1) : i \in 1..n \/ i = n + 1 OBVIOUS
<1>6. \A i, k \in DOMAIN new : new[i] = new[k] => i = k
  <2>1. \A i, k \in 1..n : subs[i] = subs[k] => i = k BY <1>1 DEF BusInv
  <2> QED BY <2>1, <1>2, <1>4, <1>5
<1>7. ASSUME NEW d \in delivering, published \notin disturbed PROVE WalkKept(new, reached, published, d)
  <2>1. WalkKept(subs, reached, published, d) BY <1>1, <1>7 DEF BusInv
  <2>2. d.place \in Nat
    <3>1. \A w \in Walks : w.place \in Nat BY DEF Walks
    <3> QED BY <3>1 DEF BusInv
  <2>3. ASSUME NEW k \in DOMAIN new, k < d.place
        PROVE  \E r \in reached : r.event = published /\ r.handler = new[k]
    <3>1. CASE k \in 1..n BY <2>1, <2>3, <3>1, <1>1, <1>4 DEF WalkKept
    <3>2. CASE k = n + 1
      <4>1. d.place <= n + 1 BY <2>1, <1>1 DEF WalkKept
      <4> QED BY <4>1, <2>2, <2>3, <3>2
    <3> QED BY <3>1, <3>2, <1>4, <1>5
  <2>4. d.place <= Len(new) + 1 BY <2>1, <2>2, <1>1, <1>4 DEF WalkKept
  <2> QED BY <2>1, <2>3, <2>4, <1>1, <1>4 DEF WalkKept
<1>8. /\ subscribers' = new /\ UNCHANGED <<busLetters, delivering, published, reached, disturbed>>
  BY <1>1, <1>3 DEF subscribe
<1> QED BY <1>6, <1>7, <1>8 DEF BusInv

\* A subscription dropped, even in the middle of a walk, keeps the bus's invariant.
LEMMA UnsubscribingKeeps == ASSUME BusInv, NEW h \in Handlers, unsubscribe(h) PROVE BusInv'
<1>1. PICK subs \in Seq(Handlers), n \in Nat : subs = subscribers /\ n = Len(subs) /\ DOMAIN subs = 1..n
  BY DEF BusInv
<1>2. PICK i \in 1..n : subscribers' = RemoveAt(subs, i) BY <1>1 DEF unsubscribe
<1>3. PICK new : new = RemoveAt(subs, i) OBVIOUS
<1>4. /\ new \in Seq(Handlers) /\ Len(new) = n - 1 /\ DOMAIN new = 1..(n - 1)
      /\ \A k \in 1..(n - 1) : new[k] = IF k < i THEN subs[k] ELSE subs[k + 1]
  <2>1. PICK a : a = SubSeq(subs, 1, i - 1) OBVIOUS
  <2>2. a \in Seq(Handlers) /\ Len(a) = i - 1 /\ \A k \in 1..(i - 1) : a[k] = subs[k] BY <2>1, <1>1
  <2>3. PICK b : b = SubSeq(subs, i + 1, n) OBVIOUS
  <2>4. b \in Seq(Handlers) /\ Len(b) = n - i /\ \A k \in 1..(n - i) : b[k] = subs[k + i] BY <2>3, <1>1
  <2>5. new = a \o b BY <1>1, <1>3, <2>1, <2>3 DEF RemoveAt
  <2>6. new \in Seq(Handlers) /\ Len(new) = n - 1
    <3>1. a \o b \in Seq(Handlers) /\ Len(a \o b) = Len(a) + Len(b) BY <2>2, <2>4
    <3>2. (i - 1) + (n - i) = n - 1 OBVIOUS
    <3> QED BY <3>1, <3>2, <2>2, <2>4, <2>5
  <2>7. ASSUME NEW k \in 1..(n - 1) PROVE new[k] = IF k < i THEN subs[k] ELSE subs[k + 1]
    <3>1. CASE k < i
      <4>1. k \in 1..(i - 1) /\ new[k] = a[k] BY <3>1, <2>2, <2>4, <2>5
      <4> QED BY <4>1, <3>1, <2>2
    <3>2. CASE ~(k < i)
      <4>1. k - (i - 1) \in 1..(n - i) /\ new[k] = b[k - (i - 1)] BY <3>2, <2>2, <2>4, <2>5
      <4>2. (k - (i - 1)) + i = k + 1 OBVIOUS
      <4>3. b[k - (i - 1)] = subs[(k - (i - 1)) + i] BY <4>1, <2>4
      <4> QED BY <4>1, <4>2, <4>3, <3>2
    <3> QED BY <3>1, <3>2
  <2> QED BY <2>6, <2>7
<1>5. ASSUME NEW j \in DOMAIN new, NEW k \in DOMAIN new, new[j] = new[k] PROVE j = k
  <2>1. PICK x \in 1..n, y \in 1..n :
           x = (IF j < i THEN j ELSE j + 1) /\ y = (IF k < i THEN k ELSE k + 1)
    BY <1>4
  <2>2. new[j] = subs[x] /\ new[k] = subs[y] BY <1>4, <2>1
  <2>3. \A u, v \in 1..n : subs[u] = subs[v] => u = v BY <1>1 DEF BusInv
  <2>4. x = y BY <1>5, <2>2, <2>3
  <2> QED BY <2>1, <2>4, <1>4
<1>6. PICK ds : ds = {[d EXCEPT !.dropped = d.dropped \/ Len(subscribers) = 1] : d \in delivering} OBVIOUS
<1>7. ds \subseteq Walks
  <2> SUFFICES ASSUME NEW d \in delivering
               PROVE  [d EXCEPT !.dropped = d.dropped \/ Len(subscribers) = 1] \in Walks
    BY <1>6
  <2>1. d \in Walks BY DEF BusInv
  <2>2. (d.dropped \/ Len(subscribers) = 1) \in BOOLEAN OBVIOUS
  <2> QED BY <2>1, <2>2 DEF Walks
<1>8. \A d, e \in ds : d = e BY <1>6 DEF BusInv
<1>9. /\ subscribers' = new /\ delivering' = ds /\ UNCHANGED <<busLetters, published, reached>>
      /\ disturbed' = IF delivering = {} THEN disturbed ELSE disturbed \cup {published}
  BY <1>2, <1>3, <1>6 DEF unsubscribe
<1>10. \A d \in ds : published \in disturbed' BY <1>6, <1>9
<1>11. \A q, r \in reached :
          q.event = r.event /\ q.handler = r.handler /\ q # r => q.event \in disturbed'
  BY <1>9 DEF BusInv
<1>12. /\ published \in Nat /\ reached \subseteq CallRecords /\ IsFiniteSet(reached)
       /\ \A r \in reached : r.event <= published /\ r.nth <= Cardinality(reached)
       /\ LettersKept(busLetters, reached)
  BY DEF BusInv
<1> QED BY <1>4, <1>5, <1>7, <1>8, <1>9, <1>10, <1>11, <1>12 DEF BusInv

\* A published event keeps the bus's invariant.
LEMMA PublishingKeeps == ASSUME BusInv, publishEvent PROVE BusInv'
<1>1. PICK d : d = [place |-> 1, present |-> ToSet(subscribers), dropped |-> FALSE] OBVIOUS
<1>2. PICK n \in Nat : n = published + 1 BY DEF BusInv
<1>3. delivering' = {d} /\ published' = n /\ UNCHANGED <<subscribers, busLetters, reached, disturbed>>
  BY <1>1, <1>2 DEF publishEvent
<1>4. subscribers \in Seq(Handlers) /\ published \in Nat BY DEF BusInv
<1>5. d \in Walks /\ d.place = 1 /\ d.present = ToSet(subscribers) /\ ~d.dropped
  BY <1>1, <1>4 DEF Walks, ToSet
<1>6. \A r \in reached : r.event <= n /\ r.event # n
  <2>1. \A r \in CallRecords : r.event \in Nat BY DEF CallRecords
  <2> QED BY <2>1, <1>2, <1>4 DEF BusInv
<1>7. WalkKept(subscribers, reached, n, d)
  <2>1. \A h \in d.present : \E k \in DOMAIN subscribers : subscribers[k] = h BY <1>5 DEF ToSet
  <2>2. d.place <= Len(subscribers) + 1 /\ \A k \in DOMAIN subscribers : ~(k < d.place) BY <1>4, <1>5
  <2> QED BY <2>1, <2>2, <1>5, <1>6 DEF WalkKept
<1>8. /\ \A i, k \in DOMAIN subscribers : subscribers[i] = subscribers[k] => i = k
      /\ reached \subseteq CallRecords /\ IsFiniteSet(reached)
      /\ \A r \in reached : r.nth <= Cardinality(reached)
      /\ \A q, r \in reached :
            q.event = r.event /\ q.handler = r.handler /\ q # r => q.event \in disturbed
      /\ LettersKept(busLetters, reached)
  BY DEF BusInv
<1> QED BY <1>2, <1>3, <1>4, <1>5, <1>6, <1>7, <1>8 DEF BusInv

\* A publication that returns keeps the bus's invariant.
LEMMA ReturningKeeps == ASSUME BusInv, publishReturns PROVE BusInv'
<1>1. delivering' = {} /\ UNCHANGED <<subscribers, busLetters, published, reached, disturbed>>
  BY DEF publishReturns
<1> QED BY <1>1 DEF BusInv

\* The new failure is later than all, so that one more came after each of the others.
LEMMA QuarantineKeeps ==
    ASSUME NEW called \in SUBSET CallRecords, IsFiniteSet(called), LettersKept(busLetters, called),
           NEW e \in CallRecords, ~e.delivered, \A r \in called : r.nth < e.nth,
           NEW letters, letters = Quarantined([event |-> e.event, handler |-> e.handler])
    PROVE  LettersKept(letters, called \cup {e})
<1> USE BusAssumption
<1>1. PICK old \in Seq(Letters), n \in Nat : old = busLetters /\ n = Len(old) /\ DOMAIN old = 1..n
  BY DEF LettersKept
<1>2. PICK A, B : A = FailedOf(called) /\ B = FailedOf(called \cup {e}) OBVIOUS
<1>3. e \notin called /\ e \notin A /\ B = A \cup {e}
  <2>1. \A r \in CallRecords : r.nth \in Nat BY DEF CallRecords
  <2>2. e \notin called BY <2>1
  <2>3. \A r : r \in B <=> r \in A \/ r = e BY <1>2 DEF FailedOf
  <2> QED BY <2>2, <2>3, <1>2 DEF FailedOf
<1>4. IsFiniteSet(A) /\ Cardinality(A) \in Nat /\ Cardinality(B) = Cardinality(A) + 1
  <2>1. A \subseteq called BY <1>2 DEF FailedOf
  <2>2. IsFiniteSet(A) BY <2>1, FS_Subset
  <2>3. Cardinality(A \cup {e}) = Cardinality(A) + 1 BY <2>2, <1>3, FS_AddElement
  <2>4. Cardinality(B) = Cardinality(A) + 1 BY <2>3, <1>3, Zenon
  <2> QED BY <2>2, <2>4, FS_CardinalityType
<1>5. n = (IF Cardinality(A) < DeadLetterRoom THEN Cardinality(A) ELSE DeadLetterRoom)
  BY <1>1, <1>2 DEF LettersKept
<1>6. PICK x : x = [event |-> e.event, handler |-> e.handler] OBVIOUS
<1>7. x \in Letters BY <1>6 DEF Letters, CallRecords
<1>8. PICK kept : kept = IF n >= DeadLetterRoom THEN Tail(old) ELSE old OBVIOUS
<1>9. PICK m \in Nat, shift \in {0, 1} :
         /\ m = n - shift /\ shift = (IF n >= DeadLetterRoom THEN 1 ELSE 0)
         /\ kept \in Seq(Letters) /\ Len(kept) = m /\ DOMAIN kept = 1..m
         /\ \A k \in 1..m : kept[k] = old[k + shift] /\ k + shift \in 1..n
  <2>1. CASE n >= DeadLetterRoom
    <3>1. n >= 1 /\ kept = Tail(old) BY <2>1, <1>8
    <3>2. /\ kept \in Seq(Letters) /\ Len(kept) = n - 1 /\ DOMAIN kept = 1..(n - 1)
          /\ \A k \in 1..(n - 1) : kept[k] = old[k + 1]
      BY <3>1, <1>1
    <3>3. n - 1 \in Nat /\ \A k \in 1..(n - 1) : k + 1 \in 1..n BY <3>1
    <3> QED BY <2>1, <3>2, <3>3
  <2>2. CASE ~(n >= DeadLetterRoom)
    <3>1. kept = old BY <2>2, <1>8
    <3> QED BY <2>2, <3>1, <1>1
  <2> QED BY <2>1, <2>2
<1>10. letters = Append(kept, x) BY <1>1, <1>6, <1>8 DEF Quarantined
<1>11. /\ letters \in Seq(Letters) /\ Len(letters) = m + 1 /\ DOMAIN letters = 1..(m + 1)
       /\ letters[m + 1] = x /\ \A k \in 1..m : letters[k] = kept[k]
  <2>1. PICK z \in Letters : z = x BY <1>7
  <2>2. PICK ks \in Seq(Letters) : ks = kept /\ Len(ks) = m /\ DOMAIN ks = 1..m BY <1>9
  <2>3. /\ Append(ks, z) \in Seq(Letters) /\ Len(Append(ks, z)) = m + 1 /\ DOMAIN Append(ks, z) = 1..(m + 1)
        /\ Append(ks, z)[m + 1] = z /\ \A k \in 1..m : Append(ks, z)[k] = ks[k]
    BY <2>2
  <2>4. letters = Append(ks, z) BY <1>10, <2>1, <2>2
  <2> QED BY <2>1, <2>2, <2>3, <2>4
<1>12. m + 1 = (IF Cardinality(B) < DeadLetterRoom THEN Cardinality(B) ELSE DeadLetterRoom)
  BY <1>4, <1>5, <1>9
<1>13. ASSUME NEW k \in 1..(m + 1)
       PROVE  \E r \in B : /\ letters[k] = [event |-> r.event, handler |-> r.handler]
                           /\ Cardinality(LaterThan(called \cup {e}, r)) = (m + 1) - k
  <2>1. CASE k = m + 1
    <3>1. LaterThan(called \cup {e}, e) = {}
      <4>1. \A r \in CallRecords : r.nth \in Nat BY DEF CallRecords
      <4>2. \A r \in called \cup {e} : ~(r.nth > e.nth) BY <4>1
      <4> QED BY <4>2 DEF LaterThan, FailedOf
    <3>2. Cardinality({}) = 0 BY FS_EmptySet
    <3>3. Cardinality(LaterThan(called \cup {e}, e)) = 0 BY <3>1, <3>2, Zenon
    <3>4. (m + 1) - k = 0 BY <2>1
    <3>5. e \in B BY <1>3
    <3>6. letters[k] = [event |-> e.event, handler |-> e.handler] BY <2>1, <1>6, <1>11
    <3> QED BY <3>3, <3>4, <3>5, <3>6
  <2>2. CASE k # m + 1
    <3>1. PICK j \in 1..n : j = k + shift /\ k \in 1..m /\ letters[k] = old[j]
      <4>1. k \in 1..m BY <2>2
      <4>2. letters[k] = kept[k] BY <4>1, <1>11
      <4>3. kept[k] = old[k + shift] /\ k + shift \in 1..n BY <4>1, <1>9
      <4> QED BY <4>1, <4>2, <4>3
    <3>2. PICK r \in A : /\ old[j] = [event |-> r.event, handler |-> r.handler]
                         /\ Cardinality(LaterThan(called, r)) = n - j
      BY <3>1, <1>1, <1>2 DEF LettersKept
    <3>3. PICK L, M : L = LaterThan(called, r) /\ M = LaterThan(called \cup {e}, r) OBVIOUS
    <3>4. r \in called /\ e.nth > r.nth
      <4>1. r \in called BY <1>2 DEF FailedOf
      <4>2. \A q \in CallRecords : q.nth \in Nat BY DEF CallRecords
      <4> QED BY <4>1, <4>2
    <3>5. L \subseteq A /\ e \notin L /\ M = L \cup {e}
      <4>1. \A q : q \in M <=> q \in L \/ q = e BY <3>3, <3>4 DEF LaterThan, FailedOf
      <4>2. L \subseteq A BY <3>3, <1>2 DEF LaterThan
      <4> QED BY <4>1, <4>2, <1>3
    <3>6. IsFiniteSet(L) BY <3>5, <1>4, FS_Subset
    <3>7. Cardinality(L \cup {e}) = Cardinality(L) + 1 BY <3>5, <3>6, FS_AddElement
    <3>8. Cardinality(M) = Cardinality(L) + 1 BY <3>5, <3>7, Zenon
    <3>9. Cardinality(M) = (m + 1) - k BY <3>1, <3>2, <3>3, <3>8, <1>9
    <3>10. r \in B BY <1>3
    <3> QED BY <3>1, <3>2, <3>3, <3>9, <3>10
  <2> QED BY <2>1, <2>2
<1> QED BY <1>2, <1>11, <1>12, <1>13 DEF LettersKept

\* A success changes nothing of the failures.
LEMMA SuccessKeepsLetters ==
    ASSUME NEW called, NEW letters, LettersKept(letters, called), NEW e, e.delivered
    PROVE  LettersKept(letters, called \cup {e})
<1>1. FailedOf(called \cup {e}) = FailedOf(called) BY DEF FailedOf
<1>2. Cardinality(FailedOf(called \cup {e})) = Cardinality(FailedOf(called)) BY <1>1, Zenon
<1>3. ASSUME NEW r PROVE Cardinality(LaterThan(called \cup {e}, r)) = Cardinality(LaterThan(called, r))
  <2>1. LaterThan(called \cup {e}, r) = LaterThan(called, r) BY <1>1 DEF LaterThan
  <2> QED BY <2>1, Zenon
<1> QED BY <1>1, <1>2, <1>3 DEF LettersKept

\* A delivery, with its retries and its dead letter, keeps the bus's invariant.
LEMMA DeliveringKeeps ==
    ASSUME BusInv, NEW tries \in 1..BusAttempts, NEW delivered \in BOOLEAN, deliver(tries, delivered)
    PROVE  BusInv'
<1> USE BusAssumption
<1>1. PICK d \in delivering :
         /\ d.place <= Len(subscribers) /\ ~d.dropped
         /\ reached' = reached \cup {[event |-> published, handler |-> subscribers[d.place], tries |-> tries,
                                      delivered |-> delivered, nth |-> Cardinality(reached) + 1]}
         /\ busLetters' = IF delivered THEN busLetters
                          ELSE Quarantined([event |-> published, handler |-> subscribers[d.place]])
         /\ delivering' = {[d EXCEPT !.place = NextPlace(d.place, delivered)]}
  BY DEF deliver
<1>2. UNCHANGED <<subscribers, published, disturbed>> BY DEF deliver
<1>3. PICK subs \in Seq(Handlers), n \in Nat : subs = subscribers /\ n = Len(subs) /\ DOMAIN subs = 1..n
  BY DEF BusInv
<1>4. PICK p \in 1..n : p = d.place
  <2>1. d \in Walks BY DEF BusInv
  <2>2. d.place \in Nat /\ d.place >= 1 BY <2>1 DEF Walks
  <2> QED BY <2>2, <1>1, <1>3
<1>5. /\ reached \subseteq CallRecords /\ IsFiniteSet(reached) /\ published \in Nat
      /\ \A r \in reached : r.event <= published /\ r.nth <= Cardinality(reached)
      /\ \A q, r \in reached :
            q.event = r.event /\ q.handler = r.handler /\ q # r => q.event \in disturbed
      /\ LettersKept(busLetters, reached)
      /\ d \in Walks /\ delivering = {d}
      /\ published \notin disturbed => WalkKept(subs, reached, published, d)
      /\ \A i, k \in 1..n : subs[i] = subs[k] => i = k
  BY <1>3 DEF BusInv
<1>6. PICK count \in Nat : count = Cardinality(reached) BY <1>5, FS_CardinalityType
<1>7. PICK e : e = [event |-> published, handler |-> subs[p], tries |-> tries,
                    delivered |-> delivered, nth |-> count + 1]
  OBVIOUS
<1>8. /\ e \in CallRecords /\ e.event = published /\ e.handler = subs[p] /\ e.nth = count + 1
      /\ e.delivered = delivered
  <2>1. subs[p] \in Handlers /\ tries \in Nat BY <1>3
  <2> QED BY <2>1, <1>5, <1>7 DEF CallRecords
<1>9. reached' = reached \cup {e} BY <1>1, <1>3, <1>4, <1>6, <1>7
<1>10. \A r \in reached : r.nth \in Nat /\ r.event \in Nat /\ r.nth <= count /\ r.nth < e.nth
  <2>1. \A r \in CallRecords : r.nth \in Nat /\ r.event \in Nat BY DEF CallRecords
  <2> QED BY <2>1, <1>5, <1>6, <1>8
<1>11. PICK called : called = reached \cup {e} OBVIOUS
<1>12. called \subseteq CallRecords /\ IsFiniteSet(called) /\ Cardinality(called) = count + 1
  <2>1. e \notin reached BY <1>10
  <2>2. IsFiniteSet(reached \cup {e}) /\ Cardinality(reached \cup {e}) = Cardinality(reached) + 1
    BY <2>1, <1>5, FS_AddElement
  <2>3. IsFiniteSet(called) /\ Cardinality(called) = Cardinality(reached) + 1 BY <2>2, <1>11, Zenon
  <2> QED BY <2>3, <1>5, <1>6, <1>8, <1>11
<1>13. \A r \in called : r.event <= published /\ r.nth <= count + 1
  <2>1. \A r \in reached : r.event <= published /\ r.nth <= count + 1 BY <1>5, <1>10
  <2>2. e.event <= published /\ e.nth <= count + 1 BY <1>5, <1>8
  <2> QED BY <2>1, <2>2, <1>11
<1>14. ASSUME published \notin disturbed, NEW r \in reached, r.event = published PROVE r.handler # subs[p]
  <2>1. WalkKept(subs, reached, published, d) BY <1>5, <1>14
  <2>2. PICK k \in DOMAIN subs : k < d.place /\ subs[k] = r.handler BY <2>1, <1>14 DEF WalkKept
  <2> QED BY <2>2, <1>3, <1>4, <1>5
<1>15. ASSUME NEW q \in called, NEW r \in called, q.event = r.event, q.handler = r.handler, q # r
       PROVE  q.event \in disturbed
  <2>1. CASE q \in reached /\ r \in reached BY <2>1, <1>5, <1>15
  <2>2. CASE q = e
    <3>1. r \in reached /\ r.event = published /\ r.handler = subs[p] BY <2>2, <1>8, <1>11, <1>15
    <3> QED BY <3>1, <2>2, <1>8, <1>14
  <2>3. CASE r = e
    <3>1. q \in reached /\ q.event = published /\ q.handler = subs[p] BY <2>3, <1>8, <1>11, <1>15
    <3> QED BY <3>1, <1>14
  <2> QED BY <2>1, <2>2, <2>3, <1>11
<1>16. PICK letters : letters = busLetters' OBVIOUS
<1>17. LettersKept(letters, called)
  <2>1. CASE delivered
    <3>1. letters = busLetters /\ e.delivered BY <2>1, <1>1, <1>8, <1>16
    <3>2. LettersKept(letters, reached \cup {e}) BY <3>1, <1>5, SuccessKeepsLetters
    <3> QED BY <3>2, <1>11
  <2>2. CASE ~delivered
    <3>1. letters = Quarantined([event |-> e.event, handler |-> e.handler]) /\ ~e.delivered
      BY <2>2, <1>1, <1>3, <1>4, <1>8, <1>16
    <3>2. \A r \in reached : r.nth < e.nth BY <1>10
    <3>3. LettersKept(letters, reached \cup {e}) BY <3>1, <3>2, <1>5, <1>8, QuarantineKeeps
    <3> QED BY <3>3, <1>11
  <2> QED BY <2>1, <2>2
<1>18. PICK w : w = [d EXCEPT !.place = NextPlace(d.place, delivered)] OBVIOUS
<1>19. w \in Walks /\ w.place = p + 1 /\ w.present = d.present /\ w.dropped = d.dropped
  BY <1>4, <1>5, <1>18 DEF Walks, NextPlace
<1>20. ASSUME published \notin disturbed PROVE WalkKept(subs, called, published, w)
  <2>1. WalkKept(subs, reached, published, d) BY <1>5, <1>20
  <2>2. w.place <= Len(subs) + 1 /\ ~w.dropped BY <2>1, <1>3, <1>19 DEF WalkKept
  <2>3. \A h \in w.present : \E k \in DOMAIN subs : subs[k] = h BY <2>1, <1>19 DEF WalkKept
  <2>4. ASSUME NEW k \in DOMAIN subs, k < w.place
        PROVE  \E r \in called : r.event = published /\ r.handler = subs[k]
    <3>1. CASE k = p BY <3>1, <1>8, <1>11
    <3>2. CASE k # p
      <4>1. k < d.place BY <2>4, <3>2, <1>3, <1>4, <1>19
      <4>2. PICK r \in reached : r.event = published /\ r.handler = subs[k] BY <4>1, <2>1 DEF WalkKept
      <4> QED BY <4>2, <1>11
    <3> QED BY <3>1, <3>2
  <2>5. ASSUME NEW r \in called, r.event = published
        PROVE  \E k \in DOMAIN subs : k < w.place /\ subs[k] = r.handler
    <3>1. CASE r = e
      <4>1. p \in DOMAIN subs /\ p < w.place /\ subs[p] = r.handler BY <3>1, <1>3, <1>8, <1>19
      <4> QED BY <4>1
    <3>2. CASE r \in reached
      <4>1. PICK k \in DOMAIN subs : k < d.place /\ subs[k] = r.handler BY <2>1, <2>5, <3>2 DEF WalkKept
      <4>2. k < w.place BY <4>1, <1>3, <1>4, <1>19
      <4> QED BY <4>1, <4>2
    <3> QED BY <3>1, <3>2, <1>11
  <2> QED BY <2>2, <2>3, <2>4, <2>5 DEF WalkKept
<1>21. /\ subscribers' = subs /\ published' = published /\ disturbed' = disturbed
       /\ reached' = called /\ busLetters' = letters /\ delivering' = {w}
  BY <1>1, <1>2, <1>3, <1>9, <1>11, <1>16, <1>18
<1>22. /\ \A r \in called : r.event <= published /\ r.nth <= Cardinality(called)
       /\ subs \in Seq(Handlers) /\ \A i, k \in DOMAIN subs : subs[i] = subs[k] => i = k
  BY <1>3, <1>5, <1>12, <1>13
<1> QED BY <1>5, <1>12, <1>15, <1>17, <1>19, <1>20, <1>21, <1>22 DEF BusInv

\* Every step of the bus keeps its invariant.
LEMMA BusStepInv == BusInv /\ [BusNext]_busVars => BusInv'
<1> SUFFICES ASSUME BusInv, [BusNext]_busVars PROVE BusInv' OBVIOUS
<1>1. CASE UNCHANGED busVars BY <1>1 DEF BusInv, busVars
<1>2. CASE \E h \in Handlers : subscribe(h) \/ unsubscribe(h) BY <1>2, SubscribingKeeps, UnsubscribingKeeps
<1>3. CASE publishEvent BY <1>3, PublishingKeeps
<1>4. CASE \E tries \in 1..BusAttempts, delivered \in BOOLEAN : deliver(tries, delivered)
  BY <1>4, DeliveringKeeps
<1>5. CASE publishReturns BY <1>5, ReturningKeeps
<1> QED BY <1>1, <1>2, <1>3, <1>4, <1>5 DEF BusNext

\* The bus's invariant says that every delivery is accounted for.
LEMMA BusInvTells == BusInv => DeliveriesAreAccounted
<1> SUFFICES ASSUME BusInv PROVE DeliveriesAreAccounted OBVIOUS
<1>1. ASSUME NEW d \in delivering, d.place > Len(subscribers), published \notin disturbed,
             NEW h \in d.present
      PROVE  \E r \in reached : r.event = published /\ r.handler = h
  <2>1. WalkKept(subscribers, reached, published, d) BY <1>1 DEF BusInv
  <2>2. PICK k \in DOMAIN subscribers : subscribers[k] = h BY <2>1 DEF WalkKept
  <2>3. k < d.place
    <3>1. subscribers \in Seq(Handlers) /\ d \in Walks BY DEF BusInv
    <3>2. d.place \in Nat BY <3>1 DEF Walks
    <3> QED BY <3>1, <3>2, <1>1
  <2> QED BY <2>1, <2>2, <2>3 DEF WalkKept
<1>2. \A q, r \in reached :
         q.event = r.event /\ q.handler = r.handler /\ q # r => q.event \in disturbed
  BY DEF BusInv
<1>3. LettersKept(busLetters, reached) /\ Failed = FailedOf(reached)
  BY DEF BusInv, Failed, FailedOf
<1>4. Len(busLetters) = (IF Cardinality(Failed) < DeadLetterRoom THEN Cardinality(Failed) ELSE DeadLetterRoom)
  BY <1>3 DEF LettersKept
<1>5. \A k \in DOMAIN busLetters : \E r \in Failed :
         /\ busLetters[k] = [event |-> r.event, handler |-> r.handler]
         /\ Cardinality({q \in Failed : q.nth > r.nth}) = Len(busLetters) - k
  BY <1>3 DEF LettersKept, LaterThan
<1> QED BY <1>1, <1>2, <1>4, <1>5 DEF DeliveriesAreAccounted

\* Theorem: an undisturbed publication called every subscriber once, whoever joins
\* or leaves in between, and the dead letters are the latest failures.
THEOREM DeliveriesStayAccounted == BusSpec => []DeliveriesAreAccounted
<1>1. BusInit => BusInv BY BusStarts
<1>2. BusInv /\ [BusNext]_busVars => BusInv' BY BusStepInv
<1>3. BusInv => DeliveriesAreAccounted BY BusInvTells
<1> QED BY <1>1, <1>2, <1>3, PTL DEF BusSpec

-----------------------------------------------------------------------------
(* The types of what is limited.                                           *)

\* The invariant of the runtime in memory holds its types.
LEMMA MemoryTypes == MemoryInv => MemoryTypeOK
<1> SUFFICES ASSUME MemoryInv PROVE MemoryTypeOK OBVIOUS
<1>1. ASSUME NEW i \in DOMAIN records PROVE records[i].tenant \in Sellers /\ records[i].parent \in 0..(i - 1)
  <2>1. records \in Seq(Records) /\ i \in Nat BY DEF MemoryInv, ChainedRecords
  <2>2. PICK r \in Records : r = records[i] BY <2>1
  <2>3. r.tenant \in Sellers /\ r.parent \in Nat BY DEF Records
  <2>4. r.parent < i BY <2>2 DEF MemoryInv, ChainedRecords
  <2> QED BY <2>1, <2>2, <2>3, <2>4
<1> QED BY <1>1 DEF MemoryInv, OutboxesTell, MemoryTypeOK, Entries

\* The limiter's invariant holds its types.
LEMMA LimiterTypesTell == LimiterInv => LimiterTypeOK
BY DEF LimiterInv, LimiterTypes, LimiterTypeOK

\* The audit's invariant holds its types.
LEMMA AuditTypes == AuditInv => AuditTypeOK
BY DEF AuditInv, RolesAreEarned, AuditTypeOK

\* The bus's invariant holds its types.
LEMMA BusTypes == BusInv => BusTypeOK
<1> SUFFICES ASSUME BusInv PROVE BusTypeOK OBVIOUS
<1>1. ToSet(subscribers) \subseteq Handlers BY DEF BusInv, ToSet
<1>2. IsFiniteSet(FailedOf(reached)) BY FS_Subset DEF BusInv, FailedOf
<1>3. PICK n \in Nat : n = Cardinality(FailedOf(reached)) BY <1>2, FS_CardinalityType
<1>4. Len(busLetters) = IF n < DeadLetterRoom THEN n ELSE DeadLetterRoom
  BY <1>3 DEF BusInv, LettersKept
<1> QED BY <1>1, <1>3, <1>4, BusAssumption DEF BusTypeOK

\* The queue has its bound besides.
LEMMA OutreachTypesTell ==
    ASSUME OutreachInv, Len(attempts) <= SendAttempts PROVE OutreachTypeOK
<1>1. /\ attempts \in Seq(SendAttemptRecords) /\ dedupe \in [Messages -> Nat]
      /\ Apart(attempts, dedupe)
  BY OutreachTypes
<1> DEFINE R == [message : Messages, state : Settled \cup {"queued"}, tries : 0..SendTries,
                 created : 0..OutreachEnd, due : 0..(OutreachEnd + 1),
                 settled : 0..OutreachEnd, replied : BOOLEAN]
<1>2. ASSUME NEW i \in DOMAIN attempts PROVE attempts[i] \in R
  <2>1. attempts[i] \in SendAttemptRecords BY <1>1
  <2>2. attempts[i].tries <= SendTries BY <1>1 DEF Apart
  <2>3. attempts[i].tries \in 0..SendTries BY <2>1, <2>2, OutreachAssumption DEF SendAttemptRecords
  <2> QED BY <2>1, <2>3 DEF SendAttemptRecords
<1>3. attempts \in Seq(R)
  <2> HIDE DEF R
  <2>1. PICK n \in Nat : n = Len(attempts) /\ DOMAIN attempts = 1..n BY <1>1
  <2>2. attempts = [i \in 1..n |-> attempts[i]] BY <1>1, <2>1
  <2>3. attempts \in [1..n -> R] BY <1>2, <2>1, <2>2
  <2> QED BY <2>3
<1>4. dedupe \in [Messages -> 0..SendAttempts]
  <2>1. Len(attempts) \in Nat BY <1>1
  <2> QED BY <1>1, <2>1, OutreachAssumption DEF Apart
<1> HIDE DEF R
<1>5. contacts \in [Contacts -> [known : BOOLEAN, granted : BOOLEAN, suppressed : BOOLEAN,
                                 channels : SUBSET Channels]]
  BY DEF OutreachInv, ContactsKept
<1> QED BY <1>3, <1>4, <1>5 DEF R, OutreachTypeOK

\* The queue of outreach starts within its bound.
LEMMA AttemptsStart == OutreachInit => Len(attempts) <= SendAttempts
BY OutreachAssumption DEF OutreachInit

\* Every step of outreach keeps its queue within its bound.
LEMMA AttemptsStayFew ==
    ASSUME OutreachInv, Len(attempts) <= SendAttempts, [OutreachNext]_outreachVars
    PROVE  Len(attempts') <= SendAttempts
<1>0. attempts \in Seq(SendAttemptRecords) /\ Len(attempts) \in Nat /\ QueueKept(Queues)
  BY OutreachTypes DEF OutreachInv
<1>1. CASE UNCHANGED attempts BY <1>1
<1>2. ASSUME NEW m \in Messages, NEW due, enqueueMessage(m, due) PROVE Len(attempts') <= SendAttempts
  <2>1. Len(attempts) < SendAttempts /\ attempts' = Enqueued(Queues, m, due).attempts
    BY <1>2 DEF enqueueMessage
  <2>2. attempts' = attempts \/ \E a : attempts' = Append(attempts, a) BY <2>1 DEF Enqueued, Queues
  <2>3. \A a : Len(Append(attempts, a)) = Len(attempts) + 1 BY <1>0
  <2> QED BY <1>0, <2>1, <2>2, <2>3, OutreachAssumption
<1>3. ASSUME NEW channels, NEW accepts, processQueue(channels, accepts) PROVE Len(attempts') <= SendAttempts
  <2>1. PICK q : q = materializeFollowUps OBVIOUS
  <2>2. /\ Len(q.attempts) <= SendAttempts
        /\ attempts' = Pass(q.attempts, channels, accepts).attempts
    BY <1>3, <2>1 DEF processQueue
  <2>3. QueueKept(q) /\ Longer(attempts, q.attempts)
    BY <1>0, <2>1, FollowUpsKeep, OutreachTypes
  <2>4. PICK old \in Seq(SendAttemptRecords), dd \in {q.dedupe} : old = q.attempts
    BY <2>3 DEF QueueKept, QueueRecords
  <2>5. PassKept(PassStart(old), dd) BY <2>1, <2>3, <2>4, PassBegins
  <2>6. Len(Pass(old, channels, accepts).attempts) = Len(old)
    BY <2>5, PassKeeps DEF OutreachInv
  <2> QED BY <2>2, <2>4, <2>6
<1>4. ASSUME NEW i, recordAttribution(i) PROVE Len(attempts') <= SendAttempts
  BY <1>0, <1>4 DEF recordAttribution
<1> QED
  BY <1>1, <1>2, <1>3, <1>4
  DEF OutreachNext, outreachVars, upsertContact, suppress, setConsent, scheduleFollowUp, hourPasses
==============================================================================
