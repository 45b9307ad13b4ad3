---------------------------- MODULE Intelligence -----------------------------
(***************************************************************************)
(* packages/intelligence for one tenant: the feature store, the baseline   *)
(* ranker, the stores of recommendations and predictions it fills, the     *)
(* feedback of operators, and the share of slots given to exploration.     *)
(* Every operation is synchronous; an hour is a tick.                      *)
(***************************************************************************)
EXTENDS Integers, SequencesExt

CONSTANTS
    Rankings,          \* sets of candidates that may be ranked together
    FeatureVersions,   \* versions of the one feature that is followed
    FeatureWindow,     \* its freshness window, in ticks
    RankDay,           \* how long a recommendation lives at most, in ticks
    SlotCounts,        \* slots that may be asked to allocate
    ExplorePercent,    \* exploreRatio
    FeedbackChoices,   \* decisions an operator may give
    RankingLimit,      \* bound on the rankings
    IntelligenceEnd    \* bound on the clock

FeedbackDecisions == {"ACCEPTED", "REJECTED", "MODIFIED", "IGNORED"}

\* createExplorationPolicy refuses a ratio that is not one.
IntelligenceAssumption ==
    /\ FeatureVersions \subseteq Int /\ FeatureWindow \in Nat
    /\ RankDay \in Nat /\ SlotCounts \subseteq Nat /\ ExplorePercent \in 0..100
    /\ \A candidates \in Rankings : \A c \in candidates : c.promoEnd \in Int
    /\ \A candidates \in Rankings : IsFiniteSet(candidates)
    /\ FeedbackChoices \subseteq FeedbackDecisions
    /\ RankingLimit \in Nat /\ IntelligenceEnd \in Nat
ASSUME IntelligenceAssumption

VARIABLES
    featureValues,     \* [version -> when the entity's value was computed, -1 for never]
    ranked,            \* the last ranking, best first
    recommendations,   \* in the order they were saved
    predictions,       \* in the order they were saved
    intelligenceClock

intelligenceVars == <<featureValues, ranked, recommendations, predictions, intelligenceClock>>

IntelligenceInit ==
    /\ featureValues = [v \in FeatureVersions |-> -1]
    /\ ranked = <<>>
    /\ recommendations = <<>>
    /\ predictions = <<>>
    /\ intelligenceClock = 0

-----------------------------------------------------------------------------
(* Features.                                                               *)

\* setValue with the time its caller gives: the pipeline passes the offer's
\* verifiedAt, which the clock may have left behind or not yet reached.
setValue(v, computedAt) ==
    /\ featureValues' = [featureValues EXCEPT ![v] = computedAt]
    /\ UNCHANGED <<ranked, recommendations, predictions, intelligenceClock>>

\* (mutation) Of several versions the one computed last is read, fresh or not.
ReadFeatureStale ==
    LET known == {v \in FeatureVersions : featureValues[v] >= 0}
    IN  IF known = {} THEN {} ELSE {CHOOSE v \in known : \A w \in known : v >= w}

\* getValue: the highest version known for the entity, or nothing when that one
\* is stale, whatever lower versions hold.  A value computed ahead of the clock
\* is answered (as of unknown freshness).
ReadFeature ==
    LET known == {v \in FeatureVersions : featureValues[v] >= 0}
    IN  {v \in known : /\ \A w \in known : v >= w
                       /\ intelligenceClock - featureValues[v] <= FeatureWindow}

-----------------------------------------------------------------------------
(* The ranker.  Ratios are kept as fractions; Math.round is RoundDiv.      *)

RoundDiv(a, b) == (2 * a + b) \div (2 * b)

ConfidenceFor(clicks) ==
    CASE clicks >= 100 -> "HIGH" [] clicks >= 20 /\ clicks < 100 -> "MEDIUM" [] OTHER -> "LOW"

ConfidenceWeight(c) ==      \* in tenths
    CASE c = "HIGH" -> 10 [] c = "MEDIUM" -> 8 [] c = "LOW" -> 5

\* What is left of a commission after refunds, as <<numerator, denominator>>.
Kept(c) ==
    IF c.net = 0 THEN <<1, 2>>
    ELSE IF 10 * c.refunds >= 9 * c.net THEN <<1, 10>> ELSE <<c.net - c.refunds, c.net>>

ExpectedNet(c) == RoundDiv(c.rate * c.price * Kept(c)[1], 100 * Kept(c)[2])

Score(c) ==
    IF c.stock \in {"OUT_OF_STOCK", "UNKNOWN"} \/ c.clicks = 0 THEN 0
    ELSE LET discounted == IF c.list > 0 /\ c.price < c.list THEN 2 * c.list - c.price ELSE c.list
             list == IF c.list > 0 THEN c.list ELSE 1
             whole == IF c.list > 0 THEN discounted ELSE 1
             promo == IF c.promoEnd >= 0 /\ c.promoEnd <= intelligenceClock THEN 7 ELSE 10
         IN  RoundDiv(ExpectedNet(c) * c.conversions * whole
                        * ConfidenceWeight(ConfidenceFor(c.clicks)) * promo,
                      c.clicks * list * 100)

MinOf(a, b) == IF a < b THEN a ELSE b
MaxOf(a, b) == IF a > b THEN a ELSE b

\* An entry lives until its promotion ends, at least an hour and at most a day.
Ranked(c) ==
    [product |-> c.product, score |-> Score(c), stock |-> c.stock,
     confidence |-> IF c.stock \in {"OUT_OF_STOCK", "UNKNOWN"} THEN "LOW" ELSE ConfidenceFor(c.clicks),
     expiresAt |-> MinOf(intelligenceClock + RankDay,
                         MaxOf(intelligenceClock + 1, IF c.promoEnd >= 0 THEN c.promoEnd ELSE 0))]

Outranks(a, b) == a.score > b.score \/ (a.score = b.score /\ a.product < b.product)

\* The orders of the entries in which none is outranked by a later one.
Rank(candidates) ==
    LET entries == {Ranked(c) : c \in candidates}
        n == Cardinality(entries)
    IN  {s \in [1..n -> entries] :
           /\ \A e \in entries : \E k \in 1..n : s[k] = e
           /\ \A j, k \in 1..n : j < k => ~Outranks(s[k], s[j])}

Recommend(e, status, decidedAt) ==
    [product |-> e.product, score |-> e.score, stock |-> e.stock, expiresAt |-> e.expiresAt,
     status |-> status, decidedAt |-> decidedAt]

\* rankAndRecord: a recommendation for every entry, a prediction for the first.
rankAndRecord(candidates) ==
    \E entries \in Rank(candidates) :
       /\ Len(predictions) < RankingLimit
       /\ ranked' = entries
       /\ recommendations' =
            recommendations \o [k \in DOMAIN entries |-> Recommend(entries[k], "ACTIVE", -1)]
       /\ predictions' =
            IF entries = <<>> THEN predictions
            ELSE Append(predictions, [product |-> entries[1].product, validUntil |-> entries[1].expiresAt])
       /\ UNCHANGED <<featureValues, intelligenceClock>>

\* (mutation) The prediction that was saved last, whether it still holds or not.
LatestPredictionEver(product) ==
    LET saved == {i \in 1..Len(predictions) : predictions[i].product = product}
    IN  {i \in saved : \A j \in saved : j <= i}

\* Of the predictions of a product that still hold, the one saved last.
LatestPrediction(product) ==
    LET valid == {i \in 1..Len(predictions) : /\ predictions[i].product = product
                                              /\ predictions[i].validUntil > intelligenceClock}
    IN  {i \in valid : \A j \in valid : j <= i}

\* (mutation) Accepting is not refused after expiry.
feedbackLate(i, decision) ==
    /\ recommendations[i].status \notin FeedbackDecisions
    /\ recommendations' =
         [recommendations EXCEPT ![i] = Recommend(@, decision, intelligenceClock)]
    /\ UNCHANGED <<featureValues, ranked, predictions, intelligenceClock>>

\* feedback: only accepting is refused after expiry, and then the record is
\* marked EXPIRED and stays open for another decision.
feedback(i, decision) ==
    /\ recommendations[i].status \notin FeedbackDecisions
    /\ LET late == decision = "ACCEPTED" /\ recommendations[i].expiresAt <= intelligenceClock
       IN  recommendations' = [recommendations EXCEPT ![i] =
             Recommend(@, IF late THEN "EXPIRED" ELSE decision, intelligenceClock)]
    /\ UNCHANGED <<featureValues, ranked, predictions, intelligenceClock>>

\* The first n of some places of the ranking.
Best(places, n) == {k \in places : Cardinality({j \in places : j < k}) < n}

LowEntries == {k \in DOMAIN ranked : ranked[k].confidence = "LOW"}

\* (mutation) Exploiters are taken from the whole ranking.
AllocateTwice(slots) ==
    LET explore == (slots * ExplorePercent) \div 100
    IN  [explore |-> Best(LowEntries, explore), exploit |-> Best(DOMAIN ranked, slots - explore)]

\* allocate: the best LOW entries explore, the best of the other products exploit.
Allocate(slots) ==
    LET explore == (slots * ExplorePercent) \div 100
        explorers == Best(LowEntries, explore)
        taken == {ranked[k].product : k \in explorers}
    IN  [explore |-> explorers,
         exploit |-> Best({k \in DOMAIN ranked : ranked[k].product \notin taken}, slots - explore)]

intelligenceTime ==
    /\ intelligenceClock < IntelligenceEnd
    /\ intelligenceClock' = intelligenceClock + 1
    /\ UNCHANGED <<featureValues, ranked, recommendations, predictions>>

IntelligenceNext ==
    \/ \E v \in FeatureVersions, at \in 0..IntelligenceEnd : setValue(v, at)
    \/ \E candidates \in Rankings : rankAndRecord(candidates)
    \/ \E i \in 1..Len(recommendations), decision \in FeedbackChoices : feedback(i, decision)
    \/ intelligenceTime

IntelligenceSpec == IntelligenceInit /\ [][IntelligenceNext]_intelligenceVars

-----------------------------------------------------------------------------
(* Properties.                                                             *)

IntelligenceTypeOK ==
    /\ featureValues \in [FeatureVersions -> -1..IntelligenceEnd]
    /\ \A i \in 1..Len(recommendations) :
          recommendations[i].status \in FeedbackDecisions \cup {"ACTIVE", "EXPIRED"}
    /\ Len(predictions) <= RankingLimit

\* A recommendation that was accepted was accepted in time, and nothing is
\* promoted that the provider does not hold in stock.  The prediction that is
\* answered has not run out, is none that a later one that holds replaces, and is
\* there as long as one holds; and the feature that is read has not run out.
AdviceIsCurrent ==
    /\ \A i \in 1..Len(recommendations) :
          LET r == recommendations[i]
          IN  /\ r.status = "ACCEPTED" => r.decidedAt < r.expiresAt
              /\ r.score > 0 => r.stock \notin {"OUT_OF_STOCK", "UNKNOWN"}
    /\ \A v \in ReadFeature : intelligenceClock - featureValues[v] <= FeatureWindow
    /\ \A i \in 1..Len(predictions) :
          LET latest == LatestPrediction(predictions[i].product)
          IN  /\ \A j \in latest : predictions[j].validUntil > intelligenceClock
              /\ predictions[i].validUntil > intelligenceClock =>
                    latest # {} /\ \A j \in latest : j >= i

\* The slots are never given out twice, and exploration never takes more than
\* its share of them.
SlotsAreShared ==
    \A slots \in SlotCounts :
       LET a == Allocate(slots)
           chosen == {ranked[k].product : k \in a.explore}
           others == {ranked[k].product : k \in a.exploit}
       IN  /\ chosen \cap others = {}
           /\ Cardinality(a.explore) + Cardinality(a.exploit) <= slots
           /\ 100 * Cardinality(a.explore) <= ExplorePercent * slots

\* Both of them, about the ranker, its stores and the slots.
AdviceHolds == AdviceIsCurrent /\ SlotsAreShared
=============================================================================
