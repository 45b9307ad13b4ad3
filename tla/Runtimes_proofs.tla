--------------------------- MODULE Runtimes_proofs ---------------------------
(***************************************************************************)
(* For every value of the constants, the parts that one process keeps in   *)
(* memory or that a single import writes.  The feed, the commerce          *)
(* catalogue, identity, automation, the model registry, migrations and the *)
(* breaker are here, the other parts in RuntimeRecords_proofs and          *)
(* RuntimeLimits_proofs; each has an inductive invariant of its own.  The  *)
(* last section puts all parts beside each other, as the run does: a step  *)
(* of one leaves the others alone.                                         *)
(***************************************************************************)
EXTENDS MCRuntimes, WorkflowRuntime_proofs, RuntimeRecords_proofs, RuntimeLimits_proofs,
        FiniteSetTheorems, TLAPS

-----------------------------------------------------------------------------
(* The Shopee feed.                                                        *)

\* The types of what the properties compare.
FeedRows ==
    /\ goodsRows \in [FeedGoods -> RuntimeIds \cup {NoRuntime}]
    /\ firstStored \in [FeedGoods -> RuntimeIds \cup {NoRuntime}]
    /\ importing \in [Importers ->
          SUBSET [good: FeedGoods, evidence: Evidence, price: FeedPrices]]
    /\ rowOffers \subseteq [runtime: RuntimeIds, good: FeedGoods, row: RowKeys,
                            price: FeedPrices, batch: FeedBatches]
    /\ evidenceOffers \subseteq [good: FeedGoods, evidence: Evidence, price: FeedPrices]

FeedInv == FeedRows /\ ImportsKeepIdentity

\* Nothing is stored yet.
LEMMA FeedStarts == FeedInit => FeedInv
BY DEF FeedInit, FeedInv, FeedRows, ImportsKeepIdentity

\* A product that is stored keeps its runtime id, and a new one is nobody
\* else's: identities stay what they were first, and apart.
LEMMA StoringKeepsIdentity ==
    ASSUME FeedInv, NEW g \in FeedGoods, NEW runtime \in RuntimeIds,
           Fits(g, runtime), StoreProduct(g, runtime)
    PROVE  /\ goodsRows' \in [FeedGoods -> RuntimeIds \cup {NoRuntime}]
           /\ firstStored' = goodsRows'
           /\ \A h \in FeedGoods : goodsRows[h] # NoRuntime => goodsRows'[h] = goodsRows[h]
           /\ goodsRows'[g] # NoRuntime
           /\ \A h, k \in FeedGoods :
                 h # k /\ goodsRows'[h] # NoRuntime => goodsRows'[h] # goodsRows'[k]
<1> USE DEF FeedInv, FeedRows
<1>1. /\ goodsRows' = [goodsRows EXCEPT ![g] = IF @ = NoRuntime THEN runtime ELSE @]
      /\ firstStored' = [firstStored EXCEPT ![g] = IF @ = NoRuntime THEN runtime ELSE @]
  BY DEF StoreProduct, ProductStored
<1>2. goodsRows = firstStored
  BY DEF ImportsKeepIdentity
<1>3. /\ goodsRows' \in [FeedGoods -> RuntimeIds \cup {NoRuntime}]
      /\ firstStored' = goodsRows'
      /\ goodsRows'[g] # NoRuntime
  BY <1>1, <1>2, FeedConstants DEF NoRuntime
<1>4. \A h \in FeedGoods : goodsRows[h] # NoRuntime => goodsRows'[h] = goodsRows[h]
  BY <1>1
<1>5. \A h, k \in FeedGoods :
         h # k /\ goodsRows'[h] # NoRuntime => goodsRows'[h] # goodsRows'[k]
  BY <1>1 DEF ImportsKeepIdentity, Fits
<1> QED
  BY <1>3, <1>4, <1>5

\* A batch counts its rows and touches none.
LEMMA BatchKeeps ==
    ASSUME FeedInv, NEW b \in FeedBatches, NEW accepted,
           startBatch(b) \/ failBatch(b) \/ completeBatch(b, accepted)
    PROVE  FeedInv'
BY DEF FeedInv, FeedRows, ImportsKeepIdentity, startBatch, failBatch, completeBatch

\* A product is stored or known already; its offers stay with it.
LEMMA UpsertProductKeeps ==
    ASSUME FeedInv, NEW g \in FeedGoods, NEW runtime \in RuntimeIds, upsertProduct(g, runtime)
    PROVE  FeedInv'
<1>1. /\ Fits(g, runtime) /\ StoreProduct(g, runtime)
      /\ UNCHANGED <<rowOffers, evidenceOffers, importing>>
  BY DEF upsertProduct
<1>2. FeedRows'
  BY <1>1, StoringKeepsIdentity DEF FeedInv, FeedRows
<1>3. ImportsKeepIdentity'
  <2>1. \A o \in rowOffers : goodsRows'[o.good] = o.runtime
    BY <1>1, StoringKeepsIdentity, FeedConstants
       DEF FeedInv, FeedRows, ImportsKeepIdentity, NoRuntime
  <2>2. \A o \in evidenceOffers : goodsRows'[o.good] # NoRuntime
    BY <1>1, StoringKeepsIdentity DEF FeedInv, FeedRows, ImportsKeepIdentity
  <2> QED
    BY <1>1, <2>1, <2>2, StoringKeepsIdentity DEF FeedInv, ImportsKeepIdentity
<1> QED
  BY <1>2, <1>3 DEF FeedInv

\* A row replaces its own offer: of one product there is one runtime id, so what
\* has the product and the row has the runtime id and the row.
LEMMA UpsertOfferKeeps ==
    ASSUME FeedInv, NEW g \in FeedGoods, NEW runtime \in RuntimeIds, NEW row \in RowKeys,
           NEW price \in FeedPrices, NEW b \in FeedBatches,
           upsertFeedOffer(g, runtime, row, price, b)
    PROVE  FeedInv'
<1> USE DEF FeedInv, upsertFeedOffer
<1>1. PICK mine : mine = [runtime |-> runtime, good |-> g, row |-> row, price |-> price,
                          batch |-> b]
  OBVIOUS
<1>2. /\ mine.good = g /\ mine.row = row /\ mine.runtime = runtime
      /\ mine \in [runtime: RuntimeIds, good: FeedGoods, row: RowKeys, price: FeedPrices,
                   batch: FeedBatches]
  BY <1>1
<1>3. rowOffers' = {o \in rowOffers : o.runtime # runtime \/ o.row # row} \cup {mine}
  BY <1>1
<1>4. FeedRows'
  BY <1>2, <1>3 DEF FeedRows
<1>5. ASSUME NEW o \in rowOffers', NEW p \in rowOffers', o.good = p.good, o.row = p.row
      PROVE  o = p
  <2>1. ASSUME NEW q \in rowOffers, q.runtime # runtime \/ q.row # row, q.good = g
        PROVE  q.row # row
    BY <2>1 DEF ImportsKeepIdentity
  <2> QED
    BY <1>2, <1>3, <1>5, <2>1 DEF ImportsKeepIdentity
<1>6. \A o \in rowOffers' : goodsRows'[o.good] = o.runtime
  BY <1>2, <1>3 DEF ImportsKeepIdentity
<1>7. ImportsKeepIdentity'
  BY <1>5, <1>6 DEF ImportsKeepIdentity
<1> QED
  BY <1>4, <1>7

\* An import that asks has stored nothing.
LEMMA AskKeeps ==
    ASSUME FeedInv, NEW i \in Importers, NEW g \in FeedGoods, NEW e \in Evidence,
           NEW price \in FeedPrices, persistAsks(i, g, e, price)
    PROVE  FeedInv'
<1> USE DEF FeedInv, persistAsks
<1>1. FeedRows'
  BY DEF FeedRows
<1>2. ImportsKeepIdentity'
  BY DEF ImportsKeepIdentity
<1> QED
  BY <1>1, <1>2

\* What it found may have changed: the unique index asks again.
LEMMA InsertKeeps ==
    ASSUME FeedInv, NEW i \in Importers, NEW runtime \in RuntimeIds, persistInserts(i, runtime)
    PROVE  FeedInv'
<1>1. PICK o \in importing[i] :
         /\ Fits(o.good, runtime)
         /\ IF EvidenceFree(o)
            THEN StoreProduct(o.good, runtime) /\ evidenceOffers' = evidenceOffers \cup {o}
            ELSE UNCHANGED <<goodsRows, firstStored, evidenceOffers>>
         /\ importing' = [importing EXCEPT ![i] = {}]
         /\ UNCHANGED <<feedBatches, rowOffers>>
  BY DEF persistInserts
<1>2. o \in [good: FeedGoods, evidence: Evidence, price: FeedPrices] /\ o.good \in FeedGoods
  BY DEF FeedInv, FeedRows
<1>3. CASE EvidenceFree(o)
  <2>1. /\ StoreProduct(o.good, runtime) /\ evidenceOffers' = evidenceOffers \cup {o}
    BY <1>1, <1>3
  <2>2. FeedRows'
    BY <1>1, <1>2, <2>1, StoringKeepsIdentity DEF FeedInv, FeedRows
  <2>3. \A p \in rowOffers : goodsRows'[p.good] = p.runtime
    BY <1>1, <1>2, <2>1, StoringKeepsIdentity, FeedConstants
       DEF FeedInv, FeedRows, ImportsKeepIdentity, NoRuntime
  <2>4. \A p \in evidenceOffers' : goodsRows'[p.good] # NoRuntime
    BY <1>1, <1>2, <2>1, StoringKeepsIdentity DEF FeedInv, FeedRows, ImportsKeepIdentity
  <2>5. \A p, q \in evidenceOffers' : p.evidence = q.evidence => p = q
    BY <1>3, <2>1 DEF EvidenceFree, FeedInv, ImportsKeepIdentity
  <2> QED
    BY <1>1, <1>2, <2>1, <2>2, <2>3, <2>4, <2>5, StoringKeepsIdentity
       DEF FeedInv, ImportsKeepIdentity
<1>4. CASE ~EvidenceFree(o)
  <2>1. UNCHANGED <<goodsRows, firstStored, evidenceOffers, rowOffers>>
    BY <1>1, <1>4
  <2>2. FeedRows'
    BY <1>1, <2>1 DEF FeedInv, FeedRows
  <2> QED
    BY <2>1, <2>2 DEF FeedInv, ImportsKeepIdentity
<1> QED
  BY <1>3, <1>4

\* Every step of the feed keeps the identities.
LEMMA FeedStepInv == FeedInv /\ [FeedNext]_feedVars => FeedInv'
<1> SUFFICES ASSUME FeedInv, [FeedNext]_feedVars
             PROVE  FeedInv'
  OBVIOUS
<1>1. ASSUME NEW b \in FeedBatches, NEW accepted \in {0, 1},
             startBatch(b) \/ failBatch(b) \/ completeBatch(b, accepted)
      PROVE  FeedInv'
  BY <1>1, BatchKeeps
<1>2. ASSUME NEW g \in FeedGoods, NEW runtime \in RuntimeIds, upsertProduct(g, runtime)
      PROVE  FeedInv'
  BY <1>2, UpsertProductKeeps
<1>3. ASSUME NEW g \in FeedGoods, NEW runtime \in RuntimeIds, NEW row \in RowKeys,
             NEW price \in FeedPrices, NEW b \in FeedBatches,
             upsertFeedOffer(g, runtime, row, price, b)
      PROVE  FeedInv'
  BY <1>3, UpsertOfferKeeps
<1>4. ASSUME NEW i \in Importers, NEW g \in FeedGoods, NEW e \in Evidence,
             NEW price \in FeedPrices, persistAsks(i, g, e, price)
      PROVE  FeedInv'
  BY <1>4, AskKeeps
<1>5. ASSUME NEW i \in Importers, NEW runtime \in RuntimeIds, persistInserts(i, runtime)
      PROVE  FeedInv'
  BY <1>5, InsertKeeps
<1>6. CASE UNCHANGED feedVars
  BY <1>6 DEF feedVars, FeedInv, FeedRows, ImportsKeepIdentity
<1> QED
  BY <1>1, <1>2, <1>3, <1>4, <1>5, <1>6 DEF FeedNext

\* One observation is one offer, and a product keeps the identity it was first
\* stored under, however batches, replays and concurrent imports mix.
THEOREM FeedKeepsIdentity == FeedSpec => []ImportsKeepIdentity
<1>1. FeedInv => ImportsKeepIdentity
  BY DEF FeedInv
<1> QED
  BY <1>1, FeedStarts, FeedStepInv, PTL DEF FeedSpec

-----------------------------------------------------------------------------
(* The commerce catalogue.                                                 *)

\* The types of what a claim is compared with.
CommerceRows ==
    /\ catalogue \in [CommerceOffers -> [known: BOOLEAN, sale: Nat, verifiedAt: Nat]]
    /\ snapshots \in [CommerceOffers -> Seq(SalePrices)]
    /\ promotions \subseteq [from: Nat, to: Nat, verified: BOOLEAN]
    /\ commerceClock \in Nat
    /\ observed \in [CommerceOffers -> SUBSET SalePrices]

\* Every price the store may compare a claim with was reported for the offer,
\* and a promotion starts before it ends.
PricesWereReported ==
    \A o \in CommerceOffers :
       /\ catalogue[o].known => catalogue[o].sale \in observed[o]
       /\ \A i \in 1..Len(snapshots[o]) : snapshots[o][i] \in observed[o]

CommerceInv ==
    /\ CommerceRows
    /\ PricesWereReported
    /\ \A q \in promotions : q.from < q.to
    /\ lastAllowed # NoClaim => lastAllowed.offer \in CommerceOffers
    /\ AllowedClaimsHaveEvidence

\* The store starts empty.
LEMMA CommerceStarts == CommerceInit => CommerceInv
<1> SUFFICES ASSUME CommerceInit PROVE CommerceInv
  OBVIOUS
<1> USE DEF CommerceInit
<1>1. CommerceRows
  BY DEF CommerceRows, NoOffer
<1>2. PricesWereReported
  BY DEF PricesWereReported, NoOffer
<1> QED
  BY <1>1, <1>2 DEF CommerceInv, AllowedClaimsHaveEvidence

\* A price that was reported stays reported: what was allowed on it stays right.
LEMMA EvidenceStays ==
    ASSUME CommerceInv, NEW o \in CommerceOffers, NEW sale \in SalePrices,
           observed' = [observed EXCEPT ![o] = @ \cup {sale}], UNCHANGED lastAllowed
    PROVE  /\ AllowedClaimsHaveEvidence'
           /\ lastAllowed' # NoClaim => lastAllowed'.offer \in CommerceOffers
           /\ observed' \in [CommerceOffers -> SUBSET SalePrices]
           /\ sale \in observed'[o]
           /\ \A q \in CommerceOffers : observed[q] \subseteq observed'[q]
<1>1. /\ observed' \in [CommerceOffers -> SUBSET SalePrices]
      /\ sale \in observed'[o]
      /\ \A q \in CommerceOffers : observed[q] \subseteq observed'[q]
  BY DEF CommerceInv, CommerceRows
<1>2. AllowedClaimsHaveEvidence'
  BY <1>1 DEF CommerceInv, AllowedClaimsHaveEvidence, Percent
<1> QED
  BY <1>1, <1>2 DEF CommerceInv

\* An offer is replaced as a whole, by one whose price is reported with it.
LEMMA UpsertOfferObserves ==
    ASSUME CommerceInv, NEW o \in CommerceOffers, NEW sale \in SalePrices,
           NEW at \in 0..CommerceEnd, upsertOffer(o, sale, at)
    PROVE  CommerceInv'
<1> USE CommerceConstants
<1>1. /\ catalogue' = [catalogue EXCEPT ![o] =
              [known |-> TRUE, sale |-> sale, verifiedAt |-> at]]
      /\ observed' = [observed EXCEPT ![o] = @ \cup {sale}]
      /\ UNCHANGED <<snapshots, promotions, commerceClock, lastAllowed>>
  BY DEF upsertOffer
<1>2. CommerceRows'
  BY <1>1, EvidenceStays DEF CommerceInv, CommerceRows
<1>3. PricesWereReported'
  BY <1>1, EvidenceStays DEF CommerceInv, CommerceRows, PricesWereReported
<1> QED
  BY <1>1, <1>2, <1>3, EvidenceStays DEF CommerceInv

\* What the validation throws away is no evidence any more.
LEMMA RejectedOfferKeeps ==
    ASSUME CommerceInv, NEW o \in CommerceOffers, upsertOfferRejected(o)
    PROVE  CommerceInv'
<1>1. /\ catalogue' = [catalogue EXCEPT ![o] = NoOffer]
      /\ UNCHANGED <<snapshots, promotions, commerceClock, observed, lastAllowed>>
  BY DEF upsertOfferRejected
<1>2. CommerceRows'
  BY <1>1 DEF CommerceInv, CommerceRows, NoOffer
<1>3. PricesWereReported'
  BY <1>1 DEF CommerceInv, CommerceRows, PricesWereReported, NoOffer
<1> QED
  BY <1>1, <1>2, <1>3 DEF CommerceInv, AllowedClaimsHaveEvidence, Percent

\* A snapshot is reported by being recorded.
LEMMA SnapshotObserves ==
    ASSUME CommerceInv, NEW o \in CommerceOffers, NEW sale \in SalePrices,
           recordPriceSnapshot(o, sale)
    PROVE  CommerceInv'
<1>1. /\ snapshots' = [snapshots EXCEPT ![o] = Append(@, sale)]
      /\ observed' = [observed EXCEPT ![o] = @ \cup {sale}]
      /\ UNCHANGED <<catalogue, promotions, commerceClock, lastAllowed>>
  BY DEF recordPriceSnapshot
<1>2. CommerceRows'
  BY <1>1, EvidenceStays DEF CommerceInv, CommerceRows
<1>3. PricesWereReported'
  BY <1>1, EvidenceStays DEF CommerceInv, CommerceRows, PricesWereReported
<1> QED
  BY <1>1, <1>2, <1>3, EvidenceStays DEF CommerceInv

\* A promotion is accepted when it starts before it ends.
LEMMA PromotionKeeps ==
    ASSUME CommerceInv, NEW window \in PromotionWindows, NEW ok \in BOOLEAN,
           upsertPromotion(window, ok)
    PROVE  CommerceInv'
<1> PICK q : q = [from |-> window[1], to |-> window[2], verified |-> ok]
  OBVIOUS
<1>1. q \in [from: Nat, to: Nat, verified: BOOLEAN] /\ q.from < q.to
  BY CommerceConstants DEF upsertPromotion
<1>2. /\ promotions' = promotions \cup {q}
      /\ UNCHANGED <<catalogue, snapshots, commerceClock, observed, lastAllowed>>
  BY DEF upsertPromotion
<1> QED
  BY <1>1, <1>2
     DEF CommerceInv, CommerceRows, PricesWereReported, AllowedClaimsHaveEvidence, Percent

\* A promotion that is neither over nor unverified is verified and not over.
LEMMA PromotionIsOn ==
    ASSUME NEW q \in [from: Nat, to: Nat, verified: BOOLEAN], q.from < q.to, NEW now \in Nat,
           PromotionStatus(q, now) \notin {"EXPIRED", "UNKNOWN"}
    PROVE  q.verified /\ now < q.to
BY DEF PromotionStatus

\* The latest price of a known offer was reported.
LEMMA LatestWasReported ==
    ASSUME CommerceInv, NEW o \in CommerceOffers, catalogue[o].known
    PROVE  LatestPrice(o) \in observed[o]
BY DEF CommerceInv, CommerceRows, PricesWereReported, LatestPrice

\* A claim that is allowed has its evidence at the time asked about.
LEMMA ClaimKeeps ==
    ASSUME CommerceInv, NEW o \in CommerceOffers, NEW type, NEW value, NEW asked \in 0..CommerceEnd,
           NEW p \in SUBSET promotions, revalidateCommercialClaim(o, type, value, p, asked)
    PROVE  CommerceInv'
<1> USE CommerceConstants
<1> PICK c : c = [offer |-> o, type |-> type, value |-> value, asked |-> asked, over |-> p,
                  verifiedAt |-> catalogue[o].verifiedAt]
  OBVIOUS
<1>1. /\ lastAllowed' = c
      /\ UNCHANGED <<catalogue, snapshots, promotions, commerceClock, observed>>
      /\ catalogue[o].known /\ HasEvidence(o, type, value, asked)
      /\ \A q \in p : PromotionStatus(q, asked) \notin {"EXPIRED", "UNKNOWN"}
  BY DEF revalidateCommercialClaim
<1>2. /\ c.offer = o /\ c.type = type /\ c.value = value /\ c.asked = asked /\ c.over = p
      /\ c.verifiedAt = catalogue[o].verifiedAt
  OBVIOUS
<1>3. ASSUME c.type \in {"PRICE", "DISCOUNT"}, NEW v \in c.value
      PROVE  \E price \in observed[o] :
                IF c.type = "PRICE" THEN v = price ELSE Percent(price) - v \in -1..1
  <2>1. Matches(o, type, v)
    BY <1>1, <1>2, <1>3 DEF HasEvidence
  <2> QED
    BY <1>1, <1>2, <2>1, LatestWasReported DEF Matches
<1>4. c.type \in {"PRICE", "DISCOUNT"} => c.asked - c.verifiedAt \in 0..Freshness
  BY <1>1, <1>2 DEF CommerceInv, CommerceRows, HasEvidence, IsFresh
<1>5. \A q \in p : q.verified /\ c.asked < q.to
  BY <1>1, <1>2, PromotionIsOn DEF CommerceInv, CommerceRows
<1>6. AllowedClaimsHaveEvidence'
  BY <1>1, <1>2, <1>3, <1>4, <1>5 DEF AllowedClaimsHaveEvidence, Percent
<1>7. CommerceRows' /\ PricesWereReported'
  BY <1>1 DEF CommerceInv, CommerceRows, PricesWereReported
<1> QED
  BY <1>1, <1>2, <1>6, <1>7 DEF CommerceInv

\* The clock moves no evidence: a claim keeps the time it was asked about.
LEMMA CommerceClockKeeps ==
    ASSUME CommerceInv, commerceTime
    PROVE  CommerceInv'
BY DEF CommerceInv, CommerceRows, PricesWereReported, AllowedClaimsHaveEvidence, Percent,
       commerceTime

\* Every step of the store keeps the invariant.
LEMMA CommerceStepInv == CommerceInv /\ [CommerceNext]_commerceVars => CommerceInv'
<1> SUFFICES ASSUME CommerceInv, [CommerceNext]_commerceVars
             PROVE  CommerceInv'
  OBVIOUS
<1>1. ASSUME NEW o \in CommerceOffers, NEW p \in {{}} \cup {{q} : q \in promotions},
             NEW asked \in 0..CommerceEnd,
             \/ \E type \in ClaimTypes : revalidateCommercialClaim(o, type, {}, p, asked)
             \/ \E sale \in SalePrices :
                   \/ revalidateCommercialClaim(o, "PRICE", {sale}, p, asked)
                   \/ revalidateCommercialClaim(o, "DISCOUNT", {Percent(sale)}, p, asked)
      PROVE  CommerceInv'
  <2>1. p \in SUBSET promotions
    OBVIOUS
  <2> QED
    BY <1>1, <2>1, ClaimKeeps
<1>2. ASSUME NEW o \in CommerceOffers, upsertOfferRejected(o)
      PROVE  CommerceInv'
  BY <1>2, RejectedOfferKeeps
<1>3. ASSUME NEW o \in CommerceOffers, NEW sale \in SalePrices, NEW at \in 0..CommerceEnd,
             upsertOffer(o, sale, at)
      PROVE  CommerceInv'
  BY <1>3, UpsertOfferObserves
<1>4. ASSUME NEW o \in CommerceOffers, NEW sale \in SalePrices, recordPriceSnapshot(o, sale)
      PROVE  CommerceInv'
  BY <1>4, SnapshotObserves
<1>5. ASSUME NEW window \in PromotionWindows, NEW ok \in BOOLEAN, upsertPromotion(window, ok)
      PROVE  CommerceInv'
  BY <1>5, PromotionKeeps
<1>6. CASE commerceTime
  BY <1>6, CommerceClockKeeps
<1>7. CASE UNCHANGED commerceVars
  BY <1>7 DEF CommerceInv, CommerceRows, PricesWereReported, AllowedClaimsHaveEvidence,
              Percent, commerceVars
<1> QED
  BY <1>1, <1>2, <1>3, <1>4, <1>5, <1>6, <1>7 DEF CommerceNext

\* For any offers, prices, promotions and thresholds: a claim about a price that
\* was allowed rests on an offer verified within the window before the time asked
\* about and names what was reported for it; and no claim that was allowed names
\* a promotion that was over at that time.
THEOREM ClaimsHaveEvidence == CommerceSpec => []AllowedClaimsHaveEvidence
<1>1. CommerceInv => AllowedClaimsHaveEvidence
  BY DEF CommerceInv
<1> QED
  BY <1>1, CommerceStarts, CommerceStepInv, PTL DEF CommerceSpec

-----------------------------------------------------------------------------
(* Identity.                                                               *)

Logged(action, target) == <<action, target>> \in escalations

IdentityRows ==
    /\ users \subseteq Persons
    /\ session \in [Persons -> [expires: Nat, revoked: BOOLEAN]]
    /\ linked \in [Externals -> Persons \cup {NoLink}]
    /\ apiKeys \in [ApiKeys -> [issued: BOOLEAN, revoked: BOOLEAN, disabled: BOOLEAN,
                                actions: SUBSET KeyActions]]
    /\ bootstrap \in [expires: Nat, disabled: BOOLEAN]
    /\ identityClock \in Nat
    /\ everGranted \subseteq [from: Nat, to: Nat]

\* A key's life is its log, and only a key that was issued can be withdrawn.
KeysAreLogged ==
    \A k \in ApiKeys :
       /\ apiKeys[k].issued <=> Logged("api_key.issue", k)
       /\ apiKeys[k].revoked <=> Logged("api_key.revoke", k)
       /\ apiKeys[k].disabled <=> Logged("api_key.disable", k)
       /\ apiKeys[k].issued => apiKeys[k].actions # {}
       /\ apiKeys[k].revoked \/ apiKeys[k].disabled => apiKeys[k].issued

\* Users, their links and their sessions have their entries.
PeopleAreLogged ==
    /\ \A u \in users : Logged("user.create", u)
    /\ \A x \in Externals : linked[x] # NoLink =>
          linked[x] \in users /\ Logged("identity.link", linked[x])
    /\ \A u \in Persons : session[u].expires > 0 => u \in users

\* The last bootstrap grant ends last, and no two meet.
GrantsFollow ==
    /\ bootstrap.expires > 0 => Logged("bootstrap.provision", "tenant")
    /\ \A g \in everGranted : g.to <= bootstrap.expires
    /\ GrantsDoNotOverlap

IdentityInv == IdentityRows /\ KeysAreLogged /\ PeopleAreLogged /\ GrantsFollow

\* A tenant starts with nobody and an empty log.
LEMMA IdentityStarts == IdentityInit => IdentityInv
<1> SUFFICES ASSUME IdentityInit PROVE IdentityInv
  OBVIOUS
<1> USE DEF IdentityInit
<1>1. IdentityRows
  BY DEF IdentityRows, NoSession
<1>2. KeysAreLogged
  BY DEF KeysAreLogged, Logged
<1>3. PeopleAreLogged
  BY DEF PeopleAreLogged, Logged, NoSession
<1>4. GrantsFollow
  BY DEF GrantsFollow, GrantsDoNotOverlap
<1> QED
  BY <1>1, <1>2, <1>3, <1>4 DEF IdentityInv

\* Users, sessions, links and services have entries of their own kind.
LEMMA PeopleKeep ==
    ASSUME IdentityInv,
           \/ \E u \in Persons : createUser(u) \/ revokeSession(u)
           \/ \E u \in Persons, ttl \in Ttls : startSession(u, ttl)
           \/ \E u \in Persons, x \in Externals : linkExternalIdentity(u, x)
           \/ \E u \in Persons, x \in Externals : unlinkExternalIdentities(u, IssuerOf[x])
           \/ \E s \in Services : registerServiceIdentity(s)
    PROVE  IdentityInv'
<1> USE IdentityConstants
<1> USE DEF IdentityInv
<1>1. ASSUME NEW u \in Persons, createUser(u)
      PROVE  IdentityInv'
  <2>1. /\ users' = users \cup {u} /\ escalations' = escalations \cup {<<"user.create", u>>}
        /\ UNCHANGED <<session, linked, apiKeys, bootstrap, identityClock, everGranted>>
    BY <1>1 DEF createUser, escalate
  <2>2. IdentityRows' /\ KeysAreLogged'
    BY <2>1 DEF IdentityRows, KeysAreLogged, Logged
  <2>3. PeopleAreLogged'
    BY <2>1 DEF IdentityRows, PeopleAreLogged, Logged
  <2>4. GrantsFollow'
    BY <2>1 DEF GrantsFollow, GrantsDoNotOverlap, Logged
  <2> QED
    BY <2>2, <2>3, <2>4
<1>2. ASSUME NEW u \in Persons, revokeSession(u)
      PROVE  IdentityInv'
  <2>1. /\ session' = [session EXCEPT ![u].revoked = TRUE]
        /\ UNCHANGED <<users, escalations, linked, apiKeys, bootstrap, identityClock, everGranted>>
    BY <1>2 DEF revokeSession
  <2>2. /\ session' \in [Persons -> [expires: Nat, revoked: BOOLEAN]]
        /\ \A w \in Persons : session'[w].expires = session[w].expires
    BY <2>1 DEF IdentityRows
  <2>3. IdentityRows' /\ KeysAreLogged'
    BY <2>1, <2>2 DEF IdentityRows, KeysAreLogged, Logged
  <2>4. PeopleAreLogged' /\ GrantsFollow'
    BY <2>1, <2>2 DEF PeopleAreLogged, GrantsFollow, GrantsDoNotOverlap, Logged
  <2> QED
    BY <2>3, <2>4
<1>3. ASSUME NEW u \in Persons, NEW ttl \in Ttls, startSession(u, ttl)
      PROVE  IdentityInv'
  <2>1. /\ session' = [session EXCEPT ![u] =
                         [expires |-> identityClock + ttl, revoked |-> FALSE]]
        /\ u \in users
        /\ UNCHANGED <<users, escalations, linked, apiKeys, bootstrap, identityClock, everGranted>>
    BY <1>3 DEF startSession
  <2>2. /\ session' \in [Persons -> [expires: Nat, revoked: BOOLEAN]]
        /\ \A w \in Persons : w # u => session'[w] = session[w]
    BY <2>1 DEF IdentityRows
  <2>3. IdentityRows' /\ KeysAreLogged'
    BY <2>1, <2>2 DEF IdentityRows, KeysAreLogged, Logged
  <2>4. PeopleAreLogged'
    BY <2>1, <2>2 DEF PeopleAreLogged, Logged
  <2>5. GrantsFollow'
    BY <2>1 DEF GrantsFollow, GrantsDoNotOverlap, Logged
  <2> QED
    BY <2>3, <2>4, <2>5
<1>4. ASSUME NEW u \in Persons, NEW x \in Externals, linkExternalIdentity(u, x)
      PROVE  IdentityInv'
  <2>1. /\ linked' = [linked EXCEPT ![x] = u] /\ u \in users
        /\ escalations' = escalations \cup {<<"identity.link", u>>}
        /\ UNCHANGED <<users, session, apiKeys, bootstrap, identityClock, everGranted>>
    BY <1>4 DEF linkExternalIdentity, escalate
  <2>2. IdentityRows' /\ KeysAreLogged'
    BY <2>1 DEF IdentityRows, KeysAreLogged, Logged
  <2>3. PeopleAreLogged'
    BY <2>1 DEF IdentityRows, PeopleAreLogged, Logged
  <2>4. GrantsFollow'
    BY <2>1 DEF GrantsFollow, GrantsDoNotOverlap, Logged
  <2> QED
    BY <2>2, <2>3, <2>4
<1>5. ASSUME NEW u \in Persons, NEW issuer, unlinkExternalIdentities(u, issuer)
      PROVE  IdentityInv'
  <2>1. /\ linked' = [x \in Externals |->
                        IF linked[x] = u /\ IssuerOf[x] = issuer THEN NoLink ELSE linked[x]]
        /\ escalations' = escalations \cup {<<"identity.unlink", u>>}
        /\ UNCHANGED <<users, session, apiKeys, bootstrap, identityClock, everGranted>>
    BY <1>5 DEF unlinkExternalIdentities, escalate
  <2>2. /\ linked' \in [Externals -> Persons \cup {NoLink}]
        /\ \A x \in Externals : linked'[x] # NoLink => linked'[x] = linked[x]
    BY <2>1 DEF IdentityRows
  <2>3. IdentityRows' /\ KeysAreLogged'
    BY <2>1, <2>2 DEF IdentityRows, KeysAreLogged, Logged
  <2>4. PeopleAreLogged'
    BY <2>1, <2>2 DEF PeopleAreLogged, Logged
  <2>5. GrantsFollow'
    BY <2>1 DEF GrantsFollow, GrantsDoNotOverlap, Logged
  <2> QED
    BY <2>3, <2>4, <2>5
<1>6. ASSUME NEW s \in Services, registerServiceIdentity(s)
      PROVE  IdentityInv'
  <2>1. /\ escalations' = escalations \cup {<<"service_identity.register", s>>}
        /\ UNCHANGED <<users, session, linked, apiKeys, bootstrap, identityClock, everGranted>>
    BY <1>6 DEF registerServiceIdentity, escalate
  <2>2. IdentityRows' /\ KeysAreLogged'
    BY <2>1 DEF IdentityRows, KeysAreLogged, Logged
  <2>3. PeopleAreLogged' /\ GrantsFollow'
    BY <2>1 DEF PeopleAreLogged, GrantsFollow, GrantsDoNotOverlap, Logged
  <2> QED
    BY <2>2, <2>3
<1> QED
  BY <1>1, <1>2, <1>3, <1>4, <1>5, <1>6

\* The field of one key and its entry go together.
LEMMA KeysKeep ==
    ASSUME IdentityInv, NEW k \in ApiKeys,
           (\E actions \in SUBSET KeyActions : issueApiKey(k, actions))
              \/ revokeApiKey(k) \/ disableApiKey(k)
    PROVE  IdentityInv'
<1> USE DEF IdentityInv
<1> DEFINE Others == /\ \A j \in ApiKeys : j # k => apiKeys'[j] = apiKeys[j]
                     /\ UNCHANGED <<users, session, linked, bootstrap, identityClock, everGranted>>
           Row(i, r, d, a) == /\ apiKeys'[k].issued = i /\ apiKeys'[k].revoked = r
                              /\ apiKeys'[k].disabled = d /\ apiKeys'[k].actions = a
           KeyRows == apiKeys' \in [ApiKeys -> [issued: BOOLEAN, revoked: BOOLEAN,
                                                disabled: BOOLEAN, actions: SUBSET KeyActions]]
<1>1. ASSUME NEW actions \in SUBSET KeyActions, issueApiKey(k, actions)
      PROVE  IdentityInv'
  <2>1. /\ ~apiKeys[k].issued /\ actions # {}
        /\ apiKeys' = [apiKeys EXCEPT ![k] = [[@ EXCEPT !.issued = TRUE] EXCEPT !.actions = actions]]
        /\ escalations' = escalations \cup {<<"api_key.issue", k>>}
        /\ UNCHANGED <<users, session, linked, bootstrap, identityClock, everGranted>>
    BY <1>1 DEF issueApiKey, escalate, IdentityRows
  <2>2. KeyRows /\ Others /\ Row(TRUE, apiKeys[k].revoked, apiKeys[k].disabled, actions)
    BY <2>1 DEF IdentityRows
  <2>3. IdentityRows'
    BY <2>1, <2>2 DEF IdentityRows
  <2>4. KeysAreLogged'
    BY <2>1, <2>2 DEF KeysAreLogged, Logged
  <2>5. PeopleAreLogged' /\ GrantsFollow'
    BY <2>1 DEF PeopleAreLogged, GrantsFollow, GrantsDoNotOverlap, Logged
  <2> QED
    BY <2>3, <2>4, <2>5
<1>2. ASSUME revokeApiKey(k)
      PROVE  IdentityInv'
  <2>1. /\ apiKeys[k].issued
        /\ apiKeys' = [apiKeys EXCEPT ![k] = [@ EXCEPT !.revoked = TRUE]]
        /\ escalations' = escalations \cup {<<"api_key.revoke", k>>}
        /\ UNCHANGED <<users, session, linked, bootstrap, identityClock, everGranted>>
    BY <1>2 DEF revokeApiKey, Withdraw, escalate
  <2>2. KeyRows /\ Others /\ Row(apiKeys[k].issued, TRUE, apiKeys[k].disabled, apiKeys[k].actions)
    BY <2>1 DEF IdentityRows
  <2>3. IdentityRows'
    BY <2>1, <2>2 DEF IdentityRows
  <2>4. KeysAreLogged'
    BY <2>1, <2>2 DEF KeysAreLogged, Logged
  <2>5. PeopleAreLogged' /\ GrantsFollow'
    BY <2>1 DEF PeopleAreLogged, GrantsFollow, GrantsDoNotOverlap, Logged
  <2> QED
    BY <2>3, <2>4, <2>5
<1>3. ASSUME disableApiKey(k)
      PROVE  IdentityInv'
  <2>1. /\ apiKeys[k].issued
        /\ apiKeys' = [apiKeys EXCEPT ![k] = [@ EXCEPT !.disabled = TRUE]]
        /\ escalations' = escalations \cup {<<"api_key.disable", k>>}
        /\ UNCHANGED <<users, session, linked, bootstrap, identityClock, everGranted>>
    BY <1>3 DEF disableApiKey, Withdraw, escalate
  <2>2. KeyRows /\ Others /\ Row(apiKeys[k].issued, apiKeys[k].revoked, TRUE, apiKeys[k].actions)
    BY <2>1 DEF IdentityRows
  <2>3. IdentityRows'
    BY <2>1, <2>2 DEF IdentityRows
  <2>4. KeysAreLogged'
    BY <2>1, <2>2 DEF KeysAreLogged, Logged
  <2>5. PeopleAreLogged' /\ GrantsFollow'
    BY <2>1 DEF PeopleAreLogged, GrantsFollow, GrantsDoNotOverlap, Logged
  <2> QED
    BY <2>3, <2>4, <2>5
<1> QED
  BY <1>1, <1>2, <1>3

\* A grant is provisioned when the last one has run out, and ends last.
LEMMA ProvisionKeeps ==
    ASSUME IdentityInv, NEW ttl \in Ttls, provisionAdminBootstrap(ttl)
    PROVE  IdentityInv'
<1> USE IdentityConstants
<1> USE DEF IdentityInv
<1> PICK h : h = [from |-> identityClock, to |-> identityClock + ttl]
  OBVIOUS
<1>1. /\ bootstrap.expires <= identityClock
      /\ bootstrap' = [bootstrap EXCEPT !.expires = identityClock + ttl]
      /\ everGranted' = everGranted \cup {h}
      /\ escalations' = escalations \cup {<<"bootstrap.provision", "tenant">>}
      /\ UNCHANGED <<users, session, linked, apiKeys, identityClock>>
  BY DEF provisionAdminBootstrap, NoActiveGrant, escalate
<1>2. /\ h \in [from: Nat, to: Nat] /\ h.from = identityClock /\ h.to = identityClock + ttl
      /\ bootstrap' \in [expires: Nat, disabled: BOOLEAN] /\ bootstrap'.expires = h.to
      /\ bootstrap.expires \in Nat /\ everGranted \subseteq [from: Nat, to: Nat]
  BY <1>1 DEF IdentityRows
<1>3. IdentityRows' /\ KeysAreLogged'
  BY <1>1, <1>2 DEF IdentityRows, KeysAreLogged, Logged
<1>4. PeopleAreLogged'
  BY <1>1 DEF PeopleAreLogged, Logged
<1>5. \A g \in everGranted : g.to <= h.from /\ g.to <= h.to
  BY <1>1, <1>2 DEF GrantsFollow, IdentityRows
<1>6. GrantsFollow'
  BY <1>1, <1>2, <1>5 DEF GrantsFollow, GrantsDoNotOverlap, Logged
<1> QED
  BY <1>3, <1>4, <1>6

\* Neither ends a grant.
LEMMA DisableKeeps ==
    ASSUME IdentityInv, disableBootstrap \/ identityTime
    PROVE  IdentityInv'
<1> USE DEF IdentityInv
<1>1. CASE disableBootstrap
  <2>1. /\ bootstrap' = [bootstrap EXCEPT !.disabled = TRUE]
        /\ escalations' = escalations \cup {<<"bootstrap.disable", "tenant">>}
        /\ UNCHANGED <<users, session, linked, apiKeys, identityClock, everGranted>>
    BY <1>1 DEF disableBootstrap, escalate
  <2>2. /\ bootstrap' \in [expires: Nat, disabled: BOOLEAN]
        /\ bootstrap'.expires = bootstrap.expires
    BY <2>1 DEF IdentityRows
  <2>3. IdentityRows' /\ KeysAreLogged'
    BY <2>1, <2>2 DEF IdentityRows, KeysAreLogged, Logged
  <2>4. PeopleAreLogged' /\ GrantsFollow'
    BY <2>1, <2>2 DEF PeopleAreLogged, GrantsFollow, GrantsDoNotOverlap, Logged
  <2> QED
    BY <2>3, <2>4
<1>2. CASE identityTime
  BY <1>2 DEF identityTime, IdentityRows, KeysAreLogged, PeopleAreLogged, GrantsFollow,
              GrantsDoNotOverlap, Logged
<1> QED
  BY <1>1, <1>2

\* Every step keeps the invariant.
LEMMA IdentityStepInv == IdentityInv /\ [IdentityNext]_identityVars => IdentityInv'
<1> SUFFICES ASSUME IdentityInv, [IdentityNext]_identityVars
             PROVE  IdentityInv'
  OBVIOUS
<1>1. CASE UNCHANGED identityVars
  BY <1>1 DEF identityVars, IdentityInv, IdentityRows, KeysAreLogged, PeopleAreLogged,
              GrantsFollow, GrantsDoNotOverlap, Logged
<1> QED
  BY <1>1, PeopleKeep, KeysKeep, ProvisionKeeps, DisableKeeps DEF IdentityNext

\* Who comes in has an entry: the log decides for keys, and for the others
\* there was one.
LEMMA IdentityInvAccounts == IdentityInv => IdentityIsAccountable
<1> SUFFICES ASSUME IdentityInv PROVE IdentityIsAccountable
  OBVIOUS
<1> USE DEF IdentityInv
<1>1. \A k \in ApiKeys :
         (\E a \in KeyActions : AuthenticateApiKey(k, a)) <=>
            /\ Logged("api_key.issue", k)
            /\ ~Logged("api_key.revoke", k) /\ ~Logged("api_key.disable", k)
  BY DEF IdentityRows, KeysAreLogged, AuthenticateApiKey
<1>2. \A u \in Persons : VerifySession(u) => Logged("user.create", u)
  BY DEF IdentityRows, PeopleAreLogged, VerifySession
<1>3. \A x \in Externals : linked[x] # NoLink =>
         Logged("user.create", linked[x]) /\ Logged("identity.link", linked[x])
  BY DEF PeopleAreLogged
<1>4. bootstrap.expires > identityClock => Logged("bootstrap.provision", "tenant")
  BY DEF IdentityRows, GrantsFollow
<1>5. AccessFollowsLog
  BY <1>1, <1>2, <1>3, <1>4 DEF AccessFollowsLog, Logged
<1> QED
  BY <1>5 DEF GrantsFollow, IdentityIsAccountable

\* For any people, keys, services and lifetimes: the log tells who may come in,
\* and one bootstrap grant at most is good at a time.
THEOREM IdentityStaysAccountable == IdentitySpec => []IdentityIsAccountable
BY IdentityStarts, IdentityStepInv, IdentityInvAccounts, PTL DEF IdentitySpec

-----------------------------------------------------------------------------
(* Automation.                                                             *)

\* The policies createAutomationPolicy returns.
CreatedPolicies == {Created(p) : p \in PolicyChoices}

\* A switch that was ever turned on still has its active record.
AutomationInv ==
    /\ policy \in CreatedPolicies
    /\ \A s \in engaged : [switch |-> s, active |-> TRUE] \in switches

\* No switch was turned on yet.
LEMMA AutomationStarts == AutomationInit => AutomationInv
BY DEF AutomationInit, AutomationInv, CreatedPolicies

\* Records are pushed behind the others, and a policy is one of its choices.
LEMMA AutomationStepInv == AutomationInv /\ [AutomationNext]_automationVars => AutomationInv'
<1> SUFFICES ASSUME AutomationInv, [AutomationNext]_automationVars
             PROVE  AutomationInv'
  OBVIOUS
<1> USE DEF AutomationInv
<1>1. ASSUME NEW s \in SwitchChoices, NEW active \in BOOLEAN, postKillSwitch(s, active)
      PROVE  AutomationInv'
  <2>1. /\ switches' = switches \cup {[switch |-> s, active |-> active]}
        /\ engaged' = IF active THEN engaged \cup {s} ELSE engaged
        /\ policy' = policy
    BY <1>1 DEF postKillSwitch
  <2>2. CASE active = TRUE
    BY <2>1, <2>2
  <2>3. CASE active = FALSE
    BY <2>1, <2>3
  <2> QED
    BY <2>2, <2>3
<1>2. ASSUME NEW p \in PolicyChoices, putPolicy(p) \/ upsertPolicy(p)
      PROVE  AutomationInv'
  BY <1>2 DEF putPolicy, upsertPolicy, CreatedPolicies
<1>3. ASSUME NEW s \in SwitchChoices, NEW target,
             insertKillSwitch(s) \/ clearKillSwitch(s.scope, target)
      PROVE  AutomationInv'
  BY <1>3 DEF insertKillSwitch, clearKillSwitch
<1>4. ASSUME NEW a \in ActionChoices, NEW c \in CounterChoices, NEW blocked \in BOOLEAN,
             gateEvaluate(a, c, blocked)
      PROVE  AutomationInv'
  BY <1>4 DEF gateEvaluate
<1>5. CASE UNCHANGED automationVars
  BY <1>5 DEF automationVars
<1> QED
  BY <1>1, <1>2, <1>3, <1>4, <1>5 DEF AutomationNext

\* An active record is an active switch.
LEMMA EngagedIsActive ==
    ASSUME AutomationInv, NEW s \in engaged
    PROVE  s \in Active
<1> PICK r : r = [switch |-> s, active |-> TRUE]
  OBVIOUS
<1>1. r \in switches /\ r.active /\ r.switch = s
  BY DEF AutomationInv
<1> QED
  BY <1>1 DEF Active

\* What an operator stops, evaluateAction denies: for an organisation of its
\* own the switch covers the action, and another organisation is denied anyway.
LEMMA StopIsDenied ==
    ASSUME AutomationInv, NEW a \in ActionChoices, NEW c \in CounterChoices,
           NEW s \in engaged, Stops(s, a)
    PROVE  Decide(policy, a, c, Active) = "DENY"
<1>0. ASSUME Trim[a.platform] = a.platform
      PROVE  Normalized(a.platform) = LowerCase[a.platform]
  BY <1>0, AutomationConstants DEF Normalized
<1>1. policy.org = "own" => Covers(s, policy.org, a)
  BY <1>0 DEF Stops, Covers
<1>2. Denied(policy, a, c, Active)
  BY <1>1, EngagedIsActive DEF Denied
<1> QED
  BY <1>2 DEF Decide

\* Creating a policy writes its platforms anew and keeps its limits.
LEMMA CreatedKeepsLimits ==
    ASSUME NEW p \in CreatedPolicies
    PROVE  {p.maxPosts, p.maxPlatformPosts, p.maxCost, p.maxCampaignCost} \subseteq Int
<1>1. PICK q \in PolicyRecords : p = Created(q)
  BY AutomationConstants DEF CreatedPolicies
<1> QED
  BY <1>1 DEF Created, PolicyRecords

\* Pressure adds reasons to deny and takes none away.
LEMMA DenialIsMonotone ==
    ASSUME NEW p \in CreatedPolicies, NEW a \in ActionChoices, NEW c \in CounterChoices,
           NEW d \in CounterChoices, Tighter(c, d), NEW on, NEW s, Denied(p, a, c, on)
    PROVE  Denied(p, a, d, on \cup {s})
<1>1. c.cost \in Int /\ d.cost \in Int /\ p.maxCost \in Int
  BY AutomationConstants, CreatedKeepsLimits
<1>2. c.cost > p.maxCost => d.cost > p.maxCost
  BY <1>1 DEF Tighter
<1> QED
  BY <1>2 DEF Denied

\* It adds reasons to defer, and with no reason to defer none to ask a person
\* goes away.
LEMMA DeferralIsMonotone ==
    ASSUME NEW p \in CreatedPolicies, NEW a \in ActionChoices, NEW c \in CounterChoices,
           NEW d \in CounterChoices, Tighter(c, d)
    PROVE  /\ Deferred(p, a, c) => Deferred(p, a, d)
           /\ NeedsApproval(p, a, c) => NeedsApproval(p, a, d) \/ Deferred(p, a, d)
<1>1. /\ {c.posts, c.platformPosts, c.campaignCost} \subseteq Int
      /\ {d.posts, d.platformPosts, d.campaignCost} \subseteq Int
      /\ {p.maxPosts, p.maxPlatformPosts, p.maxCampaignCost} \subseteq Int
  BY AutomationConstants, CreatedKeepsLimits
<1>2. /\ c.posts >= p.maxPosts => d.posts >= p.maxPosts
      /\ c.platformPosts >= p.maxPlatformPosts => d.platformPosts >= p.maxPlatformPosts
      /\ c.campaignCost > p.maxCampaignCost => d.campaignCost > p.maxCampaignCost
  BY <1>1 DEF Tighter
<1>3. Deferred(p, a, c) => Deferred(p, a, d)
  BY <1>2 DEF Deferred
<1> QED
  BY <1>2, <1>3 DEF NeedsApproval

\* Both halves follow from what evaluateAction decides.
LEMMA AutomationInvBounds == AutomationInv => AutomationIsBounded
<1> SUFFICES ASSUME AutomationInv PROVE AutomationIsBounded
  OBVIOUS
<1>1. KillSwitchHolds
  BY StopIsDenied DEF KillSwitchHolds
<1>2. PressureOnlyRestricts
  <2> SUFFICES ASSUME NEW a \in ActionChoices, NEW c \in CounterChoices,
                      NEW d \in CounterChoices, NEW s \in SwitchChoices, Tighter(c, d)
               PROVE  /\ Decide(policy, a, d, Active \cup {s}) = "ALLOW"
                            => Decide(policy, a, c, Active) = "ALLOW"
                      /\ Decide(policy, a, c, Active) = "DENY"
                            => Decide(policy, a, d, Active \cup {s}) = "DENY"
    BY DEF PressureOnlyRestricts
  <2>1. policy \in CreatedPolicies
    BY DEF AutomationInv
  <2>2. Denied(policy, a, c, Active) => Denied(policy, a, d, Active \cup {s})
    BY <2>1, DenialIsMonotone
  <2>3. /\ Deferred(policy, a, c) => Deferred(policy, a, d)
        /\ NeedsApproval(policy, a, c) => NeedsApproval(policy, a, d) \/ Deferred(policy, a, d)
    BY <2>1, DeferralIsMonotone
  <2> QED
    BY <2>2, <2>3 DEF Decide
<1> QED
  BY <1>1, <1>2 DEF AutomationIsBounded

\* For any policies, switches, counters and texts: an action past a switch that
\* was ever turned on for it, in the switch's spelling, is denied, and pressure
\* only restricts.
THEOREM AutomationStaysBounded == AutomationSpec => []AutomationIsBounded
BY AutomationStarts, AutomationStepInv, AutomationInvBounds, PTL DEF AutomationSpec

-----------------------------------------------------------------------------
(* The model registry.                                                     *)

\* What the registry knows of a version that was ever fit to be promoted: it
\* went through SHADOW.  Promotion asks for SHADOW or, to roll back, RETIRED,
\* so the statuses behind SHADOW have to remember it.
ShadowIsRemembered ==
    \A v \in ModelVersions : models[v] \in {"SHADOW", "PRODUCTION", "RETIRED"} => v \in shadowed

RegistryInv ==
    /\ RegistryTypeOK
    /\ approvers \in [ModelVersions -> BOOLEAN]
    /\ ShadowIsRemembered
    /\ ServedModelIsProven

\* An empty registry serves nothing.
LEMMA RegistryStarts == RegistryInit => RegistryInv
BY DEF RegistryInit, RegistryInv, RegistryTypeOK, ShadowIsRemembered, ServedModelIsProven

\* A new version was never served, and a status of its own says nothing of the
\* others.
LEMMA RegisterKeeps ==
    ASSUME RegistryInv, NEW v \in ModelVersions, registerModel(v)
    PROVE  RegistryInv'
<1> USE DEF RegistryInv, registerModel
<1>1. RegistryTypeOK' /\ approvers' \in [ModelVersions -> BOOLEAN]
  BY DEF RegistryTypeOK
<1>2. ShadowIsRemembered'
  BY DEF RegistryTypeOK, ShadowIsRemembered
<1>3. ServedModelIsProven'
  BY DEF RegistryTypeOK, ServedModelIsProven
<1> QED
  BY <1>1, <1>2, <1>3

\* The version that is served can only be retired, and then nothing is served.
LEMMA TransitionKeeps ==
    ASSUME RegistryInv, NEW v \in ModelVersions,
           NEW to \in {"VALIDATING", "SHADOW", "PRODUCTION", "RETIRED", "REJECTED"},
           transition(v, to)
    PROVE  RegistryInv'
<1> USE DEF RegistryInv, transition
<1>1. RegistryTypeOK' /\ approvers' \in [ModelVersions -> BOOLEAN]
  BY DEF RegistryTypeOK
<1>2. ShadowIsRemembered'
  <2>1. to \in {"PRODUCTION", "RETIRED"} => models[v] \in {"SHADOW", "PRODUCTION", "RETIRED"}
    BY DEF LegalTransitions, RegistryTypeOK
  <2> QED
    BY <2>1 DEF RegistryTypeOK, ShadowIsRemembered
<1>3. ServedModelIsProven'
  <2>1. models[v] = "PRODUCTION" => to = "RETIRED"
    BY DEF LegalTransitions
  <2> QED
    BY <2>1 DEF RegistryTypeOK, ServedModelIsProven
<1> QED
  BY <1>1, <1>2, <1>3

\* A promotion takes a version that was in shadow and retires the one it
\* replaces; a rollback takes one that was retired.
LEMMA PromoteKeeps ==
    ASSUME RegistryInv, NEW v \in ModelVersions, NEW isRollback \in BOOLEAN,
           promote(v, isRollback)
    PROVE  RegistryInv'
<1> USE DEF RegistryInv, promote
<1>1. RegistryTypeOK' /\ approvers' \in [ModelVersions -> BOOLEAN]
  BY DEF RegistryTypeOK
<1>2. ShadowIsRemembered'
  <2>1. ASSUME NEW w \in ModelVersions, w = served PROVE w \in shadowed
    BY <2>1, VersionsAssumption DEF ServedModelIsProven
  <2> QED
    BY <2>1 DEF RegistryTypeOK, ShadowIsRemembered
<1>3. ServedModelIsProven'
  BY DEF RegistryTypeOK, ShadowIsRemembered, ServedModelIsProven
<1> QED
  BY <1>1, <1>2, <1>3

\* Every step keeps what the registry knows.
LEMMA RegistryStepInv == RegistryInv /\ [RegistryNext]_registryVars => RegistryInv'
<1> SUFFICES ASSUME RegistryInv, [RegistryNext]_registryVars
             PROVE  RegistryInv'
  OBVIOUS
<1>1. ASSUME NEW v \in ModelVersions, registerModel(v)
      PROVE  RegistryInv'
  BY <1>1, RegisterKeeps
<1>2. ASSUME NEW v \in ModelVersions,
             NEW to \in {"VALIDATING", "SHADOW", "PRODUCTION", "RETIRED", "REJECTED"},
             transition(v, to)
      PROVE  RegistryInv'
  BY <1>2, TransitionKeeps
<1>3. ASSUME NEW v \in ModelVersions, NEW isRollback \in BOOLEAN, promote(v, isRollback)
      PROVE  RegistryInv'
  BY <1>3, PromoteKeeps
<1>4. CASE UNCHANGED registryVars
  BY <1>4 DEF registryVars, RegistryInv, RegistryTypeOK, ShadowIsRemembered,
              ServedModelIsProven
<1> QED
  BY <1>1, <1>2, <1>3, <1>4 DEF RegistryNext

\* The inductive invariant: what is served, and what the registry remembers of
\* the versions that could be.
THEOREM RegistryInvariant == RegistrySpec => []RegistryInv
BY RegistryStarts, RegistryStepInv, PTL DEF RegistrySpec

\* Nothing is served that was not compared in shadow, approved and put into
\* production: a retired or rejected version stops being served at once, and no
\* transition serves a version that nobody promoted.
THEOREM ServedIsProven == RegistrySpec => []ServedModelIsProven
<1>1. RegistryInv => ServedModelIsProven
  BY DEF RegistryInv
<1> QED
  BY <1>1, RegistryInvariant, PTL

-----------------------------------------------------------------------------
(* Migrations.                                                             *)

\* What may be recorded.
Checksums == {"none"} \cup UNION {{r[m] : m \in DOMAIN r} : r \in Releases}

MigratorRows ==
    /\ recorded \in [Migrations -> Checksums]
    /\ bodies \in [Migrations -> Nat]
    /\ migrating \in [Migrators -> [pc: {"idle", "next", "body"}, release: Releases \cup {<<>>},
                                    todo: SUBSET Migrations]]

\* A process that is applying its release has recorded, or found recorded, what
\* it has not left to do.
WorkIsBehind ==
    \A p \in Migrators : migrating[p].pc # "idle" =>
       /\ migrating[p].release \in Releases
       /\ migrating[p].todo \subseteq DOMAIN migrating[p].release
       /\ migrating[p].todo # {}
       /\ \A k \in DOMAIN migrating[p].release : k \notin migrating[p].todo => recorded[k] # "none"

\* A body that ended the migrator's transaction itself took effect before its
\* record.
BodyIsThere ==
    \A p \in Migrators, m \in Migrations : Holds(p, m) /\ m \notin Enclosed => bodies[m] > 0

MigratorInv == MigratorRows /\ WorkIsBehind /\ BodyIsThere /\ MigrationsApplyOnce

\* Nothing is recorded and nothing applied.
LEMMA MigratorStarts == MigratorInit => MigratorInv
<1> SUFFICES ASSUME MigratorInit PROVE MigratorInv
  OBVIOUS
<1> USE DEF MigratorInit
<1>1. MigratorRows
  BY DEF MigratorRows, NotMigrating, Checksums
<1>2. WorkIsBehind /\ BodyIsThere
  BY DEF WorkIsBehind, BodyIsThere, NotMigrating, Holds
<1>3. MigrationsApplyOnce
  BY DEF MigrationsApplyOnce
<1> QED
  BY <1>1, <1>2, <1>3 DEF MigratorInv

\* The file a process is at is one of its release, and all before it are recorded.
LEMMA NextFileIsNext ==
    ASSUME MigratorInv, NEW p \in Migrators, NEW m \in Migrations,
           migrating[p].pc # "idle", IsNext(p, m)
    PROVE  /\ migrating[p].release \in Releases
           /\ m \in DOMAIN migrating[p].release
           /\ \A k \in DOMAIN migrating[p].release : k < m => recorded[k] # "none"
<1>1. /\ migrating[p].todo \subseteq DOMAIN migrating[p].release
      /\ migrating[p].release \in Releases
      /\ \A k \in DOMAIN migrating[p].release : k \notin migrating[p].todo => recorded[k] # "none"
  BY DEF MigratorInv, WorkIsBehind
<1>2. migrating[p].todo \subseteq Nat /\ m \in Nat
  BY MigratorConstants DEF MigratorInv, MigratorRows
<1>3. \A k \in migrating[p].todo : ~(k < m)
  BY <1>2 DEF IsNext
<1> QED
  BY <1>1, <1>3 DEF IsNext

\* A process that stops leaves what is recorded and applied as it is.
LEMMA StopKeeps ==
    ASSUME MigratorInv, NEW p \in Migrators,
           migrating' = [migrating EXCEPT ![p] = NotMigrating], UNCHANGED <<recorded, bodies>>
    PROVE  MigratorInv'
<1> USE DEF MigratorInv
<1>1. /\ migrating'[p].pc = "idle"
      /\ \A q \in Migrators : q # p => migrating'[q] = migrating[q]
      /\ MigratorRows'
  BY DEF MigratorRows, NotMigrating
<1>2. WorkIsBehind' /\ BodyIsThere'
  BY <1>1 DEF WorkIsBehind, BodyIsThere, Holds, IsNext
<1> QED
  BY <1>1, <1>2 DEF MigrationsApplyOnce

\* A plan leaves to do what is not recorded.
LEMMA PlanKeeps ==
    ASSUME MigratorInv, NEW p \in Migrators, NEW release \in Releases, plan(p, release)
    PROVE  MigratorInv'
<1> USE DEF MigratorInv
<1> PICK job : job = [pc |-> "next", release |-> release, todo |-> PendingOf(release)]
  OBVIOUS
<1>1. /\ migrating' = [migrating EXCEPT ![p] = job] /\ UNCHANGED <<recorded, bodies>>
      /\ PendingOf(release) # {}
  BY DEF plan
<1>2. /\ PendingOf(release) \subseteq DOMAIN release /\ DOMAIN release \subseteq Migrations
      /\ \A k \in DOMAIN release : k \notin PendingOf(release) => recorded[k] # "none"
  BY MigratorConstants DEF PendingOf
<1>3. /\ job.pc = "next" /\ job.release = release /\ job.todo = PendingOf(release)
      /\ job \in [pc: {"idle", "next", "body"}, release: Releases \cup {<<>>},
                  todo: SUBSET Migrations]
  BY <1>2
<1>4. /\ migrating'[p] = job
      /\ \A q \in Migrators : q # p => migrating'[q] = migrating[q]
      /\ MigratorRows'
  BY <1>1, <1>3 DEF MigratorRows
<1>5. WorkIsBehind' /\ BodyIsThere'
  BY <1>1, <1>2, <1>3, <1>4 DEF WorkIsBehind, BodyIsThere, Holds, IsNext
<1> QED
  BY <1>1, <1>4, <1>5 DEF MigrationsApplyOnce

\* A body takes effect before the record only if its file is not enclosed.
LEMMA BodyKeeps ==
    ASSUME MigratorInv, NEW p \in Migrators, NEW m \in Migrations, applyBody(p, m)
    PROVE  MigratorInv'
<1>1. migrating[p].pc = "next" /\ IsNext(p, m)
  BY DEF applyBody
<1>2. CASE migrating' = [migrating EXCEPT ![p] = NotMigrating] /\ UNCHANGED <<recorded, bodies>>
  BY <1>2, StopKeeps
<1>3. CASE /\ migrating' = [migrating EXCEPT ![p].pc = "body"] /\ UNCHANGED recorded
           /\ bodies' = IF Unwrapped(m) THEN bodies ELSE [bodies EXCEPT ![m] = @ + 1]
  <2> USE DEF MigratorInv
  <2>1. /\ migrating'[p].pc = "body" /\ migrating'[p].release = migrating[p].release
        /\ migrating'[p].todo = migrating[p].todo
        /\ \A q \in Migrators : q # p => migrating'[q] = migrating[q]
        /\ migrating' \in [Migrators -> [pc: {"idle", "next", "body"},
              release: Releases \cup {<<>>}, todo: SUBSET Migrations]]
    BY <1>3 DEF MigratorRows
  <2>2. /\ bodies' \in [Migrations -> Nat]
        /\ \A k \in Migrations : bodies'[k] >= bodies[k]
        /\ \A k \in Migrations : k \in Enclosed => bodies'[k] = bodies[k]
        /\ m \notin Enclosed => bodies'[m] > 0
    BY <1>1, <1>3 DEF MigratorRows, Unwrapped
  <2>3. \A k \in Migrations : IsNext(p, k) => k = m
    BY <1>1, MigratorConstants DEF IsNext
  <2>4. BodyIsThere'
    <3> SUFFICES ASSUME NEW q \in Migrators, NEW k \in Migrations, Holds(q, k)', k \notin Enclosed
                 PROVE  bodies'[k] > 0
      BY DEF BodyIsThere
    <3>1. CASE q = p
      <4>1. IsNext(p, k)
        BY <2>1, <3>1 DEF Holds, IsNext
      <4> QED
        BY <2>2, <2>3, <4>1
    <3>2. CASE q # p
      <4>1. Holds(q, k)
        BY <2>1, <3>2 DEF Holds, IsNext
      <4>2. bodies[k] > 0
        BY <4>1 DEF BodyIsThere
      <4> QED
        BY <2>2, <4>2 DEF MigratorRows
    <3> QED
      BY <3>1, <3>2
  <2>5. WorkIsBehind'
    BY <1>1, <1>3, <2>1 DEF WorkIsBehind
  <2>6. MigrationsApplyOnce'
    BY <1>3, <2>2 DEF MigrationsApplyOnce, MigratorRows
  <2> QED
    BY <1>3, <2>1, <2>2, <2>4, <2>5, <2>6 DEF MigratorRows
<1> QED
  BY <1>2, <1>3 DEF applyBody

\* A record is written once, for the file that is next in a release, and with
\* the body of an enclosed file.
LEMMA RecordKeeps ==
    ASSUME MigratorInv, NEW p \in Migrators, NEW m \in Migrations, record(p, m)
    PROVE  MigratorInv'
<1> PICK release : release = migrating[p].release
  OBVIOUS
<1>1. /\ migrating[p].pc = "body" /\ IsNext(p, m) /\ m \in migrating[p].todo
      /\ release \in Releases /\ m \in DOMAIN release
      /\ \A k \in DOMAIN release : k < m => recorded[k] # "none"
  BY NextFileIsNext DEF record, Holds, IsNext
<1>2. CASE migrating' = [migrating EXCEPT ![p] = NotMigrating] /\ UNCHANGED <<recorded, bodies>>
  BY <1>2, StopKeeps
<1>3. CASE /\ recorded[m] = "none" /\ Committed(p, m)
           /\ recorded' = [recorded EXCEPT ![m] = release[m]]
  <2> USE DEF MigratorInv
  <2> PICK rest : rest = IF migrating[p].todo = {m} THEN NotMigrating
                         ELSE [migrating[p] EXCEPT !.pc = "next", !.todo = @ \ {m}]
    OBVIOUS
  <2>1. /\ bodies' = IF Unwrapped(m) THEN [bodies EXCEPT ![m] = @ + 1] ELSE bodies
        /\ migrating' = [migrating EXCEPT ![p] = rest]
    <3>1. migrating[p] \in [pc: {"idle", "next", "body"}, release: Releases \cup {<<>>},
                            todo: SUBSET Migrations]
      BY DEF MigratorRows
    <3>2. CASE migrating[p].todo = {m}
      BY <1>3, <3>2 DEF Committed
    <3>3. CASE migrating[p].todo # {m}
      <4>1. migrating' = [migrating EXCEPT ![p].pc = "next", ![p].todo = @ \ {m}]
        BY <1>3, <3>3 DEF Committed
      <4> QED
        BY <1>3, <3>1, <3>3, <4>1 DEF Committed, MigratorRows
    <3> QED
      BY <3>2, <3>3
  <2>2. release[m] # "none" /\ release[m] \in Checksums
    BY <1>1, MigratorConstants DEF Checksums
  <2>3. /\ recorded' \in [Migrations -> Checksums] /\ recorded'[m] # "none"
        /\ \A k \in Migrations : k # m => recorded'[k] = recorded[k]
    BY <1>1, <1>3, <2>2 DEF MigratorRows
  <2>4. /\ bodies' \in [Migrations -> Nat]
        /\ \A k \in Migrations : k # m => bodies'[k] = bodies[k]
        /\ m \in Enclosed => bodies'[m] = 1
        /\ bodies'[m] > 0
    BY <1>1, <1>3, <2>1 DEF MigratorRows, Unwrapped, BodyIsThere, Holds, MigrationsApplyOnce
  <2>5. /\ rest \in [pc: {"idle", "next", "body"}, release: Releases \cup {<<>>},
                     todo: SUBSET Migrations]
        /\ rest.pc # "body"
        /\ rest.pc # "idle" => /\ rest.release = release /\ rest.todo = migrating[p].todo \ {m}
                               /\ migrating[p].todo # {m}
    <3>1. CASE migrating[p].todo = {m}
      BY <3>1 DEF NotMigrating
    <3>2. CASE migrating[p].todo # {m}
      <4>1. rest = [migrating[p] EXCEPT !.pc = "next", !.todo = @ \ {m}]
        BY <3>2
      <4>2. migrating[p] \in [pc: {"idle", "next", "body"}, release: Releases \cup {<<>>},
                              todo: SUBSET Migrations]
        BY DEF MigratorRows
      <4> QED
        BY <3>2, <4>1, <4>2
    <3> QED
      BY <3>1, <3>2
  <2>6. /\ migrating'[p] = rest
        /\ \A q \in Migrators : q # p => migrating'[q] = migrating[q]
        /\ migrating' \in [Migrators -> [pc: {"idle", "next", "body"},
              release: Releases \cup {<<>>}, todo: SUBSET Migrations]]
    BY <2>1, <2>5 DEF MigratorRows
  <2>7. \A k \in Migrations : recorded[k] # "none" => recorded'[k] # "none"
    BY <2>3
  <2>8. WorkIsBehind'
    <3> SUFFICES ASSUME NEW q \in Migrators, migrating'[q].pc # "idle"
                 PROVE  /\ migrating'[q].release \in Releases
                        /\ migrating'[q].todo \subseteq DOMAIN migrating'[q].release
                        /\ migrating'[q].todo # {}
                        /\ \A k \in DOMAIN migrating'[q].release :
                              k \notin migrating'[q].todo => recorded'[k] # "none"
      BY DEF WorkIsBehind
    <3>1. \A r \in Releases : DOMAIN r \subseteq Migrations
      BY MigratorConstants
    <3>2. CASE q = p
      <4>1. /\ migrating'[q].release = release
            /\ migrating'[q].todo = migrating[p].todo \ {m} /\ migrating[p].todo # {m}
        BY <2>5, <2>6, <3>2
      <4>2. /\ migrating[p].todo \subseteq DOMAIN release
            /\ \A k \in DOMAIN release : k \notin migrating[p].todo => recorded[k] # "none"
        BY <1>1 DEF WorkIsBehind
      <4> QED
        BY <1>1, <2>3, <2>7, <3>1, <4>1, <4>2
    <3>3. CASE q # p
      BY <2>6, <2>7, <3>1, <3>3 DEF WorkIsBehind
    <3> QED
      BY <3>2, <3>3
  <2>9. BodyIsThere'
    <3> SUFFICES ASSUME NEW q \in Migrators, NEW k \in Migrations, Holds(q, k)', k \notin Enclosed
                 PROVE  bodies'[k] > 0
      BY DEF BodyIsThere
    <3>1. q # p /\ migrating'[q] = migrating[q]
      BY <2>5, <2>6 DEF Holds
    <3>2. Holds(q, k)
      BY <3>1 DEF Holds, IsNext
    <3> QED
      BY <2>4, <3>2 DEF BodyIsThere
  <2>10. MigrationsApplyOnce'
    <3> SUFFICES ASSUME NEW n \in Migrations
                 PROVE  /\ n \in Enclosed => bodies'[n] = (IF recorded'[n] = "none" THEN 0 ELSE 1)
                        /\ recorded'[n] # "none" =>
                              /\ bodies'[n] > 0
                              /\ \E r \in Releases : n \in DOMAIN r
                                    /\ \A k \in DOMAIN r : k < n => recorded'[k] # "none"
      BY DEF MigrationsApplyOnce
    <3>1. \A r \in Releases : DOMAIN r \subseteq Migrations
      BY MigratorConstants
    <3>2. CASE n = m
      BY <1>1, <2>3, <2>4, <2>7, <3>1, <3>2
    <3>3. CASE n # m
      BY <2>3, <2>4, <2>7, <3>1, <3>3 DEF MigrationsApplyOnce
    <3> QED
      BY <3>2, <3>3
  <2> QED
    BY <2>3, <2>4, <2>6, <2>8, <2>9, <2>10 DEF MigratorRows
<1> QED
  BY <1>2, <1>3 DEF record

\* Every step keeps the invariant.
LEMMA MigratorStepInv == MigratorInv /\ [MigratorNext]_migratorVars => MigratorInv'
<1> SUFFICES ASSUME MigratorInv, [MigratorNext]_migratorVars
             PROVE  MigratorInv'
  OBVIOUS
<1>1. ASSUME NEW p \in Migrators, migratorCrash(p)
      PROVE  MigratorInv'
  BY <1>1, StopKeeps DEF migratorCrash
<1>2. CASE UNCHANGED migratorVars
  BY <1>2 DEF migratorVars, MigratorInv, MigratorRows, WorkIsBehind, BodyIsThere,
              Holds, IsNext, MigrationsApplyOnce
<1> QED
  BY <1>1, <1>2, PlanKeeps, BodyKeeps, RecordKeeps DEF MigratorNext

\* For any processes, releases and crashes: an enclosed migration takes effect
\* once, exactly if it is recorded, and none is recorded before the others of a
\* release that come before it.
THEOREM MigrationsAreAppliedOnce == MigratorSpec => []MigrationsApplyOnce
<1>1. MigratorInv => MigrationsApplyOnce
  BY DEF MigratorInv
<1> QED
  BY <1>1, MigratorStarts, MigratorStepInv, PTL DEF MigratorSpec

-----------------------------------------------------------------------------
(* The circuit breaker.                                                    *)

InvokerRows ==
    /\ breaker \in {"closed", "open", "half_open"}
    /\ calls \in [Calls -> [pc: {"idle", "running", "waiting"}, attempt: Nat]]
    /\ verdicts \in Nat

\* A closed breaker counts the failures since the last success, all of them and
\* no others.
ClosedCounts == breaker = "closed" => failures = verdicts /\ verdicts < BreakerThreshold

\* An open one was opened by the last of these, or by a probe.
OpenIsEarned ==
    breaker = "open" => verdicts > 0 /\ (probing = {} => verdicts >= BreakerThreshold)

\* A half open one has its probe out, and notes it, so that it lets no other in.
ProbeIsNoted ==
    breaker = "half_open" =>
       /\ probeInFlight
       /\ \E c \in Calls : probing = {c} /\ (refusedProbe \/ calls[c].pc # "idle")

InvokerInv == InvokerRows /\ ClosedCounts /\ OpenIsEarned /\ ProbeIsNoted

\* The breaker starts closed.
LEMMA InvokerStarts == InvokerInit => InvokerInv
BY InvokerConstants
   DEF InvokerInit, InvokerInv, InvokerRows, ClosedCounts, OpenIsEarned, ProbeIsNoted, Resting

\* A call is let through closed, or as the only probe.
LEMMA InvokeKeeps ==
    ASSUME InvokerInv, NEW c \in Calls, invoke(c)
    PROVE  InvokerInv'
<1> USE DEF InvokerInv
<1> PICK job : job = [pc |-> "running", attempt |-> 0]
  OBVIOUS
<1>1. /\ job.pc = "running"
      /\ job \in [pc: {"idle", "running", "waiting"}, attempt: Nat]
      /\ calls' = [calls EXCEPT ![c] = job] /\ UNCHANGED <<failures, verdicts>>
  BY DEF invoke
<1>2. /\ calls' \in [Calls -> [pc: {"idle", "running", "waiting"}, attempt: Nat]]
      /\ calls'[c].pc = "running"
  BY <1>1 DEF InvokerRows
<1>3. CASE breaker = "closed"
  <2>1. breaker' = "closed"
    BY <1>3 DEF invoke
  <2> QED
    BY <1>1, <1>2, <1>3, <2>1 DEF InvokerRows, ClosedCounts, OpenIsEarned, ProbeIsNoted
<1>4. CASE breaker # "closed"
  <2>1. breaker = "open"
    BY <1>4 DEF invoke, allowInvocation, ResetOver, InvokerRows, ProbeIsNoted
  <2>2. breaker' = "half_open" /\ probeInFlight' /\ probing' = {c}
    BY <1>4, <2>1 DEF invoke
  <2> QED
    BY <1>1, <1>2, <2>2 DEF InvokerRows, ClosedCounts, OpenIsEarned, ProbeIsNoted
<1> QED
  BY <1>3, <1>4

\* A success closes the breaker and starts the count anew.
LEMMA SuccessKeeps ==
    ASSUME InvokerInv, NEW c \in Calls, succeed(c)
    PROVE  InvokerInv'
<1>1. /\ breaker' = "closed" /\ failures' = 0 /\ verdicts' = 0
      /\ calls' = [calls EXCEPT ![c] = Resting]
  BY DEF succeed, recordSuccess
<1>2. InvokerRows'
  BY <1>1 DEF InvokerInv, InvokerRows, Resting
<1> QED
  BY <1>1, <1>2, InvokerConstants DEF InvokerInv, ClosedCounts, OpenIsEarned, ProbeIsNoted

\* A call that goes on, or whose end tells the breaker nothing, changes what is
\* noted of the probe only if it is the probe.
LEMMA CallMoves ==
    ASSUME InvokerInv, NEW c \in Calls,
           NEW job \in [pc: {"idle", "running", "waiting"}, attempt: Nat],
           calls' = [calls EXCEPT ![c] = job],
           UNCHANGED <<breaker, failures, probeInFlight, verdicts, probing>>,
           refusedProbe => refusedProbe',
           job.pc = "idle" /\ c \in probing => refusedProbe'
    PROVE  InvokerInv'
<1> USE DEF InvokerInv
<1>1. InvokerRows'
  BY DEF InvokerRows
<1>2. \A e \in Calls : e # c => calls'[e] = calls[e]
  BY DEF InvokerRows
<1>3. calls'[c] = job
  BY DEF InvokerRows
<1>4. ProbeIsNoted'
  BY <1>2, <1>3 DEF ProbeIsNoted
<1> QED
  BY <1>1, <1>4 DEF ClosedCounts, OpenIsEarned

\* A failure counts, and opens the breaker at the threshold or as the probe's.
LEMMA FailureKeeps ==
    ASSUME InvokerInv, NEW c \in Calls, recordFailure, verdicts' = verdicts + 1,
           calls' = [calls EXCEPT ![c] = Resting], UNCHANGED probing
    PROVE  InvokerInv'
<1> USE InvokerConstants
<1> USE DEF InvokerInv
<1>1. /\ breaker' \in {"closed", "open"}
      /\ verdicts' \in Nat /\ verdicts' > 0
      /\ InvokerRows'
  BY DEF recordFailure, InvokerRows, Resting
<1>2. ClosedCounts'
  BY <1>1 DEF recordFailure, InvokerRows, ClosedCounts
<1>3. OpenIsEarned'
  BY <1>1 DEF recordFailure, InvokerRows, ClosedCounts, OpenIsEarned, ProbeIsNoted
<1> QED
  BY <1>1, <1>2, <1>3 DEF ProbeIsNoted

\* An attempt that fails is retried, or counts, or was refused elsewhere.
LEMMA AttemptKeeps ==
    ASSUME InvokerInv, NEW c \in Calls, NEW retryable \in BOOLEAN, NEW refusal \in BOOLEAN,
           failAttempt(c, retryable, refusal)
    PROVE  InvokerInv'
<1>1. UNCHANGED probing
  BY DEF failAttempt
<1>2. CASE /\ calls' = [calls EXCEPT ![c].pc = "waiting"]
           /\ UNCHANGED <<breaker, failures, probeInFlight, verdicts, refusedProbe>>
  <2> PICK job : job = [calls[c] EXCEPT !.pc = "waiting"]
    OBVIOUS
  <2>1. /\ job \in [pc: {"idle", "running", "waiting"}, attempt: Nat] /\ job.pc = "waiting"
        /\ calls' = [calls EXCEPT ![c] = job]
    BY <1>2 DEF InvokerInv, InvokerRows
  <2> QED
    BY <1>1, <1>2, <2>1, CallMoves
<1>3. CASE /\ calls' = [calls EXCEPT ![c] = Resting]
           /\ refusedProbe' = (refusedProbe \/ c \in probing)
           /\ UNCHANGED <<breaker, failures, probeInFlight, verdicts>>
  <2>1. Resting \in [pc: {"idle", "running", "waiting"}, attempt: Nat]
    BY DEF Resting
  <2> QED
    BY <1>1, <1>3, <2>1, CallMoves
<1>4. CASE calls' = [calls EXCEPT ![c] = Resting] /\ recordFailure /\ verdicts' = verdicts + 1
  BY <1>1, <1>4, FailureKeeps
<1> QED
  BY <1>2, <1>3, <1>4 DEF failAttempt

\* Every step keeps the invariant.
LEMMA InvokerStepInv == InvokerInv /\ [InvokerNext]_invokerVars => InvokerInv'
<1> SUFFICES ASSUME InvokerInv, [InvokerNext]_invokerVars
             PROVE  InvokerInv'
  OBVIOUS
<1>1. ASSUME NEW c \in Calls, retry(c)
      PROVE  InvokerInv'
  <2> PICK job : job = [pc |-> "running", attempt |-> calls[c].attempt + 1]
    OBVIOUS
  <2>1. /\ job \in [pc: {"idle", "running", "waiting"}, attempt: Nat] /\ job.pc = "running"
        /\ calls' = [calls EXCEPT ![c] = job]
    BY <1>1 DEF retry, InvokerInv, InvokerRows
  <2>2. UNCHANGED <<breaker, failures, probeInFlight, verdicts, probing, refusedProbe>>
    BY <1>1 DEF retry
  <2> QED
    BY <2>1, <2>2, CallMoves
<1>2. CASE invokerTick \/ UNCHANGED invokerVars
  BY <1>2 DEF invokerTick, invokerVars, InvokerInv, InvokerRows, ClosedCounts, OpenIsEarned,
              ProbeIsNoted
<1> QED
  BY <1>1, <1>2, InvokeKeeps, SuccessKeeps, AttemptKeeps DEF InvokerNext

\* The invariant says what the breaker holds.
LEMMA InvokerInvHolds == InvokerInv => BreakerHolds
<1> SUFFICES ASSUME InvokerInv PROVE BreakerHolds
  OBVIOUS
<1>1. OneProbe
  <2> SUFFICES ASSUME breaker = "half_open"
               PROVE  /\ Cardinality(probing) = 1
                      /\ refusedProbe \/ \E c \in probing : calls[c].pc # "idle"
    BY DEF OneProbe
  <2>1. PICK c \in Calls : probing = {c} /\ (refusedProbe \/ calls[c].pc # "idle")
    BY DEF InvokerInv, ProbeIsNoted
  <2> QED
    BY <2>1, FS_Singleton
<1>2. ClosedIsEarned
  BY DEF InvokerInv, ClosedCounts, OpenIsEarned, ClosedIsEarned
<1> QED
  BY <1>1, <1>2 DEF BreakerHolds

\* For any callers, thresholds and retries: half open, one call was let through
\* to probe; the breaker is closed only below its threshold of failures in a row,
\* and open only after a failure.
THEOREM BreakerStaysEarned == InvokerSpec => []BreakerHolds
BY InvokerStarts, InvokerStepInv, InvokerInvHolds, PTL DEF InvokerSpec

-----------------------------------------------------------------------------
(* The types of the parts, where their invariants do not name them.        *)

\* What the feed's batches hold.
BatchRecords ==
    [status : {"none", "started", "completed", "failed"}, accepted : {0, 1}]

BatchTypes == feedBatches \in [FeedBatches -> BatchRecords]

\* The feed's invariant and the rest of its types are its type invariant.
LEMMA BatchTypesTell == FeedInv /\ BatchTypes => FeedTypeOK
BY DEF FeedInv, FeedRows, BatchTypes, BatchRecords, FeedTypeOK

\* The feed starts with its types.
LEMMA BatchTypesStart == FeedInit => BatchTypes
BY DEF FeedInit, BatchTypes, BatchRecords

\* Every step of the feed keeps its types.
LEMMA BatchTypesStep == BatchTypes /\ [FeedNext]_feedVars => BatchTypes'
<1> SUFFICES ASSUME BatchTypes, [FeedNext]_feedVars PROVE BatchTypes'
  OBVIOUS
<1>1. ASSUME NEW b \in FeedBatches, NEW s \in {"started", "failed"},
             feedBatches' = [feedBatches EXCEPT ![b].status = s]
      PROVE  BatchTypes'
  <2> PICK row : row = [feedBatches[b] EXCEPT !.status = s]
    OBVIOUS
  <2>1. feedBatches[b] \in BatchRecords
    BY DEF BatchTypes
  <2>2. row \in BatchRecords
    BY <2>1 DEF BatchRecords
  <2>3. feedBatches' = [feedBatches EXCEPT ![b] = row]
    BY <1>1
  <2> QED
    BY <2>2, <2>3 DEF BatchTypes
<1>2. ASSUME NEW b \in FeedBatches, NEW accepted \in {0, 1}, completeBatch(b, accepted)
      PROVE  BatchTypes'
  <2> PICK row : row = [status |-> "completed", accepted |-> accepted]
    OBVIOUS
  <2>1. row \in BatchRecords
    BY DEF BatchRecords
  <2>2. feedBatches' = [feedBatches EXCEPT ![b] = row]
    BY <1>2 DEF completeBatch
  <2> QED
    BY <2>1, <2>2 DEF BatchTypes
<1>3. ASSUME NEW b \in FeedBatches, startBatch(b) \/ failBatch(b)
      PROVE  BatchTypes'
  BY <1>1, <1>3 DEF startBatch, failBatch
<1>4. CASE UNCHANGED feedBatches
  BY <1>4 DEF BatchTypes
<1>5. CASE UNCHANGED feedVars
  BY <1>4, <1>5 DEF feedVars
<1>6. ASSUME NEW g \in FeedGoods, NEW runtime \in RuntimeIds, NEW row \in RowKeys,
             NEW price \in FeedPrices, NEW b \in FeedBatches,
             upsertFeedOffer(g, runtime, row, price, b)
      PROVE  BatchTypes'
  BY <1>4, <1>6 DEF upsertFeedOffer
<1>7. ASSUME NEW g \in FeedGoods, NEW runtime \in RuntimeIds, upsertProduct(g, runtime)
      PROVE  BatchTypes'
  BY <1>4, <1>7 DEF upsertProduct
<1>8. ASSUME NEW i \in Importers, NEW g \in FeedGoods, NEW e \in Evidence, NEW price \in FeedPrices,
             persistAsks(i, g, e, price)
      PROVE  BatchTypes'
  BY <1>4, <1>8 DEF persistAsks
<1>9. ASSUME NEW i \in Importers, NEW runtime \in RuntimeIds, persistInserts(i, runtime)
      PROVE  BatchTypes'
  BY <1>4, <1>9 DEF persistInserts
<1> QED
  BY <1>2, <1>3, <1>5, <1>6, <1>7, <1>8, <1>9 DEF FeedNext

\* What the catalogue and its clock hold.
CatalogueTypes ==
    /\ catalogue \in [CommerceOffers ->
          [known : BOOLEAN, sale : SalePrices \cup {0}, verifiedAt : 0..CommerceEnd]]
    /\ commerceClock \in 0..CommerceEnd

\* The catalogue's invariant and the rest of its types are its type invariant.
LEMMA CatalogueTypesTell == CommerceInv /\ CatalogueTypes => CommerceTypeOK
BY DEF CommerceInv, CommerceRows, CatalogueTypes, CommerceTypeOK

\* The catalogue starts with its types.
LEMMA CatalogueTypesStart == CommerceInit => CatalogueTypes
BY CommerceConstants DEF CommerceConstants, CommerceInit, CatalogueTypes, NoOffer

\* Every step of the catalogue keeps its types.
LEMMA CatalogueTypesStep == CatalogueTypes /\ [CommerceNext]_commerceVars => CatalogueTypes'
<1> SUFFICES ASSUME CatalogueTypes, [CommerceNext]_commerceVars PROVE CatalogueTypes'
  OBVIOUS
<1> USE CommerceConstants DEF CommerceConstants
<1>1. CASE UNCHANGED <<catalogue, commerceClock>>
  BY <1>1 DEF CatalogueTypes
<1>2. ASSUME NEW o \in CommerceOffers, NEW sale \in SalePrices, NEW at \in 0..CommerceEnd,
             upsertOffer(o, sale, at)
      PROVE  CatalogueTypes'
  <2> PICK offer : offer = [known |-> TRUE, sale |-> sale, verifiedAt |-> at]
    OBVIOUS
  <2>1. offer \in [known : BOOLEAN, sale : SalePrices \cup {0}, verifiedAt : 0..CommerceEnd]
    OBVIOUS
  <2>2. catalogue' = [catalogue EXCEPT ![o] = offer] /\ commerceClock' = commerceClock
    BY <1>2 DEF upsertOffer
  <2> QED
    BY <2>1, <2>2 DEF CatalogueTypes
<1>3. ASSUME NEW o \in CommerceOffers, upsertOfferRejected(o)
      PROVE  CatalogueTypes'
  <2>1. NoOffer \in [known : BOOLEAN, sale : SalePrices \cup {0}, verifiedAt : 0..CommerceEnd]
    BY DEF NoOffer
  <2> QED
    BY <1>3, <2>1 DEF upsertOfferRejected, CatalogueTypes
<1>4. ASSUME NEW o \in CommerceOffers, NEW sale \in SalePrices, recordPriceSnapshot(o, sale)
      PROVE  CatalogueTypes'
  BY <1>1, <1>4 DEF recordPriceSnapshot
<1>5. ASSUME NEW w \in PromotionWindows, NEW verified \in BOOLEAN, upsertPromotion(w, verified)
      PROVE  CatalogueTypes'
  BY <1>1, <1>5 DEF upsertPromotion
<1>6. ASSUME NEW o, NEW type, NEW value, NEW p, NEW asked, revalidateCommercialClaim(o, type, value, p, asked)
      PROVE  CatalogueTypes'
  BY <1>1, <1>6 DEF revalidateCommercialClaim
<1>7. CASE commerceTime
  BY <1>7 DEF commerceTime, CatalogueTypes
<1>8. CASE UNCHANGED commerceVars
  BY <1>1, <1>8 DEF commerceVars
<1> QED
  BY <1>2, <1>3, <1>4, <1>5, <1>6, <1>7, <1>8 DEF CommerceNext

\* Whom the log of escalations names.
LoggedTargets ==
    \A e \in escalations : e[2] \in Persons \cup Services \cup ApiKeys \cup {"tenant"}

\* The invariant of identity and the types of its log are its type invariant.
LEMMA LoggedTargetsTell == IdentityInv /\ LoggedTargets => IdentityTypeOK
<1> SUFFICES ASSUME IdentityInv, LoggedTargets PROVE IdentityTypeOK
  OBVIOUS
<1>1. ASSUME NEW k \in ApiKeys PROVE apiKeys[k].actions \subseteq KeyActions
  BY DEF IdentityInv, IdentityRows
<1> QED
  BY <1>1 DEF IdentityInv, IdentityRows, LoggedTargets, IdentityTypeOK

\* The log of identity starts with its types.
LEMMA LoggedTargetsStart == IdentityInit => LoggedTargets
BY DEF IdentityInit, LoggedTargets

\* Every step of identity keeps the types of its log.
LEMMA LoggedTargetsStep == LoggedTargets /\ [IdentityNext]_identityVars => LoggedTargets'
<1> SUFFICES ASSUME LoggedTargets, [IdentityNext]_identityVars PROVE LoggedTargets'
  OBVIOUS
<1>1. ASSUME NEW action, NEW target \in Persons \cup Services \cup ApiKeys \cup {"tenant"},
             escalate(action, target)
      PROVE  LoggedTargets'
  <2> PICK e : e = <<action, target>>
    OBVIOUS
  <2>1. e[2] = target
    OBVIOUS
  <2>2. escalations' = escalations \cup {e}
    BY <1>1 DEF escalate
  <2> QED
    BY <2>1, <2>2 DEF LoggedTargets
<1>2. CASE UNCHANGED escalations
  BY <1>2 DEF LoggedTargets
<1>3. ASSUME NEW u \in Persons, createUser(u) \/ revokeSession(u)
      PROVE  LoggedTargets'
  BY <1>1, <1>2, <1>3 DEF createUser, revokeSession
<1>4. ASSUME NEW u \in Persons, NEW ttl, startSession(u, ttl)
      PROVE  LoggedTargets'
  BY <1>2, <1>4 DEF startSession
<1>5. ASSUME NEW u \in Persons, NEW x, NEW i,
             linkExternalIdentity(u, x) \/ unlinkExternalIdentities(u, i)
      PROVE  LoggedTargets'
  BY <1>1, <1>5 DEF linkExternalIdentity, unlinkExternalIdentities
<1>6. ASSUME NEW s \in Services, registerServiceIdentity(s)
      PROVE  LoggedTargets'
  BY <1>1, <1>6 DEF registerServiceIdentity
<1>7. ASSUME NEW k \in ApiKeys, NEW actions, issueApiKey(k, actions)
      PROVE  LoggedTargets'
  BY <1>1, <1>7 DEF issueApiKey
<1>8. ASSUME NEW k \in ApiKeys, revokeApiKey(k) \/ disableApiKey(k)
      PROVE  LoggedTargets'
  BY <1>1, <1>8 DEF revokeApiKey, disableApiKey, Withdraw
<1>9. ASSUME NEW ttl, provisionAdminBootstrap(ttl)
      PROVE  LoggedTargets'
  BY <1>1, <1>9 DEF provisionAdminBootstrap
<1>10. CASE disableBootstrap
  BY <1>1, <1>10 DEF disableBootstrap
<1>11. CASE identityTime \/ UNCHANGED identityVars
  BY <1>2, <1>11 DEF identityTime, identityVars
<1> QED
  BY <1>3, <1>4, <1>5, <1>6, <1>7, <1>8, <1>9, <1>10, <1>11 DEF IdentityNext

\* What the gate remembers.
GateTypes ==
    /\ switches \subseteq [switch : SwitchChoices, active : BOOLEAN]
    /\ verdict \in Decisions \cup {"none"}

\* The gate's invariant and the rest of its types are its type invariant.
LEMMA GateTypesTell == AutomationInv /\ GateTypes => AutomationTypeOK
BY DEF AutomationInv, GateTypes, AutomationTypeOK, CreatedPolicies

\* The gate starts with its types.
LEMMA GateTypesStart == AutomationInit => GateTypes
BY DEF AutomationInit, GateTypes

\* Every step of the gate keeps its types.
LEMMA GateTypesStep == GateTypes /\ [AutomationNext]_automationVars => GateTypes'
<1> SUFFICES ASSUME GateTypes, [AutomationNext]_automationVars PROVE GateTypes'
  OBVIOUS
<1>1. ASSUME NEW s \in SwitchChoices, NEW active \in BOOLEAN, postKillSwitch(s, active)
      PROVE  GateTypes'
  BY <1>1 DEF postKillSwitch, GateTypes
<1>2. ASSUME NEW a \in ActionChoices, NEW c \in CounterChoices, NEW blocked \in BOOLEAN,
             gateEvaluate(a, c, blocked)
      PROVE  GateTypes'
  <2>1. Decide(policy, a, c, Active) \in Decisions
    BY DEF Decide, Decisions
  <2> QED
    BY <1>2, <2>1 DEF gateEvaluate, GateTypes, Decisions
<1>3. CASE UNCHANGED <<switches, verdict>>
  BY <1>3 DEF GateTypes
<1>4. ASSUME NEW p, putPolicy(p) \/ upsertPolicy(p)
      PROVE  GateTypes'
  BY <1>3, <1>4 DEF putPolicy, upsertPolicy
<1>5. ASSUME NEW s \in SwitchChoices, NEW target,
             insertKillSwitch(s) \/ clearKillSwitch(s.scope, target)
      PROVE  GateTypes'
  BY <1>3, <1>5 DEF insertKillSwitch, clearKillSwitch
<1>6. CASE UNCHANGED automationVars
  BY <1>3, <1>6 DEF automationVars
<1> QED
  BY <1>1, <1>2, <1>4, <1>5, <1>6 DEF AutomationNext

\* A file that is recorded has a checksum that a release gives it.
ReleasesTell ==
    \A m \in Migrations :
       recorded[m] \in {"none"} \cup {r[m] : r \in {s \in Releases : m \in DOMAIN s}}

\* The migrator's invariant and what the releases tell are its type invariant.
LEMMA ReleasesTellTypes == MigratorInv /\ ReleasesTell => MigratorTypeOK
BY DEF MigratorInv, WorkIsBehind, ReleasesTell, MigratorTypeOK

\* The migrator starts with what the releases tell.
LEMMA ReleasesTellStart == MigratorInit => ReleasesTell
BY DEF MigratorInit, ReleasesTell

\* Every step of the migrator keeps what the releases tell.
LEMMA ReleasesTellStep == MigratorInv /\ ReleasesTell /\ [MigratorNext]_migratorVars => ReleasesTell'
<1> SUFFICES ASSUME MigratorInv, ReleasesTell, [MigratorNext]_migratorVars PROVE ReleasesTell'
  OBVIOUS
<1>1. CASE UNCHANGED recorded
  BY <1>1 DEF ReleasesTell
<1>2. ASSUME NEW p \in Migrators, NEW m \in Migrations, record(p, m), recorded' # recorded
      PROVE  ReleasesTell'
  <2>1. /\ Holds(p, m)
        /\ recorded' = [recorded EXCEPT ![m] = migrating[p].release[m]]
    BY <1>2 DEF record
  <2>2. migrating[p].release \in Releases /\ m \in DOMAIN migrating[p].release
    BY <2>1 DEF Holds, IsNext, MigratorInv, WorkIsBehind
  <2>3. recorded \in [Migrations -> Checksums]
    BY DEF MigratorInv, MigratorRows
  <2>4. ASSUME NEW k \in Migrations, k # m
        PROVE  recorded'[k] = recorded[k]
    BY <2>1, <2>3, <2>4
  <2>5. recorded'[m] = migrating[p].release[m]
    BY <2>1, <2>3
  <2> QED
    BY <2>2, <2>4, <2>5 DEF ReleasesTell
<1>3. ASSUME NEW p \in Migrators, NEW release \in Releases, plan(p, release)
      PROVE  ReleasesTell'
  BY <1>1, <1>3 DEF plan
<1>4. ASSUME NEW p \in Migrators, NEW m \in Migrations, applyBody(p, m)
      PROVE  ReleasesTell'
  BY <1>1, <1>4 DEF applyBody
<1>5. ASSUME NEW p \in Migrators, migratorCrash(p)
      PROVE  ReleasesTell'
  BY <1>1, <1>5 DEF migratorCrash
<1>6. CASE UNCHANGED migratorVars
  BY <1>1, <1>6 DEF migratorVars
<1> QED
  BY <1>1, <1>2, <1>3, <1>4, <1>5, <1>6 DEF MigratorNext

\* What the breaker counts, and how far a call has got: one that waits has a
\* retry left.
CallRecordTypes == [pc : {"idle", "running", "waiting"}, attempt : 0..MaxRetries]

InvokerTypes ==
    /\ failures \in Nat /\ openedAt \in Nat /\ probeInFlight \in BOOLEAN
    /\ calls \in [Calls -> CallRecordTypes]
    /\ \A c \in Calls : calls[c].pc = "waiting" => calls[c].attempt < MaxRetries
    /\ let \in 0..CallLimit /\ invokerClock \in 0..InvokerEnd
    /\ probing \subseteq Calls /\ refusedProbe \in BOOLEAN

\* The invoker's invariant and the rest of its types are its type invariant.
LEMMA InvokerTypesTell == InvokerInv /\ InvokerTypes => InvokerTypeOK
BY DEF InvokerInv, InvokerRows, InvokerTypes, CallRecordTypes, InvokerTypeOK

\* The invoker starts with its types.
LEMMA InvokerTypesStart == InvokerInit => InvokerTypes
<1> SUFFICES ASSUME InvokerInit PROVE InvokerTypes
  OBVIOUS
<1>1. Resting \in CallRecordTypes /\ Resting.pc # "waiting"
  BY InvokerConstants DEF InvokerConstants, CallRecordTypes, Resting
<1>2. 0 \in 0..CallLimit /\ 0 \in 0..InvokerEnd
  BY InvokerConstants DEF InvokerConstants
<1> QED
  BY <1>1, <1>2 DEF InvokerInit, InvokerTypes

\* A call that gets a record of the kind keeps them all of the kind.
LEMMA CallsStayTyped ==
    ASSUME InvokerTypes, NEW c \in Calls, NEW job \in CallRecordTypes,
           job.pc = "waiting" => job.attempt < MaxRetries,
           calls' = [calls EXCEPT ![c] = job]
    PROVE  /\ calls' \in [Calls -> CallRecordTypes]
           /\ \A d \in Calls : calls'[d].pc = "waiting" => calls'[d].attempt < MaxRetries
<1>1. calls \in [Calls -> CallRecordTypes]
  BY DEF InvokerTypes
<1>2. \A d \in Calls : calls'[d] = IF d = c THEN job ELSE calls[d]
  BY <1>1
<1>3. calls' \in [Calls -> CallRecordTypes]
  BY <1>1
<1> QED
  BY <1>2, <1>3 DEF InvokerTypes

\* Every step of the invoker keeps its types.
LEMMA InvokerTypesStep == InvokerTypes /\ [InvokerNext]_invokerVars => InvokerTypes'
<1> SUFFICES ASSUME InvokerTypes, [InvokerNext]_invokerVars PROVE InvokerTypes'
  OBVIOUS
<1> USE InvokerConstants DEF InvokerConstants
<1>0. Resting \in CallRecordTypes /\ Resting.pc # "waiting"
  BY DEF Resting, CallRecordTypes
<1>1. ASSUME let < CallLimit, NEW c \in Calls, invoke(c)
      PROVE  InvokerTypes'
  <2> PICK job : job = [pc |-> "running", attempt |-> 0]
    OBVIOUS
  <2>1. job \in CallRecordTypes /\ job.pc # "waiting"
    BY DEF CallRecordTypes
  <2>2. calls' = [calls EXCEPT ![c] = job]
    BY <1>1 DEF invoke
  <2>3. /\ let' = let + 1 /\ UNCHANGED <<failures, openedAt, invokerClock>>
        /\ probeInFlight' \in BOOLEAN /\ refusedProbe' \in BOOLEAN /\ probing' \subseteq Calls
    BY <1>1 DEF invoke, InvokerTypes
  <2>4. let' \in 0..CallLimit
    BY <1>1, <2>3 DEF InvokerTypes
  <2> QED
    BY <2>1, <2>2, <2>3, <2>4, CallsStayTyped DEF InvokerTypes
<1>2. ASSUME NEW c \in Calls, succeed(c)
      PROVE  InvokerTypes'
  BY <1>0, <1>2, CallsStayTyped DEF succeed, recordSuccess, InvokerTypes
<1>3. ASSUME NEW c \in Calls, NEW retryable \in BOOLEAN, NEW refusal \in BOOLEAN,
             failAttempt(c, retryable, refusal)
      PROVE  InvokerTypes'
  <2>1. UNCHANGED <<let, invokerClock, probing>>
    BY <1>3 DEF failAttempt
  <2>2. CASE retryable /\ calls[c].attempt < MaxRetries
    <3> PICK job : job = [calls[c] EXCEPT !.pc = "waiting"]
      OBVIOUS
    <3>1. calls[c] \in CallRecordTypes
      BY DEF InvokerTypes
    <3>2. job \in CallRecordTypes /\ job.attempt = calls[c].attempt
      BY <3>1 DEF CallRecordTypes
    <3>3. /\ calls' = [calls EXCEPT ![c] = job]
          /\ UNCHANGED <<failures, openedAt, probeInFlight, refusedProbe>>
      BY <1>3, <2>2 DEF failAttempt
    <3> QED
      BY <2>1, <2>2, <3>2, <3>3, CallsStayTyped DEF InvokerTypes
  <2>3. CASE ~(retryable /\ calls[c].attempt < MaxRetries)
    <3>1. calls' = [calls EXCEPT ![c] = Resting]
      BY <1>3, <2>3 DEF failAttempt
    <3>2. CASE refusal
      <4>1. /\ refusedProbe' = (refusedProbe \/ c \in probing)
            /\ UNCHANGED <<failures, openedAt, probeInFlight>>
        BY <1>3, <2>3, <3>2 DEF failAttempt
      <4> QED
        BY <1>0, <2>1, <3>1, <4>1, CallsStayTyped DEF InvokerTypes
    <3>3. CASE ~refusal
      <4>1. recordFailure /\ UNCHANGED refusedProbe
        BY <1>3, <2>3, <3>3 DEF failAttempt
      <4>2. failures' \in Nat
        <5>1. PICK n \in Nat : n = failures + 1
          BY DEF InvokerTypes
        <5>2. CASE breaker = "half_open"
          <6>1. failures' = Max({n, BreakerThreshold})
            BY <4>1, <5>1, <5>2 DEF recordFailure
          <6> QED
            BY <6>1, MaxOfTwo
        <5> QED
          BY <4>1, <5>1, <5>2 DEF recordFailure
      <4>3. probeInFlight' = FALSE /\ openedAt' \in Nat
        BY <4>1 DEF recordFailure, InvokerTypes
      <4> QED
        BY <1>0, <2>1, <3>1, <4>1, <4>2, <4>3, CallsStayTyped DEF InvokerTypes
    <3> QED
      BY <3>2, <3>3
  <2> QED
    BY <2>2, <2>3
<1>4. ASSUME NEW c \in Calls, retry(c)
      PROVE  InvokerTypes'
  <2> PICK job : job = [pc |-> "running", attempt |-> calls[c].attempt + 1]
    OBVIOUS
  <2>1. calls[c] \in CallRecordTypes /\ calls[c].attempt < MaxRetries
    BY <1>4 DEF retry, InvokerTypes
  <2>2. calls[c].attempt \in 0..MaxRetries
    BY <2>1 DEF CallRecordTypes
  <2>3. job \in CallRecordTypes /\ job.pc # "waiting"
    BY <2>1, <2>2 DEF CallRecordTypes
  <2>4. /\ calls' = [calls EXCEPT ![c] = job]
        /\ UNCHANGED <<breaker, failures, openedAt, probeInFlight, let, invokerClock, probing,
                       verdicts, refusedProbe>>
    BY <1>4 DEF retry
  <2> QED
    BY <2>3, <2>4, CallsStayTyped DEF InvokerTypes
<1>5. CASE invokerTick
  BY <1>5 DEF invokerTick, InvokerTypes
<1>6. CASE UNCHANGED invokerVars
  BY <1>6 DEF invokerVars, InvokerTypes
<1> QED
  BY <1>1, <1>2, <1>3, <1>4, <1>5, <1>6 DEF InvokerNext

-----------------------------------------------------------------------------
(* The parts beside each other.                                            *)

\* The invariants of the parts; all hold whichever part moves.
RuntimesInv ==
    /\ FeedInv /\ CommerceInv /\ IdentityInv /\ AutomationInv
    /\ RegistryInv /\ MigratorInv /\ InvokerInv
    /\ PolicyInv /\ BucketInv /\ LimiterInv
    /\ BillingInv /\ MemoryInv /\ AuditInv /\ OutreachInv /\ BusInv
    /\ StoreInv /\ AnalyticsInv /\ TelemetryInv
    /\ AiInv /\ ContentInv /\ ExperimentsInv /\ AdviceInv

\* All parts start together.
LEMMA RuntimesStart == RuntimesInit => RuntimesInv
BY FeedStarts, CommerceStarts, IdentityStarts, AutomationStarts, RegistryStarts,
   MigratorStarts, InvokerStarts, PolicyStarts, BucketStarts, LimiterStarts,
   BillingStarts, MemoryStarts, AuditStarts, OutreachStarts, BusStarts, StoreStarts,
   AnalyticsStarts, TelemetryStarts, AiStarts, ContentStarts, ExperimentsStart, AdviceStarts
   DEF RuntimesInit, RuntimesInv

\* In a step a part moves by itself or stays.
LEMMA PartsMoveAlone ==
    ASSUME RuntimesNext
    PROVE  /\ [FeedNext]_feedVars
           /\ [CommerceNext]_commerceVars
           /\ [IdentityNext]_identityVars
           /\ [AutomationNext]_automationVars
           /\ [RegistryNext]_registryVars
           /\ [MigratorNext]_migratorVars
           /\ [InvokerNext]_invokerVars
           /\ [ProviderNext]_policyVars
           /\ [BucketNext]_bucketVars
           /\ [LimiterNext]_limiterVars
           /\ [BillingNext]_billingVars
           /\ [MemoryNext]_memoryVars
           /\ [AuditNext]_auditVars
           /\ [OutreachNext]_outreachVars
           /\ [BusNext]_busVars
           /\ [StoreNext]_storeVars
           /\ [AnalyticsNext]_analyticsVars
           /\ [TelemetryNext]_telemetryVars
           /\ [AiNext]_aiVars
           /\ [ContentNext]_contentVars
           /\ [ExperimentsNext]_experimentVars
           /\ [IntelligenceNext]_intelligenceVars
BY DEF RuntimesNext, Turn

\* The invariant of all parts, for the system the run checks.
THEOREM RuntimesInvariant == RuntimesSpec => []RuntimesInv
<1> DEFINE all == <<part, vars, outreachVars, identityVars, billingVars,
        memoryVars, commerceVars, analyticsVars, storeVars, automationVars, intelligenceVars,
        registryVars, aiVars, contentVars, experimentVars, policyVars, invokerVars, bucketVars,
        migratorVars, limiterVars, feedVars, auditVars, busVars, telemetryVars>>
<1>1. RuntimesInv /\ [RuntimesNext]_all => RuntimesInv'
  <2> SUFFICES ASSUME RuntimesInv, [RuntimesNext]_all
               PROVE  RuntimesInv'
    OBVIOUS
  <2>1. /\ [FeedNext]_feedVars
        /\ [CommerceNext]_commerceVars
        /\ [IdentityNext]_identityVars
        /\ [AutomationNext]_automationVars
        /\ [RegistryNext]_registryVars
        /\ [MigratorNext]_migratorVars
        /\ [InvokerNext]_invokerVars
        /\ [ProviderNext]_policyVars
        /\ [BucketNext]_bucketVars
        /\ [LimiterNext]_limiterVars
        /\ [BillingNext]_billingVars
        /\ [MemoryNext]_memoryVars
        /\ [AuditNext]_auditVars
        /\ [OutreachNext]_outreachVars
        /\ [BusNext]_busVars
        /\ [StoreNext]_storeVars
        /\ [AnalyticsNext]_analyticsVars
        /\ [TelemetryNext]_telemetryVars
        /\ [AiNext]_aiVars
        /\ [ContentNext]_contentVars
        /\ [ExperimentsNext]_experimentVars
        /\ [IntelligenceNext]_intelligenceVars
    <3>1. CASE RuntimesNext
      BY <3>1, PartsMoveAlone
    <3>2. CASE UNCHANGED all
      BY <3>2
    <3> QED
      BY <3>1, <3>2
  <2> QED
    BY <2>1, FeedStepInv, CommerceStepInv, IdentityStepInv, AutomationStepInv,
       RegistryStepInv, MigratorStepInv, InvokerStepInv, PolicyStepInv, BucketStepInv,
       LimiterKeeps, BillingStepInv, MemoryStepInv, AuditStepInv, OutreachStepInv,
       BusStepInv, StoreStepInv, AnalyticsStepInv, TelemetryStepInv, AiStepInv,
       ContentStepInv, ExperimentsStepInv, AdviceStepInv
       DEF RuntimesInv
<1> QED
  BY <1>1, RuntimesStart, PTL DEF RuntimesSpec

\* The feed's rows keep the identity a product got first, and an allowed claim
\* has its evidence: whatever is imported, lost, rejected or recorded.
THEOREM CommerceStaysSound == RuntimesSpec => []CommerceHolds
<1>1. RuntimesInv => CommerceHolds
  BY DEF RuntimesInv, FeedInv, CommerceInv, CommerceHolds
<1> QED
  BY <1>1, RuntimesInvariant, PTL

\* What users, keys, agents and models may do stays within what people allowed:
\* the log tells who may come in, a stop holds, and no model is served unproven.
THEOREM DecisionsStayBounded == RuntimesSpec => []DecisionsAreBounded
<1>1. RuntimesInv => DecisionsAreBounded
  BY IdentityInvAccounts, AutomationInvBounds DEF RuntimesInv, RegistryInv, DecisionsAreBounded
<1> QED
  BY <1>1, RuntimesInvariant, PTL

\* Processes that migrate at once apply an enclosed file once, and of the calls
\* to a provider that is down one is the probe.
THEOREM InfrastructureStaysSound == RuntimesSpec => []InfrastructureHolds
<1>1. RuntimesInv => InfrastructureHolds
  BY InvokerInvHolds DEF RuntimesInv, MigratorInv, InfrastructureHolds
<1> QED
  BY <1>1, RuntimesInvariant, PTL

\* Calls to providers stay within policy, approvals and rates: the newest
\* declaration decides, no grant lifts the rate, and no clock lifts the limit.
THEOREM ProvidersStayWithin == RuntimesSpec => []ProvidersHold
<1>1. RuntimesInv => ProvidersHold
  BY PolicyInvGoverns, BucketInvKeepsRate DEF RuntimesInv, LimiterInv, ProvidersHold
<1> QED
  BY <1>1, RuntimesInvariant, PTL

\* The books, the affiliate records and the log of a tenant tell what happened:
\* no usage is free or charged twice, every record rests on one of its own tenant,
\* and no change of the log escapes its check.
THEOREM TenantAccountsStayTrue == RuntimesSpec => []TenantAccountsHold
<1>1. RuntimesInv => TenantAccountsHold
  BY BillingInvTells, MemoryInvTells, AuditInvTells DEF RuntimesInv, TenantAccountsHold
<1> QED
  BY <1>1, RuntimesInvariant, PTL

\* Messages and events: no contact is written to beyond caps, budget or opt-out,
\* none twice within the retention, and every handler that stays is called once.
THEOREM OutreachStaysWithin == RuntimesSpec => []OutreachHolds
<1>1. RuntimesInv => OutreachHolds
  BY OutreachInvTells, BusInvTells DEF RuntimesInv, OutreachHolds
<1> QED
  BY <1>1, RuntimesInvariant, PTL

\* Figures about the same events agree: a commission is given out to the minor
\* unit, a window's reports and a store's totals agree, and so do spans and rows.
THEOREM FiguresStayInAgreement == RuntimesSpec => []FiguresAddUp
<1>1. RuntimesInv => FiguresAddUp
  BY AnalyticsInvTells, StoreInvTells, TelemetryInvTells DEF RuntimesInv, FiguresAddUp
<1> QED
  BY <1>1, RuntimesInvariant, PTL

\* What is generated was paid for and allowed, scripts fill their seconds, experiments
\* follow what was reported, and advice is current.
THEOREM ContentStaysSound == RuntimesSpec => []ContentIsSound
<1>1. RuntimesInv => ContentIsSound
  BY AiInvTells, ContentInvTells, ExperimentsInvTells, AdviceInvTells DEF RuntimesInv, ContentIsSound
<1> QED
  BY <1>1, RuntimesInvariant, PTL

-----------------------------------------------------------------------------
(* The types of the parts beside each other.                               *)

\* What the parts' own invariants leave of their types.
RuntimesTypes ==
    /\ IInv
    /\ BatchTypes /\ CatalogueTypes /\ LoggedTargets /\ GateTypes /\ ReleasesTell /\ InvokerTypes
    /\ Len(attempts) <= SendAttempts
    /\ AnalyticsTypeOK /\ AiTypes /\ ContentTypeOK /\ ExperimentsTypes /\ IntelligenceTypes

\* The parts start with what is left of their types.
LEMMA RuntimesTypesStart == RuntimesInit => RuntimesTypes
<1> SUFFICES ASSUME RuntimesInit PROVE RuntimesTypes
  OBVIOUS
<1>1. RuntimesInv
  BY RuntimesStart
<1>2. /\ Init /\ FeedInit /\ CommerceInit /\ IdentityInit /\ AutomationInit /\ MigratorInit
      /\ InvokerInit /\ OutreachInit /\ AnalyticsInit /\ AiInit /\ ContentInit
      /\ ExperimentsInit /\ IntelligenceInit
  BY DEF RuntimesInit
<1> QED
  BY <1>2, InitInv, BatchTypesStart, CatalogueTypesStart, LoggedTargetsStart,
     GateTypesStart, ReleasesTellStart, InvokerTypesStart, AttemptsStart, AnalyticsTypesStart,
     AiTypesStart, ContentTypesStart, ExperimentsTypesStart, IntelligenceTypesStart
     DEF RuntimesTypes

\* Every step of the runtimes keeps what is left of the types.
LEMMA RuntimesTypesStep ==
    ASSUME RuntimesInv, RuntimesInv', RuntimesTypes,
           [Next]_vars, [OutreachNext]_outreachVars, [IdentityNext]_identityVars,
           [CommerceNext]_commerceVars, [AnalyticsNext]_analyticsVars,
           [AutomationNext]_automationVars, [IntelligenceNext]_intelligenceVars,
           [AiNext]_aiVars, [ContentNext]_contentVars, [ExperimentsNext]_experimentVars,
           [InvokerNext]_invokerVars, [MigratorNext]_migratorVars, [FeedNext]_feedVars
    PROVE  RuntimesTypes'
<1>1. /\ OutreachInv /\ MigratorInv
      /\ AnalyticsInv /\ AnalyticsInv' /\ AiInv /\ ContentInv /\ ContentInv'
      /\ ExperimentsInv /\ AdviceInv /\ AdviceInv'
  BY DEF RuntimesInv
<1>2. IInv' /\ BatchTypes' /\ CatalogueTypes' /\ LoggedTargets' /\ GateTypes'
  BY NextInv, BatchTypesStep, CatalogueTypesStep, LoggedTargetsStep, GateTypesStep
     DEF RuntimesTypes
<1>3. ReleasesTell' /\ InvokerTypes' /\ (Len(attempts) <= SendAttempts)'
  BY <1>1, ReleasesTellStep, InvokerTypesStep, AttemptsStayFew DEF RuntimesTypes
<1>4. AnalyticsTypeOK' /\ AiTypes' /\ ContentTypeOK'
  BY <1>1, AnalyticsTypesStep, AiTypesStep, ContentTypesStep DEF RuntimesTypes
<1>5. ExperimentsTypes' /\ IntelligenceTypes'
  BY <1>1, ExperimentsTypesStep, IntelligenceTypesStep DEF RuntimesTypes
<1> QED
  BY <1>2, <1>3, <1>4, <1>5 DEF RuntimesTypes

\* What the parts keep is the type invariant of the runtimes.
LEMMA RuntimesTypesTell == RuntimesInv /\ RuntimesTypes => RuntimesTypeOK
<1> SUFFICES ASSUME RuntimesInv, RuntimesTypes PROVE RuntimesTypeOK
  OBVIOUS
<1>1. TypeOK
  BY DEF RuntimesTypes, IInv
<1>2. OutreachTypeOK /\ IdentityTypeOK /\ BillingTypeOK /\ MemoryTypeOK
  BY OutreachTypesTell, LoggedTargetsTell, BillingTypes, MemoryTypes DEF RuntimesInv, RuntimesTypes
<1>3. CommerceTypeOK /\ AnalyticsTypeOK /\ StoreTypeOK /\ AutomationTypeOK
  BY CatalogueTypesTell, GateTypesTell DEF RuntimesInv, RuntimesTypes, StoreInv
<1>4. IntelligenceTypeOK /\ RegistryTypeOK /\ AiTypeOK /\ ContentTypeOK /\ ExperimentsTypeOK
  BY IntelligenceTypesTell, AiTypesTell, ExperimentsTypesTell
     DEF RuntimesInv, RuntimesTypes, RegistryInv
<1>5. ProviderTypeOK /\ InvokerTypeOK /\ BucketTypeOK /\ MigratorTypeOK
  BY InvokerTypesTell, ReleasesTellTypes DEF RuntimesInv, RuntimesTypes, PolicyInv, BucketInv
<1>6. LimiterTypeOK /\ FeedTypeOK /\ AuditTypeOK /\ BusTypeOK /\ TelemetryTypeOK
  BY LimiterTypesTell, BatchTypesTell, AuditTypes, BusTypes, TelemetryTypes
     DEF RuntimesInv, RuntimesTypes
<1> QED
  BY <1>1, <1>2, <1>3, <1>4, <1>5, <1>6 DEF RuntimesTypeOK

\* Every variable of every part keeps its type, whichever part moves: statuses,
\* clocks, counters and queues stay within what the code stores in them.
THEOREM RuntimesTypeCorrect == RuntimesSpec => []RuntimesTypeOK
<1> DEFINE all == <<part, vars, outreachVars, identityVars, billingVars,
        memoryVars, commerceVars, analyticsVars, storeVars, automationVars, intelligenceVars,
        registryVars, aiVars, contentVars, experimentVars, policyVars, invokerVars, bucketVars,
        migratorVars, limiterVars, feedVars, auditVars, busVars, telemetryVars>>
<1>1. RuntimesInv /\ RuntimesInv' /\ RuntimesTypes /\ [RuntimesNext]_all => RuntimesTypes'
  <2> SUFFICES ASSUME RuntimesInv, RuntimesInv', RuntimesTypes, [RuntimesNext]_all
               PROVE  RuntimesTypes'
    OBVIOUS
  <2>1. /\ [Next]_vars /\ [OutreachNext]_outreachVars /\ [IdentityNext]_identityVars
        /\ [CommerceNext]_commerceVars /\ [AnalyticsNext]_analyticsVars
        /\ [AutomationNext]_automationVars /\ [IntelligenceNext]_intelligenceVars
        /\ [AiNext]_aiVars /\ [ContentNext]_contentVars /\ [ExperimentsNext]_experimentVars
        /\ [InvokerNext]_invokerVars /\ [MigratorNext]_migratorVars /\ [FeedNext]_feedVars
    <3>1. CASE RuntimesNext
      BY <3>1 DEF RuntimesNext, Turn
    <3>2. CASE UNCHANGED all
      BY <3>2
    <3> QED
      BY <3>1, <3>2
  <2> QED
    BY <2>1, RuntimesTypesStep
<1> QED
  BY <1>1, RuntimesTypesStart, RuntimesTypesTell, RuntimesInvariant, PTL DEF RuntimesSpec
==============================================================================
