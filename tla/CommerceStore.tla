--------------------------- MODULE CommerceStore -----------------------------
(***************************************************************************)
(* The commerce store of packages/affiliate-core for one tenant: offers    *)
(* that are replaced as a whole, an append-only history of observed prices *)
(* for each, promotions with a window, and the check of a commercial claim *)
(* before it is published.  Every operation is synchronous.                *)
(***************************************************************************)
EXTENDS Integers, Sequences, FiniteSets

CONSTANTS
    CommerceOffers,    \* offers, one for each providerOfferId
    ListPrice,         \* the list price of every offer, in minor units
    SalePrices,        \* sale prices providers report
    Freshness,         \* the freshness threshold of price evidence, in ticks
    PromotionWindows,  \* [from, to] of promotions that may be created
    SnapshotLimit,     \* bound on the snapshots of an offer
    CommerceEnd        \* bound on the clock

ASSUME CommerceConstants ==
    /\ SalePrices \subseteq Nat /\ ListPrice \in Nat \ {0}
    /\ Freshness \in Nat /\ CommerceEnd \in Nat
    /\ PromotionWindows \subseteq Nat \X Nat

VARIABLES
    catalogue,      \* scope.offers, none when it was never there or was lost
    snapshots,      \* scope.snapshots
    promotions,     \* scope.promotions: the verified and unverified ones
    commerceClock,
    observed,       \* history: the sale prices ever reported for an offer
    lastAllowed     \* history: the last claim that was allowed

commerceVars == <<catalogue, snapshots, promotions, commerceClock, observed, lastAllowed>>

\* Only the first two are compared with prices.
ClaimTypes == {"PRICE", "DISCOUNT", "OTHER"}

NoOffer == [known |-> FALSE, sale |-> 0, verifiedAt |-> 0]
NoClaim == [offer |-> "none"]

CommerceInit ==
    /\ catalogue = [o \in CommerceOffers |-> NoOffer]
    /\ snapshots = [o \in CommerceOffers |-> <<>>]
    /\ promotions = {}
    /\ commerceClock = 0
    /\ observed = [o \in CommerceOffers |-> {}]
    /\ lastAllowed = NoClaim

\* upsertOffer with a price and an inventory status the store accepts; the
\* provider may say that it verified them some time ago.
upsertOffer(o, sale, verifiedAt) ==
    /\ sale <= ListPrice
    /\ catalogue' = [catalogue EXCEPT ![o] =
         [known |-> TRUE, sale |-> sale, verifiedAt |-> verifiedAt]]
    /\ observed' = [observed EXCEPT ![o] = @ \cup {sale}]
    /\ UNCHANGED <<snapshots, promotions, commerceClock, lastAllowed>>

\* updateOfferRecord deletes the offer before it validates the new one: when
\* the validation throws, the offer is gone and its snapshots stay.
upsertOfferRejected(o) ==
    /\ catalogue[o].known
    /\ catalogue' = [catalogue EXCEPT ![o] = NoOffer]
    /\ UNCHANGED <<snapshots, promotions, commerceClock, observed, lastAllowed>>

\* Snapshots are kept in the order they arrive in, not in that of observedAt.
recordPriceSnapshot(o, sale) ==
    /\ catalogue[o].known
    /\ snapshots' = [snapshots EXCEPT ![o] = Append(@, sale)]
    /\ observed' = [observed EXCEPT ![o] = @ \cup {sale}]
    /\ UNCHANGED <<catalogue, promotions, commerceClock, lastAllowed>>

upsertPromotion(window, verified) ==
    /\ window[1] < window[2]
    /\ promotions' = promotions \cup {[from |-> window[1], to |-> window[2], verified |-> verified]}
    /\ UNCHANGED <<catalogue, snapshots, commerceClock, observed, lastAllowed>>

\* (mutation) A promotion is not over at the instant it ends.
PromotionStatusLate(p, now) ==
    CASE ~p.verified -> "UNKNOWN"
      [] p.verified /\ now < p.from -> "UPCOMING"
      [] p.verified /\ now > p.to -> "EXPIRED"
      [] OTHER -> "ACTIVE"

\* promotionStatus; the last tenth of the window is EXPIRING.
PromotionStatus(p, now) ==
    CASE ~p.verified -> "UNKNOWN"
      [] p.verified /\ now < p.from -> "UPCOMING"
      [] p.verified /\ now >= p.to -> "EXPIRED"
      [] p.verified /\ now >= p.from /\ now < p.to ->
           IF 10 * (p.to - now) <= p.to - p.from THEN "EXPIRING" ELSE "ACTIVE"

-----------------------------------------------------------------------------
(* The check of a claim.                                                   *)

\* (mutation) Evidence from the future counts as fresh.
IsFreshOpen(verifiedAt, asked) == asked - verifiedAt <= Freshness

IsFresh(verifiedAt, asked) == asked - verifiedAt >= 0 /\ asked - verifiedAt <= Freshness

\* The last snapshot wins over the offer, however old it is.
LatestPrice(o) == IF snapshots[o] # <<>> THEN snapshots[o][Len(snapshots[o])] ELSE catalogue[o].sale

\* computeDiscountPercent: Math.round of a percentage that is not negative.
Percent(price) == ((ListPrice - price) * 200 + ListPrice) \div (2 * ListPrice)

Matches(o, type, value) ==
    IF type = "PRICE" THEN value = LatestPrice(o)
    ELSE Percent(LatestPrice(o)) - value \in -1..1

\* (mutation) A claim that names no price needs no fresh evidence.
HasEvidenceNamed(o, type, value, asked) ==
    (type \in {"PRICE", "DISCOUNT"} /\ value # {}) =>
       /\ IsFresh(catalogue[o].verifiedAt, asked)
       /\ \A v \in value : Matches(o, type, v)

\* Claims of other types are not compared with anything, and of a price or a
\* discount only one that is named.
HasEvidence(o, type, value, asked) ==
    type \in {"PRICE", "DISCOUNT"} =>
       /\ IsFresh(catalogue[o].verifiedAt, asked)
       /\ \A v \in value : Matches(o, type, v)

\* revalidateCommercialClaim answers ALLOW; value and p are none or the value
\* and the promotion the claim names, and asked is nowOverride or the clock.
\* The time of publication (scheduledFor) is copied to the answer only.
revalidateCommercialClaim(o, type, value, p, asked) ==
    /\ catalogue[o].known
    /\ \A q \in p : PromotionStatus(q, asked) \notin {"EXPIRED", "UNKNOWN"}
    /\ HasEvidence(o, type, value, asked)
    /\ lastAllowed' = [offer |-> o, type |-> type, value |-> value, asked |-> asked, over |-> p,
                       verifiedAt |-> catalogue[o].verifiedAt]
    /\ UNCHANGED <<catalogue, snapshots, promotions, commerceClock, observed>>

commerceTime ==
    /\ commerceClock < CommerceEnd
    /\ commerceClock' = commerceClock + 1
    /\ UNCHANGED <<catalogue, snapshots, promotions, observed, lastAllowed>>

CommerceNext ==
    \/ \E o \in CommerceOffers, sale \in SalePrices, at \in 0..CommerceEnd : upsertOffer(o, sale, at)
    \/ \E o \in CommerceOffers : upsertOfferRejected(o)
    \/ \E o \in CommerceOffers, sale \in SalePrices :
          Len(snapshots[o]) < SnapshotLimit /\ recordPriceSnapshot(o, sale)
    \/ \E window \in PromotionWindows, verified \in BOOLEAN : upsertPromotion(window, verified)
    \/ \E o \in CommerceOffers, p \in {{}} \cup {{q} : q \in promotions}, asked \in 0..CommerceEnd :
          \/ \E type \in ClaimTypes : revalidateCommercialClaim(o, type, {}, p, asked)
          \/ \E sale \in SalePrices :
                \/ revalidateCommercialClaim(o, "PRICE", {sale}, p, asked)
                \/ revalidateCommercialClaim(o, "DISCOUNT", {Percent(sale)}, p, asked)
    \/ commerceTime

CommerceSpec == CommerceInit /\ [][CommerceNext]_commerceVars

-----------------------------------------------------------------------------
(* Properties.                                                             *)

CommerceTypeOK ==
    /\ \A o \in CommerceOffers : catalogue[o].sale \in SalePrices \cup {0}
    /\ snapshots \in [CommerceOffers -> Seq(SalePrices)]
    /\ commerceClock \in 0..CommerceEnd

\* A claim about a price or a discount that was allowed rests on an offer that
\* was verified within the window before the time asked about, and what it names
\* is a price, or within a point of a discount, that was observed for that very
\* offer; a promotion it names, whatever it is about, was verified and not over
\* at that time.  No history of updates, rejected updates and snapshots lets
\* another through.
AllowedClaimsHaveEvidence ==
    lastAllowed # NoClaim =>
       /\ lastAllowed.type \in {"PRICE", "DISCOUNT"} =>
            /\ lastAllowed.asked - lastAllowed.verifiedAt \in 0..Freshness
            /\ \A v \in lastAllowed.value : \E price \in observed[lastAllowed.offer] :
                  IF lastAllowed.type = "PRICE" THEN v = price ELSE Percent(price) - v \in -1..1
       /\ \A q \in lastAllowed.over : q.verified /\ lastAllowed.asked < q.to
=============================================================================
