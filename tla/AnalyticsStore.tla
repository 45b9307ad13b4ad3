--------------------------- MODULE AnalyticsStore ----------------------------
(***************************************************************************)
(* The event store of packages/analytics and the table behind it, for one  *)
(* organization: envelopes are told apart by a key, stored once, summed up *)
(* over the organization and over its products, and saved to Postgres in   *)
(* batches that may repeat.  Deliveries repeat, arrive in any order, and   *)
(* may say something else the second time.                                 *)
(***************************************************************************)
EXTENDS Integers, Sequences, FiniteSetsExt, Functions

CONSTANTS
    Envelopes,     \* what may be delivered: external (an id or none), account,
                   \* type, product, amount, pending
    NoExternal     \* an envelope without externalEventId

\* Nothing asks whether an amount is positive.
EnvelopesAssumption == \A e \in Envelopes : e.amount \in Int
ASSUME EnvelopesAssumption

VARIABLES
    envelopes,     \* scope.byDedupe, in the order scope.events has
    eventRows,     \* the rows of analytics_events
    heard          \* history: every envelope that was delivered

storeVars == <<envelopes, eventRows, heard>>

StoreInit == envelopes = <<>> /\ eventRows = {} /\ heard = {}

\* (mutation) The provider's id is told apart by type.
DedupeKeyTyped(e) ==
    IF e.external # NoExternal THEN <<"ext", e.external, e.type, 0>>
    ELSE <<"fp", e.type, e.account, e.amount>>

\* The provider's id when there is one, whatever the event says; else all of
\* what it says.
DedupeKey(e) ==
    IF e.external # NoExternal THEN <<"ext", e.external>>
    ELSE <<"fp", e.type, e.account, e.amount, e.pending>>

Known(e) == \E k \in DOMAIN envelopes : DedupeKey(envelopes[k]) = DedupeKey(e)

\* (mutation) A delivery is stored whether its key is known or not.
ingestTwice(e) ==
    /\ Len(envelopes) < 4
    /\ envelopes' = Append(envelopes, e)
    /\ heard' = heard \cup {e}
    /\ UNCHANGED eventRows

\* A duplicate is heard and answered with the stored envelope.
ingest(e) ==
    /\ envelopes' = IF Known(e) THEN envelopes ELSE Append(envelopes, e)
    /\ heard' = heard \cup {e}
    /\ UNCHANGED eventRows

\* The event id is a digest of the key: a row that is there stays as it is,
\* and the batch is cut to the first envelope of each id.
saveAnalyticsEvents(batch) ==
    LET Fresh(k) == /\ \A r \in eventRows : DedupeKey(r) # DedupeKey(batch[k])
                    /\ \A i \in 1..(k - 1) : DedupeKey(batch[i]) # DedupeKey(batch[k])
    IN /\ eventRows' = eventRows \cup {batch[k] : k \in {i \in DOMAIN batch : Fresh(i)}}
       /\ UNCHANGED <<envelopes, heard>>

StoreNext ==
    \/ \E e \in Envelopes : ingest(e)
    \/ \E e, f \in heard : saveAnalyticsEvents(<<e, f>>)

StoreSpec == StoreInit /\ [][StoreNext]_storeVars

-----------------------------------------------------------------------------
(* What the store answers.                                                 *)

Events(types) == {k \in DOMAIN envelopes : envelopes[k].type \in types}
OfProduct(p) == {k \in DOMAIN envelopes : envelopes[k].product = p}
AmountOf(ks) == SumFunctionOnSet([k \in DOMAIN envelopes |-> envelopes[k].amount], ks)
Floor0(n) == IF n > 0 THEN n ELSE 0

Gross == {k \in Events({"commission_reported"}) : ~envelopes[k].pending}
Clicks == Events({"affiliate_click_recorded"})

Bucket(clicks, gross, back) ==
    [clicks |-> Cardinality(clicks), conversions |-> Cardinality(gross),
     gross |-> AmountOf(gross), net |-> Floor0(AmountOf(gross) - AmountOf(back))]

\* summarize: pending commission is left out, refunds and reversals are taken
\* off, and what is left is never negative.
summarize == Bucket(Clicks, Gross, Events({"refund_reported", "commission_reversed"}))

\* The products that have a bucket: a reversal makes none.
Products == {envelopes[k].product : k \in DOMAIN envelopes \ Events({"commission_reversed"})}

\* summarizeByProduct: the same per product, but reversals are in no bucket.
summarizeByProduct ==
    [p \in Products |->
       LET own == OfProduct(p) IN
       Bucket(Clicks \cap own, Gross \cap own, Events({"refund_reported"}) \cap own)]

-----------------------------------------------------------------------------
(* Properties.                                                             *)

StoreTypeOK == heard \subseteq Envelopes /\ eventRows \subseteq heard

\* Every key that was ever delivered is counted exactly once, by its first
\* delivery, however often and in whatever order deliveries and saves repeat;
\* the totals of the products are those of the organization, and no more is
\* taken off the products than off the whole, unless reversals are negative.
TotalsCountKeysOnce ==
    /\ \A e \in heard : Cardinality({k \in DOMAIN envelopes :
          DedupeKey(envelopes[k]) = DedupeKey(e)}) = 1
    /\ \A r, s \in eventRows : r # s => DedupeKey(r) # DedupeKey(s)
    /\ LET Over(of) == SumFunctionOnSet(of, Products)
           by == summarizeByProduct
       IN  /\ Over([p \in Products |-> by[p].clicks]) = summarize.clicks
           /\ Over([p \in Products |-> by[p].conversions]) = summarize.conversions
           /\ Over([p \in Products |-> by[p].gross]) = summarize.gross
           /\ AmountOf(Events({"commission_reversed"})) >= 0 =>
                 Over([p \in Products |-> by[p].net]) >= summarize.net

\* One external id never counts as two events, whatever types it was sent as.
ExternalIdsCountOnce ==
    \A j, k \in DOMAIN envelopes :
       envelopes[j].external # NoExternal /\ envelopes[j].external = envelopes[k].external => j = k

MeasurementHolds == TotalsCountKeysOnce /\ ExternalIdsCountOnce
=============================================================================
