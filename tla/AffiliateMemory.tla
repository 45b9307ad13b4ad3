--------------------------- MODULE AffiliateMemory ---------------------------
(***************************************************************************)
(* The in-memory affiliate runtime of packages/affiliate-core: a partition *)
(* per tenant of products, offers, links, clicks, conversions and margins, *)
(* each built on a record of the kind before it, and an outbox that is     *)
(* drained in order.  Every operation is synchronous.  An audit sink that  *)
(* throws does so last: the caller sees an error, the state has changed.   *)
(***************************************************************************)
EXTENDS Integers, SequencesExt

CONSTANTS
    Sellers,        \* tenants
    ProductIds,     \* product ids callers may choose
    Slugs,          \* short names of links
    NoName,         \* no slug, no order, no product id
    OrderRefs,      \* order references
    BasisPoints,    \* commission rates
    Revenues, Costs,
    RecordLimit, EventLimit   \* bounds

\* minorUnits and the rate's basis points are counts.
ASSUME MemoryAssumption == BasisPoints \cup Revenues \cup Costs \subseteq Nat

VARIABLES
    records,    \* the six maps of every partition, in creation order
    outbox,     \* scope.outbox of each tenant
    drained     \* history: the events drainOutbox handed out, by tenant

memoryVars == <<records, outbox, drained>>

ParentKind == [offer |-> "product", link |-> "offer", click |-> "link",
               conversion |-> "link", margin |-> "conversion"]

MemoryInit ==
    /\ records = <<>>
    /\ outbox = [t \in Sellers |-> <<>>]
    /\ drained = [t \in Sellers |-> <<>>]

\* (mutation) A record of any tenant will do.
OwnedByAnyone(t, kind, i) == records[i].kind = kind

\* owned: the id must be in the caller's own partition.
Owned(t, kind, i) == records[i].kind = kind /\ records[i].tenant = t

\* appendEvent: the next sequence number of the tenant's outbox.
Noted(t, i) ==
    [outbox EXCEPT ![t] = Append(@, [sequence |-> Len(@) + 1, record |-> i, dispatched |-> FALSE])]

\* Store the record, append its event; what the audit sink does changes nothing.
Store(kind, t, parent, name, base, value) ==
    /\ Len(records) < RecordLimit
    /\ records' = Append(records, [kind |-> kind, tenant |-> t, parent |-> parent,
                                   name |-> name, base |-> base, value |-> value])
    /\ outbox' = Noted(t, Len(records) + 1)
    /\ UNCHANGED drained

Named(kind, t, name) ==
    {i \in DOMAIN records : /\ records[i].kind = kind
                            /\ records[i].tenant = t
                            /\ records[i].name = name}

registerProduct(t, productId) ==
    /\ Named("product", t, productId) = {}
    /\ Store("product", t, 0, productId, 0, 0)

\* Offers of a product are never told apart: each call makes a new one.
publishOffer(t, i, rate) == Owned(t, "product", i) /\ Store("offer", t, i, NoName, 0, rate)

generateLink(t, i, slug) ==
    /\ Owned(t, "offer", i)
    /\ slug = NoName \/ Named("link", t, slug) = {}
    /\ Store("link", t, i, slug, 0, 0)

\* (mutation) The fraction is cut off.
CommissionTruncated(revenue, rate) == (revenue * rate) \div 10000

\* commissionFrom: minor units times basis points, rounded half up.
CommissionFrom(revenue, rate) == (revenue * rate + 5000) \div 10000

recordClick(t, i) == Owned(t, "link", i) /\ Store("click", t, i, NoName, 0, 0)

\* (mutation) The same order through another link is another conversion.
OrderUnknownByLink(t, i, order) ==
    \A c \in Named("conversion", t, order) : records[c].parent # i

\* scope.orders: a reported order is answered with the conversion it has.
OrderUnknown(t, i, order) == Named("conversion", t, order) = {}

recordConversion(t, i, order, revenue) ==
    /\ Owned(t, "link", i)
    /\ OrderUnknown(t, i, order)
    /\ Store("conversion", t, i, order, revenue,
             CommissionFrom(revenue, records[records[i].parent].value))

\* A margin may be computed again, with other costs.
computeMargin(t, i, cost) ==
    /\ Owned(t, "conversion", i)
    /\ Store("margin", t, i, NoName, cost, records[i].value - cost)

emitDomainEvent(t) ==
    /\ outbox' = Noted(t, 0)
    /\ UNCHANGED <<records, drained>>

\* (mutation) The batch is marked from the front of the outbox.
PendingFromFront(t, limit) ==
    SubSeq(outbox[t], 1, IF limit < Len(outbox[t]) THEN limit ELSE Len(outbox[t]))

\* Up to limit entries that were not handed out yet, in order.
Pending(t, limit) ==
    LET found[k \in 0..Len(outbox[t])] ==
          IF k = 0 THEN <<>>
          ELSE IF outbox[t][k].dispatched \/ Len(found[k - 1]) = limit THEN found[k - 1]
          ELSE Append(found[k - 1], outbox[t][k])
    IN found[Len(outbox[t])]

drainOutbox(t, limit) ==
    LET batch == Pending(t, limit)
        sequences == [k \in DOMAIN batch |-> batch[k].sequence]
    IN /\ batch # <<>>
       /\ drained' = [drained EXCEPT ![t] = @ \o sequences]
       /\ outbox' = [outbox EXCEPT ![t] =
            [k \in DOMAIN outbox[t] |-> IF k \in ToSet(sequences) THEN [outbox[t][k] EXCEPT !.dispatched = TRUE]
                                       ELSE outbox[t][k]]]
       /\ UNCHANGED records

MemoryNext ==
    \/ \E t \in Sellers, p \in ProductIds : registerProduct(t, p)
    \/ \E t \in Sellers, i \in DOMAIN records :
          \/ \E rate \in BasisPoints : publishOffer(t, i, rate)
          \/ \E slug \in Slugs \cup {NoName} : generateLink(t, i, slug)
          \/ recordClick(t, i)
          \/ \E order \in OrderRefs, revenue \in Revenues : recordConversion(t, i, order, revenue)
          \/ \E cost \in Costs : computeMargin(t, i, cost)
    \/ \E t \in Sellers : Len(outbox[t]) < EventLimit /\ emitDomainEvent(t)
    \/ \E t \in Sellers, limit \in 1..EventLimit : drainOutbox(t, limit)

MemorySpec == MemoryInit /\ [][MemoryNext]_memoryVars

-----------------------------------------------------------------------------
(* Properties.                                                             *)

MemoryTypeOK ==
    /\ \A i \in DOMAIN records : records[i].tenant \in Sellers /\ records[i].parent \in 0..(i - 1)
    /\ \A t \in Sellers : outbox[t] \in Seq([sequence : Nat \ {0}, record : Nat, dispatched : BOOLEAN])

\* The commission is the rate of the revenue, to the nearest minor unit.
Nearest(value, exact) ==
    LET excess == value * 10000 - exact
    IN  -5000 < excess /\ excess <= 5000
Rounds(value, base, rate) == Nearest(value, base * rate)

\* Money follows the chain of one tenant: every record rests on a record of
\* the right kind in the same partition, an order earns one commission per
\* tenant, that commission is the rate of its offer to the nearest minor unit,
\* and a margin is what remains of it.
ChainsHold ==
    \A i \in DOMAIN records : LET r == records[i] IN
       /\ r.kind # "product" =>
             records[r.parent].kind = ParentKind[r.kind] /\ records[r.parent].tenant = r.tenant
       /\ r.kind = "conversion" =>
             /\ Named("conversion", r.tenant, r.name) = {i}
             /\ Rounds(r.value, r.base, records[records[r.parent].parent].value)
       /\ r.kind = "margin" => r.value + r.base = records[r.parent].value
       /\ r.kind = "link" /\ r.name # NoName => Named("link", r.tenant, r.name) = {i}

\* The outbox of a tenant announces each of its records once, and draining it
\* in batches hands every event out once, in order and without a gap.
OutboxDrainsOnce ==
    \A t \in Sellers :
       /\ \A i \in DOMAIN records : records[i].tenant = t =>
             Cardinality({k \in DOMAIN outbox[t] : outbox[t][k].record = i}) = 1
       /\ drained[t] = [k \in 1..Len(drained[t]) |-> k]
       /\ \A k \in DOMAIN outbox[t] : outbox[t][k].dispatched <=> k <= Len(drained[t])

\* The partitions stay apart and consistent, and their outboxes tell it.
PartitionsHold == ChainsHold /\ OutboxDrainsOnce
=============================================================================
