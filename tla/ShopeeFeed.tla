----------------------------- MODULE ShopeeFeed ------------------------------
(***************************************************************************)
(* The two ways Shopee rows reach the tables of one tenant: the batches of *)
(* db/src/shopee-th-repo.js, and the offer-by-offer import of              *)
(* db/src/shopee-th-import-repo.js, which asks for the evidence before it  *)
(* inserts.  A product is known by its external id and gets the runtime id *)
(* it was first stored under.  Operations of one repository are one        *)
(* transaction each; the import's question and its insert are apart,       *)
(* because another import may commit between them.                         *)
(***************************************************************************)
EXTENDS Integers, FiniteSets

CONSTANTS
    FeedBatches,     \* batch ids
    FeedGoods,       \* external product ids
    RuntimeIds,      \* runtime ids, by callers or minted
    RowKeys,         \* source rows of a file
    Evidence,        \* evidence digests of imported rows
    FeedPrices,
    Importers        \* concurrent calls of persistNormalizedOffer

ASSUME FeedConstants == "none" \notin RuntimeIds

VARIABLES
    feedBatches,     \* shopee_th_import_batches: [status, accepted]
    goodsRows,       \* products: the runtime id of each external id, or NoRuntime
    rowOffers,       \* offers of batches: the last write of each runtime id of theirs
    evidenceOffers,  \* offers of imports: [good, evidence, price]
    importing,       \* what each import is about to insert, or {}
    firstStored      \* history: the runtime id each product was stored under first

feedVars == <<feedBatches, goodsRows, rowOffers, evidenceOffers, importing, firstStored>>

NoRuntime == "none"

FeedInit ==
    /\ feedBatches = [b \in FeedBatches |-> [status |-> "none", accepted |-> 0]]
    /\ goodsRows = [g \in FeedGoods |-> NoRuntime]
    /\ rowOffers = {}
    /\ evidenceOffers = {}
    /\ importing = [i \in Importers |-> {}]
    /\ firstStored = [g \in FeedGoods |-> NoRuntime]

-----------------------------------------------------------------------------
(* Batches.                                                                *)

\* An id that exists, whatever became of it, is refused.
startBatch(b) ==
    /\ feedBatches[b].status = "none"
    /\ feedBatches' = [feedBatches EXCEPT ![b].status = "started"]
    /\ UNCHANGED <<goodsRows, rowOffers, evidenceOffers, importing, firstStored>>

\* Nothing is asked about the status: a batch that failed may complete, and one
\* that completed may complete again with other counts.
completeBatch(b, accepted) ==
    /\ feedBatches[b].status # "none"
    /\ feedBatches' = [feedBatches EXCEPT ![b] = [status |-> "completed", accepted |-> accepted]]
    /\ UNCHANGED <<goodsRows, rowOffers, evidenceOffers, importing, firstStored>>

failBatch(b) ==
    /\ feedBatches[b].status = "started"
    /\ feedBatches' = [feedBatches EXCEPT ![b].status = "failed"]
    /\ UNCHANGED <<goodsRows, rowOffers, evidenceOffers, importing, firstStored>>

-----------------------------------------------------------------------------
(* Rows.                                                                   *)

\* (mutation) The runtime id is one of the columns the conflict updates.
ProductStoredAnew(g, runtime) == [goodsRows EXCEPT ![g] = runtime]

\* The insert of a product: a conflict on the external id keeps the runtime id.
ProductStored(g, runtime) == [goodsRows EXCEPT ![g] = IF @ = NoRuntime THEN runtime ELSE @]

\* A runtime id of another product breaks the other unique index.
Fits(g, runtime) == \A h \in FeedGoods \ {g} : goodsRows[h] # runtime

StoreProduct(g, runtime) ==
    /\ goodsRows' = ProductStored(g, runtime)
    /\ firstStored' = [firstStored EXCEPT ![g] = IF @ = NoRuntime THEN runtime ELSE @]

upsertProduct(g, runtime) ==
    /\ Fits(g, runtime)
    /\ StoreProduct(g, runtime)
    /\ UNCHANGED <<feedBatches, rowOffers, evidenceOffers, importing>>

\* The offer's id is a digest of the product's runtime id and its source row: a
\* replayed row overwrites its own offer, price and batch.
upsertFeedOffer(g, runtime, row, price, b) ==
    /\ goodsRows[g] = runtime
    /\ rowOffers' = {o \in rowOffers : o.runtime # runtime \/ o.row # row}
         \cup {[runtime |-> runtime, good |-> g, row |-> row, price |-> price, batch |-> b]}
    /\ UNCHANGED <<feedBatches, goodsRows, evidenceOffers, importing, firstStored>>

\* persistNormalizedOffer asks first; evidence that is there is a duplicate.
persistAsks(i, g, evidence, price) ==
    /\ importing[i] = {}
    /\ \A o \in evidenceOffers : o.evidence # evidence
    /\ importing' = [importing EXCEPT ![i] = {[good |-> g, evidence |-> evidence, price |-> price]}]
    /\ UNCHANGED <<feedBatches, goodsRows, rowOffers, evidenceOffers, firstStored>>

\* (mutation) No unique index on the evidence.
EvidenceFreeAnyhow(o) == TRUE

\* offers_tenant_source_evidence_uidx
EvidenceFree(o) == \A other \in evidenceOffers : other.evidence # o.evidence

\* The two inserts and the commit; a second row with the evidence fails and
\* takes the product's insert with it.
persistInserts(i, runtime) ==
    \E o \in importing[i] :
       /\ Fits(o.good, runtime) /\ runtime \notin {goodsRows[g] : g \in FeedGoods}
       /\ IF EvidenceFree(o)
          THEN StoreProduct(o.good, runtime) /\ evidenceOffers' = evidenceOffers \cup {o}
          ELSE UNCHANGED <<goodsRows, firstStored, evidenceOffers>>
       /\ importing' = [importing EXCEPT ![i] = {}]
       /\ UNCHANGED <<feedBatches, rowOffers>>

FeedNext ==
    \/ \E b \in FeedBatches :
          startBatch(b) \/ failBatch(b) \/ \E accepted \in {0, 1} : completeBatch(b, accepted)
    \/ \E g \in FeedGoods, runtime \in RuntimeIds :
          \/ upsertProduct(g, runtime)
          \/ \E row \in RowKeys, price \in FeedPrices, b \in FeedBatches :
                upsertFeedOffer(g, runtime, row, price, b)
    \/ \E i \in Importers :
          \/ \E g \in FeedGoods, e \in Evidence, price \in FeedPrices : persistAsks(i, g, e, price)
          \/ \E runtime \in RuntimeIds : persistInserts(i, runtime)

FeedSpec == FeedInit /\ [][FeedNext]_feedVars

-----------------------------------------------------------------------------
(* Properties.                                                             *)

FeedTypeOK ==
    /\ \A b \in FeedBatches : feedBatches[b].status \in {"none", "started", "completed", "failed"}
    /\ goodsRows \in [FeedGoods -> RuntimeIds \cup {NoRuntime}]

\* However the two ways, replays and concurrent imports mix: one observation is
\* one offer, every offer belongs to a product that is stored, and a product
\* keeps the identity under which links and offers first knew it.
ImportsKeepIdentity ==
    /\ \A o, p \in evidenceOffers : o.evidence = p.evidence => o = p
    /\ \A o, p \in rowOffers : o.good = p.good /\ o.row = p.row => o = p
    /\ \A o \in rowOffers : goodsRows[o.good] = o.runtime
    /\ \A o \in evidenceOffers : goodsRows[o.good] # NoRuntime
    /\ goodsRows = firstStored
    /\ \A g, h \in FeedGoods : g # h /\ goodsRows[g] # NoRuntime => goodsRows[g] # goodsRows[h]
=============================================================================
