---------------------------- MODULE AffiliateCore ----------------------------
(***************************************************************************)
(* Campaigns, links, clicks, conversions and margins of one tenant in      *)
(* Postgres: affiliate-core-repo.js, campaign-repo.js and                  *)
(* conversion-reconciliation-repo.js.  Every repository call is one READ   *)
(* COMMITTED transaction.  What it does after its last wait (a row lock,   *)
(* or an entry of a unique index) is one action; a transaction that reads  *)
(* first and writes later is two, and can be overtaken in between.         *)
(*                                                                         *)
(* A source row (a line of a provider's report) stands for the commission  *)
(* rate, the amount and the evidence it carries.  The outbox is kept per   *)
(* row, in the order of the commits.                                       *)
(***************************************************************************)
EXTENDS Integers, Sequences

CONSTANTS
    Callers,     \* requests and importers, one transaction at a time each
    Campaigns,
    Orders,      \* external order references: a conversion each
    Clicks,      \* click provenances: a deterministic click id each
    SourceRows,  \* rows of commission reports
    MaxMoves,    \* status changes modelled per row
    MaxCorrections, \* commission corrections modelled per order
    MaxLinks,    \* links modelled per campaign
    None

ASSUME AffiliateConstants ==
    /\ MaxMoves \in Nat /\ MaxCorrections \in Nat /\ MaxLinks \in Nat
    /\ None \notin Callers /\ None \notin SourceRows
    /\ Campaigns \cap Orders = {} /\ Campaigns \cap Clicks = {}
    /\ Orders \cap Clicks = {}

VARIABLES
    status,       \* of campaigns and conversions, "absent" before their INSERT
    source,       \* the report row a conversion's commission came from
    clicked,      \* rows of affiliate_clicks
    links,        \* how many links each campaign has
    margins,      \* rows of affiliate_margins: order and source at the time
    moves,        \* outbox: *.status_changed of a row, as <<from, to>>
    corrections,  \* outbox: conversion.commission_corrected, as <<before, after>>
    recorded,     \* outbox: conversion.recorded and click.recorded
    lock,         \* who holds the row lock, or the index entry of a new row
    tx            \* the transaction of each caller

vars == <<status, source, clicked, links, margins, moves, corrections,
          recorded, lock, tx>>

CampaignStates == {"draft", "active", "paused", "completed", "cancelled"}
ConversionStates == {"pending", "confirmed", "refunded", "rejected"}
Sources == SourceRows \cup {None}

Tracked == Campaigns \cup Orders
Rows == Tracked \cup Clicks

NoTx == [op |-> "none", row |-> None, arg |-> None, seen |-> None]

Init ==
    /\ status = [r \in Tracked |-> "absent"]
    /\ source = [o \in Orders |-> None]
    /\ clicked = {}
    /\ links = [g \in Campaigns |-> 0]
    /\ margins = {}
    /\ moves = [r \in Tracked |-> <<>>]
    /\ corrections = [o \in Orders |-> <<>>]
    /\ recorded = [r \in Orders \cup Clicks |-> 0]
    /\ lock = [r \in Rows |-> None]
    /\ tx = [c \in Callers |-> NoTx]

\* Caller c is in the middle of operation op.
In(c, op) == tx[c].op = op
Idle(c) == tx[c].op = "none"

Begin(c, op, row, arg, seen) ==
    tx' = [tx EXCEPT ![c] = [op |-> op, row |-> row, arg |-> arg, seen |-> seen]]

\* COMMIT and ROLLBACK release the locks of the transaction.
Unlocked(c) == [r \in Rows |-> IF lock[r] = c THEN None ELSE lock[r]]
End(c) ==
    /\ tx' = [tx EXCEPT ![c] = NoTx]
    /\ lock' = Unlocked(c)

rollback(c) ==
    /\ ~Idle(c)
    /\ End(c)
    /\ UNCHANGED <<status, source, clicked, links, margins, moves, corrections,
                   recorded>>

\* (mutation) A SELECT without FOR UPDATE.
FreeAlways(r) == TRUE
\* Waits until no other transaction holds the row or its index entry.
Free(r) == lock[r] = None

-----------------------------------------------------------------------------
(* Campaigns.                                                              *)

\* The INSERT reads nothing: a conflict on the name rolls back.
createCampaign(g) ==
    /\ status[g] = "absent"
    /\ status' = [status EXCEPT ![g] = "draft"]
    /\ UNCHANGED <<source, clicked, links, margins, moves, corrections,
                   recorded, lock, tx>>

Transitions ==
    [draft     |-> {"active", "cancelled"},
     active    |-> {"paused", "completed", "cancelled"},
     paused    |-> {"active", "completed", "cancelled"},
     completed |-> {},
     cancelled |-> {}]

\* SELECT ... FOR UPDATE; a transition the table refuses rolls back.
lockCampaign(c, g, to) ==
    /\ Idle(c)
    /\ status[g] # "absent"
    /\ Free(g)
    /\ to \in Transitions[status[g]]
    /\ lock' = [lock EXCEPT ![g] = c]
    /\ Begin(c, "transition", g, to, status[g])
    /\ UNCHANGED <<status, source, clicked, links, margins, moves, corrections,
                   recorded>>

\* The UPDATE and the event of a status change.
Move(r, from, to) ==
    /\ Len(moves[r]) < MaxMoves
    /\ status' = [status EXCEPT ![r] = to]
    /\ moves' = [moves EXCEPT ![r] = Append(@, <<from, to>>)]

transitionCampaign(c) ==
    /\ In(c, "transition")
    /\ Move(tx[c].row, tx[c].seen, tx[c].arg)
    /\ End(c)
    /\ UNCHANGED <<source, clicked, links, margins, corrections, recorded>>

\* updateCampaign locks the row in the same way and rewrites its metadata.
lockMetadata(c, g) ==
    /\ Idle(c)
    /\ status[g] # "absent"
    /\ Free(g)
    /\ lock' = [lock EXCEPT ![g] = c]
    /\ Begin(c, "update", g, None, status[g])
    /\ UNCHANGED <<status, source, clicked, links, margins, moves, corrections,
                   recorded>>

updateCampaign(c) ==
    /\ In(c, "update")
    /\ End(c)
    /\ UNCHANGED <<status, source, clicked, links, margins, moves, corrections,
                   recorded>>

\* (mutation) The status of the campaign is not asked for.
LinkableAny(g) == status[g] # "absent"
Linkable(g) == status[g] = "active"

\* generateLink reads the campaign without a lock; an inactive one rolls back.
readCampaign(c, g) ==
    /\ Idle(c)
    /\ Linkable(g)
    /\ Begin(c, "link", g, None, status[g])
    /\ UNCHANGED <<status, source, clicked, links, margins, moves, corrections,
                   recorded, lock>>

\* The foreign key waits for a transaction that holds the campaign FOR UPDATE.
insertLink(c) ==
    /\ In(c, "link")
    /\ Free(tx[c].row)
    /\ links[tx[c].row] < MaxLinks
    /\ links' = [links EXCEPT ![tx[c].row] = @ + 1]
    /\ End(c)
    /\ UNCHANGED <<status, source, clicked, margins, moves, corrections,
                   recorded>>

-----------------------------------------------------------------------------
(* Clicks and conversions: INSERT ... ON CONFLICT DO NOTHING, and an event *)
(* for the row that was inserted.  A second INSERT of the key waits for    *)
(* the end of the first; if that one committed, it returns what is there.  *)
(* The link both name is there: links are never deleted.                   *)

\* (mutation) A plain INSERT, without the unique index and ON CONFLICT.
NewClickAlways(k) == TRUE
NewClick(k) == k \notin clicked
\* (mutation) The same for orders.
NewOrderAlways(o) == TRUE
NewOrder(o) == status[o] = "absent"

insertClick(c, k) ==
    /\ Idle(c)
    /\ Free(k)
    /\ NewClick(k)
    /\ lock' = [lock EXCEPT ![k] = c]
    /\ Begin(c, "click", k, None, None)
    /\ UNCHANGED <<status, source, clicked, links, margins, moves, corrections,
                   recorded>>

recordClick(c) ==
    /\ In(c, "click")
    /\ clicked' = clicked \cup {tx[c].row}
    /\ recorded' = [recorded EXCEPT ![tx[c].row] = @ + 1]
    /\ End(c)
    /\ UNCHANGED <<status, source, links, margins, moves, corrections>>

\* The evidence of the first report need not name a source row.
insertConversion(c, o, from) ==
    /\ Idle(c)
    /\ Free(o)
    /\ NewOrder(o)
    /\ lock' = [lock EXCEPT ![o] = c]
    /\ Begin(c, "conversion", o, from, None)
    /\ UNCHANGED <<status, source, clicked, links, margins, moves, corrections,
                   recorded>>

recordConversion(c) ==
    /\ In(c, "conversion")
    /\ status' = [status EXCEPT ![tx[c].row] = "pending"]
    /\ source' = [source EXCEPT ![tx[c].row] = tx[c].arg]
    /\ recorded' = [recorded EXCEPT ![tx[c].row] = @ + 1]
    /\ End(c)
    /\ UNCHANGED <<clicked, links, margins, moves, corrections>>

-----------------------------------------------------------------------------
(* Reconciliation: SELECT ... FOR UPDATE, compare, UPDATE, event.          *)

lockConversion(c, o, to) ==
    /\ Idle(c)
    /\ status[o] # "absent"
    /\ Free(o)
    /\ to # status[o]
    /\ lock' = [lock EXCEPT ![o] = c]
    /\ Begin(c, "status", o, to, status[o])
    /\ UNCHANGED <<status, source, clicked, links, margins, moves, corrections,
                   recorded>>

\* Any status may follow any other; observedAt is stored, never compared.
updateConversionStatus(c) ==
    /\ In(c, "status")
    /\ Move(tx[c].row, tx[c].seen, tx[c].arg)
    /\ End(c)
    /\ UNCHANGED <<source, clicked, links, margins, corrections, recorded>>

\* The row's evidence names this very source row.
Replay(o, row) == source[o] = row

lockCommission(c, o, row) ==
    /\ Idle(c)
    /\ status[o] # "absent"
    /\ Free(o)
    /\ ~Replay(o, row)
    /\ lock' = [lock EXCEPT ![o] = c]
    /\ Begin(c, "correct", o, row, source[o])
    /\ UNCHANGED <<status, source, clicked, links, margins, moves, corrections,
                   recorded>>

\* (mutation) The UPDATE commits on its own, the event is lost with the caller.
correctCommissionAutocommit(c) ==
    /\ In(c, "correct")
    /\ Len(corrections[tx[c].row]) < MaxCorrections
    /\ source' = [source EXCEPT ![tx[c].row] = tx[c].arg]
    /\ End(c)
    /\ UNCHANGED <<status, clicked, links, margins, moves, corrections, recorded>>

correctCommission(c) ==
    LET o == tx[c].row
    IN  /\ In(c, "correct")
        /\ Len(corrections[o]) < MaxCorrections
        /\ source' = [source EXCEPT ![o] = tx[c].arg]
        /\ corrections' = [corrections EXCEPT ![o] =
                             Append(@, <<tx[c].seen, tx[c].arg>>)]
        /\ End(c)
        /\ UNCHANGED <<status, clicked, links, margins, moves, recorded>>

-----------------------------------------------------------------------------
(* Margins: the conversion is read without a lock.                         *)

readConversion(c, o) ==
    /\ Idle(c)
    /\ status[o] # "absent"
    /\ Begin(c, "margin", o, None, source[o])
    /\ UNCHANGED <<status, source, clicked, links, margins, moves, corrections,
                   recorded, lock>>

\* The foreign key waits for a transaction that holds the conversion.
computeMargin(c) ==
    /\ In(c, "margin")
    /\ Free(tx[c].row)
    /\ margins' = margins \cup {<<tx[c].row, tx[c].seen>>}
    /\ End(c)
    /\ UNCHANGED <<status, source, clicked, links, moves, corrections, recorded>>

-----------------------------------------------------------------------------
CampaignStep(c) ==
    \/ \E g \in Campaigns :
          \/ readCampaign(c, g)
          \/ lockMetadata(c, g)
          \/ \E to \in CampaignStates : lockCampaign(c, g, to)
    \/ transitionCampaign(c)
    \/ updateCampaign(c)
    \/ insertLink(c)

RecordStep(c) ==
    \/ \E k \in Clicks : insertClick(c, k)
    \/ recordClick(c)
    \/ \E o \in Orders, from \in Sources : insertConversion(c, o, from)
    \/ recordConversion(c)

ReconcileStep(c) ==
    \/ \E o \in Orders :
          \/ readConversion(c, o)
          \/ \E to \in ConversionStates : lockConversion(c, o, to)
          \/ \E row \in SourceRows : lockCommission(c, o, row)
    \/ updateConversionStatus(c)
    \/ correctCommission(c)
    \/ computeMargin(c)

Next ==
    \/ \E g \in Campaigns : createCampaign(g)
    \/ \E c \in Callers :
          CampaignStep(c) \/ RecordStep(c) \/ ReconcileStep(c) \/ rollback(c)

Spec == Init /\ [][Next]_vars

-----------------------------------------------------------------------------
(* Properties.                                                             *)

Ops == {"none", "transition", "update", "link", "click", "conversion", "status",
        "correct", "margin"}

AffiliateTypeOK ==
    /\ status \in [Tracked -> CampaignStates \cup ConversionStates \cup {"absent"}]
    /\ source \in [Orders -> Sources]
    /\ clicked \subseteq Clicks
    /\ links \in [Campaigns -> 0..MaxLinks]
    /\ margins \subseteq Orders \X Sources
    /\ moves \in [Tracked -> Seq((CampaignStates \cup ConversionStates)
                                 \X (CampaignStates \cup ConversionStates))]
    /\ corrections \in [Orders -> Seq(Sources \X Sources)]
    /\ recorded \in [Orders \cup Clicks -> 0..1]
    /\ lock \in [Rows -> Callers \cup {None}]
    /\ \A c \in Callers : tx[c].op \in Ops

Chains(trail) ==
    \A i \in 1..(Len(trail) - 1) : trail[i][2] = trail[i + 1][1]

Last(trail) == trail[Len(trail)][2]

\* The status_changed events of a campaign or a conversion chain, each from
\* where the one before led, and lead to the status of the row: whoever books
\* them in order knows every status, although callers race for the row.
MovesTellStatus ==
    \A r \in Tracked :
        /\ Chains(moves[r])
        /\ moves[r] # <<>> => Last(moves[r]) = status[r]

\* The corrections of a commission chain in the same way and lead to the
\* commission of the row, so the differences a ledger books add up to it.
CorrectionsTellCommission ==
    \A o \in Orders :
        /\ Chains(corrections[o])
        /\ corrections[o] # <<>> => Last(corrections[o]) = source[o]

\* Together: a consumer of the outbox that books statuses and differences knows
\* both columns of every row.
EventsTellRows == MovesTellStatus /\ CorrectionsTellCommission

\* A campaign only takes the transitions of its table, whoever races for it;
\* one that ended stays ended.
CampaignsFollowTable ==
    [][\A g \in Campaigns :
          status[g] # status'[g] /\ status[g] # "absent"
          => status'[g] \in Transitions[status[g]]]_vars

\* However often a click or an order is reported, and however many callers
\* insert it at once, one event announces it, and only if it is there.
RecordedOnce ==
    /\ \A k \in Clicks : recorded[k] = IF k \in clicked THEN 1 ELSE 0
    /\ \A o \in Orders : recorded[o] = IF status[o] = "absent" THEN 0 ELSE 1

\* A campaign has links only if it was active once (campaign-api.test.js:128).
LinkedWasActive ==
    \A g \in Campaigns :
        links[g] > 0 => \E i \in 1..Len(moves[g]) : moves[g][i][2] = "active"

\* Every margin was computed from a commission its conversion has or had: one
\* some correction replaced or set, or the one it was recorded with.
MarginsWereEarned ==
    \A m \in margins :
        LET o == m[1]
        IN  \/ m[2] = source[o]
            \/ \E i \in 1..Len(corrections[o]) : m[2] = corrections[o][i][1]

\* Together: what generateLink and computeMargin read without a lock, and acted
\* on when it was no longer so, was true at some time.
ReadsWereTrue == LinkedWasActive /\ MarginsWereEarned

\* test/conversion-reconciliation-postgres.test.js:127: "same source-row replay
\* must not emit a duplicate correction event".
OneCorrectionPerSourceRow ==
    \A o \in Orders : \A i, j \in 1..Len(corrections[o]) :
        i # j => corrections[o][i][2] # corrections[o][j][2]
=============================================================================
