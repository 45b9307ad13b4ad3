------------------------- MODULE TenantTables_proofs -------------------------
(***************************************************************************)
(* What the tables of a tenant guarantee for any number of callers, rows,  *)
(* requests and tokens.                                                    *)
(*                                                                         *)
(* The affiliate rows: the argument is the row lock, what a transaction    *)
(* read under it is still what the row says when it writes.  The sign-in:  *)
(* for every number of accounts, identities, states and requests.  The     *)
(* accounts: a changed password leaves at most as many sessions from       *)
(* before it as there were requests, recent tokens exceed their limit by   *)
(* less than that, and no account changes without a token of its own.      *)
(*                                                                         *)
(* The last part puts the three beside each other, as the runs do.         *)
(***************************************************************************)
EXTENDS MCTenantTables, FiniteSetTheorems, TLAPS

-----------------------------------------------------------------------------
(* The affiliate rows.                                                     *)

States == CampaignStates \cup ConversionStates
Values == States \cup {"absent"} \cup Sources

TxRecords == [op : Ops, row : Rows \cup {None}, arg : Values, seen : Values]

TypeInv == AffiliateTypeOK /\ tx \in [Callers -> TxRecords]

StatusInv ==
    /\ \A g \in Campaigns : status[g] \in CampaignStates \cup {"absent"}
    /\ \A o \in Orders : status[o] \in ConversionStates \cup {"absent"}

\* No event is older than its row.
MovesInv ==
    /\ MovesTellStatus
    /\ \A r \in Tracked : status[r] = "absent" => moves[r] = <<>>

CorrectionsInv ==
    /\ CorrectionsTellCommission
    /\ \A o \in Orders : status[o] = "absent" => corrections[o] = <<>>

ActiveOnce(g) == \E i \in 1..Len(moves[g]) : moves[g][i][2] = "active"

LinksInv ==
    /\ \A g \in Campaigns : links[g] > 0 => ActiveOnce(g)
    /\ \A g \in Campaigns : status[g] = "active" => ActiveOnce(g)

Earned(o, s) ==
    \/ s = source[o]
    \/ \E i \in 1..Len(corrections[o]) : s = corrections[o][i][1]

MarginsInv ==
    \A m \in margins : status[m[1]] # "absent" /\ Earned(m[1], m[2])

DataInv ==
    StatusInv /\ MovesInv /\ CorrectionsInv /\ RecordedOnce /\ LinksInv /\ MarginsInv

\* What the transaction of c has read and may rely on.
Holds(c) == lock[tx[c].row] = c
TxOK(c) ==
    /\ In(c, "transition") =>
          /\ tx[c].row \in Campaigns /\ Holds(c)
          /\ tx[c].seen = status[tx[c].row] /\ tx[c].seen \in CampaignStates
          /\ tx[c].arg \in Transitions[tx[c].seen]
    /\ In(c, "link") => tx[c].row \in Campaigns /\ ActiveOnce(tx[c].row)
    /\ In(c, "click") =>
          tx[c].row \in Clicks /\ Holds(c) /\ tx[c].row \notin clicked
    /\ In(c, "conversion") =>
          /\ tx[c].row \in Orders /\ Holds(c) /\ status[tx[c].row] = "absent"
          /\ tx[c].arg \in Sources
    /\ In(c, "status") =>
          /\ tx[c].row \in Orders /\ Holds(c)
          /\ tx[c].seen = status[tx[c].row] /\ tx[c].seen \in ConversionStates
          /\ tx[c].arg \in ConversionStates
    /\ In(c, "correct") =>
          /\ tx[c].row \in Orders /\ Holds(c) /\ status[tx[c].row] # "absent"
          /\ tx[c].seen = source[tx[c].row] /\ tx[c].arg \in SourceRows
    /\ In(c, "margin") =>
          /\ tx[c].row \in Orders /\ status[tx[c].row] # "absent"
          /\ tx[c].seen \in Sources /\ Earned(tx[c].row, tx[c].seen)

AffiliateInv == TypeInv /\ DataInv /\ \A c \in Callers : TxOK(c)

Data == <<status, source, clicked, links, margins, moves, corrections, recorded>>

-----------------------------------------------------------------------------
(* Facts about transactions.                                               *)

\* An empty tenant satisfies the invariant.
THEOREM AffiliateInitInv == Init => AffiliateInv
  <1> SUFFICES ASSUME Init PROVE AffiliateInv
    OBVIOUS
  <1>1. \A r \in Tracked : status[r] = "absent" /\ moves[r] = <<>>
    BY DEF Init
  <1>2. \A o \in Orders : source[o] = None /\ corrections[o] = <<>>
    BY DEF Init
  <1>3. \A c \in Callers : tx[c] = NoTx
    BY DEF Init
  <1>4. TypeInv
    <2>1. AffiliateTypeOK
      BY <1>3, AffiliateConstants DEF Init, AffiliateTypeOK, Sources, Ops, NoTx
    <2>2. NoTx \in TxRecords
      BY DEF TxRecords, NoTx, Ops, Values, Sources
    <2>3. QED
      BY <2>1, <2>2 DEF Init, TypeInv
  <1>5. StatusInv /\ LinksInv /\ MarginsInv
    BY <1>1 DEF Init, StatusInv, LinksInv, MarginsInv, Tracked
  <1>6. MovesInv /\ CorrectionsInv
    BY <1>1, <1>2 DEF MovesInv, CorrectionsInv, MovesTellStatus,
       CorrectionsTellCommission, Chains
  <1>7. RecordedOnce
    BY <1>1 DEF Init, RecordedOnce, Tracked
  <1>8. ASSUME NEW c \in Callers PROVE TxOK(c)
    <2>1. tx[c].op = "none"
      BY <1>3 DEF NoTx
    <2>2. QED
      BY <2>1 DEF TxOK, In
  <1>9. QED
    BY <1>4, <1>5, <1>6, <1>7, <1>8 DEF AffiliateInv, DataInv

\* What a transaction relies on says nothing but its own record, its lock and
\* the tables.
LEMMA QuietTx ==
    ASSUME NEW d \in Callers, TxOK(d), UNCHANGED Data, tx'[d] = tx[d],
           \A r \in Rows : lock[r] = d => lock'[r] = d
    PROVE  TxOK(d)'
  <1>1. tx[d].row \in Campaigns \cup Orders \cup Clicks => (Holds(d) => Holds(d)')
    BY DEF Holds, Rows, Tracked
  <1>2. QED
    BY <1>1 DEF TxOK, In, Data, ActiveOnce, Earned

\* A transaction that begins by reading disturbs nothing.
LEMMA BeginKeeps ==
    ASSUME AffiliateInv, NEW c \in Callers, NEW t \in TxRecords,
           tx' = [tx EXCEPT ![c] = t], UNCHANGED Data, TxOK(c)',
           \/ UNCHANGED lock
           \/ \E r \in Rows : Free(r) /\ lock' = [lock EXCEPT ![r] = c]
    PROVE  AffiliateInv'
  <1>1. DataInv'
    BY DEF AffiliateInv, DataInv, Data, StatusInv, MovesInv, MovesTellStatus,
       CorrectionsInv, CorrectionsTellCommission, RecordedOnce, LinksInv,
       MarginsInv, ActiveOnce, Earned
  <1>2. /\ tx' \in [Callers -> TxRecords]
        /\ \A d \in Callers : d # c => tx'[d] = tx[d]
    BY DEF AffiliateInv, TypeInv, TxRecords
  <1>3. \A d \in Callers : tx'[d].op \in Ops
    BY <1>2 DEF TxRecords
  <1>4. lock' \in [Rows -> Callers \cup {None}]
    BY DEF AffiliateInv, TypeInv, AffiliateTypeOK
  <1>5. TypeInv'
    BY <1>2, <1>3, <1>4 DEF AffiliateInv, TypeInv, AffiliateTypeOK, Data, TxRecords
  <1>6. \A d \in Callers : d # c => \A r \in Rows : lock[r] = d => lock'[r] = d
    BY AffiliateConstants DEF Free, AffiliateInv, TypeInv, AffiliateTypeOK
  <1>7. \A d \in Callers : TxOK(d)'
    BY <1>2, <1>6, QuietTx DEF AffiliateInv
  <1>8. QED
    BY <1>1, <1>5, <1>7 DEF AffiliateInv

\* COMMIT and ROLLBACK take nothing from the other transactions.
LEMMA EndKeeps ==
    ASSUME TypeInv, NEW c \in Callers, End(c)
    PROVE  /\ tx' \in [Callers -> TxRecords]
           /\ lock' \in [Rows -> Callers \cup {None}]
           /\ \A d \in Callers : tx'[d].op \in Ops
           /\ TxOK(c)'
           /\ \A d \in Callers : d # c =>
                 /\ tx'[d] = tx[d]
                 /\ \A r \in Rows : lock[r] = d => lock'[r] = d
  <1>1. NoTx \in TxRecords
    BY DEF NoTx, TxRecords, Ops, Values, Sources
  <1>2. /\ tx' \in [Callers -> TxRecords]
        /\ tx'[c] = NoTx
        /\ \A d \in Callers : d # c => tx'[d] = tx[d]
    BY <1>1 DEF End, TypeInv, TxRecords
  <1>3. \A d \in Callers : tx'[d].op \in Ops
    BY <1>2 DEF TxRecords
  <1>4. TxOK(c)'
    BY <1>2 DEF TxOK, In, NoTx
  <1>5. /\ lock' \in [Rows -> Callers \cup {None}]
        /\ \A d \in Callers : d # c => \A r \in Rows : lock[r] = d => lock'[r] = d
    BY DEF End, Unlocked, TypeInv, AffiliateTypeOK
  <1>6. QED
    BY <1>2, <1>3, <1>4, <1>5

\* Trail t is the chained trail with the entry <<a, b>> at its end.
Grown(t, trail, a, b) ==
    /\ t # <<>> /\ Chains(t) /\ Last(t) = b
    /\ Len(t) = Len(trail) + 1 /\ t[Len(trail) + 1] = <<a, b>>
    /\ \A i \in 1..Len(trail) : t[i] = trail[i]

\* One more entry keeps a trail chained if it starts where the trail ended.
LEMMA ChainGrows ==
    ASSUME NEW S, NEW trail \in Seq(S \X S), NEW a \in S, NEW b \in S,
           Chains(trail), trail # <<>> => Last(trail) = a
    PROVE  /\ Append(trail, <<a, b>>) \in Seq(S \X S)
           /\ Grown(Append(trail, <<a, b>>), trail, a, b)
  <1> DEFINE t == Append(trail, <<a, b>>)
  <1>1. /\ Len(trail) \in Nat /\ t \in Seq(S \X S)
        /\ Len(t) = Len(trail) + 1 /\ t[Len(trail) + 1] = <<a, b>>
        /\ \A i \in 1..Len(trail) : t[i] = trail[i]
    OBVIOUS
  <1> HIDE DEF t
  <1>2. t # <<>> /\ Last(t) = b
    BY <1>1 DEF Last
  <1>3. ASSUME NEW i \in 1..(Len(t) - 1) PROVE t[i][2] = t[i + 1][1]
    <2>1. CASE i < Len(trail)
      <3>1. i \in 1..(Len(trail) - 1) /\ i \in 1..Len(trail) /\ i + 1 \in 1..Len(trail)
        BY <1>1, <2>1
      <3>2. trail[i][2] = trail[i + 1][1]
        BY <3>1 DEF Chains
      <3>3. QED
        BY <1>1, <3>1, <3>2
    <2>2. CASE i = Len(trail)
      <3>1. trail # <<>> /\ trail[i][2] = a
        BY <1>1, <2>2 DEF Last
      <3>2. QED
        BY <1>1, <2>2, <3>1
    <2>3. QED
      BY <1>1, <2>1, <2>2
  <1>4. Chains(t)
    BY <1>3 DEF Chains
  <1>5. QED
    BY <1>1, <1>2, <1>4 DEF t, Grown

-----------------------------------------------------------------------------
(* Actions that begin a transaction.                                       *)

\* How the sets of rows, states and commission sources lie in each other.
LEMMA ValuesFacts ==
    /\ None \in Values /\ Sources \subseteq Values /\ States \subseteq Values
    /\ CampaignStates \subseteq States /\ ConversionStates \subseteq States
    /\ Campaigns \subseteq Rows /\ Orders \subseteq Rows /\ Clicks \subseteq Rows
    /\ Campaigns \subseteq Tracked /\ Orders \subseteq Tracked
    /\ None \in Sources /\ SourceRows \subseteq Sources
  BY DEF Values, Sources, States, Rows, Tracked

\* Every row of the table leads to campaign states.
LEMMA TransitionsType ==
    \A s \in CampaignStates : Transitions[s] \subseteq CampaignStates
  BY DEF Transitions, CampaignStates

\* The record a transaction begins with.
LEMMA BeginRecord ==
    ASSUME TypeInv, NEW c \in Callers, NEW op \in Ops, NEW row \in Rows,
           NEW arg \in Values, NEW seen \in Values, Begin(c, op, row, arg, seen)
    PROVE  /\ [op |-> op, row |-> row, arg |-> arg, seen |-> seen] \in TxRecords
           /\ tx' = [tx EXCEPT ![c] =
                       [op |-> op, row |-> row, arg |-> arg, seen |-> seen]]
           /\ tx'[c].op = op /\ tx'[c].row = row
           /\ tx'[c].arg = arg /\ tx'[c].seen = seen
  <1>1. tx'[c] = [op |-> op, row |-> row, arg |-> arg, seen |-> seen]
    BY DEF Begin, TypeInv
  <1>2. QED
    BY <1>1 DEF Begin, TxRecords

\* A locked row is held by the transaction that locked it.
LEMMA LockTaken ==
    ASSUME TypeInv, NEW c \in Callers, NEW r \in Rows, Free(r),
           lock' = [lock EXCEPT ![r] = c]
    PROVE  /\ lock'[r] = c
           /\ \E q \in Rows : Free(q) /\ lock' = [lock EXCEPT ![q] = c]
  BY DEF TypeInv, AffiliateTypeOK

\* A transaction on a campaign begins: generateLink, updateCampaign, transitionCampaign.
LEMMA CampaignBegins ==
    ASSUME AffiliateInv, NEW c \in Callers, NEW g \in Campaigns,
           NEW to \in CampaignStates,
           readCampaign(c, g) \/ lockMetadata(c, g) \/ lockCampaign(c, g, to)
    PROVE  AffiliateInv'
  <1>1. /\ TypeInv /\ g \in Rows /\ None \in Values /\ to \in Values
        /\ status[g] \in CampaignStates \cup {"absent"}
        /\ status[g] \in Values
    BY ValuesFacts DEF AffiliateInv, DataInv, StatusInv, Values
  <1>2. UNCHANGED Data
    BY DEF readCampaign, lockMetadata, lockCampaign, Data
  <1>3. CASE readCampaign(c, g)
    <2> DEFINE t == [op |-> "link", row |-> g, arg |-> None, seen |-> status[g]]
    <2>1. /\ t \in TxRecords /\ tx' = [tx EXCEPT ![c] = t]
          /\ tx'[c].op = "link" /\ tx'[c].row = g
      BY <1>1, <1>3, BeginRecord DEF readCampaign, Ops
    <2>2. ActiveOnce(g)'
      BY <1>2, <1>3 DEF readCampaign, Linkable, AffiliateInv, DataInv, LinksInv,
         ActiveOnce, Data
    <2>3. TxOK(c)'
      BY <2>1, <2>2 DEF TxOK, In
    <2> HIDE DEF t
    <2>4. QED
      BY <1>2, <1>3, <2>1, <2>3, BeginKeeps DEF readCampaign
  <1>4. CASE lockMetadata(c, g)
    <2> DEFINE t == [op |-> "update", row |-> g, arg |-> None, seen |-> status[g]]
    <2>1. /\ t \in TxRecords /\ tx' = [tx EXCEPT ![c] = t]
          /\ tx'[c].op = "update"
      BY <1>1, <1>4, BeginRecord DEF lockMetadata, Ops
    <2>2. TxOK(c)'
      BY <2>1 DEF TxOK, In
    <2>3. \E q \in Rows : Free(q) /\ lock' = [lock EXCEPT ![q] = c]
      BY <1>1, <1>4 DEF lockMetadata
    <2> HIDE DEF t
    <2>4. QED
      BY <1>2, <2>1, <2>2, <2>3, BeginKeeps
  <1>5. CASE lockCampaign(c, g, to)
    <2> DEFINE t == [op |-> "transition", row |-> g, arg |-> to, seen |-> status[g]]
    <2>1. /\ t \in TxRecords /\ tx' = [tx EXCEPT ![c] = t]
          /\ tx'[c].op = "transition" /\ tx'[c].row = g
          /\ tx'[c].arg = to /\ tx'[c].seen = status[g]
      BY <1>1, <1>5, BeginRecord DEF lockCampaign, Ops
    <2>2. lock'[g] = c /\ \E q \in Rows : Free(q) /\ lock' = [lock EXCEPT ![q] = c]
      BY <1>1, <1>5, LockTaken DEF lockCampaign
    <2>3. /\ status'[g] = status[g] /\ status[g] \in CampaignStates
          /\ to \in Transitions[status[g]]
      BY <1>1, <1>5 DEF lockCampaign
    <2>4. TxOK(c)'
      BY <2>1, <2>2, <2>3 DEF TxOK, In, Holds
    <2> HIDE DEF t
    <2>5. QED
      BY <1>2, <2>1, <2>2, <2>4, BeginKeeps
  <1>6. QED
    BY <1>3, <1>4, <1>5

\* A click or a conversion inserts its row and waits on its unique index.
LEMMA InsertBegins ==
    ASSUME AffiliateInv, NEW c \in Callers,
           \/ \E k \in Clicks : insertClick(c, k)
           \/ \E o \in Orders, from \in Sources : insertConversion(c, o, from)
    PROVE  AffiliateInv'
  <1>1. TypeInv
    BY DEF AffiliateInv
  <1>2. ASSUME NEW k \in Clicks, insertClick(c, k) PROVE AffiliateInv'
    <2> DEFINE t == [op |-> "click", row |-> k, arg |-> None, seen |-> None]
    <2>1. /\ t \in TxRecords /\ tx' = [tx EXCEPT ![c] = t]
          /\ tx'[c].op = "click" /\ tx'[c].row = k
      BY <1>1, <1>2, ValuesFacts, BeginRecord DEF insertClick, Ops
    <2>2. lock'[k] = c /\ \E q \in Rows : Free(q) /\ lock' = [lock EXCEPT ![q] = c]
      BY <1>1, <1>2, ValuesFacts, LockTaken DEF insertClick
    <2>3. UNCHANGED Data /\ k \notin clicked'
      BY <1>2 DEF insertClick, NewClick, Data
    <2>4. TxOK(c)'
      BY <2>1, <2>2, <2>3 DEF TxOK, In, Holds
    <2> HIDE DEF t
    <2>5. QED
      BY <2>1, <2>2, <2>3, <2>4, BeginKeeps
  <1>3. ASSUME NEW o \in Orders, NEW from \in Sources, insertConversion(c, o, from)
        PROVE  AffiliateInv'
    <2> DEFINE t == [op |-> "conversion", row |-> o, arg |-> from, seen |-> None]
    <2>1. /\ t \in TxRecords /\ tx' = [tx EXCEPT ![c] = t]
          /\ tx'[c].op = "conversion" /\ tx'[c].row = o /\ tx'[c].arg = from
      BY <1>1, <1>3, ValuesFacts, BeginRecord DEF insertConversion, Ops
    <2>2. lock'[o] = c /\ \E q \in Rows : Free(q) /\ lock' = [lock EXCEPT ![q] = c]
      BY <1>1, <1>3, ValuesFacts, LockTaken DEF insertConversion
    <2>3. UNCHANGED Data /\ status'[o] = "absent"
      BY <1>3 DEF insertConversion, NewOrder, Data
    <2>4. TxOK(c)'
      BY <2>1, <2>2, <2>3 DEF TxOK, In, Holds
    <2> HIDE DEF t
    <2>5. QED
      BY <2>1, <2>2, <2>3, <2>4, BeginKeeps
  <1>4. QED
    BY <1>2, <1>3

\* A margin or a reconciliation reads its conversion.
LEMMA ReconcileBegins ==
    ASSUME AffiliateInv, NEW c \in Callers, NEW o \in Orders,
           \/ readConversion(c, o)
           \/ \E to \in ConversionStates : lockConversion(c, o, to)
           \/ \E row \in SourceRows : lockCommission(c, o, row)
    PROVE  AffiliateInv'
  <1>1. /\ TypeInv /\ o \in Rows
        /\ status[o] \in ConversionStates \cup {"absent"}
        /\ source[o] \in Sources
    BY ValuesFacts DEF AffiliateInv, DataInv, StatusInv, TypeInv, AffiliateTypeOK
  <1>2. UNCHANGED Data
    BY DEF readConversion, lockConversion, lockCommission, Data
  <1>3. CASE readConversion(c, o)
    <2> DEFINE t == [op |-> "margin", row |-> o, arg |-> None, seen |-> source[o]]
    <2>1. /\ t \in TxRecords /\ tx' = [tx EXCEPT ![c] = t]
          /\ tx'[c].op = "margin" /\ tx'[c].row = o /\ tx'[c].seen = source[o]
      BY <1>1, <1>3, ValuesFacts, BeginRecord DEF readConversion, Ops
    <2>2. /\ status'[o] # "absent" /\ source[o] \in Sources'
          /\ source'[o] = source[o]
      BY <1>1, <1>2, <1>3 DEF readConversion, Sources, Data
    <2>3. TxOK(c)'
      BY <2>1, <2>2 DEF TxOK, In, Earned
    <2> HIDE DEF t
    <2>4. QED
      BY <1>2, <1>3, <2>1, <2>3, BeginKeeps DEF readConversion
  <1>4. ASSUME NEW to \in ConversionStates, lockConversion(c, o, to)
        PROVE  AffiliateInv'
    <2> DEFINE t == [op |-> "status", row |-> o, arg |-> to, seen |-> status[o]]
    <2>1. /\ t \in TxRecords /\ tx' = [tx EXCEPT ![c] = t]
          /\ tx'[c].op = "status" /\ tx'[c].row = o
          /\ tx'[c].arg = to /\ tx'[c].seen = status[o]
      <3>1. status[o] \in Values /\ to \in Values
        BY <1>1, ValuesFacts DEF Values
      <3>2. QED
        BY <1>1, <1>4, <3>1, BeginRecord DEF lockConversion, Ops
    <2>2. lock'[o] = c /\ \E q \in Rows : Free(q) /\ lock' = [lock EXCEPT ![q] = c]
      BY <1>1, <1>4, LockTaken DEF lockConversion
    <2>3. status'[o] = status[o] /\ status[o] \in ConversionStates
      BY <1>1, <1>4 DEF lockConversion
    <2>4. TxOK(c)'
      BY <2>1, <2>2, <2>3 DEF TxOK, In, Holds
    <2> HIDE DEF t
    <2>5. QED
      BY <1>2, <2>1, <2>2, <2>4, BeginKeeps
  <1>5. ASSUME NEW row \in SourceRows, lockCommission(c, o, row) PROVE AffiliateInv'
    <2> DEFINE t == [op |-> "correct", row |-> o, arg |-> row, seen |-> source[o]]
    <2>1. /\ t \in TxRecords /\ tx' = [tx EXCEPT ![c] = t]
          /\ tx'[c].op = "correct" /\ tx'[c].row = o
          /\ tx'[c].arg = row /\ tx'[c].seen = source[o]
      BY <1>1, <1>5, ValuesFacts, BeginRecord DEF lockCommission, Ops
    <2>2. lock'[o] = c /\ \E q \in Rows : Free(q) /\ lock' = [lock EXCEPT ![q] = c]
      BY <1>1, <1>5, LockTaken DEF lockCommission
    <2>3. /\ source'[o] = source[o] /\ status'[o] = status[o]
          /\ status[o] # "absent"
      BY <1>5 DEF lockCommission
    <2>4. TxOK(c)'
      BY <2>1, <2>2, <2>3 DEF TxOK, In, Holds
    <2> HIDE DEF t
    <2>5. QED
      BY <1>2, <2>1, <2>2, <2>4, BeginKeeps
  <1>6. QED
    BY <1>3, <1>4, <1>5

-----------------------------------------------------------------------------
(* Actions that write and commit.                                          *)

\* What another transaction relies on stays, if what it locked stays and the
\* rest only grows.
LEMMA OthersKeep ==
    ASSUME AffiliateInv, NEW c \in Callers, NEW d \in Callers, d # c, End(c),
           \A q \in Tracked : lock[q] # c => status'[q] = status[q],
           \A o \in Orders : lock[o] # c => source'[o] = source[o],
           \A k \in Clicks : lock[k] # c /\ k \notin clicked => k \notin clicked',
           \A o \in Orders : status[o] # "absent" => status'[o] # "absent",
           \A g \in Campaigns : ActiveOnce(g) => ActiveOnce(g)',
           \A o \in Orders : status[o] # "absent" =>
              \A x : Earned(o, x) => Earned(o, x)'
    PROVE  TxOK(d)'
  <1>1. /\ tx'[d] = tx[d]
        /\ \A q \in Rows : lock[q] = d => lock'[q] = d
    BY EndKeeps DEF AffiliateInv
  <1>2. TxOK(d)
    BY DEF AffiliateInv
  <1>3. PICK q : q = tx[d].row
    OBVIOUS
  <1>4. q = tx'[d].row
    BY <1>1, <1>3
  <1>5. q \in Rows /\ Holds(d) => Holds(d)' /\ lock[q] # c
    BY <1>1, <1>3, <1>4 DEF Holds
  <1>6. q \in Campaigns /\ ActiveOnce(q) => ActiveOnce(q)'
    OBVIOUS
  <1>7. /\ q \in Tracked /\ Holds(d) => status'[q] = status[q]
        /\ q \in Orders /\ Holds(d) => source'[q] = source[q]
        /\ q \in Clicks /\ Holds(d) /\ q \notin clicked => q \notin clicked'
    BY <1>5, ValuesFacts DEF Rows
  <1>8. /\ q \in Orders /\ status[q] # "absent" => status'[q] # "absent"
        /\ q \in Orders /\ status[q] # "absent" =>
              \A x : Earned(q, x) => Earned(q, x)'
    OBVIOUS
  <1>9. q \in Campaigns \cup Orders \cup Clicks /\ Holds(d) => Holds(d)'
    BY <1>5, ValuesFacts
  <1>10. In(d, "link")' => tx'[d].row \in Campaigns /\ ActiveOnce(tx[d].row)'
    BY <1>1, <1>2, <1>3, <1>4, <1>6 DEF TxOK, In, ActiveOnce
  <1>11. In(d, "margin")' =>
           /\ tx'[d].row \in Orders /\ status'[tx'[d].row] # "absent"
           /\ tx'[d].seen \in Sources /\ Earned(tx[d].row, tx[d].seen)'
    <2>1. ASSUME In(d, "margin")
          PROVE  /\ q \in Orders /\ status[q] # "absent"
                 /\ tx[d].seen \in Sources /\ Earned(q, tx[d].seen)
      BY <1>2, <1>3, <2>1 DEF TxOK
    <2>2. ASSUME In(d, "margin") PROVE Earned(tx[d].row, tx[d].seen)'
      <3>1. PICK x : x = tx[d].seen
        OBVIOUS
      <3>2. Earned(q, x)'
        BY <1>8, <2>1, <2>2, <3>1
      <3>3. x = tx'[d].seen
        BY <1>1, <3>1
      <3>4. QED
        BY <1>4, <3>2, <3>3 DEF Earned
    <2>3. QED
      BY <1>1, <1>4, <1>8, <2>1, <2>2 DEF In
  <1>12. QED
    <2> DEFINE op == tx[d].op
    <2>1. /\ op = "transition" \/ op = "status" \/ op = "correct" \/ op = "conversion"
               => status'[q] = status[q]
          /\ op = "correct" => source'[q] = source[q]
          /\ op = "click" => q \notin clicked'
      BY <1>2, <1>3, <1>7, ValuesFacts DEF TxOK, In
    <2>2. op \in {"transition", "status", "correct", "conversion", "click"}
            => Holds(d)'
      BY <1>2, <1>3, <1>9 DEF TxOK, In
    <2>3. QED
      BY <1>1, <1>2, <1>3, <1>4, <1>10, <1>11, <2>1, <2>2 DEF TxOK, In

\* Changing the status of a row its transaction holds.
LEMMA MoveKeeps ==
    ASSUME AffiliateInv, NEW c \in Callers, NEW r \in Tracked, lock[r] = c,
           NEW to \in States, status[r] \in States,
           r \in Campaigns => to \in CampaignStates,
           r \in Orders => to \in ConversionStates,
           Move(r, status[r], to), End(c),
           UNCHANGED <<source, clicked, links, margins, corrections, recorded>>
    PROVE  AffiliateInv'
  <1> DEFINE trail == moves[r]
             grown == Append(trail, <<status[r], to>>)
  <1>1. /\ status \in [Tracked -> States \cup {"absent"}]
        /\ moves \in [Tracked -> Seq(States \X States)]
        /\ TypeInv /\ "absent" \notin States
    BY DEF AffiliateInv, TypeInv, AffiliateTypeOK, States, CampaignStates,
       ConversionStates
  <1>2. /\ status' = [status EXCEPT ![r] = to]
        /\ moves' = [moves EXCEPT ![r] = grown]
    BY DEF Move
  <1>3. /\ trail \in Seq(States \X States) /\ Chains(trail)
        /\ trail # <<>> => Last(trail) = status[r]
    BY <1>1 DEF AffiliateInv, DataInv, MovesInv, MovesTellStatus
  <1>4. grown \in Seq(States \X States) /\ Grown(grown, trail, status[r], to)
    BY <1>3, ChainGrows
  <1> HIDE DEF grown
  <1>5. /\ status' \in [Tracked -> States \cup {"absent"}]
        /\ moves' \in [Tracked -> Seq(States \X States)]
        /\ status'[r] = to /\ moves'[r] = grown
        /\ \A q \in Tracked : q # r => status'[q] = status[q] /\ moves'[q] = moves[q]
    BY <1>1, <1>2, <1>4
  <1>6. \A q \in Tracked : status[q] # "absent" => status'[q] # "absent"
    BY <1>1, <1>5
  <1>7. \A g \in Campaigns : ActiveOnce(g) => ActiveOnce(g)'
    <2> SUFFICES ASSUME NEW g \in Campaigns, NEW i \in 1..Len(moves[g]),
                        moves[g][i][2] = "active"
                 PROVE  ActiveOnce(g)'
      BY DEF ActiveOnce
    <2>1. CASE g # r
      BY <1>5, <2>1, ValuesFacts DEF ActiveOnce
    <2>2. CASE g = r
      <3>1. Len(trail) \in Nat
        BY <1>3
      <3>2. i \in 1..Len(grown) /\ grown[i][2] = "active"
        BY <1>4, <2>2, <3>1 DEF Grown
      <3>3. QED
        BY <1>5, <2>2, <3>2 DEF ActiveOnce
    <2>3. QED
      BY <2>1, <2>2
  <1>8. TypeInv'
    <2>1. AffiliateTypeOK'
      BY <1>1, <1>5, EndKeeps DEF TypeInv, AffiliateTypeOK, States
    <2>2. QED
      BY <1>1, <2>1, EndKeeps DEF TypeInv
  <1>9. StatusInv'
    BY <1>5, ValuesFacts DEF AffiliateInv, DataInv, StatusInv, Tracked
  <1>10. MovesInv'
    <2>1. ASSUME NEW q \in Tracked
          PROVE  /\ Chains(moves'[q])
                 /\ moves'[q] # <<>> => Last(moves'[q]) = status'[q]
                 /\ status'[q] = "absent" => moves'[q] = <<>>
      <3>1. CASE q = r
        BY <1>1, <1>4, <1>5, <3>1 DEF Grown
      <3>2. CASE q # r
        BY <1>5, <3>2 DEF AffiliateInv, DataInv, MovesInv, MovesTellStatus
      <3>3. QED
        BY <3>1, <3>2
    <2>2. QED
      BY <2>1 DEF MovesInv, MovesTellStatus
  <1>11. CorrectionsInv' /\ MarginsInv' /\ RecordedOnce'
    <2>1. \A o \in Orders : status'[o] = "absent" <=> status[o] = "absent"
      BY <1>1, <1>5, ValuesFacts
    <2>2. CorrectionsInv'
      BY <2>1 DEF AffiliateInv, DataInv, CorrectionsInv, CorrectionsTellCommission
    <2>3. RecordedOnce'
      BY <2>1 DEF AffiliateInv, DataInv, RecordedOnce
    <2>4. MarginsInv'
      BY <2>1 DEF AffiliateInv, DataInv, MarginsInv, Earned, TypeInv,
         AffiliateTypeOK
    <2>5. QED
      BY <2>2, <2>3, <2>4
  <1>12. LinksInv'
    <2>1. ASSUME NEW g \in Campaigns, status'[g] = "active" PROVE ActiveOnce(g)'
      <3>1. CASE g # r
        BY <1>5, <1>7, <2>1, <3>1, ValuesFacts DEF AffiliateInv, DataInv, LinksInv
      <3>2. CASE g = r
        <4>1. Len(trail) + 1 \in 1..Len(grown) /\ grown[Len(trail) + 1][2] = "active"
          BY <1>3, <1>4, <1>5, <2>1, <3>2 DEF Grown
        <4>2. QED
          BY <1>4, <1>5, <3>2, <4>1 DEF ActiveOnce
      <3>3. QED
        BY <3>1, <3>2
    <2>2. QED
      BY <1>7, <2>1 DEF AffiliateInv, DataInv, LinksInv
  <1>13. ASSUME NEW d \in Callers PROVE TxOK(d)'
    <2>1. CASE d = c
      BY <1>1, <2>1, EndKeeps
    <2>2. CASE d # c
      <3>1. \A q \in Tracked : lock[q] # c => status'[q] = status[q]
        BY <1>5
      <3>2. /\ \A o \in Orders : status[o] # "absent" => status'[o] # "absent"
            /\ \A o \in Orders : \A x : Earned(o, x) => Earned(o, x)'
        BY <1>6, ValuesFacts DEF Earned
      <3>3. QED
        BY <1>7, <2>2, <3>1, <3>2, OthersKeep
    <2>3. QED
      BY <2>1, <2>2
  <1>14. QED
    BY <1>8, <1>9, <1>10, <1>11, <1>12, <1>13 DEF AffiliateInv, DataInv

\* The first status of a row.
LEMMA NewRowKeeps ==
    ASSUME AffiliateInv, NEW r \in Tracked, status[r] = "absent",
           NEW first, r \in Campaigns => first = "draft",
           r \in Orders => first = "pending",
           status' = [status EXCEPT ![r] = first],
           UNCHANGED <<clicked, links, margins, moves, corrections>>
    PROVE  /\ status' \in [Tracked -> States \cup {"absent"}]
           /\ StatusInv' /\ MovesInv' /\ LinksInv'
           /\ \A q \in Tracked : q # r => status'[q] = status[q]
           /\ status'[r] = first /\ first # "absent"
           /\ moves[r] = <<>>
           /\ \A m \in margins : m[1] # r
           /\ \A g \in Campaigns : ActiveOnce(g) <=> ActiveOnce(g)'
  <1>1. /\ status \in [Tracked -> States \cup {"absent"}]
        /\ margins \subseteq Orders \X Sources
    BY DEF AffiliateInv, TypeInv, AffiliateTypeOK, States
  <1>2. first \in States /\ first # "absent" /\ first # "active"
    BY DEF Tracked, States, CampaignStates, ConversionStates
  <1>3. /\ status' \in [Tracked -> States \cup {"absent"}]
        /\ status'[r] = first
        /\ \A q \in Tracked : q # r => status'[q] = status[q]
    BY <1>1, <1>2
  <1>4. StatusInv'
    BY <1>3 DEF AffiliateInv, DataInv, StatusInv, Tracked, CampaignStates,
       ConversionStates
  <1>5. moves[r] = <<>>
    BY DEF AffiliateInv, DataInv, MovesInv
  <1>6. MovesInv'
    <2>1. \A q \in Tracked : /\ Chains(moves'[q])
                             /\ moves'[q] # <<>> => Last(moves'[q]) = status'[q]
                             /\ status'[q] = "absent" => moves'[q] = <<>>
      BY <1>3, <1>5 DEF AffiliateInv, DataInv, MovesInv, MovesTellStatus
    <2>2. QED
      BY <2>1 DEF MovesInv, MovesTellStatus
  <1>7. \A g \in Campaigns : ActiveOnce(g) <=> ActiveOnce(g)'
    BY DEF ActiveOnce
  <1>8. LinksInv'
    BY <1>2, <1>3, <1>7, ValuesFacts DEF AffiliateInv, DataInv, LinksInv
  <1>9. \A m \in margins : m[1] # r
    BY DEF AffiliateInv, DataInv, MarginsInv
  <1>10. QED
    BY <1>2, <1>3, <1>4, <1>5, <1>6, <1>7, <1>8, <1>9

\* createCampaign starts the trail of a campaign.
LEMMA CreateKeeps ==
    ASSUME AffiliateInv, NEW g \in Campaigns, createCampaign(g)
    PROVE  AffiliateInv'
  <1>1. /\ g \in Tracked /\ g \notin Orders /\ status[g] = "absent"
        /\ status' = [status EXCEPT ![g] = "draft"]
        /\ UNCHANGED <<clicked, links, margins, moves, corrections>>
    BY ValuesFacts, AffiliateConstants DEF createCampaign
  <1>2. /\ status' \in [Tracked -> States \cup {"absent"}]
        /\ StatusInv' /\ MovesInv' /\ LinksInv'
        /\ \A q \in Tracked : q # g => status'[q] = status[q]
        /\ \A h \in Campaigns : ActiveOnce(h) <=> ActiveOnce(h)'
    BY <1>1, NewRowKeeps
  <1>3. \A o \in Orders : status'[o] = status[o]
    BY <1>1, <1>2, ValuesFacts
  <1>4. UNCHANGED <<source, clicked, links, margins, moves, corrections, recorded,
                    lock, tx>>
    BY DEF createCampaign
  <1>5. TypeInv'
    <2>1. AffiliateTypeOK'
      BY <1>2, <1>4 DEF AffiliateInv, TypeInv, AffiliateTypeOK, States
    <2>2. QED
      BY <1>4, <2>1 DEF AffiliateInv, TypeInv
  <1>6. CorrectionsInv'
    BY <1>3, <1>4 DEF AffiliateInv, DataInv, CorrectionsInv, CorrectionsTellCommission
  <1>7. RecordedOnce'
    BY <1>3, <1>4 DEF AffiliateInv, DataInv, RecordedOnce
  <1>8. MarginsInv'
    BY <1>3, <1>4 DEF AffiliateInv, DataInv, MarginsInv, Earned, TypeInv,
       AffiliateTypeOK
  <1>9. ASSUME NEW d \in Callers PROVE TxOK(d)'
    <2>1. TxOK(d)
      BY DEF AffiliateInv
    <2>2. PICK q : q = tx[d].row
      OBVIOUS
    <2>3. q \in Tracked /\ status[q] \in CampaignStates => status'[q] = status[q]
      BY <1>1, <1>2 DEF CampaignStates
    <2>4. q \in Campaigns /\ ActiveOnce(q) => ActiveOnce(q)'
      BY <1>2
    <2>5. QED
      BY <1>3, <1>4, <2>1, <2>2, <2>3, <2>4, ValuesFacts
         DEF TxOK, In, Holds, ActiveOnce, Earned
  <1>10. QED
    BY <1>2, <1>5, <1>6, <1>7, <1>8, <1>9 DEF AffiliateInv, DataInv

\* A transaction that ends without a trace disturbs nothing.
LEMMA QuietEnd ==
    ASSUME AffiliateInv, NEW c \in Callers, End(c), UNCHANGED Data
    PROVE  AffiliateInv'
  <1>1. DataInv'
    BY DEF AffiliateInv, DataInv, Data, StatusInv, MovesInv, MovesTellStatus,
       CorrectionsInv, CorrectionsTellCommission, RecordedOnce, LinksInv,
       MarginsInv, ActiveOnce, Earned
  <1>2. TypeInv'
    BY EndKeeps DEF AffiliateInv, TypeInv, AffiliateTypeOK, Data
  <1>3. \A d \in Callers : TxOK(d)'
    BY EndKeeps, QuietTx DEF AffiliateInv
  <1>4. QED
    BY <1>1, <1>2, <1>3 DEF AffiliateInv

\* The INSERT of generateLink rests on a campaign that was active when it was read.
LEMMA InsertLinkKeeps ==
    ASSUME AffiliateInv, NEW c \in Callers, insertLink(c)
    PROVE  AffiliateInv'
  <1> DEFINE g == tx[c].row
  <1>1. g \in Campaigns /\ ActiveOnce(g)
    BY DEF insertLink, AffiliateInv, TxOK
  <1>2. /\ End(c) /\ UNCHANGED <<status, source, clicked, margins, moves,
                                 corrections, recorded>>
        /\ links' = [links EXCEPT ![g] = @ + 1] /\ links[g] < MaxLinks
    BY DEF insertLink
  <1> HIDE DEF g
  <1>3. \A h \in Campaigns : ActiveOnce(h) <=> ActiveOnce(h)'
    BY <1>2 DEF ActiveOnce
  <1>4. /\ links' \in [Campaigns -> 0..MaxLinks]
        /\ \A h \in Campaigns : h # g => links'[h] = links[h]
    BY <1>1, <1>2, AffiliateConstants DEF AffiliateInv, TypeInv, AffiliateTypeOK
  <1>5. TypeInv'
    BY <1>2, <1>4, EndKeeps DEF AffiliateInv, TypeInv, AffiliateTypeOK
  <1>6. StatusInv' /\ MovesInv' /\ CorrectionsInv' /\ RecordedOnce'
    BY <1>2 DEF AffiliateInv, DataInv, StatusInv, MovesInv, MovesTellStatus,
       CorrectionsInv, CorrectionsTellCommission, RecordedOnce
  <1>7. LinksInv'
    BY <1>1, <1>2, <1>3, <1>4 DEF AffiliateInv, DataInv, LinksInv
  <1>8. MarginsInv'
    BY <1>2 DEF AffiliateInv, DataInv, MarginsInv, Earned
  <1>9. ASSUME NEW d \in Callers PROVE TxOK(d)'
    <2>1. CASE d = c
      BY <1>2, <2>1, EndKeeps DEF AffiliateInv
    <2>2. CASE d # c
      <3>1. \A o \in Orders : \A x : Earned(o, x) => Earned(o, x)'
        BY <1>2 DEF Earned
      <3>2. QED
        BY <1>2, <1>3, <2>2, <3>1, OthersKeep
    <2>3. QED
      BY <2>1, <2>2
  <1>10. QED
    BY <1>5, <1>6, <1>7, <1>8, <1>9 DEF AffiliateInv, DataInv

\* recordClick announces a click that nobody announced.
LEMMA RecordClickKeeps ==
    ASSUME AffiliateInv, NEW c \in Callers, recordClick(c)
    PROVE  AffiliateInv'
  <1> DEFINE k == tx[c].row
  <1>1. k \in Clicks /\ lock[k] = c /\ k \notin clicked /\ k \notin Orders
    BY AffiliateConstants DEF recordClick, AffiliateInv, TxOK, Holds
  <1>2. /\ End(c) /\ UNCHANGED <<status, source, links, margins, moves, corrections>>
        /\ clicked' = clicked \cup {k}
        /\ recorded' = [recorded EXCEPT ![k] = @ + 1]
    BY DEF recordClick
  <1> HIDE DEF k
  <1>3. recorded[k] = 0 /\ recorded \in [Orders \cup Clicks -> 0..1]
    BY <1>1 DEF AffiliateInv, DataInv, RecordedOnce, TypeInv, AffiliateTypeOK
  <1>4. /\ recorded' \in [Orders \cup Clicks -> 0..1] /\ recorded'[k] = 1
        /\ \A r \in Orders \cup Clicks : r # k => recorded'[r] = recorded[r]
    BY <1>1, <1>2, <1>3
  <1>5. TypeInv'
    BY <1>1, <1>2, <1>4, EndKeeps DEF AffiliateInv, TypeInv, AffiliateTypeOK
  <1>6. StatusInv' /\ MovesInv' /\ CorrectionsInv' /\ MarginsInv' /\ LinksInv'
    BY <1>2 DEF AffiliateInv, DataInv, StatusInv, MovesInv, MovesTellStatus,
       CorrectionsInv, CorrectionsTellCommission, MarginsInv, Earned, LinksInv,
       ActiveOnce
  <1>7. RecordedOnce'
    BY <1>1, <1>2, <1>4 DEF AffiliateInv, DataInv, RecordedOnce
  <1>8. ASSUME NEW d \in Callers PROVE TxOK(d)'
    <2>1. CASE d = c
      BY <1>2, <2>1, EndKeeps DEF AffiliateInv
    <2>2. CASE d # c
      <3>1. /\ \A o \in Orders : \A x : Earned(o, x) => Earned(o, x)'
            /\ \A g \in Campaigns : ActiveOnce(g) => ActiveOnce(g)'
        BY <1>2 DEF Earned, ActiveOnce
      <3>2. \A q \in Clicks : lock[q] # c /\ q \notin clicked => q \notin clicked'
        BY <1>1, <1>2
      <3>3. QED
        BY <1>2, <2>2, <3>1, <3>2, OthersKeep
    <2>3. QED
      BY <2>1, <2>2
  <1>9. QED
    BY <1>5, <1>6, <1>7, <1>8 DEF AffiliateInv, DataInv

\* computeMargin stores a commission that the conversion had when it was read.
LEMMA ComputeMarginKeeps ==
    ASSUME AffiliateInv, NEW c \in Callers, computeMargin(c)
    PROVE  AffiliateInv'
  <1> DEFINE m == <<tx[c].row, tx[c].seen>>
  <1>1. /\ m \in Orders \X Sources /\ status[m[1]] # "absent"
        /\ Earned(m[1], m[2])
    BY DEF computeMargin, AffiliateInv, TxOK, Earned
  <1>2. /\ End(c) /\ UNCHANGED <<status, source, clicked, links, moves, corrections,
                                 recorded>>
        /\ margins' = margins \cup {m}
    BY DEF computeMargin
  <1> HIDE DEF m
  <1>3. TypeInv'
    BY <1>1, <1>2, EndKeeps DEF AffiliateInv, TypeInv, AffiliateTypeOK
  <1>4. StatusInv' /\ MovesInv' /\ CorrectionsInv' /\ RecordedOnce' /\ LinksInv'
    BY <1>2 DEF AffiliateInv, DataInv, StatusInv, MovesInv, MovesTellStatus,
       CorrectionsInv, CorrectionsTellCommission, RecordedOnce, LinksInv, ActiveOnce
  <1>5. MarginsInv'
    BY <1>1, <1>2 DEF AffiliateInv, DataInv, MarginsInv, Earned
  <1>6. ASSUME NEW d \in Callers PROVE TxOK(d)'
    <2>1. CASE d = c
      BY <1>2, <2>1, EndKeeps DEF AffiliateInv
    <2>2. CASE d # c
      <3>1. /\ \A o \in Orders : \A x : Earned(o, x) => Earned(o, x)'
            /\ \A g \in Campaigns : ActiveOnce(g) => ActiveOnce(g)'
        BY <1>2 DEF Earned, ActiveOnce
      <3>2. QED
        BY <1>2, <2>2, <3>1, OthersKeep
    <2>3. QED
      BY <2>1, <2>2
  <1>7. QED
    BY <1>3, <1>4, <1>5, <1>6 DEF AffiliateInv, DataInv

\* recordConversion starts the trails of a conversion and announces it once.
LEMMA RecordConversionKeeps ==
    ASSUME AffiliateInv, NEW c \in Callers, recordConversion(c)
    PROVE  AffiliateInv'
  <1> DEFINE o == tx[c].row
             from == tx[c].arg
  <1>1. /\ o \in Orders /\ lock[o] = c /\ status[o] = "absent" /\ from \in Sources
        /\ o \in Tracked /\ o \notin Campaigns /\ o \notin Clicks
    BY AffiliateConstants, ValuesFacts
       DEF recordConversion, AffiliateInv, TxOK, Holds
  <1>2. /\ End(c) /\ UNCHANGED <<clicked, links, margins, moves, corrections>>
        /\ status' = [status EXCEPT ![o] = "pending"]
        /\ source' = [source EXCEPT ![o] = from]
        /\ recorded' = [recorded EXCEPT ![o] = @ + 1]
    BY DEF recordConversion
  <1> HIDE DEF o, from
  <1>3. /\ status' \in [Tracked -> States \cup {"absent"}]
        /\ StatusInv' /\ MovesInv' /\ LinksInv'
        /\ \A q \in Tracked : q # o => status'[q] = status[q]
        /\ status'[o] # "absent"
        /\ \A m \in margins : m[1] # o
        /\ \A g \in Campaigns : ActiveOnce(g) <=> ActiveOnce(g)'
    BY <1>1, <1>2, NewRowKeeps
  <1>4. recorded[o] = 0 /\ recorded \in [Orders \cup Clicks -> 0..1]
    BY <1>1 DEF AffiliateInv, DataInv, RecordedOnce, TypeInv, AffiliateTypeOK
  <1>5. /\ recorded' \in [Orders \cup Clicks -> 0..1] /\ recorded'[o] = 1
        /\ \A r \in Orders \cup Clicks : r # o => recorded'[r] = recorded[r]
    BY <1>1, <1>2, <1>4
  <1>6. /\ source' \in [Orders -> Sources]
        /\ \A p \in Orders : p # o => source'[p] = source[p] /\ status'[p] = status[p]
    BY <1>1, <1>2, <1>3, ValuesFacts DEF AffiliateInv, TypeInv, AffiliateTypeOK
  <1>7. TypeInv'
    <2>1. AffiliateTypeOK'
      BY <1>2, <1>3, <1>5, <1>6, EndKeeps DEF AffiliateInv, TypeInv,
         AffiliateTypeOK, States
    <2>2. QED
      BY <1>2, <2>1, EndKeeps DEF AffiliateInv, TypeInv
  <1>8. CorrectionsInv'
    <2>1. corrections[o] = <<>>
      BY <1>1 DEF AffiliateInv, DataInv, CorrectionsInv
    <2>2. ASSUME NEW p \in Orders
          PROVE  /\ Chains(corrections'[p])
                 /\ corrections'[p] # <<>> => Last(corrections'[p]) = source'[p]
                 /\ status'[p] = "absent" => corrections'[p] = <<>>
      BY <1>2, <1>6, <2>1 DEF AffiliateInv, DataInv, CorrectionsInv,
         CorrectionsTellCommission
    <2>3. QED
      BY <2>2 DEF CorrectionsInv, CorrectionsTellCommission
  <1>9. RecordedOnce'
    <2>1. \A k \in Clicks : recorded'[k] = recorded[k]
      BY <1>1, <1>5
    <2>2. QED
      BY <1>1, <1>2, <1>3, <1>5, <1>6, <2>1 DEF AffiliateInv, DataInv, RecordedOnce
  <1>10. MarginsInv'
    <2>1. ASSUME NEW m \in margins
          PROVE  /\ m[1] \in Orders /\ m[1] # o
                 /\ status[m[1]] # "absent" /\ Earned(m[1], m[2])
      BY <1>3 DEF AffiliateInv, DataInv, MarginsInv, TypeInv, AffiliateTypeOK
    <2>2. ASSUME NEW m \in margins PROVE status'[m[1]] # "absent" /\ Earned(m[1], m[2])'
      BY <1>2, <1>6, <2>1 DEF Earned
    <2>3. QED
      BY <1>2, <2>2 DEF MarginsInv
  <1>11. ASSUME NEW d \in Callers PROVE TxOK(d)'
    <2>1. CASE d = c
      BY <1>2, <2>1, EndKeeps DEF AffiliateInv
    <2>2. CASE d # c
      <3>1. \A p \in Orders : status[p] # "absent" =>
               /\ status'[p] # "absent"
               /\ \A x : Earned(p, x) => Earned(p, x)'
        BY <1>1, <1>2, <1>6 DEF Earned
      <3>2. /\ \A q \in Tracked : lock[q] # c => status'[q] = status[q]
            /\ \A p \in Orders : lock[p] # c => source'[p] = source[p]
        BY <1>1, <1>3, <1>6
      <3>3. QED
        BY <1>2, <1>3, <2>2, <3>1, <3>2, OthersKeep
    <2>3. QED
      BY <2>1, <2>2
  <1>12. QED
    BY <1>3, <1>7, <1>8, <1>9, <1>10, <1>11 DEF AffiliateInv, DataInv

\* correctCommission appends the change from the commission that it locked.
LEMMA CorrectKeeps ==
    ASSUME AffiliateInv, NEW c \in Callers, correctCommission(c)
    PROVE  AffiliateInv'
  <1> DEFINE o == tx[c].row
             to == tx[c].arg
             trail == corrections[o]
             grown == Append(trail, <<source[o], to>>)
  <1>1. /\ o \in Orders /\ lock[o] = c /\ status[o] # "absent" /\ to \in Sources
        /\ tx[c].seen = source[o]
    BY ValuesFacts DEF correctCommission, AffiliateInv, TxOK, Holds
  <1>2. /\ End(c)
        /\ UNCHANGED <<status, clicked, links, margins, moves, recorded>>
        /\ source' = [source EXCEPT ![o] = to]
        /\ corrections' = [corrections EXCEPT ![o] = grown]
    BY <1>1 DEF correctCommission
  <1>3. /\ source \in [Orders -> Sources]
        /\ corrections \in [Orders -> Seq(Sources \X Sources)]
    BY DEF AffiliateInv, TypeInv, AffiliateTypeOK
  <1>4. /\ trail \in Seq(Sources \X Sources) /\ Chains(trail)
        /\ trail # <<>> => Last(trail) = source[o]
        /\ source[o] \in Sources
    BY <1>1, <1>3 DEF AffiliateInv, DataInv, CorrectionsInv, CorrectionsTellCommission
  <1>5. grown \in Seq(Sources \X Sources) /\ Grown(grown, trail, source[o], to)
    BY <1>1, <1>4, ChainGrows
  <1> HIDE DEF o, to, grown
  <1>6. /\ source' \in [Orders -> Sources]
        /\ corrections' \in [Orders -> Seq(Sources \X Sources)]
        /\ source'[o] = to /\ corrections'[o] = grown
        /\ \A p \in Orders : p # o =>
              source'[p] = source[p] /\ corrections'[p] = corrections[p]
    BY <1>1, <1>2, <1>3, <1>5
  <1>7. TypeInv'
    BY <1>2, <1>6, EndKeeps DEF AffiliateInv, TypeInv, AffiliateTypeOK
  <1>8. StatusInv' /\ MovesInv' /\ RecordedOnce' /\ LinksInv'
    BY <1>2 DEF AffiliateInv, DataInv, StatusInv, MovesInv, MovesTellStatus,
       RecordedOnce, LinksInv, ActiveOnce
  <1>9. CorrectionsInv'
    <2>1. ASSUME NEW p \in Orders
          PROVE  /\ Chains(corrections'[p])
                 /\ corrections'[p] # <<>> => Last(corrections'[p]) = source'[p]
                 /\ status'[p] = "absent" => corrections'[p] = <<>>
      <3>1. CASE p = o
        BY <1>1, <1>2, <1>5, <1>6, <3>1 DEF Grown
      <3>2. CASE p # o
        BY <1>2, <1>6, <3>2 DEF AffiliateInv, DataInv, CorrectionsInv,
           CorrectionsTellCommission
      <3>3. QED
        BY <3>1, <3>2
    <2>2. QED
      BY <2>1 DEF CorrectionsInv, CorrectionsTellCommission
  <1>10. ASSUME NEW p \in Orders, NEW x, Earned(p, x) PROVE Earned(p, x)'
    <2>1. CASE p # o
      BY <1>6, <1>10, <2>1 DEF Earned
    <2>2. CASE p = o /\ x = source[o]
      <3>1. Len(trail) + 1 \in 1..Len(grown) /\ grown[Len(trail) + 1][1] = x
        BY <1>4, <1>5, <2>2 DEF Grown
      <3>2. QED
        BY <1>6, <2>2, <3>1 DEF Earned
    <2>3. CASE p = o /\ x # source[o]
      <3>1. PICK i \in 1..Len(trail) : x = trail[i][1]
        BY <1>10, <2>3 DEF Earned
      <3>2. i \in 1..Len(grown) /\ grown[i] = trail[i]
        BY <1>4, <1>5 DEF Grown
      <3>3. QED
        BY <1>6, <2>3, <3>1, <3>2 DEF Earned
    <2>4. QED
      BY <2>1, <2>2, <2>3
  <1>11. MarginsInv'
    <2>1. \A m \in margins : m[1] \in Orders
      BY DEF AffiliateInv, TypeInv, AffiliateTypeOK
    <2>2. \A m \in margins : Earned(m[1], m[2])'
      BY <1>10, <2>1 DEF AffiliateInv, DataInv, MarginsInv
    <2>3. QED
      BY <1>2, <2>2 DEF AffiliateInv, DataInv, MarginsInv, Earned
  <1>12. ASSUME NEW d \in Callers PROVE TxOK(d)'
    <2>1. CASE d = c
      BY <1>2, <2>1, EndKeeps DEF AffiliateInv
    <2>2. CASE d # c
      <3>1. \A g \in Campaigns : ActiveOnce(g) => ActiveOnce(g)'
        BY <1>2 DEF ActiveOnce
      <3>2. \A p \in Orders : lock[p] # c => source'[p] = source[p]
        BY <1>1, <1>6
      <3>3. QED
        BY <1>2, <1>10, <2>2, <3>1, <3>2, OthersKeep
    <2>3. QED
      BY <2>1, <2>2
  <1>13. QED
    BY <1>7, <1>8, <1>9, <1>11, <1>12 DEF AffiliateInv, DataInv

\* transitionCampaign appends a move of the table from the status that it locked.
LEMMA TransitionKeeps ==
    ASSUME AffiliateInv, NEW c \in Callers, transitionCampaign(c)
    PROVE  /\ AffiliateInv'
           /\ tx[c].row \in Campaigns
           /\ tx[c].arg \in Transitions[status[tx[c].row]]
           /\ status' = [status EXCEPT ![tx[c].row] = tx[c].arg]
  <1>1. /\ tx[c].row \in Campaigns /\ tx[c].row \notin Orders
        /\ lock[tx[c].row] = c
        /\ tx[c].seen = status[tx[c].row]
        /\ status[tx[c].row] \in CampaignStates
        /\ tx[c].arg \in Transitions[status[tx[c].row]]
    BY AffiliateConstants DEF transitionCampaign, AffiliateInv, TxOK, Holds
  <1>2. tx[c].arg \in CampaignStates
    BY <1>1, TransitionsType
  <1>3. /\ Move(tx[c].row, status[tx[c].row], tx[c].arg) /\ End(c)
        /\ UNCHANGED <<source, clicked, links, margins, corrections, recorded>>
    BY <1>1 DEF transitionCampaign
  <1>4. AffiliateInv'
    BY <1>1, <1>2, <1>3, MoveKeeps, ValuesFacts
  <1>5. QED
    BY <1>1, <1>3, <1>4 DEF Move

\* updateConversionStatus appends the move from the status that it locked.
LEMMA StatusKeeps ==
    ASSUME AffiliateInv, NEW c \in Callers, updateConversionStatus(c)
    PROVE  /\ AffiliateInv'
           /\ tx[c].row \in Orders
           /\ status' = [status EXCEPT ![tx[c].row] = tx[c].arg]
  <1>1. /\ tx[c].row \in Orders /\ tx[c].row \notin Campaigns
        /\ lock[tx[c].row] = c
        /\ tx[c].seen = status[tx[c].row]
        /\ status[tx[c].row] \in ConversionStates
        /\ tx[c].arg \in ConversionStates
    BY AffiliateConstants DEF updateConversionStatus, AffiliateInv, TxOK, Holds
  <1>2. /\ Move(tx[c].row, status[tx[c].row], tx[c].arg) /\ End(c)
        /\ UNCHANGED <<source, clicked, links, margins, corrections, recorded>>
    BY <1>1 DEF updateConversionStatus
  <1>3. AffiliateInv'
    BY <1>1, <1>2, MoveKeeps, ValuesFacts
  <1>4. QED
    BY <1>1, <1>2, <1>3 DEF Move

\* A transition of the table, or the row's first status.
FollowsTable(g) ==
    status[g] # status'[g] /\ status[g] # "absent"
    => status'[g] \in Transitions[status[g]]

\* Every step of a caller keeps the invariant and the table.
LEMMA CallerKeeps ==
    ASSUME AffiliateInv, NEW c \in Callers,
           CampaignStep(c) \/ RecordStep(c) \/ ReconcileStep(c) \/ rollback(c)
    PROVE  AffiliateInv' /\ \A g \in Campaigns : FollowsTable(g)
  <1>1. ASSUME UNCHANGED status PROVE \A g \in Campaigns : FollowsTable(g)
    BY <1>1 DEF FollowsTable
  <1>2. ASSUME NEW r \in Orders, NEW s, status' = [status EXCEPT ![r] = s]
        PROVE  \A g \in Campaigns : FollowsTable(g)
    BY <1>2, AffiliateConstants DEF FollowsTable, AffiliateInv, TypeInv,
       AffiliateTypeOK, Tracked
  <1>3. CASE CampaignStep(c)
    <2>1. ASSUME NEW g \in Campaigns, NEW to \in CampaignStates,
                 readCampaign(c, g) \/ lockMetadata(c, g) \/ lockCampaign(c, g, to)
          PROVE  AffiliateInv' /\ UNCHANGED status
      BY <2>1, CampaignBegins DEF readCampaign, lockMetadata, lockCampaign
    <2>2. "draft" \in CampaignStates
      BY DEF CampaignStates
    <2>3. CASE transitionCampaign(c)
      BY <2>3, TransitionKeeps DEF FollowsTable, AffiliateInv, TypeInv,
         AffiliateTypeOK, Tracked
    <2>4. CASE updateCampaign(c)
      <3>1. End(c) /\ UNCHANGED Data
        BY <2>4 DEF updateCampaign, Data
      <3>2. QED
        BY <1>1, <3>1, QuietEnd DEF Data
    <2>5. CASE insertLink(c)
      BY <1>1, <2>5, InsertLinkKeeps DEF insertLink
    <2>6. QED
      BY <1>1, <1>3, <2>1, <2>2, <2>3, <2>4, <2>5 DEF CampaignStep
  <1>4. CASE RecordStep(c)
    <2>1. ASSUME \/ \E k \in Clicks : insertClick(c, k)
                 \/ \E o \in Orders, from \in Sources : insertConversion(c, o, from)
          PROVE  AffiliateInv' /\ UNCHANGED status
      BY <2>1, InsertBegins DEF insertClick, insertConversion
    <2>2. CASE recordClick(c)
      BY <1>1, <2>2, RecordClickKeeps DEF recordClick
    <2>3. CASE recordConversion(c)
      <3>1. tx[c].row \in Orders
        BY <2>3 DEF recordConversion, AffiliateInv, TxOK
      <3>2. QED
        BY <1>2, <2>3, <3>1, RecordConversionKeeps DEF recordConversion
    <2>4. QED
      BY <1>1, <1>4, <2>1, <2>2, <2>3 DEF RecordStep
  <1>5. CASE ReconcileStep(c)
    <2>1. ASSUME NEW o \in Orders,
                 \/ readConversion(c, o)
                 \/ \E to \in ConversionStates : lockConversion(c, o, to)
                 \/ \E row \in SourceRows : lockCommission(c, o, row)
          PROVE  AffiliateInv' /\ UNCHANGED status
      BY <2>1, ReconcileBegins DEF readConversion, lockConversion, lockCommission
    <2>2. CASE updateConversionStatus(c)
      BY <1>2, <2>2, StatusKeeps
    <2>3. CASE correctCommission(c)
      BY <1>1, <2>3, CorrectKeeps DEF correctCommission
    <2>4. CASE computeMargin(c)
      BY <1>1, <2>4, ComputeMarginKeeps DEF computeMargin
    <2>5. QED
      BY <1>1, <1>5, <2>1, <2>2, <2>3, <2>4 DEF ReconcileStep
  <1>6. CASE rollback(c)
    <2>1. End(c) /\ UNCHANGED Data
      BY <1>6 DEF rollback, Data
    <2>2. QED
      BY <1>1, <2>1, QuietEnd DEF Data
  <1>7. QED
    BY <1>3, <1>4, <1>5, <1>6

\* Every step keeps the invariant and the table.
THEOREM AffiliateStepInv ==
    AffiliateInv /\ [Next]_vars
    => AffiliateInv' /\ \A g \in Campaigns : FollowsTable(g)
  <1> SUFFICES ASSUME AffiliateInv, [Next]_vars
               PROVE  AffiliateInv' /\ \A g \in Campaigns : FollowsTable(g)
    OBVIOUS
  <1>1. ASSUME NEW g \in Campaigns, createCampaign(g)
        PROVE  AffiliateInv' /\ \A h \in Campaigns : FollowsTable(h)
    BY <1>1, CreateKeeps DEF createCampaign, FollowsTable, AffiliateInv, TypeInv,
       AffiliateTypeOK, Tracked
  <1>2. CASE UNCHANGED vars
    <2>1. UNCHANGED Data /\ UNCHANGED lock /\ UNCHANGED tx
      BY <1>2 DEF vars, Data
    <2>2. DataInv'
      BY <2>1 DEF AffiliateInv, DataInv, Data, StatusInv, MovesInv, MovesTellStatus,
         CorrectionsInv, CorrectionsTellCommission, RecordedOnce, LinksInv,
         MarginsInv, ActiveOnce, Earned
    <2>3. TypeInv'
      BY <2>1 DEF AffiliateInv, TypeInv, AffiliateTypeOK, Data
    <2>4. \A c \in Callers : TxOK(c)'
      BY <2>1, QuietTx DEF AffiliateInv
    <2>5. \A g \in Campaigns : FollowsTable(g)
      BY <2>1 DEF FollowsTable, Data
    <2>6. QED
      BY <2>2, <2>3, <2>4, <2>5 DEF AffiliateInv
  <1>3. QED
    BY <1>1, <1>2, CallerKeeps DEF Next

-----------------------------------------------------------------------------
(* Theorems of the specification.                                          *)

\* The invariant holds in every reachable state.
THEOREM AffiliateInvariant == Spec => []AffiliateInv
  <1>1. AffiliateInv /\ [Next]_vars => AffiliateInv'
    BY AffiliateStepInv
  <1>2. QED
    BY AffiliateInitInv, <1>1, PTL DEF Spec

\* The state of the affiliate tables is well typed.
THEOREM AffiliateTypeCorrect == Spec => []AffiliateTypeOK
  <1>1. AffiliateInv => AffiliateTypeOK
    BY DEF AffiliateInv, TypeInv
  <1>2. QED
    BY AffiliateInvariant, <1>1, PTL

\* The status_changed events of a campaign or a conversion chain and lead to
\* the status of its row (transitionCampaign, updateConversionStatus).
THEOREM EventsTellStatus == Spec => []MovesTellStatus
  <1>1. AffiliateInv => MovesTellStatus
    BY DEF AffiliateInv, DataInv, MovesInv
  <1>2. QED
    BY AffiliateInvariant, <1>1, PTL

\* The corrections of a conversion chain and lead to its commission
\* (correctCommission).
THEOREM EventsTellCommission == Spec => []CorrectionsTellCommission
  <1>1. AffiliateInv => CorrectionsTellCommission
    BY DEF AffiliateInv, DataInv, CorrectionsInv
  <1>2. QED
    BY AffiliateInvariant, <1>1, PTL

\* Both columns that consumers book are told by the outbox.
THEOREM RowsAreTold == Spec => []EventsTellRows
  <1>1. MovesTellStatus /\ CorrectionsTellCommission => EventsTellRows
    BY DEF EventsTellRows
  <1>2. QED
    BY EventsTellStatus, EventsTellCommission, <1>1, PTL

\* One event announces each click and each conversion (recordClick,
\* recordConversion).
THEOREM RecordsAreUnique == Spec => []RecordedOnce
  <1>1. AffiliateInv => RecordedOnce
    BY DEF AffiliateInv, DataInv
  <1>2. QED
    BY AffiliateInvariant, <1>1, PTL

\* Only a campaign that was active once has links (generateLink).
THEOREM LinksWereActive == Spec => []LinkedWasActive
  <1>1. AffiliateInv => LinkedWasActive
    BY DEF AffiliateInv, DataInv, LinksInv, LinkedWasActive, ActiveOnce
  <1>2. QED
    BY AffiliateInvariant, <1>1, PTL

\* Every margin rests on a commission its conversion has or had (computeMargin).
THEOREM MarginsEarned == Spec => []MarginsWereEarned
  <1>1. AffiliateInv => MarginsWereEarned
    BY DEF AffiliateInv, DataInv, MarginsInv, MarginsWereEarned, Earned
  <1>2. QED
    BY AffiliateInvariant, <1>1, PTL

\* What generateLink and computeMargin read without a lock was true at some time.
THEOREM ReadsAreTrue == Spec => []ReadsWereTrue
  <1>1. LinkedWasActive /\ MarginsWereEarned => ReadsWereTrue
    BY DEF ReadsWereTrue
  <1>2. QED
    BY LinksWereActive, MarginsEarned, <1>1, PTL

\* Campaigns keep to the transition table (transitionCampaign).
THEOREM CampaignsKeepTable == Spec => CampaignsFollowTable
  <1>1. AffiliateInv /\ [Next]_vars
        => [\A g \in Campaigns : status[g] # status'[g] /\ status[g] # "absent"
              => status'[g] \in Transitions[status[g]]]_vars
    BY AffiliateStepInv DEF FollowsTable
  <1>2. QED
    BY AffiliateInvariant, <1>1, PTL DEF Spec, CampaignsFollowTable

-----------------------------------------------------------------------------
(* The sign-in's inductive invariant.                                      *)

\* The request has consumed its state and is not done with it.
Holding(k) ==
    request[k].pc \in {"exchange", "resolve", "register", "again", "issue", "link", "store"}
Signing(k) == request[k].pc \in {"resolve", "register", "again", "issue"}
Linking(k) == request[k].pc \in {"link", "store"}
Spent(st) == pending[st].started /\ ~pending[st].open

\* A request knows where it came from and whom it serves.
RequestsInv ==
    \A k \in Callbacks :
       /\ Holding(k) => request[k].state \in AuthStates /\ Spent(request[k].state)
       /\ Linking(k) \/ Serving(k, "exchange") => request[k].user = pending[request[k].state].user
       /\ Signing(k) => request[k].state \in LoginStates /\ request[k].subject \in Subjects
       /\ Linking(k) => request[k].state \in LinkStates /\ request[k].subject \in Subjects
       /\ Serving(k, "unlink") => request[k].user \in Accounts

\* An open authorisation was started, and a link by an account.
PendingInv ==
    /\ \A st \in AuthStates : pending[st].open => pending[st].started
    /\ \A st \in LinkStates : pending[st].started => pending[st].user \in Accounts

\* A state is with one request, or has had its effect, never both.
StatesInv ==
    /\ \A g \in issued \cup linked : g[1] \in AuthStates /\ Spent(g[1])
    /\ \A k \in Callbacks, g \in issued \cup linked : Holding(k) => request[k].state # g[1]
    /\ \A k, m \in Callbacks :
          Holding(k) /\ Holding(m) /\ request[k].state = request[m].state => k = m

\* What a request was told about an identity was true when it was told.
OwnersInv ==
    /\ \A s \in Subjects : identity[s] # 0 => identity[s] \in owners[s]
    /\ \A k \in Callbacks : request[k].pc \in {"issue", "store"} =>
                              request[k].user \in owners[request[k].subject]

OAuthInv ==
    /\ OAuthTypeOK
    /\ RequestsInv /\ PendingInv
    /\ StatesInv /\ StateUsedOnce
    /\ DirectoryMatches
    /\ OwnersInv /\ GrantsFollowOwners

-----------------------------------------------------------------------------

PendingRows == [user: 0..NumUsers, open: BOOLEAN, started: BOOLEAN]
RequestRows ==
    [pc: {"idle", "exchange", "resolve", "register", "again", "issue", "link", "store", "unlink"},
     state: AuthStates \cup {0}, user: 0..NumUsers,
     subject: Subjects \cup {NoSubject}, holds: BOOLEAN]

\* Closing an authorisation keeps it one.
LEMMA ClosedRow ==
    ASSUME NEW p \in PendingRows
    PROVE  /\ [p EXCEPT !.open = FALSE] \in PendingRows
           /\ [p EXCEPT !.open = FALSE].user = p.user
           /\ [p EXCEPT !.open = FALSE].open = FALSE
           /\ [p EXCEPT !.open = FALSE].started = p.started
  BY DEF PendingRows

\* Starting again only closes what the user has open.
LEMMA SupersededRows ==
    ASSUME pending \in [AuthStates -> PendingRows], NEW u
    PROVE  /\ Superseded(u) \in [AuthStates -> PendingRows]
           /\ \A st \in AuthStates :
                 /\ Superseded(u)[st].user = pending[st].user
                 /\ Superseded(u)[st].started = pending[st].started
                 /\ Superseded(u)[st].open => pending[st].open /\ pending[st].user # u
  BY ClosedRow, \A st \in AuthStates : pending[st] \in PendingRows DEF Superseded

\* A request that only moves on.
LEMMA MovedRow ==
    ASSUME NEW r \in RequestRows, NEW pc \in {"register", "again", "store"}
    PROVE  [r EXCEPT !.pc = pc] \in RequestRows
  BY DEF RequestRows

\* What a disconnection makes of a request that was idle.
LEMMA UnlinkRow ==
    ASSUME NoRequest \in RequestRows, NEW u \in Accounts, NEW b \in BOOLEAN
    PROVE  [NoRequest EXCEPT !.pc = "unlink", !.user = u, !.holds = b] \in RequestRows
<1> DEFINE r == NoRequest
<1>1. r \in RequestRows /\ u \in 0..NumUsers
  BY OAuthConstants DEF Accounts
<1> HIDE DEF r
<1>2. [r EXCEPT !.pc = "unlink", !.user = u, !.holds = TRUE] \in RequestRows
  BY <1>1 DEF RequestRows
<1>3. [r EXCEPT !.pc = "unlink", !.user = u, !.holds = FALSE] \in RequestRows
  BY <1>1 DEF RequestRows
<1>4. b = TRUE \/ b = FALSE
  OBVIOUS
<1> QED BY <1>2, <1>3, <1>4 DEF r

\* A request that is replaced by a typed one leaves the table typed.
LEMMA RequestUpdate ==
    ASSUME request \in [Callbacks -> RequestRows], NEW k, NEW r \in RequestRows
    PROVE  [request EXCEPT ![k] = r] \in [Callbacks -> RequestRows]
  OBVIOUS

\* What the two types of rows are in the type invariant.
LEMMA TypesFold ==
    OAuthTypeOK <=> /\ users \subseteq Accounts
                    /\ pending \in [AuthStates -> PendingRows]
                    /\ identity \in [Subjects -> 0..NumUsers]
                    /\ directory \in [Subjects -> 0..NumUsers]
                    /\ stored \in [Accounts -> Subjects \cup {NoSubject}]
                    /\ request \in [Callbacks -> RequestRows]
                    /\ issued \subseteq LoginStates \X Subjects \X Accounts
                    /\ linked \subseteq LinkStates \X Subjects \X Accounts
                    /\ owners \in [Subjects -> SUBSET Accounts]
  BY DEF OAuthTypeOK, PendingRows, RequestRows

\* Every action keeps the types.
LEMMA TypeStep == OAuthInv /\ OAuthNext => OAuthTypeOK'
<1> SUFFICES ASSUME OAuthInv, OAuthNext PROVE OAuthTypeOK'
  OBVIOUS
<1> USE OAuthConstants
<1>0. /\ pending \in [AuthStates -> PendingRows]
      /\ request \in [Callbacks -> RequestRows]
      /\ \A k \in Callbacks : request[k] \in RequestRows
      /\ \A st \in AuthStates : pending[st] \in PendingRows
      /\ NoRequest \in RequestRows
  BY TypesFold DEF OAuthInv, NoRequest, RequestRows
<1> DEFINE Changed ==
       /\ users' \subseteq Accounts
       /\ identity' \in [Subjects -> 0..NumUsers]
       /\ directory' \in [Subjects -> 0..NumUsers]
       /\ stored' \in [Accounts -> Subjects \cup {NoSubject}]
       /\ issued' \subseteq LoginStates \X Subjects \X Accounts
       /\ linked' \subseteq LinkStates \X Subjects \X Accounts
       /\ owners' \in [Subjects -> SUBSET Accounts]
<1>1. pending' \in [AuthStates -> PendingRows]
  <2>1. CASE registerLocally
    BY <1>0, <2>1 DEF registerLocally
  <2>2. ASSUME NEW st \in LoginStates, createPendingLogin(st)
        PROVE  pending' \in [AuthStates -> PendingRows]
    <3>1. [user |-> 0, open |-> TRUE, started |-> TRUE] \in PendingRows
      BY DEF PendingRows
    <3> QED BY <1>0, <2>2, <3>1 DEF createPendingLogin, Opened
  <2>3. ASSUME NEW st \in LinkStates, NEW u \in Accounts, createPendingAuthorization(st, u)
        PROVE  pending' \in [AuthStates -> PendingRows]
    <3>1. [user |-> u, open |-> TRUE, started |-> TRUE] \in PendingRows
      BY DEF PendingRows, Accounts
    <3>2. Superseded(u) \in [AuthStates -> PendingRows]
      BY <1>0, SupersededRows
    <3> QED BY <2>3, <3>1, <3>2 DEF createPendingAuthorization
  <2>4. ASSUME NEW st \in AuthStates, stateExpires(st)
        PROVE  pending' \in [AuthStates -> PendingRows]
    BY <1>0, <2>4, ClosedRow DEF stateExpires
  <2>5. ASSUME NEW k \in Callbacks, NEW st \in AuthStates, consume(k, st)
        PROVE  pending' \in [AuthStates -> PendingRows]
    BY <1>0, <2>5, ClosedRow DEF consume
  <2>6. ASSUME NEW k \in Callbacks, NEW s \in Subjects, exchangeCode(k, s)
        PROVE  pending' \in [AuthStates -> PendingRows]
    BY <1>0, <2>6 DEF exchangeCode
  <2>7. ASSUME NEW k \in Callbacks, resolveIdentity(k)
        PROVE  pending' \in [AuthStates -> PendingRows]
    BY <1>0, <2>7 DEF resolveIdentity
  <2>8. ASSUME NEW k \in Callbacks, issueExistingSession(k)
        PROVE  pending' \in [AuthStates -> PendingRows]
    BY <1>0, <2>8 DEF issueExistingSession
  <2>9. ASSUME NEW k \in Callbacks, registerOwner(k)
        PROVE  pending' \in [AuthStates -> PendingRows]
    BY <1>0, <2>9 DEF registerOwner
  <2>10. ASSUME NEW k \in Callbacks, registerConflict(k)
         PROVE  pending' \in [AuthStates -> PendingRows]
    BY <1>0, <2>10 DEF registerConflict
  <2>11. ASSUME NEW k \in Callbacks, linkNew(k)
         PROVE  pending' \in [AuthStates -> PendingRows]
    BY <1>0, <2>11 DEF linkNew
  <2>12. ASSUME NEW k \in Callbacks, linkOwn(k)
         PROVE  pending' \in [AuthStates -> PendingRows]
    BY <1>0, <2>12 DEF linkOwn
  <2>13. ASSUME NEW k \in Callbacks, linkTaken(k)
         PROVE  pending' \in [AuthStates -> PendingRows]
    BY <1>0, <2>13 DEF linkTaken
  <2>14. ASSUME NEW k \in Callbacks, storeTokens(k)
         PROVE  pending' \in [AuthStates -> PendingRows]
    BY <1>0, <2>14 DEF storeTokens
  <2>15. ASSUME NEW k \in Callbacks, gives(k) PROVE pending' \in [AuthStates -> PendingRows]
    BY <1>0, <2>15 DEF gives
  <2>16. ASSUME NEW k \in Callbacks, NEW u \in Accounts, deleteTokens(k, u)
         PROVE  pending' \in [AuthStates -> PendingRows]
    BY <1>0, <2>16 DEF deleteTokens
  <2>17. ASSUME NEW k \in Callbacks, deleteIdentities(k)
         PROVE  pending' \in [AuthStates -> PendingRows]
    BY <1>0, <2>17 DEF deleteIdentities
  <2> QED BY <2>1, <2>2, <2>3, <2>4, <2>5, <2>6, <2>7, <2>8, <2>9, <2>10, <2>11, <2>12,
     <2>13, <2>14, <2>15, <2>16, <2>17 DEF OAuthNext, SignInStep, LinkStep
<1>2. request' \in [Callbacks -> RequestRows]
  <2>1. CASE registerLocally
    BY <1>0, RequestUpdate, <2>1 DEF registerLocally, Finish
  <2>2. ASSUME NEW st \in LoginStates, createPendingLogin(st)
        PROVE  request' \in [Callbacks -> RequestRows]
    BY <1>0, RequestUpdate, <2>2 DEF createPendingLogin, Finish
  <2>3. ASSUME NEW st \in LinkStates, NEW u \in Accounts, createPendingAuthorization(st, u)
        PROVE  request' \in [Callbacks -> RequestRows]
    BY <1>0, RequestUpdate, <2>3 DEF createPendingAuthorization, Finish
  <2>4. ASSUME NEW st \in AuthStates, stateExpires(st)
        PROVE  request' \in [Callbacks -> RequestRows]
    BY <1>0, RequestUpdate, <2>4 DEF stateExpires, Finish
  <2>5. ASSUME NEW k \in Callbacks, NEW st \in AuthStates, consume(k, st)
        PROVE  request' \in [Callbacks -> RequestRows]
    <3> DEFINE r == [NoRequest EXCEPT !.pc = "exchange", !.state = st, !.user = pending[st].user]
    <3>1. r \in RequestRows
      BY <1>0 DEF RequestRows, PendingRows, NoRequest
    <3> QED BY <1>0, <3>1, <2>5, RequestUpdate DEF consume
  <2>6. ASSUME NEW k \in Callbacks, NEW s \in Subjects, exchangeCode(k, s)
        PROVE  request' \in [Callbacks -> RequestRows]
    <3> DEFINE r(pc) == [request[k] EXCEPT !.subject = s, !.pc = pc]
    <3>1. r("resolve") \in RequestRows /\ r("link") \in RequestRows
      BY <1>0 DEF RequestRows
    <3>2. \/ request' = [request EXCEPT ![k] = r("resolve")]
          \/ request' = [request EXCEPT ![k] = r("link")]
      BY <1>0, <2>6 DEF exchangeCode
    <3> HIDE DEF r
    <3> QED BY <1>0, <3>1, <3>2, RequestUpdate
  <2>7. ASSUME NEW k \in Callbacks, resolveIdentity(k)
        PROVE  request' \in [Callbacks -> RequestRows]
    <3> DEFINE v == directory[request[k].subject]
               r == [request[k] EXCEPT !.pc = "issue", !.user = v]
    <3>1. \/ v # 0 /\ request' = [request EXCEPT ![k] = r]
          \/ v = 0 /\ Proceed(k, "register")
          \/ Finish(k)
      BY <1>0, <2>7, Zenon DEF resolveIdentity
    <3>2. request[k].pc \in {"resolve", "again"}
      BY <2>7 DEF resolveIdentity
    <3>3. v \in 0..NumUsers
      BY <3>2 DEF OAuthInv, RequestsInv, Signing, OAuthTypeOK
    <3>4. r \in RequestRows
      BY <1>0, <3>3 DEF RequestRows
    <3>5. ASSUME Proceed(k, "register") PROVE request' \in [Callbacks -> RequestRows]
      <4>1. request' = [request EXCEPT ![k] = [request[k] EXCEPT !.pc = "register"]]
        BY <1>0, <3>5 DEF Proceed
      <4> QED BY <1>0, <4>1, MovedRow, RequestUpdate
    <3> HIDE DEF r
    <3> QED BY <1>0, <3>1, <3>4, <3>5, RequestUpdate DEF Finish
  <2>8. ASSUME NEW k \in Callbacks, issueExistingSession(k)
        PROVE  request' \in [Callbacks -> RequestRows]
    BY <1>0, RequestUpdate, <2>8 DEF issueExistingSession, Finish
  <2>9. ASSUME NEW k \in Callbacks, registerOwner(k)
        PROVE  request' \in [Callbacks -> RequestRows]
    BY <1>0, RequestUpdate, <2>9 DEF registerOwner, Finish
  <2>10. ASSUME NEW k \in Callbacks, registerConflict(k)
         PROVE  request' \in [Callbacks -> RequestRows]
    <3>1. request' = [request EXCEPT ![k] = [request[k] EXCEPT !.pc = "again"]]
      BY <1>0, <2>10 DEF registerConflict, Proceed
    <3> QED BY <1>0, <3>1, MovedRow, RequestUpdate
  <2>11. ASSUME NEW k \in Callbacks, linkNew(k)
         PROVE  request' \in [Callbacks -> RequestRows]
    BY <1>0, RequestUpdate, <2>11 DEF linkNew, Finish
  <2>12. ASSUME NEW k \in Callbacks, linkOwn(k)
         PROVE  request' \in [Callbacks -> RequestRows]
    <3>1. request' = [request EXCEPT ![k] = [request[k] EXCEPT !.pc = "store"]]
      BY <1>0, <2>12 DEF linkOwn, Proceed
    <3> QED BY <1>0, <3>1, MovedRow, RequestUpdate
  <2>13. ASSUME NEW k \in Callbacks, linkTaken(k)
         PROVE  request' \in [Callbacks -> RequestRows]
    BY <1>0, RequestUpdate, <2>13 DEF linkTaken, Finish
  <2>14. ASSUME NEW k \in Callbacks, storeTokens(k)
         PROVE  request' \in [Callbacks -> RequestRows]
    BY <1>0, RequestUpdate, <2>14 DEF storeTokens, Finish
  <2>15. ASSUME NEW k \in Callbacks, gives(k) PROVE request' \in [Callbacks -> RequestRows]
    BY <1>0, RequestUpdate, <2>15 DEF gives, Finish
  <2>16. ASSUME NEW k \in Callbacks, NEW u \in Accounts, deleteTokens(k, u)
         PROVE  request' \in [Callbacks -> RequestRows]
    <3> DEFINE r == [NoRequest EXCEPT !.pc = "unlink", !.user = u, !.holds = stored[u] # NoSubject]
    <3>1. r \in RequestRows
      BY <1>0, UnlinkRow, (stored[u] # NoSubject) \in BOOLEAN
    <3> QED BY <1>0, <3>1, <2>16, RequestUpdate DEF deleteTokens
  <2>17. ASSUME NEW k \in Callbacks, deleteIdentities(k)
         PROVE  request' \in [Callbacks -> RequestRows]
    BY <1>0, RequestUpdate, <2>17 DEF deleteIdentities, Finish
  <2> QED BY <2>1, <2>2, <2>3, <2>4, <2>5, <2>6, <2>7, <2>8, <2>9, <2>10, <2>11, <2>12,
     <2>13, <2>14, <2>15, <2>16, <2>17 DEF OAuthNext, SignInStep, LinkStep
<1>3. Changed
  <2>1. CASE registerLocally
    BY <2>1 DEF registerLocally, OAuthInv, OAuthTypeOK, RequestsInv, PendingInv,
       DirectoryMatches, DirectoryWith, DirectoryWithout, Grant, Holding, Signing,
       Linking, Serving, Spent, Accounts, AuthStates
  <2>2. ASSUME NEW st \in LoginStates, createPendingLogin(st) PROVE Changed
    BY <2>2 DEF createPendingLogin, OAuthInv, OAuthTypeOK, RequestsInv, PendingInv,
       DirectoryMatches, DirectoryWith, DirectoryWithout, Grant, Holding, Signing,
       Linking, Serving, Spent, Accounts, AuthStates
  <2>3. ASSUME NEW st \in LinkStates, NEW u \in Accounts, createPendingAuthorization(st, u)
        PROVE  Changed
    BY <2>3 DEF createPendingAuthorization, OAuthInv, OAuthTypeOK, RequestsInv,
       PendingInv, DirectoryMatches, DirectoryWith, DirectoryWithout, Grant, Holding,
       Signing, Linking, Serving, Spent, Accounts, AuthStates
  <2>4. ASSUME NEW st \in AuthStates, stateExpires(st) PROVE Changed
    BY <2>4 DEF stateExpires, OAuthInv, OAuthTypeOK, RequestsInv, PendingInv,
       DirectoryMatches, DirectoryWith, DirectoryWithout, Grant, Holding, Signing,
       Linking, Serving, Spent, Accounts, AuthStates
  <2>5. ASSUME NEW k \in Callbacks, NEW st \in AuthStates, consume(k, st) PROVE Changed
    BY <2>5 DEF consume, OAuthInv, OAuthTypeOK, RequestsInv, PendingInv,
       DirectoryMatches, DirectoryWith, DirectoryWithout, Grant, Holding, Signing,
       Linking, Serving, Spent, Accounts, AuthStates
  <2>6. ASSUME NEW k \in Callbacks, NEW s \in Subjects, exchangeCode(k, s) PROVE Changed
    BY <2>6 DEF exchangeCode, OAuthInv, OAuthTypeOK, RequestsInv, PendingInv,
       DirectoryMatches, DirectoryWith, DirectoryWithout, Grant, Holding, Signing,
       Linking, Serving, Spent, Accounts, AuthStates
  <2>7. ASSUME NEW k \in Callbacks, resolveIdentity(k) PROVE Changed
    BY <2>7 DEF resolveIdentity, OAuthInv, OAuthTypeOK, RequestsInv, PendingInv,
       DirectoryMatches, DirectoryWith, DirectoryWithout, Grant, Holding, Signing,
       Linking, Serving, Spent, Accounts, AuthStates
  <2>8. ASSUME NEW k \in Callbacks, issueExistingSession(k) PROVE Changed
    <3>1. request[k].user \in Accounts /\ request[k].state \in LoginStates /\ request[k].subject \in Subjects
      BY <2>8 DEF issueExistingSession, OAuthInv, OAuthTypeOK, RequestsInv, OwnersInv,
         Serving, Signing
    <3> QED BY <2>8, <3>1 DEF issueExistingSession, Grant, OAuthInv, OAuthTypeOK
  <2>9. ASSUME NEW k \in Callbacks, registerOwner(k) PROVE Changed
    BY <2>9 DEF registerOwner, OAuthInv, OAuthTypeOK, RequestsInv, PendingInv,
       DirectoryMatches, DirectoryWith, DirectoryWithout, Grant, Holding, Signing,
       Linking, Serving, Spent, Accounts, AuthStates
  <2>10. ASSUME NEW k \in Callbacks, registerConflict(k) PROVE Changed
    BY <2>10 DEF registerConflict, OAuthInv, OAuthTypeOK, RequestsInv, PendingInv,
       DirectoryMatches, DirectoryWith, DirectoryWithout, Grant, Holding, Signing,
       Linking, Serving, Spent, Accounts, AuthStates
  <2>11. ASSUME NEW k \in Callbacks, linkNew(k) PROVE Changed
    BY <2>11 DEF linkNew, OAuthInv, OAuthTypeOK, RequestsInv, PendingInv,
       DirectoryMatches, DirectoryWith, DirectoryWithout, Grant, Holding, Signing,
       Linking, Serving, Spent, Accounts, AuthStates
  <2>12. ASSUME NEW k \in Callbacks, linkOwn(k) PROVE Changed
    BY <2>12 DEF linkOwn, OAuthInv, OAuthTypeOK, RequestsInv, PendingInv,
       DirectoryMatches, DirectoryWith, DirectoryWithout, Grant, Holding, Signing,
       Linking, Serving, Spent, Accounts, AuthStates
  <2>13. ASSUME NEW k \in Callbacks, linkTaken(k) PROVE Changed
    BY <2>13 DEF linkTaken, OAuthInv, OAuthTypeOK, RequestsInv, PendingInv,
       DirectoryMatches, DirectoryWith, DirectoryWithout, Grant, Holding, Signing,
       Linking, Serving, Spent, Accounts, AuthStates
  <2>14. ASSUME NEW k \in Callbacks, storeTokens(k) PROVE Changed
    BY <2>14 DEF storeTokens, OAuthInv, OAuthTypeOK, RequestsInv, PendingInv,
       DirectoryMatches, DirectoryWith, DirectoryWithout, Grant, Holding, Signing,
       Linking, Serving, Spent, Accounts, AuthStates
  <2>15. ASSUME NEW k \in Callbacks, gives(k) PROVE Changed
    BY <2>15 DEF gives, OAuthInv, OAuthTypeOK, RequestsInv, PendingInv, DirectoryMatches,
       DirectoryWith, DirectoryWithout, Grant, Holding, Signing, Linking, Serving, Spent,
       Accounts, AuthStates
  <2>16. ASSUME NEW k \in Callbacks, NEW u \in Accounts, deleteTokens(k, u) PROVE Changed
    BY <2>16 DEF deleteTokens, OAuthInv, OAuthTypeOK, RequestsInv, PendingInv,
       DirectoryMatches, DirectoryWith, DirectoryWithout, Grant, Holding, Signing,
       Linking, Serving, Spent, Accounts, AuthStates
  <2>17. ASSUME NEW k \in Callbacks, deleteIdentities(k) PROVE Changed
    BY <2>17 DEF deleteIdentities, OAuthInv, OAuthTypeOK, RequestsInv, PendingInv,
       DirectoryMatches, DirectoryWith, DirectoryWithout, Grant, Holding, Signing,
       Linking, Serving, Spent, Accounts, AuthStates
  <2> QED BY <2>1, <2>2, <2>3, <2>4, <2>5, <2>6, <2>7, <2>8, <2>9, <2>10, <2>11, <2>12,
     <2>13, <2>14, <2>15, <2>16, <2>17 DEF OAuthNext, SignInStep, LinkStep
<1> QED
  <2>1. OAuthTypeOK' <=> pending' \in [AuthStates -> PendingRows] /\ request' \in [Callbacks -> RequestRows] /\ Changed
    BY DEF OAuthTypeOK, PendingRows, RequestRows
  <2> QED BY <1>1, <1>2, <1>3, <2>1

\* Both sides change together, and a free identity is free on both.
LEMMA DirectoryStep == OAuthInv /\ OAuthNext => DirectoryMatches'
<1> SUFFICES ASSUME OAuthInv, OAuthNext PROVE DirectoryMatches'
  OBVIOUS
<1> USE OAuthConstants DEF OAuthInv, OAuthTypeOK, DirectoryMatches, DirectoryWith,
   DirectoryWithout, RequestsInv, Serving, Proceed, Finish, NoRequest, Holding, Signing,
   Linking, Spent
<1>1. CASE registerLocally
  BY <1>1 DEF registerLocally
<1>2. ASSUME NEW st \in LoginStates, createPendingLogin(st) PROVE DirectoryMatches'
  BY <1>2 DEF createPendingLogin
<1>3. ASSUME NEW st \in LinkStates, NEW u \in Accounts, createPendingAuthorization(st, u)
      PROVE  DirectoryMatches'
  BY <1>3 DEF createPendingAuthorization
<1>4. ASSUME NEW st \in AuthStates, stateExpires(st) PROVE DirectoryMatches'
  BY <1>4 DEF stateExpires
<1>5. ASSUME NEW k \in Callbacks, NEW st \in AuthStates, consume(k, st)
      PROVE  DirectoryMatches'
  BY <1>5 DEF consume
<1>6. ASSUME NEW k \in Callbacks, NEW s \in Subjects, exchangeCode(k, s)
      PROVE  DirectoryMatches'
  BY <1>6 DEF exchangeCode
<1>7. ASSUME NEW k \in Callbacks, resolveIdentity(k) PROVE DirectoryMatches'
  BY <1>7 DEF resolveIdentity
<1>8. ASSUME NEW k \in Callbacks, issueExistingSession(k) PROVE DirectoryMatches'
  BY <1>8 DEF issueExistingSession
<1>9. ASSUME NEW k \in Callbacks, registerOwner(k) PROVE DirectoryMatches'
  BY <1>9 DEF registerOwner
<1>10. ASSUME NEW k \in Callbacks, registerConflict(k) PROVE DirectoryMatches'
  BY <1>10 DEF registerConflict
<1>11. ASSUME NEW k \in Callbacks, linkNew(k) PROVE DirectoryMatches'
  BY <1>11 DEF linkNew
<1>12. ASSUME NEW k \in Callbacks, linkOwn(k) PROVE DirectoryMatches'
  BY <1>12 DEF linkOwn
<1>13. ASSUME NEW k \in Callbacks, linkTaken(k) PROVE DirectoryMatches'
  BY <1>13 DEF linkTaken
<1>14. ASSUME NEW k \in Callbacks, storeTokens(k) PROVE DirectoryMatches'
  BY <1>14 DEF storeTokens
<1>15. ASSUME NEW k \in Callbacks, gives(k) PROVE DirectoryMatches'
  BY <1>15 DEF gives
<1>16. ASSUME NEW k \in Callbacks, NEW u \in Accounts, deleteTokens(k, u)
       PROVE  DirectoryMatches'
  BY <1>16 DEF deleteTokens
<1>17. ASSUME NEW k \in Callbacks, deleteIdentities(k) PROVE DirectoryMatches'
  BY <1>17 DEF deleteIdentities
<1> QED BY <1>1, <1>2, <1>3, <1>4, <1>5, <1>6, <1>7, <1>8, <1>9, <1>10, <1>11, <1>12,
   <1>13, <1>14, <1>15, <1>16, <1>17 DEF OAuthNext, SignInStep, LinkStep

\* A spent state stays spent, and requests only move along their own flow.
LEMMA RequestsStep == OAuthInv /\ OAuthNext => RequestsInv'
<1> SUFFICES ASSUME OAuthInv, OAuthNext PROVE RequestsInv'
  OBVIOUS
<1> USE OAuthConstants DEF OAuthInv, OAuthTypeOK, RequestsInv, PendingInv, AuthStates,
   Opened, Usable, Serving, Proceed, Finish, NoRequest, Holding, Signing, Linking, Spent
<1>1. CASE registerLocally
  BY <1>1 DEF registerLocally
<1>2. ASSUME NEW st \in LoginStates, createPendingLogin(st) PROVE RequestsInv'
  BY <1>2 DEF createPendingLogin
<1>3. ASSUME NEW st \in LinkStates, NEW u \in Accounts, createPendingAuthorization(st, u)
      PROVE  RequestsInv'
  <2>1. /\ pending \in [AuthStates -> PendingRows]
        /\ pending' = [Superseded(u) EXCEPT ![st] = [user |-> u, open |-> TRUE, started |-> TRUE]]
        /\ ~pending[st].started /\ request' = request
    BY <1>3, TypesFold DEF createPendingAuthorization
  <2>2. \A x \in AuthStates : Spent(x) => Spent(x)' /\ pending'[x].user = pending[x].user
    BY <2>1, SupersededRows DEF PendingRows
  <2> HIDE DEF Spent
  <2>3. \A m \in Callbacks : Linking(m) \/ Serving(m, "exchange") => Holding(m)
    OBVIOUS
  <2> QED BY <2>1, <2>2, <2>3
<1>4. ASSUME NEW st \in AuthStates, stateExpires(st) PROVE RequestsInv'
  BY <1>4 DEF stateExpires
<1>5. ASSUME NEW k \in Callbacks, NEW st \in AuthStates, consume(k, st) PROVE RequestsInv'
  BY <1>5 DEF consume
<1>6. ASSUME NEW k \in Callbacks, NEW s \in Subjects, exchangeCode(k, s) PROVE RequestsInv'
  BY <1>6 DEF exchangeCode
<1>7. ASSUME NEW k \in Callbacks, resolveIdentity(k) PROVE RequestsInv'
  BY <1>7 DEF resolveIdentity
<1>8. ASSUME NEW k \in Callbacks, issueExistingSession(k) PROVE RequestsInv'
  BY <1>8 DEF issueExistingSession
<1>9. ASSUME NEW k \in Callbacks, registerOwner(k) PROVE RequestsInv'
  BY <1>9 DEF registerOwner
<1>10. ASSUME NEW k \in Callbacks, registerConflict(k) PROVE RequestsInv'
  BY <1>10 DEF registerConflict
<1>11. ASSUME NEW k \in Callbacks, linkNew(k) PROVE RequestsInv'
  BY <1>11 DEF linkNew
<1>12. ASSUME NEW k \in Callbacks, linkOwn(k) PROVE RequestsInv'
  BY <1>12 DEF linkOwn
<1>13. ASSUME NEW k \in Callbacks, linkTaken(k) PROVE RequestsInv'
  BY <1>13 DEF linkTaken
<1>14. ASSUME NEW k \in Callbacks, storeTokens(k) PROVE RequestsInv'
  BY <1>14 DEF storeTokens
<1>15. ASSUME NEW k \in Callbacks, gives(k) PROVE RequestsInv'
  BY <1>15 DEF gives
<1>16. ASSUME NEW k \in Callbacks, NEW u \in Accounts, deleteTokens(k, u) PROVE RequestsInv'
  BY <1>16 DEF deleteTokens
<1>17. ASSUME NEW k \in Callbacks, deleteIdentities(k) PROVE RequestsInv'
  BY <1>17 DEF deleteIdentities
<1> QED BY <1>1, <1>2, <1>3, <1>4, <1>5, <1>6, <1>7, <1>8, <1>9, <1>10, <1>11, <1>12,
   <1>13, <1>14, <1>15, <1>16, <1>17 DEF OAuthNext, SignInStep, LinkStep

\* Only a start opens an authorisation.
LEMMA PendingStep == OAuthInv /\ OAuthNext => PendingInv'
<1> SUFFICES ASSUME OAuthInv, OAuthNext PROVE PendingInv'
  OBVIOUS
<1> USE OAuthConstants DEF OAuthInv, OAuthTypeOK, PendingInv, AuthStates, Opened,
   Superseded, Usable, Serving, Proceed, Finish, NoRequest, Holding, Signing, Linking, Spent
<1>1. CASE registerLocally
  BY <1>1 DEF registerLocally
<1>2. ASSUME NEW st \in LoginStates, createPendingLogin(st) PROVE PendingInv'
  BY <1>2 DEF createPendingLogin
<1>3. ASSUME NEW st \in LinkStates, NEW u \in Accounts, createPendingAuthorization(st, u)
      PROVE  PendingInv'
  BY <1>3 DEF createPendingAuthorization
<1>4. ASSUME NEW st \in AuthStates, stateExpires(st) PROVE PendingInv'
  BY <1>4 DEF stateExpires
<1>5. ASSUME NEW k \in Callbacks, NEW st \in AuthStates, consume(k, st) PROVE PendingInv'
  BY <1>5 DEF consume
<1>6. ASSUME NEW k \in Callbacks, NEW s \in Subjects, exchangeCode(k, s) PROVE PendingInv'
  BY <1>6 DEF exchangeCode
<1>7. ASSUME NEW k \in Callbacks, resolveIdentity(k) PROVE PendingInv'
  BY <1>7 DEF resolveIdentity
<1>8. ASSUME NEW k \in Callbacks, issueExistingSession(k) PROVE PendingInv'
  BY <1>8 DEF issueExistingSession
<1>9. ASSUME NEW k \in Callbacks, registerOwner(k) PROVE PendingInv'
  BY <1>9 DEF registerOwner
<1>10. ASSUME NEW k \in Callbacks, registerConflict(k) PROVE PendingInv'
  BY <1>10 DEF registerConflict
<1>11. ASSUME NEW k \in Callbacks, linkNew(k) PROVE PendingInv'
  BY <1>11 DEF linkNew
<1>12. ASSUME NEW k \in Callbacks, linkOwn(k) PROVE PendingInv'
  BY <1>12 DEF linkOwn
<1>13. ASSUME NEW k \in Callbacks, linkTaken(k) PROVE PendingInv'
  BY <1>13 DEF linkTaken
<1>14. ASSUME NEW k \in Callbacks, storeTokens(k) PROVE PendingInv'
  BY <1>14 DEF storeTokens
<1>15. ASSUME NEW k \in Callbacks, gives(k) PROVE PendingInv'
  BY <1>15 DEF gives
<1>16. ASSUME NEW k \in Callbacks, NEW u \in Accounts, deleteTokens(k, u) PROVE PendingInv'
  BY <1>16 DEF deleteTokens
<1>17. ASSUME NEW k \in Callbacks, deleteIdentities(k) PROVE PendingInv'
  BY <1>17 DEF deleteIdentities
<1> QED BY <1>1, <1>2, <1>3, <1>4, <1>5, <1>6, <1>7, <1>8, <1>9, <1>10, <1>11, <1>12,
   <1>13, <1>14, <1>15, <1>16, <1>17 DEF OAuthNext, SignInStep, LinkStep

\* A state leaves the table with one request, whose last action records it.
LEMMA StatesStep == OAuthInv /\ OAuthNext => (StatesInv /\ StateUsedOnce)'
<1> SUFFICES ASSUME OAuthInv, OAuthNext PROVE (StatesInv /\ StateUsedOnce)'
  OBVIOUS
<1> USE OAuthConstants DEF OAuthInv, OAuthTypeOK, RequestsInv, PendingInv, StatesInv,
   StateUsedOnce, AuthStates, Opened, Superseded, Usable, Grant, Serving, Proceed,
   Finish, NoRequest, Holding, Signing, Linking, Spent
<1>1. CASE registerLocally
  BY <1>1 DEF registerLocally
<1>2. ASSUME NEW st \in LoginStates, createPendingLogin(st)
      PROVE  (StatesInv /\ StateUsedOnce)'
  BY <1>2 DEF createPendingLogin
<1>3. ASSUME NEW st \in LinkStates, NEW u \in Accounts, createPendingAuthorization(st, u)
      PROVE  (StatesInv /\ StateUsedOnce)'
  BY <1>3 DEF createPendingAuthorization
<1>4. ASSUME NEW st \in AuthStates, stateExpires(st) PROVE (StatesInv /\ StateUsedOnce)'
  BY <1>4 DEF stateExpires
<1>5. ASSUME NEW k \in Callbacks, NEW st \in AuthStates, consume(k, st)
      PROVE  (StatesInv /\ StateUsedOnce)'
  BY <1>5 DEF consume
<1>6. ASSUME NEW k \in Callbacks, NEW s \in Subjects, exchangeCode(k, s)
      PROVE  (StatesInv /\ StateUsedOnce)'
  BY <1>6 DEF exchangeCode
<1>7. ASSUME NEW k \in Callbacks, resolveIdentity(k) PROVE (StatesInv /\ StateUsedOnce)'
  <2> PICK u : u = directory[request[k].subject]
    OBVIOUS
  <2> DEFINE Same ==
        \A m \in Callbacks : Holding(m)' => Holding(m) /\ request'[m].state = request[m].state
  <2>1. \/ request' = [request EXCEPT ![k].pc = "issue", ![k].user = u]
        \/ Proceed(k, "register")
        \/ Finish(k)
    BY <1>7, Zenon DEF resolveIdentity
  <2>2. request[k].pc \in {"resolve", "again"}
    BY <1>7 DEF resolveIdentity
  <2>3. CASE request' = [request EXCEPT ![k].pc = "issue", ![k].user = u]
    <3>1. Same
      BY <2>2, <2>3
    <3> QED BY <3>1, <1>7 DEF resolveIdentity
  <2>4. CASE Proceed(k, "register")
    <3>1. Same
      BY <2>2, <2>4
    <3> QED BY <3>1, <1>7 DEF resolveIdentity
  <2>5. CASE Finish(k)
    <3>1. Same
      BY <2>5
    <3> QED BY <3>1, <1>7 DEF resolveIdentity
  <2> QED BY <2>1, <2>3, <2>4, <2>5
<1>8. ASSUME NEW k \in Callbacks, issueExistingSession(k)
      PROVE  (StatesInv /\ StateUsedOnce)'
  BY <1>8 DEF issueExistingSession
<1>9. ASSUME NEW k \in Callbacks, registerOwner(k) PROVE (StatesInv /\ StateUsedOnce)'
  <2> PICK u : u = FreshUser
    OBVIOUS
  <2>1. /\ Holding(k) /\ Finish(k)
        /\ pending' = pending /\ linked' = linked
        /\ issued' = issued \cup {<<request[k].state, request[k].subject, u>>}
    BY <1>9 DEF registerOwner
  <2> PICK g : g = <<request[k].state, request[k].subject, u>>
    OBVIOUS
  <2>2. /\ g[1] = request[k].state /\ g[1] \in AuthStates /\ Spent(g[1])
        /\ \A h \in issued \cup linked : h[1] # g[1]
        /\ issued' = issued \cup {g}
    BY <2>1
  <2>3. \A m \in Callbacks : Holding(m)' => Holding(m) /\ m # k /\ request'[m] = request[m]
    BY <2>1
  <2>4. StatesInv'
    BY <2>1, <2>2, <2>3
  <2>5. StateUsedOnce'
    BY <2>1, <2>2
  <2> QED BY <2>4, <2>5
<1>10. ASSUME NEW k \in Callbacks, registerConflict(k) PROVE (StatesInv /\ StateUsedOnce)'
  BY <1>10 DEF registerConflict
<1>11. ASSUME NEW k \in Callbacks, linkNew(k) PROVE (StatesInv /\ StateUsedOnce)'
  <2>1. /\ Linking(k) /\ Finish(k)
        /\ pending' = pending /\ issued' = issued
        /\ linked' = linked \cup {<<request[k].state, request[k].subject, request[k].user>>}
    BY <1>11 DEF linkNew
  <2> QED BY <2>1
<1>12. ASSUME NEW k \in Callbacks, linkOwn(k) PROVE (StatesInv /\ StateUsedOnce)'
  BY <1>12 DEF linkOwn
<1>13. ASSUME NEW k \in Callbacks, linkTaken(k) PROVE (StatesInv /\ StateUsedOnce)'
  BY <1>13 DEF linkTaken
<1>14. ASSUME NEW k \in Callbacks, storeTokens(k) PROVE (StatesInv /\ StateUsedOnce)'
  BY <1>14 DEF storeTokens
<1>15. ASSUME NEW k \in Callbacks, gives(k) PROVE (StatesInv /\ StateUsedOnce)'
  BY <1>15 DEF gives
<1>16. ASSUME NEW k \in Callbacks, NEW u \in Accounts, deleteTokens(k, u)
       PROVE  (StatesInv /\ StateUsedOnce)'
  BY <1>16 DEF deleteTokens
<1>17. ASSUME NEW k \in Callbacks, deleteIdentities(k) PROVE (StatesInv /\ StateUsedOnce)'
  BY <1>17 DEF deleteIdentities
<1> QED BY <1>1, <1>2, <1>3, <1>4, <1>5, <1>6, <1>7, <1>8, <1>9, <1>10, <1>11, <1>12,
   <1>13, <1>14, <1>15, <1>16, <1>17 DEF OAuthNext, SignInStep, LinkStep

\* owners only grows, so what was true of it stays true.
LEMMA OwnersStep == OAuthInv /\ OAuthNext => (OwnersInv /\ GrantsFollowOwners)'
<1> SUFFICES ASSUME OAuthInv, OAuthNext PROVE (OwnersInv /\ GrantsFollowOwners)'
  OBVIOUS
<1> USE OAuthConstants DEF OAuthInv, OAuthTypeOK, RequestsInv, OwnersInv,
   DirectoryMatches, GrantsFollowOwners, Grant, Accounts, Serving, Proceed, Finish,
   NoRequest, Holding, Signing, Linking, Spent
<1>1. CASE registerLocally
  BY <1>1 DEF registerLocally
<1>2. ASSUME NEW st \in LoginStates, createPendingLogin(st)
      PROVE  (OwnersInv /\ GrantsFollowOwners)'
  BY <1>2 DEF createPendingLogin
<1>3. ASSUME NEW st \in LinkStates, NEW u \in Accounts, createPendingAuthorization(st, u)
      PROVE  (OwnersInv /\ GrantsFollowOwners)'
  BY <1>3 DEF createPendingAuthorization
<1>4. ASSUME NEW st \in AuthStates, stateExpires(st)
      PROVE  (OwnersInv /\ GrantsFollowOwners)'
  BY <1>4 DEF stateExpires
<1>5. ASSUME NEW k \in Callbacks, NEW st \in AuthStates, consume(k, st)
      PROVE  (OwnersInv /\ GrantsFollowOwners)'
  BY <1>5 DEF consume
<1>6. ASSUME NEW k \in Callbacks, NEW s \in Subjects, exchangeCode(k, s)
      PROVE  (OwnersInv /\ GrantsFollowOwners)'
  BY <1>6 DEF exchangeCode
<1>7. ASSUME NEW k \in Callbacks, resolveIdentity(k)
      PROVE  (OwnersInv /\ GrantsFollowOwners)'
  <2>1. \/ directory[request[k].subject] # 0
           /\ request' = [request EXCEPT ![k].pc = "issue", ![k].user = directory[request[k].subject]]
        \/ Proceed(k, "register")
        \/ Finish(k)
    BY <1>7, Zenon DEF resolveIdentity
  <2>2. request[k].subject \in Subjects
    BY <1>7 DEF resolveIdentity
  <2>3. \A m \in Callbacks : request'[m].pc \in {"issue", "store"} =>
            request'[m].user \in owners[request'[m].subject]
    <3>1. directory[request[k].subject] # 0 =>
            directory[request[k].subject] \in owners[request[k].subject]
      BY <2>2
    <3>2. \A m \in Callbacks : m # k => request'[m] = request[m]
      BY <2>1
    <3>3. request'[k].pc \in {"issue", "store"} =>
            request'[k].user \in owners[request'[k].subject]
      <4>1. CASE /\ directory[request[k].subject] # 0
                 /\ request' = [request EXCEPT ![k].pc = "issue",
                                              ![k].user = directory[request[k].subject]]
        BY <4>1, <3>1
      <4>2. CASE Proceed(k, "register")
        BY <4>2
      <4>3. CASE Finish(k)
        BY <4>3
      <4> QED BY <2>1, <4>1, <4>2, <4>3
    <3> QED BY <3>2, <3>3
  <2> QED BY <1>7, <2>3 DEF resolveIdentity
<1>8. ASSUME NEW k \in Callbacks, issueExistingSession(k)
      PROVE  (OwnersInv /\ GrantsFollowOwners)'
  BY <1>8 DEF issueExistingSession
<1>9. ASSUME NEW k \in Callbacks, registerOwner(k) PROVE (OwnersInv /\ GrantsFollowOwners)'
  BY <1>9 DEF registerOwner
<1>10. ASSUME NEW k \in Callbacks, registerConflict(k)
       PROVE  (OwnersInv /\ GrantsFollowOwners)'
  BY <1>10 DEF registerConflict
<1>11. ASSUME NEW k \in Callbacks, linkNew(k) PROVE (OwnersInv /\ GrantsFollowOwners)'
  BY <1>11 DEF linkNew
<1>12. ASSUME NEW k \in Callbacks, linkOwn(k) PROVE (OwnersInv /\ GrantsFollowOwners)'
  <2>1. /\ request[k].user \in Accounts /\ request[k].subject \in Subjects
        /\ identity[request[k].subject] = request[k].user
    BY <1>12 DEF linkOwn, PendingInv
  <2>2. \A m \in Callbacks : request'[m].pc \in {"issue", "store"} =>
            request'[m].user \in owners[request'[m].subject]
    BY <1>12, <2>1 DEF linkOwn
  <2> QED BY <1>12, <2>2 DEF linkOwn
<1>13. ASSUME NEW k \in Callbacks, linkTaken(k) PROVE (OwnersInv /\ GrantsFollowOwners)'
  BY <1>13 DEF linkTaken
<1>14. ASSUME NEW k \in Callbacks, storeTokens(k) PROVE (OwnersInv /\ GrantsFollowOwners)'
  BY <1>14 DEF storeTokens
<1>15. ASSUME NEW k \in Callbacks, gives(k) PROVE (OwnersInv /\ GrantsFollowOwners)'
  BY <1>15 DEF gives
<1>16. ASSUME NEW k \in Callbacks, NEW u \in Accounts, deleteTokens(k, u)
       PROVE  (OwnersInv /\ GrantsFollowOwners)'
  BY <1>16 DEF deleteTokens
<1>17. ASSUME NEW k \in Callbacks, deleteIdentities(k)
       PROVE  (OwnersInv /\ GrantsFollowOwners)'
  BY <1>17 DEF deleteIdentities
<1> QED BY <1>1, <1>2, <1>3, <1>4, <1>5, <1>6, <1>7, <1>8, <1>9, <1>10, <1>11, <1>12,
   <1>13, <1>14, <1>15, <1>16, <1>17 DEF OAuthNext, SignInStep, LinkStep

-----------------------------------------------------------------------------

\* Nobody has signed in yet.
LEMMA OAuthInitInv == OAuthInit => OAuthInv
BY OAuthConstants DEF OAuthInit, OAuthInv, OAuthTypeOK, RequestsInv, PendingInv,
   StatesInv,
   StateUsedOnce, DirectoryMatches, OwnersInv, GrantsFollowOwners,
   Unstarted, NoRequest, AuthStates, Holding, Signing, Linking, Serving

\* Every step keeps all parts of the invariant.
LEMMA OAuthStepInv == OAuthInv /\ [OAuthNext]_oauthVars => OAuthInv'
<1> SUFFICES ASSUME OAuthInv, [OAuthNext]_oauthVars
             PROVE  OAuthInv'
  OBVIOUS
<1>1. CASE OAuthNext
  BY <1>1, TypeStep, DirectoryStep, RequestsStep, PendingStep, StatesStep, OwnersStep
     DEF OAuthInv
<1>2. CASE UNCHANGED oauthVars
  BY <1>2 DEF OAuthInv, OAuthTypeOK, RequestsInv, PendingInv, StatesInv,
     StateUsedOnce, DirectoryMatches, OwnersInv, GrantsFollowOwners,
     Holding, Signing, Linking, Serving, Spent, oauthVars
<1> QED
  BY <1>1, <1>2

\* The inductive invariant.
THEOREM OAuthInvariant == OAuthSpec => []OAuthInv
BY OAuthInitInv, OAuthStepInv, PTL DEF OAuthSpec

\* Type correctness of the sign-in tables.
THEOREM OAuthTypeCorrect == OAuthSpec => []OAuthTypeOK
  BY OAuthInvariant, PTL DEF OAuthInv

\* A callback that is delivered several times has one effect, for the user who
\* started it.
THEOREM StatesAreUsedOnce == OAuthSpec => []StateUsedOnce
  BY OAuthInvariant, PTL DEF OAuthInv

\* The global directory always agrees with the tenants' identities.
THEOREM DirectoryAgrees == OAuthSpec => []DirectoryMatches
  BY OAuthInvariant, PTL DEF OAuthInv

\* Sessions and tokens only follow identities that the user has or had.
THEOREM GrantsAreOwned == OAuthSpec => []GrantsFollowOwners
  BY OAuthInvariant, PTL DEF OAuthInv

\* Directory, sessions and tokens agree with the identities.
THEOREM OwnersAlwaysAgree == OAuthSpec => []OwnersAgree
  BY OAuthInvariant, PTL DEF OAuthInv, OwnersAgree

\* No identity moves from one account to another: the first must disconnect it.
THEOREM IdentitiesStay == OAuthSpec => IdentityKeepsOwner
<1> DEFINE Stays ==
       \A s \in Subjects :
          identity[s] # 0 /\ identity'[s] # identity[s]
          => /\ identity'[s] = 0
             /\ \E k \in Callbacks : /\ Serving(k, "unlink")
                                     /\ request[k].user = identity[s]
                                     /\ request'[k].pc = "idle"
<1>1. OAuthInv /\ [OAuthNext]_oauthVars => [Stays]_oauthVars
  <2> SUFFICES ASSUME OAuthInv, OAuthNext PROVE Stays
    BY DEF oauthVars
  <2> USE DEF OAuthInv, OAuthTypeOK
  <2>1. ASSUME NEW k \in Callbacks, registerOwner(k) PROVE Stays
    BY <2>1 DEF registerOwner
  <2>2. ASSUME NEW k \in Callbacks, linkNew(k) PROVE Stays
    BY <2>2 DEF linkNew
  <2>3. ASSUME NEW k \in Callbacks, deleteIdentities(k) PROVE Stays
    BY <2>3 DEF deleteIdentities, Finish, NoRequest
  <2>4. CASE identity' = identity
    BY <2>4
  <2>5. \/ identity' = identity
        \/ \E k \in Callbacks : registerOwner(k) \/ linkNew(k) \/ deleteIdentities(k)
    BY DEF OAuthNext, SignInStep, LinkStep, registerLocally, createPendingLogin,
       createPendingAuthorization, stateExpires, consume, exchangeCode, resolveIdentity,
       issueExistingSession, registerConflict, linkOwn, linkTaken, storeTokens, gives, deleteTokens
  <2> QED BY <2>1, <2>2, <2>3, <2>4, <2>5
<1> QED BY <1>1, OAuthInvariant, PTL DEF OAuthSpec, IdentityKeepsOwner

-----------------------------------------------------------------------------
(* The accounts' inductive invariant.                                      *)

\* The sets that the properties count.
StaleSessions == {s \in Active : sessions[s].seen < password}
StaleLogins == {r \in AuthRequests : Awaits(r, "login") /\ authRequest[r].seen < password}
Inserting(purpose) ==
    {r \in AuthRequests : Awaits(r, "insert") /\ authRequest[r].purpose = purpose}
UsedTokens(purpose) ==
    {t \in RecoveryTokens : recovery[t].purpose = purpose /\ recovery[t].state = "used"}

\* The types, without a bound on the passwords: that follows from what a change
\* of the password costs.
AccountRows ==
    /\ password \in Nat
    /\ verified \in BOOLEAN
    /\ sessions \in [SessionTokens -> [state: {"unused", "active", "ended"}, seen: Nat]]
    /\ recovery \in [RecoveryTokens ->
          [purpose: Purposes \cup {"none"}, state: {"unused", "open", "used", "expired"},
           recent: BOOLEAN]]
    /\ authRequest \in [AuthRequests ->
          [pc: {"idle", "login", "count", "insert"}, purpose: Purposes \cup {"none"}, seen: Nat]]

\* Whoever compares a password compares one the account has or had.
SeenWasSet ==
    /\ \A s \in SessionTokens :
          /\ sessions[s].seen <= password
          /\ sessions[s].state = "active" => sessions[s].seen > 0
    /\ \A r \in AuthRequests :
          /\ authRequest[r].seen <= password
          /\ Awaits(r, "login") => authRequest[r].seen > 0

\* Tokens and requests for them belong to a registered account and have a
\* purpose; only a token that is open counts as recent.
TokensBelong ==
    /\ \A r \in AuthRequests :
          authRequest[r].pc \in {"count", "insert"} =>
              authRequest[r].purpose \in Purposes /\ password > 0
    /\ \A t \in RecoveryTokens :
          /\ recovery[t].recent => recovery[t].state = "open"
          /\ recovery[t].state # "unused" => recovery[t].purpose \in Purposes /\ password > 0

\* The properties, by the names of the sets they count.
LateLogins ==
    /\ IsFiniteSet(StaleSessions)
    /\ Cardinality(StaleSessions) + Cardinality(StaleLogins) <= Cardinality(AuthRequests)

RecentTokensBounded ==
    \A purpose \in Purposes :
        Cardinality(RecentTokens(purpose)) + Cardinality(Inserting(purpose))
          <= MaxRecent + Cardinality(AuthRequests) - 1

ChangesArePaid ==
    /\ password > 0 => password = 1 + Cardinality(UsedTokens("password_reset"))
    /\ verified <=> UsedTokens("email_verify") # {}

AccountsInv ==
    /\ AccountRows
    /\ SeenWasSet
    /\ TokensBelong
    /\ LateLogins
    /\ RecentTokensBounded
    /\ ChangesArePaid

-----------------------------------------------------------------------------
(* Counting.                                                               *)

\* A part of a finite set is finite and no larger.
LEMMA PartIsSmaller ==
    ASSUME NEW S, NEW T, IsFiniteSet(T), S \subseteq T
    PROVE  /\ IsFiniteSet(S)
           /\ Cardinality(S) \in Nat /\ Cardinality(T) \in Nat
           /\ Cardinality(S) <= Cardinality(T)
BY FS_Subset, FS_CardinalityType

\* What moves from one finite set to another is counted once.
LEMMA MovedIsCountedOnce ==
    ASSUME NEW S, NEW T, NEW s, NEW t,
           IsFiniteSet(S), IsFiniteSet(T), s \notin S, t \in T
    PROVE  /\ IsFiniteSet(S \cup {s})
           /\ Cardinality(S \cup {s}) + Cardinality(T \ {t}) = Cardinality(S) + Cardinality(T)
<1>1. Cardinality(S) \in Nat /\ Cardinality(T) \in Nat
  BY FS_CardinalityType
<1>2. IsFiniteSet(S \cup {s}) /\ Cardinality(S \cup {s}) = Cardinality(S) + 1
  BY FS_AddElement
<1>3. Cardinality(T \ {t}) = Cardinality(T) - 1
  BY FS_RemoveElement
<1> QED
  BY <1>1, <1>2, <1>3

\* Requests, tokens that are recent, and tokens that were used are finitely many.
LEMMA CountedAreFinite ==
    /\ IsFiniteSet(StaleLogins)
    /\ \A purpose : /\ IsFiniteSet(Inserting(purpose))
                    /\ IsFiniteSet(RecentTokens(purpose))
                    /\ IsFiniteSet(UsedTokens(purpose))
<1>1. StaleLogins \subseteq AuthRequests
  BY DEF StaleLogins
<1>2. ASSUME NEW purpose
      PROVE  /\ Inserting(purpose) \subseteq AuthRequests
             /\ RecentTokens(purpose) \subseteq RecoveryTokens
             /\ UsedTokens(purpose) \subseteq RecoveryTokens
  BY DEF Inserting, RecentTokens, UsedTokens
<1> QED
  BY <1>1, <1>2, AccountConstants, PartIsSmaller

-----------------------------------------------------------------------------
(* A step that adds to none of the counted sets keeps the counts.          *)

\* Sessions and logins under an older password can only become fewer, unless
\* the password changes.
LEMMA FewerLateLogins ==
    ASSUME LateLogins, StaleSessions' \subseteq StaleSessions, StaleLogins' \subseteq StaleLogins
    PROVE  LateLogins'
<1>1. /\ IsFiniteSet(StaleSessions')
      /\ Cardinality(StaleSessions') \in Nat /\ Cardinality(StaleSessions) \in Nat
      /\ Cardinality(StaleSessions') <= Cardinality(StaleSessions)
  BY PartIsSmaller DEF LateLogins
<1>2. /\ Cardinality(StaleLogins') \in Nat /\ Cardinality(StaleLogins) \in Nat
      /\ Cardinality(StaleLogins') <= Cardinality(StaleLogins)
  BY PartIsSmaller, CountedAreFinite
<1>3. Cardinality(AuthRequests) \in Nat
  BY AccountConstants, FS_CardinalityType
<1> QED
  BY <1>1, <1>2, <1>3 DEF LateLogins

\* So can recent tokens, unless a request counts or inserts.
LEMMA FewerRecentTokens ==
    ASSUME RecentTokensBounded,
           \A purpose \in Purposes : /\ RecentTokens(purpose)' \subseteq RecentTokens(purpose)
                                     /\ Inserting(purpose)' \subseteq Inserting(purpose)
    PROVE  RecentTokensBounded'
<1> SUFFICES ASSUME NEW purpose \in Purposes
             PROVE  Cardinality(RecentTokens(purpose)') + Cardinality(Inserting(purpose)')
                      <= MaxRecent + Cardinality(AuthRequests) - 1
  BY DEF RecentTokensBounded
<1>1. /\ Cardinality(RecentTokens(purpose)') \in Nat /\ Cardinality(RecentTokens(purpose)) \in Nat
      /\ Cardinality(RecentTokens(purpose)') <= Cardinality(RecentTokens(purpose))
  BY PartIsSmaller, CountedAreFinite
<1>2. /\ Cardinality(Inserting(purpose)') \in Nat /\ Cardinality(Inserting(purpose)) \in Nat
      /\ Cardinality(Inserting(purpose)') <= Cardinality(Inserting(purpose))
  BY PartIsSmaller, CountedAreFinite
<1>3. Cardinality(AuthRequests) \in Nat /\ MaxRecent \in Nat
  BY AccountConstants, FS_CardinalityType
<1> QED
  BY <1>1, <1>2, <1>3 DEF RecentTokensBounded

\* The books of the changes stay as they are while no token is used.
LEMMA SameChanges ==
    ASSUME ChangesArePaid, password' = password, verified' = verified,
           \A purpose \in Purposes : UsedTokens(purpose)' = UsedTokens(purpose)
    PROVE  ChangesArePaid'
<1>1. /\ UsedTokens("password_reset")' = UsedTokens("password_reset")
      /\ UsedTokens("email_verify")' = UsedTokens("email_verify")
  BY DEF Purposes
<1>2. (password > 0 => password = 1 + Cardinality(UsedTokens("password_reset")))'
  BY <1>1 DEF ChangesArePaid
<1>3. (verified <=> UsedTokens("email_verify") # {})'
  BY <1>1, Zenon DEF ChangesArePaid
<1> QED
  BY <1>2, <1>3 DEF ChangesArePaid

-----------------------------------------------------------------------------
(* Each action keeps the invariant.                                        *)

\* Before the registration the account has no session, login, token or request
\* for one.
LEMMA RegisterKeeps ==
    ASSUME AccountsInv, register
    PROVE  AccountsInv'
<1> USE DEF AccountsInv, register
<1>1. AccountRows' /\ SeenWasSet' /\ TokensBelong'
  BY DEF AccountRows, SeenWasSet, TokensBelong, Awaits
<1>2. LateLogins'
  <2>1. StaleSessions' = {} /\ StaleLogins' = {}
    BY DEF StaleSessions, StaleLogins, Active, AccountRows, SeenWasSet, Awaits
  <2> QED
    BY <2>1, FewerLateLogins
<1>3. RecentTokensBounded'
  BY FewerRecentTokens DEF RecentTokens, Inserting, Awaits
<1>4. ChangesArePaid'
  <2>1. \A purpose : UsedTokens(purpose) = {} /\ UsedTokens(purpose)' = {}
    BY DEF UsedTokens, TokensBelong
  <2>2. (password > 0 => password = 1 + Cardinality(UsedTokens("password_reset")))'
    BY <2>1, FS_EmptySet
  <2>3. (verified <=> UsedTokens("email_verify") # {})'
    BY <2>1, Zenon DEF ChangesArePaid
  <2> QED
    BY <2>2, <2>3 DEF ChangesArePaid
<1> QED
  BY <1>1, <1>2, <1>3, <1>4

\* A request that settles takes nothing along.
LEMMA AbandonKeeps ==
    ASSUME AccountsInv, NEW r \in AuthRequests, abandon(r)
    PROVE  AccountsInv'
<1> USE DEF AccountsInv, abandon, Settle, IdleAuth
<1>1. AccountRows' /\ SeenWasSet' /\ TokensBelong'
  BY DEF AccountRows, SeenWasSet, TokensBelong, Awaits
<1>2. LateLogins'
  <2>1. StaleSessions' \subseteq StaleSessions /\ StaleLogins' \subseteq StaleLogins
    BY DEF StaleSessions, StaleLogins, Active, AccountRows, Awaits
  <2> QED
    BY <2>1, FewerLateLogins
<1>3. RecentTokensBounded'
  <2>1. \A purpose \in Purposes : /\ RecentTokens(purpose)' \subseteq RecentTokens(purpose)
                                  /\ Inserting(purpose)' \subseteq Inserting(purpose)
    BY DEF RecentTokens, Inserting, AccountRows, Awaits
  <2> QED
    BY <2>1, FewerRecentTokens
<1>4. ChangesArePaid'
  BY SameChanges DEF UsedTokens
<1> QED
  BY <1>1, <1>2, <1>3, <1>4

\* A login compares the password of the moment: it is not late yet.
LEMMA FindCredentialsKeeps ==
    ASSUME AccountsInv, NEW r \in AuthRequests, findCredentials(r)
    PROVE  AccountsInv'
<1> USE DEF AccountsInv, findCredentials
<1>1. AccountRows' /\ SeenWasSet' /\ TokensBelong'
  BY DEF AccountRows, SeenWasSet, TokensBelong, Awaits
<1>2. LateLogins'
  <2>1. StaleSessions' \subseteq StaleSessions /\ StaleLogins' \subseteq StaleLogins
    BY DEF StaleSessions, StaleLogins, Active, AccountRows, Awaits
  <2> QED
    BY <2>1, FewerLateLogins
<1>3. RecentTokensBounded'
  <2>1. \A purpose \in Purposes : /\ RecentTokens(purpose)' \subseteq RecentTokens(purpose)
                                  /\ Inserting(purpose)' \subseteq Inserting(purpose)
    BY DEF RecentTokens, Inserting, AccountRows, Awaits
  <2> QED
    BY <2>1, FewerRecentTokens
<1>4. ChangesArePaid'
  BY SameChanges DEF UsedTokens
<1> QED
  BY <1>1, <1>2, <1>3, <1>4

\* A late login that gets its session is counted there instead.
LEMMA CreateSessionKeeps ==
    ASSUME AccountsInv, NEW r \in AuthRequests, NEW s \in SessionTokens, createSession(r, s)
    PROVE  AccountsInv'
<1> USE DEF AccountsInv, createSession, Settle, IdleAuth
<1>1. AccountRows' /\ SeenWasSet' /\ TokensBelong'
  BY DEF AccountRows, SeenWasSet, TokensBelong, Awaits
<1>2. LateLogins'
  <2>1. s \notin StaleSessions
    BY DEF StaleSessions, Active
  <2>2. CASE authRequest[r].seen < password
    <3>1. r \in StaleLogins
      BY <2>2 DEF StaleLogins
    <3>2. StaleSessions' = StaleSessions \cup {s} /\ StaleLogins' = StaleLogins \ {r}
      BY <2>2 DEF StaleSessions, StaleLogins, Active, AccountRows, Awaits
    <3>3. /\ IsFiniteSet(StaleSessions)
          /\ Cardinality(StaleSessions) + Cardinality(StaleLogins) <= Cardinality(AuthRequests)
      BY DEF LateLogins
    <3> HIDE DEF AccountsInv, createSession, Settle, IdleAuth
    <3>4. /\ IsFiniteSet(StaleSessions \cup {s})
          /\ Cardinality(StaleSessions \cup {s}) + Cardinality(StaleLogins \ {r})
               = Cardinality(StaleSessions) + Cardinality(StaleLogins)
      BY <2>1, <3>1, <3>3, MovedIsCountedOnce, CountedAreFinite
    <3> QED
      BY <3>2, <3>3, <3>4 DEF LateLogins
  <2>3. CASE ~(authRequest[r].seen < password)
    <3>1. StaleSessions' \subseteq StaleSessions /\ StaleLogins' \subseteq StaleLogins
      BY <2>3 DEF StaleSessions, StaleLogins, Active, AccountRows, Awaits
    <3> QED
      BY <3>1, FewerLateLogins
  <2> QED
    BY <2>2, <2>3
<1>3. RecentTokensBounded'
  <2>1. \A purpose \in Purposes : /\ RecentTokens(purpose)' \subseteq RecentTokens(purpose)
                                  /\ Inserting(purpose)' \subseteq Inserting(purpose)
    BY DEF RecentTokens, Inserting, AccountRows, Awaits
  <2> QED
    BY <2>1, FewerRecentTokens
<1>4. ChangesArePaid'
  BY SameChanges DEF UsedTokens
<1> QED
  BY <1>1, <1>2, <1>3, <1>4

\* A session that ends is late no more.
LEMMA EndSessionKeeps ==
    ASSUME AccountsInv, NEW s \in SessionTokens, endSession(s)
    PROVE  AccountsInv'
<1> USE DEF AccountsInv, endSession, Ended
<1>1. AccountRows' /\ SeenWasSet' /\ TokensBelong'
  BY DEF AccountRows, SeenWasSet, TokensBelong, Awaits
<1>2. LateLogins'
  <2>1. StaleSessions' \subseteq StaleSessions /\ StaleLogins' \subseteq StaleLogins
    BY DEF StaleSessions, StaleLogins, Active, AccountRows, Awaits
  <2> QED
    BY <2>1, FewerLateLogins
<1>3. RecentTokensBounded'
  BY FewerRecentTokens DEF RecentTokens, Inserting, Awaits
<1>4. ChangesArePaid'
  BY SameChanges DEF UsedTokens
<1> QED
  BY <1>1, <1>2, <1>3, <1>4

\* A request for a token has yet to count.
LEMMA RequestRecoveryKeeps ==
    ASSUME AccountsInv, NEW r \in AuthRequests, NEW purpose \in Purposes,
           requestRecovery(r, purpose)
    PROVE  AccountsInv'
<1> USE DEF AccountsInv, requestRecovery
<1>1. AccountRows' /\ SeenWasSet' /\ TokensBelong'
  BY DEF AccountRows, SeenWasSet, TokensBelong, Awaits
<1>2. LateLogins'
  <2>1. StaleSessions' \subseteq StaleSessions /\ StaleLogins' \subseteq StaleLogins
    BY DEF StaleSessions, StaleLogins, Active, AccountRows, Awaits
  <2> QED
    BY <2>1, FewerLateLogins
<1>3. RecentTokensBounded'
  <2>1. \A p \in Purposes : /\ RecentTokens(p)' \subseteq RecentTokens(p)
                            /\ Inserting(p)' \subseteq Inserting(p)
    BY DEF RecentTokens, Inserting, AccountRows, Awaits
  <2> QED
    BY <2>1, FewerRecentTokens
<1>4. ChangesArePaid'
  BY SameChanges DEF UsedTokens
<1> QED
  BY <1>1, <1>2, <1>3, <1>4

\* Whoever counts fewer tokens than the limit may insert; everyone else may have
\* counted the same ones, so at most all the requests insert.
LEMMA CountRecentKeeps ==
    ASSUME AccountsInv, NEW r \in AuthRequests, countRecent(r)
    PROVE  AccountsInv'
<1> USE DEF AccountsInv, countRecent, Settle, IdleAuth
<1>1. AccountRows' /\ SeenWasSet' /\ TokensBelong'
  <2>1. AccountRows'
    <3>1. authRequest' \in [AuthRequests ->
             [pc: {"idle", "login", "count", "insert"}, purpose: Purposes \cup {"none"}, seen: Nat]]
      BY SMTT(20) DEF AccountRows
    <3> QED
      BY <3>1 DEF AccountRows
  <2>2. SeenWasSet'
    <3>1. /\ UNCHANGED <<password, sessions>>
          /\ \A q \in AuthRequests :
                \/ authRequest'[q] = IdleAuth
                \/ /\ authRequest'[q].seen = authRequest[q].seen
                   /\ authRequest'[q].pc = "login" => authRequest[q].pc = "login"
      BY DEF AccountRows
    <3>2. password \in Nat /\ SeenWasSet
      BY DEF AccountRows
    <3> HIDE DEF AccountsInv, countRecent, Settle
    <3> QED
      BY <3>1, <3>2 DEF SeenWasSet, Awaits
  <2>3. TokensBelong'
    BY DEF AccountRows, TokensBelong, Awaits
  <2> QED
    BY <2>1, <2>2, <2>3
<1>2. LateLogins'
  <2>1. StaleSessions' \subseteq StaleSessions /\ StaleLogins' \subseteq StaleLogins
    BY DEF StaleSessions, StaleLogins, Active, AccountRows, Awaits
  <2> QED
    BY <2>1, FewerLateLogins
<1>3. RecentTokensBounded'
  <2>1. \A purpose \in Purposes : RecentTokens(purpose)' = RecentTokens(purpose)
    BY DEF RecentTokens
  <2>2. CASE Cardinality(RecentTokens(authRequest[r].purpose)) < MaxRecent
    <3> SUFFICES ASSUME NEW purpose \in Purposes
                 PROVE  Cardinality(RecentTokens(purpose)) + Cardinality(Inserting(purpose)')
                          <= MaxRecent + Cardinality(AuthRequests) - 1
      BY <2>1 DEF RecentTokensBounded
    <3>1. CASE purpose = authRequest[r].purpose
      <4>1. Inserting(purpose)' \subseteq AuthRequests
        BY DEF Inserting
      <4>2. /\ Cardinality(Inserting(purpose)') \in Nat /\ Cardinality(AuthRequests) \in Nat
            /\ Cardinality(Inserting(purpose)') <= Cardinality(AuthRequests)
        BY <4>1, PartIsSmaller, AccountConstants
      <4>3. Cardinality(RecentTokens(purpose)) \in Nat /\ MaxRecent \in Nat
        BY CountedAreFinite, FS_CardinalityType, AccountConstants
      <4> QED
        BY <2>2, <3>1, <4>2, <4>3
    <3>2. CASE purpose # authRequest[r].purpose
      <4>1. Inserting(purpose)' = Inserting(purpose)
        BY <2>2, <3>2 DEF Inserting, AccountRows, Awaits
      <4> QED
        BY <4>1 DEF RecentTokensBounded
    <3> QED
      BY <3>1, <3>2
  <2>3. CASE ~(Cardinality(RecentTokens(authRequest[r].purpose)) < MaxRecent)
    <3>1. \A purpose \in Purposes : Inserting(purpose)' \subseteq Inserting(purpose)
      BY <2>3 DEF Inserting, AccountRows, Awaits
    <3> QED
      BY <2>1, <3>1, FewerRecentTokens
  <2> QED
    BY <2>2, <2>3
<1>4. ChangesArePaid'
  BY SameChanges DEF UsedTokens
<1> QED
  BY <1>1, <1>2, <1>3, <1>4

\* A request that inserts is counted by its token.
LEMMA InsertTokenKeeps ==
    ASSUME AccountsInv, NEW r \in AuthRequests, NEW t \in RecoveryTokens, insertToken(r, t)
    PROVE  AccountsInv'
<1> USE DEF AccountsInv, insertToken, Settle, IdleAuth
<1>1. AccountRows' /\ SeenWasSet' /\ TokensBelong'
  BY DEF AccountRows, SeenWasSet, TokensBelong, Awaits
<1>2. LateLogins'
  <2>1. StaleSessions' \subseteq StaleSessions /\ StaleLogins' \subseteq StaleLogins
    BY DEF StaleSessions, StaleLogins, Active, AccountRows, Awaits
  <2> QED
    BY <2>1, FewerLateLogins
<1>3. RecentTokensBounded'
  <2> SUFFICES ASSUME NEW purpose \in Purposes
               PROVE  Cardinality(RecentTokens(purpose)') + Cardinality(Inserting(purpose)')
                        <= MaxRecent + Cardinality(AuthRequests) - 1
    BY DEF RecentTokensBounded
  <2>1. CASE purpose = authRequest[r].purpose
    <3>1. t \notin RecentTokens(purpose) /\ r \in Inserting(purpose)
      BY <2>1 DEF RecentTokens, Inserting
    <3>2. /\ RecentTokens(purpose)' = RecentTokens(purpose) \cup {t}
          /\ Inserting(purpose)' = Inserting(purpose) \ {r}
      BY <2>1 DEF RecentTokens, Inserting, AccountRows, Awaits
    <3>3. Cardinality(RecentTokens(purpose)) + Cardinality(Inserting(purpose))
            <= MaxRecent + Cardinality(AuthRequests) - 1
      BY DEF RecentTokensBounded
    <3> HIDE DEF AccountsInv, insertToken, Settle, IdleAuth
    <3>4. IsFiniteSet(RecentTokens(purpose)) /\ IsFiniteSet(Inserting(purpose))
      BY CountedAreFinite
    <3>5. Cardinality(RecentTokens(purpose) \cup {t}) + Cardinality(Inserting(purpose) \ {r})
            = Cardinality(RecentTokens(purpose)) + Cardinality(Inserting(purpose))
      <4> DEFINE S == RecentTokens(purpose)
                 T == Inserting(purpose)
      <4>1. IsFiniteSet(S) /\ IsFiniteSet(T) /\ t \notin S /\ r \in T
        BY <3>1, <3>4
      <4> HIDE DEF S, T
      <4>2. Cardinality(S \cup {t}) + Cardinality(T \ {r}) = Cardinality(S) + Cardinality(T)
        <5>1. Cardinality(S) \in Nat /\ Cardinality(T) \in Nat
          BY <4>1, FS_CardinalityType
        <5>2. Cardinality(S \cup {t}) = Cardinality(S) + 1
          BY <4>1, FS_AddElement
        <5>3. Cardinality(T \ {r}) = Cardinality(T) - 1
          BY <4>1, FS_RemoveElement
        <5> QED
          BY <5>1, <5>2, <5>3
      <4> QED
        BY <4>2 DEF S, T
    <3> QED
      BY <3>2, <3>3, <3>5
  <2>2. CASE purpose # authRequest[r].purpose
    <3>1. /\ RecentTokens(purpose)' = RecentTokens(purpose)
          /\ Inserting(purpose)' = Inserting(purpose)
      BY <2>2 DEF RecentTokens, Inserting, AccountRows, Awaits
    <3> QED
      BY <3>1 DEF RecentTokensBounded
  <2> QED
    BY <2>1, <2>2
<1>4. ChangesArePaid'
  <2>1. \A purpose \in Purposes : UsedTokens(purpose)' = UsedTokens(purpose)
    BY DEF UsedTokens, AccountRows
  <2> QED
    BY <2>1, SameChanges
<1> QED
  BY <1>1, <1>2, <1>3, <1>4

\* Time only takes tokens out of the rate window, or out of use.
LEMMA TimeKeeps ==
    ASSUME AccountsInv, NEW t \in RecoveryTokens, windowPasses(t) \/ tokenExpires(t)
    PROVE  AccountsInv'
<1>1. AccountRows /\ SeenWasSet /\ TokensBelong /\ LateLogins /\ RecentTokensBounded /\ ChangesArePaid
  BY DEF AccountsInv
<1>2. UNCHANGED <<password, verified, sessions, authRequest>>
  BY DEF windowPasses, tokenExpires
<1>3. /\ recovery[t] \in [purpose: Purposes \cup {"none"},
                          state: {"unused", "open", "used", "expired"}, recent: BOOLEAN]
      /\ recovery[t].recent => recovery[t].state = "open"
      /\ recovery[t].state # "unused" => recovery[t].purpose \in Purposes /\ password > 0
  BY <1>1 DEF AccountRows, TokensBelong
<1>4. \/ recovery[t].recent /\ recovery' = [recovery EXCEPT ![t].recent = FALSE]
      \/ /\ recovery[t].state = "open" /\ ~recovery[t].recent
         /\ recovery' = [recovery EXCEPT ![t].state = "expired"]
  BY DEF windowPasses, tokenExpires
<1>5. PICK aged : /\ recovery' = [recovery EXCEPT ![t] = aged]
                  /\ aged \in [purpose: Purposes \cup {"none"},
                               state: {"unused", "open", "used", "expired"}, recent: BOOLEAN]
                  /\ recovery[t].state = "open" /\ aged.state \in {"open", "expired"}
                  /\ aged.purpose = recovery[t].purpose /\ ~aged.recent
  <2>1. CASE recovery[t].recent /\ recovery' = [recovery EXCEPT ![t].recent = FALSE]
    <3> DEFINE aged == [recovery[t] EXCEPT !.recent = FALSE]
    <3>1. /\ aged \in [purpose: Purposes \cup {"none"},
                      state: {"unused", "open", "used", "expired"}, recent: BOOLEAN]
          /\ aged.state = "open" /\ recovery[t].state = "open"
          /\ aged.purpose = recovery[t].purpose /\ ~aged.recent
      BY <1>3, <2>1
    <3>2. recovery' = [recovery EXCEPT ![t] = aged]
      BY <2>1
    <3> QED
      BY <3>1, <3>2
  <2>2. CASE /\ recovery[t].state = "open" /\ ~recovery[t].recent
             /\ recovery' = [recovery EXCEPT ![t].state = "expired"]
    <3> DEFINE aged == [recovery[t] EXCEPT !.state = "expired"]
    <3>1. /\ aged \in [purpose: Purposes \cup {"none"},
                      state: {"unused", "open", "used", "expired"}, recent: BOOLEAN]
          /\ aged.state = "expired" /\ recovery[t].state = "open"
          /\ aged.purpose = recovery[t].purpose /\ ~aged.recent
      BY <1>3, <2>2
    <3>2. recovery' = [recovery EXCEPT ![t] = aged]
      BY <2>2
    <3> QED
      BY <3>1, <3>2
  <2> QED
    BY <1>4, <2>1, <2>2
<1>6. AccountRows' /\ SeenWasSet' /\ TokensBelong'
  <2>1. AccountRows'
    BY <1>1, <1>2, <1>5 DEF AccountRows
  <2>2. SeenWasSet'
    BY <1>1, <1>2 DEF SeenWasSet, Awaits
  <2>3. TokensBelong'
    BY <1>1, <1>2, <1>3, <1>5 DEF AccountRows, TokensBelong
  <2> QED
    BY <2>1, <2>2, <2>3
<1>7. LateLogins'
  BY <1>1, <1>2, FewerLateLogins DEF StaleSessions, StaleLogins, Active, Awaits
<1>8. RecentTokensBounded'
  <2>1. \A purpose \in Purposes : /\ RecentTokens(purpose)' \subseteq RecentTokens(purpose)
                                  /\ Inserting(purpose)' \subseteq Inserting(purpose)
    BY <1>1, <1>2, <1>5 DEF RecentTokens, Inserting, AccountRows, Awaits
  <2> QED
    BY <1>1, <2>1, FewerRecentTokens
<1>9. ChangesArePaid'
  <2>1. \A purpose \in Purposes : UsedTokens(purpose)' = UsedTokens(purpose)
    BY <1>1, <1>5 DEF UsedTokens, AccountRows
  <2> QED
    BY <1>1, <1>2, <2>1, SameChanges
<1> QED
  BY <1>6, <1>7, <1>8, <1>9 DEF AccountsInv

\* A claim changes a token's state, and it is recent no more.
LEMMA ClaimKeepsRows ==
    ASSUME AccountRows, NEW t \in RecoveryTokens, NEW purpose \in Purposes, Claim(t, purpose)
    PROVE  /\ recovery' \in [RecoveryTokens ->
                [purpose: Purposes \cup {"none"}, state: {"unused", "open", "used", "expired"},
                 recent: BOOLEAN]]
           /\ \A other \in RecoveryTokens :
                 /\ recovery'[other].purpose = recovery[other].purpose
                 /\ recovery'[other].recent => recovery[other].recent /\ other # t
                 /\ other # t => recovery'[other] = recovery[other]
           /\ recovery[t].state = "open" /\ recovery[t].purpose = purpose
<1> USE DEF AccountRows, Claim, Claimable
<1>1. recovery[t] \in [purpose: Purposes \cup {"none"},
                       state: {"unused", "open", "used", "expired"}, recent: BOOLEAN]
  OBVIOUS
<1>2. /\ recovery'[t].purpose = recovery[t].purpose
      /\ recovery'[t].state = "used" /\ recovery'[t].recent = FALSE
  BY <1>1
<1>3. recovery'[t] \in [purpose: Purposes \cup {"none"},
                        state: {"unused", "open", "used", "expired"}, recent: BOOLEAN]
  BY <1>1
<1>4. /\ recovery' = [other \in RecoveryTokens |-> recovery'[other]]
      /\ \A other \in RecoveryTokens : other # t => recovery'[other] = recovery[other]
  OBVIOUS
<1>5. recovery' \in [RecoveryTokens ->
         [purpose: Purposes \cup {"none"}, state: {"unused", "open", "used", "expired"},
          recent: BOOLEAN]]
  BY <1>3, <1>4
<1>6. recovery[t].state = "open" /\ recovery[t].purpose = purpose
  OBVIOUS
<1> QED
  BY <1>2, <1>4, <1>5, <1>6

\* A claim adds one token to those used for its purpose, and to no others.
LEMMA ClaimUsesOne ==
    ASSUME AccountRows, NEW t \in RecoveryTokens, NEW purpose \in Purposes, Claim(t, purpose)
    PROVE  /\ Cardinality(UsedTokens(purpose)') = Cardinality(UsedTokens(purpose)) + 1
           /\ UsedTokens(purpose)' # {}
           /\ \A other \in Purposes \ {purpose} : UsedTokens(other)' = UsedTokens(other)
           /\ \A any \in Purposes : RecentTokens(any)' \subseteq RecentTokens(any)
<1>1. t \notin UsedTokens(purpose)
  BY DEF Claim, Claimable, UsedTokens
<1>2. UsedTokens(purpose)' = UsedTokens(purpose) \cup {t}
  BY DEF Claim, Claimable, UsedTokens, AccountRows
<1>3. Cardinality(UsedTokens(purpose)') = Cardinality(UsedTokens(purpose)) + 1
  BY <1>1, <1>2, CountedAreFinite, FS_AddElement
<1>4. \A other \in Purposes \ {purpose} : UsedTokens(other)' = UsedTokens(other)
  BY DEF Claim, Claimable, UsedTokens, AccountRows
<1>5. \A any \in Purposes : RecentTokens(any)' \subseteq RecentTokens(any)
  BY DEF Claim, Claimable, RecentTokens, AccountRows
<1> QED
  BY <1>2, <1>3, <1>4, <1>5

\* An address is verified by a token for it.
LEMMA ConfirmKeeps ==
    ASSUME AccountsInv, NEW t \in RecoveryTokens, confirmEmailVerification(t)
    PROVE  AccountsInv'
<1> USE DEF AccountsInv, confirmEmailVerification
<1>1. AccountRows' /\ SeenWasSet' /\ TokensBelong'
  <2>1. AccountRows'
    BY ClaimKeepsRows DEF Purposes, AccountRows
  <2>2. SeenWasSet'
    BY DEF SeenWasSet, Awaits
  <2>3. TokensBelong'
    BY ClaimKeepsRows DEF Purposes, TokensBelong
  <2> QED
    BY <2>1, <2>2, <2>3
<1>2. LateLogins'
  BY FewerLateLogins DEF StaleSessions, StaleLogins, Active, Awaits
<1>3. /\ UsedTokens("email_verify")' # {}
      /\ UsedTokens("password_reset")' = UsedTokens("password_reset")
      /\ \A purpose \in Purposes : RecentTokens(purpose)' \subseteq RecentTokens(purpose)
  BY ClaimUsesOne DEF Purposes
<1>4. RecentTokensBounded'
  BY <1>3, FewerRecentTokens DEF Inserting, Awaits
<1>5. ChangesArePaid'
  <2>1. (password > 0 => password = 1 + Cardinality(UsedTokens("password_reset")))'
    BY <1>3 DEF ChangesArePaid
  <2>2. (verified <=> UsedTokens("email_verify") # {})'
    BY <1>3, Zenon
  <2> QED
    BY <2>1, <2>2 DEF ChangesArePaid
<1> QED
  BY <1>1, <1>2, <1>4, <1>5

\* A reset ends every session, so only logins can be late; its token is the one
\* that the new password cost.
LEMMA ResetKeeps ==
    ASSUME AccountsInv, NEW t \in RecoveryTokens, resetPassword(t)
    PROVE  AccountsInv'
<1> USE DEF AccountsInv, resetPassword
<1>1. AccountRows' /\ SeenWasSet' /\ TokensBelong'
  <2>1. AccountRows'
    BY ClaimKeepsRows DEF Purposes, AccountRows, Ended
  <2>2. SeenWasSet'
    BY DEF AccountRows, SeenWasSet, Awaits, Ended, Active
  <2>3. TokensBelong'
    BY ClaimKeepsRows DEF Purposes, AccountRows, TokensBelong
  <2> QED
    BY <2>1, <2>2, <2>3
<1>2. LateLogins'
  <2>1. StaleSessions' = {}
    BY DEF StaleSessions, Active, Ended, AccountRows
  <2>2. StaleLogins' \subseteq AuthRequests
    BY DEF StaleLogins
  <2>3. IsFiniteSet(StaleSessions') /\ Cardinality(StaleSessions') = 0
    BY <2>1, FS_EmptySet
  <2>4. /\ Cardinality(StaleLogins') \in Nat /\ Cardinality(AuthRequests) \in Nat
        /\ Cardinality(StaleLogins') <= Cardinality(AuthRequests)
    BY <2>2, PartIsSmaller, AccountConstants
  <2> QED
    BY <2>3, <2>4 DEF LateLogins
<1>3. /\ Cardinality(UsedTokens("password_reset")') = Cardinality(UsedTokens("password_reset")) + 1
      /\ UsedTokens("email_verify")' = UsedTokens("email_verify")
      /\ \A purpose \in Purposes : RecentTokens(purpose)' \subseteq RecentTokens(purpose)
  BY ClaimUsesOne DEF Purposes
<1>4. RecentTokensBounded'
  BY <1>3, FewerRecentTokens DEF Inserting, Awaits
<1>5. ChangesArePaid'
  <2>1. password > 0
    BY DEF Claim, Claimable, TokensBelong
  <2>2. Cardinality(UsedTokens("password_reset")) \in Nat
    BY CountedAreFinite, FS_CardinalityType
  <2>3. (password > 0 => password = 1 + Cardinality(UsedTokens("password_reset")))'
    BY <1>3, <2>1, <2>2 DEF ChangesArePaid
  <2>4. (verified <=> UsedTokens("email_verify") # {})'
    BY <1>3, Zenon DEF ChangesArePaid
  <2> QED
    BY <2>3, <2>4 DEF ChangesArePaid
<1> QED
  BY <1>1, <1>2, <1>4, <1>5

-----------------------------------------------------------------------------
(* The accounts' theorems.                                                 *)

\* An unregistered account has nothing that could be late, recent or used.
LEMMA AccountsInitInv == AccountsInit => AccountsInv
<1> SUFFICES ASSUME AccountsInit
             PROVE  AccountsInv
  OBVIOUS
<1> USE DEF AccountsInit, IdleAuth
<1>1. AccountRows /\ SeenWasSet /\ TokensBelong
  <2>1. AccountRows
    BY DEF AccountRows
  <2>2. SeenWasSet
    BY DEF SeenWasSet, Awaits
  <2>3. TokensBelong
    BY DEF TokensBelong
  <2> QED
    BY <2>1, <2>2, <2>3
<1>2. /\ StaleSessions = {} /\ StaleLogins = {}
      /\ \A purpose : RecentTokens(purpose) = {} /\ Inserting(purpose) = {}
      /\ \A purpose : UsedTokens(purpose) = {}
  BY DEF StaleSessions, StaleLogins, Active, RecentTokens, Inserting, UsedTokens, Awaits
<1>3. IsFiniteSet({}) /\ Cardinality({}) = 0
  BY FS_EmptySet
<1>4. Cardinality(AuthRequests) \in Nat /\ MaxRecent \in Nat \ {0}
  BY AccountConstants, FS_CardinalityType
<1>5. LateLogins
  BY <1>2, <1>3, <1>4 DEF LateLogins
<1>6. RecentTokensBounded
  <2>1. \A purpose : Cardinality(RecentTokens(purpose)) = 0 /\ Cardinality(Inserting(purpose)) = 0
    BY <1>2, <1>3
  <2> QED
    BY <1>4, <2>1 DEF RecentTokensBounded
<1>7. ChangesArePaid
  BY <1>2 DEF ChangesArePaid
<1> QED
  BY <1>1, <1>5, <1>6, <1>7 DEF AccountsInv

\* Every step keeps the invariant.
LEMMA AccountsStepInv == AccountsInv /\ [AccountsNext]_accountVars => AccountsInv'
<1> SUFFICES ASSUME AccountsInv, [AccountsNext]_accountVars
             PROVE  AccountsInv'
  OBVIOUS
<1>1. CASE register
  BY <1>1, RegisterKeeps
<1>2. CASE SessionStep
  <2>1. ASSUME NEW r \in AuthRequests, findCredentials(r) PROVE AccountsInv'
    BY <2>1, FindCredentialsKeeps
  <2>2. ASSUME NEW r \in AuthRequests, NEW s \in SessionTokens, createSession(r, s)
        PROVE  AccountsInv'
    BY <2>2, CreateSessionKeeps
  <2>3. ASSUME NEW s \in SessionTokens, endSession(s) PROVE AccountsInv'
    BY <2>3, EndSessionKeeps
  <2> QED
    BY <1>2, <2>1, <2>2, <2>3 DEF SessionStep
<1>3. CASE RecoveryStep
  <2>1. ASSUME NEW r \in AuthRequests, NEW purpose \in Purposes, requestRecovery(r, purpose)
        PROVE  AccountsInv'
    BY <2>1, RequestRecoveryKeeps
  <2>2. ASSUME NEW r \in AuthRequests, countRecent(r) PROVE AccountsInv'
    BY <2>2, CountRecentKeeps
  <2>3. ASSUME NEW r \in AuthRequests, NEW t \in RecoveryTokens, insertToken(r, t)
        PROVE  AccountsInv'
    BY <2>3, InsertTokenKeeps
  <2>4. ASSUME NEW t \in RecoveryTokens, windowPasses(t) \/ tokenExpires(t)
        PROVE  AccountsInv'
    BY <2>4, TimeKeeps
  <2>5. ASSUME NEW t \in RecoveryTokens, confirmEmailVerification(t) PROVE AccountsInv'
    BY <2>5, ConfirmKeeps
  <2>6. ASSUME NEW t \in RecoveryTokens, resetPassword(t) PROVE AccountsInv'
    BY <2>6, ResetKeeps
  <2> QED
    BY <1>3, <2>1, <2>2, <2>3, <2>4, <2>5, <2>6 DEF RecoveryStep
<1>4. ASSUME NEW r \in AuthRequests, abandon(r) PROVE AccountsInv'
  BY <1>4, AbandonKeeps
<1>5. CASE UNCHANGED accountVars
  BY <1>5 DEF accountVars, AccountsInv, AccountRows, SeenWasSet, TokensBelong, LateLogins,
              RecentTokensBounded, ChangesArePaid, StaleSessions, StaleLogins, Active,
              RecentTokens, Inserting, UsedTokens, Awaits
<1> QED
  BY <1>1, <1>2, <1>3, <1>4, <1>5 DEF AccountsNext

\* The inductive invariant of an account.
THEOREM AccountsInvariant == AccountsSpec => []AccountsInv
BY AccountsInitInv, AccountsStepInv, PTL DEF AccountsSpec

\* An account cannot have had more passwords than tokens, and one.
LEMMA AccountsAreTyped == AccountsInv => AccountsTypeOK
<1> SUFFICES ASSUME AccountsInv
             PROVE  AccountsTypeOK
  OBVIOUS
<1>1. UsedTokens("password_reset") \subseteq RecoveryTokens
  BY DEF UsedTokens
<1>2. /\ Cardinality(UsedTokens("password_reset")) \in Nat /\ Cardinality(RecoveryTokens) \in Nat
      /\ Cardinality(UsedTokens("password_reset")) <= Cardinality(RecoveryTokens)
  BY <1>1, PartIsSmaller, AccountConstants
<1>3. password \in 0..Cardinality(RecoveryTokens) + 1
  BY <1>2 DEF AccountsInv, ChangesArePaid, AccountRows
<1>4. ASSUME NEW n \in Nat, n <= password
      PROVE  n \in 0..Cardinality(RecoveryTokens) + 1
  BY <1>2, <1>3, <1>4
<1>5. \A s \in SessionTokens : sessions[s].seen \in 0..Cardinality(RecoveryTokens) + 1
  BY <1>4 DEF AccountsInv, AccountRows, SeenWasSet
<1>6. \A r \in AuthRequests : authRequest[r].seen \in 0..Cardinality(RecoveryTokens) + 1
  BY <1>4 DEF AccountsInv, AccountRows, SeenWasSet
<1> HIDE DEF AccountsInv
<1>7. /\ verified \in BOOLEAN
      /\ recovery \in [RecoveryTokens ->
            [purpose: Purposes \cup {"none"}, state: {"unused", "open", "used", "expired"},
             recent: BOOLEAN]]
  BY DEF AccountsInv, AccountRows
<1>8. sessions \in [SessionTokens ->
          [state: {"unused", "active", "ended"}, seen: 0..Cardinality(RecoveryTokens) + 1]]
  BY <1>5 DEF AccountsInv, AccountRows
<1>9. authRequest \in [AuthRequests ->
          [pc: {"idle", "login", "count", "insert"}, purpose: Purposes \cup {"none"},
           seen: 0..Cardinality(RecoveryTokens) + 1]]
  BY <1>6 DEF AccountsInv, AccountRows
<1> QED
  BY <1>3, <1>7, <1>8, <1>9 DEF AccountsTypeOK

\* What an account promises, from the invariant.
LEMMA AccountsInvHolds == AccountsInv => AccountsHold
<1> SUFFICES ASSUME AccountsInv
             PROVE  AccountsHold
  OBVIOUS
<1>1. OnlyLateLoginsRemain
  BY DEF AccountsInv, LateLogins, StaleSessions, StaleLogins, OnlyLateLoginsRemain
<1>2. RecoveryIsBounded
  BY DEF AccountsInv, RecentTokensBounded, Inserting, RecoveryIsBounded
<1>3. TokensPayForChanges
  BY DEF AccountsInv, ChangesArePaid, UsedTokens, TokensPayForChanges
<1> QED
  BY <1>1, <1>2, <1>3 DEF AccountsHold

\* However its requests interleave and wherever they stop, an account changes
\* only by a token of its own, recent tokens exceed their limit by fewer than the
\* requests, and at most as many sessions outlive a changed password.
THEOREM AccountsAreHeld == AccountsSpec => []AccountsHold
BY AccountsInvariant, AccountsInvHolds, PTL

-----------------------------------------------------------------------------
(* The last part: the tables together.                                     *)

\* Each part's invariant, whichever part moves.
TablesInv == AffiliateInv /\ OAuthInv /\ AccountsInv

\* A part that does not move keeps its invariant.
LEMMA TablesStepInv ==
    ASSUME TablesInv, [TablesNext]_<<vars, oauthVars, accountVars, part>>
    PROVE  TablesInv'
<1>1. [Next]_vars /\ [OAuthNext]_oauthVars /\ [AccountsNext]_accountVars
  BY DEF TablesNext
<1> QED
  BY <1>1, AffiliateStepInv, OAuthStepInv, AccountsStepInv DEF TablesInv

\* The invariant of the tables.
THEOREM TablesInvariant == TablesSpec => []TablesInv
<1>1. TablesInit => TablesInv
  BY AffiliateInitInv, OAuthInitInv, AccountsInitInv DEF TablesInit, TablesInv
<1>2. TablesInv /\ [TablesNext]_<<vars, oauthVars, accountVars, part>> => TablesInv'
  BY TablesStepInv
<1> QED
  BY <1>1, <1>2, PTL DEF TablesSpec

\* Every table of a tenant has the types its columns declare.
THEOREM TablesTypeCorrect == TablesSpec => []TablesTypeOK
<1>1. TablesInv => TablesTypeOK
  BY AccountsAreTyped DEF TablesInv, TablesTypeOK, AffiliateInv, TypeInv, OAuthInv
<1> QED
  BY <1>1, TablesInvariant, PTL
==============================================================================
