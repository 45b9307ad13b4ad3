------------------------- MODULE PublishWorker_proofs -------------------------
(***************************************************************************)
(* What the publication queue guarantees for any number of jobs and        *)
(* callers, whatever they create, claim and report, however late (first    *)
(* part); and what the publish workers guarantee on top of it, for any     *)
(* number of workers and operators, with crashes, aborted ticks, lost      *)
(* answers and reports that throw (second part).                           *)
(***************************************************************************)
EXTENDS PublishWorker, FiniteSetTheorems, TLAPS

-----------------------------------------------------------------------------
(* First part: the queue.                                                  *)


\* A caller only waits to write a step the table allows from what it read.
PendingLegal ==
    \A c \in Callers : pending[c] # None => pending[c].to \in Transitions(pending[c].from)

\* An attempt someone was given has been counted.
ClaimsCounted ==
    \A c \in Callers : \A t \in claimed[c] : t[2] <= rows[t[1]].attempt

\* So has every attempt a job was ever given out under.
GivenCounted ==
    \A j \in Jobs : \A i \in 1..Len(given[j]) : given[j][i] <= rows[j].attempt

\* No attempt is counted before the row exists.
AbsentUncounted == \A j \in Jobs : rows[j].status = "absent" => rows[j].attempt = 0

JobsInv ==
    /\ JobsTypeOK
    /\ PendingLegal
    /\ AbsentUncounted
    /\ ClaimsCounted
    /\ GivenCounted
    /\ OneCallerPerAttempt

\* An empty table with idle callers satisfies the invariant.
THEOREM JobsInitInv == JobsInit => JobsInv
  BY DEF JobsInit, JobsInv, JobsTypeOK, PendingLegal, ClaimsCounted, GivenCounted,
     OneCallerPerAttempt, AbsentUncounted, NoRow, Rows, Wait

\* The table's successors are statuses.
LEMMA TransitionsType == \A s : Transitions(s) \subseteq Statuses
  BY DEF Transitions, Statuses

\* A written row is a row; only entering "processing" counts an attempt.
LEMMA WrittenType ==
    ASSUME NEW row \in Rows, NEW w \in Writes
    PROVE  /\ Written(row, w) \in Rows
           /\ Written(row, w).status = w.to
           /\ Written(row, w).attempt = IF w.to = "processing" THEN row.attempt + 1
                                        ELSE row.attempt
  <1>1. /\ (IF w.to = "processing" THEN row.attempt + 1 ELSE row.attempt) \in Nat
        /\ Coalesce(w.nextRetry, row.nextRetry) \in Wait
        /\ Coalesce(w.scheduledFor, row.scheduledFor) \in Wait
        /\ w.to \in Statuses \cup {"absent"}
        /\ w.failureCode \in Codes \cup {None}
    BY DEF Rows, Writes, Coalesce
  <1>2. QED
    BY <1>1 DEF Written, Rows

\* A claimed row is a row with one attempt more.
LEMMA ClaimedRowType ==
    ASSUME NEW row \in Rows
    PROVE  /\ ClaimedRow(row) \in Rows
           /\ ClaimedRow(row).status = "processing"
           /\ ClaimedRow(row).attempt = row.attempt + 1
           /\ row.attempt \in Nat
  <1>1. row.attempt \in Nat /\ row.attempt + 1 \in Nat
    BY DEF Rows
  <1>2. "processing" \in Statuses \cup {"absent"}
    BY DEF Statuses
  <1>3. ClaimedRow(row) \in Rows
    BY <1>1, <1>2 DEF ClaimedRow, Rows
  <1>4. QED
    BY <1>1, <1>3 DEF ClaimedRow, Rows

-----------------------------------------------------------------------------
(* Fencing.                                                                *)

\* What is appended to a job's history is higher than all that is in it.
LEMMA AppendRises ==
    ASSUME NEW s \in Seq(Nat), NEW a \in Nat, NEW b \in Nat, a < b,
           \A i \in 1..Len(s) : s[i] <= a,
           \A i, k \in 1..Len(s) : i < k => s[i] < s[k]
    PROVE  /\ Append(s, b) \in Seq(Nat)
           /\ \A i \in 1..Len(Append(s, b)) : Append(s, b)[i] <= b
           /\ \A i, k \in 1..Len(Append(s, b)) : i < k => Append(s, b)[i] < Append(s, b)[k]
  <1>1. /\ Append(s, b) \in Seq(Nat) /\ Len(Append(s, b)) = Len(s) + 1 /\ Len(s) \in Nat
        /\ \A i \in 1..Len(s) : Append(s, b)[i] = s[i] /\ s[i] \in Nat
        /\ Append(s, b)[Len(s) + 1] = b
    OBVIOUS
  <1> DEFINE t == Append(s, b)
  <1>2. /\ t \in Seq(Nat) /\ Len(t) = Len(s) + 1
        /\ \A i \in 1..Len(s) : t[i] = s[i] /\ s[i] \in Nat
        /\ t[Len(s) + 1] = b
    BY <1>1
  <1> HIDE DEF t
  <1>3. \A i \in 1..Len(t) : i \in 1..Len(s) \/ i = Len(s) + 1
    BY <1>1, <1>2
  <1>4. \A i \in 1..Len(t) : t[i] <= b
    BY <1>2, <1>3
  <1>5. ASSUME NEW i \in 1..Len(t), NEW k \in 1..Len(t), i < k
        PROVE  t[i] < t[k]
    <2>1. i \in 1..Len(s)
      BY <1>1, <1>2, <1>5
    <2>2. CASE k \in 1..Len(s)
      BY <1>2, <1>5, <2>1, <2>2
    <2>3. CASE k = Len(s) + 1
      BY <1>2, <2>1, <2>3
    <2>4. QED
      BY <1>3, <2>2, <2>3
  <1>6. QED
    BY <1>2, <1>4, <1>5 DEF t

\* A step gives a job out under a newly counted attempt, or does not give it out.
GivesCounted ==
    /\ given' = [k \in Jobs |-> given'[k]]
    /\ \A k \in Jobs :
         \/ given'[k] = given[k]
         \/ /\ rows'[k].attempt > rows[k].attempt
            /\ given'[k] = Append(given[k], rows'[k].attempt)

\* Every history of attempts given out.
GivenRises ==
    \A j \in Jobs : \A i, k \in 1..Len(given[j]) : i < k => given[j][i] < given[j][k]

LEMMA GivenFence ==
    ASSUME JobsInv, rows' \in [Jobs -> Rows], GivesCounted,
           \A k \in Jobs : rows'[k].attempt >= rows[k].attempt
    PROVE  given' \in [Jobs -> Seq(Nat)] /\ GivenCounted' /\ GivenRises'
  <1>1. \A k \in Jobs : /\ rows[k].attempt \in Nat /\ rows'[k].attempt \in Nat
                        /\ given[k] \in Seq(Nat)
    BY DEF JobsInv, JobsTypeOK, Rows
  <1>2. ASSUME NEW j \in Jobs
        PROVE  /\ given'[j] \in Seq(Nat)
               /\ \A i \in 1..Len(given'[j]) : given'[j][i] <= rows'[j].attempt
               /\ \A i, k \in 1..Len(given'[j]) : i < k => given'[j][i] < given'[j][k]
    <2>1. /\ \A i \in 1..Len(given[j]) : given[j][i] <= rows[j].attempt
          /\ \A i, k \in 1..Len(given[j]) : i < k => given[j][i] < given[j][k]
      BY DEF JobsInv, GivenCounted, OneCallerPerAttempt
    <2>2. CASE given'[j] = given[j]
      <3>1. \A i \in 1..Len(given[j]) : given[j][i] \in Nat
        BY <1>1
      <3>2. \A i \in 1..Len(given[j]) : given[j][i] <= rows'[j].attempt
        BY <1>1, <2>1, <3>1
      <3>3. QED
        BY <1>1, <2>1, <2>2, <3>2
    <2>3. CASE /\ rows'[j].attempt > rows[j].attempt
               /\ given'[j] = Append(given[j], rows'[j].attempt)
      <3>1. rows[j].attempt < rows'[j].attempt
        BY <1>1, <2>3
      <3>2. QED
        BY <1>1, <2>1, <2>3, <3>1, AppendRises
    <2>4. QED
      BY <2>2, <2>3 DEF GivesCounted
  <1>3. QED
    BY <1>2 DEF GivesCounted, GivenCounted, GivenRises

\* Claims that are only dropped stay counted and apart while attempts grow.
LEMMA QuietFence ==
    ASSUME JobsInv, rows' \in [Jobs -> Rows],
           \A k \in Jobs : rows'[k].attempt >= rows[k].attempt,
           \A c \in Callers : claimed'[c] \subseteq claimed[c],
           UNCHANGED given
    PROVE  /\ ClaimsCounted' /\ GivenCounted' /\ OneCallerPerAttempt'
           /\ given' \in [Jobs -> Seq(Nat)]
  <1>1. \A k \in Jobs : rows[k].attempt \in Nat /\ rows'[k].attempt \in Nat
    BY DEF JobsInv, JobsTypeOK, Rows
  <1>2. \A c \in Callers : \A t \in claimed'[c] : t \in Jobs \X Nat /\ t \in claimed[c]
    BY DEF JobsInv, JobsTypeOK
  <1>3. ClaimsCounted'
    BY <1>1, <1>2 DEF JobsInv, ClaimsCounted
  <1>4. GivesCounted
    BY DEF JobsInv, JobsTypeOK, GivesCounted
  <1>5. given' \in [Jobs -> Seq(Nat)] /\ GivenCounted' /\ GivenRises'
    BY <1>4, GivenFence
  <1>6. OneCallerPerAttempt'
    BY <1>5 DEF JobsInv, OneCallerPerAttempt, GivenRises
  <1>7. QED
    BY <1>3, <1>5, <1>6

\* Pairs handed to one caller are new when their attempts were not counted yet.
LEMMA FreshFence ==
    ASSUME JobsInv, NEW c \in Callers, NEW fresh \in SUBSET (Jobs \X Nat),
           rows' \in [Jobs -> Rows], GivesCounted,
           \A k \in Jobs : rows'[k].attempt >= rows[k].attempt,
           \A t \in fresh : /\ t[2] > rows[t[1]].attempt
                            /\ t[2] <= rows'[t[1]].attempt,
           claimed' = [claimed EXCEPT ![c] = @ \cup fresh]
    PROVE  /\ ClaimsCounted' /\ GivenCounted' /\ OneCallerPerAttempt'
           /\ claimed' \in [Callers -> SUBSET (Jobs \X Nat)]
           /\ given' \in [Jobs -> Seq(Nat)]
  <1>1. \A k \in Jobs : rows[k].attempt \in Nat /\ rows'[k].attempt \in Nat
    BY DEF JobsInv, JobsTypeOK, Rows
  <1>2. /\ claimed' \in [Callers -> SUBSET (Jobs \X Nat)]
        /\ \A d \in Callers : claimed'[d] = IF d = c THEN claimed[c] \cup fresh ELSE claimed[d]
    BY DEF JobsInv, JobsTypeOK
  <1>3. \A d \in Callers : \A t \in claimed[d] :
           t \in Jobs \X Nat /\ t[2] <= rows[t[1]].attempt /\ t[2] <= rows'[t[1]].attempt
    BY <1>1 DEF JobsInv, JobsTypeOK, ClaimsCounted
  <1>4. ClaimsCounted'
    BY <1>2, <1>3 DEF ClaimsCounted
  <1>5. \A d \in Callers : claimed[d] \cap fresh = {}
    <2> SUFFICES ASSUME NEW d \in Callers, NEW t \in claimed[d], t \in fresh PROVE FALSE
      OBVIOUS
    <2>1. t[1] \in Jobs /\ t[2] \in Nat /\ rows[t[1]].attempt \in Nat
      BY <1>1
    <2>2. t[2] <= rows[t[1]].attempt /\ t[2] > rows[t[1]].attempt
      BY <1>3
    <2>3. QED
      BY <2>1, <2>2
  <1>6. given' \in [Jobs -> Seq(Nat)] /\ GivenCounted' /\ GivenRises'
    BY GivenFence
  <1>7. OneCallerPerAttempt'
    BY <1>2, <1>5, <1>6 DEF JobsInv, OneCallerPerAttempt, GivenRises
  <1>8. QED
    BY <1>2, <1>4, <1>6, <1>7

-----------------------------------------------------------------------------
(* One lemma per operation: the invariant, and the step it takes.          *)

\* What StatusFollowsTable says of one step.
TableStep ==
    \A j \in Jobs :
       /\ rows'[j].status # rows[j].status =>
            \/ rows[j].status = "absent"
            \/ rows'[j].status \in Transitions(rows[j].status)
       /\ rows[j].status \in Terminal => rows'[j].status = rows[j].status

\* create.
LEMMA CreateInv ==
    ASSUME JobsInv, NEW j \in Jobs, NEW status \in Statuses,
           NEW r \in Delays \cup {None}, NEW s \in Delays \cup {None},
           create(j, status, r, s)
    PROVE  JobsInv' /\ TableStep
  <1> DEFINE row == [NoRow EXCEPT !.status = status, !.nextRetry = r, !.scheduledFor = s]
  <1>1. /\ rows[j].status = "absent"
        /\ rows' = [rows EXCEPT ![j] = row]
        /\ UNCHANGED <<pending, claimed, given>>
    BY DEF create
  <1>2. row \in Rows /\ row.attempt = 0 /\ row.status = status
    BY PublicationConstants DEF NoRow, Rows, Wait
  <1> HIDE DEF row
  <1>3. /\ rows' \in [Jobs -> Rows]
        /\ \A k \in Jobs : rows'[k] = IF k = j THEN row ELSE rows[k]
        /\ \A k \in Jobs : rows[k].attempt \in Nat
    BY <1>1, <1>2 DEF JobsInv, JobsTypeOK, Rows
  <1>4. rows[j].attempt = 0
    BY <1>1 DEF JobsInv, AbsentUncounted
  <1>5. ClaimsCounted' /\ GivenCounted' /\ OneCallerPerAttempt'
    <2>1. \A k \in Jobs : rows'[k].attempt >= rows[k].attempt
      BY <1>2, <1>3, <1>4
    <2>2. QED
      BY <1>1, <1>3, <2>1, QuietFence
  <1>6. JobsTypeOK' /\ PendingLegal' /\ AbsentUncounted'
    BY <1>1, <1>2, <1>3 DEF JobsInv, JobsTypeOK, PendingLegal, AbsentUncounted
  <1>7. TableStep
    BY <1>1, <1>3 DEF TableStep, Terminal
  <1>8. QED
    BY <1>5, <1>6, <1>7 DEF JobsInv

\* A step that leaves the rows alone and only drops claims.
LEMMA RowsAloneInv ==
    ASSUME JobsInv, UNCHANGED <<rows, given>>, PendingLegal',
           pending' \in [Callers -> Writes \cup {None}],
           claimed' \in [Callers -> SUBSET (Jobs \X Nat)],
           \A c \in Callers : claimed'[c] \subseteq claimed[c]
    PROVE  JobsInv' /\ TableStep
  <1>1. /\ rows' \in [Jobs -> Rows]
        /\ \A k \in Jobs : rows'[k].attempt >= rows[k].attempt
    BY DEF JobsInv, JobsTypeOK, Rows
  <1>2. ClaimsCounted' /\ GivenCounted' /\ OneCallerPerAttempt'
    BY <1>1, QuietFence
  <1>3. JobsTypeOK' /\ AbsentUncounted'
    BY DEF JobsInv, JobsTypeOK, AbsentUncounted
  <1>4. QED
    BY <1>2, <1>3 DEF JobsInv, TableStep

\* transition, first statement: what it will write is legal for what it read.
LEMMA ReadInv ==
    ASSUME JobsInv, NEW c \in Callers, NEW j \in Jobs, NEW to \in Statuses,
           NEW r \in Wait, NEW s \in Wait,
           NEW code \in Codes \cup {None}, transitionRead(c, j, to, r, s, code)
    PROVE  JobsInv' /\ TableStep
  <1> DEFINE w == [job |-> j, from |-> rows[j].status, to |-> to, nextRetry |-> r,
                   scheduledFor |-> s, failureCode |-> code]
  <1>1. /\ to \in Transitions(rows[j].status)
        /\ pending' = [pending EXCEPT ![c] = w]
        /\ UNCHANGED <<rows, claimed, given>>
    BY DEF transitionRead, Permitted
  <1>2. rows[j].status \in Statuses
    BY <1>1 DEF JobsInv, JobsTypeOK, Rows, Transitions, Statuses
  <1>3. w \in Writes /\ w.to = to /\ w.from = rows[j].status
    BY <1>2 DEF Writes
  <1> HIDE DEF w
  <1>4. /\ pending' \in [Callers -> Writes \cup {None}]
        /\ \A d \in Callers : pending'[d] = IF d = c THEN w ELSE pending[d]
    BY <1>1, <1>3 DEF JobsInv, JobsTypeOK
  <1>5. PendingLegal'
    BY <1>1, <1>3, <1>4 DEF JobsInv, PendingLegal
  <1>6. QED
    BY <1>1, <1>4, <1>5, RowsAloneInv DEF JobsInv, JobsTypeOK

\* transition, second statement, overtaken.
LEMMA OvertakenInv ==
    ASSUME JobsInv, NEW c \in Callers, transitionOvertaken(c)
    PROVE  JobsInv' /\ TableStep
  <1>1. /\ UNCHANGED <<rows, given>>
        /\ pending' = [pending EXCEPT ![c] = None]
        /\ claimed' = [claimed EXCEPT ![c] = Released(c, pending[c].job)]
    BY DEF transitionOvertaken
  <1>2. Released(c, pending[c].job) \subseteq claimed[c]
    BY DEF Released
  <1>3. /\ pending' \in [Callers -> Writes \cup {None}]
        /\ claimed' \in [Callers -> SUBSET (Jobs \X Nat)]
        /\ \A d \in Callers : claimed'[d] \subseteq claimed[d]
    BY <1>1, <1>2 DEF JobsInv, JobsTypeOK
  <1>4. PendingLegal'
    BY <1>1, <1>3 DEF JobsInv, JobsTypeOK, PendingLegal
  <1>5. QED
    BY <1>1, <1>3, <1>4, RowsAloneInv

\* A caller that dies.
LEMMA AbandonInv ==
    ASSUME JobsInv, NEW c \in Callers, abandon(c)
    PROVE  JobsInv' /\ TableStep
  <1>1. /\ UNCHANGED <<rows, given>>
        /\ pending' = [pending EXCEPT ![c] = None]
        /\ claimed' = [claimed EXCEPT ![c] = {}]
    BY DEF abandon
  <1>2. /\ pending' \in [Callers -> Writes \cup {None}]
        /\ claimed' \in [Callers -> SUBSET (Jobs \X Nat)]
        /\ \A d \in Callers : claimed'[d] \subseteq claimed[d]
    BY <1>1 DEF JobsInv, JobsTypeOK
  <1>3. PendingLegal'
    BY <1>1, <1>2 DEF JobsInv, JobsTypeOK, PendingLegal
  <1>4. QED
    BY <1>1, <1>2, <1>3, RowsAloneInv

\* transition, second statement, on the status it read: the row takes a step
\* the table allows, and an attempt it counts is its caller's alone.
LEMMA WriteInv ==
    ASSUME JobsInv, NEW c \in Callers, transitionWrite(c)
    PROVE  JobsInv' /\ TableStep
  <1> DEFINE w == pending[c]
             j == w.job
             row == Written(rows[j], w)
  <1>1. /\ w # None
        /\ rows[j].status = w.from
        /\ rows' = [rows EXCEPT ![j] = row]
        /\ claimed' = [claimed EXCEPT ![c] =
              IF w.to = "processing" THEN @ \cup {<<j, row.attempt>>} ELSE Released(c, j)]
        /\ given' = IF w.to = "processing"
                    THEN [given EXCEPT ![j] = Append(@, row.attempt)] ELSE given
        /\ pending' = [pending EXCEPT ![c] = None]
    BY DEF transitionWrite, StatusStillRead
  <1>2. w \in Writes /\ j \in Jobs /\ rows[j] \in Rows /\ rows[j].attempt \in Nat
    BY <1>1 DEF JobsInv, JobsTypeOK, Writes, Rows
  <1>3. w.to \in Transitions(rows[j].status) /\ w.to \in Statuses
    BY <1>1, <1>2 DEF JobsInv, PendingLegal, Writes
  <1>4. /\ row \in Rows /\ row.status = w.to
        /\ row.attempt = IF w.to = "processing" THEN rows[j].attempt + 1 ELSE rows[j].attempt
    BY <1>2, WrittenType
  <1> HIDE DEF row, j, w
  <1>5. /\ rows' \in [Jobs -> Rows]
        /\ \A k \in Jobs : rows'[k] = IF k = j THEN row ELSE rows[k]
        /\ \A k \in Jobs : rows[k].attempt \in Nat
        /\ \A k \in Jobs : rows'[k].attempt >= rows[k].attempt
    BY <1>1, <1>2, <1>4 DEF JobsInv, JobsTypeOK, Rows
  <1>6. pending' \in [Callers -> Writes \cup {None}]
    BY <1>1 DEF JobsInv, JobsTypeOK
  <1>7. /\ ClaimsCounted' /\ GivenCounted' /\ OneCallerPerAttempt'
        /\ claimed' \in [Callers -> SUBSET (Jobs \X Nat)]
        /\ given' \in [Jobs -> Seq(Nat)]
    <2>1. CASE w.to = "processing"
      <3> DEFINE fresh == {<<j, row.attempt>>}
      <3>1. /\ fresh \in SUBSET (Jobs \X Nat)
            /\ claimed' = [claimed EXCEPT ![c] = @ \cup fresh]
        BY <1>1, <1>2, <1>4, <2>1
      <3>2. \A t \in fresh : t[2] > rows[t[1]].attempt /\ t[2] <= rows'[t[1]].attempt
        BY <1>2, <1>4, <1>5, <2>1
      <3>3. GivesCounted
        <4>1. given' = [given EXCEPT ![j] = Append(@, row.attempt)]
          BY <1>1, <2>1
        <4>2. given \in [Jobs -> Seq(Nat)]
          BY DEF JobsInv, JobsTypeOK
        <4>3. rows'[j].attempt > rows[j].attempt /\ rows'[j].attempt = row.attempt
          BY <1>2, <1>4, <1>5, <2>1
        <4>4. QED
          BY <1>2, <4>1, <4>2, <4>3 DEF GivesCounted
      <3> HIDE DEF fresh
      <3>4. QED
        BY <1>5, <3>1, <3>2, <3>3, FreshFence
    <2>2. CASE w.to # "processing"
      <3>1. Released(c, j) \subseteq claimed[c]
        BY DEF Released
      <3>2. /\ \A d \in Callers : claimed'[d] \subseteq claimed[d]
            /\ claimed' \in [Callers -> SUBSET (Jobs \X Nat)]
            /\ UNCHANGED given
        BY <1>1, <2>2, <3>1 DEF JobsInv, JobsTypeOK
      <3>3. QED
        BY <1>5, <3>2, QuietFence
    <2>3. QED
      BY <2>1, <2>2
  <1>8. JobsTypeOK'
    BY <1>5, <1>6, <1>7 DEF JobsTypeOK
  <1>9. PendingLegal'
    BY <1>1, <1>6 DEF JobsInv, JobsTypeOK, PendingLegal
  <1>10. AbsentUncounted'
    BY <1>3, <1>4, <1>5 DEF JobsInv, AbsentUncounted, Statuses
  <1>11. TableStep
    BY <1>3, <1>4, <1>5 DEF TableStep, Terminal, Transitions
  <1>12. QED
    BY <1>7, <1>8, <1>9, <1>10, <1>11 DEF JobsInv

\* claimDue: each row of the batch enters "processing" with an attempt of its
\* own.
LEMMA ClaimDueInv ==
    ASSUME JobsInv, NEW c \in Callers, NEW batch \in SUBSET Jobs,
           NEW ahead \in Delays \cup {0}, claimDue(c, batch, ahead)
    PROVE  JobsInv' /\ TableStep
  <1> DEFINE fresh == {<<j, rows'[j].attempt>> : j \in batch}
  <1>1. /\ \A j \in batch : DueBy(j, ahead)
        /\ rows' = [j \in Jobs |-> IF j \in batch THEN ClaimedRow(rows[j]) ELSE rows[j]]
        /\ claimed' = [claimed EXCEPT ![c] = @ \cup fresh]
        /\ given' = [j \in Jobs |-> IF j \in batch THEN Append(given[j], rows'[j].attempt)
                                                  ELSE given[j]]
        /\ UNCHANGED pending
    BY DEF claimDue
  <1>2. \A j \in Jobs : rows[j] \in Rows /\ rows[j].attempt \in Nat
    BY DEF JobsInv, JobsTypeOK, Rows
  <1>3. \A j \in Jobs : /\ rows'[j] \in Rows
                        /\ j \in batch => /\ rows'[j].status = "processing"
                                          /\ rows'[j].attempt = rows[j].attempt + 1
                        /\ j \notin batch => rows'[j] = rows[j]
    BY <1>1, <1>2, ClaimedRowType
  <1>4. /\ rows' \in [Jobs -> Rows]
        /\ \A j \in Jobs : rows'[j].attempt >= rows[j].attempt
    BY <1>1, <1>2, <1>3
  <1>5. /\ fresh \in SUBSET (Jobs \X Nat)
        /\ \A t \in fresh : t[2] > rows[t[1]].attempt /\ t[2] <= rows'[t[1]].attempt
    BY <1>2, <1>3
  <1> HIDE DEF fresh
  <1>6. /\ ClaimsCounted' /\ GivenCounted' /\ OneCallerPerAttempt'
        /\ claimed' \in [Callers -> SUBSET (Jobs \X Nat)]
        /\ given' \in [Jobs -> Seq(Nat)]
    <2>1. \A j \in Jobs : j \in batch => rows'[j].attempt > rows[j].attempt
      BY <1>2, <1>3
    <2>2. \A j \in Jobs : given'[j] = IF j \in batch THEN Append(given[j], rows'[j].attempt)
                                     ELSE given[j]
      BY <1>1
    <2>3. GivesCounted
      BY <1>1, <2>1, <2>2 DEF GivesCounted
    <2>4. QED
      BY <1>1, <1>4, <1>5, <2>3, FreshFence
  <1>7. JobsTypeOK' /\ PendingLegal'
    BY <1>1, <1>4, <1>6 DEF JobsInv, JobsTypeOK, PendingLegal
  <1>8. AbsentUncounted'
    BY <1>3 DEF JobsInv, AbsentUncounted
  <1>9. TableStep
    BY <1>1, <1>3 DEF TableStep, Terminal, Transitions, DueBy
  <1>10. QED
    BY <1>6, <1>7, <1>8, <1>9 DEF JobsInv

\* Waiting gets shorter, and NULL stays NULL.
LEMMA SoonerType == \A wait \in Wait : Sooner(wait) \in Wait
  BY PublicationConstants DEF Sooner, Wait

\* clock.
LEMMA ClockInv ==
    ASSUME JobsInv, clock
    PROVE  JobsInv' /\ TableStep
  <1>1. /\ \A k \in Jobs : rows[k] \in Rows /\ rows[k].attempt \in Nat
        /\ \A c \in Callers : pending[c] # None => pending[c] \in Writes
    BY DEF JobsInv, JobsTypeOK, Rows
  <1>2. /\ rows' \in [Jobs -> Rows]
        /\ \A k \in Jobs : /\ rows'[k].status = rows[k].status
                           /\ rows'[k].attempt = rows[k].attempt
    <2>1. \A k \in Jobs : /\ Sooner(rows[k].nextRetry) \in Wait
                          /\ Sooner(rows[k].scheduledFor) \in Wait
      BY <1>1, SoonerType DEF Rows
    <2>2. QED
      BY <1>1, <2>1 DEF clock, Rows
  <1>3. /\ pending' \in [Callers -> Writes \cup {None}]
        /\ \A c \in Callers : pending'[c] # None =>
              /\ pending[c] # None
              /\ pending'[c].to = pending[c].to /\ pending'[c].from = pending[c].from
    <2>1. \A c \in Callers : pending[c] # None =>
             /\ Sooner(pending[c].nextRetry) \in Wait
             /\ Sooner(pending[c].scheduledFor) \in Wait
      BY <1>1, SoonerType DEF Writes
    <2>2. \A c \in Callers : pending[c] # None =>
             /\ pending'[c] \in Writes
             /\ pending'[c].to = pending[c].to /\ pending'[c].from = pending[c].from
      BY <1>1, <2>1 DEF clock, Writes
    <2>3. \A c \in Callers : pending[c] = None => pending'[c] = None
      BY DEF clock
    <2>4. pending' = [c \in Callers |-> pending'[c]]
      BY DEF clock
    <2>5. QED
      BY <2>2, <2>3, <2>4
  <1>4. ClaimsCounted' /\ GivenCounted' /\ OneCallerPerAttempt'
    <2>1. \A k \in Jobs : rows'[k].attempt >= rows[k].attempt
      BY <1>1, <1>2
    <2>2. \A c \in Callers : claimed'[c] \subseteq claimed[c]
      BY DEF clock
    <2>3. UNCHANGED given
      BY DEF clock
    <2>4. QED
      BY <1>2, <2>1, <2>2, <2>3, QuietFence
  <1>5. JobsTypeOK'
    BY <1>2, <1>3 DEF clock, JobsInv, JobsTypeOK
  <1>6. PendingLegal' /\ AbsentUncounted'
    BY <1>2, <1>3 DEF JobsInv, PendingLegal, AbsentUncounted
  <1>7. TableStep
    BY <1>2 DEF TableStep
  <1>8. QED
    BY <1>4, <1>5, <1>6, <1>7 DEF JobsInv

-----------------------------------------------------------------------------

\* Every step keeps the invariant and follows the table.
LEMMA JobsNextInv == JobsInv /\ [JobsNext]_jobVars => JobsInv' /\ TableStep
  <1> SUFFICES ASSUME JobsInv, [JobsNext]_jobVars PROVE JobsInv' /\ TableStep
    OBVIOUS
  <1>1. CASE \E j \in Jobs, status \in Statuses, r, s \in Delays \cup {None} :
               create(j, status, r, s)
    BY <1>1, CreateInv
  <1>2. ASSUME NEW c \in Callers,
               \E j \in Jobs, to \in Statuses, r, s \in Delays \cup {None},
                  code \in Codes \cup {None} : transitionRead(c, j, to, r, s, code)
        PROVE  JobsInv' /\ TableStep
    BY <1>2, ReadInv, PublicationConstants DEF Wait
  <1>3. ASSUME NEW c \in Callers,
               \E batch \in SUBSET Jobs, ahead \in Delays \cup {0} : claimDue(c, batch, ahead)
        PROVE  JobsInv' /\ TableStep
    BY <1>3, ClaimDueInv
  <1>4. ASSUME NEW c \in Callers,
               transitionWrite(c) \/ transitionOvertaken(c) \/ abandon(c)
        PROVE  JobsInv' /\ TableStep
    BY <1>4, WriteInv, OvertakenInv, AbandonInv
  <1>5. CASE clock
    BY <1>5, ClockInv
  <1>6. CASE UNCHANGED jobVars
    BY <1>6 DEF jobVars, JobsInv, JobsTypeOK, PendingLegal, AbsentUncounted,
       ClaimsCounted, GivenCounted, OneCallerPerAttempt, TableStep
  <1>7. QED
    BY <1>1, <1>2, <1>3, <1>4, <1>5, <1>6 DEF JobsNext

\* The inductive invariant holds in every reachable state.
THEOREM JobsInvariant == JobsSpec => []JobsInv
  BY JobsInitInv, JobsNextInv, PTL DEF JobsSpec

\* The attempt number fences: over its whole history a job is given out under
\* ever higher attempts, to whomever, and no two callers hold one at once.
THEOREM AttemptFences == JobsSpec => []OneCallerPerAttempt
  <1>1. JobsInv => OneCallerPerAttempt
    BY DEF JobsInv
  <1>2. QED
    BY <1>1, JobsInvariant, PTL

\* Every variable of the queue keeps its type.
THEOREM JobsTypeCorrect == JobsSpec => []JobsTypeOK
  <1>1. JobsInv => JobsTypeOK
    BY DEF JobsInv
  <1>2. QED
    BY <1>1, JobsInvariant, PTL

\* Although a transition decides on a row other callers may change before it
\* writes, statuses only move along the table and terminal rows stay.
THEOREM StatusesFollowTable == JobsSpec => StatusFollowsTable
  <1>1. JobsInv /\ [JobsNext]_jobVars => [TableStep]_jobVars
    BY JobsNextInv
  <1>2. QED
    BY <1>1, JobsInvariant, PTL DEF JobsSpec, StatusFollowsTable, TableStep

-----------------------------------------------------------------------------
(* Second part: the inductive invariant of the workers.                    *)

\* A worker only processes what a claim gave it.
TasksAreClaimed ==
    \A w \in Workers : task[w] # None => <<task[w].job, task[w].attempt>> \in claimed[w]

\* A worker between the statements of a transition reports on its task.
ReportsPending ==
    \A w \in Workers : pending[w] # None =>
       /\ Reporting(w)
       /\ pending[w].job = task[w].job
       /\ pending[w].to = Target(w)

\* What an operator is about to write has been noted as its doing.
OperatorsNoted == \A o \in Operators : pending[o] # None => pending[o].job \in byHand

\* The workers alone keep the budget: they count attempts by claiming.
WorkersKeepBudget == \A j \in Jobs : j \notin byHand => rows[j].attempt <= MaxAttempts

\* Worker w is done with posting attempt a of job j.
DonePosting(w, j, a) == Reporting(w) /\ task[w].job = j /\ task[w].attempt = a

\* The attempts of a job under which some worker may still post.
Unposted(j) ==
    {a \in Nat : \E w \in Workers : <<j, a>> \in claimed[w] /\ ~DonePosting(w, j, a)}

\* Posts made and posts still to come are covered by attempts counted.
PostsCovered == \A j \in Jobs : posts[j] + Cardinality(Unposted(j)) <= rows[j].attempt

WorkerTypes ==
    /\ task \in [Workers -> Tasks \cup {None}]
    /\ connected \in BOOLEAN
    /\ posts \in [Jobs -> Nat]
    /\ unanswered \subseteq Jobs
    /\ byHand \subseteq Jobs
    /\ stranded \subseteq Jobs \X Nat

WorkerInv ==
    /\ JobsInv
    /\ WorkerTypes
    /\ TasksAreClaimed
    /\ ReportsPending
    /\ OperatorsNoted
    /\ WorkersKeepBudget
    /\ PostsCovered
    /\ ProcessingHasHolder

\* None is no task, and a task's parts have their types.
LEMMA TaskParts ==
    ASSUME WorkerInv, NEW w \in Workers, task[w] # None
    PROVE  /\ task[w] \in Tasks /\ task[w].job \in Jobs /\ task[w].attempt \in Nat
           /\ task[w].code \in Codes \cup {None} /\ task[w].nextRetry \in Wait
  BY DEF WorkerInv, WorkerTypes, Tasks

\* Only so many attempts can be unposted as were counted.
LEMMA UnpostedFinite ==
    ASSUME WorkerInv, NEW j \in Jobs
    PROVE  IsFiniteSet(Unposted(j)) /\ Cardinality(Unposted(j)) \in Nat
  <1>1. rows[j].attempt \in Nat
    BY DEF WorkerInv, JobsInv, JobsTypeOK, Rows
  <1>2. Unposted(j) \subseteq 0..rows[j].attempt
    <2> SUFFICES ASSUME NEW a \in Unposted(j) PROVE a \in 0..rows[j].attempt
      OBVIOUS
    <2>1. PICK w \in Workers : a \in Nat /\ <<j, a>> \in claimed[w]
      BY DEF Unposted
    <2>2. a <= rows[j].attempt
      BY <2>1, WorkerConstants DEF WorkerInv, JobsInv, ClaimsCounted
    <2>3. QED
      BY <1>1, <2>1, <2>2
  <1>3. IsFiniteSet(0..rows[j].attempt)
    BY <1>1, FS_Interval
  <1>4. QED
    BY <1>2, <1>3, FS_Subset, FS_CardinalityType

\* While nothing is posted and no claim is added, what is covered stays covered.
LEMMA CoverStays ==
    ASSUME WorkerInv, UNCHANGED posts,
           \A k \in Jobs : rows'[k].attempt \in Nat /\ rows'[k].attempt >= rows[k].attempt,
           \A w \in Workers : claimed'[w] \subseteq claimed[w],
           \A w \in Workers, j \in Jobs, a \in Nat :
              <<j, a>> \in claimed'[w] /\ DonePosting(w, j, a) => DonePosting(w, j, a)'
    PROVE  PostsCovered'
  <1> SUFFICES ASSUME NEW j \in Jobs
               PROVE  posts'[j] + Cardinality(Unposted(j)') <= rows'[j].attempt
    BY DEF PostsCovered
  <1>1. Unposted(j)' \subseteq Unposted(j)
    BY DEF Unposted
  <1>2. /\ IsFiniteSet(Unposted(j)) /\ Cardinality(Unposted(j)) \in Nat
    BY UnpostedFinite
  <1>3. Cardinality(Unposted(j)') \in Nat /\ Cardinality(Unposted(j)') <= Cardinality(Unposted(j))
    BY <1>1, <1>2, FS_Subset, FS_CardinalityType
  <1>4. posts[j] \in Nat /\ rows[j].attempt \in Nat
    BY DEF WorkerInv, WorkerTypes, JobsInv, JobsTypeOK, Rows
  <1>5. posts[j] + Cardinality(Unposted(j)) <= rows[j].attempt
    BY DEF WorkerInv, PostsCovered
  <1>6. QED
    BY <1>2, <1>3, <1>4, <1>5

-----------------------------------------------------------------------------
(* processSingleJob up to the post: only the task moves.                   *)

\* The task of one worker takes a step, before it reports.
LEMMA ProgressInv ==
    ASSUME WorkerInv, NEW w \in Workers, ~Reporting(w), NEW new \in Tasks,
           <<new.job, new.attempt>> \in claimed[w], task' = [task EXCEPT ![w] = new],
           UNCHANGED <<jobVars, connected, posts, unanswered, byHand, stranded>>
    PROVE  WorkerInv' /\ TableStep
  <1>1. JobsInv' /\ TableStep
    BY DEF jobVars, WorkerInv, JobsInv, JobsTypeOK, PendingLegal, AbsentUncounted,
       ClaimsCounted, GivenCounted, OneCallerPerAttempt, TableStep
  <1>2. WorkerTypes'
    BY DEF WorkerInv, WorkerTypes
  <1>3. /\ task'[w] = new
        /\ \A v \in Workers : v # w => task'[v] = task[v]
    BY DEF WorkerInv, WorkerTypes
  <1>4. pending[w] = None
    BY DEF WorkerInv, ReportsPending
  <1>5. TasksAreClaimed'
    BY <1>3 DEF WorkerInv, TasksAreClaimed, jobVars
  <1>6. ReportsPending'
    BY <1>3, <1>4 DEF WorkerInv, ReportsPending, Reporting, Target, jobVars
  <1>7. OperatorsNoted' /\ WorkersKeepBudget' /\ ProcessingHasHolder'
    BY DEF WorkerInv, OperatorsNoted, WorkersKeepBudget, ProcessingHasHolder, jobVars
  <1>8. PostsCovered'
    <2>1. \A k \in Jobs : rows'[k].attempt \in Nat /\ rows'[k].attempt >= rows[k].attempt
      BY DEF WorkerInv, JobsInv, JobsTypeOK, Rows, jobVars
    <2>2. \A v \in Workers, j \in Jobs, a \in Nat : DonePosting(v, j, a) => DonePosting(v, j, a)'
      BY <1>3 DEF DonePosting, Reporting
    <2>3. QED
      BY <2>1, <2>2, CoverStays DEF jobVars
  <1>9. QED
    BY <1>1, <1>2, <1>5, <1>6, <1>7, <1>8 DEF WorkerInv

-----------------------------------------------------------------------------
(* Two frames: steps of the others, and steps of a worker that post        *)
(* nothing and claim nothing.                                              *)

\* A step of the API, of the accounts or of time: the workers' tasks and claims
\* stay, and a row that moves was moved by hand or is not processing.
LEMMA OthersInv ==
    ASSUME WorkerInv, JobsInv', UNCHANGED <<task, posts, unanswered, stranded>>,
           connected' \in BOOLEAN, byHand \subseteq byHand', byHand' \subseteq Jobs,
           OperatorsNoted',
           \A k \in Jobs : rows'[k].attempt >= rows[k].attempt,
           \A v \in Workers : claimed'[v] = claimed[v],
           \A v \in Workers : pending'[v] # None =>
              /\ pending[v] # None
              /\ pending'[v].job = pending[v].job /\ pending'[v].to = pending[v].to,
           \A c \in Callers : \A t \in claimed[c] \ claimed'[c] : t[1] \in byHand',
           \A k \in Jobs \ byHand' :
              \/ rows'[k].status = rows[k].status /\ rows'[k].attempt = rows[k].attempt
              \/ rows'[k].status # "processing" /\ rows'[k].attempt <= MaxAttempts
    PROVE  WorkerInv'
  <1>1. WorkerTypes'
    BY DEF WorkerInv, WorkerTypes
  <1>2. TasksAreClaimed' /\ ReportsPending'
    BY DEF WorkerInv, TasksAreClaimed, ReportsPending, Reporting, Target
  <1>3. WorkersKeepBudget'
    BY DEF WorkerInv, WorkersKeepBudget
  <1>4. PostsCovered'
    <2>1. \A k \in Jobs : rows'[k].attempt \in Nat
      BY DEF JobsInv, JobsTypeOK, Rows
    <2>2. \A v \in Workers, j \in Jobs, a \in Nat : DonePosting(v, j, a) => DonePosting(v, j, a)'
      BY DEF DonePosting, Reporting
    <2>3. QED
      BY <2>1, <2>2, CoverStays
  <1>5. ProcessingHasHolder'
    <2> SUFFICES ASSUME NEW j \in Jobs, rows'[j].status = "processing", j \notin byHand',
                        <<j, rows'[j].attempt>> \notin stranded'
                 PROVE  \E c \in Callers : <<j, rows'[j].attempt>> \in claimed'[c]
      BY DEF ProcessingHasHolder
    <2>1. rows[j].status = "processing" /\ rows'[j].attempt = rows[j].attempt
      OBVIOUS
    <2>2. PICK c \in Callers : <<j, rows[j].attempt>> \in claimed[c]
      BY <2>1 DEF WorkerInv, ProcessingHasHolder
    <2>3. QED
      BY <2>1, <2>2
  <1>6. QED
    BY <1>1, <1>2, <1>3, <1>4, <1>5 DEF WorkerInv

\* A step of one worker: attempts stay, no row enters "processing", and a claim
\* is dropped only of a row that left it or as stranded.
LEMMA WorkerFrame ==
    ASSUME WorkerInv, JobsInv', NEW w \in Workers,
           task' \in [Workers -> Tasks \cup {None}],
           \A v \in Workers \ {w} : task'[v] = task[v],
           \A c \in Callers \ {w} : pending'[c] = pending[c] /\ claimed'[c] = claimed[c],
           claimed'[w] \subseteq claimed[w],
           task'[w] # None => <<task'[w].job, task'[w].attempt>> \in claimed'[w],
           pending'[w] # None => /\ Reporting(w)' /\ pending'[w].job = task'[w].job
                                 /\ pending'[w].to = Target(w)',
           \A t \in claimed'[w] : DonePosting(w, t[1], t[2]) => DonePosting(w, t[1], t[2])',
           UNCHANGED <<connected, posts, unanswered, byHand>>,
           stranded \subseteq stranded', stranded' \subseteq Jobs \X Nat,
           \A t \in claimed[w] \ claimed'[w] :
              t \in stranded' \/ rows'[t[1]].status # "processing",
           \A k \in Jobs : /\ rows'[k].attempt = rows[k].attempt
                           /\ rows'[k].status = "processing" => rows[k].status = "processing"
    PROVE  WorkerInv'
  <1>1. WorkerTypes'
    BY DEF WorkerInv, WorkerTypes
  <1>2. Workers \subseteq Callers
    BY WorkerConstants
  <1>3. TasksAreClaimed'
    BY <1>2 DEF WorkerInv, TasksAreClaimed
  <1>4. ReportsPending'
    BY <1>2 DEF WorkerInv, ReportsPending, Reporting, Target
  <1>5. OperatorsNoted' /\ WorkersKeepBudget'
    BY DEF WorkerInv, OperatorsNoted, Operators, WorkersKeepBudget
  <1>6. PostsCovered'
    <2>1. \A k \in Jobs : rows'[k].attempt \in Nat /\ rows'[k].attempt >= rows[k].attempt
      BY DEF JobsInv, JobsTypeOK, Rows
    <2>2. \A v \in Workers : claimed'[v] \subseteq claimed[v]
      BY <1>2
    <2>3. ASSUME NEW v \in Workers, NEW j \in Jobs, NEW a \in Nat,
                 <<j, a>> \in claimed'[v], DonePosting(v, j, a)
          PROVE  DonePosting(v, j, a)'
      <3>1. CASE v = w
        BY <2>3, <3>1
      <3>2. CASE v # w
        BY <2>3, <3>2 DEF DonePosting, Reporting
      <3>3. QED
        BY <3>1, <3>2
    <2>4. QED
      BY <2>1, <2>2, <2>3, CoverStays
  <1>7. ProcessingHasHolder'
    <2> SUFFICES ASSUME NEW j \in Jobs, rows'[j].status = "processing", j \notin byHand',
                        <<j, rows'[j].attempt>> \notin stranded'
                 PROVE  \E c \in Callers : <<j, rows'[j].attempt>> \in claimed'[c]
      BY DEF ProcessingHasHolder
    <2>1. PICK c \in Callers : <<j, rows[j].attempt>> \in claimed[c]
      BY DEF WorkerInv, ProcessingHasHolder
    <2>2. CASE c # w
      BY <2>1, <2>2
    <2>3. CASE c = w
      BY <2>1, <2>3
    <2>4. QED
      BY <2>2, <2>3
  <1>8. QED
    BY <1>1, <1>3, <1>4, <1>5, <1>6, <1>7 DEF WorkerInv

-----------------------------------------------------------------------------
(* The API and time.                                                       *)

\* Creating a job, on schedule or by hand.
LEMMA CreatesInv ==
    ASSUME WorkerInv, NEW j \in Jobs,
           \/ \E s \in Delays \cup {None} : schedule(j, s)
           \/ \E status \in Statuses : createByHand(j, status)
    PROVE  WorkerInv' /\ TableStep
  <1>1. PICK status \in Statuses, s \in Delays \cup {None} :
           /\ create(j, status, None, s)
           /\ UNCHANGED <<task, connected, posts, unanswered, stranded>>
           /\ \/ status = "scheduled" /\ byHand' = byHand
              \/ byHand' = byHand \cup {j}
    BY DEF schedule, createByHand, workerVars, Statuses
  <1>2. JobsInv' /\ TableStep
    BY <1>1, CreateInv DEF WorkerInv
  <1>3. /\ rows \in [Jobs -> Rows] /\ rows[j].attempt = 0
        /\ \A k \in Jobs : rows[k].attempt \in Nat
    BY <1>1 DEF create, WorkerInv, JobsInv, JobsTypeOK, AbsentUncounted, Rows
  <1>4. /\ rows'[j].attempt = 0 /\ rows'[j].status = status
        /\ \A k \in Jobs : k # j => rows'[k] = rows[k]
        /\ UNCHANGED <<pending, claimed>>
    BY <1>1, <1>3 DEF create, NoRow
  <1>5. \A k \in Jobs : rows'[k].attempt >= rows[k].attempt
    BY <1>3, <1>4
  <1>6. OperatorsNoted'
    BY <1>1, <1>4 DEF WorkerInv, OperatorsNoted
  <1>7. /\ connected' \in BOOLEAN
        /\ byHand \subseteq byHand' /\ byHand' \subseteq Jobs
    BY <1>1 DEF WorkerInv, WorkerTypes
  <1>8. \A k \in Jobs \ byHand' :
           \/ rows'[k].status = rows[k].status /\ rows'[k].attempt = rows[k].attempt
           \/ rows'[k].status # "processing" /\ rows'[k].attempt <= MaxAttempts
    BY <1>1, <1>3, <1>4, PublicationConstants
  <1>9. WorkerInv'
    BY <1>1, <1>2, <1>4, <1>5, <1>6, <1>7, <1>8, OthersInv
  <1>10. QED
    BY <1>2, <1>9

\* Operators claim, read and write; what they touch is noted as theirs.
LEMMA OperatorInv ==
    ASSUME WorkerInv, NEW o \in Operators,
           \/ \E batch \in SUBSET Jobs, ahead \in Delays \cup {0} :
                 operatorClaims(o, batch, ahead)
           \/ \E j \in Jobs, to \in Statuses, r \in Delays \cup {None} :
                 operatorReads(o, j, to, r)
           \/ operatorWrites(o)
    PROVE  WorkerInv' /\ TableStep
  <1>1. o \in Callers /\ o \notin Workers
    BY DEF Operators
  <1>2. /\ rows \in [Jobs -> Rows] /\ pending \in [Callers -> Writes \cup {None}]
        /\ claimed \in [Callers -> SUBSET (Jobs \X Nat)]
        /\ byHand \subseteq Jobs /\ connected \in BOOLEAN
        /\ \A k \in Jobs : rows[k].attempt \in Nat /\ rows[k] \in Rows
    BY DEF WorkerInv, JobsInv, JobsTypeOK, WorkerTypes, Rows
  <1>3. ASSUME NEW batch \in SUBSET Jobs, NEW ahead \in Delays \cup {0},
               operatorClaims(o, batch, ahead)
        PROVE  WorkerInv' /\ TableStep
    <2>1. claimDue(o, batch, ahead) /\ byHand' = byHand \cup batch
          /\ UNCHANGED <<task, connected, posts, unanswered, stranded>>
      BY <1>3 DEF operatorClaims
    <2>2. JobsInv' /\ TableStep
      BY <1>1, <2>1, ClaimDueInv DEF WorkerInv
    <2>3. /\ \A c \in Callers : c # o => claimed'[c] = claimed[c]
          /\ claimed[o] \subseteq claimed'[o]
          /\ UNCHANGED pending
          /\ \A k \in Jobs : k \notin batch => rows'[k] = rows[k]
      BY <1>1, <1>2, <2>1 DEF claimDue
    <2>4. \A k \in Jobs : rows'[k].attempt >= rows[k].attempt
      <3>1. \A k \in batch : rows'[k] = ClaimedRow(rows[k])
        BY <2>1 DEF claimDue
      <3>2. QED
        BY <1>2, <2>3, <3>1, ClaimedRowType
    <2>5. OperatorsNoted'
      BY <2>1, <2>3 DEF WorkerInv, OperatorsNoted
    <2>6. \A v \in Workers : claimed'[v] = claimed[v]
      BY <1>1, <2>3, WorkerConstants
    <2>7. WorkerInv'
      BY <1>1, <1>2, <2>1, <2>2, <2>3, <2>4, <2>5, <2>6, OthersInv
    <2>8. QED
      BY <2>2, <2>7
  <1>4. ASSUME NEW j \in Jobs, NEW to \in Statuses, NEW r \in Delays \cup {None},
               operatorReads(o, j, to, r)
        PROVE  WorkerInv' /\ TableStep
    <2>1. transitionRead(o, j, to, r, None, None) /\ byHand' = byHand \cup {j}
          /\ UNCHANGED <<task, connected, posts, unanswered, stranded>>
      BY <1>4 DEF operatorReads
    <2>2. r \in Wait /\ None \in Wait
      BY PublicationConstants DEF Wait
    <2>3. JobsInv' /\ TableStep
      BY <1>1, <2>1, <2>2, ReadInv DEF WorkerInv
    <2>4. /\ \A c \in Callers : c # o => pending'[c] = pending[c]
          /\ pending'[o].job = j
          /\ UNCHANGED <<rows, claimed>>
      BY <1>1, <1>2, <2>1 DEF transitionRead
    <2>5. OperatorsNoted'
      BY <2>1, <2>4 DEF WorkerInv, OperatorsNoted, Operators
    <2>6. \A v \in Workers : pending'[v] = pending[v]
      BY <1>1, <2>4, WorkerConstants
    <2>7. \A k \in Jobs : rows'[k].attempt >= rows[k].attempt
      BY <1>2, <2>4
    <2>8. WorkerInv'
      BY <1>2, <2>1, <2>3, <2>4, <2>5, <2>6, <2>7, OthersInv
    <2>9. QED
      BY <2>3, <2>8
  <1>5. ASSUME operatorWrites(o)
        PROVE  WorkerInv' /\ TableStep
    <2> DEFINE j == pending[o].job
    <2>1. /\ transitionWrite(o) \/ transitionOvertaken(o)
          /\ UNCHANGED <<task, connected, posts, unanswered, byHand, stranded>>
      BY <1>5 DEF operatorWrites, workerVars
    <2>2. JobsInv' /\ TableStep
      BY <1>1, <2>1, WriteInv, OvertakenInv DEF WorkerInv
    <2>3. pending[o] \in Writes /\ j \in Jobs /\ j \in byHand
      BY <1>1, <1>2, <2>1 DEF transitionWrite, transitionOvertaken, WorkerInv,
         OperatorsNoted, Writes
    <2>4. /\ \A k \in Jobs : k # j => rows'[k] = rows[k]
          /\ \A k \in Jobs : rows'[k].attempt >= rows[k].attempt
      <3>1. CASE transitionWrite(o)
        <4>1. rows' = [rows EXCEPT ![j] = Written(rows[j], pending[o])]
          BY <3>1 DEF transitionWrite
        <4>2. QED
          BY <1>2, <2>3, <4>1, WrittenType
      <3>2. CASE transitionOvertaken(o)
        BY <1>2, <3>2 DEF transitionOvertaken
      <3>3. QED
        BY <2>1, <3>1, <3>2
    <2>5. /\ \A c \in Callers : c # o => pending'[c] = pending[c] /\ claimed'[c] = claimed[c]
          /\ pending'[o] = None
          /\ \A t \in claimed[o] \ claimed'[o] : t[1] = j
      BY <1>1, <1>2, <2>1 DEF transitionWrite, transitionOvertaken, Released
    <2> HIDE DEF j
    <2>6. OperatorsNoted'
      BY <2>1, <2>5 DEF WorkerInv, OperatorsNoted, Operators
    <2>7. \A v \in Workers : pending'[v] = pending[v] /\ claimed'[v] = claimed[v]
      BY <1>1, <2>5, WorkerConstants
    <2>8. \A c \in Callers : \A t \in claimed[c] \ claimed'[c] : t[1] \in byHand'
      BY <2>1, <2>3, <2>5
    <2>9. \A k \in Jobs \ byHand' : rows'[k] = rows[k]
      BY <2>1, <2>3, <2>4
    <2>10. WorkerInv'
      BY <1>2, <2>1, <2>2, <2>4, <2>6, <2>7, <2>8, <2>9, OthersInv
    <2>11. QED
      BY <2>2, <2>10
  <1>6. QED
    BY <1>3, <1>4, <1>5

\* An account is connected or disconnected, or time passes.
LEMMA OutsideInv ==
    ASSUME WorkerInv, accountChanges \/ time
    PROVE  WorkerInv' /\ TableStep
  <1>1. /\ rows \in [Jobs -> Rows] /\ byHand \subseteq Jobs /\ connected \in BOOLEAN
        /\ \A k \in Jobs : rows[k].attempt \in Nat /\ rows[k] \in Rows
        /\ pending \in [Callers -> Writes \cup {None}]
    BY DEF WorkerInv, JobsInv, JobsTypeOK, WorkerTypes, Rows
  <1>2. CASE accountChanges
    <2>1. JobsInv' /\ TableStep
      BY <1>2, RowsAloneInv DEF accountChanges, jobVars, WorkerInv, JobsInv, JobsTypeOK,
         PendingLegal
    <2>2. OperatorsNoted'
      BY <1>2 DEF accountChanges, jobVars, WorkerInv, OperatorsNoted
    <2>3. \A k \in Jobs : rows'[k].attempt >= rows[k].attempt
      BY <1>1, <1>2 DEF accountChanges, jobVars
    <2>4. WorkerInv'
      BY <1>1, <1>2, <2>1, <2>2, <2>3, OthersInv DEF accountChanges, jobVars
    <2>5. QED
      BY <2>1, <2>4
  <1>3. CASE time
    <2>1. clock /\ UNCHANGED <<task, connected, posts, unanswered, byHand, stranded>>
      BY <1>3 DEF time, workerVars
    <2>2. JobsInv' /\ TableStep
      BY <2>1, ClockInv DEF WorkerInv
    <2>3. \A k \in Jobs : rows'[k].status = rows[k].status /\ rows'[k].attempt = rows[k].attempt
      BY <1>1, <2>1 DEF clock, Rows
    <2>4. \A c \in Callers : pending'[c] # None =>
             /\ pending[c] # None
             /\ pending'[c].job = pending[c].job /\ pending'[c].to = pending[c].to
      BY <1>1, <2>1 DEF clock, Writes
    <2>5. OperatorsNoted'
      BY <2>1, <2>4 DEF WorkerInv, OperatorsNoted, Operators
    <2>6. \A v \in Workers : pending'[v] # None =>
             /\ pending[v] # None
             /\ pending'[v].job = pending[v].job /\ pending'[v].to = pending[v].to
      BY <2>4, WorkerConstants
    <2>7. /\ claimed' = claimed
          /\ \A k \in Jobs : rows'[k].attempt >= rows[k].attempt
      <3>1. claimed' = claimed
        BY <2>1 DEF clock
      <3>2. QED
        BY <1>1, <2>3, <3>1
    <2>8. WorkerInv'
      BY <1>1, <2>1, <2>2, <2>3, <2>5, <2>6, <2>7, OthersInv
    <2>9. QED
      BY <2>2, <2>8
  <1>4. QED
    BY <1>2, <1>3

-----------------------------------------------------------------------------
(* The tick.                                                               *)

\* A claim counts the attempts under which its batch may be posted.
LEMMA TickInv ==
    ASSUME WorkerInv, NEW w \in Workers, NEW batch \in SUBSET Jobs, runTick(w, batch)
    PROVE  WorkerInv' /\ TableStep
  <1>1. /\ task[w] = None /\ claimed[w] = {} /\ claimDue(w, batch, 0)
        /\ UNCHANGED <<task, connected, posts, unanswered, byHand, stranded>>
        /\ w \in Callers
    BY WorkerConstants DEF runTick, workerVars
  <1>2. JobsInv' /\ TableStep
    BY <1>1, ClaimDueInv DEF WorkerInv
  <1>3. /\ rows \in [Jobs -> Rows] /\ claimed \in [Callers -> SUBSET (Jobs \X Nat)]
        /\ \A k \in Jobs : rows[k].attempt \in Nat /\ rows[k] \in Rows
    BY DEF WorkerInv, JobsInv, JobsTypeOK, Rows
  <1>4. /\ \A k \in batch : /\ rows'[k].attempt = rows[k].attempt + 1
                            /\ rows[k].attempt < MaxAttempts
        /\ \A k \in Jobs : k \notin batch => rows'[k] = rows[k]
        /\ UNCHANGED pending
    BY <1>1, <1>3, ClaimedRowType DEF claimDue, DueBy
  <1>5. /\ \A c \in Callers : c # w => claimed'[c] = claimed[c]
        /\ claimed'[w] = {<<k, rows'[k].attempt>> : k \in batch}
    BY <1>1, <1>3 DEF claimDue
  <1>6. WorkerTypes' /\ OperatorsNoted' /\ ReportsPending'
    BY <1>1, <1>4 DEF WorkerInv, WorkerTypes, OperatorsNoted, ReportsPending, Reporting, Target
  <1>7. TasksAreClaimed'
    BY <1>1, <1>5, WorkerConstants DEF WorkerInv, TasksAreClaimed
  <1>8. WorkersKeepBudget'
    BY <1>1, <1>3, <1>4, PublicationConstants DEF WorkerInv, WorkersKeepBudget
  <1>9. PostsCovered'
    <2> SUFFICES ASSUME NEW j \in Jobs
                 PROVE  posts'[j] + Cardinality(Unposted(j)') <= rows'[j].attempt
      BY DEF PostsCovered
    <2>1. /\ posts[j] \in Nat /\ posts' = posts
          /\ posts[j] + Cardinality(Unposted(j)) <= rows[j].attempt
          /\ IsFiniteSet(Unposted(j)) /\ Cardinality(Unposted(j)) \in Nat
      BY <1>1, UnpostedFinite DEF WorkerInv, WorkerTypes, PostsCovered
    <2>2. ASSUME NEW a \in Unposted(j)'
          PROVE  a \in Unposted(j) \/ (j \in batch /\ a = rows'[j].attempt)
      <3>1. PICK v \in Workers : a \in Nat /\ <<j, a>> \in claimed'[v] /\ ~DonePosting(v, j, a)'
        BY <2>2 DEF Unposted
      <3>2. CASE v = w
        BY <1>5, <3>1, <3>2
      <3>3. CASE v # w
        <4>1. <<j, a>> \in claimed[v] /\ ~DonePosting(v, j, a)
          BY <1>1, <1>5, <3>1, <3>3, WorkerConstants DEF DonePosting, Reporting
        <4>2. QED
          BY <3>1, <4>1 DEF Unposted
      <3>4. QED
        BY <3>2, <3>3
    <2>3. CASE j \in batch
      <3> DEFINE more == Unposted(j) \cup {rows'[j].attempt}
      <3>1. /\ IsFiniteSet(more) /\ Cardinality(more) \in Nat
            /\ Cardinality(more) <= Cardinality(Unposted(j)) + 1
        <4>1. /\ IsFiniteSet(more)
              /\ Cardinality(more) = IF rows'[j].attempt \in Unposted(j)
                                     THEN Cardinality(Unposted(j))
                                     ELSE Cardinality(Unposted(j)) + 1
          BY <2>1, FS_AddElement
        <4> HIDE DEF more
        <4>2. QED
          BY <2>1, <4>1
      <3>2. Unposted(j)' \subseteq more
        BY <2>2
      <3>3. Cardinality(Unposted(j)') \in Nat /\ Cardinality(Unposted(j)') <= Cardinality(more)
        BY <3>1, <3>2, FS_Subset, FS_CardinalityType
      <3>4. rows'[j].attempt = rows[j].attempt + 1
        BY <1>4, <2>3
      <3> HIDE DEF more
      <3>5. QED
        BY <1>3, <2>1, <3>1, <3>3, <3>4
    <2>4. CASE j \notin batch
      <3>1. Unposted(j)' \subseteq Unposted(j) /\ rows'[j] = rows[j]
        BY <1>4, <2>2, <2>4
      <3>2. /\ Cardinality(Unposted(j)') \in Nat
            /\ Cardinality(Unposted(j)') <= Cardinality(Unposted(j))
        BY <2>1, <3>1, FS_Subset, FS_CardinalityType
      <3>3. QED
        BY <1>3, <2>1, <3>1, <3>2
    <2>5. QED
      BY <2>3, <2>4
  <1>10. ProcessingHasHolder'
    <2> SUFFICES ASSUME NEW j \in Jobs, rows'[j].status = "processing", j \notin byHand,
                        <<j, rows'[j].attempt>> \notin stranded
                 PROVE  \E c \in Callers : <<j, rows'[j].attempt>> \in claimed'[c]
      BY <1>1 DEF ProcessingHasHolder
    <2>1. CASE j \in batch
      BY <1>1, <1>5, <2>1
    <2>2. CASE j \notin batch
      <3>1. PICK c \in Callers : <<j, rows[j].attempt>> \in claimed[c]
        BY <1>4, <2>2 DEF WorkerInv, ProcessingHasHolder
      <3>2. c # w
        BY <1>1, <3>1
      <3>3. QED
        BY <1>4, <1>5, <2>2, <3>1, <3>2
    <2>3. QED
      BY <2>1, <2>2
  <1>11. QED
    BY <1>2, <1>6, <1>7, <1>8, <1>9, <1>10 DEF WorkerInv

\* A job of another platform is passed over, or the whole batch is given up.
LEMMA GivesUpInv ==
    ASSUME WorkerInv, NEW w \in Workers, skipForeign(w) \/ abortTick(w)
    PROVE  WorkerInv' /\ TableStep
  <1>1. /\ w \in Callers
        /\ rows \in [Jobs -> Rows] /\ claimed \in [Callers -> SUBSET (Jobs \X Nat)]
        /\ pending \in [Callers -> Writes \cup {None}]
        /\ task \in [Workers -> Tasks \cup {None}] /\ stranded \subseteq Jobs \X Nat
    BY WorkerConstants DEF WorkerInv, JobsInv, JobsTypeOK, WorkerTypes
  <1>2. CASE skipForeign(w)
    <2>1. PICK t \in claimed[w] :
             /\ task[w] = None
             /\ claimed' = [claimed EXCEPT ![w] = @ \ {t}]
             /\ stranded' = stranded \cup {t}
             /\ UNCHANGED <<rows, pending, given, task, connected, posts, unanswered, byHand>>
      BY <1>2 DEF skipForeign
    <2>2. /\ claimed' \in [Callers -> SUBSET (Jobs \X Nat)]
          /\ \A c \in Callers : claimed'[c] \subseteq claimed[c]
          /\ PendingLegal'
      BY <1>1, <2>1 DEF WorkerInv, JobsInv, PendingLegal
    <2>3. JobsInv' /\ TableStep
      BY <1>1, <2>1, <2>2, RowsAloneInv DEF WorkerInv
    <2>4. pending[w] = None
      BY <2>1 DEF WorkerInv, ReportsPending, Reporting
    <2>5. t \in Jobs \X Nat
      BY <1>1, <2>1
    <2>6. /\ claimed'[w] = claimed[w] \ {t}
          /\ \A c \in Callers \ {w} : claimed'[c] = claimed[c]
      BY <1>1, <2>1
    <2>7. WorkerInv'
      BY <1>1, <2>1, <2>3, <2>4, <2>5, <2>6, WorkerFrame DEF DonePosting, Reporting
    <2>8. QED
      BY <2>3, <2>7
  <1>3. CASE abortTick(w)
    <2>1. /\ abandon(w)
          /\ task' = [task EXCEPT ![w] = None]
          /\ stranded' = stranded \cup claimed[w]
          /\ UNCHANGED <<connected, posts, unanswered, byHand>>
      BY <1>3 DEF abortTick
    <2>2. JobsInv' /\ TableStep
      BY <1>1, <2>1, AbandonInv DEF WorkerInv
    <2>3. /\ pending'[w] = None /\ claimed'[w] = {} /\ UNCHANGED rows
          /\ \A c \in Callers \ {w} : pending'[c] = pending[c] /\ claimed'[c] = claimed[c]
      BY <1>1, <2>1 DEF abandon
    <2>4. /\ task' \in [Workers -> Tasks \cup {None}] /\ task'[w] = None
          /\ \A v \in Workers \ {w} : task'[v] = task[v]
          /\ stranded' \subseteq Jobs \X Nat
      BY <1>1, <2>1
    <2>5. WorkerInv'
      BY <2>1, <2>2, <2>3, <2>4, WorkerFrame
    <2>6. QED
      BY <2>2, <2>5
  <1>4. QED
    BY <1>2, <1>3

-----------------------------------------------------------------------------
(* processSingleJob.                                                       *)

\* What a task becomes is a task of the same claim.
LEMMA MovedTask ==
    ASSUME WorkerInv, NEW w \in Workers, task[w] # None
    PROVE  /\ \A step \in {"prepare", "post", "publish"} :
                 \E new \in Tasks : /\ Goto(w, step) = [task EXCEPT ![w] = new]
                                    /\ new.job = task[w].job /\ new.attempt = task[w].attempt
                                    /\ new.at = step
           /\ \A code \in Codes, r \in Wait :
                 \E new \in Tasks : /\ Failing(w, code, r) = [task EXCEPT ![w] = new]
                                    /\ new.job = task[w].job /\ new.attempt = task[w].attempt
                                    /\ new.at = "fail"
  <1>1. task[w] \in Tasks
    BY TaskParts
  <1>2. ASSUME NEW step \in {"prepare", "post", "publish"}
        PROVE  \E new \in Tasks : /\ Goto(w, step) = [task EXCEPT ![w] = new]
                                  /\ new.job = task[w].job /\ new.attempt = task[w].attempt
                                  /\ new.at = step
    <2> DEFINE new == [task[w] EXCEPT !.at = step]
    <2>1. /\ new \in Tasks /\ new.job = task[w].job /\ new.attempt = task[w].attempt
          /\ new.at = step
      BY <1>1 DEF Tasks
    <2>2. Goto(w, step) = [task EXCEPT ![w] = new]
      BY DEF Goto
    <2>3. QED
      BY <2>1, <2>2
  <1>3. ASSUME NEW code \in Codes, NEW r \in Wait
        PROVE  \E new \in Tasks : /\ Failing(w, code, r) = [task EXCEPT ![w] = new]
                                  /\ new.job = task[w].job /\ new.attempt = task[w].attempt
                                  /\ new.at = "fail"
    <2> DEFINE new == [task[w] EXCEPT !.at = "fail", !.code = code, !.nextRetry = r]
    <2>1. /\ new \in Tasks /\ new.job = task[w].job /\ new.attempt = task[w].attempt
          /\ new.at = "fail"
      BY <1>1 DEF Tasks
    <2>2. Failing(w, code, r) = [task EXCEPT ![w] = new]
      BY DEF Failing
    <2>3. QED
      BY <2>1, <2>2
  <1>4. QED
    BY <1>2, <1>3

\* The codes a worker names, and the times for a retry.
LEMMA RetryTimesType ==
    /\ "OTHER" \in Codes /\ "NO_CONNECTED_ACCOUNT" \in Codes /\ None \in Wait
    /\ \A attempt : RetryTimes(attempt) \subseteq Wait
  BY WorkerConstants DEF RetryTimes, RetryTime, Wait

\* A worker takes the next job of its batch.
LEMMA StartInv ==
    ASSUME WorkerInv, NEW w \in Workers, startJob(w)
    PROVE  WorkerInv' /\ TableStep
  <1>1. PICK t \in claimed[w] :
           /\ task[w] = None
           /\ task' = [task EXCEPT ![w] = Task(t)]
           /\ UNCHANGED <<jobVars, connected, posts, unanswered, byHand, stranded>>
    BY DEF startJob
  <1>2. t \in Jobs \X Nat
    BY WorkerConstants DEF WorkerInv, JobsInv, JobsTypeOK
  <1>3. Task(t) \in Tasks /\ <<Task(t).job, Task(t).attempt>> = t
    BY <1>2, RetryTimesType DEF Task, Tasks
  <1>4. QED
    BY <1>1, <1>3, ProgressInv DEF Reporting

\* Account, token, creator info and a post that is refused.
LEMMA PreparesInv ==
    ASSUME WorkerInv, NEW w \in Workers, findAccount(w) \/ prepare(w) \/ postRefused(w)
    PROVE  WorkerInv' /\ TableStep
  <1>1. /\ task[w] # None /\ ~Reporting(w)
        /\ UNCHANGED <<jobVars, connected, posts, unanswered, byHand, stranded>>
    BY DEF findAccount, prepare, postRefused, At, Reporting
  <1>2. \/ \E step \in {"prepare", "post", "publish"} : task' = Goto(w, step)
        \/ \E code \in Codes, r \in Wait : task' = Failing(w, code, r)
    <2>1. CASE findAccount(w)
      BY <2>1, RetryTimesType DEF findAccount
    <2>2. CASE prepare(w)
      BY <2>2, RetryTimesType DEF prepare, getCreatorInfo
    <2>3. CASE postRefused(w)
      BY <2>3, RetryTimesType DEF postRefused, AfterPost
    <2>4. QED
      BY <2>1, <2>2, <2>3
  <1>3. PICK new \in Tasks : /\ task' = [task EXCEPT ![w] = new]
                             /\ new.job = task[w].job /\ new.attempt = task[w].attempt
    BY <1>1, <1>2, MovedTask
  <1>4. <<new.job, new.attempt>> \in claimed[w]
    BY <1>1, <1>3 DEF WorkerInv, TasksAreClaimed
  <1>5. QED
    BY <1>1, <1>3, <1>4, ProgressInv

\* A post uses up the attempt it is made under.
LEMMA PostInv ==
    ASSUME WorkerInv, NEW w \in Workers, postAccepted(w) \/ postUnanswered(w)
    PROVE  WorkerInv' /\ TableStep
  <1> PICK job, attempt : job = task[w].job /\ attempt = task[w].attempt
    OBVIOUS
  <1>1. /\ task[w] # None /\ ~Reporting(w) /\ task[w].at = "post"
        /\ posts' = [posts EXCEPT ![job] = @ + 1]
        /\ unanswered' \in {unanswered, unanswered \cup {job}}
        /\ UNCHANGED <<rows, pending, claimed, given, connected, byHand, stranded>>
    BY DEF postAccepted, postUnanswered, directPost, At, Reporting, jobVars
  <1>2. PICK new \in Tasks :
           /\ task' = [task EXCEPT ![w] = new]
           /\ new.job = job /\ new.attempt = attempt /\ new.at \in {"publish", "fail"}
    <2>1. CASE postAccepted(w)
      BY <1>1, <2>1, MovedTask DEF postAccepted
    <2>2. CASE postUnanswered(w)
      BY <1>1, <2>2, MovedTask, RetryTimesType DEF postUnanswered, AfterPost
    <2>3. QED
      BY <2>1, <2>2
  <1>3. /\ job \in Jobs /\ attempt \in Nat /\ posts \in [Jobs -> Nat]
        /\ <<job, attempt>> \in claimed[w] /\ pending[w] = None
    BY <1>1, TaskParts DEF WorkerInv, WorkerTypes, TasksAreClaimed, ReportsPending
  <1>4. /\ task'[w] = new /\ new # None
        /\ \A v \in Workers : v # w => task'[v] = task[v]
    <2>1. new # None
      BY NoneIsNoTask
    <2>2. QED
      BY <1>2, <2>1 DEF WorkerInv, WorkerTypes
  <1>5. JobsInv' /\ TableStep
    BY <1>1 DEF WorkerInv, JobsInv, JobsTypeOK, PendingLegal, AbsentUncounted,
       ClaimsCounted, GivenCounted, OneCallerPerAttempt, TableStep
  <1>6. WorkerTypes'
    BY <1>1, <1>2, <1>3 DEF WorkerInv, WorkerTypes
  <1>7. TasksAreClaimed' /\ ReportsPending'
    BY <1>1, <1>2, <1>3, <1>4 DEF WorkerInv, TasksAreClaimed, ReportsPending, Reporting, Target
  <1>8. OperatorsNoted' /\ WorkersKeepBudget' /\ ProcessingHasHolder'
    BY <1>1 DEF WorkerInv, OperatorsNoted, WorkersKeepBudget, ProcessingHasHolder
  <1>9. PostsCovered'
    <2> SUFFICES ASSUME NEW j \in Jobs
                 PROVE  posts'[j] + Cardinality(Unposted(j)') <= rows'[j].attempt
      BY DEF PostsCovered
    <2>1. /\ posts[j] \in Nat /\ rows[j].attempt \in Nat
          /\ posts[j] + Cardinality(Unposted(j)) <= rows[j].attempt
          /\ IsFiniteSet(Unposted(j)) /\ Cardinality(Unposted(j)) \in Nat
      BY UnpostedFinite DEF WorkerInv, WorkerTypes, PostsCovered, JobsInv, JobsTypeOK, Rows
    <2>2. ASSUME NEW v \in Workers, NEW a \in Nat,
                 <<j, a>> \in claimed[v], ~DonePosting(v, j, a)'
          PROVE  ~DonePosting(v, j, a) /\ ~(j = job /\ a = attempt)
      <3>1. CASE v = w
        <4>1. DonePosting(w, job, attempt)'
          BY <1>2, <1>4 DEF DonePosting, Reporting
        <4>2. QED
          BY <1>1, <2>2, <3>1, <4>1 DEF DonePosting
      <3>2. CASE v # w
        <4>1. ~DonePosting(v, j, a)
          BY <1>4, <2>2, <3>2 DEF DonePosting, Reporting
        <4>2. <<job, attempt>> \notin claimed[v]
          BY <1>3, <3>2, WorkerConstants DEF WorkerInv, JobsInv, OneCallerPerAttempt
        <4>3. QED
          BY <2>2, <4>1, <4>2
      <3>3. QED
        BY <3>1, <3>2
    <2>3. Unposted(j)' \subseteq Unposted(j) \ (IF j = job THEN {attempt} ELSE {})
      BY <1>1, <2>2 DEF Unposted
    <2>4. CASE j = job
      <3> DEFINE rest == Unposted(j) \ {attempt}
      <3>1. attempt \in Unposted(j)
        BY <1>1, <1>3, <2>4 DEF Unposted, DonePosting
      <3>2. IsFiniteSet(rest) /\ Cardinality(rest) = Cardinality(Unposted(j)) - 1
        BY <2>1, <3>1, FS_RemoveElement
      <3>3. Unposted(j)' \subseteq rest
        BY <2>3, <2>4
      <3> HIDE DEF rest
      <3>4. Cardinality(Unposted(j)') \in Nat /\ Cardinality(Unposted(j)') <= Cardinality(rest)
        BY <3>2, <3>3, FS_Subset, FS_CardinalityType
      <3>5. posts'[j] = posts[j] + 1 /\ rows' = rows
        BY <1>1, <1>3, <2>4
      <3>6. QED
        BY <2>1, <3>2, <3>4, <3>5
    <2>5. CASE j # job
      <3>1. Unposted(j)' \subseteq Unposted(j)
        BY <2>3
      <3>2. /\ Cardinality(Unposted(j)') \in Nat
            /\ Cardinality(Unposted(j)') <= Cardinality(Unposted(j))
        BY <2>1, <3>1, FS_Subset, FS_CardinalityType
      <3>3. posts'[j] = posts[j] /\ rows' = rows
        BY <1>1, <1>3, <2>5
      <3>4. QED
        BY <2>1, <3>2, <3>3
    <2>6. QED
      BY <2>4, <2>5
  <1>10. QED
    BY <1>5, <1>6, <1>7, <1>8, <1>9 DEF WorkerInv

-----------------------------------------------------------------------------
(* The report.                                                             *)

\* A worker reads for its report.
LEMMA ReportReadInv ==
    ASSUME WorkerInv, NEW w \in Workers, reportRead(w)
    PROVE  WorkerInv' /\ TableStep
  <1>1. /\ Reporting(w) /\ task[w] # None /\ w \in Callers
        /\ transitionRead(w, task[w].job, Target(w), task[w].nextRetry, None, task[w].code)
        /\ UNCHANGED <<task, connected, posts, unanswered, byHand, stranded>>
    BY WorkerConstants DEF reportRead, Reporting, workerVars
  <1>2. /\ task[w].job \in Jobs /\ task[w].nextRetry \in Wait /\ None \in Wait
        /\ task[w].code \in Codes \cup {None} /\ Target(w) \in Statuses
    BY <1>1, TaskParts DEF Target, Statuses, Wait
  <1>3. JobsInv' /\ TableStep
    BY <1>1, <1>2, ReadInv DEF WorkerInv
  <1>4. /\ rows \in [Jobs -> Rows] /\ pending \in [Callers -> Writes \cup {None}]
        /\ task \in [Workers -> Tasks \cup {None}] /\ stranded \subseteq Jobs \X Nat
    BY DEF WorkerInv, JobsInv, JobsTypeOK, WorkerTypes
  <1>5. /\ pending'[w].job = task[w].job /\ pending'[w].to = Target(w)
        /\ \A c \in Callers \ {w} : pending'[c] = pending[c]
        /\ UNCHANGED <<rows, claimed>>
    BY <1>1, <1>4 DEF transitionRead
  <1>6. <<task[w].job, task[w].attempt>> \in claimed[w]
    BY <1>1 DEF WorkerInv, TasksAreClaimed
  <1>7. Reporting(w)' /\ Target(w)' = Target(w)
    BY <1>1 DEF Reporting, Target
  <1>8. WorkerInv'
    <2>1. \A t \in claimed'[w] : DonePosting(w, t[1], t[2]) => DonePosting(w, t[1], t[2])'
      BY <1>1 DEF DonePosting, Reporting
    <2>2. QED
      BY <1>1, <1>3, <1>4, <1>5, <1>6, <1>7, <2>1, WorkerFrame
  <1>9. QED
    BY <1>3, <1>8

\* What a report writes ends the processing of the row.
LEMMA ReportEnds ==
    ASSUME WorkerInv, NEW w \in Workers, pending[w] # None
    PROVE  /\ pending[w] \in Writes /\ pending[w].job = task[w].job
           /\ pending[w].to \in {"published", "failed"}
           /\ pending[w].from = "processing"
           /\ w \in Callers
  <1>1. /\ w \in Callers
        /\ pending[w] \in Writes /\ pending[w].job = task[w].job
        /\ pending[w].to \in {"published", "failed"}
    BY WorkerConstants DEF WorkerInv, JobsInv, JobsTypeOK, ReportsPending, Target
  <1>2. pending[w].to \in Transitions(pending[w].from)
    BY <1>1 DEF WorkerInv, JobsInv, PendingLegal
  <1>3. QED
    BY <1>1, <1>2 DEF Transitions

\* A worker writes its report, or finds that it was overtaken.
LEMMA ReportWriteInv ==
    ASSUME WorkerInv, NEW w \in Workers, reportWrite(w)
    PROVE  WorkerInv' /\ TableStep
  <1>1. /\ transitionWrite(w) \/ transitionOvertaken(w)
        /\ task' = [task EXCEPT ![w] = None]
        /\ UNCHANGED <<connected, posts, unanswered, byHand, stranded>>
        /\ pending[w] # None
    BY DEF reportWrite, transitionWrite, transitionOvertaken
  <1> PICK write : write = pending[w]
    OBVIOUS
  <1>2. /\ write \in Writes /\ write.job \in Jobs /\ w \in Callers
        /\ write.to \in {"published", "failed"} /\ write.from = "processing"
    BY <1>1, ReportEnds DEF Writes
  <1>3. JobsInv' /\ TableStep
    BY <1>1, <1>2, WriteInv, OvertakenInv DEF WorkerInv
  <1>4. /\ rows \in [Jobs -> Rows] /\ pending \in [Callers -> Writes \cup {None}]
        /\ claimed \in [Callers -> SUBSET (Jobs \X Nat)]
        /\ task \in [Workers -> Tasks \cup {None}] /\ stranded \subseteq Jobs \X Nat
    BY DEF WorkerInv, JobsInv, JobsTypeOK, WorkerTypes
  <1>5. /\ \A c \in Callers \ {w} : pending'[c] = pending[c] /\ claimed'[c] = claimed[c]
        /\ pending'[w] = None
        /\ claimed'[w] = Released(w, write.job)
    BY <1>1, <1>2, <1>4 DEF transitionWrite, transitionOvertaken
  <1>6. /\ \A k \in Jobs : /\ rows'[k].attempt = rows[k].attempt
                           /\ rows'[k].status = "processing" => rows[k].status = "processing"
        /\ rows'[write.job].status # "processing"
    <2>1. CASE transitionWrite(w)
      <3>1. rows' = [rows EXCEPT ![write.job] = Written(rows[write.job], write)]
        BY <2>1 DEF transitionWrite
      <3>2. /\ Written(rows[write.job], write).status = write.to
            /\ Written(rows[write.job], write).attempt = rows[write.job].attempt
        BY <1>2, <1>4, WrittenType
      <3>3. QED
        BY <1>2, <1>4, <3>1, <3>2
    <2>2. CASE transitionOvertaken(w)
      BY <1>2, <2>2 DEF transitionOvertaken, StatusStillRead
    <2>3. QED
      BY <1>1, <2>1, <2>2
  <1>7. /\ task' \in [Workers -> Tasks \cup {None}] /\ task'[w] = None
        /\ \A v \in Workers \ {w} : task'[v] = task[v]
    BY <1>1, <1>4
  <1>8. /\ claimed'[w] \subseteq claimed[w]
        /\ \A t \in claimed[w] \ claimed'[w] : t[1] = write.job
        /\ \A t \in claimed'[w] : t[1] # write.job
    BY <1>5 DEF Released
  <1>9. \A t \in claimed'[w] : ~DonePosting(w, t[1], t[2])
    BY <1>1, <1>8, ReportEnds DEF DonePosting
  <1>10. WorkerInv'
    BY <1>1, <1>3, <1>4, <1>5, <1>6, <1>7, <1>8, <1>9, WorkerFrame
  <1>11. QED
    BY <1>3, <1>10

\* The success report throws, and its write may be committed all the same.
LEMMA ThrowsInv ==
    ASSUME WorkerInv, NEW w \in Workers, publishThrows(w)
    PROVE  WorkerInv' /\ TableStep
  <1>1. /\ task[w] # None /\ task[w].at = "publish"
        /\ task' = Failing(w, "OTHER", None)
        /\ UNCHANGED <<claimed, given, connected, posts, unanswered, byHand, stranded>>
    BY DEF publishThrows, At, jobVars
  <1>2. /\ rows \in [Jobs -> Rows] /\ pending \in [Callers -> Writes \cup {None}]
        /\ claimed \in [Callers -> SUBSET (Jobs \X Nat)]
        /\ task \in [Workers -> Tasks \cup {None}] /\ stranded \subseteq Jobs \X Nat
        /\ w \in Callers
        /\ \A k \in Jobs : rows[k].attempt \in Nat
    BY WorkerConstants DEF WorkerInv, JobsInv, JobsTypeOK, WorkerTypes, Rows
  <1>3. PICK new \in Tasks : /\ task' = [task EXCEPT ![w] = new]
                             /\ new.job = task[w].job /\ new.attempt = task[w].attempt
                             /\ new.at = "fail"
    BY <1>1, MovedTask, RetryTimesType
  <1>4. /\ task' \in [Workers -> Tasks \cup {None}] /\ task'[w] = new /\ new # None
        /\ \A v \in Workers \ {w} : task'[v] = task[v]
    BY <1>2, <1>3, NoneIsNoTask
  <1>5. /\ \A c \in Callers \ {w} : pending'[c] = pending[c]
        /\ pending'[w] = None
        /\ pending' \in [Callers -> Writes \cup {None}]
    BY <1>2 DEF publishThrows, jobVars
  <1>6. /\ rows' \in [Jobs -> Rows]
        /\ \A k \in Jobs :
              /\ rows'[k].attempt = rows[k].attempt
              /\ rows'[k].status # rows[k].status =>
                    /\ rows[k].status = "processing"
                    /\ rows'[k].status \in {"published", "failed"}
    <2>1. CASE UNCHANGED rows
      BY <1>2, <2>1
    <2>2. CASE /\ pending[w] # None /\ StatusStillRead(pending[w])
               /\ rows' = [rows EXCEPT ![task[w].job] = Written(@, pending[w])]
      <3>1. /\ pending[w] \in Writes /\ task[w].job \in Jobs
            /\ pending[w].to \in {"published", "failed"}
            /\ rows[task[w].job].status = "processing"
        BY <1>1, <2>2, ReportEnds, TaskParts DEF StatusStillRead
      <3>2. /\ Written(rows[task[w].job], pending[w]) \in Rows
            /\ Written(rows[task[w].job], pending[w]).status = pending[w].to
            /\ Written(rows[task[w].job], pending[w]).attempt = rows[task[w].job].attempt
        BY <1>2, <3>1, WrittenType
      <3>3. QED
        BY <1>2, <2>2, <3>1, <3>2
    <2>3. QED
      BY <2>1, <2>2 DEF publishThrows, jobVars
  <1>7. JobsInv'
    <2>1. /\ ClaimsCounted' /\ GivenCounted' /\ OneCallerPerAttempt'
          /\ given' \in [Jobs -> Seq(Nat)]
      <3>1. \A k \in Jobs : rows'[k].attempt >= rows[k].attempt
        BY <1>2, <1>6
      <3>2. QED
        BY <1>1, <1>6, <3>1, QuietFence DEF WorkerInv
    <2>2. JobsTypeOK' /\ PendingLegal'
      BY <1>1, <1>2, <1>5, <1>6, <2>1 DEF WorkerInv, JobsInv, JobsTypeOK, PendingLegal
    <2>3. AbsentUncounted'
      BY <1>6 DEF WorkerInv, JobsInv, AbsentUncounted
    <2>4. QED
      BY <2>1, <2>2, <2>3 DEF JobsInv
  <1>8. TableStep
    BY <1>6 DEF TableStep, Transitions, Terminal
  <1>9. <<new.job, new.attempt>> \in claimed[w]
    BY <1>1, <1>3 DEF WorkerInv, TasksAreClaimed
  <1>10. \A t \in claimed'[w] : DonePosting(w, t[1], t[2]) => DonePosting(w, t[1], t[2])'
    BY <1>3, <1>4 DEF DonePosting, Reporting
  <1>11. WorkerInv'
    <2>1. \A k \in Jobs : rows'[k].status = "processing" => rows[k].status = "processing"
      BY <1>6
    <2>2. QED
      BY <1>1, <1>2, <1>4, <1>5, <1>6, <1>7, <1>9, <1>10, <2>1, WorkerFrame
  <1>12. QED
    BY <1>8, <1>11

-----------------------------------------------------------------------------

\* The workers start idle over an empty table.
THEOREM WorkerInitInv == Init => WorkerInv
  <1> SUFFICES ASSUME Init PROVE WorkerInv
    OBVIOUS
  <1>1. JobsInv
    BY JobsInitInv DEF Init
  <1>2. PostsCovered
    <2> SUFFICES ASSUME NEW j \in Jobs
                 PROVE  posts[j] + Cardinality(Unposted(j)) <= rows[j].attempt
      BY DEF PostsCovered
    <2>1. Unposted(j) = {}
      BY WorkerConstants DEF Unposted, Init, JobsInit
    <2>2. posts[j] = 0 /\ rows[j].attempt = 0
      BY DEF Init, JobsInit, NoRow
    <2>3. QED
      BY <2>1, <2>2, FS_EmptySet
  <1>3. WorkerTypes /\ TasksAreClaimed
    BY DEF Init, WorkerTypes, TasksAreClaimed
  <1>4. ReportsPending /\ OperatorsNoted
    BY WorkerConstants DEF Init, JobsInit, ReportsPending, OperatorsNoted, Operators
  <1>5. WorkersKeepBudget
    BY PublicationConstants DEF Init, JobsInit, NoRow, WorkersKeepBudget
  <1>6. ProcessingHasHolder
    BY DEF Init, JobsInit, NoRow, ProcessingHasHolder
  <1>7. QED
    BY <1>1, <1>2, <1>3, <1>4, <1>5, <1>6 DEF WorkerInv

\* Every step keeps the invariant and follows the table.
LEMMA WorkerNextInv == WorkerInv /\ [Next]_allVars => WorkerInv' /\ TableStep
  <1> SUFFICES ASSUME WorkerInv, [Next]_allVars PROVE WorkerInv' /\ TableStep
    OBVIOUS
  <1>1. CASE ApiStep
    BY <1>1, CreatesInv, OperatorInv DEF ApiStep
  <1>2. ASSUME NEW w \in Workers, WorkerStep(w) \/ workerCrash(w)
        PROVE  WorkerInv' /\ TableStep
    BY <1>2, TickInv, GivesUpInv, StartInv, PreparesInv, PostInv, ReportReadInv,
       ReportWriteInv, ThrowsInv DEF WorkerStep, workerCrash, failThrows
  <1>3. CASE accountChanges \/ time
    BY <1>3, OutsideInv
  <1>4. CASE UNCHANGED allVars
    <2>1. JobsInv' /\ TableStep
      BY <1>4 DEF allVars, WorkerInv, JobsInv, JobsTypeOK, PendingLegal, AbsentUncounted,
         ClaimsCounted, GivenCounted, OneCallerPerAttempt, TableStep
    <2>2. WorkerTypes' /\ TasksAreClaimed' /\ ReportsPending' /\ OperatorsNoted'
      BY <1>4 DEF allVars, WorkerInv, WorkerTypes, TasksAreClaimed, ReportsPending,
         OperatorsNoted, Reporting, Target
    <2>3. WorkersKeepBudget' /\ PostsCovered' /\ ProcessingHasHolder'
      BY <1>4 DEF allVars, WorkerInv, WorkersKeepBudget, PostsCovered, Unposted,
         DonePosting, Reporting, ProcessingHasHolder
    <2>4. QED
      BY <2>1, <2>2, <2>3 DEF WorkerInv
  <1>5. QED
    BY <1>1, <1>2, <1>3, <1>4 DEF Next

\* The inductive invariant holds in every reachable state.
THEOREM WorkerInvariant == Spec => []WorkerInv
  BY WorkerInitInv, WorkerNextInv, PTL DEF Spec

\* The queue and its workers keep their types.
THEOREM WorkersTypeCorrect == Spec => []WorkerTypeOK
  <1>1. WorkerInv => WorkerTypeOK
    BY DEF WorkerInv, JobsInv, WorkerTypes, WorkerTypeOK
  <1>2. QED
    BY <1>1, WorkerInvariant, PTL

\* The attempt number fences among workers and operators: whatever was reported,
\* crashed or thrown in between, no attempt of a job is given out a second time.
THEOREM WorkersAreFenced == Spec => []OneCallerPerAttempt
  <1>1. WorkerInv => OneCallerPerAttempt
    BY DEF WorkerInv, JobsInv
  <1>2. QED
    BY <1>1, WorkerInvariant, PTL

\* However claims, late reports, crashes and operators interleave, a job is
\* posted at most once per attempt counted for it, and beyond its budget only
\* if an operator had a hand in it.
THEOREM PostsAreCounted == Spec => []PostsCounted
  <1>1. WorkerInv => PostsCounted
    <2> SUFFICES ASSUME WorkerInv, NEW j \in Jobs
                 PROVE  /\ posts[j] <= rows[j].attempt
                        /\ posts[j] > MaxAttempts => j \in byHand
      BY DEF PostsCounted
    <2>1. /\ posts[j] \in Nat /\ rows[j].attempt \in Nat
          /\ Cardinality(Unposted(j)) \in Nat
          /\ posts[j] + Cardinality(Unposted(j)) <= rows[j].attempt
      BY UnpostedFinite DEF WorkerInv, WorkerTypes, PostsCovered, JobsInv, JobsTypeOK, Rows
    <2>2. j \notin byHand => rows[j].attempt <= MaxAttempts
      BY DEF WorkerInv, WorkersKeepBudget
    <2>3. QED
      BY <2>1, <2>2, PublicationConstants
  <1>2. QED
    BY <1>1, WorkerInvariant, PTL

\* A job rests in "processing" with nobody at work on it only if its worker went
\* away or passed it over, or an operator has a hand in it.
THEOREM ProcessingIsHeld == Spec => []ProcessingHasHolder
  <1>1. WorkerInv => ProcessingHasHolder
    BY DEF WorkerInv
  <1>2. QED
    BY <1>1, WorkerInvariant, PTL

\* Statuses only move along the table, whatever workers and operators do.
THEOREM WorkersFollowTable == Spec => StatusFollowsTable
  <1>1. WorkerInv /\ [Next]_allVars => [TableStep]_jobVars
    BY WorkerNextInv
  <1>2. QED
    BY <1>1, WorkerInvariant, PTL DEF Spec, StatusFollowsTable, TableStep
=============================================================================
