--------------------------- MODULE PublicationJobs ----------------------------
(***************************************************************************)
(* The durable publication queue of packages/db: one row per job in        *)
(* publication_jobs, changed by create, transition and claimDue.           *)
(*                                                                         *)
(* create and claimDue are one SQL statement each.  transition is two: a   *)
(* SELECT ... FOR UPDATE whose row decides, then an UPDATE guarded by the  *)
(* status read.  The production wiring hands the repository a pool, every  *)
(* statement commits on its own and the row lock ends with the SELECT, so  *)
(* other callers run between the two.                                      *)
(*                                                                         *)
(* next_retry_at and scheduled_for are kept as ticks still to wait; None   *)
(* is SQL's NULL.  A row is known by its (tenant, idempotency key).        *)
(***************************************************************************)
EXTENDS Integers, FiniteSets, Sequences

CONSTANTS
    Jobs,         \* rows that may exist: one per tenant and idempotency key
    Callers,      \* users of the repository
    MaxAttempts,  \* max_attempts
    Limit,        \* limit of claimDue
    Delays,       \* ticks ahead that a caller may name in a timestamp
    Codes,        \* failure codes
    AttemptCap,   \* bound: attempts that are explored
    None

ASSUME PublicationConstants ==
    /\ MaxAttempts \in Nat \ {0}
    /\ AttemptCap \in Nat
    /\ Limit \in Nat \ {0}
    /\ Delays \subseteq Nat
    /\ None \notin Jobs
    /\ None \notin Codes
    /\ None \notin Nat

VARIABLES
    rows,      \* the table
    pending,   \* per caller: the transition it has read for and not yet written
    claimed,   \* per caller: the <<job, attempt>> pairs it was given and still holds
    given      \* history: per job, the attempts it was given out under, in order

jobVars == <<rows, pending, claimed, given>>

Statuses == {"draft", "waiting_approval", "approved", "scheduled", "processing",
             "published", "partial", "failed", "cancelled"}
Terminal == {"published", "cancelled"}

Transitions(status) ==
    CASE status = "draft"               -> {"waiting_approval", "approved", "cancelled"}
      [] status = "waiting_approval"    -> {"approved", "cancelled"}
      [] status = "approved"            -> {"scheduled", "processing", "cancelled"}
      [] status = "scheduled"           -> {"processing", "cancelled"}
      [] status = "processing"          -> {"published", "partial", "failed"}
      [] status \in {"partial", "failed"} -> {"processing", "scheduled", "cancelled"}
      [] OTHER                          -> {}

Wait == Nat \cup {None}

Rows == [status : Statuses \cup {"absent"}, attempt : Nat, nextRetry : Wait,
         scheduledFor : Wait, failureCode : Codes \cup {None}]

Writes == [job : Jobs, from : Statuses, to : Statuses, nextRetry : Wait,
           scheduledFor : Wait, failureCode : Codes \cup {None}]

NoRow == [status |-> "absent", attempt |-> 0, nextRetry |-> None,
          scheduledFor |-> None, failureCode |-> None]

JobsInit ==
    /\ rows = [j \in Jobs |-> NoRow]
    /\ pending = [c \in Callers |-> None]
    /\ claimed = [c \in Callers |-> {}]
    /\ given = [j \in Jobs |-> <<>>]

-----------------------------------------------------------------------------

\* A row is inserted in any status that is not terminal; a second create with
\* the same key conflicts and changes nothing.
create(j, status, nextRetry, scheduledFor) ==
    /\ rows[j].status = "absent"
    /\ status \in Statuses \ Terminal
    /\ rows' = [rows EXCEPT ![j] = [NoRow EXCEPT !.status = status,
                                                 !.nextRetry = nextRetry,
                                                 !.scheduledFor = scheduledFor]]
    /\ UNCHANGED <<pending, claimed, given>>

Coalesce(new, old) == IF new # None THEN new ELSE old

\* A failed or partial job may be processed again only within its budget.  The
\* check is made on the row read, and for these two statuses alone.
Permitted(j, to) ==
    /\ to \in Transitions(rows[j].status)
    /\ rows[j].status \in {"partial", "failed"} /\ to = "processing" =>
          rows[j].attempt < MaxAttempts

\* The first statement of transition: on an illegal step it throws, on a spent
\* budget it returns, and neither changes anything.
transitionRead(c, j, to, nextRetry, scheduledFor, code) ==
    /\ pending[c] = None
    /\ Permitted(j, to)
    /\ to = "processing" => rows[j].attempt < AttemptCap
    /\ pending' = [pending EXCEPT ![c] =
          [job |-> j, from |-> rows[j].status, to |-> to, nextRetry |-> nextRetry,
           scheduledFor |-> scheduledFor, failureCode |-> code]]
    /\ UNCHANGED <<rows, claimed, given>>

Written(row, w) ==
    [row EXCEPT !.status = w.to,
                !.attempt = IF w.to = "processing" THEN @ + 1 ELSE @,
                !.nextRetry = Coalesce(w.nextRetry, @),
                !.scheduledFor = Coalesce(w.scheduledFor, @),
                !.failureCode = w.failureCode]

\* (mutation) The UPDATE is by id only.
StatusUnread(w) == TRUE

\* WHERE ... AND status = $10
StatusStillRead(w) == rows[w.job].status = w.from

Released(c, j) == {t \in claimed[c] : t[1] # j}

\* The second statement of transition finds the status it read.
transitionWrite(c) ==
    /\ pending[c] # None
    /\ StatusStillRead(pending[c])
    /\ LET w == pending[c]
           row == Written(rows[w.job], w) IN
         /\ row.attempt <= AttemptCap
         /\ rows' = [rows EXCEPT ![w.job] = row]
         /\ claimed' = [claimed EXCEPT ![c] =
               IF w.to = "processing" THEN @ \cup {<<w.job, row.attempt>>}
               ELSE Released(c, w.job)]
         /\ given' = IF w.to = "processing"
                     THEN [given EXCEPT ![w.job] = Append(@, row.attempt)] ELSE given
    /\ pending' = [pending EXCEPT ![c] = None]

\* It does not: status_changed_concurrently.
transitionOvertaken(c) ==
    /\ pending[c] # None
    /\ ~StatusStillRead(pending[c])
    /\ pending' = [pending EXCEPT ![c] = None]
    /\ claimed' = [claimed EXCEPT ![c] = Released(c, pending[c].job)]
    /\ UNCHANGED <<rows, given>>

\* (mutation) NULL is never due.
ElapsedNamed(wait, ahead) == wait # None /\ wait <= ahead

\* NULL is due, and so is what the named time has reached.
Elapsed(wait, ahead) == wait = None \/ wait <= ahead

\* Due at a time that lies ahead of the clock by so many ticks.
DueBy(j, ahead) ==
    /\ \/ rows[j].status = "scheduled" /\ Elapsed(rows[j].scheduledFor, ahead)
       \/ rows[j].status \in {"failed", "partial"} /\ Elapsed(rows[j].nextRetry, ahead)
    /\ rows[j].attempt < MaxAttempts

Due(j) == DueBy(j, 0)

\* (mutation) A claim does not count its attempt.
ClaimedSameAttempt(row) == [row EXCEPT !.status = "processing"]

ClaimedRow(row) == [row EXCEPT !.status = "processing", !.attempt = @ + 1]

\* One UPDATE over the rows due at the time the caller names.  SKIP LOCKED may
\* pass over any of them, and so does a time in the past.
claimDue(c, batch, ahead) ==
    /\ batch # {}
    /\ batch \subseteq {j \in Jobs : DueBy(j, ahead)}
    /\ Cardinality(batch) <= Limit
    /\ rows' = [j \in Jobs |-> IF j \in batch THEN ClaimedRow(rows[j]) ELSE rows[j]]
    /\ claimed' = [claimed EXCEPT ![c] = @ \cup {<<j, rows'[j].attempt>> : j \in batch}]
    /\ given' = [j \in Jobs |-> IF j \in batch THEN Append(given[j], rows'[j].attempt)
                                               ELSE given[j]]
    /\ UNCHANGED pending

\* A caller dies, or gives up what it was doing.
abandon(c) ==
    /\ pending' = [pending EXCEPT ![c] = None]
    /\ claimed' = [claimed EXCEPT ![c] = {}]
    /\ UNCHANGED <<rows, given>>

Sooner(wait) == IF wait \in {None, 0} THEN wait ELSE wait - 1

\* Time passes for the rows, and for timestamps named but not yet written.
clock ==
    /\ rows' = [j \in Jobs |->
          [rows[j] EXCEPT !.nextRetry = Sooner(@), !.scheduledFor = Sooner(@)]]
    /\ pending' = [c \in Callers |->
          IF pending[c] = None THEN None
          ELSE [pending[c] EXCEPT !.nextRetry = Sooner(@), !.scheduledFor = Sooner(@)]]
    /\ UNCHANGED <<claimed, given>>

\* What any caller of the API may do.
JobsNext ==
    \/ \E j \in Jobs, status \in Statuses, r, s \in Delays \cup {None} : create(j, status, r, s)
    \/ \E c \in Callers :
         \/ \E j \in Jobs, to \in Statuses, r, s \in Delays \cup {None},
               code \in Codes \cup {None} : transitionRead(c, j, to, r, s, code)
         \/ transitionWrite(c)
         \/ transitionOvertaken(c)
         \/ \E batch \in SUBSET Jobs, ahead \in Delays \cup {0} : claimDue(c, batch, ahead)
         \/ abandon(c)
    \/ clock

JobsSpec == JobsInit /\ [][JobsNext]_jobVars

-----------------------------------------------------------------------------
(* Properties.                                                             *)

JobsTypeOK ==
    /\ rows \in [Jobs -> Rows]
    /\ pending \in [Callers -> Writes \cup {None}]
    /\ claimed \in [Callers -> SUBSET (Jobs \X Nat)]
    /\ given \in [Jobs -> Seq(Nat)]

\* However late a caller writes what it decided on an earlier row, a status
\* only moves along the table or by a claim, and terminal rows stay as they are.
StatusFollowsTable ==
    [][\A j \in Jobs :
         /\ rows'[j].status # rows[j].status =>
              \/ rows[j].status = "absent"
              \/ rows'[j].status \in Transitions(rows[j].status)
         /\ rows[j].status \in Terminal => rows'[j].status = rows[j].status]_jobVars

\* The attempt number fences: each time a job is given out, by a claim or by a
\* transition, it is under a higher attempt than ever before, whether its
\* earlier holders reported, died or are still at work; and no two callers hold
\* one attempt at once.
OneCallerPerAttempt ==
    /\ \A j \in Jobs : \A i, k \in 1..Len(given[j]) : i < k => given[j][i] < given[j][k]
    /\ \A c, d \in Callers : c # d => claimed[c] \cap claimed[d] = {}

\* "reprocessing failed/partial enforces retry budget" (docs/developer/queues.md).
AttemptsWithinBudget == \A j \in Jobs : rows[j].attempt <= MaxAttempts
=============================================================================
