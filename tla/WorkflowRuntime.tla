--------------------------- MODULE WorkflowRuntime ---------------------------
(***************************************************************************)
(* The in-process workflow engine of packages/workflow: tool grants,       *)
(* idempotent enqueue, claims, retries with backoff and a dead-letter      *)
(* list, two-phase cancellation, expiring approvals and the reconciliation *)
(* of stale runs.  Every exported operation of runtime.js is synchronous,  *)
(* so each is one action; the concurrency is between the callers: workers, *)
(* operators, approvers, the reconciler and the clock.                     *)
(*                                                                         *)
(* A job's number is its place in claimJob's scan: partitions in creation  *)
(* order, then jobs in insertion order.  Time is kept as remaining ticks   *)
(* (backoff, ttl) or elapsed ticks (age), which is all the code compares.  *)
(***************************************************************************)
EXTENDS Integers, FiniteSets, Sequences

CONSTANTS
    NumJobs,        \* jobs that may be created
    TenantOf,       \* the tenant each job belongs to
    Keys,           \* idempotency keys
    Workers,        \* callers of claimJob
    NumApprovals,   \* approvals that may be requested
    MaxAttempts,    \* maxAttempts
    ApprovalTtl,    \* approvalTtlMs, in ticks
    StaleRunning,   \* staleRunningMs, in ticks
    BackoffTicks,   \* 2^attempts seconds, in ticks
    None

Jobs == 1..NumJobs
Approvals == 1..NumApprovals
Tenants == {TenantOf[j] : j \in Jobs}

ASSUME ConstantsOK ==
    /\ NumJobs \in Nat
    /\ NumApprovals \in Nat
    /\ MaxAttempts \in Nat \ {0}
    /\ ApprovalTtl \in Nat \ {0}
    /\ StaleRunning \in Nat
    /\ DOMAIN TenantOf = Jobs
    /\ BackoffTicks \in [1..MaxAttempts -> Nat]
    /\ None \notin Workers
    /\ None \notin Jobs
    /\ None \notin Approvals
    /\ None \notin Keys

VARIABLES
    jobs,          \* part.jobs
    idempotency,   \* part.idempotency: the registered (tenant, key) pairs
    grants,        \* part.grants: none, or one that covers the request
    approvals,     \* part.approvals
    deadLetters,   \* part.deadLetters
    view,          \* the state a reader of the outbox reconstructs for a job
    held,          \* the job each worker believes it is running
    claims,        \* history: successful claims of a job
    approvedEver   \* history: approvals some approver has approved

vars == <<jobs, idempotency, grants, approvals, deadLetters, view, held,
          claims, approvedEver>>

JobStates == {"queued", "running", "waiting_approval", "succeeded", "failed",
              "cancelled", "dead_letter"}
States == JobStates \cup {"absent"}
Terminal == {"succeeded", "cancelled", "dead_letter"}

JobRecords ==
    [state: States, attempts: Nat, requiresApproval: BOOLEAN,
     approvalRef: Approvals \cup {None}, backoff: Nat,
     workerId: Workers \cup {None}, age: Nat, cancelling: BOOLEAN,
     reconciledOnce: BOOLEAN, key: Keys \cup {None}]

ApprovalRecords ==
    [decision: {"absent", "pending", "approved", "rejected"},
     job: Jobs \cup {None}, bound: BOOLEAN, ttl: 0..ApprovalTtl]

\* (mutation) A job starts in a state that is not listed.
NewJobUnlisted(key, gated) ==
    [state |-> "pending", attempts |-> 0, requiresApproval |-> gated,
     approvalRef |-> None, backoff |-> 0, workerId |-> None, age |-> 0,
     cancelling |-> FALSE, reconciledOnce |-> FALSE, key |-> key]

\* createJob and the fields enqueueJob adds to it.
NewJob(key, gated) ==
    [state |-> "queued", attempts |-> 0, requiresApproval |-> gated,
     approvalRef |-> None, backoff |-> 0, workerId |-> None, age |-> 0,
     cancelling |-> FALSE, reconciledOnce |-> FALSE, key |-> key]

NoJob == [NewJob(None, FALSE) EXCEPT !.state = "absent"]

NoApproval == [decision |-> "absent", job |-> None, bound |-> FALSE, ttl |-> 0]

Init ==
    /\ jobs = [j \in Jobs |-> NoJob]
    /\ idempotency = {}
    /\ grants = [t \in Tenants |-> "none"]
    /\ approvals = [a \in Approvals |-> NoApproval]
    /\ deadLetters = <<>>
    /\ view = [j \in Jobs |-> "absent"]
    /\ held = [w \in Workers |-> None]
    /\ claims = [j \in Jobs |-> 0]
    /\ approvedEver = {}

-----------------------------------------------------------------------------
(* Job state machine and outbox.                                           *)

Successors(s) ==
    CASE s = "queued"           -> {"running", "cancelled"}
      [] s = "running"          -> {"waiting_approval", "succeeded", "failed",
                                    "cancelled"}
      [] s = "waiting_approval" -> {"running", "cancelled", "failed"}
      [] s = "failed"           -> {"queued", "dead_letter", "cancelled"}
      [] OTHER                  -> {}

\* transitionJob throws on a step outside its table.
Legal(j, next) == next \in Successors(jobs[j].state)

\* Only entering "running" counts an attempt, a resume included.
Moved(job, next) ==
    [job EXCEPT !.state = next,
                !.attempts = IF next = "running" THEN @ + 1 ELSE @]

\* What an in-order reader of the outbox makes of the next event.
Seen(v, event) ==
    CASE event \in {"queued", "requeued"}           -> "queued"
      [] event \in {"running", "approved_resumed"}  -> "running"
      [] event = "suspended"                        -> "waiting_approval"
      [] event \in {"succeeded", "failed", "cancelled", "dead_letter"} -> event
      [] event = "rejected" -> CASE v = "waiting_approval" -> "failed"
                                 [] v = "queued"           -> "cancelled"
                                 [] OTHER                  -> v
      [] OTHER              -> v

emit(j, event) == view' = [view EXCEPT ![j] = Seen(@, event)]

-----------------------------------------------------------------------------
(* Grants and enqueue.                                                     *)

registerToolGrant(t, requires) ==
    /\ grants' = [grants EXCEPT ![t] = requires]
    /\ UNCHANGED <<jobs, idempotency, approvals, deadLetters, view, held,
                   claims, approvedEver>>

\* The caller's flag, when present, overrides the grant's.
Gated(t, requested) == IF requested = None THEN grants[t] = "gated" ELSE requested

\* The job number a new job of its tenant takes.
NextSlot(j) ==
    /\ jobs[j].state = "absent"
    /\ \A k \in 1..(j - 1) : TenantOf[k] = TenantOf[j] => jobs[k].state # "absent"

\* (mutation) The key is not looked up.
UnregisteredAnyKey(t, key) == TRUE

\* A registered key makes the request a replay or, when the fingerprints
\* differ, a conflict: neither changes any state.
Unregistered(t, key) == <<t, key>> \notin idempotency

\* A key seen for the first time is registered and the job created.
enqueueJob(j, key, requested) ==
    LET t == TenantOf[j] IN
    /\ grants[t] # "none"
    /\ NextSlot(j)
    /\ Unregistered(t, key)
    /\ idempotency' = idempotency \cup {<<t, key>>}
    /\ jobs' = [jobs EXCEPT ![j] = NewJob(key, Gated(t, requested))]
    /\ emit(j, "queued")
    /\ UNCHANGED <<grants, approvals, deadLetters, held, claims, approvedEver>>

\* The key is registered before the payload is cloned: when structuredClone
\* throws, the registration stays and no job exists.
enqueueCloneFails(t, key) ==
    /\ grants[t] # "none"
    /\ Unregistered(t, key)
    /\ idempotency' = idempotency \cup {<<t, key>>}
    /\ UNCHANGED <<jobs, grants, approvals, deadLetters, view, held, claims,
                   approvedEver>>

-----------------------------------------------------------------------------
(* Claims and their outcomes.                                              *)

\* (mutation) Any approval of the request will do.
requireBoundApproval(j) ==
    /\ jobs[j].approvalRef # None
    /\ approvals[jobs[j].approvalRef].bound

\* requireValidApproval: bound to the job's request, approved, unexpired.
requireValidApproval(j) ==
    /\ jobs[j].approvalRef # None
    /\ LET a == approvals[jobs[j].approvalRef] IN
         /\ a.job = j
         /\ a.bound
         /\ a.decision = "approved"
         /\ a.ttl > 0

Claimable(j) ==
    /\ jobs[j].state = "queued"
    /\ jobs[j].backoff = 0
    /\ jobs[j].requiresApproval => requireValidApproval(j)

\* (mutation) Only the oldest queued job is looked at.
claimJobHeadOfLine(w) ==
    /\ held[w] = None
    /\ \E j \in Jobs :
         /\ Claimable(j)
         /\ \A k \in 1..(j - 1) : jobs[k].state # "queued"
         /\ jobs' = [jobs EXCEPT ![j] =
                        [Moved(@, "running") EXCEPT !.workerId = w, !.age = 0]]
         /\ held' = [held EXCEPT ![w] = j]
         /\ claims' = [claims EXCEPT ![j] = @ + 1]
         /\ emit(j, "running")
    /\ UNCHANGED <<idempotency, grants, approvals, deadLetters, approvedEver>>

\* The first claimable job of the scan goes to the caller.
claimJob(w) ==
    /\ held[w] = None
    /\ \E j \in Jobs :
         /\ Claimable(j)
         /\ \A k \in 1..(j - 1) : ~Claimable(k)
         /\ Legal(j, "running")
         /\ jobs' = [jobs EXCEPT ![j] =
                        [Moved(@, "running") EXCEPT !.workerId = w, !.age = 0]]
         /\ held' = [held EXCEPT ![w] = j]
         /\ claims' = [claims EXCEPT ![j] = @ + 1]
         /\ emit(j, "running")
    /\ UNCHANGED <<idempotency, grants, approvals, deadLetters, approvedEver>>

\* completeJob does not ask who is calling: any worker that still believes it
\* runs the job may report, and a pending cancellation is ignored.
completeJob(w) ==
    \E j \in Jobs :
       /\ held[w] = j
       /\ jobs[j].state = "running"
       /\ Legal(j, "succeeded")
       /\ jobs' = [jobs EXCEPT ![j] = Moved(@, "succeeded")]
       /\ held' = [held EXCEPT ![w] = None]
       /\ emit(j, "succeeded")
       /\ UNCHANGED <<idempotency, grants, approvals, deadLetters, claims,
                      approvedEver>>

\* (mutation) One retry too many.
BudgetLeftOffByOne(j) == jobs[j].attempts <= MaxAttempts

BudgetLeft(j) == jobs[j].attempts < MaxAttempts

\* (mutation) The job rests in "failed", the dead letter is only announced.
failJobDeadLetterTwice(w) ==
    \E j \in Jobs :
       /\ held[w] = j
       /\ jobs[j].state = "running"
       /\ ~BudgetLeft(j)
       /\ jobs' = [jobs EXCEPT ![j] = Moved(@, "failed")]
       /\ deadLetters' = Append(deadLetters, j)
       /\ held' = [held EXCEPT ![w] = None]
       /\ emit(j, "dead_letter")
       /\ UNCHANGED <<idempotency, grants, approvals, claims, approvedEver>>

\* failJob with the budget spent: failed, then dead_letter, in one call.
failJobDeadLetter(w) ==
    \E j \in Jobs :
       /\ held[w] = j
       /\ jobs[j].state = "running"
       /\ ~BudgetLeft(j)
       /\ Legal(j, "failed")
       /\ jobs' = [jobs EXCEPT ![j] = Moved(@, "dead_letter")]
       /\ deadLetters' = Append(deadLetters, j)
       /\ held' = [held EXCEPT ![w] = None]
       /\ emit(j, "dead_letter")
       /\ UNCHANGED <<idempotency, grants, approvals, claims, approvedEver>>

\* failJob with budget left: failed, then queued again behind a backoff.
failJobRetry(w) ==
    \E j \in Jobs :
       /\ held[w] = j
       /\ jobs[j].state = "running"
       /\ BudgetLeft(j)
       /\ Legal(j, "failed")
       /\ jobs' = [jobs EXCEPT ![j] =
                      [Moved(@, "queued") EXCEPT !.backoff = BackoffTicks[jobs[j].attempts]]]
       /\ held' = [held EXCEPT ![w] = None]
       /\ view' = [view EXCEPT ![j] = Seen(Seen(@, "failed"), "queued")]
       /\ UNCHANGED <<idempotency, grants, approvals, deadLetters, claims,
                      approvedEver>>

\* completeJob and failJob throw on a job that is not running: the worker has
\* nothing left to report and moves on.
reportRefused(w) ==
    /\ \E j \in Jobs : held[w] = j /\ jobs[j].state # "running"
    /\ held' = [held EXCEPT ![w] = None]
    /\ UNCHANGED <<jobs, idempotency, grants, approvals, deadLetters, view,
                   claims, approvedEver>>

\* A worker dies; one with its name may come back with empty hands.
workerCrash(w) ==
    /\ held[w] # None
    /\ held' = [held EXCEPT ![w] = None]
    /\ UNCHANGED <<jobs, idempotency, grants, approvals, deadLetters, view,
                   claims, approvedEver>>

-----------------------------------------------------------------------------
(* Cancellation.                                                           *)

\* A job that is not running is cancelled at once.
cancelIdleJob(j) ==
    /\ jobs[j].state \in {"queued", "waiting_approval"}
    /\ Legal(j, "cancelled")
    /\ jobs' = [jobs EXCEPT ![j] = Moved(@, "cancelled")]
    /\ emit(j, "cancelled")
    /\ UNCHANGED <<idempotency, grants, approvals, deadLetters, held, claims,
                   approvedEver>>

\* A running job is only marked; the mark survives a requeue.
cancelRunningJob(j) ==
    /\ jobs[j].state = "running"
    /\ jobs' = [jobs EXCEPT ![j].cancelling = TRUE]
    /\ emit(j, "cancelling")
    /\ UNCHANGED <<idempotency, grants, approvals, deadLetters, held, claims,
                   approvedEver>>

confirmCancel(j) ==
    /\ jobs[j].state = "running"
    /\ jobs[j].cancelling
    /\ Legal(j, "cancelled")
    /\ jobs' = [jobs EXCEPT ![j] = Moved(@, "cancelled")]
    /\ emit(j, "cancelled")
    /\ UNCHANGED <<idempotency, grants, approvals, deadLetters, held, claims,
                   approvedEver>>

-----------------------------------------------------------------------------
(* Approvals.                                                              *)

FreshApproval(a) ==
    /\ approvals[a].decision = "absent"
    /\ \A b \in 1..(a - 1) : approvals[b].decision # "absent"

\* bound is FALSE when the caller names another action or resource.
PendingApproval(j, bound) ==
    [decision |-> "pending", job |-> j, bound |-> bound, ttl |-> ApprovalTtl]

\* A running job suspends; a queued one only points at the new approval.
requestApproval(j, a, bound) ==
    /\ FreshApproval(a)
    /\ approvals' = [approvals EXCEPT ![a] = PendingApproval(j, bound)]
    /\ \/ /\ jobs[j].state = "running"
          /\ Legal(j, "waiting_approval")
          /\ jobs' = [jobs EXCEPT ![j] =
                         [Moved(@, "waiting_approval") EXCEPT !.approvalRef = a]]
          /\ emit(j, "suspended")
       \/ /\ jobs[j].state = "queued"
          /\ jobs' = [jobs EXCEPT ![j].approvalRef = a]
          /\ emit(j, "pre_claim")
    /\ UNCHANGED <<idempotency, grants, deadLetters, held, claims, approvedEver>>

\* decideApproval asks for an unexpired approval, decided before or not, and
\* never whether it is the one the job points at now.
Decidable(a) == approvals[a].decision # "absent" /\ approvals[a].ttl > 0

ResumeOnApproval(j) ==
    IF jobs[j].state = "waiting_approval"
    THEN /\ jobs' = [jobs EXCEPT ![j] = [Moved(@, "running") EXCEPT !.backoff = 0]]
         /\ emit(j, "approved_resumed")
    ELSE UNCHANGED jobs /\ emit(j, "approved_pre_claim")

approve(a) ==
    /\ Decidable(a)
    /\ approvals' = [approvals EXCEPT ![a].decision = "approved"]
    /\ approvedEver' = approvedEver \cup {a}
    /\ ResumeOnApproval(approvals[a].job)
    /\ UNCHANGED <<idempotency, grants, deadLetters, held, claims>>

\* (mutation) A rejection leaves a queued job alone.
AfterRejectionQueuedStays(job) ==
    IF job.state = "waiting_approval" THEN Moved(job, "failed") ELSE job

\* A waiting job rests in "failed"; a queued one is cancelled; any other only
\* has the rejection announced.
AfterRejection(job) ==
    CASE job.state = "waiting_approval" -> Moved(job, "failed")
      [] job.state = "queued"           -> Moved(job, "cancelled")
      [] OTHER                          -> job

reject(a) ==
    LET j == approvals[a].job IN
    /\ Decidable(a)
    /\ approvals' = [approvals EXCEPT ![a].decision = "rejected"]
    /\ jobs' = [jobs EXCEPT ![j] = AfterRejection(@)]
    /\ emit(j, "rejected")
    /\ UNCHANGED <<idempotency, grants, deadLetters, held, claims, approvedEver>>

-----------------------------------------------------------------------------
(* Reconciliation and time.                                                *)

\* A resume does not restart the age: startedAt is set by claimJob alone.
Stale(j) ==
    /\ jobs[j].state = "running"
    /\ ~jobs[j].reconciledOnce
    /\ jobs[j].age > StaleRunning

\* (mutation) A reconciled job is not marked.
reconcileUnmarked ==
    /\ \E j \in Jobs : Stale(j)
    /\ jobs' = [j \in Jobs |-> IF Stale(j) THEN Moved(jobs[j], "queued") ELSE jobs[j]]
    /\ view' = [j \in Jobs |-> IF Stale(j) THEN Seen(view[j], "requeued") ELSE view[j]]
    /\ UNCHANGED <<idempotency, grants, approvals, deadLetters, held, claims,
                   approvedEver>>

\* Every stale run goes failed, then queued, whatever its attempts; no backoff
\* is set and the holder is not told.
reconcile ==
    /\ \E j \in Jobs : Stale(j)
    /\ jobs' = [j \in Jobs |->
                  IF Stale(j)
                  THEN [Moved(jobs[j], "queued") EXCEPT !.reconciledOnce = TRUE]
                  ELSE jobs[j]]
    /\ view' = [j \in Jobs |-> IF Stale(j) THEN Seen(view[j], "requeued") ELSE view[j]]
    /\ UNCHANGED <<idempotency, grants, approvals, deadLetters, held, claims,
                   approvedEver>>

Older(job) ==
    [job EXCEPT !.backoff = IF @ > 0 THEN @ - 1 ELSE 0,
                !.age = IF job.state \in {"running", "waiting_approval"} /\ @ <= StaleRunning
                        THEN @ + 1 ELSE @]

tick ==
    /\ jobs' = [j \in Jobs |-> Older(jobs[j])]
    /\ approvals' = [a \in Approvals |->
                       [approvals[a] EXCEPT !.ttl = IF @ > 0 THEN @ - 1 ELSE 0]]
    /\ UNCHANGED <<idempotency, grants, deadLetters, view, held, claims,
                   approvedEver>>

-----------------------------------------------------------------------------

WorkerStep(w) ==
    \/ claimJob(w)
    \/ completeJob(w)
    \/ failJobDeadLetter(w)
    \/ failJobRetry(w)
    \/ reportRefused(w)

Next ==
    \/ \E t \in Tenants, g \in {"open", "gated"} : registerToolGrant(t, g)
    \/ \E j \in Jobs, key \in Keys, requested \in {None, TRUE, FALSE} :
          enqueueJob(j, key, requested)
    \/ \E t \in Tenants, key \in Keys : enqueueCloneFails(t, key)
    \/ \E w \in Workers : WorkerStep(w) \/ workerCrash(w)
    \/ \E j \in Jobs : cancelIdleJob(j) \/ cancelRunningJob(j) \/ confirmCancel(j)
    \/ \E j \in Jobs, a \in Approvals, bound \in BOOLEAN : requestApproval(j, a, bound)
    \/ \E a \in Approvals : approve(a) \/ reject(a)
    \/ reconcile
    \/ tick

Spec == Init /\ [][Next]_vars

\* Workers poll and finish or fail what they hold, the reconciler runs, and
\* time passes.  Nobody is obliged to enqueue, cancel, approve or die.
Fairness ==
    /\ \A w \in Workers : WF_vars(WorkerStep(w))
    /\ WF_vars(reconcile)
    /\ WF_vars(tick)

FairSpec == Spec /\ Fairness

-----------------------------------------------------------------------------
(* Properties.                                                             *)

\* The types of the runtime's maps and of what its users believe.
TypeOK ==
    /\ jobs \in [Jobs -> JobRecords]
    /\ idempotency \subseteq Tenants \X Keys
    /\ grants \in [Tenants -> {"none", "open", "gated"}]
    /\ approvals \in [Approvals -> ApprovalRecords]
    /\ deadLetters \in Seq(Jobs)
    /\ view \in [Jobs -> States]
    /\ held \in [Workers -> Jobs \cup {None}]
    /\ claims \in [Jobs -> Nat]
    /\ approvedEver \subseteq Approvals

\* A job that needs approval has never been started unless an approver once
\* approved an approval bound to that very job's request: claims, retries,
\* resumes, re-decisions and reconciliation leave no other way in.
GatedRunApproved ==
    \A j \in Jobs :
       jobs[j].requiresApproval /\ jobs[j].attempts > 0 =>
          \E a \in approvedEver : approvals[a].job = j /\ approvals[a].bound

\* Retries are bounded: a job is claimed at most MaxAttempts times, plus once
\* more when reconciliation took it from a stale run (reconcile ignores the
\* budget, and reconciledOnce lets it act only once).
ClaimsBounded ==
    \A j \in Jobs :
       claims[j] <= MaxAttempts + (IF jobs[j].reconciledOnce THEN 1 ELSE 0)

\* Two workers believe they run one job only if reconciliation took it from
\* the first; until then a report can only come from the job's own worker.
OneHolderUnlessReconciled ==
    \A j \in Jobs : ~jobs[j].reconciledOnce =>
       \A v, w \in Workers : held[v] = j /\ held[w] = j => v = w

\* The dead-letter list names exactly the jobs in dead_letter, each once, and
\* each spent its whole budget.
DeadLettersExact ==
    /\ {deadLetters[i] : i \in DOMAIN deadLetters}
         = {j \in Jobs : jobs[j].state = "dead_letter"}
    /\ \A i, k \in DOMAIN deadLetters : deadLetters[i] = deadLetters[k] => i = k
    /\ \A j \in Jobs : jobs[j].state = "dead_letter" => jobs[j].attempts >= MaxAttempts

\* A reader that applies the outbox events in order knows the state of every
\* job, although a rejection is announced with one event whatever it does.
OutboxTellsState == \A j \in Jobs : view[j] = jobs[j].state

\* No two jobs of a tenant share an idempotency key, and a job's key stays
\* registered for as long as the job exists.
OneJobPerKey ==
    \A j \in Jobs : jobs[j].state # "absent" =>
       /\ <<TenantOf[j], jobs[j].key>> \in idempotency
       /\ \A k \in Jobs : /\ jobs[k].state # "absent"
                          /\ TenantOf[k] = TenantOf[j]
                          /\ jobs[k].key = jobs[j].key
                          => k = j

\* Together: the list and the registry that are kept beside the jobs, and that
\* operators and retrying callers go by, agree with the jobs.
IndexesAgree == DeadLettersExact /\ OneJobPerKey

\* A replayed enqueue finds the job its key was registered for
\* (test/workflow-runtime.test.js: "replays the original job").
ReplayFindsJob ==
    \A r \in idempotency :
       \E j \in Jobs : /\ jobs[j].state # "absent"
                       /\ TenantOf[j] = r[1]
                       /\ jobs[j].key = r[2]

\* Where a job may rest for ever: finished, rejected, waiting for a decision,
\* queued behind a gate nobody opens, or running with nobody behind it after
\* its only reconciliation.
AtRest(j) ==
    \/ jobs[j].state \in Terminal \cup {"failed", "waiting_approval"}
    \/ jobs[j].state = "queued" /\ jobs[j].requiresApproval
    \/ /\ jobs[j].state = "running"
       /\ jobs[j].reconciledOnce
       /\ \A w \in Workers : held[w] # j

\* Every enqueued job comes to rest: retries end, backoffs elapse, a stale run
\* is picked up, and no job starves behind the jobs before it in the scan.
JobsComeToRest == \A j \in Jobs : jobs[j].state # "absent" ~> AtRest(j)
=============================================================================
