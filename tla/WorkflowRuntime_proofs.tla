----------------------- MODULE WorkflowRuntime_proofs ------------------------
(***************************************************************************)
(* What WorkflowRuntime guarantees for every number of jobs, workers and   *)
(* approvals and every budget, backoff, expiry and staleness threshold.    *)
(***************************************************************************)
EXTENDS WorkflowRuntime, TLAPS

USE DEF Jobs, Approvals, JobStates, States, Terminal

\* A job that has been started counts an attempt; one that does not exist yet
\* has neither attempts nor a reconciliation behind it.
StartedCounts ==
    \A j \in Jobs :
       /\ jobs[j].state \in {"running", "waiting_approval"} => jobs[j].attempts > 0
       /\ jobs[j].state = "absent" => jobs[j].attempts = 0 /\ ~jobs[j].reconciledOnce

\* Claims never outnumber attempts, and a queued job has one to spare.
ClaimBudget ==
    \A j \in Jobs :
       /\ claims[j] <= jobs[j].attempts
       /\ claims[j] <= MaxAttempts + (IF jobs[j].reconciledOnce THEN 1 ELSE 0)
       /\ jobs[j].state \in {"absent", "queued"} =>
            claims[j] < MaxAttempts + (IF jobs[j].reconciledOnce THEN 1 ELSE 0)

\* approvedEver remembers every approved decision, and names real approvals.
ApprovalsRemembered ==
    \A a \in Approvals :
       /\ approvals[a].decision = "approved" => a \in approvedEver
       /\ a \in approvedEver => approvals[a].decision # "absent"
       /\ approvals[a].decision # "absent" => approvals[a].job \in Jobs

\* Before its reconciliation a job that can be claimed is held by nobody.
QueuedIsFree ==
    \A j \in Jobs : \A w \in Workers :
       held[w] = j /\ ~jobs[j].reconciledOnce => jobs[j].state \notin {"absent", "queued"}

IInv ==
    /\ TypeOK
    /\ StartedCounts
    /\ ClaimBudget
    /\ ApprovalsRemembered
    /\ GatedRunApproved
    /\ QueuedIsFree
    /\ OneHolderUnlessReconciled
    /\ OutboxTellsState

-----------------------------------------------------------------------------

\* Moving a job keeps it a job record; only the state and the attempts change.
LEMMA MovedType ==
    ASSUME NEW job \in JobRecords, NEW next \in States
    PROVE  /\ Moved(job, next) \in JobRecords
           /\ Moved(job, next).state = next
           /\ Moved(job, next).attempts \in Nat
           /\ Moved(job, next).attempts >= job.attempts
           /\ next = "running" => Moved(job, next).attempts = job.attempts + 1
           /\ Moved(job, next).requiresApproval = job.requiresApproval
           /\ Moved(job, next).reconciledOnce = job.reconciledOnce
           /\ Moved(job, next).approvalRef = job.approvalRef
           /\ next # "running" => Moved(job, next).attempts = job.attempts
  <1>1. job.attempts \in Nat /\ job.attempts + 1 \in Nat
    BY DEF JobRecords
  <1>2. (IF next = "running" THEN job.attempts + 1 ELSE job.attempts) \in Nat
    BY <1>1
  <1>3. Moved(job, next) \in JobRecords
    BY <1>2 DEF Moved, JobRecords
  <1>4. QED
    BY <1>1, <1>3 DEF Moved, JobRecords

\* A fresh job is a job record.
LEMMA NewJobType ==
    ASSUME NEW key \in Keys \cup {None}, NEW gated \in BOOLEAN
    PROVE  NewJob(key, gated) \in JobRecords
  BY DEF NewJob, JobRecords

\* The placeholder of a job not yet created is a job record.
LEMMA NoJobType == NoJob \in JobRecords
  BY DEF NoJob, NewJob, JobRecords

\* What the outbox reader concludes is a job state.
LEMMA SeenType ==
    ASSUME NEW v \in States, NEW event
    PROVE  Seen(v, event) \in States
  BY DEF Seen

\* An engine without jobs, approvals or holders satisfies the invariant.
THEOREM InitInv == Init => IInv
  <1> SUFFICES ASSUME Init PROVE IInv
    OBVIOUS
  <1>1. TypeOK
    BY NoJobType, ConstantsOK DEF Init, TypeOK, NoApproval, ApprovalRecords, Tenants
  <1>2. QED
    BY <1>1, ConstantsOK DEF Init, IInv, StartedCounts, ClaimBudget, ApprovalsRemembered,
       GatedRunApproved, QueuedIsFree, OneHolderUnlessReconciled, OutboxTellsState,
       NoJob, NewJob, NoApproval

-----------------------------------------------------------------------------
(* Steps that replace one job by a record r.                               *)

\* The types of the state after such a step.
LEMMA UpdateType ==
    ASSUME TypeOK, NEW j \in Jobs, NEW r \in JobRecords, NEW event,
           jobs' = [jobs EXCEPT ![j] = r],
           view' = [view EXCEPT ![j] = Seen(@, event)]
    PROVE  /\ jobs' \in [Jobs -> JobRecords]
           /\ view' \in [Jobs -> States]
           /\ \A k \in Jobs : jobs'[k] = IF k = j THEN r ELSE jobs[k]
           /\ \A k \in Jobs : view'[k] = IF k = j THEN Seen(view[j], event) ELSE view[k]
  <1>1. Seen(view[j], event) \in States
    BY SeenType DEF TypeOK
  <1>2. QED
    BY <1>1 DEF TypeOK

\* The invariant over jobs, claims and holders when r keeps the flags of the
\* job it replaces and claims do not change.
LEMMA UpdateInv ==
    ASSUME IInv, NEW j \in Jobs, NEW r \in JobRecords,
           \A k \in Jobs : jobs'[k] = IF k = j THEN r ELSE jobs[k],
           \A k \in Jobs : view'[k] = IF k = j THEN r.state ELSE view[k],
           UNCHANGED claims,
           r.attempts >= jobs[j].attempts,
           r.reconciledOnce = jobs[j].reconciledOnce,
           r.state \in {"running", "waiting_approval"} => r.attempts > 0,
           r.state = "queued" => \/ jobs[j].state \in {"absent", "queued"}
                                 \/ r.attempts < MaxAttempts,
           r.state # "absent"
    PROVE  StartedCounts' /\ ClaimBudget' /\ OutboxTellsState'
  <1>1. StartedCounts'
    BY DEF IInv, StartedCounts
  <1>2. ClaimBudget'
    <2> SUFFICES ASSUME NEW k \in Jobs
                 PROVE  /\ claims[k] <= jobs'[k].attempts
                        /\ claims[k] <= MaxAttempts
                             + (IF jobs'[k].reconciledOnce THEN 1 ELSE 0)
                        /\ jobs'[k].state \in {"absent", "queued"} =>
                             claims[k] < MaxAttempts
                               + (IF jobs'[k].reconciledOnce THEN 1 ELSE 0)
      BY DEF ClaimBudget
    <2>1. /\ claims[j] \in Nat /\ r.attempts \in Nat /\ jobs[j].attempts \in Nat
          /\ MaxAttempts \in Nat /\ jobs'[j] = r
      BY ConstantsOK DEF IInv, TypeOK, JobRecords
    <2>2. CASE k = j
      BY <2>1, <2>2 DEF IInv, ClaimBudget
    <2>3. CASE k # j
      BY <2>3 DEF IInv, ClaimBudget
    <2>4. QED
      BY <2>2, <2>3
  <1>3. QED
    BY <1>1, <1>2 DEF IInv, OutboxTellsState

\* Holders are safe when the worker that reports lets go, or when nobody
\* reports and the job does not go back to the queue.
LEMMA HolderInv ==
    ASSUME IInv, NEW j \in Jobs, NEW r \in JobRecords,
           \A k \in Jobs : jobs'[k] = IF k = j THEN r ELSE jobs[k],
           r.reconciledOnce = jobs[j].reconciledOnce,
           \/ /\ UNCHANGED held
              /\ r.state = "queued" => jobs[j].state \in {"absent", "queued"}
              /\ r.state # "absent"
           \/ \E w \in Workers : held[w] = j /\ held' = [held EXCEPT ![w] = None]
    PROVE  QueuedIsFree' /\ OneHolderUnlessReconciled'
  <1>1. CASE UNCHANGED held /\ (r.state = "queued" => jobs[j].state \in {"absent", "queued"})
                            /\ r.state # "absent"
    BY <1>1 DEF IInv, TypeOK, QueuedIsFree, OneHolderUnlessReconciled
  <1>2. ASSUME NEW w \in Workers, held[w] = j, held' = [held EXCEPT ![w] = None]
        PROVE  QueuedIsFree' /\ OneHolderUnlessReconciled'
    <2>1. \A v \in Workers : held'[v] = IF v = w THEN None ELSE held[v]
      BY <1>2 DEF IInv, TypeOK
    <2>2. OneHolderUnlessReconciled'
      BY <2>1, ConstantsOK DEF IInv, OneHolderUnlessReconciled
    <2>3. \A v \in Workers : ~jobs[j].reconciledOnce => held'[v] # j
      BY <1>2, <2>1, ConstantsOK DEF IInv, OneHolderUnlessReconciled
    <2>4. QED
      BY <2>1, <2>2, <2>3, ConstantsOK DEF IInv, QueuedIsFree
  <1>3. QED
    BY <1>1, <1>2

\* Gates hold when approvals do not change and a gated job without an attempt
\* gets none.
LEMMA GateInv ==
    ASSUME IInv, NEW j \in Jobs, NEW r \in JobRecords,
           \A k \in Jobs : jobs'[k] = IF k = j THEN r ELSE jobs[k],
           UNCHANGED <<approvals, approvedEver>>,
           r.attempts > 0 => /\ jobs[j].attempts > 0
                             /\ r.requiresApproval = jobs[j].requiresApproval
    PROVE  GatedRunApproved' /\ ApprovalsRemembered'
  BY DEF IInv, GatedRunApproved, ApprovalsRemembered

\* enqueueJob of a key seen for the first time.
LEMMA EnqueueInv ==
    ASSUME IInv, NEW j \in Jobs, NEW key \in Keys,
           NEW requested \in {None, TRUE, FALSE}, enqueueJob(j, key, requested)
    PROVE  IInv'
  <1> DEFINE gated == Gated(TenantOf[j], requested)
             r == NewJob(key, gated)
  <1>1. r \in JobRecords
    BY NewJobType, ConstantsOK DEF Gated
  <1>2. /\ jobs' = [jobs EXCEPT ![j] = r]
        /\ view' = [view EXCEPT ![j] = Seen(@, "queued")]
        /\ jobs[j].state = "absent"
        /\ idempotency' = idempotency \cup {<<TenantOf[j], key>>}
        /\ UNCHANGED <<grants, approvals, deadLetters, held, claims, approvedEver>>
    BY DEF enqueueJob, NextSlot, emit
  <1>3. /\ r.state = "queued" /\ r.attempts = 0 /\ r.reconciledOnce = FALSE
    BY DEF NewJob
  <1>4. jobs[j].attempts = 0 /\ jobs[j].reconciledOnce = FALSE
    BY <1>2 DEF IInv, StartedCounts, TypeOK, JobRecords
  <1> HIDE DEF r, gated
  <1>5. /\ jobs' \in [Jobs -> JobRecords]
        /\ view' \in [Jobs -> States]
        /\ \A k \in Jobs : jobs'[k] = IF k = j THEN r ELSE jobs[k]
        /\ \A k \in Jobs : view'[k] = IF k = j THEN Seen(view[j], "queued") ELSE view[k]
    BY <1>1, <1>2, UpdateType DEF IInv
  <1>6. \A k \in Jobs : view'[k] = IF k = j THEN r.state ELSE view[k]
    BY <1>3, <1>5 DEF Seen
  <1>7. TypeOK'
    <2>1. TenantOf[j] \in Tenants
      BY DEF Tenants
    <2>2. idempotency' \subseteq Tenants \X Keys
      BY <1>2, <2>1 DEF IInv, TypeOK
    <2>3. QED
      BY <1>2, <1>5, <2>2 DEF IInv, TypeOK
  <1>8. StartedCounts' /\ ClaimBudget' /\ OutboxTellsState'
    <2>1. /\ UNCHANGED claims
          /\ r.attempts >= jobs[j].attempts
          /\ r.reconciledOnce = jobs[j].reconciledOnce
          /\ r.state \notin {"running", "waiting_approval", "absent"}
      BY <1>1, <1>2, <1>3, <1>4 DEF IInv, TypeOK, JobRecords
    <2>2. QED
      BY <1>1, <1>2, <1>5, <1>6, <2>1, UpdateInv
  <1>9. QueuedIsFree' /\ OneHolderUnlessReconciled'
    BY <1>1, <1>2, <1>3, <1>4, <1>5, HolderInv
  <1>10. GatedRunApproved' /\ ApprovalsRemembered'
    BY <1>1, <1>2, <1>3, <1>5, GateInv
  <1>11. QED
    BY <1>7, <1>8, <1>9, <1>10 DEF IInv

\* Every other step on one existing job: r is what the job becomes, event what
\* the outbox says of it.
LEMMA StepInv ==
    ASSUME IInv, NEW j \in Jobs, NEW r \in JobRecords, NEW event,
           jobs' = [jobs EXCEPT ![j] = r],
           view' = [view EXCEPT ![j] = Seen(@, event)],
           Seen(jobs[j].state, event) = r.state,
           UNCHANGED <<idempotency, grants, claims>>,
           deadLetters' \in Seq(Jobs),
           approvals' \in [Approvals -> ApprovalRecords],
           approvedEver' \subseteq Approvals,
           r.attempts >= jobs[j].attempts,
           r.reconciledOnce = jobs[j].reconciledOnce,
           r.state \in {"running", "waiting_approval"} => r.attempts > 0,
           r.state = "queued" => jobs[j].state = "queued" \/ r.attempts < MaxAttempts,
           r.state # "absent",
           \/ UNCHANGED held /\ (r.state = "queued" => jobs[j].state = "queued")
           \/ \E w \in Workers : held[w] = j /\ held' = [held EXCEPT ![w] = None],
           GatedRunApproved',
           ApprovalsRemembered'
    PROVE  IInv'
  <1>1. /\ jobs' \in [Jobs -> JobRecords]
        /\ view' \in [Jobs -> States]
        /\ \A k \in Jobs : jobs'[k] = IF k = j THEN r ELSE jobs[k]
        /\ \A k \in Jobs : view'[k] = IF k = j THEN Seen(view[j], event) ELSE view[k]
    BY UpdateType DEF IInv
  <1>2. \A k \in Jobs : view'[k] = IF k = j THEN r.state ELSE view[k]
    BY <1>1 DEF IInv, OutboxTellsState
  <1>3. held' \in [Workers -> Jobs \cup {None}]
    BY DEF IInv, TypeOK
  <1>4. TypeOK'
    BY <1>1, <1>3 DEF IInv, TypeOK
  <1>5. StartedCounts' /\ ClaimBudget' /\ OutboxTellsState'
    BY <1>1, <1>2, UpdateInv
  <1>6. QueuedIsFree' /\ OneHolderUnlessReconciled'
    BY <1>1, HolderInv
  <1>7. QED
    BY <1>4, <1>5, <1>6 DEF IInv

\* A report, a cancellation or a mark: no attempt is counted and no approval
\* changes.
LEMMA QuietStepInv ==
    ASSUME IInv, NEW j \in Jobs, NEW r \in JobRecords, NEW event,
           jobs' = [jobs EXCEPT ![j] = r],
           view' = [view EXCEPT ![j] = Seen(@, event)],
           Seen(jobs[j].state, event) = r.state,
           UNCHANGED <<idempotency, grants, claims, approvals, approvedEver>>,
           deadLetters' \in Seq(Jobs),
           r.attempts = jobs[j].attempts,
           r.reconciledOnce = jobs[j].reconciledOnce,
           r.requiresApproval = jobs[j].requiresApproval,
           jobs[j].state \in {"running", "waiting_approval", "queued"},
           r.state \in {"running", "waiting_approval"} => r.attempts > 0,
           r.state = "queued" => jobs[j].state = "queued" \/ r.attempts < MaxAttempts,
           r.state # "absent",
           \/ UNCHANGED held /\ (r.state = "queued" => jobs[j].state = "queued")
           \/ \E w \in Workers : held[w] = j /\ held' = [held EXCEPT ![w] = None]
    PROVE  IInv'
  <1>1. \A k \in Jobs : jobs'[k] = IF k = j THEN r ELSE jobs[k]
    BY UpdateType DEF IInv
  <1>2. GatedRunApproved' /\ ApprovalsRemembered'
    BY <1>1, GateInv
  <1>3. /\ r.attempts >= jobs[j].attempts
        /\ approvals' \in [Approvals -> ApprovalRecords]
        /\ approvedEver' \subseteq Approvals
    BY DEF IInv, TypeOK, JobRecords
  <1>4. QED
    BY <1>2, <1>3, StepInv

\* completeJob.
LEMMA CompleteInv ==
    ASSUME IInv, NEW w \in Workers, completeJob(w)
    PROVE  IInv'
  <1>1. PICK j \in Jobs :
          /\ held[w] = j
          /\ jobs[j].state = "running"
          /\ jobs' = [jobs EXCEPT ![j] = Moved(@, "succeeded")]
          /\ held' = [held EXCEPT ![w] = None]
          /\ emit(j, "succeeded")
          /\ UNCHANGED <<idempotency, grants, approvals, deadLetters, claims, approvedEver>>
    BY DEF completeJob
  <1> DEFINE r == Moved(jobs[j], "succeeded")
  <1>2. /\ r \in JobRecords
        /\ r.state = "succeeded"
        /\ r.attempts = jobs[j].attempts
        /\ r.reconciledOnce = jobs[j].reconciledOnce
        /\ r.requiresApproval = jobs[j].requiresApproval
    BY <1>1, MovedType DEF IInv, TypeOK
  <1>3. /\ jobs' = [jobs EXCEPT ![j] = r]
        /\ view' = [view EXCEPT ![j] = Seen(@, "succeeded")]
        /\ UNCHANGED <<idempotency, grants, claims, approvals, approvedEver>>
        /\ deadLetters' \in Seq(Jobs)
    BY <1>1 DEF emit, IInv, TypeOK
  <1> HIDE DEF r
  <1>4. Seen(jobs[j].state, "succeeded") = r.state
    BY <1>1, <1>2 DEF Seen
  <1>5. jobs[j].attempts > 0 \/ r.state \notin {"running", "waiting_approval"}
    BY <1>1, <1>2 DEF IInv, StartedCounts
  <1>6. QED
    BY <1>1, <1>2, <1>3, <1>4, <1>5, QuietStepInv

\* failJob with the budget spent.
LEMMA DeadLetterInv ==
    ASSUME IInv, NEW w \in Workers, failJobDeadLetter(w)
    PROVE  IInv'
  <1>1. PICK j \in Jobs :
          /\ held[w] = j
          /\ jobs[j].state = "running"
          /\ jobs' = [jobs EXCEPT ![j] = Moved(@, "dead_letter")]
          /\ deadLetters' = Append(deadLetters, j)
          /\ held' = [held EXCEPT ![w] = None]
          /\ emit(j, "dead_letter")
          /\ UNCHANGED <<idempotency, grants, approvals, claims, approvedEver>>
    BY DEF failJobDeadLetter
  <1> DEFINE r == Moved(jobs[j], "dead_letter")
  <1>2. /\ r \in JobRecords
        /\ r.state = "dead_letter"
        /\ r.attempts = jobs[j].attempts
        /\ r.reconciledOnce = jobs[j].reconciledOnce
        /\ r.requiresApproval = jobs[j].requiresApproval
    BY <1>1, MovedType DEF IInv, TypeOK
  <1>3. /\ jobs' = [jobs EXCEPT ![j] = r]
        /\ view' = [view EXCEPT ![j] = Seen(@, "dead_letter")]
        /\ UNCHANGED <<idempotency, grants, claims, approvals, approvedEver>>
        /\ deadLetters' \in Seq(Jobs)
    BY <1>1 DEF emit, IInv, TypeOK
  <1> HIDE DEF r
  <1>4. Seen(jobs[j].state, "dead_letter") = r.state
    BY <1>1, <1>2 DEF Seen
  <1>5. jobs[j].attempts > 0 \/ r.state \notin {"running", "waiting_approval"}
    BY <1>1, <1>2 DEF IInv, StartedCounts
  <1>6. QED
    BY <1>1, <1>2, <1>3, <1>4, <1>5, QuietStepInv

\* cancelJob of a job that is not running.
LEMMA CancelIdleInv ==
    ASSUME IInv, NEW j \in Jobs, cancelIdleJob(j)
    PROVE  IInv'
  <1>1. /\ jobs[j].state \in {"queued", "waiting_approval"}
        /\ jobs' = [jobs EXCEPT ![j] = Moved(@, "cancelled")]
        /\ emit(j, "cancelled")
        /\ UNCHANGED <<idempotency, grants, approvals, deadLetters, held, claims, approvedEver>>
    BY DEF cancelIdleJob
  <1> DEFINE r == Moved(jobs[j], "cancelled")
  <1>2. /\ r \in JobRecords
        /\ r.state = "cancelled"
        /\ r.attempts = jobs[j].attempts
        /\ r.reconciledOnce = jobs[j].reconciledOnce
        /\ r.requiresApproval = jobs[j].requiresApproval
    BY <1>1, MovedType DEF IInv, TypeOK
  <1>3. /\ jobs' = [jobs EXCEPT ![j] = r]
        /\ view' = [view EXCEPT ![j] = Seen(@, "cancelled")]
        /\ UNCHANGED <<idempotency, grants, claims, approvals, approvedEver>>
        /\ deadLetters' \in Seq(Jobs)
    BY <1>1 DEF emit, IInv, TypeOK
  <1> HIDE DEF r
  <1>4. Seen(jobs[j].state, "cancelled") = r.state
    BY <1>1, <1>2 DEF Seen
  <1>5. jobs[j].attempts > 0 \/ r.state \notin {"running", "waiting_approval"}
    BY <1>1, <1>2 DEF IInv, StartedCounts
  <1>6. QED
    BY <1>1, <1>2, <1>3, <1>4, <1>5, QuietStepInv

\* confirmCancel.
LEMMA ConfirmInv ==
    ASSUME IInv, NEW j \in Jobs, confirmCancel(j)
    PROVE  IInv'
  <1>1. /\ jobs[j].state = "running"
        /\ jobs' = [jobs EXCEPT ![j] = Moved(@, "cancelled")]
        /\ emit(j, "cancelled")
        /\ UNCHANGED <<idempotency, grants, approvals, deadLetters, held, claims, approvedEver>>
    BY DEF confirmCancel
  <1> DEFINE r == Moved(jobs[j], "cancelled")
  <1>2. /\ r \in JobRecords
        /\ r.state = "cancelled"
        /\ r.attempts = jobs[j].attempts
        /\ r.reconciledOnce = jobs[j].reconciledOnce
        /\ r.requiresApproval = jobs[j].requiresApproval
    BY <1>1, MovedType DEF IInv, TypeOK
  <1>3. /\ jobs' = [jobs EXCEPT ![j] = r]
        /\ view' = [view EXCEPT ![j] = Seen(@, "cancelled")]
        /\ UNCHANGED <<idempotency, grants, claims, approvals, approvedEver>>
        /\ deadLetters' \in Seq(Jobs)
    BY <1>1 DEF emit, IInv, TypeOK
  <1> HIDE DEF r
  <1>4. Seen(jobs[j].state, "cancelled") = r.state
    BY <1>1, <1>2 DEF Seen
  <1>5. jobs[j].attempts > 0 \/ r.state \notin {"running", "waiting_approval"}
    BY <1>1, <1>2 DEF IInv, StartedCounts
  <1>6. QED
    BY <1>1, <1>2, <1>3, <1>4, <1>5, QuietStepInv

\* cancelJob of a running job.
LEMMA CancelRunningInv ==
    ASSUME IInv, NEW j \in Jobs, cancelRunningJob(j)
    PROVE  IInv'
  <1>1. /\ jobs[j].state = "running"
        /\ jobs' = [jobs EXCEPT ![j].cancelling = TRUE]
        /\ emit(j, "cancelling")
        /\ UNCHANGED <<idempotency, grants, approvals, deadLetters, held, claims, approvedEver>>
    BY DEF cancelRunningJob
  <1> DEFINE r == [jobs[j] EXCEPT !.cancelling = TRUE]
  <1>2. /\ r \in JobRecords
        /\ r.state = "running"
        /\ r.attempts = jobs[j].attempts
        /\ r.reconciledOnce = jobs[j].reconciledOnce
        /\ r.requiresApproval = jobs[j].requiresApproval
    BY <1>1 DEF IInv, TypeOK, JobRecords
  <1>3. /\ jobs' = [jobs EXCEPT ![j] = r]
        /\ view' = [view EXCEPT ![j] = Seen(@, "cancelling")]
        /\ UNCHANGED <<idempotency, grants, claims, approvals, approvedEver>>
        /\ deadLetters' \in Seq(Jobs)
    BY <1>1 DEF emit, IInv, TypeOK
  <1> HIDE DEF r
  <1>4. Seen(jobs[j].state, "cancelling") = r.state
    BY <1>1, <1>2 DEF Seen
  <1>5. jobs[j].attempts > 0 \/ r.state \notin {"running", "waiting_approval"}
    BY <1>1, <1>2 DEF IInv, StartedCounts
  <1>6. QED
    BY <1>1, <1>2, <1>3, <1>4, <1>5, QuietStepInv

\* failJob with budget left: both events leave the reader at "queued".
LEMMA RetryInv ==
    ASSUME IInv, NEW w \in Workers, failJobRetry(w)
    PROVE  IInv'
  <1>1. PICK j \in Jobs :
          /\ held[w] = j
          /\ jobs[j].state = "running"
          /\ jobs[j].attempts < MaxAttempts
          /\ jobs' = [jobs EXCEPT ![j] =
                [Moved(@, "queued") EXCEPT !.backoff = BackoffTicks[jobs[j].attempts]]]
          /\ held' = [held EXCEPT ![w] = None]
          /\ view' = [view EXCEPT ![j] = Seen(Seen(@, "failed"), "queued")]
          /\ UNCHANGED <<idempotency, grants, approvals, deadLetters, claims, approvedEver>>
    BY DEF failJobRetry, BudgetLeft
  <1> DEFINE r == [Moved(jobs[j], "queued") EXCEPT !.backoff = BackoffTicks[jobs[j].attempts]]
  <1>2. /\ r \in JobRecords
        /\ r.state = "queued"
        /\ r.attempts = jobs[j].attempts
        /\ r.reconciledOnce = jobs[j].reconciledOnce
        /\ r.requiresApproval = jobs[j].requiresApproval
    <2>1. /\ jobs[j] \in JobRecords
          /\ jobs[j].attempts \in 1..MaxAttempts
      BY <1>1, ConstantsOK DEF IInv, TypeOK, StartedCounts, JobRecords
    <2>2. BackoffTicks[jobs[j].attempts] \in Nat
      BY <2>1, ConstantsOK
    <2> DEFINE m == Moved(jobs[j], "queued")
    <2>3. /\ m \in JobRecords /\ m.state = "queued" /\ m.attempts = jobs[j].attempts
          /\ m.reconciledOnce = jobs[j].reconciledOnce
          /\ m.requiresApproval = jobs[j].requiresApproval
      BY <2>1, MovedType
    <2> HIDE DEF m
    <2>4. \A b \in Nat : [m EXCEPT !.backoff = b] \in JobRecords
      BY <2>3 DEF JobRecords
    <2>5. r = [m EXCEPT !.backoff = BackoffTicks[jobs[j].attempts]]
      BY DEF m
    <2> HIDE DEF r
    <2>6. QED
      BY <2>2, <2>3, <2>4, <2>5 DEF JobRecords
  <1>3. /\ jobs' = [jobs EXCEPT ![j] = r]
        /\ view' = [view EXCEPT ![j] = Seen(@, "queued")]
        /\ UNCHANGED <<idempotency, grants, claims, approvals, approvedEver>>
        /\ deadLetters' \in Seq(Jobs)
    BY <1>1 DEF IInv, TypeOK, Seen
  <1> HIDE DEF r
  <1>4. Seen(jobs[j].state, "queued") = r.state
    BY <1>1, <1>2 DEF Seen
  <1>5. jobs[j].attempts > 0 \/ r.state \notin {"running", "waiting_approval"}
    BY <1>1, <1>2 DEF IInv, StartedCounts
  <1>6. r.attempts < MaxAttempts
    BY <1>1, <1>2
  <1>7. /\ held[w] = j /\ held' = [held EXCEPT ![w] = None]
        /\ jobs[j].state = "running"
    BY <1>1
  <1>8. QED
    BY <1>2, <1>3, <1>4, <1>5, <1>6, <1>7, QuietStepInv

\* claimJob: the one step that counts a claim and fills a worker's hands.
LEMMA ClaimInv ==
    ASSUME IInv, NEW w \in Workers, claimJob(w)
    PROVE  IInv'
  <1>1. PICK j \in Jobs :
          /\ held[w] = None
          /\ Claimable(j)
          /\ jobs' = [jobs EXCEPT ![j] =
                        [Moved(@, "running") EXCEPT !.workerId = w, !.age = 0]]
          /\ held' = [held EXCEPT ![w] = j]
          /\ claims' = [claims EXCEPT ![j] = @ + 1]
          /\ emit(j, "running")
          /\ UNCHANGED <<idempotency, grants, approvals, deadLetters, approvedEver>>
    BY DEF claimJob
  <1> DEFINE m == Moved(jobs[j], "running")
             r == [m EXCEPT !.workerId = w, !.age = 0]
  <1>2. jobs[j] \in JobRecords /\ jobs[j].attempts \in Nat /\ jobs[j].state = "queued"
    BY <1>1 DEF IInv, TypeOK, JobRecords, Claimable
  <1>3. /\ m \in JobRecords /\ m.state = "running" /\ m.attempts = jobs[j].attempts + 1
        /\ m.reconciledOnce = jobs[j].reconciledOnce
        /\ m.requiresApproval = jobs[j].requiresApproval
    BY <1>2, MovedType
  <1>4. /\ jobs' = [jobs EXCEPT ![j] = r]
        /\ view' = [view EXCEPT ![j] = Seen(@, "running")]
    BY <1>1 DEF emit
  <1> HIDE DEF m
  <1>5. /\ r \in JobRecords /\ r.state = "running" /\ r.attempts = jobs[j].attempts + 1
        /\ r.reconciledOnce = jobs[j].reconciledOnce
        /\ r.requiresApproval = jobs[j].requiresApproval
    BY <1>3 DEF JobRecords
  <1> HIDE DEF r
  <1>6. /\ jobs' \in [Jobs -> JobRecords]
        /\ view' \in [Jobs -> States]
        /\ \A k \in Jobs : jobs'[k] = IF k = j THEN r ELSE jobs[k]
        /\ \A k \in Jobs : view'[k] = IF k = j THEN Seen(view[j], "running") ELSE view[k]
    BY <1>4, <1>5, UpdateType DEF IInv
  <1>7. /\ \A v \in Workers : held'[v] = IF v = w THEN j ELSE held[v]
        /\ \A k \in Jobs : claims'[k] = IF k = j THEN claims[j] + 1 ELSE claims[k]
        /\ held' \in [Workers -> Jobs \cup {None}]
        /\ claims' \in [Jobs -> Nat]
    BY <1>1 DEF IInv, TypeOK
  <1>8. TypeOK'
    BY <1>1, <1>6, <1>7 DEF IInv, TypeOK
  <1>9. StartedCounts'
    BY <1>2, <1>5, <1>6 DEF IInv, StartedCounts
  <1>10. ClaimBudget'
    <2>1. claims[j] \in Nat /\ MaxAttempts \in Nat
      BY ConstantsOK DEF IInv, TypeOK
    <2>2. /\ claims'[j] <= r.attempts
          /\ claims'[j] <= MaxAttempts + (IF r.reconciledOnce THEN 1 ELSE 0)
      BY <1>2, <1>5, <1>7, <2>1 DEF IInv, ClaimBudget
    <2>3. QED
      BY <1>5, <1>6, <1>7, <2>2 DEF IInv, ClaimBudget
  <1>11. OutboxTellsState'
    BY <1>5, <1>6 DEF IInv, OutboxTellsState, Seen
  <1>12. QueuedIsFree' /\ OneHolderUnlessReconciled'
    <2>1. ~jobs[j].reconciledOnce => \A v \in Workers : held[v] # j
      BY <1>2 DEF IInv, QueuedIsFree
    <2>2. \A k \in Jobs : held[w] # k
      BY <1>1, ConstantsOK
    <2>3. QueuedIsFree'
      BY <1>5, <1>6, <1>7, <2>1 DEF IInv, QueuedIsFree
    <2>4. OneHolderUnlessReconciled'
      BY <1>5, <1>6, <1>7, <2>1, <2>2 DEF IInv, OneHolderUnlessReconciled
    <2>5. QED
      BY <2>3, <2>4
  <1>13. ApprovalsRemembered'
    BY <1>1 DEF IInv, ApprovalsRemembered
  <1>14. GatedRunApproved'
    <2>1. r.requiresApproval => \E a \in approvedEver : approvals[a].job = j /\ approvals[a].bound
      BY <1>1, <1>2, <1>5 DEF Claimable, requireValidApproval, IInv, TypeOK, JobRecords,
         ApprovalsRemembered
    <2>2. UNCHANGED <<approvals, approvedEver>>
      BY <1>1
    <2>3. QED
      BY <1>5, <1>6, <2>1, <2>2 DEF IInv, GatedRunApproved
  <1>15. QED
    BY <1>8, <1>9, <1>10, <1>11, <1>12, <1>13, <1>14 DEF IInv

\* A worker that is refused or dies only empties its hands.
LEMMA ForgetInv ==
    ASSUME IInv, NEW w \in Workers, reportRefused(w) \/ workerCrash(w)
    PROVE  IInv'
  <1>1. /\ held' = [held EXCEPT ![w] = None]
        /\ UNCHANGED <<jobs, idempotency, grants, approvals, deadLetters, view,
                       claims, approvedEver>>
    BY DEF reportRefused, workerCrash
  <1>2. /\ \A v \in Workers : held'[v] = IF v = w THEN None ELSE held[v]
        /\ held' \in [Workers -> Jobs \cup {None}]
    BY <1>1 DEF IInv, TypeOK
  <1>3. QueuedIsFree' /\ OneHolderUnlessReconciled'
    BY <1>1, <1>2, ConstantsOK DEF IInv, QueuedIsFree, OneHolderUnlessReconciled
  <1>4. QED
    BY <1>1, <1>2, <1>3 DEF IInv, TypeOK, StartedCounts, ClaimBudget, OutboxTellsState,
       ApprovalsRemembered, GatedRunApproved

\* A grant or a stray registration touches nothing the invariant reads.
LEMMA BookkeepingInv ==
    ASSUME IInv, NEW t \in Tenants,
           \/ \E g \in {"open", "gated"} : registerToolGrant(t, g)
           \/ \E key \in Keys : enqueueCloneFails(t, key)
    PROVE  IInv'
  <1>1. UNCHANGED <<jobs, approvals, deadLetters, view, held, claims, approvedEver>>
    BY DEF registerToolGrant, enqueueCloneFails
  <1>2. /\ idempotency' \subseteq Tenants \X Keys
        /\ grants' \in [Tenants -> {"none", "open", "gated"}]
    <2>1. CASE \E g \in {"open", "gated"} : registerToolGrant(t, g)
      BY <2>1 DEF registerToolGrant, IInv, TypeOK
    <2>2. CASE \E key \in Keys : enqueueCloneFails(t, key)
      BY <2>2 DEF enqueueCloneFails, IInv, TypeOK
    <2>3. QED
      BY <2>1, <2>2
  <1>3. QED
    BY <1>1, <1>2 DEF IInv, TypeOK, StartedCounts, ClaimBudget, OutboxTellsState,
       ApprovalsRemembered, GatedRunApproved, QueuedIsFree, OneHolderUnlessReconciled

\* requestApproval: a fresh approval, and the job points at it.
LEMMA RequestInv ==
    ASSUME IInv, NEW j \in Jobs, NEW a \in Approvals, NEW bound \in BOOLEAN,
           requestApproval(j, a, bound)
    PROVE  IInv'
  <1>1. /\ approvals[a].decision = "absent"
        /\ approvals' = [approvals EXCEPT ![a] = PendingApproval(j, bound)]
        /\ jobs[j].state \in {"running", "queued"}
        /\ UNCHANGED <<idempotency, grants, deadLetters, held, claims, approvedEver>>
    BY DEF requestApproval, FreshApproval
  <1>2. PendingApproval(j, bound) \in ApprovalRecords
    BY ConstantsOK DEF PendingApproval, ApprovalRecords
  <1>3. /\ approvals' \in [Approvals -> ApprovalRecords]
        /\ \A b \in Approvals : b # a => approvals'[b] = approvals[b]
        /\ approvals'[a].decision = "pending" /\ approvals'[a].job = j
        /\ a \notin approvedEver
    BY <1>1, <1>2 DEF IInv, TypeOK, PendingApproval, ApprovalsRemembered
  <1>4. ApprovalsRemembered'
    BY <1>1, <1>3 DEF IInv, ApprovalsRemembered
  <1> DEFINE m == Moved(jobs[j], "waiting_approval")
             r == IF jobs[j].state = "running" THEN [m EXCEPT !.approvalRef = a]
                  ELSE [jobs[j] EXCEPT !.approvalRef = a]
             event == IF jobs[j].state = "running" THEN "suspended" ELSE "pre_claim"
  <1>5. /\ jobs' = [jobs EXCEPT ![j] = r]
        /\ view' = [view EXCEPT ![j] = Seen(@, event)]
    BY DEF requestApproval, emit
  <1>6. jobs[j] \in JobRecords
    BY DEF IInv, TypeOK
  <1>7. /\ m \in JobRecords /\ m.state = "waiting_approval" /\ m.attempts = jobs[j].attempts
        /\ m.reconciledOnce = jobs[j].reconciledOnce
        /\ m.requiresApproval = jobs[j].requiresApproval
    BY <1>6, MovedType
  <1> HIDE DEF m
  <1>8. /\ r \in JobRecords /\ r.attempts = jobs[j].attempts
        /\ r.state = IF jobs[j].state = "running" THEN "waiting_approval" ELSE jobs[j].state
        /\ r.reconciledOnce = jobs[j].reconciledOnce
        /\ r.requiresApproval = jobs[j].requiresApproval
    BY <1>6, <1>7 DEF JobRecords
  <1>9. Seen(jobs[j].state, event) = r.state
    BY <1>1, <1>8 DEF Seen
  <1> HIDE DEF r, event
  <1>10. \A k \in Jobs : jobs'[k] = IF k = j THEN r ELSE jobs[k]
    BY <1>5, <1>8, UpdateType DEF IInv
  <1>11. GatedRunApproved'
    BY <1>1, <1>3, <1>8, <1>10 DEF IInv, TypeOK, GatedRunApproved
  <1>12. /\ r.attempts >= jobs[j].attempts
         /\ r.state \in {"running", "waiting_approval"} => r.attempts > 0
         /\ r.state = "queued" => jobs[j].state = "queued"
         /\ r.state # "absent"
         /\ deadLetters' \in Seq(Jobs) /\ approvedEver' \subseteq Approvals
         /\ UNCHANGED held /\ UNCHANGED <<idempotency, grants, claims>>
    BY <1>1, <1>6, <1>8 DEF IInv, TypeOK, StartedCounts, JobRecords
  <1>13. QED
    BY <1>3, <1>4, <1>5, <1>8, <1>9, <1>11, <1>12, StepInv

\* The approvals part of a decision: the decision is remembered and no binding
\* changes.
LEMMA DecisionRemembered ==
    ASSUME IInv, NEW a \in Approvals, NEW d \in {"approved", "rejected"}, Decidable(a),
           approvals' = [approvals EXCEPT ![a].decision = d],
           approvedEver' = IF d = "approved" THEN approvedEver \cup {a} ELSE approvedEver
    PROVE  /\ ApprovalsRemembered'
           /\ approvals' \in [Approvals -> ApprovalRecords]
           /\ approvedEver' \subseteq Approvals
           /\ approvedEver \subseteq approvedEver'
           /\ \A b \in Approvals : /\ approvals'[b].job = approvals[b].job
                                   /\ approvals'[b].bound = approvals[b].bound
           /\ approvals[a].job \in Jobs
  <1>1. /\ approvals' \in [Approvals -> ApprovalRecords]
        /\ \A b \in Approvals : b # a => approvals'[b] = approvals[b]
        /\ approvals'[a].decision = d
        /\ approvals'[a].job = approvals[a].job
        /\ approvals'[a].bound = approvals[a].bound
    BY DEF IInv, TypeOK, ApprovalRecords
  <1>2. approvals[a].job \in Jobs
    BY DEF IInv, ApprovalsRemembered, Decidable
  <1>3. QED
    BY <1>1, <1>2 DEF IInv, TypeOK, ApprovalsRemembered, Decidable

\* Once given, an approval lets its job through for good: more attempts of a
\* job that had one, on the same terms, need no new approval.
LEMMA DecisionGate ==
    ASSUME IInv, NEW j \in Jobs, NEW r \in JobRecords,
           \A k \in Jobs : jobs'[k] = IF k = j THEN r ELSE jobs[k],
           approvedEver \subseteq approvedEver',
           approvedEver \subseteq Approvals,
           \A b \in Approvals : /\ approvals'[b].job = approvals[b].job
                                /\ approvals'[b].bound = approvals[b].bound,
           r.requiresApproval = jobs[j].requiresApproval,
           r.attempts > 0 => jobs[j].attempts > 0
    PROVE  GatedRunApproved'
  <1> SUFFICES ASSUME NEW k \in Jobs, jobs'[k].requiresApproval, jobs'[k].attempts > 0
               PROVE  \E b \in approvedEver' : approvals'[b].job = k /\ approvals'[b].bound
    BY DEF GatedRunApproved
  <1>1. jobs[k].requiresApproval /\ jobs[k].attempts > 0
    OBVIOUS
  <1>2. PICK b \in approvedEver : approvals[b].job = k /\ approvals[b].bound
    BY <1>1 DEF IInv, GatedRunApproved
  <1>3. QED
    BY <1>2

\* A decision that leaves the job as it is.
LEMMA DecisionOnlyInv ==
    ASSUME IInv, ApprovalsRemembered', approvals' \in [Approvals -> ApprovalRecords],
           approvedEver' \subseteq Approvals, approvedEver \subseteq approvedEver',
           \A b \in Approvals : /\ approvals'[b].job = approvals[b].job
                                /\ approvals'[b].bound = approvals[b].bound,
           UNCHANGED <<jobs, view, idempotency, grants, deadLetters, held, claims>>
    PROVE  IInv'
  <1>1. TypeOK'
    BY DEF IInv, TypeOK
  <1>2. StartedCounts' /\ ClaimBudget' /\ OutboxTellsState'
    BY DEF IInv, StartedCounts, ClaimBudget, OutboxTellsState
  <1>3. QueuedIsFree' /\ OneHolderUnlessReconciled'
    BY DEF IInv, QueuedIsFree, OneHolderUnlessReconciled
  <1>4. GatedRunApproved'
    BY DEF IInv, TypeOK, GatedRunApproved
  <1>5. QED
    BY <1>1, <1>2, <1>3, <1>4 DEF IInv

\* decideApproval with "approve": a suspended job resumes, any other stays.
LEMMA ApproveInv ==
    ASSUME IInv, NEW a \in Approvals, approve(a)
    PROVE  IInv'
  <1> DEFINE j == approvals[a].job
  <1>1. /\ Decidable(a)
        /\ approvals' = [approvals EXCEPT ![a].decision = "approved"]
        /\ approvedEver' = approvedEver \cup {a}
        /\ ResumeOnApproval(j)
        /\ UNCHANGED <<idempotency, grants, deadLetters, held, claims>>
    BY DEF approve
  <1>2. /\ ApprovalsRemembered'
        /\ approvals' \in [Approvals -> ApprovalRecords]
        /\ approvedEver' \subseteq Approvals
        /\ approvedEver \subseteq approvedEver'
        /\ \A b \in Approvals : /\ approvals'[b].job = approvals[b].job
                                /\ approvals'[b].bound = approvals[b].bound
        /\ j \in Jobs
    BY <1>1, DecisionRemembered
  <1> HIDE DEF j
  <1>3. /\ jobs[j] \in JobRecords /\ jobs[j].attempts \in Nat /\ view[j] = jobs[j].state
        /\ view \in [Jobs -> States]
    BY <1>2 DEF IInv, TypeOK, JobRecords, OutboxTellsState
  <1>4. CASE jobs[j].state # "waiting_approval"
    <2>1. Seen(view[j], "approved_pre_claim") = view[j]
      BY DEF Seen
    <2>2. UNCHANGED jobs /\ view' = [view EXCEPT ![j] = Seen(@, "approved_pre_claim")]
      BY <1>1, <1>4 DEF ResumeOnApproval, emit
    <2>3. UNCHANGED view
      BY <1>2, <1>3, <2>1, <2>2
    <2>4. QED
      BY <1>1, <1>2, <2>2, <2>3, DecisionOnlyInv
  <1>5. CASE jobs[j].state = "waiting_approval"
    <2> DEFINE m == Moved(jobs[j], "running")
               r == [m EXCEPT !.backoff = 0]
    <2>1. /\ m \in JobRecords /\ m.state = "running" /\ m.attempts = jobs[j].attempts + 1
          /\ m.reconciledOnce = jobs[j].reconciledOnce
          /\ m.requiresApproval = jobs[j].requiresApproval
      BY <1>3, MovedType
    <2>2. /\ jobs' = [jobs EXCEPT ![j] = r]
          /\ view' = [view EXCEPT ![j] = Seen(@, "approved_resumed")]
      BY <1>1, <1>5 DEF ResumeOnApproval, emit
    <2> HIDE DEF m
    <2>3. /\ r \in JobRecords /\ r.state = "running" /\ r.attempts = jobs[j].attempts + 1
          /\ r.reconciledOnce = jobs[j].reconciledOnce
          /\ r.requiresApproval = jobs[j].requiresApproval
      BY <2>1 DEF JobRecords
    <2> HIDE DEF r
    <2>4. Seen(jobs[j].state, "approved_resumed") = r.state
      BY <2>3 DEF Seen
    <2>5. \A k \in Jobs : jobs'[k] = IF k = j THEN r ELSE jobs[k]
      BY <1>2, <2>2, <2>3, UpdateType DEF IInv
    <2>6. jobs[j].attempts > 0 /\ approvedEver \subseteq Approvals
      BY <1>2, <1>5 DEF IInv, TypeOK, StartedCounts
    <2>7. GatedRunApproved'
      BY <1>2, <2>3, <2>5, <2>6, DecisionGate
    <2>8. /\ r.attempts >= jobs[j].attempts /\ r.attempts > 0
          /\ r.state \notin {"queued", "absent"}
          /\ deadLetters' \in Seq(Jobs)
          /\ UNCHANGED held /\ UNCHANGED <<idempotency, grants, claims>>
      BY <1>1, <1>3, <2>3 DEF IInv, TypeOK
    <2>9. QED
      BY <1>2, <2>2, <2>3, <2>4, <2>7, <2>8, StepInv
  <1>6. QED
    BY <1>4, <1>5

\* decideApproval with "reject".
LEMMA RejectInv ==
    ASSUME IInv, NEW a \in Approvals, reject(a)
    PROVE  IInv'
  <1> DEFINE j == approvals[a].job
  <1>1. /\ Decidable(a)
        /\ approvals' = [approvals EXCEPT ![a].decision = "rejected"]
        /\ jobs' = [jobs EXCEPT ![j] = AfterRejection(@)]
        /\ view' = [view EXCEPT ![j] = Seen(@, "rejected")]
        /\ UNCHANGED <<idempotency, grants, deadLetters, held, claims, approvedEver>>
    BY DEF reject, emit
  <1>2. /\ ApprovalsRemembered'
        /\ approvals' \in [Approvals -> ApprovalRecords]
        /\ approvedEver' \subseteq Approvals
        /\ approvedEver \subseteq approvedEver'
        /\ \A b \in Approvals : /\ approvals'[b].job = approvals[b].job
                                /\ approvals'[b].bound = approvals[b].bound
        /\ j \in Jobs
    <2>1. approvedEver' = IF "rejected" = "approved" THEN approvedEver \cup {a}
                          ELSE approvedEver
      BY <1>1
    <2>2. QED
      BY <1>1, <2>1, DecisionRemembered
  <1> HIDE DEF j
  <1>3. /\ jobs[j] \in JobRecords /\ jobs[j].attempts \in Nat /\ view[j] = jobs[j].state
        /\ view \in [Jobs -> States] /\ jobs \in [Jobs -> JobRecords]
    BY <1>2 DEF IInv, TypeOK, JobRecords, OutboxTellsState
  <1>4. CASE jobs[j].state \notin {"waiting_approval", "queued"}
    <2>1. Seen(view[j], "rejected") = view[j] /\ AfterRejection(jobs[j]) = jobs[j]
      BY <1>3, <1>4 DEF Seen, AfterRejection
    <2>2. UNCHANGED <<jobs, view>>
      BY <1>1, <1>2, <1>3, <2>1
    <2>3. QED
      BY <1>1, <1>2, <2>2, DecisionOnlyInv
  <1>5. CASE jobs[j].state \in {"waiting_approval", "queued"}
    <2> DEFINE r == AfterRejection(jobs[j])
    <2>1. /\ r \in JobRecords /\ r.attempts = jobs[j].attempts
          /\ r.state = IF jobs[j].state = "waiting_approval" THEN "failed" ELSE "cancelled"
          /\ r.reconciledOnce = jobs[j].reconciledOnce
          /\ r.requiresApproval = jobs[j].requiresApproval
      <3>1. CASE jobs[j].state = "waiting_approval"
        BY <1>3, <3>1, MovedType DEF AfterRejection
      <3>2. CASE jobs[j].state = "queued"
        BY <1>3, <3>2, MovedType DEF AfterRejection
      <3>3. QED
        BY <1>5, <3>1, <3>2
    <2>2. jobs' = [jobs EXCEPT ![j] = r]
      BY <1>1
    <2> HIDE DEF r
    <2>3. Seen(jobs[j].state, "rejected") = r.state
      BY <1>5, <2>1 DEF Seen
    <2>4. \A k \in Jobs : jobs'[k] = IF k = j THEN r ELSE jobs[k]
      BY <1>3, <2>2
    <2>5. GatedRunApproved'
      <3>1. approvedEver \subseteq Approvals
        BY DEF IInv, TypeOK
      <3>2. r.attempts > 0 => jobs[j].attempts > 0
        BY <2>1
      <3>3. QED
        BY <1>2, <2>1, <2>4, <3>1, <3>2, DecisionGate
    <2>6. /\ r.attempts >= jobs[j].attempts
          /\ r.state \notin {"queued", "absent", "running", "waiting_approval"}
          /\ deadLetters' \in Seq(Jobs)
          /\ UNCHANGED held /\ UNCHANGED <<idempotency, grants, claims>>
      BY <1>1, <1>3, <2>1 DEF IInv, TypeOK
    <2>7. QED
      BY <1>1, <1>2, <2>1, <2>2, <2>3, <2>5, <2>6, StepInv
  <1>6. QED
    BY <1>4, <1>5

-----------------------------------------------------------------------------
(* Steps over every job.                                                   *)

\* What reconciliation makes of a stale run.
LEMMA RequeuedType ==
    ASSUME NEW job \in JobRecords
    PROVE  LET r == [Moved(job, "queued") EXCEPT !.reconciledOnce = TRUE] IN
           /\ r \in JobRecords /\ r.state = "queued" /\ r.attempts = job.attempts
           /\ r.reconciledOnce = TRUE
           /\ r.requiresApproval = job.requiresApproval
  <1> DEFINE m == Moved(job, "queued")
  <1>1. /\ m \in JobRecords /\ m.state = "queued" /\ m.attempts = job.attempts
        /\ m.requiresApproval = job.requiresApproval
    BY MovedType
  <1> HIDE DEF m
  <1>2. LET r == [m EXCEPT !.reconciledOnce = TRUE] IN
           /\ r \in JobRecords /\ r.state = "queued" /\ r.attempts = job.attempts
           /\ r.reconciledOnce = TRUE
           /\ r.requiresApproval = job.requiresApproval
    BY <1>1 DEF JobRecords
  <1>3. QED
    BY <1>2 DEF m

\* reconcile: every stale run goes back to the queue, marked.
LEMMA ReconcileInv ==
    ASSUME IInv, reconcile
    PROVE  IInv'
  <1> DEFINE r(k) == [Moved(jobs[k], "queued") EXCEPT !.reconciledOnce = TRUE]
  <1>1. /\ jobs' = [k \in Jobs |-> IF Stale(k) THEN r(k) ELSE jobs[k]]
        /\ view' = [k \in Jobs |-> IF Stale(k) THEN Seen(view[k], "requeued") ELSE view[k]]
        /\ UNCHANGED <<idempotency, grants, approvals, deadLetters, held, claims, approvedEver>>
    BY DEF reconcile
  <1>2. \A k \in Jobs : /\ r(k) \in JobRecords /\ r(k).state = "queued"
                        /\ r(k).attempts = jobs[k].attempts
                        /\ r(k).reconciledOnce = TRUE
                        /\ r(k).requiresApproval = jobs[k].requiresApproval
    <2>1. \A k \in Jobs : jobs[k] \in JobRecords
      BY DEF IInv, TypeOK
    <2>2. QED
      BY <2>1, RequeuedType
  <1> HIDE DEF r
  <1>3. \A k \in Jobs : Stale(k) => jobs[k].state = "running" /\ ~jobs[k].reconciledOnce
    BY DEF Stale
  <1>4. /\ \A k \in Jobs : ~Stale(k) => jobs'[k] = jobs[k] /\ view'[k] = view[k]
        /\ \A k \in Jobs : Stale(k) => jobs'[k] = r(k) /\ view'[k] = "queued"
    BY <1>1 DEF Seen
  <1> HIDE DEF Stale
  <1>5. TypeOK'
    <2>1. jobs' \in [Jobs -> JobRecords] /\ view' \in [Jobs -> States]
      BY <1>1, <1>2, <1>4 DEF IInv, TypeOK
    <2>2. QED
      BY <1>1, <2>1 DEF IInv, TypeOK
  <1>6. StartedCounts'
    BY <1>2, <1>4 DEF IInv, StartedCounts
  <1>7. ClaimBudget'
    <2> SUFFICES ASSUME NEW k \in Jobs
                 PROVE  /\ claims[k] <= jobs'[k].attempts
                        /\ claims[k] <= MaxAttempts
                             + (IF jobs'[k].reconciledOnce THEN 1 ELSE 0)
                        /\ jobs'[k].state \in {"absent", "queued"} =>
                             claims[k] < MaxAttempts
                               + (IF jobs'[k].reconciledOnce THEN 1 ELSE 0)
      BY <1>1 DEF ClaimBudget
    <2>1. claims[k] \in Nat /\ MaxAttempts \in Nat
      BY ConstantsOK DEF IInv, TypeOK
    <2>2. CASE Stale(k)
      <3>1. claims[k] <= MaxAttempts /\ claims[k] <= jobs[k].attempts
        BY <1>3, <2>1, <2>2 DEF IInv, ClaimBudget
      <3>2. QED
        BY <1>2, <1>4, <2>1, <2>2, <3>1
    <2>3. CASE ~Stale(k)
      BY <1>4, <2>3 DEF IInv, ClaimBudget
    <2>4. QED
      BY <2>2, <2>3
  <1>8. ApprovalsRemembered' /\ GatedRunApproved'
    BY <1>1, <1>2, <1>4 DEF IInv, ApprovalsRemembered, GatedRunApproved
  <1>9. QueuedIsFree' /\ OneHolderUnlessReconciled'
    BY <1>1, <1>2, <1>4 DEF IInv, QueuedIsFree, OneHolderUnlessReconciled
  <1>10. OutboxTellsState'
    BY <1>2, <1>4 DEF IInv, OutboxTellsState
  <1>11. QED
    BY <1>5, <1>6, <1>7, <1>8, <1>9, <1>10 DEF IInv

\* Time changes waits and ages only.
LEMMA OlderType ==
    ASSUME NEW job \in JobRecords
    PROVE  /\ Older(job) \in JobRecords
           /\ Older(job).state = job.state
           /\ Older(job).attempts = job.attempts
           /\ Older(job).reconciledOnce = job.reconciledOnce
           /\ Older(job).requiresApproval = job.requiresApproval
  <1>1. /\ (IF job.backoff > 0 THEN job.backoff - 1 ELSE 0) \in Nat
        /\ (IF job.state \in {"running", "waiting_approval"} /\ job.age <= StaleRunning
            THEN job.age + 1 ELSE job.age) \in Nat
    BY DEF JobRecords
  <1>2. QED
    BY <1>1 DEF Older, JobRecords

\* tick: neither what a job is nor whom an approval binds changes.
LEMMA TickInv ==
    ASSUME IInv, tick
    PROVE  IInv'
  <1>1. /\ jobs' = [k \in Jobs |-> Older(jobs[k])]
        /\ approvals' = [a \in Approvals |->
                           [approvals[a] EXCEPT !.ttl = IF @ > 0 THEN @ - 1 ELSE 0]]
        /\ UNCHANGED <<idempotency, grants, deadLetters, view, held, claims, approvedEver>>
    BY DEF tick
  <1>2. /\ \A k \in Jobs : jobs[k] \in JobRecords
        /\ \A a \in Approvals : approvals[a] \in ApprovalRecords
    BY DEF IInv, TypeOK
  <1>3. \A k \in Jobs : /\ jobs'[k] \in JobRecords
                        /\ jobs'[k].state = jobs[k].state
                        /\ jobs'[k].attempts = jobs[k].attempts
                        /\ jobs'[k].reconciledOnce = jobs[k].reconciledOnce
                        /\ jobs'[k].requiresApproval = jobs[k].requiresApproval
    BY <1>1, <1>2, OlderType
  <1>4. \A a \in Approvals : /\ approvals'[a] \in ApprovalRecords
                             /\ approvals'[a].decision = approvals[a].decision
                             /\ approvals'[a].job = approvals[a].job
                             /\ approvals'[a].bound = approvals[a].bound
    <2>1. ASSUME NEW r \in ApprovalRecords
          PROVE  LET older == [r EXCEPT !.ttl = IF @ > 0 THEN @ - 1 ELSE 0]
                 IN  /\ older \in ApprovalRecords /\ older.decision = r.decision
                     /\ older.job = r.job /\ older.bound = r.bound
      BY ConstantsOK DEF ApprovalRecords
    <2>2. QED
      BY <1>1, <1>2, <2>1
  <1>5. TypeOK'
    BY <1>1, <1>3, <1>4 DEF IInv, TypeOK
  <1>6. StartedCounts' /\ ClaimBudget' /\ OutboxTellsState'
    BY <1>1, <1>3 DEF IInv, StartedCounts, ClaimBudget, OutboxTellsState
  <1>7. QueuedIsFree' /\ OneHolderUnlessReconciled'
    BY <1>1, <1>3 DEF IInv, QueuedIsFree, OneHolderUnlessReconciled
  <1>8. ApprovalsRemembered'
    BY <1>1, <1>4 DEF IInv, ApprovalsRemembered
  <1>9. GatedRunApproved'
    BY <1>1, <1>3, <1>4 DEF IInv, TypeOK, GatedRunApproved
  <1>10. QED
    BY <1>5, <1>6, <1>7, <1>8, <1>9 DEF IInv

-----------------------------------------------------------------------------

\* Every step of the engine and of its callers keeps the invariant.
LEMMA NextInv == IInv /\ [Next]_vars => IInv'
  <1> SUFFICES ASSUME IInv, [Next]_vars PROVE IInv'
    OBVIOUS
  <1>1. CASE \E t \in Tenants, g \in {"open", "gated"} : registerToolGrant(t, g)
    BY <1>1, BookkeepingInv
  <1>2. CASE \E j \in Jobs, key \in Keys, requested \in {None, TRUE, FALSE} :
               enqueueJob(j, key, requested)
    BY <1>2, EnqueueInv
  <1>3. CASE \E t \in Tenants, key \in Keys : enqueueCloneFails(t, key)
    BY <1>3, BookkeepingInv
  <1>4. CASE \E w \in Workers : WorkerStep(w) \/ workerCrash(w)
    BY <1>4, ClaimInv, CompleteInv, DeadLetterInv, RetryInv, ForgetInv DEF WorkerStep
  <1>5. CASE \E j \in Jobs : cancelIdleJob(j) \/ cancelRunningJob(j) \/ confirmCancel(j)
    BY <1>5, CancelIdleInv, CancelRunningInv, ConfirmInv
  <1>6. CASE \E j \in Jobs, a \in Approvals, bound \in BOOLEAN : requestApproval(j, a, bound)
    BY <1>6, RequestInv
  <1>7. CASE \E a \in Approvals : approve(a) \/ reject(a)
    BY <1>7, ApproveInv, RejectInv
  <1>8. CASE reconcile
    BY <1>8, ReconcileInv
  <1>9. CASE tick
    BY <1>9, TickInv
  <1>10. CASE UNCHANGED vars
    BY <1>10 DEF vars, IInv, TypeOK, StartedCounts, ClaimBudget, ApprovalsRemembered,
       GatedRunApproved, QueuedIsFree, OneHolderUnlessReconciled, OutboxTellsState
  <1>11. QED
    BY <1>1, <1>2, <1>3, <1>4, <1>5, <1>6, <1>7, <1>8, <1>9, <1>10 DEF Next

\* The inductive invariant holds in every reachable state.
THEOREM Invariant == Spec => []IInv
  BY InitInv, NextInv, PTL DEF Spec

\* Every variable keeps its type.
THEOREM TypeCorrect == Spec => []TypeOK
  <1>1. IInv => TypeOK
    BY DEF IInv
  <1>2. QED
    BY <1>1, Invariant, PTL

\* A gated job never starts without an approver having once approved its own
\* request, whatever is decided, superseded, expired or reconciled since.
THEOREM GatedRunsAreApproved == Spec => []GatedRunApproved
  <1>1. IInv => GatedRunApproved
    BY DEF IInv
  <1>2. QED
    BY <1>1, Invariant, PTL

\* The retry budget, with the one claim that reconciliation may add.
THEOREM ClaimsAreBounded == Spec => []ClaimsBounded
  <1>1. IInv => ClaimsBounded
    BY DEF IInv, ClaimBudget, ClaimsBounded
  <1>2. QED
    BY <1>1, Invariant, PTL

\* Without reconciliation no two workers believe they run the same job.
THEOREM OneHolder == Spec => []OneHolderUnlessReconciled
  <1>1. IInv => OneHolderUnlessReconciled
    BY DEF IInv
  <1>2. QED
    BY <1>1, Invariant, PTL

\* A reader of the outbox always knows the state of every job.
THEOREM OutboxIsFaithful == Spec => []OutboxTellsState
  <1>1. IInv => OutboxTellsState
    BY DEF IInv
  <1>2. QED
    BY <1>1, Invariant, PTL

-----------------------------------------------------------------------------
(* The dead-letter list and the key registry, which are kept beside the    *)
(* jobs.  With IInv they are inductive as they stand.                      *)

\* What the indexes go by is the same of both records, and attempts are kept.
SameJob(old, new) ==
    /\ new.key = old.key
    /\ new.state = "absent" <=> old.state = "absent"
    /\ new.state = "dead_letter" <=> old.state = "dead_letter"
    /\ new.attempts >= old.attempts

\* A step after which every job is the same to the indexes keeps them in
\* agreement, whatever it registers.
LEMMA SameJobsAgree ==
    ASSUME TypeOK, TypeOK', IndexesAgree, UNCHANGED deadLetters,
           idempotency \subseteq idempotency',
           \A k \in Jobs : SameJob(jobs[k], jobs'[k])
    PROVE  IndexesAgree'
  <1>1. \A k \in Jobs : jobs[k].attempts \in Nat /\ jobs'[k].attempts \in Nat
    BY DEF TypeOK, JobRecords
  <1>2. DeadLettersExact'
    <2>1. {j \in Jobs : jobs'[j].state = "dead_letter"} = {j \in Jobs : jobs[j].state = "dead_letter"}
      BY DEF SameJob
    <2>2. \A j \in Jobs : jobs'[j].state = "dead_letter" => jobs'[j].attempts >= MaxAttempts
      BY <1>1, ConstantsOK DEF IndexesAgree, DeadLettersExact, SameJob
    <2>3. QED
      BY <2>1, <2>2 DEF IndexesAgree, DeadLettersExact
  <1>3. OneJobPerKey'
    BY DEF IndexesAgree, OneJobPerKey, SameJob
  <1>4. QED
    BY <1>2, <1>3 DEF IndexesAgree

\* One job that becomes the same job leaves all of them so.
LEMMA OneSameJob ==
    ASSUME TypeOK, NEW j \in Jobs, NEW r, jobs' = [jobs EXCEPT ![j] = r],
           SameJob(jobs[j], r)
    PROVE  \A k \in Jobs : SameJob(jobs[k], jobs'[k])
  <1>1. \A k \in Jobs : jobs'[k] = IF k = j THEN r ELSE jobs[k]
    BY DEF TypeOK
  <1>2. \A k \in Jobs : jobs[k].attempts \in Nat
    BY DEF TypeOK, JobRecords
  <1>3. \A k \in Jobs : SameJob(jobs[k], jobs[k])
    BY <1>2 DEF SameJob
  <1>4. QED
    BY <1>1, <1>3

\* Moving between states that are neither absent nor dead is the same job, also
\* when the fields no index goes by are set.
LEMMA MovedSame ==
    ASSUME NEW job \in JobRecords, NEW next \in States \ {"absent", "dead_letter"},
           job.state \notin {"absent", "dead_letter"}
    PROVE  /\ SameJob(job, Moved(job, next))
           /\ \A w : SameJob(job, [Moved(job, next) EXCEPT !.workerId = w, !.age = 0])
           /\ \A b : SameJob(job, [Moved(job, next) EXCEPT !.backoff = b])
           /\ \A a : SameJob(job, [Moved(job, next) EXCEPT !.approvalRef = a])
           /\ SameJob(job, [Moved(job, next) EXCEPT !.reconciledOnce = TRUE])
           /\ SameJob(job, [job EXCEPT !.cancelling = TRUE])
           /\ \A a : SameJob(job, [job EXCEPT !.approvalRef = a])
  <1> DEFINE m == Moved(job, next)
  <1>1. /\ m \in JobRecords /\ m.state = next /\ m.attempts >= job.attempts
        /\ m.key = job.key
    <2>1. m \in JobRecords /\ m.state = next /\ m.attempts >= job.attempts
      BY MovedType
    <2>2. m.key = job.key
      BY DEF Moved, JobRecords
    <2> QED
      BY <2>1, <2>2
  <1> HIDE DEF m
  <1>2. /\ SameJob(job, m)
        /\ \A w : SameJob(job, [m EXCEPT !.workerId = w, !.age = 0])
        /\ \A b : SameJob(job, [m EXCEPT !.backoff = b])
        /\ \A a : SameJob(job, [m EXCEPT !.approvalRef = a])
        /\ SameJob(job, [m EXCEPT !.reconciledOnce = TRUE])
    BY <1>1 DEF JobRecords, SameJob
  <1>3. /\ SameJob(job, [job EXCEPT !.cancelling = TRUE])
        /\ \A a : SameJob(job, [job EXCEPT !.approvalRef = a])
    BY DEF JobRecords, SameJob
  <1>4. QED
    BY <1>2, <1>3 DEF m

\* enqueueJob registers the key it found free, for a job nobody has buried.
LEMMA EnqueueAgrees ==
    ASSUME TypeOK, IndexesAgree, NEW j \in Jobs, NEW key \in Keys,
           NEW requested \in {None, TRUE, FALSE}, enqueueJob(j, key, requested)
    PROVE  IndexesAgree'
  <1> PICK r : r = NewJob(key, Gated(TenantOf[j], requested))
    OBVIOUS
  <1>1. /\ jobs[j].state = "absent"
        /\ <<TenantOf[j], key>> \notin idempotency
        /\ idempotency' = idempotency \cup {<<TenantOf[j], key>>}
        /\ jobs' = [jobs EXCEPT ![j] = r]
        /\ UNCHANGED deadLetters
    BY DEF enqueueJob, NextSlot, Unregistered
  <1>2. r.state = "queued" /\ r.key = key
    BY DEF NewJob
  <1>3. \A k \in Jobs : jobs'[k] = IF k = j THEN r ELSE jobs[k]
    BY <1>1 DEF TypeOK
  <1>4. DeadLettersExact'
    <2>1. {k \in Jobs : jobs'[k].state = "dead_letter"} = {k \in Jobs : jobs[k].state = "dead_letter"}
      BY <1>1, <1>2, <1>3
    <2>2. QED
      BY <1>1, <1>2, <1>3, <2>1 DEF IndexesAgree, DeadLettersExact
  <1>5. OneJobPerKey'
    <2>1. \A k \in Jobs : k # j /\ jobs'[k].state # "absent" =>
             /\ <<TenantOf[k], jobs'[k].key>> \in idempotency
             /\ ~(TenantOf[k] = TenantOf[j] /\ jobs'[k].key = key)
      BY <1>1, <1>3 DEF IndexesAgree, OneJobPerKey
    <2>2. QED
      BY <1>1, <1>2, <1>3, <2>1 DEF IndexesAgree, OneJobPerKey
  <1>6. QED
    BY <1>4, <1>5 DEF IndexesAgree

\* failJob buries a running job, which was not in the list, with its budget spent.
LEMMA BurialAgrees ==
    ASSUME TypeOK, IndexesAgree, NEW w \in Workers, failJobDeadLetter(w)
    PROVE  IndexesAgree'
  <1>1. PICK j \in Jobs :
          /\ jobs[j].state = "running" /\ ~BudgetLeft(j)
          /\ jobs' = [jobs EXCEPT ![j] = Moved(@, "dead_letter")]
          /\ deadLetters' = Append(deadLetters, j)
          /\ UNCHANGED idempotency
    BY DEF failJobDeadLetter
  <1> PICK r : r = Moved(jobs[j], "dead_letter")
    OBVIOUS
  <1>2. /\ r.state = "dead_letter" /\ r.attempts = jobs[j].attempts
        /\ r.key = jobs[j].key /\ jobs[j].attempts \in Nat
    <2>1. jobs[j] \in JobRecords
      BY DEF TypeOK
    <2>2. r.state = "dead_letter" /\ r.attempts = jobs[j].attempts
      BY <2>1, MovedType
    <2>3. r.key = jobs[j].key /\ jobs[j].attempts \in Nat
      BY <2>1 DEF JobRecords, Moved
    <2>4. QED
      BY <2>2, <2>3
  <1>3. \A k \in Jobs : jobs'[k] = IF k = j THEN r ELSE jobs[k]
    BY <1>1 DEF TypeOK
  <1>4. OneJobPerKey'
    BY <1>1, <1>2, <1>3 DEF IndexesAgree, OneJobPerKey
  <1>5. DeadLettersExact'
    <2>1. /\ deadLetters \in Seq(Jobs)
          /\ deadLetters' \in Seq(Jobs)
          /\ Len(deadLetters') = Len(deadLetters) + 1
          /\ \A i \in 1..Len(deadLetters) : deadLetters'[i] = deadLetters[i]
          /\ deadLetters'[Len(deadLetters) + 1] = j
          /\ DOMAIN deadLetters = 1..Len(deadLetters)
          /\ DOMAIN deadLetters' = 1..(Len(deadLetters) + 1)
          /\ Len(deadLetters) \in Nat
      BY <1>1 DEF TypeOK
    <2>2. \A i \in 1..Len(deadLetters) :
             deadLetters[i] \in {k \in Jobs : jobs[k].state = "dead_letter"}
      BY <2>1 DEF IndexesAgree, DeadLettersExact
    <2>3. \A i \in 1..Len(deadLetters) : deadLetters[i] # j
      BY <1>1, <2>2
    <2>4. \A i, k \in DOMAIN deadLetters' : deadLetters'[i] = deadLetters'[k] => i = k
      <3>1. \A i, k \in 1..Len(deadLetters) : deadLetters[i] = deadLetters[k] => i = k
        BY <2>1 DEF IndexesAgree, DeadLettersExact
      <3>2. QED
        BY <2>1, <2>3, <3>1
    <2>5. {deadLetters'[i] : i \in DOMAIN deadLetters'}
            = {deadLetters[i] : i \in DOMAIN deadLetters} \cup {j}
      BY <2>1
    <2>6. {k \in Jobs : jobs'[k].state = "dead_letter"}
            = {k \in Jobs : jobs[k].state = "dead_letter"} \cup {j}
      BY <1>2, <1>3
    <2>7. \A k \in Jobs : jobs'[k].state = "dead_letter" => jobs'[k].attempts >= MaxAttempts
      BY <1>1, <1>2, <1>3, ConstantsOK DEF IndexesAgree, DeadLettersExact, BudgetLeft
    <2>8. QED
      BY <2>4, <2>5, <2>6, <2>7 DEF IndexesAgree, DeadLettersExact
  <1>6. QED
    BY <1>4, <1>5 DEF IndexesAgree

\* Every other operation of a worker or on one job leaves it the same job.
LEMMA WorkerKeepsJobs ==
    ASSUME TypeOK, NEW w \in Workers,
           \/ claimJob(w) \/ completeJob(w) \/ failJobRetry(w)
           \/ reportRefused(w) \/ workerCrash(w)
    PROVE  /\ \A k \in Jobs : SameJob(jobs[k], jobs'[k])
           /\ UNCHANGED <<deadLetters, idempotency>>
  <1>1. \A k \in Jobs : jobs[k] \in JobRecords /\ jobs[k].attempts \in Nat
    BY DEF TypeOK, JobRecords
  <1>2. CASE claimJob(w)
    <2>1. PICK j \in Jobs :
             /\ Claimable(j)
             /\ jobs' = [jobs EXCEPT ![j] =
                           [Moved(@, "running") EXCEPT !.workerId = w, !.age = 0]]
             /\ UNCHANGED <<deadLetters, idempotency>>
      BY <1>2 DEF claimJob
    <2>2. jobs[j].state \notin {"absent", "dead_letter"}
      BY <2>1 DEF Claimable
    <2>3. QED
      BY <1>1, <2>1, <2>2, MovedSame, OneSameJob
  <1>3. CASE completeJob(w)
    <2>1. PICK j \in Jobs :
             /\ jobs[j].state = "running"
             /\ jobs' = [jobs EXCEPT ![j] = Moved(@, "succeeded")]
             /\ UNCHANGED <<deadLetters, idempotency>>
      BY <1>3 DEF completeJob
    <2>2. QED
      BY <1>1, <2>1, MovedSame, OneSameJob
  <1>4. CASE failJobRetry(w)
    <2>1. PICK j \in Jobs :
             /\ jobs[j].state = "running"
             /\ jobs' = [jobs EXCEPT ![j] =
                   [Moved(@, "queued") EXCEPT !.backoff = BackoffTicks[jobs[j].attempts]]]
             /\ UNCHANGED <<deadLetters, idempotency>>
      BY <1>4 DEF failJobRetry
    <2>2. QED
      BY <1>1, <2>1, MovedSame, OneSameJob
  <1>5. CASE reportRefused(w) \/ workerCrash(w)
    BY <1>1, <1>5 DEF reportRefused, workerCrash, SameJob
  <1>6. QED
    BY <1>2, <1>3, <1>4, <1>5

\* So do cancellation, approvals, reconciliation, time and the registry itself.
LEMMA OthersKeepJobs ==
    ASSUME IInv,
           \/ \E t \in Tenants, g \in {"open", "gated"} : registerToolGrant(t, g)
           \/ \E t \in Tenants, key \in Keys : enqueueCloneFails(t, key)
           \/ \E j \in Jobs : cancelIdleJob(j) \/ cancelRunningJob(j) \/ confirmCancel(j)
           \/ \E j \in Jobs, a \in Approvals, bound \in BOOLEAN : requestApproval(j, a, bound)
           \/ \E a \in Approvals : approve(a) \/ reject(a)
           \/ reconcile
           \/ tick
    PROVE  /\ \A k \in Jobs : SameJob(jobs[k], jobs'[k])
           /\ UNCHANGED deadLetters /\ idempotency \subseteq idempotency'
  <1>1. /\ TypeOK
        /\ \A k \in Jobs : jobs[k] \in JobRecords /\ jobs[k].attempts \in Nat
    BY DEF IInv, TypeOK, JobRecords
  <1>2. \A k \in Jobs : SameJob(jobs[k], jobs[k])
    BY <1>1 DEF SameJob
  <1>3. CASE \/ \E t \in Tenants, g \in {"open", "gated"} : registerToolGrant(t, g)
             \/ \E t \in Tenants, key \in Keys : enqueueCloneFails(t, key)
    BY <1>2, <1>3 DEF registerToolGrant, enqueueCloneFails
  <1>4. ASSUME NEW j \in Jobs, cancelIdleJob(j) \/ confirmCancel(j)
        PROVE  /\ \A k \in Jobs : SameJob(jobs[k], jobs'[k])
               /\ UNCHANGED <<deadLetters, idempotency>>
    <2>1. /\ jobs[j].state \in {"queued", "waiting_approval", "running"}
          /\ jobs' = [jobs EXCEPT ![j] = Moved(@, "cancelled")]
          /\ UNCHANGED <<deadLetters, idempotency>>
      BY <1>4 DEF cancelIdleJob, confirmCancel
    <2>2. QED
      BY <1>1, <2>1, MovedSame, OneSameJob
  <1>5. ASSUME NEW j \in Jobs, cancelRunningJob(j)
        PROVE  /\ \A k \in Jobs : SameJob(jobs[k], jobs'[k])
               /\ UNCHANGED <<deadLetters, idempotency>>
    <2>1. /\ jobs[j].state = "running"
          /\ jobs' = [jobs EXCEPT ![j] = [@ EXCEPT !.cancelling = TRUE]]
          /\ UNCHANGED <<deadLetters, idempotency>>
      BY <1>5 DEF cancelRunningJob
    <2>2. SameJob(jobs[j], [jobs[j] EXCEPT !.cancelling = TRUE])
      BY <1>1, <2>1, MovedSame
    <2>3. QED
      BY <1>1, <2>1, <2>2, OneSameJob
  <1>6. ASSUME NEW j \in Jobs, NEW a \in Approvals, NEW bound \in BOOLEAN,
               requestApproval(j, a, bound)
        PROVE  /\ \A k \in Jobs : SameJob(jobs[k], jobs'[k])
               /\ UNCHANGED <<deadLetters, idempotency>>
    <2>1. /\ jobs[j].state \in {"running", "queued"}
          /\ \/ jobs' = [jobs EXCEPT ![j] =
                            [Moved(@, "waiting_approval") EXCEPT !.approvalRef = a]]
             \/ jobs' = [jobs EXCEPT ![j] = [@ EXCEPT !.approvalRef = a]]
          /\ UNCHANGED <<deadLetters, idempotency>>
      BY <1>6 DEF requestApproval
    <2>2. /\ SameJob(jobs[j], [Moved(jobs[j], "waiting_approval") EXCEPT !.approvalRef = a])
          /\ SameJob(jobs[j], [jobs[j] EXCEPT !.approvalRef = a])
      BY <1>1, <2>1, MovedSame
    <2>3. QED
      BY <1>1, <2>1, <2>2, OneSameJob
  <1>7. ASSUME NEW a \in Approvals, approve(a) \/ reject(a)
        PROVE  /\ \A k \in Jobs : SameJob(jobs[k], jobs'[k])
               /\ UNCHANGED <<deadLetters, idempotency>>
    <2> PICK j : j = approvals[a].job
      OBVIOUS
    <2>1. j \in Jobs /\ UNCHANGED <<deadLetters, idempotency>>
      BY <1>7 DEF approve, reject, Decidable, IInv, ApprovalsRemembered
    <2>2. \/ UNCHANGED jobs
          \/ /\ jobs[j].state = "waiting_approval"
             /\ jobs' = [jobs EXCEPT ![j] = [Moved(@, "running") EXCEPT !.backoff = 0]]
          \/ jobs' = [jobs EXCEPT ![j] = AfterRejection(@)]
      BY <1>7 DEF approve, reject, ResumeOnApproval
    <2>3. jobs[j].state = "waiting_approval" =>
             SameJob(jobs[j], [Moved(jobs[j], "running") EXCEPT !.backoff = 0])
      BY <1>1, <2>1, MovedSame
    <2>4. SameJob(jobs[j], AfterRejection(jobs[j]))
      BY <1>1, <1>2, <2>1, MovedSame DEF AfterRejection
    <2>5. QED
      BY <1>1, <1>2, <2>1, <2>2, <2>3, <2>4, OneSameJob
  <1>8. CASE reconcile
    <2>1. /\ UNCHANGED <<deadLetters, idempotency>>
          /\ \A k \in Jobs : jobs'[k] =
                IF Stale(k) THEN [Moved(jobs[k], "queued") EXCEPT !.reconciledOnce = TRUE]
                ELSE jobs[k]
      BY <1>8 DEF reconcile
    <2>2. \A k \in Jobs : Stale(k) => jobs[k].state = "running"
      BY DEF Stale
    <2>3. \A k \in Jobs : Stale(k) =>
             SameJob(jobs[k], [Moved(jobs[k], "queued") EXCEPT !.reconciledOnce = TRUE])
      BY <1>1, <2>2, MovedSame
    <2>4. QED
      BY <1>2, <2>1, <2>3
  <1>9. CASE tick
    <2>1. /\ UNCHANGED <<deadLetters, idempotency>>
          /\ \A k \in Jobs : jobs'[k] = Older(jobs[k])
      BY <1>9 DEF tick
    <2>2. \A k \in Jobs : Older(jobs[k]).key = jobs[k].key
      BY <1>1 DEF Older, JobRecords
    <2>3. QED
      BY <1>1, <2>1, <2>2, OlderType DEF SameJob
  <1>10. QED
    BY <1>3, <1>4, <1>5, <1>6, <1>7, <1>8, <1>9

\* Every step keeps list and registry in agreement with the jobs.
LEMMA IndexesNext == IInv /\ IndexesAgree /\ [Next]_vars => IndexesAgree'
  <1> SUFFICES ASSUME IInv, IndexesAgree, [Next]_vars PROVE IndexesAgree'
    OBVIOUS
  <1>1. TypeOK /\ TypeOK'
    BY NextInv DEF IInv
  <1>2. ASSUME NEW w \in Workers, WorkerStep(w) \/ workerCrash(w)
        PROVE  IndexesAgree'
    BY <1>1, <1>2, WorkerKeepsJobs, BurialAgrees, SameJobsAgree DEF WorkerStep
  <1>3. ASSUME NEW j \in Jobs, NEW key \in Keys, NEW requested \in {None, TRUE, FALSE},
               enqueueJob(j, key, requested)
        PROVE  IndexesAgree'
    BY <1>1, <1>3, EnqueueAgrees
  <1>4. CASE \/ \E t \in Tenants, g \in {"open", "gated"} : registerToolGrant(t, g)
             \/ \E t \in Tenants, key \in Keys : enqueueCloneFails(t, key)
             \/ \E j \in Jobs : cancelIdleJob(j) \/ cancelRunningJob(j) \/ confirmCancel(j)
             \/ \E j \in Jobs, a \in Approvals, bound \in BOOLEAN : requestApproval(j, a, bound)
             \/ \E a \in Approvals : approve(a) \/ reject(a)
             \/ reconcile
             \/ tick
    BY <1>1, <1>4, OthersKeepJobs, SameJobsAgree
  <1>5. CASE UNCHANGED vars
    BY <1>5 DEF vars, IndexesAgree, DeadLettersExact, OneJobPerKey
  <1>6. QED
    BY <1>2, <1>3, <1>4, <1>5 DEF Next

\* The dead-letter list names exactly the jobs that died, each once and with its
\* budget spent; and no two jobs of a tenant share a key.
THEOREM IndexesStayInAgreement == Spec => []IndexesAgree
  <1>1. Init => IndexesAgree
    BY DEF Init, NoJob, NewJob, IndexesAgree, DeadLettersExact, OneJobPerKey
  <1>2. QED
    BY <1>1, Invariant, IndexesNext, PTL DEF Spec
==============================================================================
