---------------------------- MODULE PublishWorker -----------------------------
(***************************************************************************)
(* The TikTok publish worker (packages/workflow) over the publication      *)
(* queue, next to the operators who use the same queue through the API.    *)
(* A worker claims a batch, then takes its jobs one by one through account *)
(* lookup, token, creator info, post and report.  Each await is a step of  *)
(* its own; job.attempt is the number the claim returned.                  *)
(*                                                                         *)
(* External: whether a TikTok account is connected, and what the provider  *)
(* answers.  It may accept a post and its answer be lost on the way.       *)
(***************************************************************************)
EXTENDS PublicationJobs

CONSTANTS
    Workers,      \* the callers that are publish workers
    TikTokJobs,   \* the jobs whose platform is tiktok
    RetryDelay    \* computeBackoff, in ticks

Operators == Callers \ Workers

ASSUME WorkerConstants ==
    /\ Workers \subseteq Callers
    /\ TikTokJobs \subseteq Jobs
    /\ RetryDelay \in Nat
    /\ None \notin Workers
    /\ {"NO_CONNECTED_ACCOUNT", "OTHER"} \subseteq Codes

VARIABLES
    task,        \* per worker: the job in processSingleJob and where it is
    connected,   \* a TikTok account of the tenant is connected
    posts,       \* history: posts of a job the provider accepted
    unanswered,  \* history: jobs whose accepted post got no answer
    byHand,      \* history: jobs an operator reported on or created
    stranded     \* history: <<job, attempt>> whose holder went away

workerVars == <<task, connected, posts, unanswered, byHand, stranded>>
allVars == <<rows, pending, claimed, given, task, connected, posts, unanswered,
             byHand, stranded>>

Tasks == [job : Jobs, attempt : Nat,
          at : {"account", "prepare", "post", "publish", "fail"},
          code : Codes \cup {None}, nextRetry : Wait]

ASSUME NoneIsNoTask == None \notin Tasks

Task(t) == [job |-> t[1], attempt |-> t[2], at |-> "account", code |-> None,
            nextRetry |-> None]

Init ==
    /\ JobsInit
    /\ task = [w \in Workers |-> None]
    /\ connected \in BOOLEAN
    /\ posts = [j \in Jobs |-> 0]
    /\ unanswered = {}
    /\ byHand = {}
    /\ stranded = {}

-----------------------------------------------------------------------------
(* The API: jobs are created, and operators claim and report.              *)

schedule(j, scheduledFor) ==
    /\ create(j, "scheduled", None, scheduledFor)
    /\ UNCHANGED workerVars

createByHand(j, status) ==
    /\ Operators # {}
    /\ create(j, status, None, None)
    /\ byHand' = byHand \cup {j}
    /\ UNCHANGED <<task, connected, posts, unanswered, stranded>>

\* The time is the one the request names, or the clock's.
operatorClaims(o, batch, ahead) ==
    /\ claimDue(o, batch, ahead)
    /\ byHand' = byHand \cup batch
    /\ UNCHANGED <<task, connected, posts, unanswered, stranded>>

operatorReads(o, j, to, nextRetry) ==
    /\ transitionRead(o, j, to, nextRetry, None, None)
    /\ byHand' = byHand \cup {j}
    /\ UNCHANGED <<task, connected, posts, unanswered, stranded>>

operatorWrites(o) ==
    /\ transitionWrite(o) \/ transitionOvertaken(o)
    /\ UNCHANGED workerVars

-----------------------------------------------------------------------------
(* runTick.                                                                *)

\* The claim that opens a tick.
runTick(w, batch) ==
    /\ task[w] = None
    /\ claimed[w] = {}
    /\ claimDue(w, batch, 0)
    /\ UNCHANGED workerVars

\* A job of another platform was claimed with the rest, and is passed over.
skipForeign(w) ==
    \E t \in claimed[w] :
       /\ task[w] = None
       /\ t[1] \notin TikTokJobs
       /\ claimed' = [claimed EXCEPT ![w] = @ \ {t}]
       /\ stranded' = stranded \cup {t}
       /\ UNCHANGED <<rows, pending, given, task, connected, posts, unanswered, byHand>>

startJob(w) ==
    \E t \in claimed[w] :
       /\ task[w] = None
       /\ t[1] \in TikTokJobs
       /\ task' = [task EXCEPT ![w] = Task(t)]
       /\ UNCHANGED <<jobVars, connected, posts, unanswered, byHand, stranded>>

\* An exception leaves runTick, and the rest of the batch with it.
abortTick(w) ==
    /\ abandon(w)
    /\ task' = [task EXCEPT ![w] = None]
    /\ stranded' = stranded \cup claimed[w]
    /\ UNCHANGED <<connected, posts, unanswered, byHand>>

workerCrash(w) == claimed[w] # {} /\ abortTick(w)

-----------------------------------------------------------------------------
(* processSingleJob.                                                       *)

At(w, step) == task[w] # None /\ task[w].at = step

Goto(w, step) == [task EXCEPT ![w].at = step]

\* (mutation) The progress is a step that does not exist.
FailingNowhere(w, code, nextRetry) ==
    [task EXCEPT ![w] = [@ EXCEPT !.at = "failed", !.code = code, !.nextRetry = nextRetry]]

Failing(w, code, nextRetry) ==
    [task EXCEPT ![w] = [@ EXCEPT !.at = "fail", !.code = code, !.nextRetry = nextRetry]]

\* (mutation) A job without an account is dropped, not failed.
findAccountSilently(w) ==
    /\ At(w, "account")
    /\ IF connected THEN /\ task' = Goto(w, "prepare")
                         /\ UNCHANGED claimed
                    ELSE /\ task' = [task EXCEPT ![w] = None]
                         /\ claimed' = [claimed EXCEPT ![w] = Released(w, task[w].job)]
    /\ UNCHANGED <<rows, pending, given, connected, posts, unanswered, byHand, stranded>>

\* Without a connected account the job fails, with no time for a retry.
findAccount(w) ==
    /\ At(w, "account")
    /\ task' = IF connected THEN Goto(w, "prepare")
               ELSE Failing(w, "NO_CONNECTED_ACCOUNT", None)
    /\ UNCHANGED <<jobVars, connected, posts, unanswered, byHand, stranded>>

\* What callApi throws: 429, 408, 5xx and a broken connection are worth another
\* try, anything else that classifyTikTokError knows is not.  An answer without a
\* publish_id throws another error, which no retry follows either.
Refusals == {"retryable", "permanent"}

\* A retryable refusal names a time while the attempts counted so far leave a
\* retry; any other failure names none.
RetryTime(refusal, attempt) ==
    IF refusal = "retryable" /\ attempt < MaxAttempts THEN RetryDelay ELSE None
RetryTimes(attempt) == {RetryTime(refusal, attempt) : refusal \in Refusals}

\* getCreatorInfo is refused; the number is the one that the claim returned.
getCreatorInfo(w) == {Failing(w, "OTHER", r) : r \in RetryTimes(task[w].attempt)}

\* Token, creator info and content checks: each may fail the job, only the
\* second with a retry.
prepare(w) ==
    /\ At(w, "prepare")
    /\ task' \in {Goto(w, "post"), Failing(w, "OTHER", None)} \cup getCreatorInfo(w)
    /\ UNCHANGED <<jobVars, connected, posts, unanswered, byHand, stranded>>

\* The catch around the post counts one attempt more than the claim did.
AfterPost(w) == RetryTimes(task[w].attempt + 1)

\* directPost reached the provider, which has the video from now on.
directPost(w) == posts' = [posts EXCEPT ![task[w].job] = @ + 1]

postAccepted(w) ==
    /\ At(w, "post")
    /\ directPost(w)
    /\ task' = Goto(w, "publish")
    /\ UNCHANGED <<jobVars, connected, unanswered, byHand, stranded>>

\* The provider, the network on the way out or the input checks refuse.
postRefused(w) ==
    /\ At(w, "post")
    /\ \E r \in AfterPost(w) : task' = Failing(w, "OTHER", r)
    /\ UNCHANGED <<jobVars, connected, posts, unanswered, byHand, stranded>>

\* (mutation) The call is repeated at once.
postUnansweredRetriedInline(w) ==
    /\ At(w, "post")
    /\ directPost(w)
    /\ UNCHANGED <<jobVars, task, connected, unanswered, byHand, stranded>>

\* The provider accepts, and the answer is lost or cannot be read.
postUnanswered(w) ==
    /\ At(w, "post")
    /\ directPost(w)
    /\ unanswered' = unanswered \cup {task[w].job}
    /\ \E r \in AfterPost(w) : task' = Failing(w, "OTHER", r)
    /\ UNCHANGED <<jobVars, connected, byHand, stranded>>

-----------------------------------------------------------------------------
(* The report: transition to published or to failed, in two statements.    *)

Target(w) == IF task[w].at = "publish" THEN "published" ELSE "failed"

Reporting(w) == task[w] # None /\ task[w].at \in {"publish", "fail"}

reportRead(w) ==
    /\ Reporting(w)
    /\ transitionRead(w, task[w].job, Target(w), task[w].nextRetry, None, task[w].code)
    /\ UNCHANGED workerVars

\* Overtaken or not, what transition returns is not looked at.
reportWrite(w) ==
    /\ Reporting(w)
    /\ transitionWrite(w) \/ transitionOvertaken(w)
    /\ task' = [task EXCEPT ![w] = None]
    /\ UNCHANGED <<connected, posts, unanswered, byHand, stranded>>

\* The success report throws: the catch around it reports a failure that is
\* not retryable.  The write may have been committed all the same.
publishThrows(w) ==
    /\ At(w, "publish")
    /\ \/ pending[w] = None /\ UNCHANGED jobVars
       \/ /\ pending[w] # None
          /\ pending' = [pending EXCEPT ![w] = None]
          /\ UNCHANGED <<rows, claimed, given>>
       \/ /\ pending[w] # None
          /\ StatusStillRead(pending[w])
          /\ rows' = [rows EXCEPT ![task[w].job] = Written(@, pending[w])]
          /\ pending' = [pending EXCEPT ![w] = None]
          /\ UNCHANGED <<claimed, given>>
    /\ task' = Failing(w, "OTHER", None)
    /\ UNCHANGED <<connected, posts, unanswered, byHand, stranded>>

\* The failure report throws, by the database or because the step is illegal
\* by now: nothing catches it.
failThrows(w) == At(w, "fail") /\ abortTick(w)

-----------------------------------------------------------------------------

accountChanges ==
    /\ connected' = ~connected
    /\ UNCHANGED <<jobVars, task, posts, unanswered, byHand, stranded>>

time == clock /\ UNCHANGED workerVars

ApiStep ==
    \/ \E j \in Jobs, s \in Delays \cup {None} : schedule(j, s)
    \/ \E j \in Jobs, status \in Statuses : createByHand(j, status)
    \/ \E o \in Operators :
         \/ \E batch \in SUBSET Jobs, ahead \in Delays \cup {0} : operatorClaims(o, batch, ahead)
         \/ \E j \in Jobs, to \in Statuses, r \in Delays \cup {None} : operatorReads(o, j, to, r)
         \/ operatorWrites(o)

WorkerStep(w) ==
    \/ \E batch \in SUBSET Jobs : runTick(w, batch)
    \/ skipForeign(w)
    \/ startJob(w)
    \/ findAccount(w)
    \/ prepare(w)
    \/ postAccepted(w)
    \/ postRefused(w)
    \/ postUnanswered(w)
    \/ reportRead(w)
    \/ reportWrite(w)
    \/ publishThrows(w)
    \/ failThrows(w)

Next ==
    \/ ApiStep
    \/ \E w \in Workers : WorkerStep(w) \/ workerCrash(w)
    \/ accountChanges
    \/ time

Spec == Init /\ [][Next]_allVars

\* Workers tick again and again and finish what they await; time passes.
FairSpec == Spec /\ (\A w \in Workers : WF_allVars(WorkerStep(w))) /\ WF_allVars(time)

-----------------------------------------------------------------------------
(* Properties.                                                             *)

\* The types of the queue and of the workers on it.
WorkerTypeOK ==
    /\ JobsTypeOK
    /\ task \in [Workers -> Tasks \cup {None}]
    /\ connected \in BOOLEAN
    /\ posts \in [Jobs -> Nat]
    /\ unanswered \subseteq Jobs
    /\ byHand \subseteq Jobs
    /\ stranded \subseteq Jobs \X Nat

\* However claims, late reports, crashes and operators interleave, a job is
\* posted at most once per attempt that was counted for it, and more often than
\* its retry budget only if an operator had a hand in it.
PostsCounted ==
    \A j \in Jobs :
       /\ posts[j] <= rows[j].attempt
       /\ posts[j] > MaxAttempts => j \in byHand

\* A job rests in "processing" without anyone working on it only if its worker
\* died, aborted or passed it over, or an operator has a hand in it.
ProcessingHasHolder ==
    \A j \in Jobs : rows[j].status = "processing" =>
       \/ \E c \in Callers : <<j, rows[j].attempt>> \in claimed[c]
       \/ <<j, rows[j].attempt>> \in stranded
       \/ j \in byHand

\* "Provider timeout after accept -> job stays processing"
\* (docs/operator/publishing.md, failure playbook).
UnansweredStaysProcessing ==
    \A j \in unanswered \ byHand : rows[j].status = "processing"

\* "nextRetryAt: null // permanent fail until account connected"
\* (tiktok-publish-worker.js): such a job is not due meanwhile.
NoAccountIsPermanent ==
    \A j \in Jobs :
       rows[j].status = "failed" /\ rows[j].failureCode = "NO_CONNECTED_ACCOUNT"
         /\ ~connected => ~Due(j)

\* Where a job may rest for ever.
Settled(j) ==
    \/ rows[j].status \in Terminal
    \/ rows[j].status = "failed" /\ rows[j].attempt >= MaxAttempts
    \/ rows[j].status = "processing" /\ <<j, rows[j].attempt>> \in stranded

\* A scheduled job is published, spends its budget or is stranded: it does not
\* starve behind others, and no failure leaves it waiting for nothing.
ScheduledSettles == \A j \in Jobs : rows[j].status = "scheduled" ~> Settled(j)
=============================================================================
