---------------------------- MODULE OutboxDispatch ----------------------------
(***************************************************************************)
(* The transactional outbox: rows of affiliate_domain_outbox, the leases   *)
(* claimOutbox takes on them and the dispatchers that publish a claimed    *)
(* batch to the stream, event by event.  Each repository call is one       *)
(* transaction, hence one action; a dispatcher can be overtaken, or die,   *)
(* between any two calls.                                                  *)
(***************************************************************************)
EXTENDS EventStream

CONSTANTS
    Dispatchers,  \* processes that call dispatchOnce
    Limit,        \* batchSize
    MaxFaults     \* lost or refused calls and deaths of a dispatcher, in all

ASSUME OutboxConstants ==
    /\ Limit \in Nat \ {0}
    /\ MaxFaults \in Nat
    /\ None \notin Dispatchers

VARIABLES
    outbox,   \* the rows
    work,     \* the batch of each dispatcher and its next step
    faults,   \* faults so far
    lapsed    \* history: events whose lease ran out or was given up unowned

outboxVars == <<outbox, work, faults, lapsed>>
dispatchVars == <<outbox, work, stream, faults, lapsed>>

NoRow == [state |-> "absent", lock |-> None, expired |-> FALSE,
          delayed |-> FALSE]
NoWork == [pc |-> "idle", batch |-> {}]

OutboxInit ==
    /\ outbox = [e \in Events |-> NoRow]
    /\ work = [d \in Dispatchers |-> NoWork]
    /\ stream = <<>>
    /\ faults = 0
    /\ lapsed = {}

\* The domain transaction that changes the aggregate inserts its event; the
\* transactions commit in any order.
record(e) ==
    /\ outbox[e].state = "absent"
    /\ outbox' = [outbox EXCEPT ![e].state = "pending"]
    /\ UNCHANGED <<work, stream, faults, lapsed>>

-----------------------------------------------------------------------------
(* claimOutbox.                                                            *)

\* (mutation) Without the condition on locked_at.
ClaimableLocked(e) ==
    /\ outbox[e].state = "pending"
    /\ ~outbox[e].delayed

Claimable(e) ==
    /\ outbox[e].state = "pending"
    /\ ~outbox[e].delayed
    /\ outbox[e].lock = None \/ outbox[e].expired

\* The oldest Limit candidates.
Batch == {e \in Events : Claimable(e)
             /\ Cardinality({f \in 1..(e - 1) : Claimable(f)}) < Limit}

claimOutbox(d) ==
    /\ work[d].pc = "idle"
    /\ Batch # {}
    /\ outbox' = [e \in Events |->
                    IF e \in Batch
                    THEN [outbox[e] EXCEPT !.lock = d, !.expired = FALSE]
                    ELSE outbox[e]]
    /\ work' = [work EXCEPT ![d] = [pc |-> "publish", batch |-> Batch]]
    /\ UNCHANGED <<stream, faults, lapsed>>

-----------------------------------------------------------------------------
(* dispatchOnce: publish, then mark; any exception leads to releaseOutbox. *)

Current(d) == CHOOSE e \in work[d].batch : \A f \in work[d].batch : e <= f

DispatchAt(d, pc) == work' = [work EXCEPT ![d].pc = pc]
NextEvent(d) ==
    LET rest == work[d].batch \ {Current(d)}
    IN  work' = [work EXCEPT ![d] =
                   [pc |-> IF rest = {} THEN "idle" ELSE "publish",
                    batch |-> rest]]
Fault == faults < MaxFaults /\ faults' = faults + 1

\* (mutation) The acknowledgement comes first and the row is marked by it.
publishAfterMark(d) ==
    /\ work[d].pc = "publish"
    /\ outbox' = [outbox EXCEPT ![Current(d)].state = "dispatched"]
    /\ DispatchAt(d, "mark")
    /\ UNCHANGED <<stream, faults, lapsed>>

publish(d) ==
    /\ work[d].pc = "publish"
    /\ stream' = Append(stream, Current(d))
    /\ DispatchAt(d, "mark")
    /\ UNCHANGED <<outbox, faults, lapsed>>

\* xadd throws: before Redis took the event, or after.
publishThrows(d) ==
    /\ work[d].pc = "publish"
    /\ Fault
    /\ \/ UNCHANGED stream
       \/ stream' = Append(stream, Current(d))
    /\ DispatchAt(d, "release")
    /\ UNCHANGED <<outbox, lapsed>>

markOutboxDispatched(d) ==
    /\ work[d].pc = "mark"
    /\ outbox[Current(d)].state = "pending"
    /\ outbox' = [outbox EXCEPT ![Current(d)].state = "dispatched",
                                ![Current(d)].lock = None]
    /\ NextEvent(d)
    /\ UNCHANGED <<stream, faults, lapsed>>

\* Another dispatcher marked it first: counted as a failure, then released.
markTooLate(d) ==
    /\ work[d].pc = "mark"
    /\ outbox[Current(d)].state = "dispatched"
    /\ DispatchAt(d, "release")
    /\ UNCHANGED <<outbox, stream, faults, lapsed>>

markThrows(d) ==
    /\ work[d].pc = "mark"
    /\ Fault
    /\ DispatchAt(d, "release")
    /\ UNCHANGED <<outbox, stream, lapsed>>

\* The lock is dropped whoever holds it, and the event waits retryDelayMs.
Released(row) == [row EXCEPT !.lock = None, !.expired = FALSE, !.delayed = TRUE]

releaseOutbox(d) ==
    /\ work[d].pc = "release"
    /\ IF outbox[Current(d)].state = "pending"
       THEN /\ outbox' = [outbox EXCEPT ![Current(d)] = Released(@)]
            /\ lapsed' = IF outbox[Current(d)].lock = d THEN lapsed
                         ELSE lapsed \cup {Current(d)}
       ELSE UNCHANGED <<outbox, lapsed>>
    /\ NextEvent(d)
    /\ UNCHANGED <<stream, faults>>

\* The release itself throws: logged, and the loop goes on.
releaseThrows(d) ==
    /\ work[d].pc = "release"
    /\ Fault
    /\ NextEvent(d)
    /\ UNCHANGED <<outbox, stream, lapsed>>

dispatcherDies(d) ==
    /\ work[d].pc # "idle"
    /\ Fault
    /\ work' = [work EXCEPT ![d] = NoWork]
    /\ UNCHANGED <<outbox, stream, lapsed>>

\* leaseMs pass on a row; retryDelayMs pass on a row.
leaseExpires(e) ==
    /\ outbox[e].lock # None
    /\ ~outbox[e].expired
    /\ outbox' = [outbox EXCEPT ![e].expired = TRUE]
    /\ lapsed' = lapsed \cup {e}
    /\ UNCHANGED <<work, stream, faults>>

delayEnds(e) ==
    /\ outbox[e].delayed
    /\ outbox' = [outbox EXCEPT ![e].delayed = FALSE]
    /\ UNCHANGED <<work, stream, faults, lapsed>>

Dispatch(d) ==
    \/ claimOutbox(d) \/ publish(d) \/ markOutboxDispatched(d)
    \/ markTooLate(d) \/ releaseOutbox(d)

OutboxFaults(d) ==
    publishThrows(d) \/ markThrows(d) \/ releaseThrows(d) \/ dispatcherDies(d)

OutboxStep ==
    \/ \E e \in Events : record(e) \/ leaseExpires(e) \/ delayEnds(e)
    \/ \E d \in Dispatchers : Dispatch(d) \/ OutboxFaults(d)

OutboxSpec == OutboxInit /\ [][OutboxStep]_dispatchVars

\* Dispatchers call dispatchOnce again and again, and clocks advance.
OutboxFairness ==
    /\ \A d \in Dispatchers : WF_dispatchVars(Dispatch(d))
    /\ \A e \in Events : /\ WF_dispatchVars(leaseExpires(e))
                         /\ WF_dispatchVars(delayEnds(e))

-----------------------------------------------------------------------------
(* Properties.                                                             *)

OutboxTypeOK ==
    /\ outbox \in [Events -> [state: {"absent", "pending", "dispatched"},
                              lock: Dispatchers \cup {None},
                              expired: BOOLEAN, delayed: BOOLEAN]]
    /\ work \in [Dispatchers -> [pc: {"idle", "publish", "mark", "release"},
                                 batch: SUBSET Events]]
    /\ \A d \in Dispatchers : work[d].pc = "idle" <=> work[d].batch = {}
    /\ stream \in Seq(Events)
    /\ faults \in 0..MaxFaults
    /\ lapsed \subseteq Events

Published(e) == \E i \in 1..Len(stream) : stream[i] = e

\* No event is marked dispatched that is not in the stream, whoever marked it
\* and whatever failed in between (test/outbox-dispatcher.test.js:16).
DispatchedWasPublished ==
    \A e \in Events : outbox[e].state = "dispatched" => Published(e)

\* Two dispatchers work on one event only after its lease ran out, or after a
\* dispatcher that had lost it released it for the other.
LeaseExcludes ==
    \A e \in Events, d1, d2 \in Dispatchers :
        d1 # d2 /\ e \in work[d1].batch /\ e \in work[d2].batch
        => e \in lapsed
=============================================================================
