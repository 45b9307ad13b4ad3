---------------------------- MODULE StreamConsumer ----------------------------
(***************************************************************************)
(* The durable consumer of redis-streams.js: a consumer group over one     *)
(* stream, consumeOnce and reclaimOnce, and the delivery of an entry: its  *)
(* attempt counter, the reservation of its event in the idempotency store, *)
(* the handler, then acknowledgement, retry or the dead-letter stream.     *)
(* Every Redis command is one action; a consumer can be overtaken by       *)
(* another, or stop, between any two.                                      *)
(*                                                                         *)
(* An acknowledgement and the deletion of the attempt counter after it are *)
(* one action: nothing reads the counter of an acknowledged entry except a *)
(* delivery that has already begun and counts for itself.                  *)
(***************************************************************************)
EXTENDS EventStream

CONSTANTS
    Consumers,    \* consumers of the group, one call at a time each
    MaxEntries,   \* entries the stream may hold
    BatchSize,    \* batchSize
    MaxAttempts,  \* maxAttempts
    Deduplicates, \* whether a dedupeStore is configured
    MaxStops      \* deaths of a consumer and lost Redis calls, in all

Entries == 1..MaxEntries

ASSUME ConsumerConstants ==
    /\ MaxEntries \in Nat
    /\ BatchSize \in Nat \ {0}
    /\ MaxAttempts \in Nat \ {0}
    /\ Deduplicates \in BOOLEAN
    /\ MaxStops \in Nat
    /\ None \notin Consumers

VARIABLES
    read,      \* last-delivered-id of the group
    pending,   \* the group's pending entries: owner and whether long idle
    attempts,  \* attempt counters
    reserved,  \* reservations of the idempotency store
    dlq,       \* copies of each entry in the dead-letter stream
    job,       \* the batch of each consumer and its next step
    handled,   \* how often the handler succeeded for each event
    settled,   \* history: entries handled, dead-lettered or known as duplicate
    stops      \* stops so far

groupVars == <<read, pending, attempts, reserved, dlq, job, handled, settled,
               stops>>
consumerVars == <<stream, groupVars>>

NotPending == [owner |-> None, idle |-> FALSE]
NoJob == [pc |-> "idle", batch |-> {}, attempt |-> 0, reserved |-> FALSE]

ConsumerInit ==
    /\ stream = <<>>
    /\ read = 0
    /\ pending = [n \in Entries |-> NotPending]
    /\ attempts = [n \in Entries |-> 0]
    /\ reserved = {}
    /\ dlq = [n \in Entries |-> 0]
    /\ job = [c \in Consumers |-> NoJob]
    /\ handled = [e \in Events |-> 0]
    /\ settled = {}
    /\ stops = 0

\* A publisher adds an entry, perhaps for an event that is there already.
append ==
    /\ Len(stream) < MaxEntries
    /\ \E e \in Events : stream' = Append(stream, e)
    /\ UNCHANGED groupVars

-----------------------------------------------------------------------------
(* Taking a batch.                                                         *)

Lowest(set) == CHOOSE n \in set : \A m \in set : n <= m
LowestFew(set) == {n \in set : Cardinality({m \in set : m < n}) < BatchSize}

Unread == {n \in Entries : n > read /\ n <= Len(stream)}
IdleEntries == {n \in Entries : pending[n].owner # None /\ pending[n].idle}

Take(c, batch) ==
    /\ batch # {}
    /\ pending' = [n \in Entries |-> IF n \in batch
                                     THEN [owner |-> c, idle |-> FALSE]
                                     ELSE pending[n]]
    /\ job' = [job EXCEPT ![c] = [NoJob EXCEPT !.pc = "count", !.batch = batch]]

consumeOnce(c) ==
    /\ job[c].pc = "idle"
    /\ Take(c, LowestFew(Unread))
    /\ read' = CHOOSE n \in LowestFew(Unread) : \A m \in LowestFew(Unread) : n >= m
    /\ UNCHANGED <<stream, attempts, reserved, dlq, handled, settled, stops>>

reclaimOnce(c) ==
    /\ job[c].pc = "idle"
    /\ Take(c, LowestFew(IdleEntries))
    /\ UNCHANGED <<stream, read, attempts, reserved, dlq, handled, settled,
                   stops>>

-----------------------------------------------------------------------------
(* deliver.                                                                *)

Entry(c) == Lowest(job[c].batch)
EventOf(c) == stream[Entry(c)]

DeliveryAt(c, pc) == job' = [job EXCEPT ![c].pc = pc]
\* (mutation) The loop does not see the end of its batch.
NextEntryEndless(c) ==
    job' = [job EXCEPT ![c] = [NoJob EXCEPT !.pc = "over",
                                 !.batch = job[c].batch \ {Entry(c)}]]
NextEntry(c) ==
    LET rest == job[c].batch \ {Entry(c)}
    IN  job' = [job EXCEPT ![c] =
                  IF rest = {} THEN NoJob
                  ELSE [NoJob EXCEPT !.pc = "count", !.batch = rest]]

Acknowledge(c) ==
    /\ pending' = [pending EXCEPT ![Entry(c)] = NotPending]
    /\ attempts' = [attempts EXCEPT ![Entry(c)] = 0]

\* The counter is compared with maxAttempts only, so it may stop there.
Counted(n) == IF n < MaxAttempts THEN n + 1 ELSE n

countAttempt(c) ==
    /\ job[c].pc = "count"
    /\ attempts' = [attempts EXCEPT ![Entry(c)] = Counted(@)]
    /\ job' = [job EXCEPT ![c].pc = IF Deduplicates THEN "reserve" ELSE "handle",
                          ![c].attempt = Counted(attempts[Entry(c)])]
    /\ UNCHANGED <<stream, read, pending, reserved, dlq, handled, settled, stops>>

\* (mutation) SET without NX.
TakenNever(event) == FALSE
Taken(event) == event \in reserved

reserve(c) ==
    /\ job[c].pc = "reserve"
    /\ ~Taken(EventOf(c))
    /\ reserved' = reserved \cup {EventOf(c)}
    /\ job' = [job EXCEPT ![c].pc = "handle", ![c].reserved = TRUE]
    /\ UNCHANGED <<stream, read, pending, attempts, dlq, handled, settled, stops>>

duplicate(c) ==
    /\ job[c].pc = "reserve"
    /\ Taken(EventOf(c))
    /\ DeliveryAt(c, "ackDuplicate")
    /\ UNCHANGED <<stream, read, pending, attempts, reserved, dlq, handled,
                   settled, stops>>

ackDuplicate(c) ==
    /\ job[c].pc = "ackDuplicate"
    /\ Acknowledge(c)
    /\ NextEntry(c)
    /\ settled' = IF handled[EventOf(c)] > 0 THEN settled \cup {Entry(c)} ELSE settled
    /\ UNCHANGED <<stream, read, reserved, dlq, handled, stops>>

\* (mutation) The entry is acknowledged before its handler runs.
handleSucceedsAcked(c) ==
    /\ job[c].pc = "handle"
    /\ Acknowledge(c)
    /\ DeliveryAt(c, "ack")
    /\ UNCHANGED <<stream, read, reserved, dlq, handled, settled, stops>>

handleSucceeds(c) ==
    /\ job[c].pc = "handle"
    /\ handled' = [handled EXCEPT ![EventOf(c)] = IF @ < 2 THEN @ + 1 ELSE @]
    /\ settled' = settled \cup {Entry(c)}
    /\ DeliveryAt(c, "ack")
    /\ UNCHANGED <<stream, read, pending, attempts, reserved, dlq, stops>>

\* (mutation) Dead-lettered one attempt early.
ExhaustedEarly(c) == job[c].attempt + 1 >= MaxAttempts
Exhausted(c) == job[c].attempt >= MaxAttempts

\* A handler that throws has done nothing, or nothing that counts.
handleThrows(c) ==
    /\ job[c].pc = "handle"
    /\ DeliveryAt(c, IF job[c].reserved THEN "release"
               ELSE IF Exhausted(c) THEN "quarantine" ELSE "retry")
    /\ UNCHANGED <<stream, read, pending, attempts, reserved, dlq, handled,
                   settled, stops>>

releaseReservation(c) ==
    /\ job[c].pc = "release"
    /\ reserved' = reserved \ {EventOf(c)}
    /\ DeliveryAt(c, IF Exhausted(c) THEN "quarantine" ELSE "retry")
    /\ UNCHANGED <<stream, read, pending, attempts, dlq, handled, settled, stops>>

\* The entry stays pending for a later reclaim.
retry(c) ==
    /\ job[c].pc = "retry"
    /\ NextEntry(c)
    /\ UNCHANGED <<stream, read, pending, attempts, reserved, dlq, handled,
                   settled, stops>>

quarantine(c) ==
    /\ job[c].pc = "quarantine"
    /\ dlq' = [dlq EXCEPT ![Entry(c)] = IF @ < 2 THEN @ + 1 ELSE @]
    /\ settled' = settled \cup {Entry(c)}
    /\ DeliveryAt(c, "ack")
    /\ UNCHANGED <<stream, read, pending, attempts, reserved, handled, stops>>

ack(c) ==
    /\ job[c].pc = "ack"
    /\ Acknowledge(c)
    /\ NextEntry(c)
    /\ UNCHANGED <<stream, read, reserved, dlq, handled, settled, stops>>

\* A process dies, or a Redis call throws and the batch is given up with it.
stop(c) ==
    /\ job[c].pc # "idle"
    /\ stops < MaxStops
    /\ stops' = stops + 1
    /\ job' = [job EXCEPT ![c] = NoJob]
    /\ UNCHANGED <<stream, read, pending, attempts, reserved, dlq, handled,
                   settled>>

\* minIdleMs pass since the entry was last delivered, whether or not its
\* owner is still at work on it.
idles(n) ==
    /\ pending[n].owner # None
    /\ ~pending[n].idle
    /\ pending' = [pending EXCEPT ![n].idle = TRUE]
    /\ UNCHANGED <<stream, read, attempts, reserved, dlq, job, handled, settled,
                   stops>>

Deliver(c) ==
    \/ countAttempt(c) \/ reserve(c) \/ duplicate(c) \/ ackDuplicate(c)
    \/ handleSucceeds(c) \/ handleThrows(c) \/ releaseReservation(c) \/ retry(c)
    \/ quarantine(c) \/ ack(c)

ConsumerStep ==
    \/ \E c \in Consumers :
          consumeOnce(c) \/ reclaimOnce(c) \/ Deliver(c) \/ stop(c)
    \/ \E n \in Entries : idles(n)

ConsumerNext == append \/ ConsumerStep

ConsumerSpec == ConsumerInit /\ [][ConsumerNext]_consumerVars

\* Consumers alternate consumeOnce and reclaimOnce; entries grow idle.
ConsumerFairness ==
    /\ \A c \in Consumers : /\ WF_consumerVars(Deliver(c))
                            /\ SF_consumerVars(consumeOnce(c))
                            /\ SF_consumerVars(reclaimOnce(c))
    /\ \A n \in Entries : WF_consumerVars(idles(n))

-----------------------------------------------------------------------------
(* Properties.                                                             *)

ConsumerTypeOK ==
    /\ stream \in Seq(Events)
    /\ read \in 0..Len(stream) /\ read <= MaxEntries
    /\ pending \in [Entries -> [owner: Consumers \cup {None}, idle: BOOLEAN]]
    /\ attempts \in [Entries -> 0..MaxAttempts]
    /\ reserved \subseteq Events
    /\ dlq \in [Entries -> 0..2]
    /\ job \in [Consumers ->
          [pc: {"idle", "count", "reserve", "ackDuplicate", "handle", "release",
                "retry", "quarantine", "ack"},
           batch: SUBSET (1..read), attempt: 0..MaxAttempts, reserved: BOOLEAN]]
    /\ handled \in [Events -> 0..2]
    /\ settled \subseteq 1..read
    /\ stops \in 0..MaxStops

\* An entry the group has let go of was handled, or is in the dead-letter
\* stream: nothing that was read is lost.
AcknowledgedIsSettled ==
    \A n \in 1..read : pending[n].owner = None => n \in settled

\* test/events-redis-adapter.test.js:108: the "idempotency store makes
\* redelivery exactly-once-effective", hence loses nothing either.
ReservedIsSettled == Deduplicates => AcknowledgedIsSettled

\* No entry enters the dead-letter stream before its handler failed
\* maxAttempts times or its consumers stopped in between.
QuarantinedWasTried ==
    \A n \in Entries : dlq[n] > 0 /\ pending[n].owner # None
                       => attempts[n] >= MaxAttempts
=============================================================================
