---------------------------- MODULE EventPipeline ----------------------------
(***************************************************************************)
(* The outbox, its dispatchers, the stream and its consumer group together:*)
(* what a domain transaction can expect of the event it records.  The      *)
(* outbox writes the stream that the consumers read.                       *)
(***************************************************************************)
EXTENDS OutboxDispatch, StreamConsumer

pipelineVars == <<dispatchVars, groupVars>>

PipelineInit == OutboxInit /\ ConsumerInit

PipelineNext ==
    \/ OutboxStep /\ UNCHANGED groupVars
    \/ ConsumerStep /\ UNCHANGED outboxVars

PipelineSpec == PipelineInit /\ [][PipelineNext]_pipelineVars
PipelineFairSpec == PipelineSpec /\ OutboxFairness /\ ConsumerFairness

\* The types of the outbox and of the consumer group.
PipelineTypeOK == OutboxTypeOK /\ ConsumerTypeOK

-----------------------------------------------------------------------------
(* The promise, seen in the pipeline.                                      *)

\* Every mark that lets go of an event rests on a fact: "dispatched" on an entry
\* of the stream, an acknowledgement (without a store) on a handler that
\* succeeded or a dead letter, and a dead letter on all its attempts.
NothingIsDropped ==
    /\ DispatchedWasPublished
    /\ ~Deduplicates => AcknowledgedIsSettled
    /\ QuarantinedWasTried

Recorded == {e \in Events : outbox[e].state # "absent"}
Parked == {e \in Events : \E n \in 1..read : stream[n] = e /\ dlq[n] > 0}

AtLeast == INSTANCE EventDelivery WITH
    Once <- FALSE, recorded <- Recorded, effects <- handled, parked <- Parked
AtMost == INSTANCE EventDelivery WITH
    Once <- TRUE, recorded <- Recorded, effects <- handled, parked <- Parked

\* Without an idempotency store every recorded event takes effect or is parked,
\* whatever dies, is lost or is published again on the way.
DeliversAtLeastOnce == AtLeast!AtLeastOnce

\* With an idempotency store no recorded event takes effect twice, although
\* the outbox publishes it again whenever an acknowledgement is lost.
DeliversAtMostOnce == AtMost!AtMostOnce
=============================================================================
