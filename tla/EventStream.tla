----------------------------- MODULE EventStream ------------------------------
(* What the outbox and the consumers share: events and the Redis stream.     *)
EXTENDS Integers, FiniteSets, Sequences

CONSTANTS
    NumEvents,  \* events that may be recorded
    None

VARIABLE stream \* the event of every entry of the stream, in order

\* Events are numbered in order of creation.
Events == 1..NumEvents

ASSUME StreamConstants == NumEvents \in Nat
=============================================================================
