---------------------------- MODULE EventDelivery ----------------------------
(***************************************************************************)
(* What event delivery promises to whoever records an event and to whoever *)
(* handles it, without streams, leases, batches or processes.  An event    *)
(* takes effect, once or (unless Once) again, or is parked for an operator.*)
(***************************************************************************)
EXTENDS Integers

CONSTANTS
    Events,
    Once     \* whether a second effect is excluded

VARIABLES
    recorded,   \* events committed with their aggregate
    effects,    \* effects of each event: none, one, or more
    parked      \* events some copy of which was given up

deliveryVars == <<recorded, effects, parked>>

DeliveryInit ==
    /\ recorded = {}
    /\ effects = [e \in Events |-> 0]
    /\ parked = {}

Record(e) ==
    /\ e \notin recorded
    /\ recorded' = recorded \cup {e}
    /\ UNCHANGED <<effects, parked>>

Effect(e) ==
    /\ e \in recorded
    /\ Once => effects[e] = 0
    /\ effects' = [effects EXCEPT ![e] = IF @ < 2 THEN @ + 1 ELSE @]
    /\ UNCHANGED <<recorded, parked>>

Park(e) ==
    /\ e \in recorded
    /\ parked' = parked \cup {e}
    /\ UNCHANGED <<recorded, effects>>

DeliveryNext == \E e \in Events : Record(e) \/ Effect(e) \/ Park(e)

AtMostOnce == DeliveryInit /\ [][DeliveryNext]_deliveryVars

Settles ==
    \A e \in Events : e \in recorded ~> effects[e] > 0 \/ e \in parked

AtLeastOnce == AtMostOnce /\ Settles
=============================================================================
