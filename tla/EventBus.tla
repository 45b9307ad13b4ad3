------------------------------ MODULE EventBus -------------------------------
(***************************************************************************)
(* The domain event bus of packages/events for one tenant and type.  A     *)
(* publication calls the handlers one after the other, walking the live    *)
(* list of subscribers: a handler may subscribe others, or unsubscribe     *)
(* itself or others, and the walk goes on at the next place of the list as *)
(* it then is.  One step is one handler with all its tries.  A handler     *)
(* that publishes itself, beginning a walk inside the walk, is left out.   *)
(***************************************************************************)
EXTENDS Integers, SequencesExt

CONSTANTS
    Handlers,          \* handlers that may be subscribed
    BusAttempts,       \* maxAttempts
    DeadLetterRoom,    \* deadLetterCapacity
    PublishRounds      \* bound on the publications

\* createDomainEventBus refuses other limits.
ASSUME BusAssumption == BusAttempts \in Nat \ {0} /\ DeadLetterRoom \in Nat \ {0}

VARIABLES
    subscribers,       \* the list
    busLetters,       \* [event, handler]
    delivering,        \* the publication that is under way: its event, the place
                       \*   of the list, who was there when it began, and whether
                       \*   the list it walks was dropped; or {}
    published,         \* number of publications
    reached,           \* history: <<event, handler>> of each call, with its tries
    disturbed          \* history: the events during which somebody unsubscribed

busVars == <<subscribers, busLetters, delivering, published, reached, disturbed>>

BusInit ==
    /\ subscribers = <<>>
    /\ busLetters = <<>>
    /\ delivering = {}
    /\ published = 0
    /\ reached = {}
    /\ disturbed = {}

\* Between publications, or from within a handler that was called.
Reentrant == \A d \in delivering : d.place > 1

subscribe(h) ==
    /\ Reentrant
    /\ ~Contains(subscribers, h)
    /\ subscribers' = Append(subscribers, h)
    /\ UNCHANGED <<busLetters, delivering, published, reached, disturbed>>

\* What subscribe returned.  The last one to leave takes the list with it: a
\* later subscriber starts another, which a walk under way does not see.
unsubscribe(h) ==
    /\ Reentrant
    /\ \E i \in DOMAIN subscribers : subscribers[i] = h /\ subscribers' = RemoveAt(subscribers, i)
    /\ disturbed' = IF delivering = {} THEN disturbed ELSE disturbed \cup {published}
    /\ delivering' = {[d EXCEPT !.dropped = d.dropped \/ Len(subscribers) = 1] : d \in delivering}
    /\ UNCHANGED <<busLetters, published, reached>>

publishEvent ==
    /\ delivering = {}
    /\ delivering' = {[place |-> 1, present |-> ToSet(subscribers), dropped |-> FALSE]}
    /\ published' = published + 1
    /\ UNCHANGED <<subscribers, busLetters, reached, disturbed>>

\* (mutation) The new letter is thrown away when there is no room.
QuarantinedNewest(letter) ==
    IF Len(busLetters) >= DeadLetterRoom THEN busLetters ELSE Append(busLetters, letter)

\* recordDeadLetter: the oldest makes room.
Quarantined(letter) ==
    Append(IF Len(busLetters) >= DeadLetterRoom THEN Tail(busLetters) ELSE busLetters, letter)

\* (mutation) A failed handler keeps its place and is called again.
NextPlaceStays(place, delivered) == IF delivered THEN place + 1 ELSE place

NextPlace(place, delivered) == place + 1

\* The handler at the place answers at its first, second, ... try or at none.
deliver(tries, delivered) ==
    \E d \in delivering :
       /\ d.place <= Len(subscribers) /\ ~d.dropped
       /\ delivered \/ tries = BusAttempts
       /\ reached' = reached \cup {[event |-> published, handler |-> subscribers[d.place], tries |-> tries,
                                    delivered |-> delivered, nth |-> Cardinality(reached) + 1]}
       /\ busLetters' = IF delivered THEN busLetters
                         ELSE Quarantined([event |-> published, handler |-> subscribers[d.place]])
       /\ delivering' = {[d EXCEPT !.place = NextPlace(d.place, delivered)]}
       /\ UNCHANGED <<subscribers, published, disturbed>>

publishReturns ==
    \E d \in delivering :
       /\ d.place > Len(subscribers) \/ d.dropped
       /\ delivering' = {}
       /\ UNCHANGED <<subscribers, busLetters, published, reached, disturbed>>

BusNext ==
    \/ \E h \in Handlers : subscribe(h) \/ unsubscribe(h)
    \/ published < PublishRounds /\ publishEvent
    \/ Cardinality(reached) < PublishRounds * Cardinality(Handlers)
         /\ \E tries \in 1..BusAttempts, delivered \in BOOLEAN : deliver(tries, delivered)
    \/ publishReturns

BusSpec == BusInit /\ [][BusNext]_busVars

-----------------------------------------------------------------------------
(* Properties.                                                             *)

BusTypeOK ==
    /\ ToSet(subscribers) \subseteq Handlers
    /\ Len(busLetters) <= DeadLetterRoom

\* The calls whose tries were all in vain.
Failed == {r \in reached : ~r.delivered}

\* When a publication has returned, everybody who was subscribed when it began
\* was called, unless somebody left in between; nobody was called twice while
\* subscribed once; and the latest failures, as many as there is room for, are
\* what the dead letters hold, in order.
DeliveriesAreAccounted ==
    /\ \A d \in delivering : d.place > Len(subscribers) /\ published \notin disturbed =>
          \A h \in d.present : \E r \in reached : r.event = published /\ r.handler = h
    /\ \A q, r \in reached :
          q.event = r.event /\ q.handler = r.handler /\ q # r => q.event \in disturbed
    /\ Len(busLetters) = (IF Cardinality(Failed) < DeadLetterRoom THEN Cardinality(Failed) ELSE DeadLetterRoom)
    /\ \A k \in DOMAIN busLetters : \E r \in Failed :
          /\ busLetters[k] = [event |-> r.event, handler |-> r.handler]
          /\ Cardinality({q \in Failed : q.nth > r.nth}) = Len(busLetters) - k
=============================================================================
