-------------------------- MODULE AnalyticsRuntime ---------------------------
(***************************************************************************)
(* The analytics runtime of packages/analytics for one tenant: events that *)
(* arrive late, early, twice or before those they refer to, and what is    *)
(* computed from them: attribution, the commission reconciliation and the  *)
(* funnel reports.  An event names the event before it on the way from an  *)
(* impression to a conversion; nothing checks what kind of event that is.  *)
(***************************************************************************)
EXTENDS Integers, FiniteSets, SequencesExt

CONSTANTS
    Deliveries,      \* what may be delivered: id (a number: ties are broken by
                     \* their order), type, ref and value
    Campaigned,      \* the events that carry the campaign
    LateWindow,      \* lateArrivalWindowMs, in ticks
    FutureTolerance, \* FUTURE_TOLERANCE_MS, in ticks
    AnalyticsEnd     \* bound on the clock

EventTypes == {"impression", "click", "cart", "order", "conversion"}

\* minorUnits refuses what is negative; 0 names no event.
DeliveriesAssumption ==
    /\ \A d \in Deliveries :
          d.id \in Nat \ {0} /\ d.type \in EventTypes /\ d.ref \in Nat /\ d.value \in Nat
    /\ LateWindow \in Nat /\ FutureTolerance \in Nat /\ AnalyticsEnd \in Nat
ASSUME DeliveriesAssumption

EventIds == {d.id : d \in Deliveries}

VARIABLES
    ingested,        \* scope.events, none for an id that was not accepted
    arrivals,        \* the conversions in the order they were accepted
    analyticsClock

analyticsVars == <<ingested, arrivals, analyticsClock>>

NoEvent == [type |-> "none", at |-> 0, ref |-> 0, value |-> 0, received |-> 0]

AnalyticsInit ==
    /\ ingested = [e \in EventIds |-> NoEvent]
    /\ arrivals = <<>>
    /\ analyticsClock = 0

Stored == {e \in EventIds : ingested[e] # NoEvent}

IsNew(e) == ingested[e] = NoEvent

\* (mutation) How late an event is is not asked.
InTimeUnlimited(at) == at - analyticsClock <= FutureTolerance

InTime(at) == analyticsClock - at <= LateWindow /\ at - analyticsClock <= FutureTolerance

\* ingestEvent: a known id is a duplicate whatever it says.  ref is the linked
\* event: required of carts, orders and conversions, optional for a click.
ingestEvent(d, at) ==
    /\ IsNew(d.id)
    /\ InTime(at)
    /\ d.type \in {"cart", "order", "conversion"} => d.ref # 0
    /\ ingested' = [ingested EXCEPT ![d.id] =
         [type |-> d.type, at |-> at, ref |-> d.ref, value |-> d.value,
          received |-> analyticsClock]]
    /\ arrivals' = IF d.type = "conversion" THEN Append(arrivals, d.id) ELSE arrivals
    /\ UNCHANGED analyticsClock

analyticsTime ==
    /\ analyticsClock < AnalyticsEnd
    /\ analyticsClock' = analyticsClock + 1
    /\ UNCHANGED <<ingested, arrivals>>

AnalyticsNext ==
    \/ \E d \in Deliveries, at \in 0..(AnalyticsEnd + 1) : ingestEvent(d, at)
    \/ analyticsTime

AnalyticsSpec == AnalyticsInit /\ [][AnalyticsNext]_analyticsVars

-----------------------------------------------------------------------------
(* Attribution.                                                            *)

\* resolveConversion: a conversion, or the first one accepted for an order.
ResolveConversion(e) ==
    IF ingested[e].type = "conversion" THEN {e}
    ELSE {arrivals[k] : k \in {i \in DOMAIN arrivals :
            /\ ingested[e].type = "order" /\ ingested[arrivals[i]].ref = e
            /\ \A j \in 1..(i - 1) : ingested[arrivals[j]].ref # e}}

\* The field an event of this type can be followed by; others have none.
Ref(e, type) == IF e \in Stored /\ ingested[e].type = type THEN ingested[e].ref ELSE 0

OrderOf(c) == ingested[c].ref
CartOf(c) == Ref(OrderOf(c), "order")
ClickOf(c) == Ref(CartOf(c), "cart")
ImpressionOf(c) == Ref(ClickOf(c), "click")

\* chainEvent finds every link: no type is asked for, only the fields are.
ChainWhole(c) ==
    /\ OrderOf(c) \in Stored /\ CartOf(c) \in Stored /\ ClickOf(c) \in Stored
    /\ ImpressionOf(c) \in Stored \cup {0}

\* The touchpoints of a conversion, by their places on the way.
Way(c) == <<ImpressionOf(c), ClickOf(c), CartOf(c)>>
Touches(c) == {k \in 1..3 : Way(c)[k] # 0}

\* The order they are sorted in: by time, then by id, else as they were.
Earlier(c, j, k) ==
    LET a == Way(c)[j]
        b == Way(c)[k]
    IN  \/ ingested[a].at < ingested[b].at
        \/ ingested[a].at = ingested[b].at /\ (a < b \/ (a = b /\ j <= k))

\* The place, from 1, of a touchpoint among some of them.
Place(c, k, touches) == Cardinality({j \in touches : Earlier(c, j, k)})

\* (mutation) The remainder is dropped.
LinearTruncated(c, touches, total) ==
    [k \in touches |-> total \div Cardinality(touches)]

\* The first touchpoints share the remainder.
Linear(c, touches, total) ==
    LET count == Cardinality(touches) IN
    [k \in touches |-> total \div count + (IF Place(c, k, touches) <= total % count THEN 1 ELSE 0)]

\* All goes to the first of some of the touchpoints.
ToFirst(c, some, total) ==
    [k \in Touches(c) |-> IF k \in some /\ Place(c, k, some) = 1 THEN total ELSE 0]

Credits(c, model) ==
    LET total == ingested[c].value IN
    CASE model = "last_touch" ->
           ToFirst(c, {k \in Touches(c) : ingested[Way(c)[k]].type = "click"}, total)
      [] model = "first_touch" -> ToFirst(c, Touches(c), total)
      [] model = "linear" -> Linear(c, Touches(c), total)

-----------------------------------------------------------------------------
(* Reconciliation and reports.                                             *)

InWindow(from, to) == {e \in Stored : ingested[e].at >= from /\ ingested[e].at <= to}
OfType(events, type) == {e \in events : ingested[e].type = type}
ValueOf(events) == SumFunctionOnSet([e \in EventIds |-> ingested[e].value], events)

\* A cart that names something that is no click breaks last-touch attribution
\* with an error that reconcileCommissions does not take for a broken chain.
Misattributed(c) == ChainWhole(c) /\ ingested[ClickOf(c)].type # "click"

ReconcileThrows(from, to) == \E c \in OfType(InWindow(from, to), "conversion") : Misattributed(c)

reconcileCommissions(from, to) ==
    LET conversions == OfType(InWindow(from, to), "conversion") IN
    [recorded   |-> ValueOf(conversions),
     attributed |-> ValueOf({c \in conversions : ChainWhole(c)})]

funnel(from, to) == [type \in EventTypes |-> Cardinality(OfType(InWindow(from, to), type))]

\* One row for each day with events in it; a day is one tick.
cohortFunnel(from, to) ==
    [day \in {ingested[e].at : e \in InWindow(from, to)} |-> funnel(day, day)]

performanceByDimension(from, to) ==
    LET bucket == InWindow(from, to) \cap Campaigned IN
    [clicks |-> Cardinality(OfType(bucket, "click")), orders |-> Cardinality(OfType(bucket, "order")),
     commission |-> ValueOf(OfType(bucket, "conversion"))]

evaluateAnomalies(from, to, threshold) ==
    {metric \in {"commission_total", "order_count", "click_count"} :
       CASE metric = "commission_total" -> ValueOf(OfType(InWindow(from, to), "conversion")) > threshold
         [] metric = "order_count" -> funnel(from, to)["order"] > threshold
         [] metric = "click_count" -> funnel(from, to)["click"] > threshold}

-----------------------------------------------------------------------------
(* Properties.                                                             *)

AnalyticsTypeOK ==
    /\ \A e \in Stored : ingested[e].type \in EventTypes /\ ingested[e].ref \in Nat
    /\ ToSet(arrivals) = OfType(Stored, "conversion")

\* Every model gives out the whole commission of a conversion whose chain is
\* whole and rests on a click, to the minor unit and in whatever order the
\* events arrived; what is attributed in a window never exceeds what was
\* recorded in it and falls short exactly by the conversions with a gap.
CommissionIsAttributed ==
    /\ \A e \in Stored : \A c \in ResolveConversion(e) :
          ChainWhole(c) /\ ~Misattributed(c) =>
             \A model \in {"last_touch", "first_touch", "linear"} :
                SumFunctionOnSet(Credits(c, model), Touches(c)) = ingested[c].value
    /\ \A from, to \in 0..(AnalyticsEnd + 1) : ~ReconcileThrows(from, to) =>
          LET r == reconcileCommissions(from, to) IN
          /\ r.attributed <= r.recorded
          /\ r.attributed = r.recorded <=>
                \A c \in OfType(InWindow(from, to), "conversion") :
                   ChainWhole(c) \/ ingested[c].value = 0

\* Every report of a window is drawn from the same events: the cohorts and the
\* campaign add up to no more than the funnel, the alarms to what it counts,
\* and an event that came too late or from the future is in none of them.
ReportsAgree ==
    \A from, to \in 0..(AnalyticsEnd + 1) :
       LET f == funnel(from, to)
           cohorts == cohortFunnel(from, to)
           campaign == performanceByDimension(from, to)
       IN /\ \A type \in EventTypes :
                SumFunctionOnSet([day \in DOMAIN cohorts |-> cohorts[day][type]], DOMAIN cohorts) = f[type]
          /\ campaign.clicks <= f["click"] /\ campaign.orders <= f["order"]
          /\ campaign.commission <= reconcileCommissions(from, to).recorded
          /\ "click_count" \in evaluateAnomalies(from, to, 0) <=> f["click"] > 0
          /\ \A e \in InWindow(from, to) :
                ingested[e].received - ingested[e].at \in -FutureTolerance..LateWindow

AnalyticsAddsUp == CommissionIsAttributed /\ ReportsAgree
=============================================================================
