----------------------------- MODULE Telemetry -------------------------------
(***************************************************************************)
(* packages/observability: the spans of one process, which share a single  *)
(* `current`, and its metrics, which MetricsRegistry keeps twice: in a     *)
(* store of its own that render() prints, and in the checked store that    *)
(* snapshot() reads.  A call changes the first before the second may       *)
(* refuse it.  A series is a name with its labels; label values that make  *)
(* two series share a key are left out.                                    *)
(***************************************************************************)
EXTENDS Integers, Sequences, FiniteSetsExt, Functions

CONSTANTS
    SpanLimit,      \* bound on the spans
    GivenTraces,    \* trace ids a caller may pass to startSpan
    Series,         \* series of counters and gauges
    SpanSeries,     \* the one of them that span.duration_ms is recorded under
    Samples,        \* amounts and values
    MetricLimit     \* bound on the calls of inc and set

TelemetryAssumption == SpanSeries \in Series /\ SpanLimit \in Nat /\ Samples \subseteq Int
ASSUME TelemetryAssumption

VARIABLES
    spans,          \* [trace, parent, ended], in the order they started
    currentSpan,    \* current, or 0
    checkedRows,    \* the store of createObservability: [type, count, value]
    legacyRows,     \* #legacyStore: [type, count, value]
    metricCalls,    \* history: [series, kind, sample, accepted]
    strayed         \* history: a span ended that was not current, or its end threw

telemetryVars == <<spans, currentSpan, checkedRows, legacyRows, metricCalls, strayed>>

MetricRow(type, count, value) == [type |-> type, count |-> count, value |-> value]
NoRow == MetricRow("none", 0, 0)
NotFinite == -1     \* a value that is not a finite number

TelemetryInit ==
    /\ spans = <<>>
    /\ currentSpan = 0
    /\ checkedRows = [s \in Series |-> NoRow]
    /\ legacyRows = [s \in Series |-> NoRow]
    /\ metricCalls = <<>>
    /\ strayed = FALSE

\* metricEntry refuses a series that has another type.
TypeFits(s, type) == checkedRows[s].type \in {"none", type}

Counted(row, type) == MetricRow(type, row.count + 1, row.value)

-----------------------------------------------------------------------------
(* Spans.                                                                  *)

\* A trace of its own is named by the number of the span that begins it.
startSpan(trace) ==
    /\ Len(spans) < SpanLimit
    /\ spans' = Append(spans,
         [trace |-> IF trace # {} THEN CHOOSE t \in trace : TRUE
                    ELSE IF currentSpan # 0 THEN spans[currentSpan].trace ELSE Len(spans) + 1,
          parent |-> currentSpan, ended |-> FALSE])
    /\ currentSpan' = Len(spans) + 1
    /\ UNCHANGED <<checkedRows, legacyRows, metricCalls, strayed>>

\* (mutation) The end of the current span leaves none current.
AfterEndNone(n) == IF currentSpan = n THEN 0 ELSE currentSpan

\* Back to the span that was current at the start, ended by now or not.
AfterEnd(n) == IF currentSpan = n THEN spans[n].parent ELSE currentSpan

\* The span is ended before its duration is recorded; if that is refused the
\* span stays current.
endSpan(n) ==
    /\ ~spans[n].ended
    /\ spans' = [spans EXCEPT ![n] = [@ EXCEPT !.ended = TRUE]]
    /\ IF TypeFits(SpanSeries, "histogram")
       THEN /\ checkedRows' = [checkedRows EXCEPT ![SpanSeries] = Counted(@, "histogram")]
            /\ currentSpan' = AfterEnd(n)
       ELSE UNCHANGED <<checkedRows, currentSpan>>
    /\ strayed' = (strayed \/ currentSpan # n \/ ~TypeFits(SpanSeries, "histogram"))
    /\ UNCHANGED <<legacyRows, metricCalls>>

-----------------------------------------------------------------------------
(* Metrics.                                                                *)

\* A row keeps the type of the call that made it.
LegacyType(s, type) == IF legacyRows[s].type = "none" THEN type ELSE legacyRows[s].type

Called(s, kind, sample, accepted) ==
    metricCalls' = Append(metricCalls, [series |-> s, kind |-> kind, sample |-> sample, accepted |-> accepted])

\* Its own store adds the amount, the checked one adds one.
inc(s, amount) ==
    /\ legacyRows' = [legacyRows EXCEPT ![s] =
         MetricRow(LegacyType(s, "counter"), @.count + amount, @.value)]
    /\ checkedRows' = IF TypeFits(s, "counter")
                      THEN [checkedRows EXCEPT ![s] = Counted(@, "counter")] ELSE checkedRows
    /\ Called(s, "counter", amount, TypeFits(s, "counter"))
    /\ UNCHANGED <<spans, currentSpan, strayed>>

set(s, value) ==
    LET accepted == value # NotFinite /\ TypeFits(s, "gauge") IN
    /\ legacyRows' = [legacyRows EXCEPT ![s] =
         MetricRow(LegacyType(s, "gauge"), @.count, value)]
    /\ checkedRows' = IF accepted
                      THEN [checkedRows EXCEPT ![s] = MetricRow("gauge", @.count, value)]
                      ELSE checkedRows
    /\ Called(s, "gauge", value, accepted)
    /\ UNCHANGED <<spans, currentSpan, strayed>>

TelemetryNext ==
    \/ \E trace \in {{}} \cup {{t} : t \in GivenTraces} : startSpan(trace)
    \/ \E n \in DOMAIN spans : endSpan(n)
    \/ /\ Len(metricCalls) < MetricLimit
       /\ \E s \in Series, v \in Samples : inc(s, v) \/ set(s, v) \/ set(s, NotFinite)

TelemetrySpec == TelemetryInit /\ [][TelemetryNext]_telemetryVars

-----------------------------------------------------------------------------
(* Properties.                                                             *)

TelemetryTypeOK ==
    /\ currentSpan \in 0..Len(spans)
    /\ \A s \in Series : checkedRows[s].type \in {"none", "counter", "gauge", "histogram"}

Open == {n \in DOMAIN spans : ~spans[n].ended}

\* As long as spans end innermost first, the current one is the innermost that
\* is open; and every span that ended was measured, once, unless somebody took
\* the name of the durations for another type.
SpansNest ==
    /\ strayed \/ currentSpan = Max(Open \cup {0})
    /\ checkedRows[SpanSeries].type = "histogram" =>
          checkedRows[SpanSeries].count = Cardinality(DOMAIN spans \ Open)

Callings(s, kind) == {k \in DOMAIN metricCalls : metricCalls[k].series = s /\ metricCalls[k].kind = kind}

Added(s) ==
    SumFunctionOnSet([k \in DOMAIN metricCalls |-> metricCalls[k].sample], Callings(s, "counter"))

\* What render() prints and what snapshot() reads are of one type wherever both
\* have a row that inc or set made, and differ by no more than they must: the
\* printed count adds the amounts of the calls that were counted, and the
\* printed value is the one that was checked unless the last set was refused.
StoresAgree ==
    \A s \in Series \ {SpanSeries} :
       LET legacy == legacyRows[s]
           row == checkedRows[s]
           sets == Callings(s, "gauge")
       IN  /\ row.type = "counter" /\ legacy.type = "counter" =>
                 /\ legacy.count = Added(s)
                 /\ row.count = Cardinality(Callings(s, "counter"))
           /\ row.type = "gauge" /\ legacy.type = "gauge" =>
                 legacy.value = row.value \/ ~metricCalls[Max(sets)].accepted
           /\ row.type \notin {"none", legacy.type} =>
                 \E k \in sets : metricCalls[k].sample = NotFinite

TelemetryHolds == SpansNest /\ StoresAgree
=============================================================================
