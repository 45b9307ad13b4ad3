-------------------------- MODULE ResilientInvoker ---------------------------
(***************************************************************************)
(* packages/tiktok-shop/src/resilience.js: concurrent calls through one    *)
(* invoker, each with its timeout and its retries, and one circuit breaker *)
(* all of them share.  What an operation answers is the environment's; an  *)
(* operation that timed out goes on at the provider.                       *)
(***************************************************************************)
EXTENDS Integers, FiniteSetsExt

CONSTANTS
    Calls,             \* callers; each may call again when its call has ended
    MaxRetries,        \* maxRetries
    BreakerThreshold,  \* breakerThreshold
    BreakerReset,      \* breakerResetMs, in ticks
    CallLimit,         \* bound on the calls let through
    InvokerEnd         \* bound on the clock

ASSUME InvokerConstants ==
    /\ MaxRetries \in Nat /\ BreakerThreshold \in Nat \ {0} /\ BreakerReset \in Nat
    /\ CallLimit \in Nat /\ InvokerEnd \in Nat

VARIABLES
    breaker,           \* state
    failures,          \* consecutiveFailures
    openedAt,          \* openedAtMs
    probeInFlight,     \* probeInFlight
    calls,             \* [call -> [pc, attempt]]
    let,               \* calls let through so far
    invokerClock,
    probing,           \* history: the call let through last while half open, if any
    verdicts,          \* history: how the calls recorded last ended: failures in a row
    refusedProbe       \* history: whether the probe itself ended in a refusal

invokerVars == <<breaker, failures, openedAt, probeInFlight, calls, let, invokerClock, probing,
                 verdicts, refusedProbe>>

Resting == [pc |-> "idle", attempt |-> 0]

InvokerInit ==
    /\ breaker = "closed" /\ failures = 0 /\ openedAt = 0 /\ probeInFlight = FALSE
    /\ calls = [c \in Calls |-> Resting]
    /\ let = 0
    /\ invokerClock = 0
    /\ probing = {} /\ verdicts = 0 /\ refusedProbe = FALSE

(***************************************************************************)
(* allowInvocation: open refuses until the reset time is over, then is     *)
(* half open; half open lets one call through.                             *)
(***************************************************************************)
ResetOver == breaker = "open" /\ invokerClock - openedAt >= BreakerReset
allowInvocation ==
    \/ breaker = "closed"
    \/ ResetOver
    \/ breaker = "half_open" /\ ~probeInFlight

\* (mutation) the call let through is not noted as the probe
invokeUnnoted(c) ==
    /\ calls[c].pc = "idle"
    /\ allowInvocation
    /\ breaker' = IF breaker = "closed" THEN "closed" ELSE "half_open"
    /\ probeInFlight' = FALSE
    /\ calls' = [calls EXCEPT ![c] = [pc |-> "running", attempt |-> 0]]
    /\ let' = let + 1
    /\ probing' = IF breaker = "closed" THEN probing
                  ELSE (IF breaker = "half_open" THEN probing ELSE {}) \cup {c}
    /\ refusedProbe' = (refusedProbe /\ breaker = "closed")
    /\ UNCHANGED <<failures, openedAt, invokerClock, verdicts>>
invoke(c) ==
    /\ calls[c].pc = "idle"
    /\ allowInvocation
    /\ breaker' = IF breaker = "closed" THEN "closed" ELSE "half_open"
    /\ probeInFlight' = IF breaker = "closed" THEN probeInFlight ELSE TRUE
    /\ calls' = [calls EXCEPT ![c] = [pc |-> "running", attempt |-> 0]]
    /\ let' = let + 1
    /\ probing' = IF breaker = "closed" THEN probing
                  ELSE (IF breaker = "half_open" THEN probing ELSE {}) \cup {c}
    /\ refusedProbe' = (refusedProbe /\ breaker = "closed")
    /\ UNCHANGED <<failures, openedAt, invokerClock, verdicts>>

(***************************************************************************)
(* recordSuccess, by whichever call succeeds, however old it is.           *)
(***************************************************************************)
recordSuccess ==
    /\ failures' = 0 /\ breaker' = "closed" /\ probeInFlight' = FALSE
    /\ UNCHANGED openedAt

(***************************************************************************)
(* recordFailure; one that arrives while the breaker is open opens it anew.*)
(***************************************************************************)
\* (mutation) a failed probe is one more failure and no more
recordFailureOnce ==
    /\ probeInFlight' = FALSE
    /\ failures' = failures + 1
    /\ UNCHANGED <<breaker, openedAt>>
recordFailure ==
    /\ probeInFlight' = FALSE
    /\ failures' = IF breaker = "half_open" THEN Max({failures + 1, BreakerThreshold})
                                            ELSE failures + 1
    /\ IF breaker = "half_open" \/ failures + 1 >= BreakerThreshold
         THEN breaker' = "open" /\ openedAt' = invokerClock
         ELSE UNCHANGED <<breaker, openedAt>>

succeed(c) ==
    /\ calls[c].pc = "running"
    /\ recordSuccess
    /\ calls' = [calls EXCEPT ![c] = Resting]
    /\ verdicts' = 0
    /\ UNCHANGED <<let, invokerClock, probing, refusedProbe>>

(***************************************************************************)
(* A failure that may be retried (a timeout among them) is retried while   *)
(* there are retries left, after a pause; another one ends the call.  An   *)
(* operation that was itself refused by a breaker ends unrecorded.         *)
(***************************************************************************)
failAttempt(c, retryable, refusal) ==
    /\ calls[c].pc = "running"
    /\ IF retryable /\ calls[c].attempt < MaxRetries
         THEN /\ calls' = [calls EXCEPT ![c].pc = "waiting"]
              /\ UNCHANGED <<breaker, failures, openedAt, probeInFlight, verdicts, refusedProbe>>
         ELSE /\ calls' = [calls EXCEPT ![c] = Resting]
              /\ IF refusal
                   THEN /\ refusedProbe' = (refusedProbe \/ c \in probing)
                        /\ UNCHANGED <<breaker, failures, openedAt, probeInFlight, verdicts>>
                   ELSE /\ recordFailure
                        /\ verdicts' = verdicts + 1
                        /\ UNCHANGED refusedProbe
    /\ UNCHANGED <<let, invokerClock, probing>>

retry(c) ==
    /\ calls[c].pc = "waiting"
    /\ calls' = [calls EXCEPT ![c] = [pc |-> "running", attempt |-> @.attempt + 1]]
    /\ UNCHANGED <<breaker, failures, openedAt, probeInFlight, let, invokerClock, probing,
                   verdicts, refusedProbe>>

invokerTick ==
    /\ invokerClock < InvokerEnd
    /\ invokerClock' = invokerClock + 1
    /\ UNCHANGED <<breaker, failures, openedAt, probeInFlight, calls, let, probing, verdicts,
                   refusedProbe>>

InvokerNext ==
    \/ let < CallLimit /\ \E c \in Calls : invoke(c)
    \/ \E c \in Calls : succeed(c)
    \/ \E c \in Calls, r \in BOOLEAN : failAttempt(c, r, FALSE)
    \/ \E c \in Calls : failAttempt(c, TRUE, TRUE)
    \/ \E c \in Calls : retry(c)
    \/ invokerTick

InvokerSpec == InvokerInit /\ [][InvokerNext]_invokerVars

\* Every variable has its type.
InvokerTypeOK ==
    /\ breaker \in {"closed", "open", "half_open"}
    /\ failures \in Nat /\ openedAt \in Nat /\ probeInFlight \in BOOLEAN
    /\ calls \in [Calls -> [pc : {"idle", "running", "waiting"}, attempt : 0..MaxRetries]]
    /\ let \in 0..CallLimit /\ invokerClock \in 0..InvokerEnd
    /\ probing \subseteq Calls /\ verdicts \in Nat /\ refusedProbe \in BOOLEAN

(***************************************************************************)
(* While the breaker is half open exactly one call was let through to      *)
(* probe, and it is still out, unless the probe ended in a refusal of its  *)
(* own operation, which tells the breaker nothing.                         *)
(***************************************************************************)
OneProbe ==
    breaker = "half_open" =>
        /\ Cardinality(probing) = 1
        /\ refusedProbe \/ \E c \in probing : calls[c].pc # "idle"

\* The breaker is closed only with fewer failures in a row than its threshold, and has opened
\* on a failure: as many of them as the threshold, or one of a probe.
ClosedIsEarned ==
    /\ breaker = "closed" => verdicts < BreakerThreshold
    /\ breaker = "open" => verdicts > 0
    /\ (breaker = "open" /\ probing = {}) => verdicts >= BreakerThreshold

BreakerHolds == OneProbe /\ ClosedIsEarned
=============================================================================
