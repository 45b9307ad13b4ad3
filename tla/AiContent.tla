----------------------------- MODULE AiContent -------------------------------
(***************************************************************************)
(* packages/ai-content/src/runtime.js for one tenant: prompt templates,    *)
(* providers in order of priority, one budget, a cache of outputs, the     *)
(* provenance of each, and the publisher agent.  Every call is synchronous;*)
(* the transport and the moderator are the environment's.                  *)
(***************************************************************************)
EXTENDS Integers, SequencesExt

CONSTANTS
    AiProviders,      \* providers of one kind
    PriorityOf,       \* [provider -> priority], no two alike
    CostOf,           \* [provider -> cost of a call in minor units]
    SpendBudget,      \* the budget of the tenant
    CacheTtl,         \* how long a cached output is used, in ticks
    TemplateVersions, \* versions the one template may be given, in order
    GenerationLimit,  \* bound on the calls that reach a provider
    AiEnd             \* bound on the clock

\* orderedProviders breaks ties by id: an order, whatever numbers stand for it.
AiAssumption ==
    /\ \A p \in AiProviders : PriorityOf[p] \in Int /\ CostOf[p] \in Nat
    /\ \A p, q \in AiProviders : PriorityOf[p] = PriorityOf[q] => p = q
    /\ SpendBudget \in Nat /\ CacheTtl \in Nat /\ GenerationLimit \in Nat /\ AiEnd \in Nat
ASSUME AiAssumption

VARIABLES
    registered,    \* the providers registered so far
    templates,     \* the versions of the template, in order of registration
    outputs,       \* scope.cache: [version -> {} or one entry]
    provenance,    \* scope.provenance, in order of creation
    requests,      \* provenanceSequence
    spend,         \* scope.spendMinorUnits
    metered,       \* the ai.usage.metered events, in order
    agents,        \* whether the publisher agent is registered
    aiClock,
    answered       \* history: the last output handed out

aiVars == <<registered, templates, outputs, provenance, requests, spend, metered, agents, aiClock,
            answered>>

NoAnswer == [version |-> "none"]

AiInit ==
    /\ registered = {}
    /\ templates = <<>>
    /\ outputs = [v \in TemplateVersions |-> {}]
    /\ provenance = <<>>
    /\ requests = 0
    /\ spend = 0
    /\ metered = <<>>
    /\ agents = FALSE
    /\ aiClock = 0
    /\ answered = NoAnswer

registerProvider(p) ==
    /\ p \notin registered
    /\ registered' = registered \cup {p}
    /\ UNCHANGED <<templates, outputs, provenance, requests, spend, metered, agents, aiClock, answered>>

registerPromptTemplate(v) ==
    /\ ~Contains(templates, v)
    /\ templates' = Append(templates, v)
    /\ UNCHANGED <<registered, outputs, provenance, requests, spend, metered, agents, aiClock, answered>>

\* registerAgent and runAgent: the publisher only runs with an approval; its
\* template and purpose are its own, so what it generates is what generate does.
registerAgent ==
    /\ ~agents
    /\ agents' = TRUE
    /\ UNCHANGED <<registered, templates, outputs, provenance, requests, spend, metered, aiClock, answered>>

-----------------------------------------------------------------------------
(* generate.                                                               *)

\* (mutation) A cached output is used one tick too long.
CachedLate(v) == {e \in outputs[v] : aiClock - e.at <= CacheTtl + 1}

Cached(v) == {e \in outputs[v] : aiClock - e.at <= CacheTtl}

\* What the transport and the moderator do with one provider.
Outcomes == {"throws", "blocked", "allowed"}

\* The first provider, in order of priority, whose call does not throw, if any.
AnswersBy(outcome) ==
    {p \in registered : /\ outcome[p] # "throws"
                        /\ \A q \in registered : PriorityOf[q] < PriorityOf[p] => outcome[q] = "throws"}

\* The providers up to the one that answers.
InTurn(outcome) == {q \in registered : \A p \in AnswersBy(outcome) : PriorityOf[q] <= PriorityOf[p]}

\* (mutation) The budget is checked against what has been spent, without the call.
AffordableBefore(outcome) == \A q \in InTurn(outcome) : spend < SpendBudget

\* No provider up to the one that answers would pass the budget: the first that
\* would ends the call, even when a cheaper one is next.
Affordable(outcome) == \A q \in InTurn(outcome) : spend + CostOf[q] <= SpendBudget

generateCached(v) ==
    /\ Cached(v) # {}
    /\ \E e \in Cached(v) :
          answered' = [version |-> v, request |-> e.request, at |-> aiClock]
    /\ outputs' = [outputs EXCEPT ![v] = Cached(v)]
    /\ UNCHANGED <<registered, templates, provenance, requests, spend, metered, agents, aiClock>>

\* (mutation) An output that moderation blocked is kept for the next call.
RememberedPaid(pays, allowed) == pays

\* Only an output that moderation allowed enters provenance and cache.
Remembered(pays, allowed) == pays /\ allowed

\* A stale entry is dropped first.  The call is paid for when it answers, before
\* it is moderated; provenance and cache follow only what was allowed.
generateFresh(v, outcome) ==
    LET request == requests + 1
        paid == {p \in AnswersBy(outcome) : Affordable(outcome)}
        allowed == \E p \in paid : outcome[p] = "allowed"
        keeps == Remembered(paid # {}, allowed)
    IN  /\ Cached(v) = {} /\ registered # {}
        /\ requests' = request
        /\ \/ paid = {} /\ UNCHANGED <<spend, metered>>
           \/ \E p \in paid :
                 /\ spend' = spend + CostOf[p]
                 /\ metered' = Append(metered, [request |-> request, cost |-> CostOf[p]])
        /\ outputs' = [outputs EXCEPT ![v] = IF keeps THEN {[request |-> request, at |-> aiClock]} ELSE {}]
        /\ provenance' = IF allowed
                         THEN Append(provenance, [request |-> request, version |-> v, at |-> aiClock])
                         ELSE provenance
        /\ answered' = IF allowed THEN [version |-> v, request |-> request, at |-> aiClock] ELSE answered
        /\ UNCHANGED <<registered, templates, agents, aiClock>>

\* version "latest" or a version by its name; the publisher names no version.
generate(v, outcome) ==
    /\ Contains(templates, v)
    /\ generateCached(v) \/ (requests < GenerationLimit /\ generateFresh(v, outcome))

runAgent(outcome) ==
    /\ agents /\ templates # <<>>
    /\ generate(Last(templates), outcome)

aiTime ==
    /\ aiClock < AiEnd
    /\ aiClock' = aiClock + 1
    /\ UNCHANGED <<registered, templates, outputs, provenance, requests, spend, metered, agents, answered>>

AiNext ==
    \/ \E p \in AiProviders : registerProvider(p)
    \/ \E v \in TemplateVersions : registerPromptTemplate(v)
    \/ registerAgent
    \/ \E outcome \in [registered -> Outcomes] :
          runAgent(outcome) \/ \E v \in TemplateVersions : generate(v, outcome)
    \/ aiTime

AiSpec == AiInit /\ [][AiNext]_aiVars

-----------------------------------------------------------------------------
(* Properties.                                                             *)

AiTypeOK ==
    /\ registered \subseteq AiProviders
    /\ requests \in 0..GenerationLimit
    /\ \A v \in TemplateVersions : Cardinality(outputs[v]) <= 1
    /\ aiClock \in 0..AiEnd

\* What is spent is what was metered, and stays within the budget, whichever
\* providers fail, are too dear or have their output blocked.
SpendIsMetered ==
    /\ spend = SumFunctionOnSet([i \in DOMAIN metered |-> metered[i].cost], DOMAIN metered)
    /\ spend <= SpendBudget
    /\ \A i, j \in 1..Len(metered) : i # j => metered[i].request # metered[j].request

\* An output that is handed out, fresh or from the cache, passed moderation for
\* the version that was asked for, was paid for, and is no older than the cache
\* allows.
AnswersAreAccounted ==
    answered # NoAnswer =>
       /\ \E i \in 1..Len(metered) : metered[i].request = answered.request
       /\ \E i \in 1..Len(provenance) :
             /\ provenance[i].request = answered.request /\ provenance[i].version = answered.version
             /\ answered.at - provenance[i].at \in 0..CacheTtl

\* Both, about generate and what its callers may rely on.
GenerationAddsUp == SpendIsMetered /\ AnswersAreAccounted
=============================================================================
