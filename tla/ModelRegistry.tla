--------------------------- MODULE ModelRegistry -----------------------------
(***************************************************************************)
(* packages/intelligence/src/registry.js: the versions of one model name,  *)
(* their way through the registry, and the one version that is served.     *)
(***************************************************************************)
EXTENDS Integers, FiniteSets

CONSTANTS ModelVersions

\* "none" stands for no version.
ASSUME VersionsAssumption == "none" \notin ModelVersions

VARIABLES
    models,     \* [version -> status, "none" before registration]
    served,     \* scope.production.get(name), "none" for none
    approvers,  \* [version -> whether approved_by is set]
    shadowed    \* history: the versions that ever were in SHADOW

registryVars == <<models, served, approvers, shadowed>>

RegistryInit ==
    /\ models = [v \in ModelVersions |-> "none"]
    /\ served = "none"
    /\ approvers = [v \in ModelVersions |-> FALSE]
    /\ shadowed = {}

LegalTransitions(s) ==
    CASE s = "CANDIDATE" -> {"VALIDATING", "REJECTED"}
      [] s = "VALIDATING" -> {"SHADOW", "REJECTED"}
      [] s = "SHADOW" -> {"PRODUCTION", "RETIRED", "REJECTED"}
      [] s = "PRODUCTION" -> {"RETIRED"}
      [] s = "RETIRED" -> {"PRODUCTION"}
      [] OTHER -> {}

registerModel(v) ==
    /\ models[v] = "none"
    /\ models' = [models EXCEPT ![v] = "CANDIDATE"]
    /\ UNCHANGED <<served, approvers, shadowed>>

\* (mutation) Retiring the version that is served goes on serving it.
transitionServed(v, to) ==
    /\ to \in LegalTransitions(models[v])
    /\ models' = [models EXCEPT ![v] = to]
    /\ shadowed' = IF to = "SHADOW" THEN shadowed \cup {v} ELSE shadowed
    /\ UNCHANGED <<served, approvers>>

\* transition, and reject: a version that transition puts in PRODUCTION is not
\* served by it, and demotes no other.
transition(v, to) ==
    /\ to \in LegalTransitions(models[v])
    /\ models' = [models EXCEPT ![v] = to]
    /\ UNCHANGED approvers
    /\ served' = IF to = "RETIRED" /\ served = v THEN "none" ELSE served
    /\ shadowed' = IF to = "SHADOW" THEN shadowed \cup {v} ELSE shadowed

\* promote, and rollbackModel, which also takes a retired version.
promote(v, isRollback) ==
    /\ models[v] = "SHADOW" \/ (isRollback /\ models[v] = "RETIRED")
    /\ models' = [w \in ModelVersions |->
                    IF w = v THEN "PRODUCTION" ELSE IF w = served THEN "RETIRED" ELSE models[w]]
    /\ served' = v
    /\ approvers' = [approvers EXCEPT ![v] = TRUE]
    /\ UNCHANGED shadowed

RegistryNext ==
    \E v \in ModelVersions :
       \/ registerModel(v)
       \/ \E to \in {"VALIDATING", "SHADOW", "PRODUCTION", "RETIRED", "REJECTED"} : transition(v, to)
       \/ \E isRollback \in BOOLEAN : promote(v, isRollback)

RegistrySpec == RegistryInit /\ [][RegistryNext]_registryVars

-----------------------------------------------------------------------------
(* Properties.                                                             *)

RegistryTypeOK ==
    /\ models \in [ModelVersions -> {"none", "CANDIDATE", "VALIDATING", "SHADOW", "PRODUCTION",
                                     "RETIRED", "REJECTED"}]
    /\ served \in ModelVersions \cup {"none"}

\* The version that is served is in production, somebody approved it, and it
\* was compared in shadow first: no order of transitions, promotions and
\* rollbacks of several versions serves another.
ServedModelIsProven ==
    served # "none" => models[served] = "PRODUCTION" /\ approvers[served] /\ served \in shadowed
=============================================================================
