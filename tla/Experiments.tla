----------------------------- MODULE Experiments -----------------------------
(***************************************************************************)
(* The experiments of packages/ai-content/src/runtime.js: an experiment    *)
(* belongs to the tenant that created it and is found by its id alone,     *)
(* whoever asks; an outcome adds to the arm of its variant and the arm     *)
(* with the best average is suggested.  Weights are hundredths of 1.       *)
(***************************************************************************)
EXTENDS Integers, SequencesExt

CONSTANTS
    ExperimentIds,
    ExperimentTenants,        \* tenants that run experiments
    VariantSets,     \* variants asked for: sequences of [id, weight], by id
    Rewards,         \* rewards an outcome may carry
    OutcomeLimit     \* bound on the outcomes recorded

\* A weight that is negative is refused.
ExperimentsAssumption ==
    /\ \A vs \in VariantSets : vs \in Seq([id : {vs[i].id : i \in DOMAIN vs}, weight : Nat])
    /\ Rewards \subseteq Int /\ OutcomeLimit \in Nat
ASSUME ExperimentsAssumption

VARIABLES
    experiments,     \* [id -> {} or {[owner, variants]}], the index and the partitions
    arms,            \* [id -> [variant -> [count, rewardSum]]], empty until an outcome
    outcomes         \* the ai.experiment.outcome events, in order

experimentVars == <<experiments, arms, outcomes>>

ExperimentsInit ==
    /\ experiments = [x \in ExperimentIds |-> {}]
    /\ arms = [x \in ExperimentIds |-> <<>>]
    /\ outcomes = <<>>

Cumulative(variants, i) == SumFunctionOnSet([k \in 1..i |-> variants[k].weight], 1..i)
WeightsSum(variants) == Cumulative(variants, Len(variants))
IdsOf(variants) == { variants[i].id : i \in DOMAIN variants }

createExperiment(t, x, variants) ==
    /\ experiments[x] = {}
    /\ Len(variants) > 0 /\ Cardinality(IdsOf(variants)) = Len(variants)
    /\ WeightsSum(variants) = 100
    /\ experiments' = [experiments EXCEPT ![x] = { [owner |-> t, variants |-> variants] }]
    /\ UNCHANGED <<arms, outcomes>>

lookupExperiment(x) == CHOOSE e \in experiments[x] : TRUE

(***************************************************************************)
(* selectVariant: the first variant whose cumulative weight is above the   *)
(* roll, the last one when none is; a roll is one of 0..99 hundredths.     *)
(***************************************************************************)
\* (mutation) a roll that equals the cumulative weight still selects the variant
selectVariantAt(variants, roll) ==
    LET hit == { i \in DOMAIN variants : roll <= Cumulative(variants, i) }
    IN  variants[IF hit = {} THEN Len(variants) ELSE Min(hit)].id
selectVariant(variants, roll) ==
    LET hit == { i \in DOMAIN variants : roll < Cumulative(variants, i) }
    IN  variants[IF hit = {} THEN Len(variants) ELSE Min(hit)].id

\* The arm of a variant; none is an arm without outcomes.
Arm(x, v) == IF v \in DOMAIN arms[x] THEN arms[x][v] ELSE [count |-> 0, rewardSum |-> 0]

recordOutcome(x, v, reward) ==
    /\ experiments[x] # {}
    /\ v \in IdsOf(lookupExperiment(x).variants)
    /\ LET arm == Arm(x, v)
           new == [count |-> arm.count + 1, rewardSum |-> arm.rewardSum + reward]
       IN  arms' = [arms EXCEPT ![x] =
               [w \in DOMAIN arms[x] \cup {v} |-> IF w = v THEN new ELSE arms[x][w]]]
    /\ outcomes' = Append(outcomes,
           [experiment |-> x, variant |-> v, reward |-> reward, tenant |-> lookupExperiment(x).owner])
    /\ UNCHANGED experiments

\* Whether an arm's average is above another's, an arm without outcomes averaging 0.
\* (mutation) the sums are compared and not the averages
AboveBySum(a, b) == a.rewardSum > b.rewardSum
Above(a, b) == a.rewardSum * Max({1, b.count}) > b.rewardSum * Max({1, a.count})

\* suggestVariant: the first variant, in order of id, that no other is above.
suggestVariant(x) ==
    LET variants == lookupExperiment(x).variants
        best == { i \in DOMAIN variants :
                    \A j \in DOMAIN variants : ~Above(Arm(x, variants[j].id), Arm(x, variants[i].id)) }
    IN  variants[Min(best)].id

ExperimentsNext ==
    \/ \E t \in ExperimentTenants, x \in ExperimentIds, vs \in VariantSets : createExperiment(t, x, vs)
    \/ /\ Len(outcomes) < OutcomeLimit
       /\ \E x \in ExperimentIds : \E vs \in VariantSets : \E v \in IdsOf(vs), r \in Rewards :
            recordOutcome(x, v, r)

ExperimentsSpec == ExperimentsInit /\ [][ExperimentsNext]_experimentVars

\* Every variable has its type.
ExperimentsTypeOK ==
    /\ \A x \in ExperimentIds :
         /\ experiments[x] \subseteq [owner : ExperimentTenants, variants : VariantSets]
         /\ Cardinality(experiments[x]) <= 1
    /\ \A x \in ExperimentIds : \A v \in DOMAIN arms[x] :
         arms[x][v] \in [count : Nat, rewardSum : Int]
    /\ outcomes \in Seq([experiment : ExperimentIds, variant : UNION {IdsOf(vs) : vs \in VariantSets},
                         reward : Rewards, tenant : ExperimentTenants])

\* The rewards the events report for a variant.
Reported(x, v) ==
    LET told == {i \in DOMAIN outcomes : outcomes[i].experiment = x /\ outcomes[i].variant = v}
    IN  [count |-> Cardinality(told),
         sum   |-> SumFunctionOnSet([i \in DOMAIN outcomes |-> outcomes[i].reward], told)]

(***************************************************************************)
(* The variant suggested has, by the outcomes the tenant was told of, an   *)
(* average no other variant of the experiment beats.                       *)
(***************************************************************************)
SuggestionsFollowRewards ==
    \A x \in ExperimentIds : experiments[x] # {} =>
        LET s == Reported(x, suggestVariant(x))
        IN  \A v \in IdsOf(lookupExperiment(x).variants) :
              LET o == Reported(x, v)
              IN  o.sum * (IF s.count = 0 THEN 1 ELSE s.count)
                      <= s.sum * (IF o.count = 0 THEN 1 ELSE o.count)

\* Of a hundred equally likely rolls, each variant gets as many as its weight.
RollsFollowWeights ==
    \A x \in ExperimentIds : experiments[x] # {} =>
        LET variants == lookupExperiment(x).variants
        IN  \A i \in DOMAIN variants :
              Cardinality({ r \in 0..99 : selectVariant(variants, r) = variants[i].id })
                  = variants[i].weight

ExperimentsAreFair == SuggestionsFollowRewards /\ RollsFollowWeights
=============================================================================
