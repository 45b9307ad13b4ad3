-------------------------- MODULE AutomationPolicy ---------------------------
(***************************************************************************)
(* What an organisation lets automation do: its policy, its kill switches  *)
(* and the decision on one action (packages/automation), the gate in front *)
(* of it that also asks the commerce store (intelligence/decision-gate.js),*)
(* the handlers of apps/api/src/features-api.js that keep both in memory,  *)
(* and the rows of db/src/automation-repo.js that keep them across starts. *)
(* One tenant; the gate is blocked when the store blocks the claim of an   *)
(* action or cannot revalidate it.  Names are texts, in the letters and    *)
(* with the spaces they were given; "none" is a name that is missing.      *)
(***************************************************************************)
EXTENDS Integers, FiniteSets

CONSTANTS
    PolicyChoices,   \* policies createAutomationPolicy accepts
    ActionChoices,   \* actions an agent asks about
    CounterChoices,  \* what counters report; the handlers pass all zeros
    SwitchChoices,   \* [scope, id] of the kill switches operators set
    SwitchLimit,     \* bound on the records in memory
    SwitchRowLimit,  \* bound on the rows of automation_kill_switches
    LowerCase, Trim  \* toLowerCase and trim: [text -> text]

Modes == {"manual", "assisted", "draft_only", "approval_required", "auto_safe", "autonomous"}

PolicyRecords ==
    [org : {"own", "other"}, mode : Modes, autoPublish : BOOLEAN, autoOptimize : BOOLEAN,
     platforms : SUBSET DOMAIN LowerCase, maxPosts : Int, maxPlatformPosts : Int, maxCost : Int,
     maxCampaignCost : Int, minQuality : Int]

ASSUME AutomationConstants ==
    /\ PolicyChoices \subseteq PolicyRecords
    /\ \A text \in DOMAIN LowerCase : Trim[LowerCase[text]] = LowerCase[Trim[text]]
    /\ \A a \in ActionChoices : a.platform \in DOMAIN LowerCase
    /\ \A c \in CounterChoices : {c.posts, c.platformPosts, c.cost, c.campaignCost} \subseteq Int

VARIABLES
    policy,      \* policies.get(tenant), replaced as a whole
    switches,    \* killSwitchesByTenant: every record ever pushed
    policyRow,   \* the row of automation_policies
    switchRows,  \* the rows of automation_kill_switches
    verdict,     \* history: the gate's last decision
    engaged      \* history: the switches operators ever turned on

automationVars == <<policy, switches, policyRow, switchRows, verdict, engaged>>

Decisions == {"ALLOW", "APPROVAL_REQUIRED", "MANUAL_REQUIRED", "DENY", "DEFER"}

\* The table knows an organisation as org.
SwitchScopes == {"global", "organization", "provider", "account", "campaign", "workflow"}
RowScopes == {"global", "org", "provider", "account", "campaign", "workflow"}

\* How platforms are written once they are compared.
Normalized(text) == Trim[LowerCase[text]]

\* createAutomationPolicy.
Created(p) == [p EXCEPT !.platforms = {Normalized(text) : text \in p.platforms}]

AutomationInit ==
    /\ policy \in {Created(p) : p \in {q \in PolicyChoices : q.mode = "manual"}}
    /\ switches = {}
    /\ policyRow = {}
    /\ switchRows = {}
    /\ verdict = "none"
    /\ engaged = {}

-----------------------------------------------------------------------------
(* evaluateAction.  p is a policy, a an action, c the counters, on the     *)
(* active switches.                                                        *)

\* (mutation) The switch of a campaign is looked up only when no platform is named.
CoversHalf(s, org, a) ==
    \/ s.scope = "global"
    \/ s.scope = "organization" /\ s.id = org
    \/ s.scope = "provider" /\ s.id = LowerCase[a.platform]
    \/ s.scope = "campaign" /\ a.platform = "none" /\ s.id = a.campaign

\* (mutation) The platform is compared in the letters the action has.
CoversLetters(s, org, a) ==
    \/ s.scope = "global"
    \/ s.scope = "organization" /\ s.id = org
    \/ s.scope = "provider" /\ s.id = a.platform /\ a.platform # "none"
    \/ s.scope = "campaign" /\ s.id = a.campaign /\ a.campaign # "none"

\* switchBlocks: switches of an account and of a workflow never cover an action.
\* The id is as it was given; the platform is in lower case, with its spaces.
Covers(s, org, a) ==
    \/ s.scope = "global"
    \/ s.scope = "organization" /\ s.id = org
    \/ s.scope = "provider" /\ s.id = LowerCase[a.platform] /\ a.platform # "none"
    \/ s.scope = "campaign" /\ s.id = a.campaign /\ a.campaign # "none"

BelowFloor(p, a) ==
    /\ a.class = "publish" \/ a.quality >= 0     \* -1 stands for no score given
    /\ (IF a.quality < 0 THEN 0 ELSE a.quality) < p.minQuality

\* Any one of these ends in DENY, whatever came before it.
Denied(p, a, c, on) ==
    \/ p.org # "own"
    \/ \E s \in on : Covers(s, p.org, a)
    \/ a.risk = "critical"
    \/ a.platform # "none" /\ Normalized(a.platform) \notin p.platforms
    \/ BelowFloor(p, a)
    \/ c.cost > p.maxCost
    \/ a.class = "publish" /\ p.mode \in {"assisted", "draft_only"}

Deferred(p, a, c) ==
    \/ c.posts >= p.maxPosts
    \/ a.platform # "none" /\ c.platformPosts >= p.maxPlatformPosts

\* approval() takes an allowed or a deferred action; high risk alone takes only
\* an allowed one.
NeedsApproval(p, a, c) ==
    \/ a.campaign # "none" /\ c.campaignCost > p.maxCampaignCost
    \/ a.risk = "high" /\ ~Deferred(p, a, c)
    \/ /\ a.class = "publish"
       /\ \/ p.mode = "approval_required"
          \/ p.mode = "auto_safe" /\ ~a.preApproved
          \/ p.mode = "autonomous" /\ ~p.autoPublish
    \/ a.class = "optimize" /\ ~p.autoOptimize

Decide(p, a, c, on) ==
    IF Denied(p, a, c, on) THEN "DENY"
    ELSE IF NeedsApproval(p, a, c) THEN "APPROVAL_REQUIRED"
    ELSE IF Deferred(p, a, c) THEN "DEFER"
    ELSE IF p.mode = "manual" /\ a.class \in {"publish", "draft"} THEN "MANUAL_REQUIRED"
    ELSE "ALLOW"

Active == {s.switch : s \in {r \in switches : r.active}}

-----------------------------------------------------------------------------
(* The handlers and the repository.                                        *)

\* The gate denies what the commerce store blocks or cannot revalidate.
gateEvaluate(a, c, blocked) ==
    /\ verdict' = IF blocked THEN "DENY" ELSE Decide(policy, a, c, Active)
    /\ UNCHANGED <<policy, switches, policyRow, switchRows, engaged>>

\* PUT: the body may even name another organisation; then everything is denied.
putPolicy(p) ==
    /\ policy' = Created(p)
    /\ UNCHANGED <<switches, policyRow, switchRows, verdict, engaged>>

\* (mutation) A record replaces the one of the same scope and id.
postKillSwitchReplacing(s, active) ==
    /\ s.scope \in SwitchScopes
    /\ switches' = {r \in switches : r.switch # s} \cup {[switch |-> s, active |-> active]}
    /\ engaged' = IF active THEN engaged \cup {s} ELSE engaged
    /\ UNCHANGED <<policy, policyRow, switchRows, verdict>>

\* Pushed behind the others: a record with active = false lifts nothing.
postKillSwitch(s, active) ==
    /\ s.scope \in SwitchScopes
    /\ Cardinality(switches) < SwitchLimit
    /\ switches' = switches \cup {[switch |-> s, active |-> active]}
    /\ engaged' = IF active THEN engaged \cup {s} ELSE engaged
    /\ UNCHANGED <<policy, policyRow, switchRows, verdict>>

upsertPolicy(p) ==
    /\ policyRow' = {[mode |-> p.mode, autoPublish |-> p.autoPublish]}
    /\ UNCHANGED <<policy, switches, switchRows, verdict, engaged>>

insertKillSwitch(s) ==
    /\ s.scope \in RowScopes
    /\ Cardinality(switchRows) < SwitchRowLimit
    /\ switchRows' = switchRows \cup {[switch |-> s, active |-> TRUE]}
    /\ UNCHANGED <<policy, switches, policyRow, verdict, engaged>>

\* Clearing without a target clears every active row of the scope.
clearKillSwitch(scope, target) ==
    /\ scope \in RowScopes
    /\ switchRows' = {IF r.switch.scope = scope /\ target \in {"none", r.switch.id}
                      THEN [r EXCEPT !.active = FALSE] ELSE r : r \in switchRows}
    /\ UNCHANGED <<policy, switches, policyRow, verdict, engaged>>

AutomationNext ==
    \/ \E a \in ActionChoices, c \in CounterChoices, blocked \in BOOLEAN : gateEvaluate(a, c, blocked)
    \/ \E p \in PolicyChoices : putPolicy(p) \/ upsertPolicy(p)
    \/ \E s \in SwitchChoices :
          \/ \E active \in BOOLEAN : postKillSwitch(s, active)
          \/ insertKillSwitch(s)
          \/ \E target \in {"none", s.id} : clearKillSwitch(s.scope, target)

AutomationSpec == AutomationInit /\ [][AutomationNext]_automationVars

-----------------------------------------------------------------------------
(* Properties.                                                             *)

AutomationTypeOK ==
    /\ policy \in {Created(p) : p \in PolicyChoices}
    /\ switches \subseteq [switch : SwitchChoices, active : BOOLEAN]
    /\ verdict \in Decisions \cup {"none"}

\* What an operator turns a switch on for: everything, or what has the name.  A
\* platform has it in any letters, if the switch is written as policies write
\* platforms and the action has no spaces around it.
Stops(s, a) ==
    \/ s.scope = "global"
    \/ s.scope = "organization" /\ s.id = "own"
    \/ /\ s.scope = "provider" /\ s.id # "none" /\ a.platform # "none"
       /\ s.id = Normalized(a.platform) /\ Trim[a.platform] = a.platform
    \/ s.scope = "campaign" /\ s.id = a.campaign /\ s.id # "none"

\* An operator's stop holds: no sequence of later records, policies and
\* decisions gets an action past a switch that was ever turned on for it.
KillSwitchHolds ==
    \A a \in ActionChoices, c \in CounterChoices :
       (\E s \in engaged : Stops(s, a)) => Decide(policy, a, c, Active) = "DENY"

\* The answer is monotone in the pressure: more posts, more spending or one
\* switch more never allow what was not allowed, and never take a refusal back.
Tighter(c, d) ==
    /\ d.posts >= c.posts /\ d.platformPosts >= c.platformPosts
    /\ d.cost >= c.cost /\ d.campaignCost >= c.campaignCost

PressureOnlyRestricts ==
    \A a \in ActionChoices, c, d \in CounterChoices, s \in SwitchChoices :
       LET before == Decide(policy, a, c, Active)
           after == Decide(policy, a, d, Active \cup {s})
       IN  Tighter(c, d) => /\ after = "ALLOW" => before = "ALLOW"
                            /\ before = "DENY" => after = "DENY"

\* Both, and they are about evaluateAction and the handlers that feed it.
AutomationIsBounded == KillSwitchHolds /\ PressureOnlyRestricts
=============================================================================
