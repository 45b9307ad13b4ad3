--------------------------- MODULE ProviderPolicy ----------------------------
(***************************************************************************)
(* packages/adapters: the versioned policy entries of one platform         *)
(* (policy-registry.js), the adapter that asks them                        *)
(* (policy-aware-registry.js), the adapter that knows only its manifest    *)
(* (provider-registry.js), and the publishing adapter (publishing.js).     *)
(* A version is <<major, minor, patch>>.  A capability is a spelling,      *)
(* trimmed as both adapters trim it; its kind is what the code reads off   *)
(* that spelling, so 'Content.Publish' is neither a read nor mutating.     *)
(***************************************************************************)
EXTENDS Integers, SequencesExt

CONSTANTS
    Capabilities,    \* the spellings an adapter may be asked for
    Lower,           \* toLowerCase: [spelling -> spelling]
    KindOf,          \* [spelling -> "read" | "mutating" | "other"]
    PolicyVersions,  \* versions an entry may have
    Declarations,    \* sets of spellings an entry may be created with
    Manifest,        \* capabilities of the adapter's manifest
    OverrideChoices, \* overrides an adapter may be created with: functions from a set
                     \*   of spellings to a state
    PublishLimit     \* bound on the calls to publish

\* The parts of a version are numbers.
ASSUME PolicyVersionsAssumption == PolicyVersions \subseteq Nat \X Nat \X Nat

\* A suffix that is recognised is there in lower case too.
ASSUME SpellingsAssumption ==
    /\ Lower \in [Capabilities -> Capabilities]
    /\ \A cap \in Capabilities : KindOf[cap] # "other" => KindOf[Lower[cap]] = KindOf[cap]

VARIABLES
    policyEntries,   \* byPlatform: [version -> {} or {the capabilities declared}]
    history,         \* the versions registered, in order
    overrides,       \* the overrides of both adapters
    posts            \* what publish sent: [approval, key, answered]

policyVars == <<policyEntries, history, overrides, posts>>

ApprovalContexts == {"none", "flag", "flag_and_id"}   \* what the context carries of an approval

ProviderInit ==
    /\ policyEntries = [v \in PolicyVersions |-> {}]
    /\ history = <<>>
    /\ overrides \in OverrideChoices
    /\ posts = <<>>

\* createPolicyEntry writes what is declared in lower case.
Lowered(declared) == {Lower[cap] : cap \in declared}

register(v, declared) ==
    /\ policyEntries[v] = {}
    /\ policyEntries' = [policyEntries EXCEPT ![v] = {Lowered(declared)}]
    /\ history' = Append(history, v)
    /\ UNCHANGED <<overrides, posts>>

(***************************************************************************)
(* compareVersions and getLatest: the parts are compared as numbers.       *)
(***************************************************************************)
\* (mutation) the minor part decides before the major one
NewerMinorFirst(v, w) ==
    \/ v[2] > w[2]
    \/ v[2] = w[2] /\ v[1] > w[1]
    \/ v[2] = w[2] /\ v[1] = w[1] /\ v[3] > w[3]
Newer(v, w) ==
    \/ v[1] > w[1]
    \/ v[1] = w[1] /\ v[2] > w[2]
    \/ v[1] = w[1] /\ v[2] = w[2] /\ v[3] > w[3]

RegisteredVersions == { v \in PolicyVersions : policyEntries[v] # {} }
getLatest == CHOOSE v \in RegisteredVersions : \A w \in RegisteredVersions \ {v} : Newer(v, w)
DeclaredAt(v) == CHOOSE d \in policyEntries[v] : TRUE

(***************************************************************************)
(* evaluate: [allowed, effect]; idempotency only names the effect.  What   *)
(* is declared is looked up in lower case, what it is read off as asked.   *)
(***************************************************************************)
PolicyVerdict(allowed, effect) == [allowed |-> allowed, effect |-> effect]

\* (mutation) the flag alone, without the id of an approval, is enough
evaluateFlagged(cap, approval, keyed) ==
    IF RegisteredVersions = {} \/ Lower[cap] \notin DeclaredAt(getLatest) THEN PolicyVerdict(FALSE, "deny")
    ELSE IF KindOf[cap] = "mutating" /\ approval = "none"
      THEN PolicyVerdict(FALSE, "require_approval")
    ELSE PolicyVerdict(TRUE, "allow")
evaluatePolicy(cap, approval, keyed) ==
    IF RegisteredVersions = {} \/ Lower[cap] \notin DeclaredAt(getLatest) THEN PolicyVerdict(FALSE, "deny")
    ELSE IF KindOf[cap] = "mutating" /\ approval # "flag_and_id"
      THEN PolicyVerdict(FALSE, "require_approval")
    ELSE IF KindOf[cap] = "mutating" /\ cap \in DeclaredAt(getLatest) /\ keyed THEN PolicyVerdict(TRUE, "require_idempotency")
    ELSE PolicyVerdict(TRUE, "allow")

\* The three overrides that forbid; overrides are found by their own spelling only.
Forbidding == {"manual", "temporarily_disabled", "unsupported"}
OverrideOf(cap) == IF cap \in DOMAIN overrides THEN overrides[cap] ELSE "none"

(***************************************************************************)
(* resolve of the policy-aware adapter; an override to approval_required   *)
(* is not looked at.                                                       *)
(***************************************************************************)
\* (mutation) the policy is asked before the overrides that forbid
resolveAwareLate(cap, approval, keyed) ==
    evaluatePolicy(cap, approval, keyed).allowed \/ OverrideOf(cap) = "available"
resolveAware(cap, approval, keyed) ==
    CASE OverrideOf(cap) \in Forbidding -> FALSE
      [] OverrideOf(cap) = "available"  -> TRUE
      [] OTHER -> evaluatePolicy(cap, approval, keyed).allowed

(***************************************************************************)
(* resolve of the adapter without a policy: what the manifest does not     *)
(* declare is refused, a read is allowed, the rest needs the approval.     *)
(***************************************************************************)
decideApproval(approval) == approval = "flag_and_id"
resolvePlain(cap, approval) ==
    CASE OverrideOf(cap) \in Forbidding          -> FALSE
      [] OverrideOf(cap) = "available"           -> TRUE
      [] OverrideOf(cap) = "approval_required"   -> decideApproval(approval)
      [] OTHER -> /\ cap \in Manifest
                  /\ KindOf[cap] # "read" => decideApproval(approval)

(***************************************************************************)
(* publish of the publishing adapter: it asks no registry; an approval and *)
(* a key must be named, and the answer must be a success with an id.       *)
(***************************************************************************)
\* (mutation) the key of the post may be missing
publishUnkeyed(approval, keyed, answer) ==
    /\ approval = "flag_and_id"
    /\ posts' = Append(posts, [keyed |-> keyed, answer |-> answer])
    /\ UNCHANGED <<policyEntries, history, overrides>>
publish(approval, keyed, answer) ==
    /\ approval = "flag_and_id" /\ keyed
    /\ posts' = Append(posts, [keyed |-> keyed, answer |-> answer])
    /\ UNCHANGED <<policyEntries, history, overrides>>

ProviderNext ==
    \/ \E v \in PolicyVersions, d \in Declarations : register(v, d)
    \/ /\ Len(posts) < PublishLimit
       /\ \E a \in ApprovalContexts, k \in BOOLEAN, r \in {"queued", "failed", "no_id"} : publish(a, k, r)

ProviderSpec == ProviderInit /\ [][ProviderNext]_policyVars

\* Every variable has its type.
ProviderTypeOK ==
    /\ policyEntries \in [PolicyVersions -> {{}} \cup {{Lowered(d)} : d \in Declarations}]
    /\ history \in Seq(PolicyVersions)
    /\ overrides \in OverrideChoices
    /\ posts \in Seq([keyed : BOOLEAN, answer : {"queued", "failed", "no_id"}])

\* v was released after w: the first part in which they differ is greater in v.
ReleasedAfter(v, w) == \E p \in 1..3 : v[p] > w[p] /\ \A q \in 1..(p - 1) : v[q] = w[q]

(***************************************************************************)
(* What a platform declares last decides: a capability the newest entry    *)
(* dropped is refused, whatever older ones say and in whatever order they  *)
(* were registered; unless an override makes it available.                 *)
(***************************************************************************)
NewestDecides ==
    \A cap \in Capabilities, a \in ApprovalContexts, k \in BOOLEAN :
        (resolveAware(cap, a, k) /\ OverrideOf(cap) # "available") =>
            \E i \in DOMAIN history :
                /\ \A j \in DOMAIN history : ~ReleasedAfter(history[j], history[i])
                /\ \E d \in policyEntries[history[i]] : Lower[cap] \in d

\* A spelling of a capability that changes something at the provider.
Changes(cap) == KindOf[Lower[cap]] = "mutating"

\* Without an approval that has an id, and unless its owner declared it available, no
\* change at a provider is let through by the plain adapter however it is spelled, nor by
\* the one that asks the policy in the spelling of its entries; neither runs what its owner
\* took out of use, in the owner's spelling; and no post goes out without a key.
MutationsAreApproved ==
    /\ \A cap \in Capabilities, a \in ApprovalContexts \ {"flag_and_id"}, k \in BOOLEAN :
         Changes(cap) /\ OverrideOf(cap) # "available" =>
            /\ ~resolvePlain(cap, a)
            /\ Lower[cap] = cap => ~resolveAware(cap, a, k)
    /\ \A cap \in Capabilities, a \in ApprovalContexts, k \in BOOLEAN :
         OverrideOf(cap) \in {"manual", "temporarily_disabled", "unsupported"} =>
            ~resolveAware(cap, a, k) /\ ~resolvePlain(cap, a)
    /\ \A i \in DOMAIN posts : posts[i].keyed

ProvidersAreGoverned == NewestDecides /\ MutationsAreApproved
=============================================================================
