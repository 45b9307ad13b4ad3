--------------------------- MODULE ContentFactory ----------------------------
(***************************************************************************)
(* packages/ai-content/src/factory.js and its use: a brief from a product, *)
(* hooks and a timed script from a brief, a storyboard from a script, the  *)
(* score of a text; and tiktok-showcase.js, which turns a product into a   *)
(* publication job under an idempotency key; and video-factory.js, whose   *)
(* jobs are rendered at once.  A text is the set of fields it is built     *)
(* from; a field is unsafe when it holds a banned or a pressure phrase.    *)
(***************************************************************************)
EXTENDS Integers, SequencesExt

CONSTANTS
    Goods,           \* products: [unsafe, traced, proof, proofTraced]
    ScriptFormats,   \* [format -> seconds], SCRIPT_FORMATS
    Drafts,          \* texts to score: [words, spam, banned, pressure, superlative,
                     \*   shouting, disclosed, social]
    Packages,        \* showcases: [item, name, language, price, account]
    BriefLimit,      \* bound on the briefs
    ScriptLimit      \* bound on the scripts, the boards and the jobs, each

\* A format has more seconds than a script has sections.
ContentAssumption ==
    /\ \A f \in DOMAIN ScriptFormats : ScriptFormats[f] \in Nat /\ ScriptFormats[f] >= 8
    /\ \A d \in Drafts : /\ d.words \in Nat /\ d.banned \in Nat /\ d.pressure \in Nat
                         /\ {d.spam, d.superlative, d.shouting, d.disclosed, d.social} \subseteq BOOLEAN
    /\ BriefLimit \in Nat /\ ScriptLimit \in Nat
ASSUME ContentAssumption

VARIABLES
    briefs,          \* briefs of the tenant, in order
    scripts,         \* scripts written, in order
    boards,          \* scripts (by index) that have a storyboard
    videoJobs,       \* jobs of the video factory
    approvedDrafts,  \* drafts whose score approved them
    showcases,       \* publication jobs of showcases: [package, state]
    refusedBoards    \* history: scripts whose storyboard was refused

contentVars == <<briefs, scripts, boards, videoJobs, approvedDrafts, showcases, refusedBoards>>

ContentInit ==
    /\ briefs = <<>>
    /\ scripts = <<>>
    /\ boards = {}
    /\ videoJobs = <<>>
    /\ approvedDrafts = {}
    /\ showcases = <<>>
    /\ refusedBoards = {}

(***************************************************************************)
(* Every benefit, and every line of social proof, cites evidence.          *)
(***************************************************************************)
createCreativeBrief(g) ==
    /\ g.traced
    /\ g.proof => g.proofTraced
    /\ briefs' = Append(briefs, g)
    /\ UNCHANGED <<scripts, boards, videoJobs, approvedDrafts, showcases, refusedBoards>>

\* HOOK_TEMPLATES: the fields of the product each of the thirteen templates is built from.
HookTemplates ==
    << {"title"}, {"category"}, {"problem"}, {"problem"}, {"problem", "outcome"},
       {"benefit"}, {"title"}, {"category"}, {"brand", "second"}, {"category"}, {"title"},
       {"title"}, {"outcome"} >>
HookVariants == 6

\* The template of the hook at a place of the enumeration.
TemplateAt(i) == HookTemplates[(i % Len(HookTemplates)) + 1]
UnsafeHook(g, i) == TemplateAt(i) \cap g.unsafe # {}

(***************************************************************************)
(* generateHooks: the first count safe ones of six variants of thirteen    *)
(* templates; with fewer the call throws.                                  *)
(***************************************************************************)
Tried == 0..(Len(HookTemplates) * HookVariants - 1)
\* (mutation) a hook is not looked at for unsafe language
SafeHooksAny(g) == Tried
SafeHooks(g) == {i \in Tried : ~UnsafeHook(g, i)}

EnoughHooks(g, count) == Cardinality(SafeHooks(g)) >= count
generateHooks(g, count) ==
    {i \in SafeHooks(g) : Cardinality({j \in SafeHooks(g) : j < i}) < count}

(***************************************************************************)
(* generateScript: eight sections, seven without social proof; each has    *)
(* its weight of the seconds rounded down, at least one, and leaves one    *)
(* second to every section after it; the last takes what is left.          *)
(***************************************************************************)
Weight == [hook |-> 12, problem |-> 18, insight |-> 15, solution |-> 20, demo |-> 20,
           proof |-> 8, cta |-> 5, disclosure |-> 2]
Sections(g) ==
    IF g.proof THEN <<"hook", "problem", "insight", "solution", "demo", "proof", "cta", "disclosure">>
               ELSE <<"hook", "problem", "insight", "solution", "demo", "cta", "disclosure">>

WeightTotal(sections) ==
    SumFunctionOnSet([i \in DOMAIN sections |-> Weight[sections[i]]], DOMAIN sections)

SectionSeconds(sections, i, cursor, budget) ==
    LET share == (Weight[sections[i]] * budget) \div WeightTotal(sections)
        room  == budget - cursor - (Len(sections) - i)
    IN  IF i = Len(sections) THEN budget - cursor
        ELSE Min({ Max({1, share}), room })

\* Where each section ends.
Ends(sections, budget) ==
    LET end[i \in 0..Len(sections)] ==
            IF i = 0 THEN 0
            ELSE end[i - 1] + SectionSeconds(sections, i, end[i - 1], budget)
    IN  end

generateScript(b, format, hook) ==
    LET g        == briefs[b]
        sections == Sections(g)
        budget   == ScriptFormats[format]
        end      == Ends(sections, budget)
    IN  /\ EnoughHooks(g, 20)
        /\ hook \in generateHooks(g, 20)
        /\ scripts' = Append(scripts,
               [brief |-> b, seconds |-> budget, hook |-> hook,
                scenes |-> [i \in 1..Len(sections) |->
                    [label |-> sections[i], start |-> end[i - 1], end |-> end[i]]]])
        /\ UNCHANGED <<briefs, boards, videoJobs, approvedDrafts, showcases, refusedBoards>>

(***************************************************************************)
(* createStoryboard: refused unless every scene starts where the one       *)
(* before it ends and lasts.                                               *)
(***************************************************************************)
ValidTimestamps(scenes) ==
    \A i \in 1..Len(scenes) :
        /\ scenes[i].start = IF i = 1 THEN 0 ELSE scenes[i - 1].end
        /\ scenes[i].end > scenes[i].start

createStoryboard(s) ==
    /\ IF ValidTimestamps(scripts[s].scenes)
         THEN boards' = boards \cup {s} /\ UNCHANGED refusedBoards
         ELSE refusedBoards' = refusedBoards \cup {s} /\ UNCHANGED boards
    /\ UNCHANGED <<briefs, scripts, videoJobs, approvedDrafts, showcases>>

\* createJob of the video factory: a job is queued, processed and succeeds in the
\* same call, for any script id, whether that script and its storyboard exist or not.
createJob(s) ==
    /\ videoJobs' = Append(videoJobs, [script |-> s, status |-> "succeeded"])
    /\ UNCHANGED <<briefs, scripts, boards, approvedDrafts, showcases, refusedBoards>>

(***************************************************************************)
(* scoreContentQuality, in hundredths; a text that lacks its disclosure or *)
(* makes a claim fails whatever it totals.                                 *)
(***************************************************************************)
Clamp(n) == Max({0, Min({100, n})})
DisclosureScore(d) == IF d.social /\ ~d.disclosed THEN 0 ELSE 100
ClaimsSafety(d) ==
    Clamp(100 - 40 * d.banned - 25 * d.pressure - (IF d.superlative THEN 25 ELSE 0))
TotalScore(d) ==
    LET far == IF d.words > 35 THEN d.words - 35 ELSE 35 - d.words
    IN  (20 * Clamp(100 - far) + 20 * (IF d.spam THEN 20 ELSE 95) + 30 * DisclosureScore(d)
            + 20 * ClaimsSafety(d) + 10 * (IF d.shouting THEN 50 ELSE 90) + 50) \div 100
QualityVerdict(d) ==
    IF DisclosureScore(d) = 100 /\ ClaimsSafety(d) = 100 /\ TotalScore(d) >= 70
      THEN "approved" ELSE "revision_required"

scoreContentQuality(d) ==
    /\ QualityVerdict(d) = "approved"
    /\ approvedDrafts' = approvedDrafts \cup {d}
    /\ UNCHANGED <<briefs, scripts, boards, videoJobs, showcases, refusedBoards>>

(***************************************************************************)
(* createShowcasePublicationJob: the key holds the account, the product    *)
(* and a hash of the product, its name and the language, not the price;    *)
(* under a key that has a job, the repository hands that job back.         *)
(***************************************************************************)
\* (mutation) the price is part of the key
ShowcaseKeyPriced(p) == <<p.account, p.item, p.name, p.language, p.price>>
ShowcaseKey(p) == <<p.account, p.item, p.name, p.language>>

createShowcasePublicationJob(p) ==
    /\ showcases' = IF \E i \in DOMAIN showcases : ShowcaseKey(showcases[i].package) = ShowcaseKey(p)
                      THEN showcases
                      ELSE Append(showcases, [package |-> p, posted |-> FALSE])
    /\ UNCHANGED <<briefs, scripts, boards, videoJobs, approvedDrafts, refusedBoards>>

\* The publish worker posts the job once (PublishWorker has the detail).
showcasePosted(i) ==
    /\ ~showcases[i].posted
    /\ showcases' = [showcases EXCEPT ![i].posted = TRUE]
    /\ UNCHANGED <<briefs, scripts, boards, videoJobs, approvedDrafts, refusedBoards>>

ContentNext ==
    \/ Len(briefs) < BriefLimit /\ \E g \in Goods : createCreativeBrief(g)
    \/ /\ Len(scripts) < ScriptLimit
       /\ \E b \in DOMAIN briefs, f \in DOMAIN ScriptFormats :
            \E hook \in generateHooks(briefs[b], 2) : generateScript(b, f, hook)
    \/ \E s \in DOMAIN scripts : createStoryboard(s)
    \/ Len(videoJobs) < ScriptLimit /\ \E s \in 1..ScriptLimit : createJob(s)
    \/ \E d \in Drafts : scoreContentQuality(d)
    \/ \E p \in Packages : createShowcasePublicationJob(p)
    \/ \E i \in DOMAIN showcases : showcasePosted(i)

ContentSpec == ContentInit /\ [][ContentNext]_contentVars

\* Every variable has its type.
ContentTypeOK ==
    /\ briefs \in Seq(Goods)
    /\ scripts \in Seq([brief : Nat \ {0}, seconds : Nat, hook : Nat,
                        scenes : Seq([label : DOMAIN Weight, start : Int, end : Int])])
    /\ boards \subseteq DOMAIN scripts
    /\ videoJobs \in Seq([script : Nat \ {0}, status : {"succeeded"}])
    /\ approvedDrafts \subseteq Drafts
    /\ showcases \in Seq([package : Packages, posted : BOOLEAN])
    /\ refusedBoards \subseteq DOMAIN scripts

(***************************************************************************)
(* A script fills its seconds exactly with scenes that each last, the last *)
(* of them the disclosure, so no storyboard of it is ever refused; and its *)
(* hook is free of the unsafe words of the product.                        *)
(***************************************************************************)
ScriptsFill ==
    /\ refusedBoards = {}
    /\ \A i \in DOMAIN scripts :
         LET s == scripts[i]
         IN  /\ s.scenes[Len(s.scenes)].label = "disclosure"
             /\ s.scenes[Len(s.scenes)].end = s.seconds
             /\ \A n \in 1..Len(s.scenes) : s.scenes[n].end - s.scenes[n].start >= 1
             /\ \A f \in briefs[s.brief].unsafe :
                  f \notin HookTemplates[(s.hook % 13) + 1]

\* No claim is approved, and no social text without its disclosure.
ApprovedIsClean ==
    \A d \in approvedDrafts :
        /\ d.banned + d.pressure = 0 /\ ~d.superlative
        /\ d.social => d.disclosed

(***************************************************************************)
(* A product is showcased once per account, name and language, however     *)
(* often it is asked for and whatever its price has become.                *)
(***************************************************************************)
ShowcasesPostOnce ==
    \A i, j \in DOMAIN showcases :
        (/\ i # j
         /\ showcases[i].package.account = showcases[j].package.account
         /\ showcases[i].package.item = showcases[j].package.item)
        => \/ showcases[i].package.name # showcases[j].package.name
           \/ showcases[i].package.language # showcases[j].package.language

ContentHolds == ScriptsFill /\ ApprovedIsClean /\ ShowcasesPostOnce
=============================================================================
