------------------------------ MODULE MCRuntimes ------------------------------
(***************************************************************************)
(* The runtimes that one process keeps in memory, the tables that a single *)
(* statement or import writes, and the workflow engine with its approvals, *)
(* for TLC.  They share no variable, so a behaviour moves only the part    *)
(* that it chose at its start, and the state spaces add up.  A property is *)
(* asked of the behaviours of its part: in all others it is about initial  *)
(* values.                                                                 *)
(***************************************************************************)
EXTENDS WorkflowRuntime, Outreach, TenantIdentity, TenantBilling, AffiliateMemory,
        CommerceStore, AnalyticsRuntime, AnalyticsStore, AutomationPolicy, Intelligence,
        ModelRegistry, AiContent, ContentFactory, Experiments, ProviderPolicy,
        ResilientInvoker, TokenBucket, Migrator, IngressLimits, ShopeeFeed,
        AuditAndRoles, EventBus, Telemetry, TLC

VARIABLE part   \* the part that moves

RuntimesInit ==
    /\ part \in {"workflow", "outreach", "identity", "billing", "affiliate", "commerce",
                 "analytics", "measurement", "automation", "intelligence", "models",
                 "generation", "content", "experiments", "providers", "breaker", "bucket",
                 "migrations", "ingress", "feed", "audit", "bus", "telemetry"}
    /\ Init /\ OutreachInit /\ IdentityInit /\ BillingInit /\ MemoryInit
    /\ CommerceInit /\ AnalyticsInit /\ StoreInit /\ AutomationInit /\ IntelligenceInit
    /\ RegistryInit /\ AiInit /\ ContentInit /\ ExperimentsInit /\ ProviderInit
    /\ InvokerInit /\ BucketInit /\ MigratorInit /\ LimiterInit /\ FeedInit
    /\ AuditInit /\ BusInit /\ TelemetryInit
    \* The inputs a part starts with vary for that part only.
    /\ part # "providers" => overrides = <<>>
    /\ part # "ingress" => \A i \in Instances : clockSkew[i] = 0

\* The part p takes the step A, if it is its turn; else its variables v stay.
Turn(p, A, v) == IF part = p THEN A ELSE UNCHANGED v

RuntimesNext ==
    /\ UNCHANGED part
    /\ Turn("workflow", Next, vars)
    /\ Turn("outreach", OutreachNext, outreachVars)
    /\ Turn("identity", IdentityNext, identityVars)
    /\ Turn("billing", BillingNext, billingVars)
    /\ Turn("affiliate", MemoryNext, memoryVars)
    /\ Turn("commerce", CommerceNext, commerceVars)
    /\ Turn("analytics", AnalyticsNext, analyticsVars)
    /\ Turn("measurement", StoreNext, storeVars)
    /\ Turn("automation", AutomationNext, automationVars)
    /\ Turn("intelligence", IntelligenceNext, intelligenceVars)
    /\ Turn("models", RegistryNext, registryVars)
    /\ Turn("generation", AiNext, aiVars)
    /\ Turn("content", ContentNext, contentVars)
    /\ Turn("experiments", ExperimentsNext, experimentVars)
    /\ Turn("providers", ProviderNext, policyVars)
    /\ Turn("breaker", InvokerNext, invokerVars)
    /\ Turn("bucket", BucketNext, bucketVars)
    /\ Turn("migrations", MigratorNext, migratorVars)
    /\ Turn("ingress", LimiterNext, limiterVars)
    /\ Turn("feed", FeedNext, feedVars)
    /\ Turn("audit", AuditNext, auditVars)
    /\ Turn("bus", BusNext, busVars)
    /\ Turn("telemetry", TelemetryNext, telemetryVars)

RuntimesSpec ==
    RuntimesInit /\ [][RuntimesNext]_<<part, vars, outreachVars, identityVars, billingVars,
        memoryVars, commerceVars, analyticsVars, storeVars, automationVars, intelligenceVars,
        registryVars, aiVars, contentVars, experimentVars, policyVars, invokerVars, bucketVars,
        migratorVars, limiterVars, feedVars, auditVars, busVars, telemetryVars>>

-----------------------------------------------------------------------------
(* What the parts promise.                                                 *)

\* The types of all parts.
RuntimesTypeOK ==
    /\ part = "workflow" => TypeOK
    /\ part = "outreach" => OutreachTypeOK
    /\ part = "identity" => IdentityTypeOK
    /\ part = "billing" => BillingTypeOK
    /\ part = "affiliate" => MemoryTypeOK
    /\ part = "commerce" => CommerceTypeOK
    /\ part = "analytics" => AnalyticsTypeOK
    /\ part = "measurement" => StoreTypeOK
    /\ part = "automation" => AutomationTypeOK
    /\ part = "intelligence" => IntelligenceTypeOK
    /\ part = "models" => RegistryTypeOK
    /\ part = "generation" => AiTypeOK
    /\ part = "content" => ContentTypeOK
    /\ part = "experiments" => ExperimentsTypeOK
    /\ part = "providers" => ProviderTypeOK
    /\ part = "breaker" => InvokerTypeOK
    /\ part = "bucket" => BucketTypeOK
    /\ part = "migrations" => MigratorTypeOK
    /\ part = "ingress" => LimiterTypeOK
    /\ part = "feed" => FeedTypeOK
    /\ part = "audit" => AuditTypeOK
    /\ part = "bus" => BusTypeOK
    /\ part = "telemetry" => TelemetryTypeOK

\* Messages: opt-outs, caps and duplicates, whatever waits for a retry or the
\* morning.  Events: every handler that stays is called, once.
OutreachHolds ==
    /\ part = "outreach" => OutreachKeepsLimits
    /\ part = "bus" => DeliveriesAreAccounted

\* A tenant's books, affiliate records and audit log tell what happened.
TenantAccountsHold ==
    /\ part = "billing" => BooksAgree
    /\ part = "affiliate" => PartitionsHold
    /\ part = "audit" => AccountsAreKept

\* The feed's rows keep their identities, and no claim about a price outlives
\* its evidence.
CommerceHolds ==
    /\ part = "commerce" => AllowedClaimsHaveEvidence
    /\ part = "feed" => ImportsKeepIdentity

\* Figures about the same events agree with each other, whatever order and
\* however often they arrive.
FiguresAddUp ==
    /\ part = "analytics" => AnalyticsAddsUp
    /\ part = "measurement" => MeasurementHolds
    /\ part = "telemetry" => TelemetryHolds

\* What users, keys, agents and models may do stays within what people allowed.
DecisionsAreBounded ==
    /\ part = "identity" => IdentityIsAccountable
    /\ part = "automation" => AutomationIsBounded
    /\ part = "models" => ServedModelIsProven

\* What is generated is paid for once, clean where it was approved, and compared
\* by its rewards; what is recommended is current.
ContentIsSound ==
    /\ part = "generation" => GenerationAddsUp
    /\ part = "content" => ContentHolds
    /\ part = "experiments" => ExperimentsAreFair
    /\ part = "intelligence" => AdviceHolds

\* Calls to providers stay within policy, approvals and rates.
ProvidersHold ==
    /\ part = "providers" => ProvidersAreGoverned
    /\ part = "bucket" => RateIsKept
    /\ part = "ingress" => LimitsNeverLift

\* Migrations are applied once, and a provider that is down is probed by one call.
InfrastructureHolds ==
    /\ part = "migrations" => MigrationsApplyOnce
    /\ part = "breaker" => BreakerHolds

-----------------------------------------------------------------------------
(* The instances of the parts.                                             *)

MCOneTenant == [j \in 1..NumJobs |-> "t1"]
\* failJob's 2 ** attempts, one tick a second.
MCBackoff == [a \in 1..MaxAttempts |-> 2^a]

\* Every message goes to one contact over one channel.
MCContactOf == [m \in Messages |-> "u1"]
MCChannelOf == [m \in Messages |-> "email"]

MCIssuerOf == [x \in Externals |-> "google"]

\* The small plan has no price.
MCQuota == [p \in Plans |-> IF p = "small" THEN 2 ELSE 4]
MCUnpriced == -1
MCPrice == [p \in Plans |-> IF p = "small" THEN MCUnpriced ELSE 1]
\* Periods that meet in the time of all usage, and one after it.
MCPeriods == {<<0, 1>>, <<1, 2>>, <<2, 3>>}

MCWindows == {<<0, 1>>, <<1, 2>>}

\* A chain from impression to conversion, a cart that names an impression for a
\* click, and a second conversion of the order.
MCDeliveries ==
    {[id |-> d[1], type |-> d[2], ref |-> d[3], value |-> d[4]] :
        d \in {<<1, "impression", 0, 0>>, <<2, "click", 1, 0>>, <<3, "cart", 2, 0>>,
               <<3, "cart", 1, 0>>, <<4, "order", 3, 0>>, <<5, "conversion", 4, 5>>,
               <<6, "conversion", 4, 2>>}}

\* One external id under three contents, and events without one.
MCEnvelopes ==
    {[external |-> e[1], account |-> "a", type |-> e[2], product |-> e[3], amount |-> e[4],
      pending |-> e[5]] :
        e \in {<<"x1", "commission_reported", "p1", 5, TRUE>>,
               <<"x1", "commission_reported", "p1", 5, FALSE>>,
               <<"x1", "refund_reported", "p1", 2, FALSE>>,
               <<NoExternal, "commission_reported", "p2", 3, FALSE>>,
               <<"x2", "commission_reversed", "p2", 4, FALSE>>,
               <<NoExternal, "affiliate_click_recorded", "p1", 0, FALSE>>}}

MCPolicy(mode, org) ==
    [org |-> org, mode |-> mode, autoPublish |-> FALSE, autoOptimize |-> mode # "manual",
     platforms |-> {"TikTok"}, maxPosts |-> 2, maxPlatformPosts |-> 1,
     maxCost |-> IF mode = "autonomous" THEN 0 ELSE 1,
     maxCampaignCost |-> 0, minQuality |-> 1]
\* The last one names another organisation.
MCPolicies ==
    {MCPolicy("manual", "own"), MCPolicy("auto_safe", "own"), MCPolicy("autonomous", "own"),
     MCPolicy("autonomous", "other")}
MCActions ==
    {[class |-> a[1], platform |-> a[2], campaign |-> a[3], risk |-> a[4], quality |-> a[5],
      preApproved |-> a[6]] :
        a \in {<<"publish", "TikTok", "c1", "low", 1, TRUE>>,
               <<"draft", " tiktok", "none", "low", -1, FALSE>>,
               <<"publish", "none", "c1", "high", 1, TRUE>>,
               <<"optimize", "none", "c1", "low", -1, FALSE>>,
               <<"draft", "none", "none", "critical", -1, FALSE>>}}
MCCounters ==
    {[posts |-> n[1], platformPosts |-> n[2], cost |-> n[3], campaignCost |-> n[4]] :
        n \in {<<0, 0, 0, 0>>, <<2, 1, 1, 1>>}}
MCSwitches ==
    {[scope |-> s[1], id |-> s[2]] :
        s \in {<<"global", "none">>, <<"organization", "own">>,
               <<"provider", "tiktok">>, <<"provider", "TikTok">>, <<"campaign", "c1">>}}
\* A platform in capitals, and with a space before it.
MCPlatforms == {"none", "tiktok", "TikTok", " tiktok"}
MCLowerCase == [text \in MCPlatforms |-> IF text = "TikTok" THEN "tiktok" ELSE text]
MCTrim == [text \in MCPlatforms |-> IF text = " tiktok" THEN "tiktok" ELSE text]

\* Two products of one margin, one sold a tenth as often, under promotions that
\* end one after the other; and the first when its stock is not known and its
\* promotion is over.
MCCandidate(p, stock, clicks, sold, promotion) ==
    [product |-> p, stock |-> stock, clicks |-> clicks, conversions |-> sold, price |-> 80,
     list |-> 100, rate |-> 10, net |-> 10, refunds |-> 1, promoEnd |-> promotion]
MCRankings ==
    {{MCCandidate(1, "IN_STOCK", 100, 50, 2), MCCandidate(2, "IN_STOCK", 10, 5, 1)},
     {MCCandidate(1, "UNKNOWN", 100, 50, -1)}}

\* The provider with the first priority is the dear one.
MCPriorityOf == [p \in AiProviders |-> IF p = "dear" THEN 1 ELSE 2]
MCCostOf == [p \in AiProviders |-> IF p = "dear" THEN 2 ELSE 1]

\* Safe goods, one and three unsafe fields, and benefits or proof without evidence.
MCGoods ==
    {[unsafe |-> g[1], traced |-> g[2], proof |-> g[3], proofTraced |-> g[4]] :
        g \in {<<{}, TRUE, TRUE, TRUE>>, <<{"title"}, TRUE, FALSE, FALSE>>,
               <<{"problem", "category", "title"}, TRUE, FALSE, FALSE>>,
               <<{}, FALSE, FALSE, FALSE>>, <<{}, TRUE, TRUE, FALSE>>}}
MCFormats == [short |-> 15, tutorial |-> 90]
MCDrafts ==
    {[words |-> d[1], spam |-> FALSE, banned |-> d[2], pressure |-> 0, superlative |-> FALSE,
      shouting |-> FALSE, disclosed |-> d[3], social |-> d[4]] :
        d \in {<<35, 0, TRUE, TRUE>>, <<35, 1, TRUE, TRUE>>, <<35, 0, FALSE, TRUE>>,
               <<35, 0, FALSE, FALSE>>, <<200, 0, TRUE, TRUE>>}}
MCPackages ==
    {[item |-> "i1", name |-> "n", language |-> "th", price |-> p[1], account |-> p[2]] :
        p \in {<<1, "a1">>, <<2, "a1">>, <<1, "a2">>}}

\* Even arms, an arm of no weight, and weights that exceed one.
MCArm(i, w) == [id |-> i, weight |-> w]
MCVariantSets ==
    {<<MCArm("a", 50), MCArm("b", 50)>>, <<MCArm("a", 20), MCArm("b", 0), MCArm("c", 80)>>,
     <<MCArm("a", 50), MCArm("b", 60)>>}
MCRewards == {-1, 1, 3}

\* A read, a change in two spellings, and neither.
MCCapabilities == {"catalog.read", "content.publish", "Content.Publish", "other"}
MCLower == [c \in MCCapabilities |-> IF c = "Content.Publish" THEN "content.publish" ELSE c]
MCKindOf == [c \in MCCapabilities |->
                CASE c = "catalog.read" -> "read" [] c = "content.publish" -> "mutating" [] OTHER -> "other"]
\* By their text, 1.10.0 comes before 1.9.0.
MCVersions == {<<1, 9, 0>>, <<1, 10, 0>>, <<2, 0, 1>>}
MCDeclarations == {{"catalog.read", "Content.Publish"}, {"catalog.read"}, {"other"}}
MCManifest == {"catalog.read", "content.publish"}
MCOverrides ==
    {<<>>} \cup {[c \in {"content.publish"} |-> s] : s \in {"available", "manual"}}
           \cup {[c \in {"catalog.read"} |-> "approval_required"],
                 [c \in {"Content.Publish"} |-> "temporarily_disabled"]}

\* A release, the next one, and one that changed a file.
MCReleases == {(1 :> "a" @@ 2 :> "a"), (1 :> "a" @@ 2 :> "a" @@ 3 :> "a"), (1 :> "a" @@ 2 :> "b")}

\* No clock is ahead, or one is.
MCSkews == {[i \in Instances |-> 0], [i \in Instances |-> IF i = "i1" THEN 1 ELSE 0]}

\* roleRank and ROLE_GRANTS.
MCRoleRank == [owner |-> 5, admin |-> 4, operator |-> 3, analyst |-> 2, viewer |-> 1]
MCRolePrefixes ==
    [owner |-> {"manage", "read", "execute", "export"}, admin |-> {"manage", "read", "execute"},
     operator |-> {"read", "execute"}, analyst |-> {"read", "export"}, viewer |-> {"read"}]
=============================================================================
