\* One small instance of every part: a job with two approvals, a message that is
\* sent twice, a person, two plans, two tenants, and so on.
CONSTANTS
    NumJobs = 1
    TenantOf <- MCOneTenant
    Keys = {k1}
    Workers = {w1}
    NumApprovals = 2
    MaxAttempts = 2
    ApprovalTtl = 1
    StaleRunning = 1
    BackoffTicks <- MCBackoff
    None = None

    Messages = {m1}
    ContactOf <- MCContactOf
    ChannelOf <- MCChannelOf
    SendAttempts = 2
    FollowUpLimit = 1
    Hour = 1
    Day = 3
    QuietStart = 2
    QuietEnd = 0
    SendTries = 2
    DailyBudget = 3
    HourlyCap = 2
    Retention = 0
    OutreachEnd = 3

    Persons = {p1}
    Externals = {x1}
    IssuerOf <- MCIssuerOf
    ApiKeys = {k1}
    KeyActions = {a1}
    Services = {v1}
    IdentityEnd = 2
    Ttls = {2}

    Plans = {"small", "large"}
    Quota <- MCQuota
    Price <- MCPrice
    Unpriced <- MCUnpriced
    Quantities = {1, 2}
    Amounts = {1, 2}
    UsageTimes = {1}
    Periods <- MCPeriods
    UsageLimit = 2
    InvoiceLimit = 2
    PaymentLimit = 1
    EntryLimit = 1

    Sellers = {s1, s2}
    ProductIds = {p1}
    Slugs = {"a"}
    NoName = NoName
    OrderRefs = {o1}
    BasisPoints = {1500}
    Revenues = {10}
    Costs = {1}
    RecordLimit = 6
    EventLimit = 1

    CommerceOffers = {o1}
    ListPrice = 10
    SalePrices = {8, 10}
    Freshness = 1
    PromotionWindows <- MCWindows
    SnapshotLimit = 1
    CommerceEnd = 1

    Deliveries <- MCDeliveries
    Campaigned = {2, 5}
    LateWindow = 0
    FutureTolerance = 1
    AnalyticsEnd = 1

    Envelopes <- MCEnvelopes
    NoExternal = NoExternal

    PolicyChoices <- MCPolicies
    ActionChoices <- MCActions
    CounterChoices <- MCCounters
    SwitchChoices <- MCSwitches
    SwitchLimit = 2
    SwitchRowLimit = 1
    LowerCase <- MCLowerCase
    Trim <- MCTrim

    Rankings <- MCRankings
    FeatureVersions = {1, 2}
    FeatureWindow = 1
    RankDay = 2
    SlotCounts = {1, 2, 5}
    ExplorePercent = 50
    FeedbackChoices = {"ACCEPTED"}
    RankingLimit = 2
    IntelligenceEnd = 2

    ModelVersions = {"v1", "v2", "v3"}

    AiProviders = {"dear", "cheap"}
    PriorityOf <- MCPriorityOf
    CostOf <- MCCostOf
    SpendBudget = 3
    CacheTtl = 1
    TemplateVersions = {"1", "2"}
    GenerationLimit = 2
    AiEnd = 3

    Goods <- MCGoods
    ScriptFormats <- MCFormats
    Drafts <- MCDrafts
    Packages <- MCPackages
    BriefLimit = 1
    ScriptLimit = 1

    ExperimentIds = {"e1"}
    ExperimentTenants = {"t1", "t2"}
    VariantSets <- MCVariantSets
    Rewards <- MCRewards
    OutcomeLimit = 3

    Capabilities <- MCCapabilities
    Lower <- MCLower
    KindOf <- MCKindOf
    PolicyVersions <- MCVersions
    Declarations <- MCDeclarations
    Manifest <- MCManifest
    OverrideChoices <- MCOverrides
    PublishLimit = 1

    Calls = {"c1", "c2", "c3"}
    MaxRetries = 1
    BreakerThreshold = 2
    BreakerReset = 1
    CallLimit = 5
    InvokerEnd = 2

    Callers = {"w1", "w2"}
    Capacity = 6
    TokenParts = 3
    Refill = 2
    Asked = {1, 2, 3}
    MaxWait = 3
    GrantLimit = 4
    BucketEnd = 4

    Migrators = {"p1", "p2"}
    Migrations = {1, 2, 3}
    Releases <- MCReleases
    Enclosed = {1, 3}
    Rerunnable = {2, 3}
    CrashLimit = 2

    Instances = {"i1", "i2"}
    SkewChoices <- MCSkews
    BucketSize = 4
    OneToken = 2
    PerTick = 1
    KeyTtl = 4
    AskLimit = 4
    LimiterEnd = 3

    FeedBatches = {"b1"}
    FeedGoods = {"g1", "g2"}
    RuntimeIds = {"r1", "r2", "r3"}
    RowKeys = {"w1"}
    Evidence = {"e1"}
    FeedPrices = {1}
    Importers = {"i1", "i2"}

    AuditBodies = {"x", "y"}
    AuditLimit = 3
    Actors = {"u1"}
    RoleRank <- MCRoleRank
    RolePrefixes <- MCRolePrefixes
    RoleMoveLimit = 3

    Handlers = {"h1", "h2"}
    BusAttempts = 2
    DeadLetterRoom = 1
    PublishRounds = 2

    SpanLimit = 3
    GivenTraces = {7}
    Series = {"requests", "span.duration_ms"}
    SpanSeries = "span.duration_ms"
    Samples = {2}
    MetricLimit = 2
SPECIFICATION RuntimesSpec
INVARIANT RuntimesTypeOK
INVARIANT GatedRunApproved
INVARIANT OutboxTellsState
INVARIANT OutreachHolds
INVARIANT TenantAccountsHold
 
INVARIANT FiguresAddUp
 
INVARIANT ContentIsSound
INVARIANT ProvidersHold
INVARIANT InfrastructureHolds
CHECK_DEADLOCK FALSE
