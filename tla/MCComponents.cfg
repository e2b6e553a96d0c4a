INIT MCInit
NEXT MCNext
CONSTANTS
    Parts = {"policies", "graph", "versions", "prompts", "tools", "schedule",
             "remediation", "events", "agent", "checkpoints", "knowledge", "lessons", "chunking",
             "ranking", "egress", "trust", "nodes", "leases"}
    PolicySessions = {"p1", "p2"}
    PolicyRules <- MCPolicyRules
    Surfaces <- MCSurfaces
    RuntimeCalls <- MCRuntimeCalls
    MaxPolicyVersion = 3
    Graphs <- MCGraphs
    Requesters = {"p1", "p2"}
    DraftIds = {"t1", "t2"}
    Definitions <- MCDefinitions
    Catalogs <- MCCatalogs
    MaxWorkflowVersion = 2
    MaxRequests = 3
    Publishers = {"p1", "p2"}
    PromptVersions = {"t1", "t2"}
    Labels = {"production"}
    EvalRuns <- MCEvalRuns
    MaxReleases = 3
    Syncs = {"s1", "s2"}
    ToolNames = {"a", "b"}
    Listings <- MCListings
    GroupRisk = 1
    MaxSyncVersion = 2
    Workers = {"p1", "p2"}
    LeaseMinutes = 2
    Interval = 60
    MaxFailures = 2
    MaxNow = 5
    Tenants = {"p1", "p2"}
    ForeignRules <- MCForeignRules
    Remediations = {"t1", "t2"}
    RemediationRequests = {"s1", "s2"}
    Recorders = {"w1", "w2", "w3"}
    Followers = {"f1"}
    PageSize = 2
    MaxEvents = 4
    AgentTools = {"a", "b"}
    AgentBudgets <- MCAgentBudgets
    Threads = {"t1", "t2"}
    RetentionRuns = {"q1"}
    MaxDay = 2
    RetentionDays = 1
    CandidateLimit = 1
    Documents = {"d1"}
    NoDocument = NoDocument
    Contents = {"x"}
    Importers = {"i1", "i2"}
    Deleters = {"x1"}
    LessonRefs = {"l1", "l2"}
    Reviewers = {"v1", "v2"}
    Memories = {"m1"}
    MaxVersions = 3
    ParentTarget = 5
    ChildTarget = 3
    ChildOverlap = 1
    MaxSections = 3
    MaxTokens = 11
    ChunkIds = {1, 2, 3, 4}
    RankConstant = 60
    ResultLimit = 2
    MaxRanked = 3
    Hosts = {"x", "y"}
    Under <- MCUnder
    Ports = {80, 443}
    Environments <- MCEnvironments
    NoEnvironment = NoEnvironment
    Answers <- MCAnswers
    MaxServers = 1
    Permitted = {}
    Uploads = {"p1", "p2"}
    TrustStores = {"s1", "s2"}
    Bundles = {"b1", "b2", "b3"}
    Malformed = {"b3"}
    MaxVerifications = 1
    NodeRuns = {"r1", "r2"}
    NodeResumes = {"q1", "q2"}
    LeaseRequests = {"r1", "r2"}
    Credentials = {"c1"}
    CredentialUsers = {"m1"}
    MaxLeases = 2
INVARIANTS
    StaysInForce FloorHolds GatedContent AcceptedIsReachable LastPublishWins
    OneWorkerPerLease AppliedIsDecided NothingIsSkipped
    EndsByBudget EveryCallIsObserved ResumableKeepsThread OneLiveVersion
    NothingIsLost FusionIsMonotone OnlyListedIsReached TrustIsExact OwnResult
    CallsAreLeased
PROPERTIES
    VersionsAreFixed SyncIsExact KeepsOtherRules
CHECK_DEADLOCK FALSE
