\* The services around the billing core, one at a time.
CONSTANTS
    n1 = n1  n2 = n2  n3 = n3  w1 = w1  w2 = w2  s1 = s1  s2 = s2
    x1 = x1  x2 = x2  a1 = a1  a2 = a2  a3 = a3  b1 = b1  b2 = b2
    j1 = j1  j2 = j2  j3 = j3  j4 = j4  k1 = k1  k2 = k2  k3 = k3
    l1 = l1  l2 = l2
    q1 = q1  q2 = q2  q3 = q3  ch1 = ch1  ch2 = ch2  m1 = m1  m2 = m2
    \* Refunds
    NegOrders = {n1, n2, n3}
    RefundShards = {s1, s2}
    ShardOfOrder <- MCShardOfOrder
    Credit <- MCCredit
    AutoThreshold = 1
    Runners = {w1, w2}
    ReachOf <- MCReachOf
    WithRedis = {w1, w2}
    NoOrder = NoOrder
    RunLimit = 3
    RefundFaults = {"insert", "topup", "mark", "crash"}
    \* KeyCache
    RawKeys = {key1}
    ChainUsers = {user1}
    Chains = {chain1, chain2}
    FirstChain = chain1
    KeyCallers = {g1, g2}
    KeyTTL = 2
    NegTTL = 1
    KeyClock = 3
    KeyFaults = {"db"}
    \* Directory
    Quotas = {1}
    FirstTables <- MCFirstTables
    MaxRows = 2
    MaxWrites = 1
    MaxCuts = 1
    \* Identity
    Subjects = {x1, x2}
    EmailOf <- MCEmailOf
    LocalNames = {"ann"}
    Attempts = {a1, a2, a3}
    BrowserOf <- MCBrowserOf
    AutoRegister = TRUE
    IdFaults = {"exchange", "db", "crash"}
    \* Limiter
    LimitedCalls = {j1, j2, j3, j4, k1, k2, k3, l1, l2}
    KeyOf <- MCKeyOf
    EndUserScope <- MCEndUserScope
    BudgetsOf <- MCBudgetsOf
    WindowLimit <- MCWindowLimit
    SlotLimit <- MCSlotLimit
    Weight <- MCWeight
    Window = 3
    Second = 2
    MaxLag = 1
    LimiterClock = 7
    LimiterFaults = {"gone", "redis", "db"}
    \* Router
    Channels = {ch1, ch2}
    RouteOf <- MCRouteOf
    RouteCalls = {q1, q2, q3}
    MinRequests = 2
    MaxProbes = 1
    OpenFor = 1
    HealthWindow = 0
    MaxOutcomes = 1
    MaxTroubles = 1
    \* Metering
    MeteredRequests = {r1}
    PricedModels = {m1, m2}
    AutoModel = auto
    AutoPool <- MCAutoPool
    CostOf <- MCCostOf
    CostQuality = 7
    Prompts = {1, 3}
    Features <- MCFeatures
    MaxTokensSet = {0, 1, 4, 99}
    NoMaxTokens = 99
    Prices <- MCPrices
    PerUnit = 2
    CompletionCap = 3
    LongOutput = 2
    ChunkTokens = {1, 2}
    Routed = TRUE
    MaxCompletion = 4
    MaxUpdates = 1
SPECIFICATION ServicesSpec
INVARIANTS
    RefundedOnce
    MarkFollowsCredit
    FreshAnswer
    TreeAgreesWithChain
    AttachedTreeIsFull
    OneAccountPerSubject
    WindowBound
    RetrySuffices
    SlotsBounded
    FailoverIsComplete
    ChargedAtStartPrice
    ReservationCovers
    UnansweredIsFree
CHECK_DEADLOCK FALSE
