\* A process dies between a pre-charge and its settlement; markers expire.
CONSTANTS
    r1 = r1  r2 = r2  r3 = r3  u1 = u1  p1 = p1  s1 = s1  s2 = s2
    Users = {u1}
    Requests = {r1}
    UserOf <- MCUserOf
    Flushable = TRUE
    Procs = {p1}
    Home <- MCHome
    Shards = {s1}
    ProcOf <- MCProcOf
    ShardIndex <- MCShardIndex
    Flushers = {s1}
    Loops = {s1}
    Of <- MCOf
    Stores = {u1}
    StoreOf <- MCStoreOf
    Batch = 2
    Estimates = {2}
    Amounts = {1}
    Credits = {6}
    Faults = {"crash", "expire"}
    Callers = 1
    MaxCredit = 6
    MaxBuf = 3
    SinkCap = 2
SPECIFICATION FairSinkSpec
PROPERTY
    FrozenIsFreed
CHECK_DEADLOCK FALSE
