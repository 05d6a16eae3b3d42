\* Streaming behind a ResponseWriter that is no http.Flusher; nothing fails.
CONSTANTS
    r1 = r1  r2 = r2  r3 = r3  u1 = u1  p1 = p1  s1 = s1  s2 = s2
    Users = {u1}
    Requests = {r1, r2}
    UserOf <- MCUserOf
    Flushable = FALSE
    Procs = {p1}
    Home <- MCHome
    Shards = {s1}
    ProcOf <- MCProcOf
    ShardIndex <- MCShardIndex
    Flushers = {s1}
    Loops = {s1}
    Of <- MCOf
    Stores = {u1}
    StoreOf <- MCStoreOf
    Batch = 2
    Estimates = {2}
    Amounts = {1}
    Credits = {6}
    Faults = {}
    Callers = 1
    MaxCredit = 6
    MaxBuf = 3
    SinkCap = 2
SPECIFICATION FairSinkSpec
PROPERTY
    AdmittedEmits
CHECK_DEADLOCK FALSE
