\* Nothing fails; a full batch is two rows; Close races both flushLoops.
CONSTANTS
    r1 = r1  r2 = r2  r3 = r3  u1 = u1  p1 = p1  s1 = s1  s2 = s2
    loop = loop  closer = closer
    Users = {u1}
    Requests = {r1, r2, r3}
    UserOf <- MCUserOf
    Flushable = TRUE
    Procs = {p1}
    Home <- MCHome
    Shards = {s1, s2}
    ProcOf <- MCProcOf
    ShardIndex <- MCShardIndex
    Flushers <- MCFlushers
    Loops <- MCLoops
    Of <- MCOf
    Stores = {u1}
    StoreOf <- MCStoreOf
    Batch = 2
    Estimates = {1}
    Amounts = {1}
    Credits = {3}
    Faults = {}
    Callers = 1
    MaxCredit = 3
    MaxBuf = 2
    Worker = p1
    ShardSeq <- MCShardSeq
SPECIFICATION FairCloseSpec
INVARIANTS
    ClosedIsDurable
PROPERTIES
    CloseReturns
CHECK_DEADLOCK FALSE
