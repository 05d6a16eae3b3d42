\* PostgreSQL refuses a batch: FlushSync returns nil all the same.
CONSTANTS
    r1 = r1  r2 = r2  u1 = u1  p1 = p1  p2 = p2  t1 = t1
    loop = loop  sync = sync
    Users = {u1}
    Requests = {r1, r2}
    UserOf <- MCUserOf
    Flushable = TRUE
    Procs = {p1}
    Home <- MCHome
    Shards = {p1}
    ProcOf <- MCProcOf
    ShardIndex <- MCShardIndex
    Flushers <- MCFlushers
    Loops <- MCLoops
    Of <- MCOf
    Stores = {u1}
    StoreOf <- MCStoreOf
    Batch = 2
    Estimates = {1}
    Amounts = {2}
    Credits = {2}
    Faults = {"insert"}
    Callers = 1
    MaxCredit = 2
    MaxBuf = 2
    Partitions = {t1}
    PartitionOf <- MCPartitionOf
    BatchN = 2
    OldGroup = TRUE
    MaxLog = 2
SPECIFICATION KafkaSpec
INVARIANT NoLoss
CHECK_DEADLOCK FALSE
