\* One process while nothing fails; two with every fault.
CONSTANTS
    r1 = r1  r2 = r2  u1 = u1  p1 = p1  p2 = p2  t1 = t1
    loop = loop  sync = sync
    Users = {u1}
    Requests = {r1, r2}
    UserOf <- MCUserOf
    Flushable = TRUE
    Procs = {p1, p2}
    Home <- MCHome
    Shards = {p1, p2}
    ProcOf <- MCProcOf
    ShardIndex <- MCShardIndex
    Flushers <- MCFlushers
    Loops <- MCLoops
    Of <- MCOf
    Stores = {u1}
    StoreOf <- MCStoreOf
    Batch = 2
    Estimates = {1}
    Amounts = {2}
    Credits = {2}
    Faults = {"redis", "insert", "crash", "expire", "kafka", "rebalance", "commit"}
    Callers = 1
    MaxCredit = 2
    MaxBuf = 2
    Partitions = {t1}
    PartitionOf <- MCPartitionOf
    BatchN = 2
    OldGroup = FALSE
    MaxLog = 2
SPECIFICATION BothSpec
INVARIANTS
    KafkaTypeOK
PROPERTIES
    CalmPublishedIsSettled
    ImplementsSettlement
CHECK_DEADLOCK FALSE
