\* Two processes: partitions move, and processes stop, die and restart, while
\* events are buffered or in flight.
CONSTANTS
    r1 = r1  r2 = r2  u1 = u1  p1 = p1  p2 = p2  t1 = t1
    loop = loop  sync = sync
    Users = {u1}
    Requests = {r1, r2}
    UserOf <- MCUserOf
    Flushable = TRUE
    Procs = {p1, p2}
    Home <- MCHome
    Shards = {p1, p2}
    ProcOf <- MCProcOf
    ShardIndex <- MCShardIndex
    Flushers <- MCFlushers
    Loops <- MCLoops
    Of <- MCOf
    Stores = {u1}
    StoreOf <- MCStoreOf
    Batch = 3
    Estimates = {0}
    Amounts = {2}
    Credits = {}
    Faults = {"rebalance", "kafka", "crash"}
    Callers = 1
    MaxCredit = 1
    MaxBuf = 2
    Partitions = {t1}
    PartitionOf <- MCPartitionOf
    BatchN = 1
    OldGroup = TRUE
    MaxLog = 2
CONSTRAINT RebalanceBound
SYMMETRY SameRequests
SPECIFICATION KafkaSpec
INVARIANTS
    NoLoss
CHECK_DEADLOCK FALSE
