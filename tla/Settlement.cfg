\* One process and one settle shard: the flushers race, or every kind of data.
CONSTANTS
    r1 = r1  r2 = r2  r3 = r3  u1 = u1  u2 = u2  p1 = p1  s1 = s1
    loop = loop  sync = sync
    Users = {u1, u2}
    Requests = {r1, r2, r3}
    UserOf <- MCUserOf
    Flushable = FALSE
    Procs = {p1}
    Home <- MCHome
    Shards = {s1}
    ProcOf <- MCProcOf
    ShardIndex <- MCShardIndex
    Flushers = {loop, sync}
    Loops = {loop}
    Of <- MCOf
    Stores = {u1, u2}
    StoreOf <- MCStoreOf
    Batch = 2
    Estimates = {0, 2}
    Amounts <- MCAmounts
    Credits = {2}
    Faults = {"redis", "insert", "crash", "expire"}
    Callers = 1
    MaxCredit = 4
    MaxBuf = 2
SYMMETRY SameUser
SPECIFICATION SettlementSpec
INVARIANTS
    TypeOK
    Conservation
    FrozenIsReserved
    OverdraftIsClawback
    ChargeMatchesOrder
    NoLostWakeup
PROPERTIES
    ImplementsChargeOnce
CHECK_DEADLOCK FALSE
