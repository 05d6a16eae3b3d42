\* The billing sink: three requests while nothing fails; two with every fault,
\* shutdowns and a ResponseWriter that is no http.Flusher.  The detail sink with
\* failed batches and Close.  Recharges with every fault.
CONSTANTS
    r1 = r1  r2 = r2  r3 = r3  u1 = u1  p1 = p1  s1 = s1  s2 = s2
    Users = {u1}
    Requests = {r1, r2, r3}
    UserOf <- MCUserOf
    Flushable = FALSE
    Procs = {p1}
    Home <- MCHome
    Shards = {s1}
    ProcOf <- MCProcOf
    ShardIndex <- MCShardIndex
    Flushers = {s1}
    Loops = {s1}
    Of <- MCOf
    Stores = {u1}
    StoreOf <- MCStoreOf
    Batch = 2
    Estimates = {0, 2}
    Amounts = {1}
    Credits = {4}
    Faults = {"redis", "insert", "crash", "expire"}
    Callers = 1
    MaxCredit = 4
    MaxBuf = 3
    SinkCap = 1
    \* Payments
    RechargeKeys = {recharge1}
    RechargeAmounts = {0, 1, 2}
    PayCalls = {c1, c2, c3}
    PayClock = {0, 1}
    WebhookAuth = TRUE
    PayFaults = {"channel", "topup", "crash"}
    \* DetailSink
    DetailRows = {d1, d2, d3}
    BatchN = 2
    DetailFaults = {"send", "close"}
SPECIFICATION GatewaySpec
INVARIANTS
    SinkTypeOK
    DetailOnce
    GracefulCloseSends
    CreditedOnce
    PaidByOnePayment
PROPERTIES
    
    CalmServedIsSettled
    ImplementsSettlement
    AcceptedIsSent
CHECK_DEADLOCK FALSE
