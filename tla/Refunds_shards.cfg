\* MarkExecuted over two shards.
CONSTANTS
    n1 = n1  n2 = n2  s1 = s1  s2 = s2  w1 = w1
    NegOrders = {n1, n2}
    RefundShards = {s1, s2}
    ShardOfOrder <- MCShardOfOrder
    Credit <- MCCredit
    AutoThreshold = 1
    Runners = {w1}
    ReachOf <- MCReachOf
    WithRedis = {w1}
    NoOrder = NoOrder
    RunLimit = 3
    RefundFaults = {}
SPECIFICATION RefundSpec
INVARIANT ExecutedIsCredited
CHECK_DEADLOCK FALSE
