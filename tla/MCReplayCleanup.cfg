CONSTANTS
    Threads = {t1, t2}
    k1 = k1  k2 = k2  k3 = k3  k4 = k4
    sh1 = sh1  sh2 = sh2
    Keys = {k1, k2}
    Shards = {sh1, sh2}
    ShardOf <- MCShardOf
    MaxSeq = 0
    Cap = 2
    TTL = 0
    NoEntry = NoEntry
    Serial = FALSE
    MaxTime = 0
    MaxCalls = 2
SPECIFICATION Spec
PROPERTY CleanupCountExact
