CONSTANTS
    Threads = {t1, t2}
    k1 = k1  k2 = k2  k3 = k3  k4 = k4
    sh1 = sh1  sh2 = sh2
    Keys = {k1}
    Shards = {sh1, sh2}
    ShardOf <- MCShardOf
    MaxSeq = 2
    Cap = 1
    TTL = 1
    NoEntry = NoEntry
    Serial = FALSE
    MaxTime = 0
    MaxCalls = 3
SPECIFICATION Spec
PROPERTY OnlyRegistrationRaces
