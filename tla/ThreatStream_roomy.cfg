CONSTANTS
    Deliveries = {d1}
    Sockets = {s1, s2}
    MaxBatch = 2
    MaxHistory = 1
    PoolSize = 3
    RedisMayFail = FALSE
SPECIFICATION StreamFairSpec
PROPERTIES
    AlertReachesClient
    GoneIsReleased
