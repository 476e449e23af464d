CONSTANTS
    Deliveries = {d1}
    Sockets = {s1, s2}
    MaxBatch = 2
    MaxHistory = 1
    PoolSize = 2
    RedisMayFail = TRUE
SYMMETRY Symmetry
SPECIFICATION StreamSpec
INVARIANTS
    PoolAccounting
    FeedIsContiguous
    LiveFeedIsComplete
