CONSTANTS
    Deliveries = {d1, d2}
    MaxBatch = 2
    MaxHistory = 2
SPECIFICATION FairSpec
INVARIANTS
    VaultIsNewest
    OverflowBounded
    CountedWasStreamed
    StoredWasStreamed
    BatchOrderKept
PROPERTIES
    ImplementsHistory
    EvictedStaysEvicted
    EveryDeliveryEnds
