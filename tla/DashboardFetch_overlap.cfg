SPECIFICATION FetchSpec
CONSTANTS
    Core <- MCCore
    Extras = {"felix"}
    Unlabelled = {}
    Tabs = {"cni-health"}
    FetcherOf <- MCFetcherOf
    Silents = {"silent"}
    MockUntil = 1
    MaxVersion = 1
INVARIANTS
    LabelMatchesData
PROPERTIES
    FlagsEnd
    CatchesUp
