CONSTANTS
    Sockets = {w1, w2, w3}
    MaxAttempts = 2
    MaxShown = 2
    MaxVault = 3
    MaxMessages = 4
    MaxPending = 2
SPECIFICATION FairSpec
INVARIANTS
    SocketsAgree
    LiveAlertsAreKept
    UniqueIds
PROPERTY FeedComesBack
CHECK_DEADLOCK FALSE
