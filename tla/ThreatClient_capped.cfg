CONSTANTS
    Sockets = {w1, w2}
    MaxAttempts = 2
    MaxShown = 2
    MaxVault = 1
    MaxMessages = 1
    MaxPending = 2
SPECIFICATION Spec
INVARIANT RetriesAreCapped
CHECK_DEADLOCK FALSE
