SPECIFICATION Spec
CONSTANTS
    UThread = {u1, u2}
    MaxOps = 7
    fd = 1
    NoFd = 99
    NoValue = nobody
    Hash <- Hashes
    MinSize = 2
    MaxSent = 2
    MaxRoom = 1
    Counts = {2}
    Timeouts = {0, 1}
    Sleeps = {1}
    PerMs = 2
    NatSize = 100
    UseAfterClose = TRUE
INVARIANT OwnData
CHECK_DEADLOCK FALSE
