SPECIFICATION Spec
CONSTANTS
    UThread = {u1, u2, u3}
    MaxOps = 7
    fd = 1
    NoFd = 99
    NoValue = nobody
    Hash <- Hashes
    MinSize = 2
    MaxSent = 2
    MaxRoom = 1
    Counts = {2}
    Timeouts = {0, 1}
    Sleeps = {1}
    PerMs = 2
    NatSize = 100
    UseAfterClose = FALSE
SYMMETRY Symmetry
INVARIANTS TypeOK Registered OwnData NeverOversleeps EndIsEnd FdMapAgrees
CHECK_DEADLOCK FALSE
