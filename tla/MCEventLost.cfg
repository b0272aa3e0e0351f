CONSTANTS
    A = A
    B = B
    a1 = a1
    a2 = a2
    b1 = b1
    mine = mine
    shared = shared
    NoEv = NoEv
    OSThread <- MCOSThread
    UThread <- MCUThread
    Owner <- MCOwner
    Started <- MCStarted
    Ev <- MCEv
    Users <- MCUsers
    MaxCalls = 2
SPECIFICATION Spec
INVARIANT
    NobodyLeftBehind
CHECK_DEADLOCK FALSE
