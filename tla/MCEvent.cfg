CONSTANTS
    A = A
    B = B
    a1 = a1
    a2 = a2
    b1 = b1
    mine = mine
    shared = shared
    NoEv = NoEv
    OSThread <- MCOSThread
    UThread <- MCUThread
    Owner <- MCOwner
    Started <- MCStarted
    Ev <- MCEv
    Users <- MCUsers
    MaxCalls = 2
SPECIFICATION Spec
INVARIANTS
    TypeOK
    OnOneList
    WokenBySet
    NobodyLeftBehindLocally
PROPERTY
    SetReleasesQueue
\* All UThreads may end up waiting for an event that nobody is left to set.
CHECK_DEADLOCK FALSE
