CONSTANTS
    A = A
    B = B
    a1 = a1
    a2 = a2
    b1 = b1
    s1 = s1
    NoSem = NoSem
    OSThread <- MCOSThread
    Cond <- MCOSThread
    UThread <- MCUThread
    Owner <- MCOwner
    First <- MCFirst
    Sem <- MCSem
    InitCount <- MCInitCount
    MaxOps = 2
SPECIFICATION Spec
INVARIANTS
    TypeOK
    OneList
    NoneLost
    NoLostWakeup
    NoOvertaking
    AliveCountExact
PROPERTIES
    ImplementsSema
    ReadyRuns
