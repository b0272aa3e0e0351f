CONSTANTS
    A = A
    B = B
    r2 = r2
    r = r
    w = w
    Reader <- OneReader
    Writer = w
    UThread <- MCUThread
    OSThread <- TwoThreads
    Owner <- OwnerTwo
    Started <- StartedTwo
    Size = 2
    MaxRead = 2
    MaxBytes = 3
    MaxCalls <- ThreeCalls
SPECIFICATION Spec
INVARIANT
    ClosedStopsWriter
\* A pipe nobody writes to or reads from leaves the other side waiting.
CHECK_DEADLOCK FALSE
