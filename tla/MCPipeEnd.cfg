CONSTANTS
    A = A
    B = B
    r2 = r2
    r = r
    w = w
    Reader <- OneReader
    Writer = w
    UThread <- MCUThread
    OSThread <- OneThread
    Owner <- OwnerOne
    Started <- StartedOne
    Size = 2
    MaxRead = 2
    MaxBytes = 2
    MaxCalls <- ThreeCalls
SPECIFICATION Spec
PROPERTY
    EndIsReported
\* A pipe nobody writes to or reads from leaves the other side waiting.
CHECK_DEADLOCK FALSE
