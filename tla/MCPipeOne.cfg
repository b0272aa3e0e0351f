CONSTANTS
    A = A
    B = B
    r2 = r2
    r = r
    w = w
    Reader <- TwoReaders
    Writer = w
    UThread <- ThreeUThreads
    OSThread <- OneThread
    Owner <- OwnerThree
    Started <- StartedThree
    Size = 2
    MaxRead = 1
    MaxBytes = 3
    MaxCalls <- CallsThree
SPECIFICATION Spec
PROPERTIES
    ReaderGetsData
    WriterGetsOn
\* A pipe nobody writes to or reads from leaves the other side waiting.
CHECK_DEADLOCK FALSE
