CONSTANTS
    p1 = p1
    p2 = p2
    p3 = p3
    Party <- MCParty
    Task = task
    Nothing = nothing
    Kind <- StormKinds
SPECIFICATION Spec
INVARIANTS
    SameResult
    AliveWhileUsed
    NoSilentError
PROPERTY
    ResultReturns
\* A future that nobody posts to, or that everybody has dropped.
CHECK_DEADLOCK FALSE
