SPECIFICATION Spec
CONSTANTS
    w1 = w1
    w2 = w2
    Worker = {w1, w2}
    Client = {c1, c2}
    HasWait = {w1}
    NoWorker = none
    MaxWork <- FirstWorks
CHECK_DEADLOCK FALSE
PROPERTY JoinWaitsForExit
