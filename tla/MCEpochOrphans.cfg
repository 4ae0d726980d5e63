\* A writer exits with what it has retired, a reader, and a third thread that
\* only reclaims.
CONSTANTS
    t1 = t1
    t2 = t2
    t3 = t3
    o1 = o1
    o2 = o2
    Threads <- MCThreads
    Objects <- MCObjects
    Calls <- CallsHandOver
    MaxRecords = 3
    MaxNesting = 1
    MaxEpoch = 2
    ReclaimInterval = 2
SPECIFICATION Spec
SYMMETRY ObjectSymmetry
CHECK_DEADLOCK FALSE
INVARIANT NoUseAfterFree
