\* Thread exit, record reuse and orphan adoption.
CONSTANTS
    t1 = t1
    t2 = t2
    t3 = t3
    o1 = o1
    o2 = o2
    Threads <- MCThreads
    Objects <- MCObjects
    Calls <- CallsExit
    MaxRecords = 3
    MaxNesting = 2
    MaxEpoch = 2
    ReclaimInterval = 2
SPECIFICATION Spec
SYMMETRY ObjectSymmetry
CHECK_DEADLOCK FALSE
INVARIANTS TypeOK BagsFreeOnlyUnheld EpochWaitsForHolders GarbageConserved RecordsExclusive OwnGuardStopsSynchronize
PROPERTIES AnnouncementKept
