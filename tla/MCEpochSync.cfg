\* No thread exits: reclaiming and synchronising writers against a reader.
CONSTANTS
    t1 = t1
    t2 = t2
    t3 = t3
    o1 = o1
    o2 = o2
    Threads <- MCThreads
    Objects <- OneObject
    Calls <- CallsNoExit
    MaxRecords = 3
    MaxNesting = 1
    MaxEpoch = 2
    ReclaimInterval = 2
SPECIFICATION FairSpec
CHECK_DEADLOCK FALSE
PROPERTIES ContractSpec SynchronizeReturns
