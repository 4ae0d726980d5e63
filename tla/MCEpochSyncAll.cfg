\* One thread retires an object and another one synchronises after that.
CONSTANTS
    t1 = t1
    t2 = t2
    o1 = o1
    Threads <- MCThreads
    Objects <- MCObjects
    Calls <- CallsRetireSync
    MaxRecords = 2
    MaxNesting = 0
    MaxEpoch = 2
    ReclaimInterval = 2
SPECIFICATION PromiseSpec
CHECK_DEADLOCK FALSE
INVARIANT SynchronizeFreesAll
