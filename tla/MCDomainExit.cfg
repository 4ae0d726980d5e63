\* A domain that dies while a thread exits.
CONSTANTS
    Threads = {t1, t2}
    DomainAddresses = {a1, a2}
    SlotCount = 2
    MaxDomains = 4
SPECIFICATION SlotsSpec
CHECK_DEADLOCK FALSE
INVARIANT ExitTouchesOnlyLiveDomains
