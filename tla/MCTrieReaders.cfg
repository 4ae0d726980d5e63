\* A lookup against two or more updates, over every shape of four prefixes.
CONSTANTS
    Width = 2
    Prefixes <- FourPrefixes
    Addresses <- MCAddresses
    Nodes <- FourNodes
    KeyOf <- NodeKeys
    Values <- FourValues
    EntryOf <- FourEntries
    MaxChanges = 2
    Readers = {r1}
SPECIFICATION Spec
INVARIANTS TypeOK NothingDangles NoStableRouteMissed OneUpdateIsAtomic
