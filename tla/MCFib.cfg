\* The four tables, a reader against a writer.
CONSTANTS
    Width = 1
    Prefixes <- TwoPrefixes
    Addresses <- MCAddresses
    Nodes <- TwoNodes
    KeyOf <- TwoKeys
    Values <- TwoValues
    EntryOf <- TwoEntries
    MaxChanges = 2
    Readers = {r1}
SPECIFICATION FibFairSpec
INVARIANTS FibTypeOK NothingDangles BatchesAreAtomic
PROPERTIES LookupReturns RetriesEnd
