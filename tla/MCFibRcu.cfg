\* The claim of test_fib.cpp for all four tables.
CONSTANTS
    Width = 1
    Prefixes <- TwoPrefixes
    Addresses <- MCAddresses
    Nodes <- TwoNodes
    KeyOf <- TwoKeys
    Values <- TwoValues
    EntryOf <- TwoEntries
    MaxChanges = 2
    Readers = {r1}
SPECIFICATION FibSpec
INVARIANT LookupsAreCurrent
