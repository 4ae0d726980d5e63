\* The writer alone over every shape of six prefixes; the tool over every dump
\* of three records and every generated table of up to three routes; two threads,
\* two addresses and two slots for three domains in turn.
CONSTANTS
    Width = 2
    Prefixes <- MCPrefixes
    Addresses <- Hosts
    Nodes <- MCNodes
    KeyOf <- KeyList
    Values <- MCValues
    EntryOf <- MCEntries
    MaxChanges = 2
    Readers = {}
    ByteBits = 2
    FileRecords <- MCRecords
    MaxRecords = 3
    HaveZlib = TRUE
    OctetBits = 1
    Reserved <- MCReserved
    BlockLengths = {1, 2}
    AllocationBlocks = 2
    DefaultRoute = {TRUE, FALSE}
    MaskLengths = {1, 2}
    AttemptsEach = 1
    SpareAttempts = 1
    Counts = {0, 2, 3}
    Shapes <- MCShapes
    Groups = 5
    GroupValues = {0, 1}
    MaxTokens = 9
    Threads = {t1, t2}
    DomainAddresses = {a1, a2}
    SlotCount = 2
    MaxDomains = 3
SYMMETRY SlotsSymmetry
SPECIFICATION MCSpec
INVARIANTS Canonical OwnedOnce WalkInOrder DepthIsLookupCost WalksFindTheTable
INVARIANTS WordsMatchBits TextRoundTrip ParserLanguage
INVARIANTS LateExitsTouchNothing CachedRecordsAreCurrent SlotsHaveOwners
INVARIANTS LoadedFile GeneratedTable ReportsAgree
PROPERTIES ImplementsTable
