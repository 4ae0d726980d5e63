\* Two prefixes, ties, bounded and unbounded flushes.
CONSTANTS
    Prefixes = {p1, p2}
    Routes <- FiveRoutes
    Limits = {0, 1, 3}
    MaxMarks = 3
SPECIFICATION FairSpec
INVARIANTS TypeOK InStep WinnerFirst MarksAccountedFor
PROPERTIES OnlyWinnersProgrammed GenerationsIncrease Converges
