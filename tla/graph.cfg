SPECIFICATION FairSpec
CONSTANTS
    c1 = c1
    c2 = c2
    d1 = d1
    n1 = n1
    n2 = n2
    Chunks = {c1, c2}
    Docs = {d1}
    Names = {n1, n2}
    Pairs <- MCPairs
    DocOf <- MCDocOf
    Output <- MCOutput
    Admins = {a1, a2}
    MaxVersion = 2
    MaxFaults = 1
CHECK_DEADLOCK FALSE
INVARIANTS
    ActiveIsNewest
    OutdatedIsReset
    MentionsExact
    StoresAgree
    NodesCatchUp
    BackfillRepairs
PROPERTIES
    ExtractionCatchesUp
