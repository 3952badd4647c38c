SPECIFICATION FairSpec
CONSTANTS
    Tables = {"documents", "chunks", "nodes", "edges", "liveLogs", "evaluations", "goldenItems", "goldenLogs", "roles"}
    MaxWrites = 1
CHECK_DEADLOCK FALSE
INVARIANTS
    DeleteFailsOnlyOnGoldenLogs
    GoneMeansGone
    ActiveHasItsStores
    StoresAreEmptied
PROPERTIES
    ArchivedGoes
