SPECIFICATION Spec
CONSTANTS
    Tables = {"documents", "goldenItems", "goldenLogs", "goldenEvaluations"}
    MaxWrites = 1
CHECK_DEADLOCK FALSE
INVARIANTS
    UndisturbedDeleteSucceeds
