SPECIFICATION Spec
CONSTANTS
    Runs = {r1}
    Admins = {a1}
    Dims = {faith, relev}
    Scores = {low, high}
    Null = Null
CHECK_DEADLOCK FALSE
INVARIANTS
    AlwaysTerminal
