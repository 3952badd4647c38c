SPECIFICATION Spec
CONSTANTS
    Admins = {a1, a2}
    MaxValue = 4
    Null = Null
CHECK_DEADLOCK FALSE
INVARIANTS
    OverlapBelowGroup
