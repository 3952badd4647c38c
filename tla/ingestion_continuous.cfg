SPECIFICATION FairSpec
CONSTANTS
    Docs = {d1}
    Workers = {w1}
    Admins = {a1}
    NoDoc = NoDoc
    MaxRevision = 1
    MaxFaults = 0
CHECK_DEADLOCK FALSE
PROPERTIES
    PipelineIsContinuous
