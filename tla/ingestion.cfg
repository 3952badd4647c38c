SPECIFICATION FairSpec
CONSTANTS
    Docs = {d1, d2}
    Workers = {w1}
    Admins = {a1}
    NoDoc = NoDoc
    MaxRevision = 1
    MaxFaults = 1
CHECK_DEADLOCK FALSE
INVARIANTS
    TypeOK
    OneGenerationServed
    ReadyIsServed
    NothingStranded
    FreshOrRefreshing
PROPERTIES
    ImplementsLifecycle
    UploadSettles
    EditReachesChunks
