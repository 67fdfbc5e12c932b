SPECIFICATION FairSpec
CONSTANTS
    None = None
    FileCount = 2
    RootFiles = {1}
    Chunks = {"x", "y"}
    Trees <- SomeTrees
    MaxEvents = 2
INVARIANTS
    StoredMatchesDigest
    CreatedIsStored
PROPERTIES
    EntriesAreSnapshots
    PushesSettle
CHECK_DEADLOCK FALSE
