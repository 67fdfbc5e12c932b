SPECIFICATION FairSpec
CONSTANTS
    d1 = d1
    m1 = m1
    m2 = m2
    b1 = b1
    b2 = b2
    p1 = p1
    p2 = p2
    None = None
    Datasets = {d1}
    Manifests = {m1, m2}
    Blobs = {b1, b2}
    Content <- SharedContent
    DatasetKeys = {d1}
    VersionKeys <- PushVersionKeys
    UploadKeys <- PushUploadKeys
    MaxSessions = 2
    Pushers = {p1, p2}
    Job <- SharedBlob
    MaxFaults = 1
    MaxPoison = 2
INVARIANTS
    AvailableMeansStored
    PushBeliefsHold
    ContextsAreCoherent
PROPERTIES
    ImplementsPublication
    PushesPublish
