SPECIFICATION FairSpec
CONSTANTS
    d1 = d1
    m1 = m1
    m2 = m2
    b1 = b1
    b2 = b2
    p1 = p1
    p2 = p2
    None = None
    Datasets = {d1}
    Manifests = {m1}
    Blobs = {b1}
    Content <- OneBlobContent
    DatasetKeys = {d1}
    VersionKeys <- PushVersionKeys
    UploadKeys <- PushUploadKeys
    MaxSessions = 2
    Pushers = {p1}
    Job <- OnePush
    MaxFaults = 0
    MaxPoison = 1
PROPERTIES
    RerunRepairsFailedVersion
