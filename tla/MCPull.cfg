SPECIFICATION Spec
CONSTANTS
    p1 = p1
    p2 = p2
    p3 = p3
    v1 = v1
    v2 = v2
    v3 = v3
    o1 = o1
    o2 = o2
    None = None
    Foreign = Foreign
    Pulls = {p1, p2, p3}
    Versions = {v1, v2, v3}
    Outputs = {o1, o2}
    VersionOf <- PullVersions
    OutputOf <- PullOutputs
    FileCount <- Sizes
INVARIANTS
    PullTypeOK
    OutputsAreComplete
    StagingIsAccounted
    PlansFollowTheManifest
PROPERTIES
    NothingIsReplaced
    SuccessIsEarned
