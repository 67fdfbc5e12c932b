SPECIFICATION RegistrySpec
CONSTANTS
    m1 = m1
    m2 = m2
    b1 = b1
    b2 = b2
    None = None
    Datasets = {d1, d2}
    Manifests = {m1, m2}
    Blobs = {b1, b2}
    Content <- SharedContent
    DatasetKeys = {h1, h2}
    VersionKeys = {r1, r2, r3}
    UploadKeys = {k1, k2, k3}
    MaxSessions = 3
SYMMETRY Interchangeable
INVARIANTS
    TypeOK
    ReadyIsComplete
    NewestAttemptDecides
    VersionsAgreeWithSessions
    FailureIsExplained
    NumbersAreDense
    KeysAnswerTheirBlob
PROPERTIES
    LegalTransitions
    IdentityIsPermanent
