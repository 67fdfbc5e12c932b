SPECIFICATION MultipartSpec
CONSTANTS
    None = None
    Blobs = {b1}
    Plans = {q1, q2}
    Parts = {1, 2}
    ETags = {t1, t2}
    Invocations = {w1, w2}
    ResolveKeys = {k1, k2}
    AcquireKeys = {a1, a2}
    AcceptKeys = {c1, c2}
    AdmissionCapacity = 1
    CompletionCapacity = 1
    MaxSessions = 2
    MaxClaims = 2
SYMMETRY Interchangeable
INVARIANTS
    MultipartTypeOK
    NewestGenerationDecides
    OwnershipFollowsState
    AcceptedPartsStayVerified
    TokensAreExclusive
PROPERTIES
    HistoryIsImmutable
    ImplementsOwnership
