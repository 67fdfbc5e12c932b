SPECIFICATION MultipartSpec
CONSTANTS
    None = None
    Blobs = {b1}
    Plans = {q1}
    Parts = {1, 2}
    ETags = {t1, t2}
    Invocations = {w1}
    ResolveKeys = {k1}
    AcquireKeys = {a1, a2}
    AcceptKeys = {c1}
    AdmissionCapacity = 1
    CompletionCapacity = 1
    MaxSessions = 1
    MaxClaims = 1
INVARIANTS
    ResetPartTakesFreshReceipt
