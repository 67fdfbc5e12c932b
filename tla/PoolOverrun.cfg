SPECIFICATION Spec
CONSTANTS
    s1 = s1
    s2 = s2
    t1 = t1
    t2 = t2
    None = None
    Sessions = {s1, s2}
    Txns = {t1, t2}
    AdmissionCapacity = 1
    CompletionCapacity = 1
    Ttl = 2
    MaxEpoch = 2
SYMMETRY Connections
INVARIANT CompletionPoolIsBounded
