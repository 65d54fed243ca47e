CONSTANTS
    k1 = k1
    k2 = k2
    p1 = p1
    p2 = p2
    c1 = c1
    c2 = c2
    c3 = c3
    NoPayload = NoPayload
    Nobody = Nobody
    Keys <- MCKeys
    Payloads <- MCPayloads
    Callers <- MCCallers
    HistoryLimit = 1
    MaxAttempts = 2
    MaxRevision = 3
SPECIFICATION Spec
SYMMETRY symmetry
CHECK_DEADLOCK FALSE
INVARIANT ConfigInvariant
PROPERTY ImplementsChains
