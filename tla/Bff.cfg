CONSTANTS
    n1 = n1
    n2 = n2
    d1 = d1
    d2 = d2
    d3 = d3
    k1 = k1
    k2 = k2
    u1 = u1
    u2 = u2
    name = name
    Own = Own
    Other = Other
    DefaultName = DefaultName
    Keys <- MCKeys
    UserIDs <- MCUserIDs
    Names <- MCNames
    Nonces <- MCNonces
    Deliveries <- MCDeliveries
    MaxAge = 2
    Skew = 1
    ReplayCapacity = 1
    MaxTime = 2
    MaxRestarts = 1
SPECIFICATION MCSpec
CONSTRAINT Small
SYMMETRY symmetry
CHECK_DEADLOCK FALSE
INVARIANT BffInvariant
PROPERTIES IdentityIsStable RefusedForReason
