CONSTANTS
    Sources = {s1, s2}
    Accounts = {a1}
    Callers = {c1, c2}
    SourceLimit <- MCSourceLimit
    AccountLimit <- MCAccountLimit
    MaxBuckets = 2
    MaxWait = 1
SPECIFICATION ThrottleSpec
INVARIANT ThrottleInvariant
PROPERTIES LockHolds LockEnds
