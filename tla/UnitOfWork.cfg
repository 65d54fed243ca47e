CONSTANTS
    Processes = {p1, p2}
    Requests = {r1, r2, r3}
    Items = {i1}
    NoProcess = NoProcess
    NoTransaction = NoTransaction
    MaxCrashes = 1
SPECIFICATION Spec
INVARIANT WriteInvariant
PROPERTIES NoOverwrite AtomicSpec EveryRequestEnds
CHECK_DEADLOCK FALSE
