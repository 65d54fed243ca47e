CONSTANTS
    Events = {e1, e2}
    Workers = {w1, w2}
    Channels <- MCChannels
    Batch = 2
    Lease = 2
    Delay = 1
    MaxAttempts = 2
    MaxFaults = 1
SPECIFICATION Spec
INVARIANT DeliveryInvariant
PROPERTIES FinishedIsFinal EveryEventSettles
CHECK_DEADLOCK FALSE
