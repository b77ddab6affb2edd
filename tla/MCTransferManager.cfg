SPECIFICATION SharedKeyFairSpec
CONSTANTS
    c1 = c1
    c2 = c2
    c3 = c3
    k1 = k1
    k2 = k2
    Calls = {c1, c2, c3}
    Keys = {k1, k2}
    concurrencyLimit = 1
    None = None
INVARIANTS
    ConcurrencyBound
    OneTransferPerKey
    WatchedNotCancelled
    ReleasedExactlyOnce
PROPERTIES
    SlotsImplemented
    EveryTransferStarts
    EveryCallReturns
