SPECIFICATION Spec
CONSTANTS
    a1 = a1
    a2 = a2
    x = x
    y = y
    Clients = {a1, a2}
    Manifests <- Pulls
    Stored <- Base
    concurrencyLimit = 1
    maxCalls = 1
    maxFaults = 0
INVARIANT ParentIsPresent
CHECK_DEADLOCK FALSE
