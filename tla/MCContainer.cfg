SPECIFICATION Spec
CONSTANTS
    c1 = c1
    c2 = c2
    Clients = {c1, c2}
    Daemon = daemon
    Ops <- Calls
    Policies = {"on-failure"}
    MaximumRetryCount = 1
    maxCalls = 2
    maxFaults = 1
    None = None
    oldName = old
    newName = new
INVARIANTS
    Released
    RunningIsOnDisk
    RemovedIsStopped
    StopMeansStoppedUnlessMissed
PROPERTY
    CallsEnd
CHECK_DEADLOCK FALSE
