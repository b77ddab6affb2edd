SPECIFICATION Spec
CONSTANTS
    c1 = c1
    c2 = c2
    base = base
    h1 = h1
    h2 = h2
    Worker = Worker
    Daemon = Daemon
    None = None
    Clients = {c1, c2}
    Hashes = {base, h1}
    Base = base
    maxDeviceID = 2
    Infos <- SmallHeap
    Setups <- Many
    maxMounts = 2
    maxUint = 255
    maxFaults = 2
INVARIANTS
    DataSafe
    MountedIsActive
    DeletedCounted
PROPERTIES
    WriteAhead
    DeferredDeleteEnds
CHECK_DEADLOCK FALSE
