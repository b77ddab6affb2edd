SPECIFICATION Spec
CONSTANTS
    c1 = c1
    c2 = c2
    base = base
    h1 = h1
    h2 = h2
    Worker = Worker
    Daemon = Daemon
    None = None
    Clients = {c1}
    Hashes = {base, h1, h2}
    Base = base
    maxDeviceID = 7
    Infos <- SmallHeap
    Setups <- NewPool
    maxMounts = 1
    maxUint = 255
    maxFaults = 1
INVARIANT DataKept
CHECK_DEADLOCK FALSE
