SPECIFICATION StoreSpec
CONSTANTS
    None = None
    c1 = c1
    c2 = c2
    a = a
    n1 = n1
    Clients <- TwoClients
    Chains <- OneChain
    parentOf <- OneParent
    maxLayerDepth = 2
    Names <- OneName
    maxActivity = 1
SYMMETRY ClientSymmetry
INVARIANTS
    PinsExact
    MountStandsOnChain
    NoLockCycle
PROPERTIES
    MountedStays
