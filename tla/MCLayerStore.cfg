SPECIFICATION LayerSpec
CONSTANTS
    None = None
    c1 = c1
    c2 = c2
    a = a
    ab = ab
    abc = abc
    Clients <- TwoClients
    Chains <- Stack
    parentOf <- StackParent
    maxLayerDepth = 2
SYMMETRY ClientSymmetry
INVARIANTS
    NoPanic
    CountsExact
    HeldIsWhole
PROPERTIES
    OnlyUnusedRemoved
