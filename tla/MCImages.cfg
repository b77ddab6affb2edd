SPECIFICATION Spec
CONSTANTS
    Clients = {a1, a2, a3}
    Images = {base, child}
    Refs = {latest}
    Containers = {box}
    LayersOf <- Chains
    pulled = base
    committed = child
    maxCalls = 5
    maxFaults = 2
    None = None
INVARIANTS
    RestartSucceeds
    ParentExists
    ImageHasContent
    ChildrenExist
SYMMETRY Symmetry
CHECK_DEADLOCK FALSE
