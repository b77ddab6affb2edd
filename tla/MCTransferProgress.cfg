SPECIFICATION FairProgressSpec
CONSTANTS
    w1 = w1
    w2 = w2
    Watchers <- TwoWatchers
    maxEvents = 2
INVARIANTS
    NothingMissed
    LastEventWritten
PROPERTIES
    ReleaseEnds
