CONSTANTS
    Loaders = {l1, l2}
    LastItem = 3
    Size <- MCSize
    MaxBytes = 3
    MaxObjects = 2
    Plays = {0, 1}
    MaxLoads = 2
    MaxFaults = 2
SPECIFICATION Spec
SYMMETRY Symmetry
INVARIANTS BoundsKept NeverStranded PinsFreed
PROPERTIES AnsweredOnce
CHECK_DEADLOCK FALSE
