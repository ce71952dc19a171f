CONSTANTS
    Loaders = {l1, l2}
    Links = {k1}
    Plans = {"peer", "steady", "mixed", "whole", "cached", "late"}
    MaxConcurrentRaces = 2
    MaxLoads = 2
    MaxFaults = 2
SPECIFICATION Spec
SYMMETRY Symmetry
INVARIANTS NothingKept NeverStranded
PROPERTIES AnsweredOnce
CHECK_DEADLOCK FALSE
