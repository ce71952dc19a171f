CONSTANTS
    Publishers = {1, 2}
    Workers = {"hls", "forward"}
    MaxSpawns = 2
    MaxFaults = 2
SPECIFICATION FairSpec
INVARIANTS OneBroadcast CleanIsClean RecoversAlone
PROPERTIES LeaseFreed
CHECK_DEADLOCK FALSE
