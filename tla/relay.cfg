CONSTANTS
    Urls <- MCUrls
    Modes <- MCModes
    MaxConnects = 2
    MaxAnnounces = 2
    MaxFaults = 3
SPECIFICATION FairSpec
INVARIANTS EveryRelayKnows ClosedIsQuiet
PROPERTIES Rejoins
CHECK_DEADLOCK FALSE
