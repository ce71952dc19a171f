CONSTANTS
    Urls <- MCUrls
    Modes <- Reconnecting
    MaxConnects = 1
    MaxAnnounces = 1
    MaxFaults = 2
SPECIFICATION Spec
INVARIANTS OutlivesRestart
CHECK_DEADLOCK FALSE
