CONSTANTS
    Viewers = {1, 2, 3}
    Seekers = {1}
    MaxPeers = 2
    Crowds <- SomeCrowds
    MaxDialsInFlight = 1
    MaxDials = 2
    MaxFaults = 1
SPECIFICATION Spec
INVARIANTS SlotsKept LinksAgree
PROPERTIES AnsweredOnce
CHECK_DEADLOCK FALSE
