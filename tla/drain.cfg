SPECIFICATION FairSpec
CONSTANTS
  a = a
  b = b
  k1 = k1
  k2 = k2
  Node <- MCNode
  Key <- MCKey
  Size <- MCSize
  HeldSize <- MCHeld
  Ask <- OneAsks
  MaxRequests <- OneBound
  MaxSegment = 3
  MaxQueued = 1
  HighWater = 1
  Reliable = TRUE
  Faults = {"refuse", "host"}
INVARIANTS TypeOK SettledOnce GrantsAccounted CleanBoundary NoFalseAlarm
PROPERTIES CancelStopsChunks PortKept RequestsEnd UploadsEnd
CHECK_DEADLOCK FALSE
