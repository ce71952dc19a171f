SPECIFICATION Spec
CONSTANTS
  a = a
  b = b
  k1 = k1
  k2 = k2
  Node <- MCNode
  Key <- MCKey
  Size <- MCSize
  HeldSize <- Misheld
  Ask <- BothAsk
  MaxRequests <- BothBound
  MaxSegment = 3
  MaxQueued = 1
  HighWater = 1
  Reliable = FALSE
  Faults = {"down", "host", "refuse", "lose"}
INVARIANTS PayloadIsWhole InFlightCounts
CHECK_DEADLOCK FALSE
