SPECIFICATION Spec
CONSTANTS
  k1 = k1
  Key <- MCKey
  Size <- MCSize
  MaxSegment = 3
  MaxQueued = 2
  HighWater = 0
  Reliable = TRUE
  MaxWants = 3
INVARIANTS AnswersExact
PROPERTIES WantsAnswered
CHECK_DEADLOCK FALSE
