SPECIFICATION Spec
CONSTANTS
  MapKeys <- SmallKeys
  Values <- SmallValues
  Default = "made"
  MaxIndex = 9
CHECK_DEADLOCK FALSE
INVARIANTS
  WalkFills
  NegativeKeyKeepsAhead
  LoopInv
PROPERTIES
  WalkStops
