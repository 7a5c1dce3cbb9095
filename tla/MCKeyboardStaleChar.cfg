SPECIFICATION Spec
CONSTANTS
  Keys <- MCKeys
  QueueCapacity = 1
  MaxStrokes = 3
  MaxMouse = 0
INVARIANT WaitsForCharacter
CHECK_DEADLOCK FALSE
