SPECIFICATION Spec
CONSTANTS
  Keys <- MCKeys
  QueueCapacity = 1
  MaxStrokes = 3
  MaxMouse = 1
INVARIANTS EventsMatchKeys NoStuckModifier LedsShowLocks CharsFromPresses
CHECK_DEADLOCK FALSE
