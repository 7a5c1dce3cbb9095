SPECIFICATION DevicesSpec
CONSTANTS
  Frames <- MCFrames
  TooLarge <- MCTooLarge
  Capacity = 2
  None = None
  MaxDropped = 3
  RingSize = 32
  BufferSize = 39
  SlotSize = 7
  Lengths = {5, 12}
  Early = {TIMER}
  Lazy = {SCHEDULER, KEYBOARD_BUFFER}
  SCHEDULER = SCHEDULER
  Threads = {t1, t2}
  Boot = Boot
  Isr = Isr
  NoValue = NoValue
INVARIANTS
  Inv RingOK EarlyCellsSafe
PROPERTIES
  IsFifo OldestDelivered WrittenOnce
CHECK_DEADLOCK FALSE
