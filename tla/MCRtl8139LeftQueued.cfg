SPECIFICATION Spec
CONSTANTS
  Threads = {t1}
  Isr = Isr
  Descriptors = 2
  QueueCapacity = 2
  RingCapacity = 1
  MaxFrames = 3
  MaxPackets = 0
INVARIANT LeftQueuedOnlyIfBusy
CHECK_DEADLOCK FALSE
