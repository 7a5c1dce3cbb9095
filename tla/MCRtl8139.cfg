SPECIFICATION Spec
CONSTANTS
  Threads = {t1, t2}
  Isr = Isr
  Descriptors = 2
  QueueCapacity = 1
  RingCapacity = 2
  MaxFrames = 3
  MaxPackets = 3
INVARIANTS TxOrder RxAccounted
PROPERTY NoOverwrite
CHECK_DEADLOCK FALSE
