SPECIFICATION OnceSpec
CONSTANTS
  Early = {TIMER}
  Lazy = {SCHEDULER, KEYBOARD_BUFFER}
  SCHEDULER = SCHEDULER
  Threads = {t1}
  Boot = Boot
  Isr = Isr
  NoValue = NoValue
INVARIANT AccessIsSafe
CHECK_DEADLOCK FALSE
