SPECIFICATION FairSpec
CONSTANTS
  Threads = {demo, user}
  UserThreads = {user}
  Idle = idle
  Boot = boot
  Quantum = 2
  MaxDepth = 1
INVARIANTS
  IInv SchedulerExclusive NeverSpins NoUseAfterFree InterruptFlag
PROPERTIES
  IsRoundRobin ReadyRuns TerminatedFreed
