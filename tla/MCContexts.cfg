SPECIFICATION Spec
CONSTANTS
  KernelThreads = {demo}
  UserThreads = {user}
  Host = demo
  ping = ping
  pong = pong
  pang = pang
  Coroutines <- MCCoroutines
  Boot = boot
  FrameGap = 128
  MaxWords = 57
INVARIANTS
  RegistersKept SyscallAnswers OnOwnStack
PROPERTY SuspendedIntact
