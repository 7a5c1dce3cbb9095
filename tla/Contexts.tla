------------------------------ MODULE Contexts ------------------------------
(***************************************************************************)
(* How the one CPU is shared out: the registers and the stack words that   *)
(* thread_switch, thread_start, thread_user_start (thread/thread.rs),      *)
(* coroutine_switch, coroutine_start (coroutine/coroutine.rs), the         *)
(* interrupt gates and dispatch_syscall (syscall/dispatcher.rs) save and   *)
(* load.  The words are those of the pushes and pops of the assembler      *)
(* routines, in their order; a row of pops, or of pushes, is one step.  An *)
(* interrupt between two pops works below the words that are still to be   *)
(* popped and restores the registers that were, so that it leaves what one *)
(* before or after the row leaves.                                         *)
(*                                                                         *)
(* A stack is a function from positions to words: position k is word       *)
(* length - k of the Vec, so 1 is the topmost word and a stack pointer is  *)
(* the number of words in use.  Words below the stack pointer are lost: an *)
(* interrupt may overwrite them at any time.                               *)
(*                                                                         *)
(* Which thread runs next is left open (module Scheduler), and so is what  *)
(* a flow of control (the code of a thread or of a coroutine) computes: it *)
(* puts a value of its own in every register.                              *)
(***************************************************************************)
EXTENDS Naturals, Sequences, SequencesExt

CONSTANTS
  KernelThreads, UserThreads,   \* the threads
  Host,                         \* the kernel thread that runs coroutine_demo
  Coroutines,                   \* its coroutines, in the order of set_next
  Boot,                         \* the stack the kernel is booted on
  FrameGap,                     \* words above the frame of switch_to_usermode
  MaxWords                      \* bound: words in use before an interrupt

Threads == KernelThreads \cup UserThreads
ASSUME ContextsAssumption ==
  /\ Host \in KernelThreads /\ KernelThreads \cap UserThreads = {}
  /\ Boot \notin Threads /\ Range(Coroutines) \cap Threads = {}
  /\ FrameGap \in Nat /\ MaxWords \in Nat

VARIABLES
  regs,       \* the registers of the CPU, rflags among them
  stk,        \* the stack rsp points into ...
  depth,      \* ... and how many words of it are in use
  pc,         \* the code that runs
  ring,       \* the privilege level
  rsp0,       \* the kernel stack in the task state segment
  run,        \* active_thread of the scheduler
  gone,       \* the threads that called exit()
  mem,        \* the words of every stack
  stackPtr,   \* stack_ptr of every thread and coroutine: a stack and a depth
  before,     \* the registers of a user thread at its last int 0x80
  keyEvent    \* the KeyEvent of usr_get_key_event on the user stack is filled
cpuVars == <<regs, stk, depth, pc, ring, rsp0>>
vars == <<regs, stk, depth, pc, ring, rsp0, run, gone, mem, stackPtr, before, keyEvent>>

(* The order in which thread_switch and coroutine_switch push, and in      *)
(* which they and the two start routines pop.                              *)
PushOrder == <<"r8", "r9", "r10", "r11", "r12", "r13", "r14", "r15",
               "rax", "rbx", "rcx", "rdx", "rsi", "rdi", "rbp", "rflags">>
PopOrder_Swapped == <<"rflags", "rbp", "rdi", "rsi", "rdx", "rcx", "rbx", "rax",
                      "r14", "r15", "r13", "r12", "r11", "r10", "r9", "r8">>
PopOrder == <<"rflags", "rbp", "rdi", "rsi", "rdx", "rcx", "rbx", "rax",
              "r15", "r14", "r13", "r12", "r11", "r10", "r9", "r8">>
Registers == Range(PushOrder)
General == Registers \ {"rflags"}
CalleeSaved == {"rbx", "rbp", "r12", "r13", "r14", "r15"}

(* Words.  All are triples, told apart by their first component. *)
Zero == <<"zero", Boot, "zero">>
Own(f, r) == <<"own", f, r>>
Self(f) == <<"self", f, "object">>
Code(l) == <<"code", Boot, l>>
Flags(on) == <<"rflags", Boot, on>>
Sp(s, d) == <<"rsp", s[2], <<s[1], d>>>>
Segment(x, level) == <<x, Boot, level>>
Number(i) == <<"number", Boot, i>>
Argument(f, x) == <<"argument", f, x>>
Result(f, what) == <<"result", f, what>>
Junk(r) == <<"junk", Boot, r>>

KernelStack(t) == <<"kernel", t>>
UserStack(t) == <<"user", t>>
CoStack(c) == <<"coroutine", c>>
Stacks == {<<"boot", Boot>>} \cup {KernelStack(t) : t \in Threads}
          \cup {UserStack(t) : t \in UserThreads} \cup {CoStack(c) : c \in Range(Coroutines)}
Flow == stk[2]

(* Memory after words are pushed on stack s, of which d words were in use. *)
Pushed(m, s, d, words) ==
  [m EXCEPT ![s] = [k \in 1 .. d |-> m[s][k]] \o words]
Saved(order) == [i \in DOMAIN order |-> regs[order[i]]]
(* The registers after pops in the given order from s, d words in use. *)
Popped(order, s, d) ==
  [r \in Registers |-> IF r \in Range(order)
                       THEN mem[s][d + 1 - CHOOSE i \in DOMAIN order : order[i] = r]
                       ELSE regs[r]]
IntOn == regs["rflags"] = Flags("on")
-----------------------------------------------------------------------------
(* new_kernel_thread, new_user_thread and Coroutine::new zero the stack    *)
(* and prepare it: prepare_kernel_stack and prepare_stack write the words  *)
(* at these positions and leave the stack pointer on the last of them.     *)
Prepared(f, kickoff) ==
  [k \in 1 .. 17 |-> CASE k = 1 -> Code(kickoff)
                       [] k = 15 -> Self(f)
                       [] k = 17 -> Flags("off")
                       [] OTHER -> Zero]

Unset == [r \in Registers |-> Zero]
Init ==
  /\ regs = [r \in Registers |-> IF r = "rflags" THEN Flags("on") ELSE Zero]
  /\ stk = <<"boot", Boot>> /\ depth = 0 /\ pc = "boot" /\ ring = 0
  /\ rsp0 = <<"boot", Boot>> /\ run = Boot /\ gone = {}
  /\ mem = [s \in Stacks |-> IF s[1] = "kernel"
                             THEN Prepared(s[2], "kickoff_kernel_thread") ELSE <<>>]
  /\ stackPtr = [f \in Threads \cup Range(Coroutines) |->
                   IF f \in Threads THEN <<KernelStack(f), 17>> ELSE <<CoStack(f), 0>>]
  /\ before = [t \in UserThreads |-> Unset]
  /\ keyEvent = [t \in UserThreads |-> FALSE]

(* Registers that are about to be loaded: only rflags still matters. *)
Dead(r) == [x \in Registers |-> IF x = "rflags" THEN r[x] ELSE Junk(x)]
(* Registers after a call, that keeps only the callee saved ones. *)
Clobbered(r) == [x \in Registers |->
  IF x \in CalleeSaved \cup {"rflags"} THEN r[x] ELSE Junk(x)]

(* schedule(): thread_start loads the context of the first thread. *)
ThreadStart(t) ==
  /\ pc = "boot"
  /\ pc' = "pop" /\ run' = t
  /\ stk' = stackPtr[t][1] /\ depth' = stackPtr[t][2]
  /\ regs' = Dead(regs)
  /\ UNCHANGED <<ring, rsp0, gone, mem, stackPtr, before, keyEvent>>

(* The pops and the ret at the end of all four routines. *)
LoadContext ==
  /\ pc = "pop"
  /\ regs' = Popped(PopOrder, stk, depth)
  /\ pc' = mem[stk][depth - 16][3]
  /\ depth' = depth - 17
  /\ mem' = [mem EXCEPT ![stk] = SubSeq(@, 1, depth')]
  /\ UNCHANGED <<stk, ring, rsp0, run, gone, stackPtr, before, keyEvent>>

(* Thread::switch to next, called by code that goes on at resume: the      *)
(* return address and the registers are pushed, the stack pointer saved,   *)
(* rsp0 set and the stack changed; unlock_scheduler clobbers registers.    *)
SwitchTo_KeepsRsp0(next, resume) ==
  LET r == [regs EXCEPT !["rdi"] = Self(run), !["rsi"] = Sp(stackPtr[next][1], stackPtr[next][2]),
                        !["rdx"] = Sp(KernelStack(next), 0)]
  IN /\ mem' = Pushed(mem, stk, depth,
                      <<Code(resume)>> \o [i \in DOMAIN PushOrder |-> r[PushOrder[i]]])
     /\ stackPtr' = [stackPtr EXCEPT ![run] = <<stk, depth + 17>>]
     /\ rsp0' = rsp0
     /\ stk' = stackPtr[next][1] /\ depth' = stackPtr[next][2]
     /\ regs' = Dead(r) /\ pc' = "pop" /\ run' = next
     /\ UNCHANGED <<ring, before, keyEvent>>
SwitchTo(next, resume) ==
  LET r == [regs EXCEPT !["rdi"] = Self(run), !["rsi"] = Sp(stackPtr[next][1], stackPtr[next][2]),
                        !["rdx"] = Sp(KernelStack(next), 0)]
  IN /\ mem' = Pushed(mem, stk, depth,
                      <<Code(resume)>> \o [i \in DOMAIN PushOrder |-> r[PushOrder[i]]])
     /\ stackPtr' = [stackPtr EXCEPT ![run] = <<stk, depth + 17>>]
     /\ rsp0' = KernelStack(next)
     /\ stk' = stackPtr[next][1] /\ depth' = stackPtr[next][2]
     /\ regs' = Dead(r) /\ pc' = "pop" /\ run' = next
     /\ UNCHANGED <<ring, before, keyEvent>>
(* yield_cpu and exit() find another thread; yield_cpu does nothing before *)
(* schedule().                                                             *)
Others == IF run = Boot THEN {} ELSE Threads \ (gone \cup {run})
Exit(next) == /\ SwitchTo(next, "exited") /\ gone' = gone \cup {run}

(* iretq with d words of stack s of memory m in use. *)
Iretq(m, s, d, r) ==
  LET sp == m[s][d - 3] IN
  /\ pc' = m[s][d][3] /\ ring' = m[s][d - 1][3]
  /\ regs' = [r EXCEPT !["rflags"] = m[s][d - 2]]
  /\ stk' = <<sp[3][1], sp[2]>> /\ depth' = sp[3][2]
  /\ mem' = [m EXCEPT ![s] = SubSeq(@, 1, d - 5)]

(* The words an interrupt pushes: from ring 3 on the stack in rsp0, else   *)
(* on the stack in use.                                                    *)
EntryStack == IF ring = 3 THEN rsp0 ELSE stk
EntryDepth == IF ring = 3 THEN 0 ELSE depth
Frame(r, resume) == <<Segment("ss", ring), Sp(stk, depth), r["rflags"],
                      Segment("cs", ring), Code(resume)>>
-----------------------------------------------------------------------------
(* A device interrupts.  The "x86-interrupt" wrapper saves the registers   *)
(* it uses, all of them here; the interrupt gate turns interrupts off.     *)
IsrSaved == SubSeq(PushOrder, 1, 15)
Interrupt ==
  /\ IntOn /\ EntryDepth <= MaxWords
  /\ mem' = Pushed(mem, EntryStack, EntryDepth, Frame(regs, pc) \o Saved(IsrSaved))
  /\ stk' = EntryStack /\ depth' = EntryDepth + 20
  /\ regs' = [r \in Registers |-> IF r = "rflags" THEN Flags("off") ELSE Junk(r)]
  /\ pc' = "isr" /\ ring' = 0
  /\ UNCHANGED <<rsp0, run, gone, stackPtr, before, keyEvent>>

(* The timer calls yield_cpu, every interrupt returns in the end. *)
IsrYield == /\ pc = "isr"
            /\ \E next \in Others : SwitchTo(next, "isr_end")
            /\ UNCHANGED gone
IsrReturn ==
  /\ pc \in {"isr", "isr_end"}
  /\ Iretq(mem, stk, depth - 15, Popped(Reverse(IsrSaved), stk, depth))
  /\ UNCHANGED <<rsp0, run, gone, stackPtr, before, keyEvent>>

(* A flow of control runs: every register holds what it put there. *)
Runs(f) == /\ regs' = [r \in Registers |-> IF r = "rflags" THEN Flags("on") ELSE Own(f, r)]
           /\ pc' = "code"

(* switch_to_usermode: an interrupt frame FrameGap words below the top of  *)
(* the kernel stack, with the thread itself under it.                      *)
UserFrame_RingZero(t) == <<Segment("ss", 0), Sp(UserStack(t), 1), Flags("on"), Segment("cs", 0),
                           Code("kickoff_user_thread"), Self(t)>>
UserFrame(t) == <<Segment("ss", 3), Sp(UserStack(t), 1), Flags("on"), Segment("cs", 3),
                  Code("kickoff_user_thread"), Self(t)>>
WithUserFrame(t) ==
  [mem EXCEPT ![KernelStack(t)] =
     [k \in 1 .. FrameGap + 5 |->
        IF k >= FrameGap THEN UserFrame(t)[k + 1 - FrameGap] ELSE Zero]]
(* thread_user_start, on memory m: pop rdi, then iretq to ring 3. *)
ThreadUserStart(t, m) ==
  Iretq(m, KernelStack(t), FrameGap + 4,
        [regs EXCEPT !["rdi"] = m[KernelStack(t)][FrameGap + 5]])

(* kickoff_kernel_thread of the thread in rdi. *)
KickoffKernelThread ==
  LET t == regs["rdi"][2] IN
  /\ pc = "kickoff_kernel_thread"
  /\ rsp0' = KernelStack(t)
  /\ \/ t \in KernelThreads /\ Runs(t) /\ UNCHANGED <<stk, depth, ring, mem>>
     \/ t \in UserThreads /\ ThreadUserStart(t, WithUserFrame(t))
  /\ UNCHANGED <<run, gone, stackPtr, before, keyEvent>>
(* kickoff_user_thread and Coroutine::kickoff run the entry function of    *)
(* the object in rdi, the latter after turning interrupts on.              *)
KickoffUserThread ==
  /\ pc = "kickoff_user_thread" /\ Runs(regs["rdi"][2])
  /\ UNCHANGED <<stk, depth, ring, rsp0, run, gone, mem, stackPtr, before, keyEvent>>
KickoffCoroutine ==
  /\ pc = "kickoff" /\ Runs(regs["rdi"][2])
  /\ UNCHANGED <<stk, depth, ring, rsp0, run, gone, mem, stackPtr, before, keyEvent>>
(* Code goes on after a call of the scheduler, of Coroutine::switch or of  *)
(* the kernel.                                                             *)
Resume ==
  /\ pc \in {"called", "returned"}
  /\ Runs(Flow)
  /\ before' = [t \in UserThreads |-> IF t = Flow THEN Unset ELSE before[t]]
  /\ keyEvent' = [t \in UserThreads |-> keyEvent[t] /\ t # Flow]
  /\ UNCHANGED <<stk, depth, ring, rsp0, run, gone, mem, stackPtr>>

(* A kernel thread yields, or its entry function returns. *)
InThread == pc = "code" /\ stk = KernelStack(run)
Yield == /\ InThread
         /\ \E next \in Others : SwitchTo(next, "called")
         /\ UNCHANGED gone
Return == InThread /\ \E next \in Others : Exit(next)

(* Coroutine::new, with prepare_stack. *)
PrepareStack(c) == Prepared(c, "kickoff")
NewCoroutine(c) == <<CoStack(c), Len(PrepareStack(c))>>
(* coroutine_demo: the coroutines are made, linked in a ring, and the      *)
(* first one is started.                                                   *)
CoroutineDemo ==
  /\ InThread /\ run = Host
  /\ mem' = [s \in Stacks |-> IF s[1] = "coroutine" THEN PrepareStack(s[2]) ELSE mem[s]]
  /\ stackPtr' = [f \in DOMAIN stackPtr |->
                    IF f \in Threads THEN stackPtr[f] ELSE NewCoroutine(f)]
  /\ stk' = stackPtr'[Coroutines[1]][1] /\ depth' = stackPtr'[Coroutines[1]][2]
  /\ regs' = Dead(regs)
  /\ pc' = "pop"
  /\ UNCHANGED <<ring, rsp0, run, gone, before, keyEvent>>

NextCoroutine(c) ==
  LET i == CHOOSE j \in DOMAIN Coroutines : Coroutines[j] = c
  IN Coroutines[(i % Len(Coroutines)) + 1]
(* Coroutine::switch. *)
CoroutineSwitch ==
  LET next == stackPtr[NextCoroutine(Flow)]
      r == [regs EXCEPT !["rdi"] = Self(Flow), !["rsi"] = Sp(next[1], next[2])]
  IN /\ pc = "code" /\ stk[1] = "coroutine"
     /\ mem' = Pushed(mem, stk, depth,
                      <<Code("called")>> \o [i \in DOMAIN PushOrder |-> r[PushOrder[i]]])
     /\ stackPtr' = [stackPtr EXCEPT ![Flow] = <<stk, depth + 17>>]
     /\ stk' = next[1] /\ depth' = next[2] /\ regs' = Dead(r) /\ pc' = "pop"
     /\ UNCHANGED <<ring, rsp0, run, gone, before, keyEvent>>
-----------------------------------------------------------------------------
(* System calls. *)
SyscallFunction == <<"HelloWorld", "ThreadYield", "ThreadWait", "ThreadExit",
                     "ThreadGetId", "GetSystemTime", "Print", "GetKeyEvent">>
SyscallTable_Swapped ==
  <<"sys_hello_world", "sys_thread_yield", "sys_thread_wait", "sys_thread_exit",
    "sys_get_system_time", "sys_thread_get_id", "sys_print", "sys_get_key_event">>
SyscallTable == <<"sys_hello_world", "sys_thread_yield", "sys_thread_wait", "sys_thread_exit",
                  "sys_thread_get_id", "sys_get_system_time", "sys_print", "sys_get_key_event">>
NumSyscalls == Len(SyscallFunction)
Discriminant(f) == (CHOOSE i \in DOMAIN SyscallFunction : SyscallFunction[i] = f) - 1

(* The arguments the wrappers usr_* pass. *)
Arguments(f) == CASE f \in {"ThreadWait", "GetKeyEvent"} -> <<"arg1">>
                  [] f = "Print" -> <<"arg1", "arg2">>
                  [] OTHER -> <<>>
(* syscall0, syscall1 and syscall2: the arguments go in rdi and rsi, and   *)
(* int 0x80 through a trap gate, which leaves interrupts on.               *)
Syscall(f) ==
  LET r == [regs EXCEPT
              !["rax"] = Number(Discriminant(f)),
              !["rdi"] = IF Len(Arguments(f)) > 0 THEN Argument(Flow, "arg1") ELSE @,
              !["rsi"] = IF Len(Arguments(f)) > 1 THEN Argument(Flow, "arg2") ELSE @]
  IN /\ pc = "code" /\ ring = 3
     /\ mem' = Pushed(mem, EntryStack, EntryDepth, Frame(r, "returned"))
     /\ stk' = EntryStack /\ depth' = EntryDepth + 5 /\ ring' = 0
     /\ regs' = r /\ pc' = "dispatch_syscall"
     /\ before' = [before EXCEPT ![Flow] = r]
     /\ keyEvent' = [keyEvent EXCEPT ![Flow] = FALSE]
     /\ UNCHANGED <<rsp0, run, gone, stackPtr>>

(* dispatch_syscall saves all registers but rax and calls the function. *)
SyscallPush == <<"r8", "r9", "r10", "r11", "r12", "r13", "r14", "r15",
                 "rbx", "rcx", "rdx", "rsi", "rdi", "rbp">>
SyscallPop == <<"rbp", "rdi", "rsi", "rdx", "rcx", "rbx",
                "r15", "r14", "r13", "r12", "r11", "r10", "r9", "r8">>
DispatchSyscall ==
  /\ pc = "dispatch_syscall" /\ regs["rax"][3] < NumSyscalls
  /\ mem' = Pushed(mem, stk, depth, Saved(SyscallPush) \o <<Code("restore")>>)
  /\ depth' = depth + 15
  /\ pc' = SyscallTable[regs["rax"][3] + 1]
  /\ UNCHANGED <<regs, stk, ring, rsp0, run, gone, stackPtr, before, keyEvent>>
(* ... and restores them when it returns. *)
SyscallReturn ==
  /\ pc = "restore"
  /\ Iretq(mem, stk, depth - 14, Popped(SyscallPop, stk, depth))
  /\ UNCHANGED <<rsp0, run, gone, stackPtr, before, keyEvent>>

(* A system call function returns to dispatch_syscall. *)
Returns(value) ==
  /\ regs' = [Clobbered(regs) EXCEPT !["rax"] = value]
  /\ pc' = mem[stk][depth][3] /\ depth' = depth - 1
  /\ mem' = [mem EXCEPT ![stk] = SubSeq(@, 1, depth')]
  /\ UNCHANGED <<stk, ring, rsp0, run, gone, stackPtr, before>>

(* The functions.  yield_cpu may also find the scheduler locked and return *)
(* at once; pit::wait yields until the time is over.                       *)
SysThreadYield ==
  /\ pc = "sys_thread_yield"
  /\ \E next \in Others : SwitchTo(next, "sys_end")
  /\ UNCHANGED gone
Wait ==
  /\ pc = "sys_thread_wait"
  /\ \E next \in Others : SwitchTo(next, "sys_thread_wait")
  /\ UNCHANGED gone
SysThreadExit == pc = "sys_thread_exit" /\ \E next \in Others : Exit(next)
SysEnd ==
  /\ pc \in {"sys_thread_yield", "sys_thread_wait", "sys_end"}
  /\ Returns(Junk("rax")) /\ UNCHANGED keyEvent
SysHelloWorld == pc = "sys_hello_world" /\ Returns(Junk("rax")) /\ UNCHANGED keyEvent
SysPrint == pc = "sys_print" /\ Returns(Junk("rax")) /\ UNCHANGED keyEvent
SysThreadGetId == pc = "sys_thread_get_id" /\ Returns(Result(run, "id")) /\ UNCHANGED keyEvent
SysGetSystemTime ==
  pc = "sys_get_system_time" /\ Returns(Result(Boot, "time")) /\ UNCHANGED keyEvent
(* The key event is written through the pointer in rdi. *)
SysGetKeyEvent ==
  /\ pc = "sys_get_key_event"
  /\ \/ Returns(Result(Boot, "none")) /\ UNCHANGED keyEvent
     \/ /\ Returns(Result(Boot, "event"))
        /\ keyEvent' = [keyEvent EXCEPT ![regs["rdi"][2]] = TRUE]

UserCode == \E f \in Range(SyscallFunction) : Syscall(f)
SystemCall ==
  \/ DispatchSyscall \/ SyscallReturn \/ SysThreadYield \/ Wait \/ SysThreadExit \/ SysEnd
  \/ SysHelloWorld \/ SysPrint \/ SysThreadGetId \/ SysGetSystemTime \/ SysGetKeyEvent
Next ==
  \/ \E t \in KernelThreads : ThreadStart(t)
  \/ LoadContext \/ KickoffKernelThread \/ KickoffUserThread \/ KickoffCoroutine \/ Resume
  \/ Yield \/ Return \/ CoroutineDemo \/ CoroutineSwitch
  \/ Interrupt \/ IsrYield \/ IsrReturn
  \/ UserCode \/ SystemCall
Spec == Init /\ [][Next]_vars
-----------------------------------------------------------------------------
(* Properties *)

TypeOK ==
  /\ DOMAIN regs = Registers /\ stk \in Stacks /\ depth \in Nat
  /\ ring \in {0, 3} /\ rsp0 \in Stacks /\ run \in Threads \cup {Boot}
  /\ gone \subseteq Threads /\ DOMAIN mem = Stacks
  /\ \A t \in UserThreads : keyEvent[t] \in BOOLEAN

(* A flow of control that runs its own code finds every register as it     *)
(* left it, however often it was interrupted and whatever ran in between;  *)
(* after a call of yield_cpu or Coroutine::switch it finds the callee      *)
(* saved ones.  Interrupts are on.  (The variables have their types.)      *)
RegistersKept ==
  /\ TypeOK
  /\ pc = "code" => \A r \in General : regs[r] = Own(Flow, r)
  /\ pc = "called" => \A r \in CalleeSaved : regs[r] = Own(Flow, r)
  /\ pc \in {"code", "called", "returned"} => IntOn

(* The wrappers of user_api.rs declare no clobbered register: int 0x80     *)
(* returns with every register but rax unchanged and the result of the     *)
(* function asked for, for the thread that asked, in rax.                  *)
SyscallAnswers ==
  LET f == SyscallFunction[before[Flow]["rax"][3] + 1] IN
  pc = "returned" =>
    /\ \A r \in Registers \ {"rax"} : regs[r] = before[Flow][r]
    /\ f = "ThreadGetId" => regs["rax"] = Result(Flow, "id")
    /\ f = "GetSystemTime" => regs["rax"] = Result(Boot, "time")
    /\ f = "GetKeyEvent" => \/ regs["rax"] = Result(Boot, "none") /\ ~keyEvent[Flow]
                            \/ regs["rax"] = Result(Boot, "event") /\ keyEvent[Flow]
    /\ f # "ThreadExit"

(* Code runs at its own privilege level, at the top of its own stack, for  *)
(* the active thread: user code in ring 3 on the user stack, with rsp0 on  *)
(* its own kernel stack, everything else in ring 0.  It starts with the    *)
(* object it belongs to as argument, and kernel code with interrupts off.  *)
OnOwnStack ==
  /\ pc \in {"code", "called", "returned"} =>
       \/ ring = 0 /\ depth = 0 /\ stk = KernelStack(run) /\ run \in KernelThreads
       \/ ring = 0 /\ depth = 0 /\ stk[1] = "coroutine" /\ run = Host
       \/ ring = 3 /\ depth = 1 /\ stk = UserStack(run) /\ rsp0 = KernelStack(run)
  /\ stk[1] = "user" <=> ring = 3
  /\ pc \in {"kickoff_kernel_thread", "kickoff", "kickoff_user_thread"} =>
       regs["rdi"] = Self(Flow)
  /\ pc \in {"kickoff_kernel_thread", "kickoff"} => ~IntOn /\ depth = 0
  /\ pc = "dispatch_syscall" \/ pc \in Range(SyscallTable) => stk = KernelStack(run)

(* What a suspended thread or coroutine has on its stack, up to its saved  *)
(* stack pointer, stays as it is until it is loaded again.                 *)
Suspended == {f \in (Threads \ (gone \cup {run})) \cup Range(Coroutines) :
                stackPtr[f][1] # stk}
SuspendedIntact ==
  [][\A f \in Suspended \cap Suspended' :
       stackPtr'[f] = stackPtr[f] =>
         LET s == stackPtr[f][1] IN
         \A k \in 1 .. stackPtr[f][2] : k \in DOMAIN mem'[s] /\ mem'[s][k] = mem[s][k]]_vars
=============================================================================
