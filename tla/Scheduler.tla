----------------------------- MODULE Scheduler -----------------------------
(***************************************************************************)
(* The round-robin scheduler of the kernel, the context switch, and the    *)
(* interrupts that preempt both, on the one CPU of the machine.            *)
(*                                                                         *)
(* Every stack has a program counter pc[t]: where the code running on it   *)
(* is, or was when it was switched away: "fresh" for the frame prepared by *)
(* prepare_kernel_stack, "saved_on" or "saved_off" for one pushed by       *)
(* thread_switch, after the IF bit of the rflags in it.                    *)
(* An interrupt pushes pc[t] on below[t] and iretq pops it.  Only the      *)
(* stack named by cpu makes steps.  An action is a stretch of code that    *)
(* holds no point at which an interrupt could tell the difference.         *)
(*                                                                         *)
(* An operator Name_Defect is Name with a plausible mistake in the code;   *)
(* it is not part of the specification.                                    *)
(***************************************************************************)
EXTENDS Naturals, Sequences, Functions, LinkedQueue

CONSTANTS
  Threads,      \* threads other than the idle thread, by id
  UserThreads,  \* those made by Thread::new_user_thread
  Idle,         \* the idle thread, made by Scheduler::new
  Boot,         \* the boot code, which runs on no thread's stack
  Quantum,      \* timer ticks between two calls of yield_cpu (10 in pit.rs)
  MaxDepth      \* bound on interrupts nested on one stack (none in the code)

ASSUME SchedulerAssumption ==
  /\ UserThreads \subseteq Threads
  /\ Idle \notin Threads /\ Boot \notin Threads /\ Idle # Boot
  /\ Quantum \in Nat \ {0}
  /\ MaxDepth \in Nat

VARIABLES
  (* SchedulerState and the lock around it *)
  schedLock,    \* Scheduler.state's lock bit
  active,       \* active_thread
  ready,        \* ready_queue
  terminated,   \* terminated_threads
  initialized,
  (* the other two locks on the path of a switch *)
  allocLock,    \* ALLOCATOR's lock bit
  vecLock,      \* INT_VECTORS' lock bit
  (* the CPU *)
  cpu,          \* whose stack rsp points into
  intFlag,      \* interrupt flag of rflags
  rsp0,         \* whose kernel stack the TSS names
  time,         \* SYSTEM_TIME modulo Quantum
  (* the stacks *)
  pc, below,
  stack         \* "none" before it is allocated, "live", "freed"

vars == <<schedLock, active, ready, terminated, initialized, allocLock,
          vecLock, cpu, intFlag, rsp0, time, pc, below, stack>>

state   == <<active, ready, terminated, initialized>>
machine == <<cpu, intFlag, rsp0, time>>
frames  == <<below, stack>>

All == Threads \cup {Idle, Boot}

(* Places in the code where the context holds the scheduler lock. *)
Critical ==
  {"start_locked", "ready_locked", "tid_locked", "kill_locked",
   "exit_locked", "cleanup_locked", "yield_locked",
   "switch", "switch_on", "switch_off",
   "unlock_fresh", "unlock_on", "unlock_off"}
Switching == {"switch", "switch_on", "switch_off"}
Suspended == {"none", "fresh", "saved_on", "saved_off", "abandoned"}
InIsr == {"pit", "dev", "pit_trigger", "isr_drop"}
Popf == {"popf_fresh", "popf_on", "popf_off"}
PCs == Critical \cup Suspended \cup InIsr \cup Popf \cup
       {"boot", "start", "run", "heap", "cleanup", "yield", "guard_drop",
        "kickoff"}

TypeOK ==
  /\ schedLock \in BOOLEAN /\ allocLock \in BOOLEAN /\ vecLock \in BOOLEAN
  /\ initialized \in BOOLEAN /\ intFlag \in BOOLEAN
  /\ active \in All \ {Boot} /\ cpu \in All /\ rsp0 \in All
  /\ ready \in Seq(All \ {Boot}) /\ terminated \in Seq(Threads)
  /\ time \in 0 .. Quantum - 1
  /\ pc \in [All -> PCs] /\ below \in [All -> Seq(PCs)]
  /\ stack \in [All -> {"none", "live", "freed"}]
-----------------------------------------------------------------------------
(* boot.rs has enabled interrupts and demo_menu has made the scheduler,    *)
(* with the idle thread as active_thread.                                  *)
Init ==
  /\ schedLock = FALSE /\ allocLock = FALSE /\ vecLock = FALSE
  /\ active = Idle /\ ready = <<>> /\ terminated = <<>>
  /\ initialized = FALSE
  /\ cpu = Boot /\ intFlag = TRUE /\ rsp0 = Boot /\ time = 0
  /\ pc = [t \in All |-> CASE t = Boot -> "boot"
                           [] t = Idle -> "fresh"
                           [] OTHER -> "none"]
  /\ below = [t \in All |-> <<>>]
  /\ stack = [t \in All |-> IF t \in Threads THEN "none" ELSE "live"]

At(l) == pc[cpu] = l
Goto(l) == pc' = [pc EXCEPT ![cpu] = l]

(* Where a call of the scheduler returns to: the interrupt handler when it *)
(* was made in one, else the code of the boot, idle or ordinary thread.    *)
Caller_NoCleanup ==
  CASE below[cpu] # <<>> -> "isr_drop"
    [] below[cpu] = <<>> /\ cpu = Boot -> "start"
    [] below[cpu] = <<>> /\ cpu = Idle -> "yield"
    [] OTHER -> "run"

Caller ==
  CASE below[cpu] # <<>> -> "isr_drop"
    [] below[cpu] = <<>> /\ cpu = Boot -> "start"
    [] below[cpu] = <<>> /\ cpu = Idle -> "cleanup"
    [] OTHER -> "run"
-----------------------------------------------------------------------------
(* Interrupts: dispatch_interrupt, TimerISR::trigger and any other ISR.    *)

(* The CPU pushes the interrupted context on the stack it runs on. *)
Pushed(p, b) == <<p>> \o b

Interrupt(irq) ==
  /\ intFlag
  /\ Len(below[cpu]) < MaxDepth
  /\ intFlag' = FALSE
  /\ below' = [below EXCEPT ![cpu] = Pushed(pc[cpu], @)]
  /\ Goto(irq)
  /\ UNCHANGED <<schedLock, state, allocLock, vecLock, cpu, rsp0, time,
                 stack>>

(* INT_VECTORS.lock() of dispatch_interrupt; it spins while the bit is     *)
(* set.  The triggers under "dev" neither switch nor allocate: those of    *)
(* the network card, and of the keyboard once KEYBOARD_BUFFER is there.    *)
(* The key event that constructs that queue (key.rs:268) takes the heap's  *)
(* lock in the handler; it is the subject of module Once.                  *)
LockVectors ==
  /\ \/ At("pit") /\ Goto("pit_trigger")
     \/ At("dev") /\ Goto("isr_drop")
  /\ ~vecLock
  /\ vecLock' = TRUE
  /\ UNCHANGED <<schedLock, state, allocLock, machine, frames>>

TimerTrigger_KeepsVectors ==
  /\ At("pit_trigger")
  /\ time' = (time + 1) % Quantum
  /\ Goto(IF time = 0 THEN "yield" ELSE "isr_drop")
  /\ UNCHANGED <<schedLock, state, allocLock, vecLock, cpu, intFlag, rsp0,
                 frames>>

(* The spinner is drawn under try_lock with interrupts off: no effect here. *)
TimerTrigger ==
  /\ At("pit_trigger")
  /\ time' = (time + 1) % Quantum
  /\ \/ /\ time = 0
        /\ vecLock' = FALSE
        /\ Goto("yield")
     \/ /\ time # 0
        /\ Goto("isr_drop")
        /\ UNCHANGED vecLock
  /\ UNCHANGED <<schedLock, state, allocLock, cpu, intFlag, rsp0, frames>>

(* The guard of INT_VECTORS is dropped and iretq restores rflags, in which *)
(* IF is set because the interrupt was taken.                              *)
InterruptReturn ==
  /\ At("isr_drop")
  /\ vecLock' = FALSE
  /\ Goto(Head(below[cpu]))
  /\ below' = [below EXCEPT ![cpu] = Tail(@)]
  /\ intFlag' = TRUE
  /\ UNCHANGED <<schedLock, state, allocLock, cpu, rsp0, time, stack>>
-----------------------------------------------------------------------------
(* Any allocation or deallocation of thread code, under ALLOCATOR's lock. *)

HeapLock ==
  /\ At("run") /\ ~allocLock
  /\ allocLock' = TRUE
  /\ Goto("heap")
  /\ UNCHANGED <<schedLock, state, vecLock, machine, frames>>

HeapUnlock ==
  /\ At("heap")
  /\ allocLock' = FALSE
  /\ Goto("run")
  /\ UNCHANGED <<schedLock, state, vecLock, machine, frames>>
-----------------------------------------------------------------------------
(* Scheduler's methods.  lock() spins while the bit is set. *)

Lock(caller, locked) ==
  /\ At(caller) /\ ~schedLock
  /\ schedLock' = TRUE
  /\ Goto(locked)
  /\ UNCHANGED <<state, allocLock, vecLock, machine, frames>>

(* Thread ids come from a counter and are not used again: Threads bounds   *)
(* how many threads are ever made.                                         *)
Unborn == {n \in Threads : stack[n] = "none"}

LockState ==
  \/ Lock("boot", "ready_locked")
  \/ Lock("start", "start_locked")
  \/ Lock("run", "tid_locked")
  \/ Lock("run", "exit_locked")
  \/ cpu \notin UserThreads /\ Unborn # {} /\ Lock("run", "ready_locked")
  \/ cpu \notin UserThreads /\ Lock("run", "kill_locked")

(* schedule: thread_start loads the stack pointer and never returns. *)
Schedule ==
  /\ At("start_locked")
  /\ initialized' = TRUE
  /\ cpu' = active
  /\ pc' = [pc EXCEPT ![cpu] = "abandoned", ![active] = "unlock_fresh"]
  /\ UNCHANGED <<schedLock, active, ready, terminated, allocLock, vecLock,
                 intFlag, rsp0, time, frames>>

(* ready(n), with Thread::new_kernel_thread or new_user_thread just before *)
(* it: nobody else knows n until it is queued.                             *)
Ready(n) ==
  /\ At("ready_locked") /\ ~allocLock
  /\ stack[n] = "none"
  /\ stack' = [stack EXCEPT ![n] = "live"]
  /\ ready' = Append(ready, n)
  /\ schedLock' = FALSE
  /\ pc' = [pc EXCEPT ![cpu] = Caller, ![n] = "fresh"]
  /\ UNCHANGED <<active, terminated, initialized, allocLock, vecLock, machine,
                 below>>

(* get_active_tid *)
GetActiveTid ==
  /\ At("tid_locked")
  /\ schedLock' = FALSE
  /\ Goto(Caller)
  /\ UNCHANGED <<state, allocLock, vecLock, machine, frames>>

(* Dropping a Thread frees its stacks, and what was on them is lost. *)
Free(n) ==
  /\ stack' = [stack EXCEPT ![n] = "freed"]
  /\ below' = [below EXCEPT ![n] = <<>>]

(* kill(n): a queued thread is removed and dropped. *)
Kill(n) ==
  /\ At("kill_locked") /\ ~allocLock
  /\ schedLock' = FALSE
  /\ \/ /\ n \in Range(ready)
        /\ ready' = Unlink(ready, n)
        /\ Free(n)
        /\ pc' = [pc EXCEPT ![cpu] = Caller, ![n] = "none"]
     \/ /\ n \notin Range(ready)
        /\ Goto(Caller)
        /\ UNCHANGED <<ready, stack, below>>
  /\ UNCHANGED <<active, terminated, initialized, allocLock, vecLock, machine>>

Exit_DropsCurrent ==
  /\ At("exit_locked") /\ ~allocLock
  /\ ready # <<>>
  /\ active' = Head(ready)
  /\ ready' = Tail(ready)
  /\ Free(active)
  /\ Goto("switch")
  /\ UNCHANGED <<schedLock, terminated, initialized, allocLock, vecLock, machine>>

(* exit: dequeue().unwrap() needs a thread in the ready queue. *)
Exit ==
  /\ At("exit_locked") /\ ~allocLock
  /\ ready # <<>>
  /\ active' = Head(ready)
  /\ ready' = Tail(ready)
  /\ terminated' = Append(terminated, active)
  /\ Goto("switch")
  /\ UNCHANGED <<schedLock, initialized, allocLock, vecLock, machine, frames>>

(* cleanup_terminated_threads, called by the idle thread before yield_cpu. *)
CleanupTryLock ==
  /\ At("cleanup")
  /\ schedLock' = TRUE
  /\ Goto(IF schedLock THEN "yield" ELSE "cleanup_locked")
  /\ UNCHANGED <<state, allocLock, vecLock, machine, frames>>

CleanupDrop ==
  /\ At("cleanup_locked") /\ ~allocLock
  /\ terminated # <<>>
  /\ terminated' = Tail(terminated)
  /\ Free(Head(terminated))
  /\ pc' = [pc EXCEPT ![Head(terminated)] = "none"]
  /\ UNCHANGED <<schedLock, active, ready, initialized, allocLock, vecLock,
                 machine>>

CleanupReturn ==
  /\ At("cleanup_locked")
  /\ terminated = <<>>
  /\ schedLock' = FALSE
  /\ Goto("yield")
  /\ UNCHANGED <<state, allocLock, vecLock, machine, frames>>

YieldTryLock_Ignored ==
  /\ At("run") \/ At("yield")
  /\ schedLock' = TRUE
  /\ Goto("yield_locked")
  /\ UNCHANGED <<state, allocLock, vecLock, machine, frames>>

(* yield_cpu, called by threads, the idle thread and the timer's ISR *)
YieldTryLock ==
  /\ At("run") \/ At("yield")
  /\ schedLock' = TRUE
  /\ Goto(IF schedLock THEN Caller ELSE "yield_locked")
  /\ UNCHANGED <<state, allocLock, vecLock, machine, frames>>

CannotYield == ~initialized \/ allocLock \/ ready = <<>>

YieldRefuse ==
  /\ At("yield_locked") /\ CannotYield
  /\ schedLock' = FALSE
  /\ Goto(Caller)
  /\ UNCHANGED <<state, allocLock, vecLock, machine, frames>>

YieldRotate_AtFront ==
  /\ At("yield_locked") /\ ~CannotYield
  /\ active' = Head(ready)
  /\ ready' = <<active>> \o Tail(ready)
  /\ Goto("switch")
  /\ UNCHANGED <<schedLock, terminated, initialized, allocLock, vecLock,
                 machine, frames>>

YieldRotate ==
  /\ At("yield_locked") /\ ~CannotYield
  /\ active' = Head(ready)
  /\ ready' = Append(Tail(ready), active)
  /\ Goto("switch")
  /\ UNCHANGED <<schedLock, terminated, initialized, allocLock, vecLock,
                 machine, frames>>
-----------------------------------------------------------------------------
(* thread_switch, thread_start's tail and kickoff_kernel_thread. *)

(* The registers and rflags are pushed, the stack pointer saved, rsp0 set. *)
SwitchSave ==
  /\ At("switch")
  /\ rsp0' = active
  /\ Goto(IF intFlag THEN "switch_on" ELSE "switch_off")
  /\ UNCHANGED <<schedLock, state, allocLock, vecLock, cpu, intFlag, time,
                 frames>>

(* mov rsp, rsi *)
SwitchStack ==
  /\ At("switch_on") \/ At("switch_off")
  /\ cpu' = active
  /\ pc' = [pc EXCEPT
       ![cpu] = IF @ = "switch_on" THEN "saved_on" ELSE "saved_off",
       ![active] = CASE @ = "fresh" -> "unlock_fresh"
                     [] @ = "saved_on" -> "unlock_on"
                     [] OTHER -> "unlock_off"]
  /\ UNCHANGED <<schedLock, state, allocLock, vecLock, intFlag, rsp0, time,
                 frames>>

UnlockScheduler ==
  /\ \/ At("unlock_fresh") /\ Goto("popf_fresh")
     \/ At("unlock_on") /\ Goto("popf_on")
     \/ At("unlock_off") /\ Goto("popf_off")
  /\ schedLock' = FALSE
  /\ UNCHANGED <<state, allocLock, vecLock, machine, frames>>

PopFlags_Skipped ==
  /\ \/ At("popf_fresh") /\ Goto("kickoff")
     \/ (At("popf_on") \/ At("popf_off")) /\ Goto("guard_drop")
  /\ UNCHANGED <<schedLock, state, allocLock, vecLock, machine, frames>>

(* popfq, the other pops and ret; a prepared frame has IF = 0 *)
PopFlags ==
  /\ \/ At("popf_fresh") /\ Goto("kickoff") /\ intFlag' = FALSE
     \/ At("popf_on") /\ Goto("guard_drop") /\ intFlag' = TRUE
     \/ At("popf_off") /\ Goto("guard_drop") /\ intFlag' = FALSE
  /\ UNCHANGED <<schedLock, state, allocLock, vecLock, cpu, rsp0, time, frames>>

(* A resumed yield_cpu returns and drops its guard: a second unlock. *)
GuardDrop ==
  /\ At("guard_drop")
  /\ schedLock' = FALSE
  /\ Goto(Caller)
  /\ UNCHANGED <<state, allocLock, vecLock, machine, frames>>

Kickoff_NoEnable ==
  /\ At("kickoff")
  /\ rsp0' = cpu
  /\ Goto(Caller)
  /\ UNCHANGED <<schedLock, state, allocLock, vecLock, cpu, intFlag, time, frames>>

(* A kernel thread enables interrupts; a user thread's iretq loads IF = 1. *)
Kickoff ==
  /\ At("kickoff")
  /\ rsp0' = cpu
  /\ intFlag' = TRUE
  /\ Goto(Caller)
  /\ UNCHANGED <<schedLock, state, allocLock, vecLock, cpu, time, frames>>
-----------------------------------------------------------------------------
SwitchStep == SwitchSave \/ SwitchStack \/ UnlockScheduler
              \/ PopFlags \/ GuardDrop \/ Kickoff
SchedulerStep == LockState \/ Schedule \/ GetActiveTid \/ Exit
                 \/ (\E n \in Threads : Ready(n) \/ Kill(n))
                 \/ CleanupTryLock \/ CleanupDrop \/ CleanupReturn
                 \/ YieldTryLock \/ YieldRefuse \/ YieldRotate
IsrStep == LockVectors \/ TimerTrigger \/ InterruptReturn
(* A step of whatever the CPU is executing. *)
CpuStep == SwitchStep \/ SchedulerStep \/ IsrStep \/ HeapLock \/ HeapUnlock

Next == CpuStep \/ \E irq \in {"pit", "dev"} : Interrupt(irq)

Spec == Init /\ [][Next]_vars

(* Interrupts come at a finite rate, so a thread that gets the CPU again   *)
(* and again advances in its own code, not only in the handlers that       *)
(* interrupt it.  The timer is periodic and not synchronised with the      *)
(* program, so its ticks, those that end a quantum among them, cannot miss *)
(* a thread's own code for ever.                                           *)
Tick == At("run") /\ Interrupt("pit")
Fairness ==
  /\ WF_vars(CpuStep)
  /\ \A t \in All : SF_vars(cpu = t /\ below[t] = <<>> /\ CpuStep)
  /\ SF_vars(Tick)
  /\ SF_vars(time = 0 /\ Tick)

FairSpec == Spec /\ Fairness
-----------------------------------------------------------------------------
(* Properties *)

Holds(t, places) ==
  pc[t] \in places \/ \E i \in DOMAIN below[t] : below[t][i] \in places

(* Mutual exclusion of SchedulerState.  The lock is taken in one thread,   *)
(* released by unlock_scheduler in the next, and released once more when   *)
(* the guard of a resumed yield_cpu is dropped: none of these opens a      *)
(* critical section someone is still in, and none leaves the bit set.      *)
SchedulerExclusive ==
  /\ \A t \in All : Holds(t, Critical) => t = cpu /\ schedLock
  /\ schedLock => Holds(cpu, Critical)
  /\ pc[cpu] \in Critical => \A i \in DOMAIN below[cpu] : below[cpu][i] \notin Critical

(* Spinlock::lock() never has to spin on the scheduler, the heap or        *)
(* INT_VECTORS, in threads and in handlers that do not allocate: on one    *)
(* CPU the holder could not run, and yield_cpu refuses to switch to it, so *)
(* the first spin would be the last.  The one handler that allocates, on   *)
(* the first key event, is left out: it does spin if it meets a heap that  *)
(* the code it interrupted has locked (ConstructLock of module Once).      *)
NeverSpins ==
  /\ pc[cpu] \in {"boot", "start", "run"} => ~schedLock
  /\ pc[cpu] \in {"ready_locked", "kill_locked", "exit_locked",
                   "cleanup_locked", "run"} => ~allocLock
  /\ pc[cpu] \in {"pit", "dev"} => ~vecLock

(* The stack of a thread is freed (cleanup_terminated_threads, kill) only  *)
(* when the CPU has left it and nothing can switch back to it.             *)
NoUseAfterFree ==
  \A t \in {cpu, active} \cup Range(ready) \cup Range(terminated) :
    stack[t] = "live"

(* A thread is in one place of SchedulerState, once, and no thread that    *)
(* lives is in none.                                                       *)
OnePlace ==
  /\ IsInjective(ready) /\ IsInjective(terminated)
  /\ active \notin Range(ready) \cup Range(terminated)
  /\ Range(ready) \cap Range(terminated) = {}
  /\ \A t \in All \ {Boot} : stack[t] = "live" =>
       t \in {active} \cup Range(ready) \cup Range(terminated)

(* "The active thread" is the one that runs, for every caller of the       *)
(* scheduler: get_active_tid answers with the caller's own id, and yield   *)
(* and exit queue the caller's own Thread object.                          *)
ActiveRuns == cpu = Boot \/ Holds(cpu, Switching) \/ active = cpu

(* "The idle thread never exits, so there must be at least one thread in   *)
(* the queue" (scheduler.rs:105): unwrap in exit() does not panic.         *)
ExitFindsThread == pc[cpu] = "exit_locked" => ready # <<>>

(* When an interrupt or int 0x80 leaves ring 3, the CPU loads the kernel   *)
(* stack of the very thread it leaves.                                     *)
UserEntersOwnStack == cpu \in UserThreads /\ pc[cpu] = "run" => rsp0 = cpu

(* Thread code runs with interrupts enabled, handlers with interrupts off, *)
(* across every way to be switched away and back.                          *)
InterruptFlag ==
  /\ pc[cpu] \in {"run", "heap", "cleanup", "cleanup_locked"} => intFlag
  /\ pc[cpu] \in InIsr \/ (below[cpu] # <<>> /\ pc[cpu] = "guard_drop") => ~intFlag

(* The CPU changes stacks only while neither the heap nor INT_VECTORS is   *)
(* locked, so neither lock is ever held by a thread that does not run.     *)
SwitchHoldsNoLock == [][cpu' # cpu => ~allocLock /\ ~vecLock]_vars

(* Round robin: a queued thread gets the CPU, unless it is killed. *)
ReadyRuns == \A t \in Threads \cup {Idle} :
  t \in Range(ready) ~> cpu = t \/ stack[t] = "freed"

(* The idle thread frees every terminated thread. *)
TerminatedFreed == \A t \in Threads : t \in Range(terminated) ~> stack[t] = "freed"
=============================================================================
