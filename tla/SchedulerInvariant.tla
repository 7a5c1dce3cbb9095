------------------------- MODULE SchedulerInvariant -------------------------
(***************************************************************************)
(* The inductive invariant behind the safety properties of Scheduler, and  *)
(* the proof that the steps within one stack keep it: taking and releasing *)
(* locks, every other step of a context switch than the change of stacks,  *)
(* and the entry and the return of interrupts.                             *)
(***************************************************************************)
EXTENDS Scheduler, TLAPS

(* Where the code of a thread, the idle thread or the boot code can be     *)
(* when no interrupt is being handled below it.                            *)
BootOnly == {"boot", "start", "start_locked"}
IdleOnly == {"cleanup", "cleanup_locked"}
ThreadOnly == {"run", "heap", "tid_locked", "kill_locked", "exit_locked"}
Code == BootOnly \cup IdleOnly \cup ThreadOnly \cup {"ready_locked"}
YieldCode == {"yield", "yield_locked", "guard_drop", "switch"}
OnFrames == {"switch_on", "saved_on", "unlock_on", "popf_on"}
OffFrames == {"switch_off", "saved_off", "unlock_off", "popf_off"}
FreshFrames == {"none", "fresh", "unlock_fresh", "popf_fresh", "kickoff",
                "abandoned"}
Window == {"unlock_off", "popf_off"}

(* Labels at which IF may be set, those below which there is no interrupt  *)
(* frame, and those below which there is one.                              *)
Interruptible == Code \cup YieldCode \cup Window \cup
  {"switch_on", "unlock_on", "popf_on", "unlock_fresh", "popf_fresh"}
Bottom == Code \cup OnFrames \cup FreshFrames
Nested == InIsr \cup OffFrames

(* The shape of one stack: only its last frame is code that was not itself *)
(* entered from an interrupt, the others are in the window between         *)
(* unlock_scheduler and popfq of an interrupted context switch.            *)
StackShape(p, b) ==
  /\ \A i \in 1 .. Len(b) : b[i] \in Interruptible
  /\ \A i \in 1 .. Len(b) : b[i] \in Window <=> i < Len(b)
  /\ p \in Bottom => b = <<>>
  /\ p \in Nested => b # <<>>

(* Which code can be on the stack of t. *)
Owner(t, l) ==
  /\ l \in BootOnly => t = Boot
  /\ l \in IdleOnly => t = Idle
  /\ l \in ThreadOnly => t \in Threads
  /\ l = "ready_locked" => t # Idle
  /\ t = Boot => l \in BootOnly \cup InIsr \cup
                      {"ready_locked", "yield", "yield_locked", "abandoned"}

Shapes ==
  /\ \A t \in All : StackShape(pc[t], below[t]) /\ Owner(t, pc[t])
  /\ \A t \in All : \A i \in 1 .. Len(below[t]) : Owner(t, below[t][i])

(* A stack is suspended exactly when the CPU is not on it. *)
OneRuns == \A t \in All : pc[t] \in Suspended <=> t # cpu

(* No lock is held by an interrupted frame other than the topmost one of   *)
(* the running stack.                                                      *)
Quiet == \A t \in All : \A i \in 1 .. Len(below[t]) :
  below[t][i] \in Critical \cup {"heap"} => t = cpu /\ i = 1

(* The locks are held at most one interrupt frame below the running code. *)
Top == IF below[cpu] = <<>> THEN pc[cpu] ELSE below[cpu][1]
LocksHeld ==
  /\ schedLock <=> pc[cpu] \in Critical \/ Top \in Critical
  /\ allocLock <=> pc[cpu] = "heap" \/ Top = "heap"
  /\ Top \in Critical /\ below[cpu] # <<>> => pc[cpu] \in InIsr \cup {"yield"}
  /\ Top = "heap" /\ below[cpu] # <<>> =>
       pc[cpu] \in InIsr \cup {"yield", "yield_locked"}
  /\ vecLock => pc[cpu] \in {"pit_trigger", "isr_drop"}

Flags ==
  /\ pc[cpu] \in Code \cup {"switch_on"} => intFlag
  /\ pc[cpu] \in YieldCode => (intFlag <=> below[cpu] = <<>>)
  /\ pc[cpu] \in InIsr \cup {"switch_off", "kickoff"} => ~intFlag

(* active_thread runs except between the assignment to it and the change   *)
(* of stacks; then it is suspended and the CPU is still on the old stack.  *)
Moving == pc[cpu] \in Switching \/ Top \in Switching
ActiveOK ==
  /\ cpu = Boot <=> ~initialized
  /\ cpu = Boot => active = Idle /\ pc[Idle] = "fresh"
  /\ cpu # Boot => (Moving <=> active # cpu)
  /\ pc[cpu] \in {"switch_on", "switch_off"} \/ Top \in {"switch_on"} =>
       rsp0 = active
  /\ cpu \in Threads /\ ~Moving => rsp0 = cpu

Queues ==
  /\ OnePlace
  /\ Idle \in {active} \cup Range(ready)
  /\ \A t \in {active} \cup Range(ready) \cup Range(terminated) :
       /\ stack[t] = "live"
       /\ t # cpu => pc[t] \in {"fresh", "saved_on", "saved_off"}
  /\ stack[Boot] = "live" /\ stack[cpu] = "live"
  /\ \A t \in All : stack[t] # "live" => pc[t] = "none"

(* The inductive invariant. *)
IInv == /\ TypeOK /\ Shapes /\ Quiet /\ OneRuns
        /\ LocksHeld /\ Flags /\ ActiveOK /\ Queues
-----------------------------------------------------------------------------
(* Sequences *)

LEMMA NonEmpty ==
  ASSUME NEW S
  PROVE  /\ <<>> \in Seq(S) /\ Len(<<>>) = 0
         /\ \A q \in Seq(S) : q # <<>> => Len(q) \in Nat \ {0}
OBVIOUS

LEMMA SeqDomain ==
  ASSUME NEW S, NEW q \in Seq(S)
  PROVE  Len(q) \in Nat /\ DOMAIN q = 1 .. Len(q) /\ \A i \in 1 .. Len(q) : q[i] \in S
OBVIOUS

LEMMA SeqRange ==
  ASSUME NEW S, NEW q \in Seq(S)
  PROVE  Range(q) \subseteq S
BY DEF Range

LEMMA SameSeq ==
  ASSUME NEW S, NEW p \in Seq(S), NEW q \in Seq(S),
         Len(p) = Len(q), \A i \in 1 .. Len(p) : p[i] = q[i]
  PROVE  p = q
OBVIOUS

LEMMA Appended ==
  ASSUME NEW S, NEW q \in Seq(S), NEW e \in S
  PROVE  /\ Append(q, e) \in Seq(S) /\ Len(Append(q, e)) = Len(q) + 1
         /\ \A i \in 1 .. Len(q) : Append(q, e)[i] = q[i]
         /\ Append(q, e)[Len(q) + 1] = e
OBVIOUS

LEMMA HeadAndTail ==
  ASSUME NEW S, NEW q \in Seq(S), q # <<>>
  PROVE  /\ Head(q) \in S /\ Head(q) = q[1]
         /\ Tail(q) \in Seq(S) /\ Len(Tail(q)) = Len(q) - 1
         /\ \A i \in 1 .. Len(Tail(q)) : Tail(q)[i] = q[i + 1]
OBVIOUS

LEMMA Joined ==
  ASSUME NEW S, NEW p \in Seq(S), NEW q \in Seq(S)
  PROVE  /\ p \o q \in Seq(S) /\ Len(p \o q) = Len(p) + Len(q)
         /\ \A i \in 1 .. Len(p) + Len(q) :
              (p \o q)[i] = IF i <= Len(p) THEN p[i] ELSE q[i - Len(p)]
OBVIOUS

LEMMA FrontOf ==
  ASSUME NEW S, NEW q \in Seq(S), NEW n \in 0 .. Len(q)
  PROVE  /\ SubSeq(q, 1, n) \in Seq(S) /\ Len(SubSeq(q, 1, n)) = n
         /\ \A i \in 1 .. n : SubSeq(q, 1, n)[i] = q[i]
OBVIOUS

LEMMA RestOf ==
  ASSUME NEW S, NEW q \in Seq(S), NEW n \in 1 .. Len(q)
  PROVE  /\ SubSeq(q, n + 1, Len(q)) \in Seq(S)
         /\ Len(SubSeq(q, n + 1, Len(q))) = Len(q) - n
         /\ \A i \in 1 .. Len(q) - n : SubSeq(q, n + 1, Len(q))[i] = q[n + i]
OBVIOUS
-----------------------------------------------------------------------------
USE SchedulerAssumption

LEMMA InitIInv == Init => IInv
<1> SUFFICES ASSUME Init PROVE IInv
  OBVIOUS
<1>1. TypeOK
  <2>1. pc \in [All -> PCs] /\ below \in [All -> Seq(PCs)]
    BY DEF Init, All, PCs, Suspended
  <2>2. time \in 0 .. Quantum - 1
    BY DEF Init
  <2>3. ready \in Seq(All \ {Boot}) /\ terminated \in Seq(Threads)
    BY DEF Init
  <2>4. active \in All \ {Boot} /\ cpu \in All /\ rsp0 \in All
    BY DEF Init, All
  <2>5. stack \in [All -> {"none", "live", "freed"}]
    BY DEF Init
  <2> QED BY ZenonT(30), <2>1, <2>2, <2>3, <2>4, <2>5 DEF Init, TypeOK
<1>2. Shapes /\ Quiet
  BY DEF Init, Shapes, Quiet, StackShape, Owner, All, Bottom, Nested, Code,
     BootOnly, IdleOnly, ThreadOnly, OnFrames, OffFrames, FreshFrames, InIsr
<1>3. OneRuns
  BY DEF Init, OneRuns, Suspended, All
<1>4. LocksHeld /\ Flags /\ ActiveOK
  BY DEF Init, LocksHeld, Flags, ActiveOK, Top, Moving, Critical, Switching,
     All, Code, BootOnly, YieldCode, InIsr
<1>5. Queues
  BY DEF Init, Queues, OnePlace, IsInjective, Range, All
<1> QED BY <1>1, <1>2, <1>3, <1>4, <1>5 DEF IInv

(* A step that only moves the program counter of the running stack keeps   *)
(* the shape of all stacks and the queues.                                 *)
LEMMA GotoStep ==
  ASSUME IInv, NEW l \in PCs \ Suspended, Goto(l),
         UNCHANGED <<state, cpu, frames>>,
         StackShape(l, below[cpu]), Owner(cpu, l)
  PROVE  /\ Shapes' /\ Quiet' /\ OneRuns' /\ Queues'
         /\ pc' \in [All -> PCs] /\ pc'[cpu] = l
         /\ \A t \in All \ {cpu} : pc'[t] = pc[t]
<1>1. /\ pc' \in [All -> PCs] /\ pc'[cpu] = l
      /\ \A t \in All \ {cpu} : pc'[t] = pc[t]
  BY DEF IInv, TypeOK, Goto
<1>2. UNCHANGED <<active, ready, terminated, initialized, cpu, below, stack>>
  BY DEF state, frames
<1>3. Shapes'
  BY <1>1, <1>2 DEF IInv, Shapes, StackShape
<1>4. Quiet'
  BY <1>2 DEF IInv, Quiet
<1>5. OneRuns'
  BY <1>1, <1>2 DEF IInv, OneRuns
<1>6. Queues'
  <2>1. OnePlace'
    BY <1>2 DEF IInv, Queues, OnePlace
  <2>2. cpu \in All /\ stack[cpu] = "live"
    BY DEF IInv, TypeOK, Queues
  <2>3. {active} \cup Range(ready) \cup Range(terminated) \subseteq All
    BY SeqRange DEF IInv, TypeOK, All
  <2> QED BY <1>1, <1>2, <2>1, <2>2, <2>3 DEF IInv, Queues
<1> QED BY <1>1, <1>3, <1>4, <1>5, <1>6

(* What the invariant says of the running stack alone. *)
LEMMA Running ==
  ASSUME IInv
  PROVE  /\ cpu \in All /\ pc[cpu] \in PCs \ Suspended
         /\ below[cpu] \in Seq(PCs)
         /\ StackShape(pc[cpu], below[cpu]) /\ Owner(cpu, pc[cpu])
BY DEF IInv, TypeOK, Shapes, OneRuns

LEMMA HeapLockIInv == IInv /\ HeapLock => IInv'
<1> SUFFICES ASSUME IInv, HeapLock PROVE IInv'
  OBVIOUS
<1>1. /\ StackShape("heap", below[cpu]) /\ Owner(cpu, "heap")
      /\ below[cpu] = <<>> /\ cpu \in Threads
      /\ UNCHANGED <<state, machine, frames>>
  BY Running DEF HeapLock, At, StackShape, Owner, Bottom, Nested, Code,
     BootOnly, IdleOnly, ThreadOnly, InIsr, OffFrames
<1>2. /\ Shapes' /\ Quiet' /\ OneRuns' /\ Queues'
      /\ pc' \in [All -> PCs] /\ pc'[cpu] = "heap"
      /\ \A t \in All \ {cpu} : pc'[t] = pc[t]
  BY <1>1, GotoStep DEF HeapLock, PCs, Suspended, Critical, InIsr, Popf, machine
<1>3. TypeOK'
  BY <1>1, <1>2 DEF IInv, TypeOK, HeapLock, state, machine, frames
<1>4. LocksHeld' /\ Flags' /\ ActiveOK'
  BY <1>1, <1>2 DEF IInv, TypeOK, LocksHeld, Flags, ActiveOK, Moving, Top, HeapLock, At,
     state, machine, frames, Critical, Switching, InIsr, Code, BootOnly, IdleOnly, ThreadOnly,
     YieldCode, All
<1> QED BY <1>2, <1>3, <1>4 DEF IInv

LEMMA HeapUnlockIInv == IInv /\ HeapUnlock => IInv'
<1> SUFFICES ASSUME IInv, HeapUnlock PROVE IInv'
  OBVIOUS
<1>1. /\ StackShape("run", below[cpu]) /\ Owner(cpu, "run")
      /\ below[cpu] = <<>> /\ cpu \in Threads
      /\ UNCHANGED <<state, machine, frames>>
  BY ZenonT(30), Running DEF HeapUnlock, At, StackShape, Owner, Bottom, Nested, Code,
     BootOnly, IdleOnly, ThreadOnly, InIsr, OffFrames
<1>2. /\ Shapes' /\ Quiet' /\ OneRuns' /\ Queues'
      /\ pc' \in [All -> PCs] /\ pc'[cpu] = "run"
      /\ \A t \in All \ {cpu} : pc'[t] = pc[t]
  BY <1>1, GotoStep DEF HeapUnlock, PCs, Suspended, machine
<1>3. TypeOK'
  BY ZenonT(30), <1>1, <1>2 DEF IInv, TypeOK, HeapUnlock, state, machine, frames
<1>4. LocksHeld' /\ Flags' /\ ActiveOK'
  BY <1>1, <1>2 DEF IInv, TypeOK, LocksHeld, Flags, ActiveOK, Moving, Top,
     HeapUnlock, At, state, machine, frames, Critical, Switching, InIsr, Code,
     BootOnly, IdleOnly, ThreadOnly, YieldCode, All
<1> QED BY <1>2, <1>3, <1>4 DEF IInv

LEMMA LockVectorsIInv == IInv /\ LockVectors => IInv'
<1> SUFFICES ASSUME IInv, LockVectors PROVE IInv'
  OBVIOUS
<1>1. PICK l \in {"pit_trigger", "isr_drop"} :
        /\ Goto(l) /\ pc[cpu] \in {"pit", "dev"}
        /\ UNCHANGED <<schedLock, state, allocLock, machine, frames>>
        /\ vecLock' \in BOOLEAN
  BY DEF LockVectors, At
<1>2. StackShape(l, below[cpu]) /\ Owner(cpu, l) /\ below[cpu] # <<>>
  BY Running, <1>1 DEF StackShape, Owner, Bottom, Nested, Code, BootOnly,
     IdleOnly, ThreadOnly, OnFrames, FreshFrames, InIsr
<1>3. /\ Shapes' /\ Quiet' /\ OneRuns' /\ Queues'
      /\ pc' \in [All -> PCs] /\ pc'[cpu] = l
      /\ \A t \in All \ {cpu} : pc'[t] = pc[t]
  BY <1>1, <1>2, GotoStep DEF PCs, InIsr, Suspended, machine
<1>4. TypeOK'
  BY <1>1, <1>3 DEF IInv, TypeOK, state, machine, frames
<1>5. LocksHeld' /\ Flags' /\ ActiveOK'
  <2>1. LocksHeld'
    BY <1>1, <1>2, <1>3 DEF IInv, LocksHeld, Top, state, machine, frames, Critical, InIsr
  <2>2. Flags'
    BY <1>1, <1>2, <1>3 DEF IInv, Flags, state, machine, frames, InIsr, Code,
       BootOnly, IdleOnly, ThreadOnly, YieldCode
  <2>3. ActiveOK'
    BY <1>1, <1>2, <1>3 DEF IInv, TypeOK, ActiveOK, Moving, Top, state, machine, frames,
       Switching, InIsr, All
  <2> QED BY <2>1, <2>2, <2>3
<1> QED BY <1>3, <1>4, <1>5 DEF IInv

(* What a call of the scheduler returns to. *)
LEMMA CallerOK ==
  ASSUME IInv
  PROVE  /\ Caller \in {"isr_drop", "start", "cleanup", "run"}
         /\ Caller = "isr_drop" <=> below[cpu] # <<>>
         /\ StackShape(Caller, below[cpu]) /\ Owner(cpu, Caller)
BY Running DEF Caller, StackShape, Owner, Bottom, Nested, Code, BootOnly,
   IdleOnly, ThreadOnly, OnFrames, OffFrames, FreshFrames, InIsr, All

LEMMA TimerTriggerIInv == IInv /\ TimerTrigger => IInv'
<1> SUFFICES ASSUME IInv, TimerTrigger PROVE IInv'
  OBVIOUS
<1>1. PICK l \in {"yield", "isr_drop"} :
        /\ Goto(l)
        /\ pc[cpu] = "pit_trigger"
        /\ UNCHANGED <<schedLock, state, allocLock, cpu, intFlag, rsp0, frames>>
        /\ vecLock' \in BOOLEAN /\ time' = (time + 1) % Quantum
        /\ l = "yield" => ~vecLock'
  BY ZenonT(30) DEF TimerTrigger, At, IInv, TypeOK
<1>2. StackShape(l, below[cpu]) /\ Owner(cpu, l) /\ below[cpu] # <<>>
  BY Running, <1>1 DEF StackShape, Owner, Bottom, Nested, Code, BootOnly,
     IdleOnly, ThreadOnly, OnFrames, OffFrames, FreshFrames, InIsr, All
<1>3. /\ Shapes' /\ Quiet' /\ OneRuns' /\ Queues'
      /\ pc' \in [All -> PCs] /\ pc'[cpu] = l
      /\ \A t \in All \ {cpu} : pc'[t] = pc[t]
  BY <1>1, <1>2, GotoStep DEF PCs, InIsr, Popf, Critical, Suspended
<1>4. TypeOK'
  <2>1. time' \in 0 .. Quantum - 1
    BY <1>1 DEF IInv, TypeOK
  <2> QED BY <1>1, <1>3, <2>1 DEF IInv, TypeOK, state, frames
<1>5. LocksHeld' /\ Flags' /\ ActiveOK'
  <2>1. LocksHeld'
    BY <1>1, <1>2, <1>3 DEF IInv, LocksHeld, Top, state, frames, Critical, InIsr
  <2>2. Flags'
    BY <1>1, <1>2, <1>3 DEF IInv, Flags, state, frames, InIsr, Code,
       BootOnly, IdleOnly, ThreadOnly, YieldCode
  <2>3. ActiveOK'
    BY <1>1, <1>2, <1>3 DEF IInv, TypeOK, ActiveOK, Moving, Top, state, frames,
       Switching, InIsr, All
  <2> QED BY <2>1, <2>2, <2>3
<1> QED BY <1>3, <1>4, <1>5 DEF IInv

LEMMA GetActiveTidIInv == IInv /\ GetActiveTid => IInv'
<1> SUFFICES ASSUME IInv, GetActiveTid PROVE IInv'
  OBVIOUS
<1>1. PICK l \in {"isr_drop", "start", "cleanup", "run"} :
        /\ Goto(l)
        /\ pc[cpu] = "tid_locked" /\ l = Caller
        /\ UNCHANGED <<state, allocLock, vecLock, machine, frames>>
        /\ schedLock' = FALSE
  BY CallerOK DEF GetActiveTid, At
<1>2. StackShape(l, below[cpu]) /\ Owner(cpu, l) /\ l # "isr_drop"
      /\ below[cpu] = <<>> /\ cpu \in Threads
  BY Running, <1>1, CallerOK DEF StackShape, Owner, Bottom, Nested, Code, BootOnly,
     IdleOnly, ThreadOnly, OnFrames, OffFrames, FreshFrames, InIsr, All
<1>3. /\ Shapes' /\ Quiet' /\ OneRuns' /\ Queues'
      /\ pc' \in [All -> PCs] /\ pc'[cpu] = l
      /\ \A t \in All \ {cpu} : pc'[t] = pc[t]
  BY <1>1, <1>2, GotoStep DEF PCs, InIsr, Popf, Critical, Suspended, machine
<1>4. TypeOK'
  BY ZenonT(30), <1>1, <1>3 DEF IInv, TypeOK, state, frames, machine
<1>5. LocksHeld' /\ Flags' /\ ActiveOK'
  BY <1>1, <1>2, <1>3 DEF IInv, TypeOK, LocksHeld, Flags, ActiveOK, Moving,
     Top, state, frames, machine, Critical, Switching, InIsr, Code,
     BootOnly, IdleOnly, ThreadOnly, YieldCode, All
<1> QED BY <1>3, <1>4, <1>5 DEF IInv

LEMMA CleanupTryLockIInv == IInv /\ CleanupTryLock => IInv'
<1> SUFFICES ASSUME IInv, CleanupTryLock PROVE IInv'
  OBVIOUS
<1>1. PICK l \in {"yield", "cleanup_locked"} :
        /\ Goto(l)
        /\ pc[cpu] = "cleanup"
        /\ UNCHANGED <<state, allocLock, vecLock, machine, frames>>
        /\ schedLock' = TRUE
        /\ l = "yield" <=> schedLock
  BY DEF CleanupTryLock, At, IInv, TypeOK
<1>2. StackShape(l, below[cpu]) /\ Owner(cpu, l) /\ below[cpu] = <<>> /\ cpu = Idle
  BY Running, <1>1 DEF StackShape, Owner, Bottom, Nested, Code, BootOnly,
     IdleOnly, ThreadOnly, OnFrames, OffFrames, FreshFrames, InIsr, All
<1>3. /\ Shapes' /\ Quiet' /\ OneRuns' /\ Queues'
      /\ pc' \in [All -> PCs] /\ pc'[cpu] = l
      /\ \A t \in All \ {cpu} : pc'[t] = pc[t]
  BY <1>1, <1>2, GotoStep DEF PCs, InIsr, Popf, Critical, Suspended, machine
<1>4. TypeOK'
  BY <1>1, <1>3 DEF IInv, TypeOK, state, frames, machine
<1>5. LocksHeld' /\ Flags' /\ ActiveOK'
  BY ZenonT(30), <1>1, <1>2, <1>3 DEF IInv, TypeOK, LocksHeld, Flags, ActiveOK, Moving,
     Top, state, frames, machine, Critical, Switching, InIsr, Code,
     BootOnly, IdleOnly, ThreadOnly, YieldCode, All
<1> QED BY <1>3, <1>4, <1>5 DEF IInv

LEMMA CleanupReturnIInv == IInv /\ CleanupReturn => IInv'
<1> SUFFICES ASSUME IInv, CleanupReturn PROVE IInv'
  OBVIOUS
<1>1. PICK l \in {"yield"} :
        /\ Goto(l)
        /\ pc[cpu] = "cleanup_locked"
        /\ UNCHANGED <<state, allocLock, vecLock, machine, frames>>
        /\ schedLock' = FALSE
  BY DEF CleanupReturn, At
<1>2. StackShape(l, below[cpu]) /\ Owner(cpu, l) /\ below[cpu] = <<>> /\ cpu = Idle
  BY Running, <1>1 DEF StackShape, Owner, Bottom, Nested, Code, BootOnly,
     IdleOnly, ThreadOnly, OnFrames, OffFrames, FreshFrames, InIsr, All
<1>3. /\ Shapes' /\ Quiet' /\ OneRuns' /\ Queues'
      /\ pc' \in [All -> PCs] /\ pc'[cpu] = l
      /\ \A t \in All \ {cpu} : pc'[t] = pc[t]
  BY <1>1, <1>2, GotoStep DEF PCs, InIsr, Popf, Critical, Suspended, machine
<1>4. TypeOK'
  BY ZenonT(30), <1>1, <1>3 DEF IInv, TypeOK, state, frames, machine
<1>5. LocksHeld' /\ Flags' /\ ActiveOK'
  BY <1>1, <1>2, <1>3 DEF IInv, TypeOK, LocksHeld, Flags, ActiveOK, Moving,
     Top, state, frames, machine, Critical, Switching, InIsr, Code,
     BootOnly, IdleOnly, ThreadOnly, YieldCode, All
<1> QED BY <1>3, <1>4, <1>5 DEF IInv

LEMMA YieldTryLockIInv == IInv /\ YieldTryLock => IInv'
<1> SUFFICES ASSUME IInv, YieldTryLock PROVE IInv'
  OBVIOUS
<1>1. PICK l \in {"yield_locked", "isr_drop", "start", "cleanup", "run"} :
        /\ Goto(l)
        /\ pc[cpu] \in {"run", "yield"} /\ l = (IF schedLock THEN Caller ELSE "yield_locked")
        /\ UNCHANGED <<state, allocLock, vecLock, machine, frames>>
        /\ schedLock' = TRUE
  BY ZenonT(30), SMTT(30), CallerOK DEF YieldTryLock, At
<1>2. StackShape(l, below[cpu]) /\ Owner(cpu, l)
      /\ (l = "isr_drop" => below[cpu] # <<>>)
      /\ (l \in {"start", "cleanup", "run"} \/ pc[cpu] = "run" => below[cpu] = <<>>)
  BY SMTT(30), Running, <1>1, CallerOK DEF StackShape, Owner, Bottom, Nested, Code, BootOnly,
     IdleOnly, ThreadOnly, OnFrames, OffFrames, FreshFrames, InIsr, All
<1>3. /\ Shapes' /\ Quiet' /\ OneRuns' /\ Queues'
      /\ pc' \in [All -> PCs] /\ pc'[cpu] = l
      /\ \A t \in All \ {cpu} : pc'[t] = pc[t]
  BY <1>1, <1>2, GotoStep DEF PCs, InIsr, Popf, Critical, Suspended, machine
<1>4. TypeOK'
  BY <1>1, <1>3 DEF IInv, TypeOK, state, frames, machine
<1>5. LocksHeld' /\ Flags' /\ ActiveOK'
  <2>1. schedLock => pc[cpu] = "yield" /\ l = "isr_drop" /\ Top \in Critical
    BY ZenonT(30), <1>1, <1>2, CallerOK DEF IInv, LocksHeld, Top, Critical
  <2>2. LocksHeld'
    BY SMTT(60), <1>1, <1>2, <1>3, <2>1 DEF IInv, TypeOK, LocksHeld, Top, state, frames,
       machine, Critical, InIsr
  <2>3. Flags'
    BY ZenonT(30), <1>1, <1>2, <1>3, <2>1 DEF IInv, TypeOK, Flags, state, frames, machine,
       Code, BootOnly, IdleOnly, ThreadOnly, YieldCode, InIsr
  <2>4. ActiveOK'
    BY ZenonT(30), SMTT(30), <1>1, <1>2, <1>3, <2>1 DEF IInv, TypeOK, ActiveOK, Moving, Top, state,
       frames, machine, Switching, All
  <2> QED BY ZenonT(30), <2>2, <2>3, <2>4
<1> QED BY ZenonT(30), <1>3, <1>4, <1>5 DEF IInv

LEMMA YieldRefuseIInv == IInv /\ YieldRefuse => IInv'
<1> SUFFICES ASSUME IInv, YieldRefuse PROVE IInv'
  OBVIOUS
<1>1. PICK l \in {"isr_drop", "start", "cleanup", "run"} :
        /\ Goto(l)
        /\ pc[cpu] = "yield_locked" /\ l = Caller
        /\ UNCHANGED <<state, allocLock, vecLock, machine, frames>>
        /\ schedLock' = FALSE
  BY ZenonT(30), SMTT(30), CallerOK DEF YieldRefuse, At
<1>2. StackShape(l, below[cpu]) /\ Owner(cpu, l) /\ (l = "isr_drop" <=> below[cpu] # <<>>)
  BY Running, <1>1, CallerOK DEF StackShape, Owner, Bottom, Nested, Code, BootOnly,
     IdleOnly, ThreadOnly, OnFrames, OffFrames, FreshFrames, InIsr, All
<1>3. /\ Shapes' /\ Quiet' /\ OneRuns' /\ Queues'
      /\ pc' \in [All -> PCs] /\ pc'[cpu] = l
      /\ \A t \in All \ {cpu} : pc'[t] = pc[t]
  BY <1>1, <1>2, GotoStep DEF PCs, InIsr, Popf, Critical, Suspended, machine
<1>4. TypeOK'
  BY ZenonT(30), <1>1, <1>3 DEF IInv, TypeOK, state, frames, machine
<1>5. LocksHeld' /\ Flags' /\ ActiveOK'
  BY SMTT(30), <1>1, <1>2, <1>3 DEF IInv, TypeOK, LocksHeld, Flags, ActiveOK, Moving,
     Top, state, frames, machine, Critical, Switching, InIsr, Code,
     BootOnly, IdleOnly, ThreadOnly, YieldCode, All
<1> QED BY <1>3, <1>4, <1>5 DEF IInv

LEMMA GuardDropIInv == IInv /\ GuardDrop => IInv'
<1> SUFFICES ASSUME IInv, GuardDrop PROVE IInv'
  OBVIOUS
<1>1. PICK l \in {"isr_drop", "start", "cleanup", "run"} :
        /\ Goto(l)
        /\ pc[cpu] = "guard_drop" /\ l = Caller
        /\ UNCHANGED <<state, allocLock, vecLock, machine, frames>>
        /\ schedLock' = FALSE
  BY ZenonT(30), SMTT(30), CallerOK DEF GuardDrop, At
<1>2. StackShape(l, below[cpu]) /\ Owner(cpu, l) /\ (l = "isr_drop" <=> below[cpu] # <<>>)
  BY Running, <1>1, CallerOK DEF StackShape, Owner, Bottom, Nested, Code, BootOnly,
     IdleOnly, ThreadOnly, OnFrames, OffFrames, FreshFrames, InIsr, All
<1>3. /\ Shapes' /\ Quiet' /\ OneRuns' /\ Queues'
      /\ pc' \in [All -> PCs] /\ pc'[cpu] = l
      /\ \A t \in All \ {cpu} : pc'[t] = pc[t]
  BY <1>1, <1>2, GotoStep DEF PCs, InIsr, Popf, Critical, Suspended, machine
<1>4. TypeOK'
  BY ZenonT(30), <1>1, <1>3 DEF IInv, TypeOK, state, frames, machine
<1>5. LocksHeld' /\ Flags' /\ ActiveOK'
  BY SMTT(30), <1>1, <1>2, <1>3 DEF IInv, TypeOK, LocksHeld, Flags, ActiveOK, Moving,
     Top, state, frames, machine, Critical, Switching, InIsr, Code,
     BootOnly, IdleOnly, ThreadOnly, YieldCode, All
<1> QED BY <1>3, <1>4, <1>5 DEF IInv

LEMMA KickoffIInv == IInv /\ Kickoff => IInv'
<1> SUFFICES ASSUME IInv, Kickoff PROVE IInv'
  OBVIOUS
<1>1. PICK l \in {"isr_drop", "start", "cleanup", "run"} :
        /\ Goto(l)
        /\ pc[cpu] = "kickoff" /\ l = Caller
        /\ UNCHANGED <<schedLock, state, allocLock, vecLock, cpu, time, frames>>
        /\ intFlag' = TRUE /\ rsp0' = cpu
  BY ZenonT(30), SMTT(30), CallerOK DEF Kickoff, At
<1>2. StackShape(l, below[cpu]) /\ Owner(cpu, l) /\ l # "isr_drop" /\ below[cpu] = <<>>
  BY Running, <1>1, CallerOK DEF StackShape, Owner, Bottom, Nested, Code, BootOnly,
     IdleOnly, ThreadOnly, OnFrames, OffFrames, FreshFrames, InIsr, All
<1>3. /\ Shapes' /\ Quiet' /\ OneRuns' /\ Queues'
      /\ pc' \in [All -> PCs] /\ pc'[cpu] = l
      /\ \A t \in All \ {cpu} : pc'[t] = pc[t]
  BY <1>1, <1>2, GotoStep DEF PCs, InIsr, Popf, Critical, Suspended
<1>4. TypeOK'
  BY ZenonT(30), <1>1, <1>3 DEF IInv, TypeOK, state, frames
<1>5. LocksHeld' /\ Flags' /\ ActiveOK'
  BY ZenonT(30), <1>1, <1>2, <1>3 DEF IInv, TypeOK, LocksHeld, Flags, ActiveOK, Moving,
     Top, state, frames, Critical, Switching, InIsr, Code,
     BootOnly, IdleOnly, ThreadOnly, YieldCode, All
<1> QED BY <1>3, <1>4, <1>5 DEF IInv

LEMMA SwitchSaveIInv == IInv /\ SwitchSave => IInv'
<1> SUFFICES ASSUME IInv, SwitchSave PROVE IInv'
  OBVIOUS
<1>1. PICK l \in {"switch_on", "switch_off"} :
        /\ Goto(l)
        /\ pc[cpu] = "switch" /\ (l = "switch_on" <=> intFlag)
        /\ UNCHANGED <<schedLock, state, allocLock, vecLock, cpu, intFlag, time, frames>>
        /\ rsp0' = active
  BY DEF SwitchSave, At, IInv, TypeOK
<1>2. StackShape(l, below[cpu]) /\ Owner(cpu, l)
  BY Running, <1>1 DEF StackShape, Owner, Bottom, Nested, Code, BootOnly,
     IdleOnly, ThreadOnly, OnFrames, OffFrames, FreshFrames, InIsr, All, IInv, Flags, YieldCode
<1>3. /\ Shapes' /\ Quiet' /\ OneRuns' /\ Queues'
      /\ pc' \in [All -> PCs] /\ pc'[cpu] = l
      /\ \A t \in All \ {cpu} : pc'[t] = pc[t]
  BY <1>1, <1>2, GotoStep DEF PCs, InIsr, Popf, Critical, Suspended
<1>4. TypeOK'
  BY ZenonT(30), <1>1, <1>3 DEF IInv, TypeOK, state, frames
<1>5. LocksHeld' /\ Flags' /\ ActiveOK'
  BY ZenonT(30), <1>1, <1>2, <1>3 DEF IInv, TypeOK, LocksHeld, Flags, ActiveOK, Moving,
     Top, state, frames, Critical, Switching, InIsr, Code,
     BootOnly, IdleOnly, ThreadOnly, YieldCode, All
<1> QED BY <1>3, <1>4, <1>5 DEF IInv

LEMMA UnlockSchedulerIInv == IInv /\ UnlockScheduler => IInv'
<1> SUFFICES ASSUME IInv, UnlockScheduler PROVE IInv'
  OBVIOUS
<1>1. PICK l \in {"popf_fresh", "popf_on", "popf_off"} :
        /\ Goto(l)
        /\ \/ pc[cpu] = "unlock_fresh" /\ l = "popf_fresh"
           \/ pc[cpu] = "unlock_on" /\ l = "popf_on"
           \/ pc[cpu] = "unlock_off" /\ l = "popf_off"
        /\ UNCHANGED <<state, allocLock, vecLock, machine, frames>>
        /\ schedLock' = FALSE
  BY DEF UnlockScheduler, At
<1>2. StackShape(l, below[cpu]) /\ Owner(cpu, l)
  BY Running, <1>1 DEF StackShape, Owner, Bottom, Nested, Code, BootOnly,
     IdleOnly, ThreadOnly, OnFrames, OffFrames, FreshFrames, InIsr, All
<1>3. /\ Shapes' /\ Quiet' /\ OneRuns' /\ Queues'
      /\ pc' \in [All -> PCs] /\ pc'[cpu] = l
      /\ \A t \in All \ {cpu} : pc'[t] = pc[t]
  BY <1>1, <1>2, GotoStep DEF PCs, InIsr, Popf, Critical, Suspended, machine
<1>4. TypeOK'
  BY ZenonT(30), <1>1, <1>3 DEF IInv, TypeOK, state, frames, machine
<1>5. LocksHeld' /\ Flags' /\ ActiveOK'
  <2>1. LocksHeld'
    BY <1>1, <1>2, <1>3 DEF IInv, LocksHeld, Top, state, frames, machine, Critical, InIsr
  <2>2. Flags'
    BY ZenonT(30), <1>1, <1>2, <1>3 DEF IInv, Flags, state, frames, machine, InIsr, Code,
       BootOnly, IdleOnly, ThreadOnly, YieldCode
  <2>3. ActiveOK'
    BY ZenonT(30), <1>1, <1>2, <1>3 DEF IInv, TypeOK, ActiveOK, Moving, Top, state, frames, machine,
       Switching, InIsr, All
  <2> QED BY ZenonT(30), <2>1, <2>2, <2>3
<1> QED BY <1>3, <1>4, <1>5 DEF IInv

LEMMA PopFlagsIInv == IInv /\ PopFlags => IInv'
<1> SUFFICES ASSUME IInv, PopFlags PROVE IInv'
  OBVIOUS
<1>1. PICK l \in {"kickoff", "guard_drop"} :
        /\ Goto(l)
        /\ \/ pc[cpu] = "popf_fresh" /\ l = "kickoff" /\ ~intFlag'
           \/ pc[cpu] = "popf_on" /\ l = "guard_drop" /\ intFlag'
           \/ pc[cpu] = "popf_off" /\ l = "guard_drop" /\ ~intFlag'
        /\ intFlag' \in BOOLEAN
        /\ UNCHANGED <<schedLock, state, allocLock, vecLock, cpu, rsp0, time, frames>>
  BY ZenonT(30) DEF PopFlags, At
<1>2. StackShape(l, below[cpu]) /\ Owner(cpu, l) /\ (intFlag' <=> below[cpu] = <<>> /\ l # "kickoff")
  BY ZenonT(30), SMTT(30), Running, <1>1 DEF StackShape, Owner, Bottom, Nested, Code, BootOnly,
     IdleOnly, ThreadOnly, OnFrames, OffFrames, FreshFrames, InIsr, All
<1>3. /\ Shapes' /\ Quiet' /\ OneRuns' /\ Queues'
      /\ pc' \in [All -> PCs] /\ pc'[cpu] = l
      /\ \A t \in All \ {cpu} : pc'[t] = pc[t]
  BY <1>1, <1>2, GotoStep DEF PCs, InIsr, Popf, Critical, Suspended
<1>4. TypeOK'
  BY ZenonT(30), SMTT(30), <1>1, <1>3 DEF IInv, TypeOK, state, frames
<1>5. LocksHeld' /\ Flags' /\ ActiveOK'
  BY <1>1, <1>2, <1>3 DEF IInv, TypeOK, LocksHeld, Flags, ActiveOK, Moving,
     Top, state, frames, Critical, Switching, InIsr, Code,
     BootOnly, IdleOnly, ThreadOnly, YieldCode, All
<1> QED BY <1>3, <1>4, <1>5 DEF IInv

LEMMA LockIInv ==
  ASSUME IInv, NEW caller \in {"boot", "start", "run"},
         NEW l \in Critical \cap Code, Lock(caller, l),
         Owner(cpu, l)
  PROVE  IInv'
<1>1. /\ Goto(l) /\ pc[cpu] = caller /\ schedLock' = TRUE /\ ~schedLock
      /\ UNCHANGED <<state, allocLock, vecLock, machine, frames>>
  BY DEF Lock, At
<1>2. StackShape(l, below[cpu]) /\ Owner(cpu, l) /\ below[cpu] = <<>>
  BY ZenonT(30), Running, <1>1 DEF StackShape, Owner, Bottom, Nested, Code, BootOnly,
     IdleOnly, ThreadOnly, OffFrames, InIsr
<1>3. /\ Shapes' /\ Quiet' /\ OneRuns' /\ Queues'
      /\ pc' \in [All -> PCs] /\ pc'[cpu] = l
      /\ \A t \in All \ {cpu} : pc'[t] = pc[t]
  BY <1>1, <1>2, GotoStep DEF PCs, Critical, Code, BootOnly, IdleOnly,
     ThreadOnly, Suspended, machine
<1>4. TypeOK'
  BY ZenonT(30), <1>1, <1>3 DEF IInv, TypeOK, state, frames, machine
<1>5. LocksHeld' /\ Flags' /\ ActiveOK'
  BY <1>1, <1>2, <1>3 DEF IInv, TypeOK, LocksHeld, Flags, ActiveOK, Moving,
     Top, state, frames, machine, Critical, Switching, InIsr, Code,
     BootOnly, IdleOnly, ThreadOnly, YieldCode, All
<1> QED BY <1>3, <1>4, <1>5 DEF IInv

LEMMA LockStateIInv == IInv /\ LockState => IInv'
<1> SUFFICES ASSUME IInv, LockState PROVE IInv'
  OBVIOUS
<1>1. PICK caller \in {"boot", "start", "run"}, l \in Critical \cap Code :
        Lock(caller, l) /\ Owner(cpu, l)
  BY SMTT(60), Running DEF LockState, Lock, At, Owner, Critical, Code, BootOnly,
     IdleOnly, ThreadOnly, InIsr
<1> QED BY ZenonT(30), <1>1, LockIInv
-----------------------------------------------------------------------------
(* Interrupts: entry and return                                            *)

(* Pushing the interrupted label on a stack, and popping it again. *)
LEMMA Push ==
  ASSUME NEW p \in PCs, NEW b \in Seq(PCs), NEW q \in InIsr,
         StackShape(p, b), p \in Interruptible, p \in Window <=> b # <<>>
  PROVE  /\ Pushed(p, b) \in Seq(PCs) /\ Len(Pushed(p, b)) = Len(b) + 1
         /\ Pushed(p, b) # <<>> /\ Pushed(p, b)[1] = p
         /\ \A i \in 1 .. Len(b) : Pushed(p, b)[i + 1] = b[i]
         /\ StackShape(q, Pushed(p, b))
<1>1. <<p>> \in Seq(PCs) /\ Len(<<p>>) = 1 /\ <<p>>[1] = p
  OBVIOUS
<1>2. /\ Pushed(p, b) \in Seq(PCs) /\ Len(Pushed(p, b)) = Len(b) + 1
      /\ \A i \in 1 .. Len(b) + 1 :
           Pushed(p, b)[i] = IF i <= 1 THEN p ELSE b[i - 1]
  BY <1>1, Joined DEF Pushed
<1>3. Len(b) \in Nat /\ (b = <<>> <=> Len(b) = 0)
  OBVIOUS
<1>4. \A i \in 1 .. Len(b) : Pushed(p, b)[i + 1] = b[i]
  BY <1>2, <1>3
<1>5. Pushed(p, b)[1] = p /\ Pushed(p, b) # <<>>
  BY <1>2, <1>3
<1>6. \A i \in 2 .. Len(b) + 1 : Pushed(p, b)[i] = b[i - 1] /\ i - 1 \in 1 .. Len(b)
  BY <1>2, <1>3
<1>7. \A i \in 1 .. Len(Pushed(p, b)) :
        /\ Pushed(p, b)[i] \in Interruptible
        /\ Pushed(p, b)[i] \in Window <=> i < Len(Pushed(p, b))
  <2> TAKE i \in 1 .. Len(Pushed(p, b))
  <2>1. CASE i = 1
    BY <2>1, <1>2, <1>3, <1>5
  <2>2. CASE i # 1
    BY <2>2, <1>2, <1>3, <1>6 DEF StackShape
  <2> QED BY <2>1, <2>2
<1>8. StackShape(q, Pushed(p, b))
  BY <1>5, <1>7 DEF StackShape, Bottom, Code, BootOnly, IdleOnly,
     ThreadOnly, OnFrames, FreshFrames, InIsr
<1> QED BY <1>2, <1>4, <1>5, <1>8

LEMMA Pop ==
  ASSUME NEW b \in Seq(PCs), b # <<>>, NEW p, StackShape(p, b)
  PROVE  /\ Tail(b) \in Seq(PCs) /\ Len(Tail(b)) = Len(b) - 1
         /\ Head(b) = b[1] /\ Head(b) \in Interruptible
         /\ Tail(b) = <<>> <=> Head(b) \notin Window
         /\ \A i \in 1 .. Len(Tail(b)) : Tail(b)[i] = b[i + 1]
         /\ StackShape(Head(b), Tail(b))
<1>1. /\ Tail(b) \in Seq(PCs) /\ Len(Tail(b)) = Len(b) - 1 /\ Head(b) = b[1]
      /\ \A i \in 1 .. Len(Tail(b)) : Tail(b)[i] = b[i + 1]
      /\ Len(b) \in Nat \ {0}
  BY HeadAndTail, NonEmpty
<1>2. Head(b) \in Interruptible /\ (Tail(b) = <<>> <=> Head(b) \notin Window)
  BY <1>1 DEF StackShape
<1>3. StackShape(Head(b), Tail(b))
  BY <1>1, <1>2 DEF StackShape, Interruptible, Bottom, Nested, Window, Code,
     BootOnly, IdleOnly, ThreadOnly, YieldCode, OnFrames, OffFrames,
     FreshFrames, InIsr
<1> QED BY <1>1, <1>2, <1>3

(* An interrupt is taken only where IF may be set, and then nothing below  *)
(* the interrupted code holds a lock.                                      *)
LEMMA InterruptIInv ==
  ASSUME IInv, NEW irq \in {"pit", "dev"}, Interrupt(irq)
  PROVE  IInv'
<1> DEFINE b == Pushed(pc[cpu], below[cpu])
<1>1. /\ intFlag /\ intFlag' = FALSE /\ Goto(irq)
      /\ below' = [below EXCEPT ![cpu] = b]
      /\ UNCHANGED <<schedLock, active, ready, terminated, initialized,
                     allocLock, vecLock, cpu, rsp0, time, stack>>
  BY DEF Interrupt, state
<1>2. /\ pc[cpu] \in Interruptible /\ (pc[cpu] \in Window <=> below[cpu] # <<>>)
      /\ pc[cpu] \notin InIsr
  BY ZenonT(30), Running, <1>1 DEF IInv, Flags, StackShape, Interruptible, Window, Bottom,
     Nested, Code, BootOnly, IdleOnly, ThreadOnly, YieldCode, OnFrames,
     OffFrames, FreshFrames, InIsr, PCs, Critical, Suspended, Popf
<1>3. /\ b \in Seq(PCs) /\ b # <<>> /\ b[1] = pc[cpu] /\ Len(b) = Len(below[cpu]) + 1
      /\ \A i \in 1 .. Len(below[cpu]) : b[i + 1] = below[cpu][i]
      /\ StackShape(irq, b)
  BY SMTT(60), Running, <1>2, Push DEF InIsr
<1>4. /\ pc' \in [All -> PCs] /\ pc'[cpu] = irq
      /\ below' \in [All -> Seq(PCs)] /\ below'[cpu] = b
      /\ \A t \in All \ {cpu} : pc'[t] = pc[t] /\ below'[t] = below[t]
  BY <1>1, <1>3 DEF IInv, TypeOK, Goto, PCs, InIsr
<1> HIDE DEF b
<1>5. \A i \in 1 .. Len(b) : i = 1 \/ (i - 1 \in 1 .. Len(below[cpu])
                                       /\ b[i] = below[cpu][i - 1])
  BY Running, <1>3
<1>6. cpu \in All /\ Owner(cpu, pc[cpu]) /\ Owner(cpu, irq)
  BY ZenonT(30), Running DEF Owner, BootOnly, IdleOnly, ThreadOnly, InIsr
<1>7. Shapes'
  <2>1. \A t \in All : (StackShape(pc[t], below[t]) /\ Owner(t, pc[t]))'
    BY <1>1, <1>3, <1>4, <1>6 DEF IInv, Shapes
  <2>2. \A i \in 1 .. Len(b) : Owner(cpu, b[i])
    BY <1>3, <1>5, <1>6 DEF IInv, Shapes
  <2> QED BY <1>4, <2>1, <2>2 DEF IInv, Shapes
<1>8. below[cpu] = <<>> \/ below[cpu][1] \notin Critical \cup {"heap"}
  BY ZenonT(30), SMTT(30), <1>1, <1>2 DEF IInv, LocksHeld, Flags, Top, YieldCode
<1>9. Quiet'
  <2>1. \A i \in 1 .. Len(b) : b[i] \in Critical \cup {"heap"} => i = 1
    <3> TAKE i \in 1 .. Len(b)
    <3> SUFFICES ASSUME i # 1, b[i] \in Critical \cup {"heap"} PROVE FALSE
      OBVIOUS
    <3>1. i - 1 \in 1 .. Len(below[cpu]) /\ below[cpu][i - 1] \in Critical \cup {"heap"}
      BY ZenonT(30), <1>5
    <3>2. i - 1 = 1
      BY <3>1, <1>6 DEF IInv, Quiet
    <3>3. below[cpu] # <<>> /\ below[cpu][1] \in Critical \cup {"heap"}
      BY <3>1, <3>2
    <3> QED BY <3>3, <1>8
  <2> QED BY <1>1, <1>4, <2>1 DEF IInv, Quiet
<1>10. OneRuns'
  BY <1>1, <1>4, <1>6 DEF IInv, OneRuns, Suspended
<1>11. TypeOK'
  BY ZenonT(30), <1>1, <1>4 DEF IInv, TypeOK
<1>12. LocksHeld'
  BY SMTT(60), <1>1, <1>2, <1>3, <1>4, <1>8 DEF IInv, LocksHeld, Top, InIsr, Critical
<1>13. Flags'
  BY ZenonT(30), SMTT(30), <1>1, <1>4 DEF Flags, InIsr, Code, BootOnly, IdleOnly, ThreadOnly, YieldCode
<1>14. ActiveOK'
  BY <1>1, <1>2, <1>3, <1>4, <1>6, <1>8 DEF IInv, ActiveOK, Moving, Top,
     Switching, Critical, InIsr, Interruptible, Window, Code, BootOnly,
     IdleOnly, ThreadOnly, YieldCode, All
<1>15. Queues'
  <2>1. {active} \cup Range(ready) \cup Range(terminated) \subseteq All
    BY SeqRange DEF IInv, TypeOK, All
  <2> QED BY ZenonT(30), <1>1, <1>4, <1>6, <2>1 DEF IInv, Queues, OnePlace
<1> QED BY <1>7, <1>9, <1>10, <1>11, <1>12, <1>13, <1>14, <1>15 DEF IInv

LEMMA InterruptReturnIInv == IInv /\ InterruptReturn => IInv'
<1> SUFFICES ASSUME IInv, InterruptReturn PROVE IInv'
  OBVIOUS
<1> DEFINE l == Head(below[cpu])
           b == Tail(below[cpu])
<1>1. /\ pc[cpu] = "isr_drop" /\ intFlag' = TRUE /\ vecLock' = FALSE
      /\ Goto(l) /\ below' = [below EXCEPT ![cpu] = b]
      /\ UNCHANGED <<schedLock, active, ready, terminated, initialized,
                     allocLock, cpu, rsp0, time, stack>>
  BY DEF InterruptReturn, At, state
<1>2. below[cpu] # <<>>
  BY Running, <1>1 DEF StackShape, Nested, InIsr
<1>3. /\ b \in Seq(PCs) /\ Len(b) = Len(below[cpu]) - 1 /\ Len(below[cpu]) \in Nat
      /\ l = below[cpu][1] /\ l \in Interruptible
      /\ (b = <<>> <=> l \notin Window)
      /\ (\A i \in 1 .. Len(b) : b[i] = below[cpu][i + 1])
      /\ StackShape(l, b)
  BY Running, <1>2, Pop
<1>4. l \in PCs \ (Suspended \cup InIsr \cup {"switch_off", "kickoff"})
  BY <1>3 DEF Interruptible, Window, Code, BootOnly, IdleOnly, ThreadOnly,
     YieldCode, PCs, Suspended, InIsr, Critical, Popf
<1>5. /\ pc' \in [All -> PCs] /\ pc'[cpu] = l
      /\ below' \in [All -> Seq(PCs)] /\ below'[cpu] = b
      /\ \A t \in All \ {cpu} : pc'[t] = pc[t] /\ below'[t] = below[t]
  BY <1>1, <1>3, <1>4 DEF IInv, TypeOK, Goto
<1> HIDE DEF l, b
<1>6. /\ cpu \in All /\ Owner(cpu, l)
      /\ \A i \in 1 .. Len(b) : Owner(cpu, b[i]) /\ b[i] \notin Critical \cup {"heap"}
  <2>1. /\ cpu \in All /\ Len(below[cpu]) \in Nat \ {0}
        /\ \A i \in 1 .. Len(below[cpu]) :
             /\ Owner(cpu, below[cpu][i])
             /\ below[cpu][i] \in Critical \cup {"heap"} => i = 1
    BY ZenonT(30), SMTT(30), Running, <1>2, NonEmpty DEF IInv, Shapes, Quiet
  <2>2. \A i \in 1 .. Len(b) : i + 1 \in 1 .. Len(below[cpu]) /\ i + 1 # 1
    BY SMTT(60), <1>3, <2>1
  <2> QED BY SMTT(30), <1>3, <2>1, <2>2
<1>7. Shapes'
  BY ZenonT(30), <1>3, <1>5, <1>6 DEF IInv, Shapes
<1>8. Quiet'
  BY <1>1, <1>5, <1>6 DEF IInv, Quiet
<1>9. OneRuns'
  BY <1>1, <1>4, <1>5, <1>6 DEF IInv, OneRuns
<1>10. TypeOK'
  BY ZenonT(30), <1>1, <1>5 DEF IInv, TypeOK
<1>11. b = <<>> \/ b[1] \notin Critical \cup {"heap"}
  BY <1>3, <1>6
<1>12. LocksHeld'
  BY SMTT(30), <1>1, <1>2, <1>3, <1>5, <1>11 DEF IInv, LocksHeld, Top, Critical
<1>13. Flags'
  BY ZenonT(30), SMTT(30), <1>1, <1>3, <1>4, <1>5 DEF Flags, Window, YieldCode
<1>14. ActiveOK'
  BY <1>1, <1>2, <1>3, <1>4, <1>5, <1>6, <1>11 DEF IInv, ActiveOK, Moving,
     Top, Switching, Critical, All
<1>15. Queues'
  <2>1. {active} \cup Range(ready) \cup Range(terminated) \subseteq All
    BY SeqRange DEF IInv, TypeOK, All
  <2> QED BY ZenonT(30), <1>1, <1>5, <1>6, <2>1 DEF IInv, Queues, OnePlace
<1> QED BY <1>7, <1>8, <1>9, <1>10, <1>12, <1>13, <1>14, <1>15 DEF IInv
=============================================================================
