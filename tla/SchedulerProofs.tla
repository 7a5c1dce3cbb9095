-------------------------- MODULE SchedulerProofs ---------------------------
(***************************************************************************)
(* Every step keeps the inductive invariant, the safety properties of      *)
(* Scheduler follow from it, and Scheduler implements RoundRobin, for any  *)
(* set of threads, quantum and nesting depth.                              *)
(***************************************************************************)
EXTENDS SchedulerInvariant, SchedulerRefinement

USE SchedulerAssumption

(* Steps that change stacks, make a thread ready, kill one or free a       *)
(* stack, and what enqueue, dequeue and remove do to the queues.           *)

(* The first of the two steps that change stacks. *)
LEMMA ScheduleIInv == IInv /\ Schedule => IInv'
<1> SUFFICES ASSUME IInv, Schedule PROVE IInv'
  OBVIOUS
<1>1. /\ pc[cpu] = "start_locked" /\ initialized' = TRUE /\ cpu' = active
      /\ pc' = [pc EXCEPT ![cpu] = "abandoned", ![active] = "unlock_fresh"]
      /\ UNCHANGED <<schedLock, active, ready, terminated, allocLock, vecLock,
                     intFlag, rsp0, time, below, stack>>
  BY DEF Schedule, At, frames
<1>2. cpu = Boot /\ active = Idle /\ below[cpu] = <<>> /\ pc[Idle] = "fresh"
  BY Running, <1>1 DEF IInv, ActiveOK, Owner, BootOnly, StackShape, Bottom, Code
<1>3. /\ pc' \in [All -> PCs] /\ pc'[Boot] = "abandoned"
      /\ pc'[Idle] = "unlock_fresh"
      /\ \A t \in Threads : pc'[t] = pc[t]
  BY <1>1, <1>2 DEF IInv, TypeOK, All, PCs, Critical, Suspended
<1>4. below[Idle] = <<>>
  BY <1>2 DEF IInv, Shapes, StackShape, Bottom, FreshFrames, All
<1>5. Shapes'
  <2>1. \A t \in All : (StackShape(pc[t], below[t]) /\ Owner(t, pc[t]))'
    BY <1>1, <1>2, <1>3, <1>4 DEF IInv, Shapes, StackShape, Owner, BootOnly,
       IdleOnly, ThreadOnly, InIsr, Nested, OffFrames, All
  <2> QED BY ZenonT(30), <1>1, <2>1 DEF IInv, Shapes
<1>6. Quiet'
  BY <1>1, <1>2, <1>4 DEF IInv, Quiet
<1>7. OneRuns'
  BY <1>1, <1>2, <1>3 DEF IInv, OneRuns, Suspended, All
<1>8. TypeOK'
  BY ZenonT(30), <1>1, <1>2, <1>3 DEF IInv, TypeOK, All
<1>9. LocksHeld' /\ Flags' /\ ActiveOK'
  BY <1>1, <1>2, <1>3, <1>4 DEF IInv, LocksHeld, Flags, ActiveOK, Moving, Top,
     Switching, Critical, InIsr, Code, BootOnly, IdleOnly, ThreadOnly,
     YieldCode
<1>10. Queues'
  <2>1. {active} \cup Range(ready) \cup Range(terminated) \subseteq All \ {Boot}
    BY SeqRange DEF IInv, TypeOK, All
  <2>2. OnePlace'
    BY <1>1 DEF IInv, Queues, OnePlace
  <2> QED BY <1>1, <1>2, <1>3, <2>1, <2>2 DEF IInv, Queues, All
<1> QED BY <1>5, <1>6, <1>7, <1>8, <1>9, <1>10 DEF IInv

(* Enqueueing, dequeueing and removing an element of a queue that holds no *)
(* element twice.                                                          *)
LEMMA Enqueue ==
  ASSUME NEW S, NEW s \in Seq(S), NEW e \in S, IsInjective(s), e \notin Range(s)
  PROVE  /\ Append(s, e) \in Seq(S) /\ IsInjective(Append(s, e))
         /\ Range(Append(s, e)) = Range(s) \cup {e}
<1>1. /\ DOMAIN s = 1 .. Len(s) /\ Len(s) \in Nat
      /\ Append(s, e) \in Seq(S) /\ DOMAIN Append(s, e) = 1 .. Len(s) + 1
      /\ \A i \in 1 .. Len(s) : Append(s, e)[i] = s[i]
      /\ Append(s, e)[Len(s) + 1] = e
  BY Appended, SeqDomain
<1>2. \A i \in 1 .. Len(s) + 1 : i \in 1 .. Len(s) \/ i = Len(s) + 1
  BY <1>1
<1>3. Range(Append(s, e)) = Range(s) \cup {e}
  BY <1>1, <1>2 DEF Range
<1>4. IsInjective(Append(s, e))
  BY <1>1, <1>2 DEF Range, IsInjective
<1> QED BY <1>1, <1>3, <1>4

LEMMA Dequeue ==
  ASSUME NEW S, NEW s \in Seq(S), s # <<>>, IsInjective(s)
  PROVE  /\ Head(s) \in S /\ Tail(s) \in Seq(S) /\ IsInjective(Tail(s))
         /\ Range(s) = {Head(s)} \cup Range(Tail(s))
         /\ Head(s) \notin Range(Tail(s))
<1>1. /\ DOMAIN s = 1 .. Len(s) /\ Len(s) \in Nat \ {0} /\ Head(s) = s[1]
      /\ Head(s) \in S /\ Tail(s) \in Seq(S)
      /\ DOMAIN Tail(s) = 1 .. Len(s) - 1
      /\ \A i \in 1 .. Len(s) - 1 : Tail(s)[i] = s[i + 1]
  BY HeadAndTail, SeqDomain, NonEmpty
<1>2. \A i \in 1 .. Len(s) - 1 : i + 1 \in 1 .. Len(s) /\ i + 1 # 1
  BY <1>1
<1>3. \A i \in 1 .. Len(s) : i = 1 \/ (i - 1 \in 1 .. Len(s) - 1 /\ (i - 1) + 1 = i)
  BY <1>1
<1>4. 1 \in 1 .. Len(s)
  BY <1>1
<1>5. Head(s) \notin Range(Tail(s))
  BY <1>1, <1>2, <1>4 DEF Range, IsInjective
<1>6. IsInjective(Tail(s))
  BY <1>1, <1>2 DEF IsInjective
<1>7. Range(s) = {Head(s)} \cup Range(Tail(s))
  <2>1. ASSUME NEW i \in 1 .. Len(s) PROVE s[i] \in {Head(s)} \cup Range(Tail(s))
    <3>1. CASE i = 1
      BY <3>1, <1>1
    <3>2. CASE i # 1
      <4>1. i - 1 \in 1 .. Len(s) - 1 /\ Tail(s)[i - 1] = s[i]
        BY <3>2, <1>1, <1>3
      <4> QED BY <4>1, <1>1 DEF Range
    <3> QED BY <3>1, <3>2
  <2>2. {Head(s)} \cup Range(Tail(s)) \subseteq Range(s)
    BY <1>1, <1>2, <1>4 DEF Range
  <2>3. \A x \in Range(s) : x \in {Head(s)} \cup Range(Tail(s))
    BY <1>1, <2>1 DEF Range
  <2> QED BY <2>2, <2>3
<1> QED BY <1>1, <1>5, <1>6, <1>7

LEMMA Unqueue ==
  ASSUME NEW S, NEW s \in Seq(S), IsInjective(s), NEW e \in Range(s)
  PROVE  /\ Unlink(s, e) \in Seq(S) /\ IsInjective(Unlink(s, e))
         /\ Range(Unlink(s, e)) = Range(s) \ {e}
<1>1. DOMAIN s = 1 .. Len(s) /\ Len(s) \in Nat /\ \A i \in 1 .. Len(s) : s[i] \in S
  BY SeqDomain
<1>2. PICK k \in 1 .. Len(s) : s[k] = e
  BY <1>1 DEF Range
<1>3. \A i \in 1 .. Len(s) : s[i] = e <=> i = k
  BY <1>1, <1>2 DEF IsInjective
<1>4. FirstMatch(s, e) = k
  BY <1>1, <1>2, <1>3 DEF FirstMatch
<1> DEFINE r == Unlink(s, e)
<1>5. r = SubSeq(s, 1, k - 1) \o SubSeq(s, k + 1, Len(s))
  BY <1>4 DEF Unlink
<1> DEFINE u == SubSeq(s, 1, k - 1)
           v == SubSeq(s, k + 1, Len(s))
           next(i) == IF i < k THEN i ELSE i + 1
<1>6. u \in Seq(S) /\ Len(u) = k - 1 /\ \A i \in 1 .. k - 1 : u[i] = s[i]
  <2>1. k - 1 \in 0 .. Len(s)
    BY <1>1, <1>2
  <2> QED BY <2>1, FrontOf
<1>7. v \in Seq(S) /\ Len(v) = Len(s) - k /\ \A i \in 1 .. Len(s) - k : v[i] = s[k + i]
  BY <1>2, RestOf
<1>8. /\ r \in Seq(S) /\ DOMAIN r = 1 .. Len(s) - 1
      /\ \A i \in 1 .. Len(s) - 1 : r[i] = s[next(i)]
  <2> HIDE DEF u, v, r
  <2>1. /\ r \in Seq(S) /\ Len(r) = Len(u) + Len(v)
        /\ \A i \in 1 .. Len(u) + Len(v) : r[i] = IF i <= Len(u) THEN u[i] ELSE v[i - Len(u)]
    <3>1. r = u \o v
      BY <1>5 DEF u, v
    <3>2. u \in Seq(S) /\ v \in Seq(S)
      BY <1>6, <1>7
    <3>3. /\ u \o v \in Seq(S) /\ Len(u \o v) = Len(u) + Len(v)
          /\ \A i \in 1 .. Len(u) + Len(v) :
               (u \o v)[i] = IF i <= Len(u) THEN u[i] ELSE v[i - Len(u)]
      BY <3>2, Joined, Zenon
    <3> QED BY <3>1, <3>3
  <2>2. Len(r) = Len(s) - 1
    BY <1>1, <1>2, <1>6, <1>7, <2>1
  <2>3. ASSUME NEW i \in 1 .. Len(s) - 1 PROVE r[i] = s[next(i)]
    <3>0. i \in 1 .. Len(u) + Len(v) /\ (i <= Len(u) <=> i < k)
      BY <1>1, <1>2, <1>6, <1>7
    <3>1. CASE i < k
      <4>1. i \in 1 .. k - 1
        BY <3>1, <1>1, <1>2
      <4> QED BY <3>0, <3>1, <4>1, <1>6, <2>1
    <3>2. CASE i >= k
      <4>1. i - (k - 1) \in 1 .. Len(s) - k /\ k + (i - (k - 1)) = i + 1
        BY <3>2, <1>1, <1>2
      <4>2. r[i] = v[i - (k - 1)]
        <5>1. ~(i <= Len(u))
          BY <3>0, <3>2, <1>1, <1>2
        <5> QED BY <3>0, <5>1, <1>6, <2>1
      <4>3. next(i) = i + 1
        BY <3>2, <1>1, <1>2
      <4> QED BY <4>1, <4>2, <4>3, <1>7
    <3> QED BY <3>1, <3>2, <1>1, <1>2
  <2> QED BY <2>1, <2>2, <2>3, SeqDomain
<1> HIDE DEF r
<1>9. /\ \A i \in 1 .. Len(s) - 1 : next(i) \in 1 .. Len(s) /\ next(i) # k
      /\ \A i, j \in 1 .. Len(s) - 1 : next(i) = next(j) => i = j
  BY <1>1, <1>2
<1> HIDE DEF next
<1>10. IsInjective(r)
  BY <1>1, <1>8, <1>9 DEF IsInjective
<1>11. Range(r) = Range(s) \ {e}
  <2>1. ASSUME NEW i \in 1 .. Len(s) - 1 PROVE r[i] \in Range(s) /\ r[i] # e
    BY SMTT(30), <1>1, <1>2, <1>8, <1>9 DEF Range, IsInjective
  <2>2. ASSUME NEW i \in 1 .. Len(s), s[i] # e PROVE s[i] \in Range(r)
    <3>1. CASE i < k
      <4>1. i \in 1 .. Len(s) - 1 /\ r[i] = s[i]
        BY SMTT(30), <3>1, <1>1, <1>2, <1>8 DEF next
      <4> QED BY <4>1, <1>8 DEF Range
    <3>2. CASE i > k
      <4>1. i - 1 \in 1 .. Len(s) - 1 /\ r[i - 1] = s[i]
        BY <3>2, <1>1, <1>2, <1>8 DEF next
      <4> QED BY <4>1, <1>8 DEF Range
    <3> QED BY <2>2, <3>1, <3>2, <1>1, <1>2
  <2> QED BY <1>1, <1>8, <2>1, <2>2 DEF Range
<1> QED BY <1>8, <1>10, <1>11 DEF r

(* At a call of the scheduler by a thread, that thread is active_thread.   *)
LEMMA CallerIsActive ==
  ASSUME IInv,
         pc[cpu] \in {"exit_locked", "kill_locked", "ready_locked",
                       "cleanup_locked", "yield_locked"}
  PROVE  /\ cpu # Boot => active = cpu
         /\ ~Moving /\ (cpu = Boot => active = Idle)
         /\ schedLock /\ ~vecLock
BY DEF IInv, ActiveOK, LocksHeld, Moving, Top, Switching, Critical, InIsr

(* exit and yield_cpu up to the context switch: the caller goes to the end *)
(* of a queue and the head of the ready queue becomes active.              *)
LEMMA HandOver ==
  ASSUME IInv, cpu # Boot, ~Moving, pc[cpu] \in {"exit_locked", "yield_locked"},
         ~allocLock, ~vecLock, schedLock, ready # <<>>, Goto("switch"),
         active' = Head(ready),
         \/ /\ ready' = Append(Tail(ready), active) /\ terminated' = terminated
         \/ /\ ready' = Tail(ready) /\ terminated' = Append(terminated, active)
            /\ active \in Threads,
         UNCHANGED <<schedLock, initialized, allocLock, vecLock, machine, frames>>
  PROVE  IInv'
<1>1. active = cpu
  BY DEF IInv, ActiveOK
<1>2. /\ ready \in Seq(All \ {Boot}) /\ IsInjective(ready)
      /\ terminated \in Seq(Threads) /\ IsInjective(terminated)
      /\ active \in All \ {Boot} /\ active \notin Range(ready) \cup Range(terminated)
      /\ Range(ready) \cap Range(terminated) = {}
  BY DEF IInv, TypeOK, Queues, OnePlace
<1>3. /\ Head(ready) \in All \ {Boot} /\ Tail(ready) \in Seq(All \ {Boot})
      /\ IsInjective(Tail(ready))
      /\ Range(ready) = {Head(ready)} \cup Range(Tail(ready))
      /\ Head(ready) \notin Range(Tail(ready))
  BY <1>2, Dequeue
<1>4. /\ ready' \in Seq(All \ {Boot}) /\ IsInjective(ready')
      /\ terminated' \in Seq(Threads) /\ IsInjective(terminated')
      /\ \/ /\ Range(ready') = Range(Tail(ready)) \cup {active}
            /\ Range(terminated') = Range(terminated)
         \/ /\ Range(ready') = Range(Tail(ready))
            /\ Range(terminated') = Range(terminated) \cup {active}
            /\ active \in Threads
  <2>1. CASE ready' = Append(Tail(ready), active) /\ terminated' = terminated
    <3>1. active \notin Range(Tail(ready))
      BY <1>2, <1>3
    <3>2. /\ Append(Tail(ready), active) \in Seq(All \ {Boot})
          /\ IsInjective(Append(Tail(ready), active))
          /\ Range(Append(Tail(ready), active)) = Range(Tail(ready)) \cup {active}
      <4> DEFINE T == All \ {Boot}
                 s == Tail(ready)
      <4>1. s \in Seq(T) /\ active \in T /\ IsInjective(s) /\ active \notin Range(s)
        BY <3>1, <1>2, <1>3
      <4> HIDE DEF T, s
      <4>2. /\ Append(s, active) \in Seq(T) /\ IsInjective(Append(s, active))
            /\ Range(Append(s, active)) = Range(s) \cup {active}
        BY <4>1, Enqueue
      <4> QED BY <4>2 DEF T, s
    <3> QED BY <2>1, <3>2, <1>2
  <2>2. CASE /\ ready' = Tail(ready) /\ terminated' = Append(terminated, active)
             /\ active \in Threads
    BY <2>2, <1>2, <1>3, Enqueue
  <2> QED BY <2>1, <2>2
<1>5. StackShape("switch", below[cpu]) /\ Owner(cpu, "switch")
  BY Running DEF StackShape, Owner, Bottom, Nested, Code, BootOnly, IdleOnly,
     ThreadOnly, OnFrames, OffFrames, FreshFrames, InIsr
<1>6. /\ pc' \in [All -> PCs] /\ pc'[cpu] = "switch" /\ cpu \in All
      /\ \A t \in All \ {cpu} : pc'[t] = pc[t]
      /\ UNCHANGED <<cpu, intFlag, rsp0, time, below, stack>>
  BY Running DEF IInv, TypeOK, Goto, PCs, Critical, machine, frames
<1>7. TypeOK'
  BY <1>3, <1>4, <1>6 DEF IInv, TypeOK
<1>8. Shapes'
  BY <1>5, <1>6 DEF IInv, Shapes, StackShape
<1>9. Quiet' /\ OneRuns'
  BY ZenonT(30), <1>6 DEF IInv, Quiet, OneRuns, Suspended
<1>10. LocksHeld'
  BY <1>6 DEF IInv, TypeOK, LocksHeld, Top, Critical, InIsr
<1>11. Flags'
  BY ZenonT(30), Running, <1>6 DEF IInv, Flags, Code, BootOnly, IdleOnly, ThreadOnly,
     YieldCode, InIsr, StackShape, Bottom
<1>12. ActiveOK'
  BY ZenonT(30), SMTT(30), <1>1, <1>2, <1>3, <1>6 DEF IInv, ActiveOK, Moving, Top, Switching,
     LocksHeld, InIsr, Critical
<1>13. Queues'
  <2>1. OnePlace'
    BY SMTT(30), <1>1, <1>2, <1>3, <1>4, <1>6 DEF IInv, Queues, OnePlace
  <2>2. Idle \in ({active} \cup Range(ready))'
    BY <1>3, <1>4 DEF IInv, Queues
  <2>3. /\ ({active} \cup Range(ready) \cup Range(terminated))'
             = {active} \cup Range(ready) \cup Range(terminated)
        /\ {active} \cup Range(ready) \cup Range(terminated) \subseteq All
    BY ZenonT(30), <1>2, <1>3, <1>4, SeqRange DEF All
  <2>4. stack[cpu] = "live" /\ stack[Boot] = "live"
    BY DEF IInv, Queues
  <2> QED BY ZenonT(30), <1>6, <2>1, <2>2, <2>3, <2>4 DEF IInv, Queues
<1> QED BY <1>7, <1>8, <1>9, <1>10, <1>11, <1>12, <1>13 DEF IInv

LEMMA ExitIInv == IInv /\ Exit => IInv'
<1> SUFFICES ASSUME IInv, Exit PROVE IInv'
  OBVIOUS
<1>1. pc[cpu] = "exit_locked" /\ cpu \in Threads /\ cpu # Boot
  BY Running DEF Exit, At, Owner, ThreadOnly
<1>2. active = cpu /\ ~Moving /\ schedLock /\ ~vecLock
  BY <1>1, CallerIsActive
<1> QED BY <1>1, <1>2, HandOver DEF Exit

LEMMA YieldRotateIInv == IInv /\ YieldRotate => IInv'
<1> SUFFICES ASSUME IInv, YieldRotate PROVE IInv'
  OBVIOUS
<1>1. /\ pc[cpu] = "yield_locked" /\ initialized /\ ~allocLock /\ ready # <<>>
      /\ UNCHANGED <<terminated, schedLock, initialized, allocLock, vecLock,
                     machine, frames>>
  BY DEF YieldRotate, CannotYield, At
<1>2. cpu # Boot /\ active = cpu /\ ~Moving /\ schedLock /\ ~vecLock
  BY <1>1, CallerIsActive DEF IInv, ActiveOK
<1> QED BY <1>1, <1>2, HandOver DEF YieldRotate

LEMMA SwitchStackIInv == IInv /\ SwitchStack => IInv'
<1> SUFFICES ASSUME IInv, SwitchStack PROVE IInv'
  OBVIOUS
<1> DEFINE p == IF pc[cpu] = "switch_on" THEN "saved_on" ELSE "saved_off"
           q == CASE pc[active] = "fresh" -> "unlock_fresh"
                  [] pc[active] = "saved_on" -> "unlock_on"
                  [] OTHER -> "unlock_off"
<1>1. /\ pc[cpu] \in {"switch_on", "switch_off"} /\ cpu' = active
      /\ UNCHANGED <<schedLock, active, ready, terminated, initialized,
                     allocLock, vecLock, intFlag, rsp0, time, below, stack>>
  BY ZenonT(30) DEF SwitchStack, At, state, frames
<1>2. /\ cpu # Boot /\ cpu # active /\ active \in All \ {Boot} /\ cpu \in All
      /\ rsp0 = active
  BY Running, <1>1 DEF IInv, TypeOK, ActiveOK, Moving, Switching, Owner,
     BootOnly, InIsr
<1>3. /\ pc' \in [All -> PCs] /\ pc'[cpu] = p /\ pc'[active] = q
      /\ \A t \in All \ {cpu, active} : pc'[t] = pc[t]
  BY ZenonT(30), <1>1, <1>2 DEF SwitchStack, IInv, TypeOK, PCs, Critical, Suspended
<1>4. pc[active] \in {"fresh", "saved_on", "saved_off"}
  BY <1>2 DEF IInv, Queues
<1>5. /\ StackShape(p, below[cpu]) /\ Owner(cpu, p) /\ p \in {"saved_on", "saved_off"}
      /\ StackShape(q, below[active]) /\ Owner(active, q)
      /\ q \in {"unlock_fresh", "unlock_on", "unlock_off"}
  BY <1>1, <1>2, <1>4 DEF IInv, Shapes, StackShape, Owner, Bottom, Nested,
     Code, BootOnly, IdleOnly, ThreadOnly, OnFrames, OffFrames, FreshFrames, InIsr
<1> HIDE DEF p, q
<1>6. Shapes'
  <2>1. \A t \in All : (StackShape(pc[t], below[t]) /\ Owner(t, pc[t]))'
    BY <1>1, <1>2, <1>3, <1>5 DEF IInv, Shapes
  <2> QED BY <1>1, <2>1 DEF IInv, Shapes
<1>7. \A t \in All : \A i \in 1 .. Len(below[t]) :
        below[t][i] \notin Critical \cup {"heap"}
  <2>1. ASSUME NEW i \in 1 .. Len(below[cpu])
        PROVE  below[cpu][i] \notin Critical \cup {"heap"}
    <3>1. below[cpu] # <<>> /\ Top = below[cpu][1]
      BY Running DEF Top
    <3>2. below[cpu][1] \notin Critical \cup {"heap"}
      BY <1>1, <3>1 DEF IInv, LocksHeld, InIsr
    <3> QED BY <1>2, <3>2 DEF IInv, Quiet
  <2> QED BY <2>1 DEF IInv, Quiet
<1>8. Quiet'
  BY <1>1, <1>7 DEF Quiet
<1>9. OneRuns'
  BY <1>1, <1>2, <1>3, <1>5 DEF IInv, OneRuns, Suspended
<1>10. TypeOK'
  BY <1>1, <1>2, <1>3 DEF IInv, TypeOK
<1>11. below[active] \in Seq(PCs)
       /\ (below[active] # <<>> => below[active][1] \notin Critical \cup {"heap"})
  BY SMTT(30), <1>2, <1>7 DEF IInv, TypeOK
<1>12. LocksHeld'
  <2>1. schedLock /\ ~allocLock /\ ~vecLock
    <3>1. Top # "heap"
      BY <1>1 DEF IInv, LocksHeld, Top, InIsr
    <3> QED BY <1>1, <3>1 DEF IInv, LocksHeld, Critical
  <2> QED BY <1>1, <1>3, <1>5, <1>11, <2>1 DEF LocksHeld, Top, Critical
<1>13. Flags'
  BY ZenonT(30), <1>1, <1>3, <1>5 DEF Flags, Code, BootOnly, IdleOnly, ThreadOnly,
     YieldCode, InIsr
<1>14. ActiveOK'
  BY ZenonT(30), SMTT(30), <1>1, <1>2, <1>3, <1>5, <1>11 DEF IInv, ActiveOK, Moving, Top, Switching,
     Critical
<1>15. Queues'
  <2>1. {active} \cup Range(ready) \cup Range(terminated) \subseteq All
    BY ZenonT(30), SeqRange DEF IInv, TypeOK, All
  <2>2. OnePlace'
    BY <1>1 DEF IInv, Queues, OnePlace
  <2>3. stack[cpu] = "live" /\ stack[active] = "live"
    BY DEF IInv, Queues
  <2> QED BY <1>1, <1>2, <1>3, <1>5, <2>1, <2>2, <2>3 DEF IInv, Queues
<1> QED BY <1>6, <1>8, <1>9, <1>10, <1>12, <1>13, <1>14, <1>15 DEF IInv
-----------------------------------------------------------------------------
(* Threads made ready, killed and freed                                    *)

(* ready(n) of a thread just made. *)
LEMMA ReadyIInv ==
  ASSUME IInv, NEW n \in Threads, Ready(n)
  PROVE  IInv'
<1>1. /\ pc[cpu] = "ready_locked" /\ ~allocLock /\ stack[n] = "none"
      /\ stack' = [stack EXCEPT ![n] = "live"] /\ ready' = Append(ready, n)
      /\ schedLock' = FALSE /\ pc' = [pc EXCEPT ![cpu] = Caller, ![n] = "fresh"]
      /\ UNCHANGED <<active, terminated, initialized, allocLock, vecLock, cpu,
                     intFlag, rsp0, time, below>>
  BY ZenonT(30), SMTT(30) DEF Ready, At, machine
<1>2. /\ cpu \in All /\ n \in All /\ n # Idle /\ n # cpu /\ n # Boot
      /\ pc[n] = "none" /\ below[n] = <<>> /\ below[cpu] = <<>>
  BY ZenonT(30), Running, <1>1 DEF IInv, Queues, Shapes, StackShape, Bottom, FreshFrames,
     Code, All
<1>3. /\ Caller \in {"start", "cleanup", "run"} /\ Owner(cpu, Caller)
      /\ StackShape(Caller, below[cpu])
  BY <1>2, CallerOK
<1>4. /\ pc' \in [All -> PCs] /\ pc'[cpu] = Caller /\ pc'[n] = "fresh"
      /\ \A t \in All \ {cpu, n} : pc'[t] = pc[t]
      /\ stack' \in [All -> {"none", "live", "freed"}] /\ stack'[n] = "live"
      /\ \A t \in All \ {n} : stack'[t] = stack[t]
  BY ZenonT(30), <1>1, <1>2, <1>3 DEF IInv, TypeOK, PCs, Suspended
<1>5. /\ ready \in Seq(All \ {Boot}) /\ IsInjective(ready)
      /\ {active} \cup Range(ready) \cup Range(terminated) \subseteq All
      /\ n \notin {active} \cup Range(ready) \cup Range(terminated)
  BY <1>1, SeqRange DEF IInv, TypeOK, Queues, OnePlace, All
<1>6. /\ ready' \in Seq(All \ {Boot}) /\ IsInjective(ready')
      /\ Range(ready') = Range(ready) \cup {n}
  <2>1. /\ ready \in Seq(All \ {Boot}) /\ IsInjective(ready)
        /\ n \in All \ {Boot} /\ n \notin Range(ready)
    BY <1>2, <1>5
  <2>2. ready' = Append(ready, n)
    BY <1>1
  <2> QED BY <2>1, <2>2, Enqueue
<1>7. Shapes'
  <2>1. StackShape("fresh", below[n]) /\ Owner(n, "fresh")
    BY <1>2 DEF StackShape, Owner, BootOnly, IdleOnly, ThreadOnly, InIsr,
       Nested, OffFrames
  <2>2. \A t \in All : (StackShape(pc[t], below[t]) /\ Owner(t, pc[t]))'
    BY ZenonT(30), <1>1, <1>3, <1>4, <2>1 DEF IInv, Shapes
  <2> QED BY ZenonT(30), <1>1, <2>2 DEF IInv, Shapes
<1>8. Quiet' /\ OneRuns'
  BY <1>1, <1>2, <1>3, <1>4 DEF IInv, Quiet, OneRuns, Suspended
<1>9. TypeOK'
  BY ZenonT(30), <1>1, <1>4, <1>6 DEF IInv, TypeOK
<1>10. LocksHeld' /\ Flags'
  BY SMTT(30), <1>1, <1>2, <1>3, <1>4 DEF IInv, LocksHeld, Flags, Top, Critical, InIsr,
     Code, BootOnly, IdleOnly, ThreadOnly, YieldCode
<1>11. ActiveOK'
  BY <1>1, <1>2, <1>3, <1>4 DEF IInv, ActiveOK, Moving, Top, Switching, All
<1>12. Queues'
  <2>1. OnePlace'
    <3>1. /\ IsInjective(ready') /\ IsInjective(terminated')
          /\ active' \notin Range(ready') \cup Range(terminated')
          /\ Range(ready') \cap Range(terminated') = {}
      BY ZenonT(30), <1>1, <1>5, <1>6 DEF IInv, Queues, OnePlace
    <3>2. \A t \in All \ {Boot} : stack'[t] = "live" =>
            t \in {active'} \cup Range(ready') \cup Range(terminated')
      BY ZenonT(30), <1>1, <1>4, <1>6 DEF IInv, Queues, OnePlace
    <3> QED BY <3>1, <3>2 DEF OnePlace
  <2>2. \A t \in ({active} \cup Range(ready) \cup Range(terminated))' :
          stack'[t] = "live" /\ (t # cpu => pc'[t] \in {"fresh", "saved_on", "saved_off"})
    BY <1>1, <1>4, <1>5, <1>6 DEF IInv, Queues
  <2>3. (stack[Boot] = "live" /\ stack[cpu] = "live")'
    BY ZenonT(30), <1>1, <1>2, <1>4 DEF IInv, Queues, All
  <2>4. \A t \in All : stack'[t] # "live" => pc'[t] = "none"
    BY <1>1, <1>2, <1>4 DEF IInv, Queues
  <2>5. Idle \in ({active} \cup Range(ready))'
    BY <1>1, <1>6 DEF IInv, Queues
  <2> QED BY ZenonT(30), <1>1, <2>1, <2>2, <2>3, <2>4, <2>5 DEF Queues
<1> QED BY <1>7, <1>8, <1>9, <1>10, <1>11, <1>12 DEF IInv

(* Dropping a suspended thread n that is in one of the queues, and then    *)
(* in none: kill and cleanup_terminated_threads.                           *)
LEMMA Drop ==
  ASSUME IInv, NEW n \in Threads, n # cpu, n # active, pc[cpu] \in Code,
         NEW l \in Code \cup {"yield"}, Owner(cpu, l), StackShape(l, below[cpu]),
         n \in Range(ready) \cup Range(terminated), ~Moving,
         ready' \in Seq(All \ {Boot}), IsInjective(ready'),
         terminated' \in Seq(Threads), IsInjective(terminated'),
         Range(ready') = Range(ready) \ {n},
         Range(terminated') = Range(terminated) \ {n},
         pc' = [pc EXCEPT ![cpu] = l, ![n] = "none"], Free(n),
         UNCHANGED <<active, initialized, cpu, intFlag, rsp0, time>>
  PROVE  /\ Shapes' /\ Quiet' /\ OneRuns' /\ Flags' /\ ActiveOK' /\ Queues'
         /\ pc' \in [All -> PCs] /\ pc'[cpu] = l /\ below'[cpu] = <<>>
         /\ below' \in [All -> Seq(PCs)]
         /\ stack' \in [All -> {"none", "live", "freed"}]
<1>1. /\ stack' = [stack EXCEPT ![n] = "freed"]
      /\ below' = [below EXCEPT ![n] = <<>>]
  BY ZenonT(30) DEF Free
<1>2. cpu \in All /\ n \in All /\ n # Idle /\ n # Boot /\ below[cpu] = <<>>
  BY Running DEF StackShape, Bottom, All
<1>3. /\ pc' \in [All -> PCs] /\ pc'[cpu] = l /\ pc'[n] = "none"
      /\ \A t \in All \ {cpu, n} : pc'[t] = pc[t]
      /\ stack' \in [All -> {"none", "live", "freed"}] /\ stack'[n] = "freed"
      /\ \A t \in All \ {n} : stack'[t] = stack[t]
      /\ below' \in [All -> Seq(PCs)] /\ below'[n] = <<>>
      /\ \A t \in All \ {n} : below'[t] = below[t]
  <2>1. l \in PCs
    BY DEF PCs, Code, BootOnly, IdleOnly, ThreadOnly, Critical
  <2> QED BY ZenonT(30), <1>1, <1>2, <2>1 DEF IInv, TypeOK, PCs, Suspended
<1>4. Shapes'
  <2>1. StackShape("none", <<>>) /\ Owner(n, "none")
    BY ZenonT(30), SMTT(30), <1>2 DEF StackShape, Owner, BootOnly, IdleOnly, ThreadOnly, InIsr,
       Nested, OffFrames
  <2>2. \A t \in All : (StackShape(pc[t], below[t]) /\ Owner(t, pc[t]))'
    BY SMTT(30), <1>2, <1>3, <2>1 DEF IInv, Shapes
  <2>3. \A t \in All : \A i \in 1 .. Len(below'[t]) : Owner(t, below'[t][i])
    <3> TAKE t \in All
    <3>1. CASE t = n
      BY SMTT(30), <3>1, <1>3
    <3>2. CASE t # n
      BY ZenonT(30), SMTT(30), <3>2, <1>3 DEF IInv, Shapes
    <3> QED BY ZenonT(30), <3>1, <3>2
  <2> QED BY ZenonT(30), <2>2, <2>3 DEF Shapes
<1>5. Quiet'
  BY SMTT(30), <1>2, <1>3 DEF IInv, Quiet
<1>6. OneRuns'
  BY <1>2, <1>3 DEF IInv, OneRuns, Suspended, Code, BootOnly, IdleOnly, ThreadOnly
<1>7. Flags'
  BY ZenonT(30), SMTT(30), <1>2, <1>3 DEF IInv, Flags, YieldCode, Code, BootOnly, IdleOnly,
     ThreadOnly, InIsr
<1>8. ActiveOK'
  <2>1. ~Moving'
    BY ZenonT(30), SMTT(30), <1>2, <1>3 DEF Moving, Top, Switching, Code, BootOnly, IdleOnly, ThreadOnly
  <2>2. ~(pc'[cpu] \in {"switch_on", "switch_off"} \/ Top' \in {"switch_on"})
    BY ZenonT(30), SMTT(30), <1>2, <1>3 DEF Top, Code, BootOnly, IdleOnly, ThreadOnly
  <2>3. cpu = Boot => pc'[Idle] = "fresh"
    BY <1>2, <1>3 DEF IInv, ActiveOK, All
  <2> QED BY ZenonT(30), SMTT(30), <2>1, <2>2, <2>3 DEF IInv, ActiveOK
<1>9. Queues'
  <2>1. /\ {active} \cup Range(ready) \cup Range(terminated) \subseteq All
        /\ Idle \in {active} \cup Range(ready)
        /\ active \notin Range(ready) \cup Range(terminated)
        /\ Range(ready) \cap Range(terminated) = {}
    BY SeqRange DEF IInv, TypeOK, Queues, OnePlace, All
  <2>2. OnePlace'
    <3>1. \A t \in All \ {Boot} : stack'[t] = "live" =>
            t \in {active'} \cup Range(ready') \cup Range(terminated')
      BY ZenonT(30), <1>3 DEF IInv, Queues, OnePlace
    <3> QED BY ZenonT(30), <2>1, <3>1 DEF OnePlace
  <2>3. \A t \in ({active} \cup Range(ready) \cup Range(terminated))' :
          stack'[t] = "live" /\ (t # cpu => pc'[t] \in {"fresh", "saved_on", "saved_off"})
    <3> TAKE t \in ({active} \cup Range(ready) \cup Range(terminated))'
    <3>1. t \in {active} \cup Range(ready) \cup Range(terminated) /\ t # n /\ t \in All
      BY ZenonT(30), SMTT(30), <2>1
    <3>2. stack[t] = "live" /\ (t # cpu => pc[t] \in {"fresh", "saved_on", "saved_off"})
      BY ZenonT(30), SMTT(30), <3>1 DEF IInv, Queues
    <3> QED BY ZenonT(30), <3>1, <3>2, <1>3
  <2>4. (stack[Boot] = "live" /\ stack[cpu] = "live")'
    BY ZenonT(30), SMTT(30), <1>2, <1>3 DEF IInv, Queues, All
  <2>5. \A t \in All : stack'[t] # "live" => pc'[t] = "none"
    <3> SUFFICES ASSUME NEW t \in All, stack'[t] # "live", t # n
                 PROVE  pc'[t] = "none"
      BY ZenonT(30), <1>3
    <3>1. stack[t] # "live"
      BY ZenonT(30), SMTT(30), <1>3
    <3>2. t # cpu /\ pc[t] = "none"
      BY <3>1 DEF IInv, Queues
    <3> QED BY <1>3, <3>2
  <2> QED BY ZenonT(30), <1>2, <2>1, <2>2, <2>3, <2>4, <2>5 DEF Queues
<1> QED BY ZenonT(30), <1>2, <1>3, <1>4, <1>5, <1>6, <1>7, <1>8, <1>9

LEMMA KillIInv ==
  ASSUME IInv, NEW n \in Threads, Kill(n)
  PROVE  IInv'
<1>1. /\ pc[cpu] = "kill_locked" /\ ~allocLock /\ schedLock' = FALSE
      /\ UNCHANGED <<active, terminated, initialized, allocLock, vecLock, cpu,
                     intFlag, rsp0, time>>
  BY ZenonT(30) DEF Kill, At, machine
<1>2. /\ cpu \in Threads /\ cpu # Boot /\ below[cpu] = <<>> /\ pc[cpu] \in Code
      /\ active = cpu /\ ~Moving /\ ~vecLock
  BY ZenonT(30), Running, <1>1, CallerIsActive DEF Owner, ThreadOnly, StackShape, Bottom, Code
<1>3. /\ Caller \in {"start", "cleanup", "run"} /\ Owner(cpu, Caller)
      /\ StackShape(Caller, below[cpu])
  BY <1>2, CallerOK
<1>4. CASE n \in Range(ready)
  <2>1. /\ ready' = Unlink(ready, n) /\ Free(n)
        /\ pc' = [pc EXCEPT ![cpu] = Caller, ![n] = "none"]
    BY ZenonT(30), <1>4 DEF Kill
  <2>2. /\ ready \in Seq(All \ {Boot}) /\ IsInjective(ready)
        /\ terminated \in Seq(Threads) /\ IsInjective(terminated)
        /\ active \notin Range(ready) /\ Range(ready) \cap Range(terminated) = {}
    BY DEF IInv, TypeOK, Queues, OnePlace
  <2>3. /\ ready' \in Seq(All \ {Boot}) /\ IsInjective(ready')
        /\ Range(ready') = Range(ready) \ {n}
    BY <1>4, <2>1, <2>2, Unqueue
  <2>4. /\ Shapes' /\ Quiet' /\ OneRuns' /\ Flags' /\ ActiveOK' /\ Queues'
        /\ pc' \in [All -> PCs] /\ pc'[cpu] = Caller /\ below'[cpu] = <<>>
        /\ below' \in [All -> Seq(PCs)]
        /\ stack' \in [All -> {"none", "live", "freed"}]
    BY ZenonT(30), <1>1, <1>2, <1>3, <1>4, <2>1, <2>2, <2>3, Drop DEF Code, BootOnly,
       IdleOnly, ThreadOnly
  <2>5. TypeOK'
    BY ZenonT(30), <1>1, <2>3, <2>4 DEF IInv, TypeOK
  <2>6. LocksHeld'
    BY ZenonT(30), <1>1, <1>2, <1>3, <2>4 DEF LocksHeld, Top, Critical
  <2> QED BY ZenonT(30), <2>4, <2>5, <2>6 DEF IInv
<1>5. CASE n \notin Range(ready)
  <2>1. Goto(Caller) /\ UNCHANGED <<state, frames>>
    BY ZenonT(30), <1>1, <1>5 DEF Kill, state, frames
  <2>2. /\ Shapes' /\ Quiet' /\ OneRuns' /\ Queues'
        /\ pc' \in [All -> PCs] /\ pc'[cpu] = Caller
        /\ \A t \in All \ {cpu} : pc'[t] = pc[t]
    BY <1>1, <1>3, <2>1, GotoStep DEF PCs, Suspended
  <2>3. TypeOK'
    BY ZenonT(30), <1>1, <2>1, <2>2 DEF IInv, TypeOK, state, frames
  <2>4. /\ UNCHANGED <<below, active, initialized>> /\ pc'[cpu] = Caller
        /\ Top' = Caller /\ Top = "kill_locked" /\ Caller \in Code
    BY ZenonT(30), SMTT(30), <1>1, <1>2, <1>3, <2>1, <2>2 DEF Top, state, frames, Code, BootOnly,
       IdleOnly, ThreadOnly
  <2>5. LocksHeld'
    BY ZenonT(30), SMTT(30), <1>1, <1>2, <1>3, <2>4 DEF IInv, LocksHeld, Critical
  <2>6. Flags'
    BY ZenonT(30), SMTT(30), <1>1, <1>2, <1>3, <2>4 DEF IInv, Flags, InIsr, Code, BootOnly, IdleOnly,
       ThreadOnly, YieldCode
  <2>7. ActiveOK'
    BY <1>1, <1>2, <1>3, <2>4 DEF IInv, ActiveOK, Moving, Switching
  <2> QED BY ZenonT(30), <2>2, <2>3, <2>5, <2>6, <2>7 DEF IInv
<1> QED BY ZenonT(30), SMTT(30), <1>4, <1>5

LEMMA CleanupDropIInv == IInv /\ CleanupDrop => IInv'
<1> SUFFICES ASSUME IInv, CleanupDrop PROVE IInv'
  OBVIOUS
<1> DEFINE n == Head(terminated)
<1>1. /\ pc[cpu] = "cleanup_locked" /\ ~allocLock /\ terminated # <<>>
      /\ terminated' = Tail(terminated) /\ Free(n)
      /\ pc' = [pc EXCEPT ![n] = "none"]
      /\ UNCHANGED <<schedLock, active, ready, initialized, allocLock, vecLock,
                     cpu, intFlag, rsp0, time>>
  BY ZenonT(30) DEF CleanupDrop, At, machine
<1>2. /\ cpu = Idle /\ below[cpu] = <<>> /\ pc[cpu] \in Code /\ active = cpu
      /\ ~Moving /\ ~vecLock /\ schedLock
      /\ Owner(cpu, pc[cpu]) /\ StackShape(pc[cpu], below[cpu])
  BY ZenonT(30), Running, <1>1, CallerIsActive DEF Owner, IdleOnly, StackShape, Bottom, Code
<1>3. /\ ready \in Seq(All \ {Boot}) /\ IsInjective(ready)
      /\ terminated \in Seq(Threads) /\ IsInjective(terminated)
      /\ Range(ready) \cap Range(terminated) = {}
  BY DEF IInv, TypeOK, Queues, OnePlace
<1>4. /\ n \in Threads /\ terminated' \in Seq(Threads) /\ IsInjective(terminated')
      /\ Range(terminated') = Range(terminated) \ {n} /\ n \in Range(terminated)
      /\ Range(ready) = Range(ready) \ {n}
  BY <1>1, <1>3, Dequeue
<1> HIDE DEF n
<1>5. pc' = [pc EXCEPT ![cpu] = "cleanup_locked", ![n] = "none"]
  BY ZenonT(30), <1>1 DEF IInv, TypeOK
<1>6. /\ Shapes' /\ Quiet' /\ OneRuns' /\ Flags' /\ ActiveOK' /\ Queues'
      /\ pc' \in [All -> PCs] /\ pc'[cpu] = "cleanup_locked" /\ below'[cpu] = <<>>
      /\ below' \in [All -> Seq(PCs)]
      /\ stack' \in [All -> {"none", "live", "freed"}]
  BY ZenonT(30), <1>1, <1>2, <1>3, <1>4, <1>5, Drop DEF Code, IdleOnly
<1>7. TypeOK'
  BY ZenonT(30), <1>1, <1>4, <1>6 DEF IInv, TypeOK
<1>8. LocksHeld'
  BY ZenonT(30), <1>1, <1>2, <1>6 DEF LocksHeld, Top, Critical
<1> QED BY <1>6, <1>7, <1>8 DEF IInv
-----------------------------------------------------------------------------
(* All steps together *)

LEMMA NextIInv == IInv /\ [Next]_vars => IInv'
<1> SUFFICES ASSUME IInv, [Next]_vars PROVE IInv'
  OBVIOUS
<1>1. CASE UNCHANGED vars
  <2>1. TypeOK' /\ Shapes' /\ Quiet' /\ OneRuns'
    BY ZenonT(30), SMTT(30), <1>1 DEF vars, IInv, TypeOK, Shapes, Quiet, OneRuns
  <2>2. LocksHeld' /\ Flags' /\ ActiveOK'
    BY SMTT(30), <1>1 DEF vars, IInv, LocksHeld, Flags, ActiveOK, Moving, Top
  <2>3. Queues'
    BY ZenonT(30), <1>1 DEF vars, IInv, Queues, OnePlace
  <2> QED BY ZenonT(30), <2>1, <2>2, <2>3 DEF IInv
<1>2. CASE SwitchStep
  BY <1>2, SwitchSaveIInv, SwitchStackIInv, UnlockSchedulerIInv, PopFlagsIInv,
     GuardDropIInv, KickoffIInv DEF SwitchStep
<1>3. CASE SchedulerStep
  BY <1>3, LockStateIInv, ScheduleIInv, GetActiveTidIInv, ExitIInv, ReadyIInv,
     KillIInv, CleanupTryLockIInv, CleanupDropIInv, CleanupReturnIInv,
     YieldTryLockIInv, YieldRefuseIInv, YieldRotateIInv DEF SchedulerStep
<1>4. CASE IsrStep
  BY <1>4, LockVectorsIInv, TimerTriggerIInv, InterruptReturnIInv DEF IsrStep
<1>5. CASE HeapLock \/ HeapUnlock
  BY <1>5, HeapLockIInv, HeapUnlockIInv
<1>6. CASE \E irq \in {"pit", "dev"} : Interrupt(irq)
  BY <1>6, InterruptIInv
<1> QED BY <1>1, <1>2, <1>3, <1>4, <1>5, <1>6 DEF Next, CpuStep

(* The invariant holds in every reachable state, whatever the threads, the *)
(* length of the quantum and the depth to which interrupts nest.           *)
THEOREM Invariance == Spec => []IInv
BY InitIInv, NextIInv, PTL DEF Spec

(* Every variable of the model keeps its type; in particular the idle      *)
(* thread never enters terminated_threads.                                 *)
THEOREM TypeCorrect == Spec => []TypeOK
<1>1. IInv => TypeOK
  BY DEF IInv
<1> QED BY <1>1, Invariance, PTL

(* No two contexts are ever inside SchedulerState's critical section, in   *)
(* spite of the forced unlock in thread_switch and the second unlock of a  *)
(* resumed yield_cpu, and the lock is never left set by nobody.            *)
THEOREM MutualExclusion == Spec => []SchedulerExclusive
<1>1. ASSUME IInv PROVE SchedulerExclusive
  <2>1. /\ cpu \in All /\ below[cpu] \in Seq(PCs)
        /\ \A t \in All : DOMAIN below[t] = 1 .. Len(below[t])
    BY <1>1 DEF IInv, TypeOK
  <2>2. ASSUME NEW t \in All, Holds(t, Critical) PROVE t = cpu /\ schedLock
    <3>1. CASE pc[t] \in Critical
      BY ZenonT(30), <1>1, <3>1 DEF IInv, OneRuns, LocksHeld, Critical, Suspended
    <3>2. CASE \E i \in DOMAIN below[t] : below[t][i] \in Critical
      <4>1. PICK i \in 1 .. Len(below[t]) : below[t][i] \in Critical
        BY <3>2, <2>1
      <4>2. t = cpu /\ i = 1
        BY <1>1, <4>1 DEF IInv, Quiet
      <4>3. Top \in Critical
        BY <4>1, <4>2, <2>1 DEF Top
      <4> QED BY <1>1, <4>2, <4>3 DEF IInv, LocksHeld
    <3> QED BY ZenonT(30), <2>2, <3>1, <3>2 DEF Holds
  <2>3. schedLock => Holds(cpu, Critical)
    <3>1. below[cpu] # <<>> => 1 \in DOMAIN below[cpu]
      BY <2>1
    <3> QED BY <1>1, <3>1 DEF IInv, LocksHeld, Top, Holds
  <2>4. pc[cpu] \in Critical =>
          \A i \in DOMAIN below[cpu] : below[cpu][i] \notin Critical
    <3> SUFFICES ASSUME pc[cpu] \in Critical, NEW i \in 1 .. Len(below[cpu]),
                        below[cpu][i] \in Critical
                 PROVE  FALSE
      BY <2>1
    <3>1. i = 1 /\ below[cpu] # <<>>
      BY <1>1, <2>1 DEF IInv, Quiet
    <3> QED BY ZenonT(30), <1>1, <3>1 DEF IInv, LocksHeld, Top, Critical, InIsr
  <2> QED BY <2>2, <2>3, <2>4 DEF SchedulerExclusive
<1> QED BY <1>1, Invariance, PTL

(* No Spinlock::lock() on the scheduler, the heap or INT_VECTORS finds the *)
(* lock taken, in threads, in the timer's handler and in every handler     *)
(* that does not allocate (all but the keyboard's on its first event).     *)
THEOREM NoSpin == Spec => []NeverSpins
<1>1. IInv => NeverSpins
  <2> SUFFICES ASSUME IInv PROVE NeverSpins
    BY ZenonT(30)
  <2>1. pc[cpu] \in Code => below[cpu] = <<>>
    BY ZenonT(30), Running DEF StackShape, Bottom
  <2> QED BY <2>1 DEF IInv, LocksHeld, Top, NeverSpins, Code, BootOnly,
     IdleOnly, ThreadOnly, Critical
<1> QED BY <1>1, Invariance, PTL

(* No stack is freed while the CPU is on it or a switch can return to it. *)
THEOREM MemorySafe == Spec => []NoUseAfterFree
<1>1. IInv => NoUseAfterFree
  BY DEF IInv, Queues, NoUseAfterFree
<1> QED BY <1>1, Invariance, PTL

(* No thread is lost and none is queued twice. *)
THEOREM NoThreadLost == Spec => []OnePlace
<1>1. IInv => OnePlace
  BY DEF IInv, Queues
<1> QED BY <1>1, Invariance, PTL

(* Whoever calls the scheduler is active_thread. *)
THEOREM ActiveIsRunning == Spec => []ActiveRuns
<1>1. IInv => ActiveRuns
  <2> SUFFICES ASSUME IInv, cpu # Boot, active # cpu PROVE Holds(cpu, Switching)
    BY DEF ActiveRuns
  <2>1. Moving /\ below[cpu] \in Seq(PCs)
    BY DEF IInv, TypeOK, ActiveOK
  <2>2. below[cpu] # <<>> => 1 \in DOMAIN below[cpu]
    BY <2>1
  <2> QED BY <2>1, <2>2 DEF Moving, Top, Holds
<1> QED BY <1>1, Invariance, PTL

(* dequeue().unwrap() in exit() does not panic. *)
THEOREM ExitSucceeds == Spec => []ExitFindsThread
<1>1. IInv => ExitFindsThread
  <2> SUFFICES ASSUME IInv, pc[cpu] = "exit_locked" PROVE ready # <<>>
    BY DEF ExitFindsThread
  <2>1. cpu \in Threads /\ active = cpu
    BY ZenonT(30), Running, CallerIsActive DEF Owner, ThreadOnly
  <2>2. Idle \in Range(ready)
    BY ZenonT(30), <2>1 DEF IInv, Queues
  <2> QED BY <2>2 DEF Range
<1> QED BY <1>1, Invariance, PTL

(* A user thread enters the kernel on its own kernel stack. *)
THEOREM OwnKernelStack == Spec => []UserEntersOwnStack
<1>1. IInv => UserEntersOwnStack
  <2> SUFFICES ASSUME IInv, cpu \in UserThreads, pc[cpu] = "run" PROVE rsp0 = cpu
    BY DEF UserEntersOwnStack
  <2>1. below[cpu] = <<>>
    BY ZenonT(30), Running DEF StackShape, Bottom, Code, ThreadOnly
  <2> QED BY <2>1 DEF IInv, ActiveOK, Moving, Top, Switching
<1> QED BY <1>1, Invariance, PTL

(* Thread code runs with interrupts enabled, handlers with them disabled. *)
THEOREM InterruptsRestored == Spec => []InterruptFlag
<1>1. IInv => InterruptFlag
  BY DEF IInv, Flags, InterruptFlag, Code, IdleOnly, ThreadOnly, InIsr, YieldCode
<1> QED BY <1>1, Invariance, PTL

(* The CPU changes stacks only with the heap and INT_VECTORS unlocked. *)
THEOREM SwitchUnlocked == Spec => SwitchHoldsNoLock
<1>1. ASSUME IInv, [Next]_vars PROVE [cpu' # cpu => ~allocLock /\ ~vecLock]_vars
  <2> SUFFICES ASSUME cpu' # cpu PROVE ~allocLock /\ ~vecLock
    OBVIOUS
  <2>1. Schedule \/ SwitchStack
    BY ZenonT(30), <1>1 DEF Next, CpuStep, SwitchStep, SchedulerStep, IsrStep, vars,
       machine, SwitchSave, UnlockScheduler, PopFlags, GuardDrop, Kickoff,
       LockState, Lock, GetActiveTid, Exit, Ready, Kill, CleanupTryLock,
       CleanupDrop, CleanupReturn, YieldTryLock, YieldRefuse, YieldRotate,
       LockVectors, TimerTrigger, InterruptReturn, HeapLock, HeapUnlock,
       Interrupt
  <2>2. /\ pc[cpu] \in {"start_locked", "switch_on", "switch_off"}
        /\ Top # "heap"
    BY <1>1, <2>1 DEF Schedule, SwitchStack, At, IInv, LocksHeld, Top, InIsr
  <2> QED BY <1>1, <2>2 DEF IInv, LocksHeld
<1> QED BY <1>1, Invariance, PTL DEF Spec, SwitchHoldsNoLock
-----------------------------------------------------------------------------
(* The refinement.  Beside the inductive invariant the step of             *)
(* thread_switch needs to know where the thread that yields is queued.     *)

(* A thread that has queued itself and still runs is the last one queued. *)
QueuedLast ==
  HandingOver /\ cpu \in Range(ready) => ready[Len(ready)] = cpu

RInv == IInv /\ QueuedLast

(* What RoundRobin sees of a state. *)
visible == <<cpu, active, ready, terminated, stack>>

LEMMA Unseen ==
  ASSUME [Next]_vars,
         ~Schedule, ~Exit, ~CleanupDrop, ~YieldRotate, ~SwitchStack,
         \A n \in Threads : ~Ready(n) /\ ~Kill(n)
  PROVE  UNCHANGED visible
BY ZenonT(60) DEF Next, CpuStep, SwitchStep, SchedulerStep, IsrStep, vars, visible,
   machine, state, frames, SwitchSave, UnlockScheduler, PopFlags, GuardDrop, Kickoff,
   LockState, Lock, GetActiveTid, CleanupTryLock, CleanupReturn, YieldTryLock,
   YieldRefuse, LockVectors, TimerTrigger, InterruptReturn, HeapLock, HeapUnlock,
   Interrupt

LEMMA AtRest ==
  ASSUME IInv,
         pc[cpu] \in {"exit_locked", "kill_locked", "ready_locked",
                       "cleanup_locked", "yield_locked", "start_locked"}
  PROVE  ~HandingOver /\ Waiting = ready
<1>1. CASE pc[cpu] = "start_locked"
  BY <1>1, Running DEF Owner, BootOnly, HandingOver, Waiting
<1>2. CASE pc[cpu] # "start_locked"
  BY <1>2, CallerIsActive DEF HandingOver, Waiting
<1> QED BY <1>1, <1>2

(* exit and yield_cpu have chosen the next thread: nothing to see yet. *)
LEMMA Rotate ==
  ASSUME NEW S, NEW q \in Seq(S), NEW e \in S, q # <<>>
  PROVE  /\ Append(Tail(q), e)[Len(Append(Tail(q), e))] = e
         /\ <<Head(q)>> \o SubSeq(Append(Tail(q), e), 1, Len(Append(Tail(q), e)) - 1) = q
         /\ <<Head(q)>> \o Tail(q) = q
<1>1. /\ Len(q) \in Nat \ {0} /\ Tail(q) \in Seq(S) /\ Len(Tail(q)) = Len(q) - 1
      /\ \A i \in 1 .. Len(q) - 1 : Tail(q)[i] = q[i + 1]
      /\ Head(q) = q[1] /\ q[1] \in S
  BY HeadAndTail, NonEmpty, SeqDomain
<1> DEFINE r == Append(Tail(q), e)
           u == SubSeq(r, 1, Len(r) - 1)
<1>2. /\ r \in Seq(S) /\ Len(r) = Len(q) /\ r[Len(q)] = e
      /\ \A i \in 1 .. Len(q) - 1 : r[i] = q[i + 1]
  BY <1>1, Appended
<1>3. /\ u \in Seq(S) /\ Len(u) = Len(q) - 1
      /\ \A i \in 1 .. Len(q) - 1 : u[i] = q[i + 1]
  <2>1. Len(r) - 1 \in 0 .. Len(r) /\ Len(r) - 1 = Len(q) - 1
    BY <1>1, <1>2
  <2>2. /\ u \in Seq(S) /\ Len(u) = Len(r) - 1 /\ \A i \in 1 .. Len(r) - 1 : u[i] = r[i]
    BY <1>2, <2>1, FrontOf
  <2> QED BY <1>2, <2>1, <2>2
<1>4. u = Tail(q)
  BY <1>1, <1>3, SameSeq
<1>5. <<Head(q)>> \o Tail(q) = q
  <2> DEFINE c == <<Head(q)>> \o Tail(q)
  <2>1. <<Head(q)>> \in Seq(S) /\ Len(<<Head(q)>>) = 1 /\ <<Head(q)>>[1] = q[1]
    BY <1>1
  <2>2. /\ c \in Seq(S) /\ Len(c) = Len(q)
        /\ \A i \in 1 .. Len(q) : c[i] = IF i <= 1 THEN <<Head(q)>>[i] ELSE Tail(q)[i - 1]
    BY <2>1, <1>1, Joined
  <2>3. \A i \in 1 .. Len(q) : c[i] = q[i]
    BY <2>1, <2>2, <1>1
  <2> QED BY <2>2, <2>3, SameSeq
<1> QED BY <1>2, <1>4, <1>5

(* thread_switch loads the next stack: the first in line runs. *)
LEMMA Unrotate ==
  ASSUME NEW S, NEW q \in Seq(S), NEW e \in S
  PROVE  /\ <<e>> \o q # <<>> /\ Head(<<e>> \o q) = e /\ Tail(<<e>> \o q) = q
         /\ q # <<>> =>
              LET w == <<e>> \o SubSeq(q, 1, Len(q) - 1) IN
              w # <<>> /\ Head(w) = e /\ Append(Tail(w), q[Len(q)]) = q
<1>1. \A p \in Seq(S) : <<e>> \o p # <<>> /\ Head(<<e>> \o p) = e /\ Tail(<<e>> \o p) = p
  <2> SUFFICES ASSUME NEW p \in Seq(S)
               PROVE  <<e>> \o p # <<>> /\ Head(<<e>> \o p) = e /\ Tail(<<e>> \o p) = p
    OBVIOUS
  <2> DEFINE c == <<e>> \o p
  <2>1. <<e>> \in Seq(S) /\ Len(<<e>>) = 1 /\ <<e>>[1] = e /\ Len(p) \in Nat
    BY SeqDomain
  <2>2. /\ c \in Seq(S) /\ Len(c) = 1 + Len(p)
        /\ \A i \in 1 .. 1 + Len(p) : c[i] = IF i <= 1 THEN <<e>>[i] ELSE p[i - 1]
    BY <2>1, Joined
  <2>3. c # <<>> /\ Head(c) = e
    BY <2>1, <2>2, NonEmpty
  <2>4. /\ Tail(c) \in Seq(S) /\ Len(Tail(c)) = Len(p)
        /\ \A i \in 1 .. Len(p) : Tail(c)[i] = c[i + 1]
    BY <2>1, <2>2, <2>3, HeadAndTail
  <2>5. \A i \in 1 .. Len(p) : Tail(c)[i] = p[i]
    BY <2>1, <2>2, <2>4
  <2>6. Tail(c) = p
    BY <2>4, <2>5, SameSeq
  <2> QED BY <2>3, <2>6
<1>2. ASSUME q # <<>>
      PROVE  /\ SubSeq(q, 1, Len(q) - 1) \in Seq(S)
             /\ Append(SubSeq(q, 1, Len(q) - 1), q[Len(q)]) = q
  <2> DEFINE f == SubSeq(q, 1, Len(q) - 1)
             a == Append(f, q[Len(q)])
  <2>1. Len(q) \in Nat \ {0} /\ \A i \in 1 .. Len(q) : q[i] \in S
    BY <1>2, NonEmpty, SeqDomain
  <2> HIDE DEF f
  <2>2. /\ f \in Seq(S) /\ Len(f) = Len(q) - 1
        /\ \A i \in 1 .. Len(q) - 1 : f[i] = q[i]
    <3> DEFINE n == Len(q) - 1
    <3>1. n \in 0 .. Len(q)
      BY <2>1
    <3>2. f = SubSeq(q, 1, n)
      BY DEF f
    <3> HIDE DEF n
    <3>3. /\ f \in Seq(S) /\ Len(f) = n
          /\ \A i \in 1 .. n : f[i] = q[i]
      BY <3>1, <3>2, FrontOf
    <3> QED BY <3>3 DEF n
  <2>3. /\ a \in Seq(S) /\ Len(a) = Len(q) /\ a[Len(q)] = q[Len(q)]
        /\ \A i \in 1 .. Len(q) - 1 : a[i] = q[i]
    BY <2>1, <2>2, Appended
  <2>4. \A i \in 1 .. Len(q) : a[i] = q[i]
    BY <2>1, <2>3
  <2>5. a = q
    BY <2>3, <2>4, SameSeq
  <2> QED BY <2>2, <2>5 DEF f
<1> QED BY <1>1, <1>2

LEMMA AppendRange ==
  ASSUME NEW S, NEW q \in Seq(S), NEW e
  PROVE  Range(Append(q, e)) = Range(q) \cup {e}
<1>1. /\ DOMAIN q = 1 .. Len(q) /\ Len(q) \in Nat
      /\ q \in Seq(S \cup {e}) /\ e \in S \cup {e}
  OBVIOUS
<1>2. /\ DOMAIN Append(q, e) = 1 .. Len(q) + 1
      /\ \A i \in 1 .. Len(q) : Append(q, e)[i] = q[i]
      /\ Append(q, e)[Len(q) + 1] = e
  BY <1>1, Appended, SeqDomain
<1> QED BY <1>1, <1>2 DEF Range

LEMMA UnlinkOne ==
  ASSUME NEW S, NEW q \in Seq(S), IsInjective(q), NEW x \in Range(q)
  PROVE  \E i \in DOMAIN q :
           /\ q[i] = x
           /\ Unlink(q, x) = SubSeq(q, 1, i - 1) \o SubSeq(q, i + 1, Len(q))
<1>1. DOMAIN q = 1 .. Len(q) /\ Len(q) \in Nat
  BY SeqDomain
<1>2. PICK k \in 1 .. Len(q) : q[k] = x
  BY <1>1 DEF Range
<1>3. \A i \in 1 .. Len(q) : q[i] = x <=> i = k
  BY <1>1, <1>2 DEF IsInjective
<1>4. FirstMatch(q, x) = k
  BY <1>1, <1>2, <1>3 DEF FirstMatch
<1> QED BY ZenonT(30), <1>1, <1>2, <1>4 DEF Unlink

LEMMA QueuesOK ==
  ASSUME IInv
  PROVE  /\ ready \in Seq(All \ {Boot}) /\ IsInjective(ready)
         /\ terminated \in Seq(Threads) /\ IsInjective(terminated)
         /\ active \in All \ {Boot} /\ active \notin Range(ready) \cup Range(terminated)
         /\ Range(ready) \cap Range(terminated) = {}
         /\ \A t \in Range(ready) \cup Range(terminated) : stack[t] = "live"
         /\ stack \in [All -> {"none", "live", "freed"}] /\ cpu \in All
BY DEF IInv, TypeOK, Queues, OnePlace

LEMMA NextRInv == RInv /\ [Next]_vars => RInv'
<1> SUFFICES ASSUME IInv, QueuedLast, [Next]_vars PROVE RInv'
  BY DEF RInv
<1>1. IInv'
  BY NextIInv
<1> SUFFICES QueuedLast'
  BY <1>1 DEF RInv
<1>2. CASE Schedule \/ SwitchStack
  BY ZenonT(30), <1>2 DEF Schedule, SwitchStack, state, QueuedLast, HandingOver
<1>3. CASE CleanupDrop
  BY <1>3, QueuesOK DEF CleanupDrop, machine, QueuedLast, HandingOver
<1>4. CASE \E n \in Threads : Ready(n) \/ Kill(n)
  <2>1. /\ pc[cpu] \in {"ready_locked", "kill_locked"}
        /\ cpu' = cpu /\ active' = active
    BY <1>4 DEF Ready, Kill, At, machine
  <2> QED BY ZenonT(30), SMTT(30), <2>1, AtRest DEF QueuedLast, HandingOver
<1>5. CASE Exit
  <2>1. /\ pc[cpu] = "exit_locked" /\ ready # <<>> /\ ready' = Tail(ready) /\ cpu' = cpu
    BY ZenonT(30), SMTT(30), <1>5 DEF Exit, At, machine
  <2>2. cpu = active
    BY ZenonT(30), <2>1, CallerIsActive, Running DEF Owner, ThreadOnly
  <2>3. cpu \notin Range(ready')
    BY <2>1, <2>2, QueuesOK, Dequeue
  <2> QED BY <2>3, <2>1 DEF QueuedLast
<1>6. CASE YieldRotate
  <2>1. /\ pc[cpu] = "yield_locked" /\ ready # <<>> /\ initialized
        /\ ready' = Append(Tail(ready), active) /\ cpu' = cpu
    BY ZenonT(30), <1>6 DEF YieldRotate, CannotYield, At, machine
  <2>2. cpu = active
    BY <2>1, CallerIsActive DEF IInv, ActiveOK
  <2> QED BY <2>1, <2>2, QueuesOK, Rotate DEF QueuedLast
<1>7. CASE UNCHANGED visible
  BY <1>7 DEF visible, QueuedLast, HandingOver
<1> QED BY <1>2, <1>3, <1>4, <1>5, <1>6, <1>7, Unseen


LEMMA InitRR == Init => RR!Init /\ RInv
<1> SUFFICES ASSUME Init PROVE RR!Init /\ RInv
  OBVIOUS
<1>1. OnCpu = Idle /\ Waiting = <<>>
  BY DEF Init, OnCpu, Waiting, HandingOver
<1>2. Dead = {}
  BY DEF Init, Dead, Range
<1>3. Unborn = Threads
  BY DEF Init, Unborn, All
<1>4. QueuedLast
  BY DEF Init, QueuedLast, HandingOver
<1> QED BY <1>1, <1>2, <1>3, <1>4, InitIInv DEF RR!Init, RInv

(* Dropping a live thread makes no thread unborn. *)
LEMMA DropUnborn ==
  ASSUME IInv, NEW n \in Range(ready) \cup Range(terminated), Free(n)
  PROVE  Unborn' = Unborn
<1>1. stack[n] = "live" /\ stack' = [stack EXCEPT ![n] = "freed"]
      /\ stack \in [All -> {"none", "live", "freed"}]
  BY ZenonT(30), QueuesOK DEF Free
<1> QED BY <1>1 DEF Unborn, All

LEMMA StepRR == RInv /\ [Next]_vars => [RR!Next]_(RR!vars)
<1> SUFFICES ASSUME IInv, QueuedLast, [Next]_vars
             PROVE  RR!Next \/ UNCHANGED <<OnCpu, Waiting, Dead, Unborn>>
  BY ZenonT(30) DEF RR!vars, RInv
<1>1. CASE UNCHANGED visible
  BY ZenonT(30), <1>1 DEF visible, OnCpu, Waiting, HandingOver, Dead, Unborn
<1>2. CASE Schedule
  <2>1. /\ pc[cpu] = "start_locked" /\ cpu' = active
        /\ UNCHANGED <<active, ready, terminated, stack>>
    BY ZenonT(30), SMTT(30), <1>2 DEF Schedule, At, frames
  <2>2. cpu = Boot /\ active = Idle
    BY <2>1, Running DEF Owner, BootOnly, IInv, ActiveOK
  <2>3. Range(terminated) \subseteq Threads
    BY QueuesOK, SeqRange, Zenon
  <2>4. Boot \notin Range(terminated) /\ Idle \notin Range(terminated)
    BY <2>3
  <2> QED BY <2>1, <2>2, <2>4 DEF OnCpu, Waiting, HandingOver, Dead, Unborn
<1>3. CASE \E n \in Threads : Ready(n)
  <2>1. PICK n \in Threads : Ready(n)
    BY ZenonT(30), SMTT(30), <1>3
  <2>2. /\ pc[cpu] = "ready_locked" /\ stack[n] = "none"
        /\ stack' = [stack EXCEPT ![n] = "live"] /\ ready' = Append(ready, n)
        /\ UNCHANGED <<active, terminated, cpu>>
    BY ZenonT(30), SMTT(30), <2>1 DEF Ready, At, machine
  <2>3. Waiting = ready /\ Waiting' = ready'
    BY ZenonT(30), <2>2, AtRest DEF Waiting, HandingOver
  <2>4. n \in Unborn /\ Unborn' = Unborn \ {n}
    <3>1. stack \in [All -> {"none", "live", "freed"}] /\ n \in All
      BY ZenonT(30), QueuesOK DEF All
    <3> QED BY ZenonT(30), <2>2, <3>1 DEF Unborn, All
  <2>5. RR!Start(n)
    BY ZenonT(30), <2>2, <2>3, <2>4 DEF RR!Start, OnCpu, Dead
  <2> QED BY <2>5 DEF RR!Next
<1>4. CASE \E n \in Threads : Kill(n)
  <2>1. PICK n \in Threads : Kill(n)
    BY <1>4
  <2>2. pc[cpu] = "kill_locked" /\ UNCHANGED <<active, terminated, cpu>>
    BY <2>1 DEF Kill, At, machine
  <2>3. Waiting = ready /\ Waiting' = ready'
    BY <2>2, AtRest DEF Waiting, HandingOver
  <2>4. CASE n \in Range(ready)
    <3>1. ready' = Unlink(ready, n) /\ Free(n)
      BY ZenonT(30), <2>1, <2>4 DEF Kill
    <3>2. Unborn' = Unborn
      BY <2>4, <3>1, DropUnborn
    <3>3. RR!Kill(n)
      BY ZenonT(30), <2>2, <2>3, <2>4, <3>1, <3>2, UnlinkOne, QueuesOK DEF RR!Kill, OnCpu, Dead
    <3> QED BY ZenonT(30), SMTT(30), <3>3 DEF RR!Next
  <2>5. CASE n \notin Range(ready)
    BY ZenonT(30), <2>1, <2>2, <2>3, <2>5 DEF Kill, OnCpu, Dead, Unborn
  <2> QED BY ZenonT(30), SMTT(30), <2>4, <2>5
<1>5. CASE CleanupDrop
  <2> DEFINE n == Head(terminated)
  <2>1. /\ pc[cpu] = "cleanup_locked" /\ terminated # <<>> /\ Free(n)
        /\ terminated' = Tail(terminated) /\ UNCHANGED <<active, ready, cpu>>
    BY ZenonT(30), <1>5 DEF CleanupDrop, At, machine
  <2>2. Waiting = ready /\ Waiting' = ready
    BY ZenonT(30), <2>1, AtRest DEF Waiting, HandingOver
  <2>3. /\ n \in Threads /\ Range(terminated) = {n} \cup Range(terminated')
        /\ n \notin Range(terminated')
    BY ZenonT(30), <2>1, QueuesOK, Dequeue
  <2>4. Unborn' = Unborn
    BY ZenonT(30), SMTT(30), <2>1, <2>3, DropUnborn
  <2>5. n # cpu
    BY ZenonT(30), SMTT(30), <2>1, <2>3, QueuesOK, CallerIsActive, Running DEF Owner, IdleOnly
  <2>6. RR!Reap(n)
    BY ZenonT(30), SMTT(30), <2>1, <2>2, <2>3, <2>4, <2>5 DEF RR!Reap, OnCpu, Dead
  <2> QED BY <2>3, <2>6 DEF RR!Next
<1>6. CASE Exit \/ YieldRotate
  <2>1. /\ pc[cpu] \in {"exit_locked", "yield_locked"} /\ ready # <<>>
        /\ active' = Head(ready) /\ UNCHANGED <<cpu, stack>>
        /\ \/ Exit /\ ready' = Tail(ready) /\ terminated' = Append(terminated, active)
           \/ ready' = Append(Tail(ready), active) /\ terminated' = terminated
    BY SMTT(30), <1>6 DEF Exit, YieldRotate, CannotYield, At, machine, frames
  <2>2. cpu # Boot /\ active = cpu
    BY ZenonT(30), <1>6, CallerIsActive, Running
       DEF Exit, YieldRotate, CannotYield, At, IInv, ActiveOK, Owner, ThreadOnly
  <2>3. /\ Head(ready) # cpu /\ cpu \notin Range(Tail(ready))
        /\ Tail(ready) \in Seq(All \ {Boot}) /\ IsInjective(Tail(ready))
    BY <2>1, <2>2, QueuesOK, Dequeue
  <2>4. Waiting = ready /\ HandingOver'
    BY <2>1, <2>2, <2>3 DEF Waiting, HandingOver
  <2>5. Waiting' = ready
    <3>1. CASE ready' = Tail(ready)
      BY SMTT(30), <3>1, <2>1, <2>3, <2>4, QueuesOK, Rotate DEF Waiting
    <3>2. CASE ready' = Append(Tail(ready), active)
      <4>1. cpu \in Range(ready')
        <5>1. Range(Append(Tail(ready), active)) = Range(Tail(ready)) \cup {active}
          BY <2>3, AppendRange, Zenon
        <5> QED BY <5>1, <3>2, <2>2
      <4> QED BY <3>2, <4>1, <2>1, <2>4, QueuesOK, Rotate DEF Waiting
    <3> QED BY ZenonT(30), <2>1, <3>1, <3>2
  <2>6. Dead' = Dead
    <3>1. CASE terminated' = Append(terminated, active)
      <4>1. Range(terminated') = Range(terminated) \cup {active}
        BY <3>1, QueuesOK, AppendRange
      <4> QED BY ZenonT(30), <4>1, <2>1, <2>2 DEF Dead
    <3>2. CASE terminated' = terminated
      BY <3>2, <2>1 DEF Dead
    <3> QED BY ZenonT(30), <2>1, <3>1, <3>2
  <2> QED BY ZenonT(30), <2>1, <2>4, <2>5, <2>6 DEF OnCpu, Unborn
<1>7. CASE SwitchStack
  <2>1. /\ pc[cpu] \in {"switch_on", "switch_off"} /\ cpu' = active
        /\ UNCHANGED <<active, ready, terminated, stack>>
    BY SMTT(30), <1>7 DEF SwitchStack, At, state, frames
  <2>2. HandingOver /\ cpu # Boot /\ cpu # active /\ ~HandingOver' /\ active # Boot
    BY ZenonT(30), Running, <2>1, QueuesOK DEF IInv, ActiveOK, Moving, Switching, Owner, BootOnly,
       InIsr, HandingOver
  <2>3. OnCpu = cpu /\ OnCpu' = active /\ Waiting' = ready /\ Unborn' = Unborn
    BY ZenonT(30), <2>1, <2>2 DEF OnCpu, Waiting, Unborn
  <2>4. cpu \in Range(ready) \/ cpu \in Range(terminated)
    BY ZenonT(30), <2>2, QueuesOK DEF IInv, Queues, OnePlace
  <2>5. CASE cpu \in Range(ready)
    <3>1. /\ ready # <<>> /\ ready[Len(ready)] = cpu
          /\ Waiting = <<active>> \o SubSeq(ready, 1, Len(ready) - 1)
      BY <2>2, <2>5 DEF QueuedLast, Waiting, Range
    <3>2. Waiting # <<>> /\ Head(Waiting) = active /\ Append(Tail(Waiting), cpu) = ready
      BY <3>1, QueuesOK, Unrotate
    <3>3. Dead' = Dead
      BY <2>1, <2>5, QueuesOK DEF Dead
    <3>4. RR!Yield
      BY <2>3, <3>2, <3>3 DEF RR!Yield
    <3> QED BY <3>4 DEF RR!Next
  <2>6. CASE cpu \in Range(terminated)
    <3>1. cpu \notin Range(ready) /\ cpu \in Threads
      <4>1. terminated \in Seq(Threads) /\ Range(ready) \cap Range(terminated) = {}
        BY QueuesOK
      <4>2. \A i \in DOMAIN terminated : terminated[i] \in Threads
        BY <4>1, SeqDomain
      <4> QED BY ZenonT(30), <4>1, <4>2, <2>6 DEF Range
    <3>2. Waiting = <<active>> \o ready
      BY ZenonT(30), <2>2, <3>1 DEF Waiting
    <3>3. Waiting # <<>> /\ Head(Waiting) = active /\ Tail(Waiting) = ready
      BY <3>2, QueuesOK, Unrotate
    <3>4. Dead' = Dead \cup {cpu}
      BY ZenonT(30), <2>1, <2>6, QueuesOK DEF Dead
    <3>5. RR!Exit
      BY <2>3, <3>1, <3>3, <3>4 DEF RR!Exit
    <3> QED BY ZenonT(30), <3>5 DEF RR!Next
  <2> QED BY <2>4, <2>5, <2>6
<1> QED BY <1>1, <1>2, <1>3, <1>4, <1>5, <1>6, <1>7, Unseen

(* The scheduler, with its locks, interrupts and context switch in several *)
(* steps, implements round robin: threads run in the order in which they   *)
(* were made ready or yielded, whatever the interleaving.                  *)
THEOREM Refinement == Spec => IsRoundRobin
BY InitRR, NextRInv, StepRR, PTL DEF Spec, IsRoundRobin, RR!Spec
=============================================================================
