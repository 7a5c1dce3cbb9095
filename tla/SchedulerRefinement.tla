------------------------ MODULE SchedulerRefinement ------------------------
(* Scheduler implements RoundRobin: seen from outside, the context switch  *)
(* is one step, the load of rsp.  Until then the old thread still runs and *)
(* the thread in active_thread is still first in the queue.                *)
EXTENDS Scheduler

HandingOver == cpu \notin {Boot, active}

Waiting ==
  IF ~HandingOver THEN ready
  ELSE <<active>> \o IF cpu \in Range(ready)
                     THEN SubSeq(ready, 1, Len(ready) - 1) ELSE ready

OnCpu == IF cpu = Boot THEN Idle ELSE cpu
Dead == Range(terminated) \ {cpu}

RR == INSTANCE RoundRobin WITH
  running <- OnCpu, queue <- Waiting, dead <- Dead, unborn <- Unborn

(* Every step of the scheduler, with its locks, interrupts and two-part    *)
(* context switch, is a step of RoundRobin or changes nothing it can see.  *)
IsRoundRobin == RR!Spec
=============================================================================
