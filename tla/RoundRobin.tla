----------------------------- MODULE RoundRobin -----------------------------
(***************************************************************************)
(* What the scheduler promises: one thread runs, the others wait in a FIFO *)
(* queue, and who runs changes in one step.  There are no locks, stacks or *)
(* interrupts here.                                                        *)
(***************************************************************************)
EXTENDS Naturals, Sequences

CONSTANTS Threads, Idle

VARIABLES
  running,  \* the thread that has the CPU
  queue,    \* those that wait for it, the next one first
  dead,     \* those that have exited and are still to be freed
  unborn    \* those that have not been made yet

vars == <<running, queue, dead, unborn>>

Init == running = Idle /\ queue = <<>> /\ dead = {} /\ unborn = Threads

Start(n) ==
  /\ n \in unborn
  /\ unborn' = unborn \ {n}
  /\ queue' = Append(queue, n)
  /\ UNCHANGED <<running, dead>>

Yield ==
  /\ queue # <<>>
  /\ running' = Head(queue)
  /\ queue' = Append(Tail(queue), running)
  /\ UNCHANGED <<dead, unborn>>

Exit ==
  /\ running # Idle /\ queue # <<>>
  /\ running' = Head(queue)
  /\ queue' = Tail(queue)
  /\ dead' = dead \cup {running}
  /\ UNCHANGED unborn

Kill(n) ==
  /\ \E i \in DOMAIN queue :
       /\ queue[i] = n
       /\ queue' = SubSeq(queue, 1, i - 1) \o SubSeq(queue, i + 1, Len(queue))
  /\ UNCHANGED <<running, dead, unborn>>

Reap(n) ==
  /\ n \in dead
  /\ dead' = dead \ {n}
  /\ UNCHANGED <<running, queue, unborn>>

Next == \/ Yield \/ Exit
        \/ \E n \in Threads : Start(n) \/ Kill(n) \/ Reap(n)

Spec == Init /\ [][Next]_vars
=============================================================================
