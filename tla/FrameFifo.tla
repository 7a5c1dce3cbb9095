----------------------------- MODULE FrameFifo -----------------------------
(* What the users of a PacketQueue rely on: a first-in first-out queue of  *)
(* bounded length that drops, and counts, what it cannot take.             *)
EXTENDS Naturals, Sequences

CONSTANTS Frames, TooLarge, Capacity, None

VARIABLES
  queue,
  dropped,
  result    \* returned by the last call of pop

Init == queue = <<>> /\ dropped = 0 /\ result = None

Push(f) ==
  /\ Len(queue) < Capacity /\ f \notin TooLarge
  /\ queue' = Append(queue, f)
  /\ UNCHANGED <<dropped, result>>

Drop(f) ==
  /\ Len(queue) = Capacity \/ f \in TooLarge
  /\ dropped' = dropped + 1
  /\ UNCHANGED <<queue, result>>

Pop ==
  /\ queue # <<>>
  /\ result' = Head(queue)
  /\ queue' = Tail(queue)
  /\ UNCHANGED dropped

PopEmpty == queue = <<>> /\ result' = None /\ UNCHANGED <<queue, dropped>>

Next == (\E f \in Frames : Push(f) \/ Drop(f)) \/ Pop \/ PopEmpty

Spec == Init /\ [][Next]_<<queue, dropped, result>>
=============================================================================
