---------------------------- MODULE PacketQueue ----------------------------
(***************************************************************************)
(* The ring buffer of Ethernet frames in front of and behind the network   *)
(* card.  Its users hold the lock of the RxState or TxState it is part of, *)
(* so push and pop are actions.  A frame stands for its bytes; those in    *)
(* TooLarge are longer than a slot of the buffer (2048 bytes).             *)
(*                                                                         *)
(* An operator Name_Defect is Name with a plausible mistake in the code;   *)
(* it is not part of the specification.                                    *)
(***************************************************************************)
EXTENDS Naturals, Sequences

CONSTANTS
  Frames, TooLarge,
  Capacity,     \* QUEUE_CAPACITY (64)
  None,         \* None of pop, and an unused slot
  MaxDropped    \* bound on dropped_packets

ASSUME PacketQueueAssumption ==
  /\ Capacity \in Nat \ {0} /\ MaxDropped \in Nat
  /\ TooLarge \subseteq Frames /\ None \notin Frames

VARIABLES buffer, head, tail, size, dropped,
          result   \* returned by the last call of pop
vars == <<buffer, head, tail, size, dropped, result>>

Slots == 0 .. Capacity - 1

TypeOK ==
  /\ buffer \in [Slots -> Frames \cup {None}]
  /\ head \in Slots /\ tail \in Slots /\ size \in 0 .. Capacity
  /\ dropped \in Nat
  /\ result \in Frames \cup {None}

Init ==
  /\ buffer = [i \in Slots |-> None]
  /\ head = 0 /\ tail = 0 /\ size = 0 /\ dropped = 0
  /\ result = None

(* Full is tested before too large; both count the frame as dropped. *)
PushDrops(f) ==
  /\ size = Capacity \/ f \in TooLarge
  /\ dropped < MaxDropped
  /\ dropped' = dropped + 1
  /\ UNCHANGED <<buffer, head, tail, size, result>>

Push_NoFullCheck(f) ==
  /\ f \notin TooLarge
  /\ buffer' = [buffer EXCEPT ![head] = f]
  /\ head' = (head + 1) % Capacity
  /\ size' = IF size < Capacity THEN size + 1 ELSE size
  /\ UNCHANGED <<tail, dropped, result>>

Push(f) ==
  /\ size # Capacity /\ f \notin TooLarge
  /\ buffer' = [buffer EXCEPT ![head] = f]
  /\ head' = (head + 1) % Capacity
  /\ size' = size + 1
  /\ UNCHANGED <<tail, dropped, result>>

Pop_KeepsSize ==
  /\ size # 0
  /\ result' = buffer[tail]
  /\ tail' = (tail + 1) % Capacity
  /\ UNCHANGED <<buffer, head, size, dropped>>

Pop ==
  /\ size # 0
  /\ result' = buffer[tail]
  /\ tail' = (tail + 1) % Capacity
  /\ size' = size - 1
  /\ UNCHANGED <<buffer, head, dropped>>

PopEmpty ==
  /\ size = 0
  /\ result' = None
  /\ UNCHANGED <<buffer, head, tail, size, dropped>>

Next == (\E f \in Frames : Push(f) \/ PushDrops(f)) \/ Pop \/ PopEmpty

Spec == Init /\ [][Next]_vars
-----------------------------------------------------------------------------
(* The frames in the order in which pop returns them. *)
Contents == [i \in 1 .. size |-> buffer[(tail + i - 1) % Capacity]]

(* head is where tail and size say it is, and what lies between them was   *)
(* pushed.                                                                 *)
Inv ==
  /\ TypeOK
  /\ head = (tail + size) % Capacity
  /\ \A i \in 1 .. size : Contents[i] \in Frames

Fifo == INSTANCE FrameFifo WITH queue <- Contents

(* The ring buffer is a first-in first-out queue: head, tail and size      *)
(* agree across every wrap-around, a full queue loses no frame it holds,   *)
(* and pop returns what was pushed, never a stale slot.                    *)
IsFifo == Fifo!Spec
=============================================================================
