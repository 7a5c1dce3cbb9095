---------------------------- MODULE LinkedQueue ----------------------------
(***************************************************************************)
(* The singly linked queue of library/queue.rs.  Nodes own their           *)
(* successors, so the nodes reachable from head are a sequence; enqueue    *)
(* appends, dequeue takes the head.                                        *)
(***************************************************************************)
EXTENDS Naturals, Sequences, Functions

(* remove: the walk from head stops at the first node that matches, and    *)
(* its successor takes its place.                                          *)
FirstMatch(q, x) ==
  CHOOSE i \in DOMAIN q : q[i] = x /\ \A j \in 1 .. i - 1 : q[j] # x
Unlink(q, x) ==
  LET i == FirstMatch(q, x) IN SubSeq(q, 1, i - 1) \o SubSeq(q, i + 1, Len(q))
=============================================================================
