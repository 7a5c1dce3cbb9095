-------------------------- MODULE MCListAllocator --------------------------
(* Layouts below a ListNode, not a multiple of its alignment, larger than  *)
(* one node, and aligned to more than the start of most free blocks.       *)
EXTENDS ListAllocatorProofs

Layout(size, align) == [size |-> size, align |-> align]

MCLayouts == {Layout(3, 1), Layout(20, 4), Layout(32, 8), Layout(16, 32)}
=============================================================================
