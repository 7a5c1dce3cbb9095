--------------------------- MODULE ListAllocator ---------------------------
(***************************************************************************)
(* The linked list allocator behind every Box, Vec and String of the       *)
(* kernel.  The free list is the sequence of the nodes behind head, in the *)
(* order of their next pointers; a node lies at the start of the block it  *)
(* describes.  Addresses and sizes are in bytes.                           *)
(*                                                                         *)
(* One call runs under the lock of ALLOCATOR (see Scheduler) and is one    *)
(* action.  Layouts bounds the layouts the program asks for.  realloc is   *)
(* the default of GlobalAlloc, an alloc followed by a dealloc.             *)
(*                                                                         *)
(* An operator Name_Defect is Name with a plausible mistake in the code;   *)
(* it is not part of the specification.                                    *)
(***************************************************************************)
EXTENDS Integers, Sequences, Functions

CONSTANTS
  HeapStart, HeapSize,  \* arguments of init
  Layouts               \* layouts requested: records of size and align

NodeSize  == 16   \* size_of::<ListNode>()
NodeAlign == 8    \* align_of::<ListNode>()

ASSUME ListAllocatorAssumption ==
  /\ HeapStart \in Nat \ {0} /\ HeapStart % NodeAlign = 0
  /\ HeapSize \in Nat /\ HeapSize >= NodeSize /\ HeapSize % NodeAlign = 0
  /\ \A l \in Layouts :  \* an alignment is a power of two
       /\ l.size \in Nat \ {0} /\ l.align \in Nat \ {0}
       /\ l.align % NodeAlign = 0 \/ NodeAlign % l.align = 0

VARIABLES
  free,      \* the free list: sequence of blocks
  live,      \* what the program has allocated and not freed
  leaked,    \* bytes between a block's start and the aligned address
  panicked   \* add_free_block has found an overlap
vars == <<free, live, leaked, panicked>>

Block(a, n) == [start |-> a, size |-> n]
End(b) == b.start + b.size
Blocks == [start : Nat, size : Nat]

TypeOK ==
  /\ free \in Seq(Blocks)
  /\ leaked \in SUBSET Blocks
  /\ live \in SUBSET [start : Nat, layout : Layouts]
  /\ panicked \in BOOLEAN

AlignUp_Down(a, align) == (a \div align) * align

AlignUp(a, align) == ((a + align - 1) \div align) * align

(* size_align: alignment of a ListNode at least, padded to a multiple of   *)
(* the alignment, and room for a ListNode.                                 *)
AlignOf(l) == IF l.align < NodeAlign THEN NodeAlign ELSE l.align

SizeOf_Unpadded(l) == IF l.size < NodeSize THEN NodeSize ELSE l.size

SizeOf(l) ==
  LET padded == AlignUp(l.size, AlignOf(l))
  IN  IF padded < NodeSize THEN NodeSize ELSE padded
-----------------------------------------------------------------------------
(* add_free_block walks the list until the new block b starts inside a     *)
(* listed one, or ends at or before the start of one.                      *)
Overlaps(b, next) == b.start >= next.start /\ b.start < End(next)
StopAt(f, b) ==
  CHOOSE k \in 1 .. Len(f) + 1 :
    /\ k <= Len(f) => Overlaps(b, f[k]) \/ End(b) <= f[k].start
    /\ \A i \in 1 .. k - 1 : ~Overlaps(b, f[i]) /\ End(b) > f[i].start

AddPanics(f, b) ==
  LET k == StopAt(f, b) IN k <= Len(f) /\ Overlaps(b, f[k])

AddFreeBlock_NoMergePrev(f, b) ==
  LET k == StopAt(f, b)
      joins == k <= Len(f) /\ End(b) = f[k].start
      new == IF joins THEN Block(b.start, b.size + f[k].size) ELSE b
  IN  SubSeq(f, 1, k - 1) \o <<new>>
        \o SubSeq(f, IF joins THEN k + 1 ELSE k, Len(f))

(* The new block absorbs the next one, then the previous one absorbs it,   *)
(* where they touch.  head has size 0 and absorbs nothing.                 *)
AddFreeBlock(f, b) ==
  LET k == StopAt(f, b)
      joins == k <= Len(f) /\ End(b) = f[k].start
      new == IF joins THEN Block(b.start, b.size + f[k].size) ELSE b
      rest == SubSeq(f, IF joins THEN k + 1 ELSE k, Len(f))
  IN  IF k > 1 /\ End(f[k - 1]) = b.start
      THEN SubSeq(f, 1, k - 2)
             \o <<Block(f[k - 1].start, f[k - 1].size + new.size)>> \o rest
      ELSE SubSeq(f, 1, k - 1) \o <<new>> \o rest

(* check_block_for_alloc; checked_add cannot fail for a valid Layout. *)
Fits(b, size, align) ==
  LET excess == End(b) - (AlignUp(b.start, align) + size)
  IN  excess = 0 \/ excess >= NodeSize

(* find_free_block: the first block that fits, or 0. *)
FirstFit(size, align) ==
  LET I == {i \in 1 .. Len(free) : Fits(free[i], size, align)}
  IN  IF I = {} THEN 0 ELSE CHOOSE i \in I : \A j \in I : i <= j

Unlink(f, i) == SubSeq(f, 1, i - 1) \o SubSeq(f, i + 1, Len(f))
-----------------------------------------------------------------------------
(* init: add_free_block on the empty list. *)
Init ==
  /\ free = AddFreeBlock(<<>>, Block(HeapStart, HeapSize))
  /\ live = {} /\ leaked = {}
  /\ panicked = FALSE

Alloc_DropsTail(l) ==
  LET size == SizeOf(l)
      i    == FirstFit(size, AlignOf(l))
      at   == AlignUp(free[i].start, AlignOf(l))
  IN  /\ ~panicked /\ i # 0
      /\ live' = live \cup {[start |-> at, layout |-> l]}
      /\ leaked' = IF at = free[i].start THEN leaked
                   ELSE leaked \cup {Block(free[i].start, at - free[i].start)}
      /\ free' = Unlink(free, i)
      /\ UNCHANGED panicked

Alloc_KeepsBlock(l) ==
  LET size == SizeOf(l)
      i    == FirstFit(size, AlignOf(l))
      at   == AlignUp(free[i].start, AlignOf(l))
      tail == Block(at + size, End(free[i]) - (at + size))
  IN  /\ ~panicked /\ i # 0
      /\ live' = live \cup {[start |-> at, layout |-> l]}
      /\ UNCHANGED <<leaked, panicked>>
      /\ free' = IF tail.size = 0 THEN free ELSE [free EXCEPT ![i] = tail]

Alloc(l) ==
  LET size == SizeOf(l)
      i    == FirstFit(size, AlignOf(l))
      at   == AlignUp(free[i].start, AlignOf(l))
      rest == Unlink(free, i)
      tail == Block(at + size, End(free[i]) - (at + size))
  IN  /\ ~panicked /\ i # 0
      /\ live' = live \cup {[start |-> at, layout |-> l]}
      /\ leaked' = IF at = free[i].start THEN leaked
                   ELSE leaked \cup {Block(free[i].start, at - free[i].start)}
      /\ IF tail.size = 0
         THEN free' = rest /\ UNCHANGED panicked
         ELSE /\ panicked' = AddPanics(rest, tail)
              /\ free' = IF panicked' THEN rest ELSE AddFreeBlock(rest, tail)

(* A null pointer: nothing changes. *)
AllocFails(l) ==
  /\ ~panicked /\ FirstFit(SizeOf(l), AlignOf(l)) = 0
  /\ UNCHANGED vars

Dealloc(a) ==
  LET b == Block(a.start, SizeOf(a.layout))
  IN  /\ ~panicked /\ a \in live
      /\ live' = live \ {a}
      /\ panicked' = AddPanics(free, b)
      /\ free' = IF panicked' THEN free ELSE AddFreeBlock(free, b)
      /\ UNCHANGED leaked

Next ==
  \/ \E l \in Layouts : Alloc(l) \/ AllocFails(l)
  \/ \E a \in live : Dealloc(a)

Spec == Init /\ [][Next]_vars
-----------------------------------------------------------------------------
(* Properties *)

BlockOf(a) == Block(a.start, SizeOf(a.layout))
Pieces == Range(free) \cup leaked \cup {BlockOf(a) : a \in live}
Disjoint(b, c) == End(b) <= c.start \/ End(c) <= b.start
Covers(s, x) == \E b \in s : b.start <= x /\ x < End(b)

(* The free list is in address order, every block in it can hold the       *)
(* ListNode written at its start, and no two blocks touch: freeing has     *)
(* coalesced all it could.  (The variables have their types.)              *)
FreeListOK ==
  /\ TypeOK
  /\ \A i \in DOMAIN free : /\ free[i].size >= NodeSize
                            /\ free[i].start % NodeAlign = 0
                            /\ free[i].size % NodeAlign = 0
  /\ \A i, j \in DOMAIN free : i < j => End(free[i]) < free[j].start

(* No byte is handed out twice or handed out while it is free: live        *)
(* allocations, free blocks and leaked gaps are disjoint, inside the heap; *)
(* and alloc honours the layout: the address is aligned as requested, and  *)
(* the next piece starts behind the bytes requested.                       *)
NoOverlap ==
  /\ \A a, b \in live : a = b \/ Disjoint(BlockOf(a), BlockOf(b))
  /\ \A a \in live, b \in Range(free) \cup leaked : Disjoint(BlockOf(a), b)
  /\ \A b \in Range(free), c \in leaked : Disjoint(b, c)
  /\ \A b, c \in leaked : b = c \/ Disjoint(b, c)
  /\ \A b \in Pieces : HeapStart <= b.start /\ End(b) <= HeapStart + HeapSize
  /\ \A a \in live :
       /\ a.start % a.layout.align = 0
       /\ \A b \in Pieces : b.start > a.start => b.start >= a.start + a.layout.size

(* No byte of the heap is lost other than those the comment at             *)
(* list.rs:207 admits ("might leak memory at the start of the block").     *)
(* With FreeListOK: when everything is freed and nothing leaked, the heap  *)
(* is one block again, whatever the order of the frees.                    *)
Conserved ==
  \A x \in HeapStart .. HeapStart + HeapSize - 1 : Covers(Pieces, x)

(* A program that frees what it allocated, with the same layout, once,     *)
(* never meets "Double free or overlapping block detected".                *)
NeverPanics == ~panicked

(* Only a request aligned to more than a ListNode can leak. *)
OnlyAlignmentLeaks ==
  [][leaked' # leaked => \E a \in live' \ live : a.layout.align > NodeAlign]_vars
=============================================================================
