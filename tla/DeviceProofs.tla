---------------------------- MODULE DeviceProofs ----------------------------
(***************************************************************************)
(* The device layer: the packet queues and the receive ring of the network *)
(* card, then the Once cells in which the drivers are kept.                *)
(*                                                                         *)
(* The ring buffer of the packet queues implements a bounded queue, for    *)
(* every capacity; the positions of the card and of the driver in the      *)
(* receive ring agree, for the ring of 8192 bytes of the code and packets  *)
(* of any lengths; the cells are written once and the early ones are safe, *)
(* for any cells and any number of threads.                                *)
(***************************************************************************)
EXTENDS RxRing, Once, TLAPS

(* Once *)

(* Between the swap of the flag and the write of the value *)
Initializing == {"construct", "alloc", "write"}

(* Whoever initialises a cell set its flag, is the only one, and finds it  *)
(* empty.                                                                  *)
CellsInv ==
  /\ \A c \in Contexts : place[c] \in Initializing =>
       initialized[cell[c]] /\ value[cell[c]] = NoValue
  /\ \A c, d \in Contexts :
       place[c] \in Initializing /\ place[d] \in Initializing /\ cell[c] = cell[d] => c = d
  /\ \A x \in Cells : value[x] # NoValue => initialized[x]

(* At boot only the boot code runs, and an early cell whose flag is set    *)
(* has its value or is the one being initialised; afterwards every early   *)
(* cell has its value.                                                     *)
BootInv ==
  /\ phase = "boot" => /\ \A c \in Contexts \ {Boot} : place[c] = "idle"
                       /\ \A x \in Early : initialized[x] =>
                            \/ value[x] # NoValue
                            \/ place[Boot] \in Initializing /\ cell[Boot] = x
  /\ phase # "boot" => \A x \in Early : initialized[x] /\ value[x] # NoValue

(* One context at most is in the heap. *)
HeapInv ==
  \A c, d \in Contexts : place[c] \in {"alloc", "heap"} /\ place[d] \in {"alloc", "heap"} => c = d

ReferenceInv ==
  \A c \in Contexts : place[c] = "reference" /\ cell[c] \in Early => value[cell[c]] # NoValue

OnceIInv == CellTypes /\ CellsInv /\ BootInv /\ HeapInv /\ ReferenceInv

-----------------------------------------------------------------------------
Heap == {"alloc", "heap"}
Places == {"idle", "reference"} \cup Initializing \cup Heap

LEMMA GotoOK ==
  ASSUME CellTypes, NEW c \in Contexts, NEW l \in Places, Goto(c, l)
  PROVE  /\ place' \in [Contexts -> Places] /\ place'[c] = l
         /\ \A d \in Contexts : d # c => place'[d] = place[d]
BY DEF CellTypes, Goto, Places, Initializing, Heap

(* The lock bit says whether somebody is in the heap. *)
LEMMA LockBit ==
  ASSUME CellTypes
  PROVE  allocLock = \E c \in Contexts : place[c] \in Heap
BY Zenon DEF CellTypes, Heap

LEMMA HeapKept ==
  ASSUME CellTypes, HeapInv, NEW c \in Contexts, NEW l \in Places, Goto(c, l),
         place[c] \notin Heap, l \notin Heap, allocLock' = allocLock
  PROVE  HeapInv' /\ allocLock' = \E d \in Contexts : place'[d] \in Heap
<1>1. place'[c] = l /\ \A d \in Contexts : d # c => place'[d] = place[d]
  BY GotoOK
<1>2. \A d \in Contexts : place'[d] \in Heap <=> place[d] \in Heap
  BY <1>1
<1>3. HeapInv'
  BY <1>2 DEF HeapInv, Heap
<1>4. allocLock = \E d \in Contexts : place'[d] \in Heap
  BY <1>2, LockBit, Zenon
<1> QED BY <1>3, <1>4, Zenon

LEMMA HeapTaken ==
  ASSUME CellTypes, HeapInv, NEW c \in Contexts, NEW l \in Heap, Goto(c, l),
         ~allocLock, allocLock' = TRUE
  PROVE  HeapInv' /\ allocLock' = \E d \in Contexts : place'[d] \in Heap
<1>1. place'[c] = l /\ \A d \in Contexts : d # c => place'[d] = place[d]
  BY GotoOK, Zenon DEF Places
<1>2. \A d \in Contexts : place[d] \notin Heap
  BY LockBit, Zenon
<1>3. HeapInv'
  BY <1>1, <1>2 DEF HeapInv, Heap
<1>4. \E d \in Contexts : place'[d] \in Heap
  BY <1>1
<1> QED BY <1>3, <1>4, Zenon

LEMMA HeapFreed ==
  ASSUME CellTypes, HeapInv, NEW c \in Contexts, NEW l \in Places, Goto(c, l),
         place[c] \in Heap, l \notin Heap, allocLock' = FALSE
  PROVE  HeapInv' /\ allocLock' = \E d \in Contexts : place'[d] \in Heap
<1>1. place'[c] = l /\ \A d \in Contexts : d # c => place'[d] = place[d]
  BY GotoOK
<1>2. \A d \in Contexts : d # c => place[d] \notin Heap
  BY DEF HeapInv, Heap
<1>3. \A d \in Contexts : place'[d] \notin Heap
  BY <1>1, <1>2
<1>4. HeapInv'
  BY <1>3 DEF HeapInv, Heap
<1> QED BY <1>3, <1>4, Zenon

LEMMA TypesKept ==
  ASSUME CellTypes, NEW c \in Contexts, NEW l \in Places, Goto(c, l), phase' = phase,
         allocLock' = \E d \in Contexts : place'[d] \in Heap,
         initialized' \in [Cells -> BOOLEAN], value' \in [Cells -> Contexts \cup {NoValue}],
         cell' \in [Contexts -> Cells]
  PROVE  CellTypes'
<1>1. place' \in [Contexts -> {"idle", "construct", "alloc", "write", "reference", "heap"}]
  BY GotoOK DEF Places, Initializing, Heap
<1>2. phase' \in {"boot", "menu", "threads"}
  BY DEF CellTypes
<1>3. allocLock' = \E d \in Contexts : place'[d] \in {"alloc", "heap"}
  BY Zenon DEF Heap
<1> QED BY <1>1, <1>2, <1>3, Zenon DEF CellTypes

(* At boot, whoever runs is the boot code. *)
LEMMA BootRuns ==
  ASSUME NEW c \in Contexts, MayRun(c), phase = "boot"
  PROVE  c = Boot
BY DEF MayRun, Contexts

-----------------------------------------------------------------------------
LEMMA SwapIInv ==
  ASSUME OnceIInv, NEW c \in Contexts, NEW x \in Cells, Swap(c, x)
  PROVE  OnceIInv'
<1> DEFINE l == IF initialized[x] THEN "reference" ELSE "construct"
<1>1. CellTypes /\ CellsInv /\ BootInv /\ HeapInv /\ ReferenceInv
  BY DEF OnceIInv
<1>2. /\ place[c] = "idle" /\ MayRun(c) /\ (phase = "boot" => x \in Early)
      /\ cell' = [cell EXCEPT ![c] = x] /\ initialized' = [initialized EXCEPT ![x] = TRUE]
      /\ Goto(c, l) /\ UNCHANGED <<value, allocLock, phase>>
  BY DEF Swap, At
<1>3. l \in Places /\ l \notin Heap /\ place[c] \notin Heap
  BY <1>2 DEF Places, Initializing, Heap
<1>4. initialized[x] => l = "reference"
  OBVIOUS
<1>5. ~initialized[x] => l = "construct"
  OBVIOUS
<1> HIDE DEF l
<1>6. HeapInv' /\ allocLock' = \E d \in Contexts : place'[d] \in Heap
  BY <1>1, <1>2, <1>3, HeapKept, Zenon
<1>7. /\ cell' \in [Contexts -> Cells] /\ cell'[c] = x
      /\ \A d \in Contexts : d # c => cell'[d] = cell[d]
  BY <1>1, <1>2 DEF CellTypes
<1>8. /\ initialized' \in [Cells -> BOOLEAN] /\ initialized'[x]
      /\ \A y \in Cells : y # x => initialized'[y] = initialized[y]
  BY ZenonT(30), <1>1, <1>2 DEF CellTypes
<1>9. CellTypes'
  <2>1. value' \in [Cells -> Contexts \cup {NoValue}] /\ phase' = phase
    BY <1>1, <1>2 DEF CellTypes
  <2> QED BY <1>1, <1>2, <1>3, <1>6, <1>7, <1>8, <2>1, TypesKept
<1>10. place'[c] = l /\ \A d \in Contexts : d # c => place'[d] = place[d]
  BY <1>1, <1>2, <1>3, GotoOK
<1>11. \A d \in Contexts : cell[d] \in Cells
  BY <1>1 DEF CellTypes
<1>12. ~initialized[x] => value[x] = NoValue
  BY <1>1 DEF CellsInv
<1>13. ASSUME NEW d \in Contexts, place'[d] \in Initializing
       PROVE  /\ d = c => ~initialized[x]
              /\ d # c => place[d] \in Initializing /\ cell'[d] = cell[d]
  BY <1>4, <1>7, <1>10, <1>13 DEF Initializing
<1>14. CellsInv'
  <2>1. ASSUME NEW d \in Contexts, place'[d] \in Initializing
        PROVE  initialized'[cell'[d]] /\ value'[cell'[d]] = NoValue
    <3>1. CASE d = c
      BY <1>2, <1>7, <1>8, <1>12, <1>13, <2>1, <3>1
    <3>2. CASE d # c
      <4>1. initialized[cell[d]] /\ value[cell[d]] = NoValue
        BY <1>1, <1>13, <2>1, <3>2 DEF CellsInv
      <4>2. initialized'[cell[d]]
        BY <1>8, <1>11, <4>1
      <4> QED BY <1>2, <1>7, <3>2, <4>1, <4>2
    <3> QED BY <3>1, <3>2
  <2>2. ASSUME NEW d \in Contexts, NEW e \in Contexts, place'[d] \in Initializing,
               place'[e] \in Initializing, cell'[d] = cell'[e]
        PROVE  d = e
    <3>1. ASSUME NEW f \in Contexts, f # c, place'[f] \in Initializing, ~initialized[x]
          PROVE  cell'[f] # x
      BY <1>1, <1>13, <3>1 DEF CellsInv
    <3>2. CASE d # c /\ e # c
      BY <1>1, <1>13, <2>2, <3>2 DEF CellsInv
    <3>3. CASE d = c /\ e # c
      BY <1>7, <1>13, <2>2, <3>1, <3>3
    <3>4. CASE d # c /\ e = c
      BY <1>7, <1>13, <2>2, <3>1, <3>4
    <3> QED BY <3>2, <3>3, <3>4
  <2>3. \A y \in Cells : value'[y] # NoValue => initialized'[y]
    BY <1>1, <1>2, <1>8 DEF CellsInv
  <2> QED BY <2>1, <2>2, <2>3, Zenon DEF CellsInv
<1>15. BootInv'
  <2>1. CASE phase = "boot"
    <3>1. c = Boot /\ x \in Early /\ phase' = "boot"
      BY <1>2, <2>1, BootRuns
    <3>2. \A d \in Contexts \ {Boot} : place'[d] = "idle"
      BY <1>1, <1>10, <2>1, <3>1 DEF BootInv
    <3>3. ASSUME NEW y \in Early, initialized'[y]
          PROVE  value'[y] # NoValue \/ (place'[Boot] \in Initializing /\ cell'[Boot] = y)
      <4>0. \A z \in Early : initialized[z] => value[z] # NoValue
        BY <1>1, <1>2, <2>1, <3>1 DEF BootInv, Initializing
      <4>1. CASE y # x \/ initialized[x]
        BY <1>2, <1>8, <3>1, <3>3, <4>0, <4>1 DEF Cells
      <4>2. CASE y = x /\ ~initialized[x]
        BY <1>5, <1>7, <1>10, <3>1, <4>2 DEF Initializing
      <4> QED BY <4>1, <4>2
    <3> QED BY ZenonT(30), <3>1, <3>2, <3>3 DEF BootInv
  <2>2. CASE phase # "boot"
    BY <1>1, <1>2, <1>8, <2>2 DEF BootInv, Cells
  <2> QED BY <2>1, <2>2
<1>16. ReferenceInv'
  <2> SUFFICES ASSUME NEW d \in Contexts, place'[d] = "reference", cell'[d] \in Early
               PROVE  value[cell'[d]] # NoValue
    BY <1>2 DEF ReferenceInv
  <2>1. CASE d # c
    BY <1>1, <1>7, <1>10, <2>1 DEF ReferenceInv
  <2>2. CASE d = c
    <3>1. initialized[x] /\ x \in Early
      BY <1>5, <1>7, <1>10, <2>2
    <3>2. CASE phase = "boot"
      <4>1. c = Boot
        BY <1>2, <3>2, BootRuns
      <4> QED BY <1>1, <1>2, <1>7, <2>2, <3>1, <3>2, <4>1 DEF BootInv, Initializing
    <3>3. CASE phase # "boot"
      BY <1>1, <1>7, <2>2, <3>1, <3>3 DEF BootInv
    <3> QED BY <3>2, <3>3
  <2> QED BY <2>1, <2>2
<1> QED BY <1>6, <1>9, <1>14, <1>15, <1>16 DEF OnceIInv

LEMMA WriteIInv ==
  ASSUME OnceIInv, NEW c \in Contexts, Write(c)
  PROVE  OnceIInv'
<1> DEFINE x == cell[c]
<1>1. CellTypes /\ CellsInv /\ BootInv /\ HeapInv /\ ReferenceInv
  BY DEF OnceIInv
<1>2. /\ place[c] = "write" /\ MayRun(c) /\ value' = [value EXCEPT ![x] = c]
      /\ Goto(c, "reference") /\ UNCHANGED <<initialized, cell, allocLock, phase>>
  BY DEF Write, At
<1>3. "reference" \in Places /\ "reference" \notin Heap /\ place[c] \notin Heap
  BY <1>2 DEF Places, Heap
<1>4. x \in Cells /\ initialized[x] /\ \A d \in Contexts : cell[d] \in Cells
  BY <1>1, <1>2 DEF CellTypes, CellsInv, Initializing
<1> HIDE DEF x
<1>5. HeapInv' /\ allocLock' = \E d \in Contexts : place'[d] \in Heap
  BY <1>1, <1>2, <1>3, HeapKept, Zenon
<1>6. /\ value' \in [Cells -> Contexts \cup {NoValue}] /\ value'[x] # NoValue
      /\ \A y \in Cells : y # x => value'[y] = value[y]
  BY <1>1, <1>2, <1>4, OnceAssumption DEF CellTypes
<1>7. \A y \in Cells : value[y] # NoValue => value'[y] # NoValue
  BY <1>6
<1>8. CellTypes'
  <2>1. initialized' \in [Cells -> BOOLEAN] /\ cell' \in [Contexts -> Cells] /\ phase' = phase
    BY <1>1, <1>2 DEF CellTypes
  <2> QED BY <1>1, <1>2, <1>3, <1>5, <1>6, <2>1, TypesKept
<1>9. place'[c] = "reference" /\ \A d \in Contexts : d # c => place'[d] = place[d]
  BY <1>1, <1>2, <1>3, GotoOK
<1>10. ASSUME NEW d \in Contexts, place'[d] \in Initializing
       PROVE  d # c /\ place[d] \in Initializing /\ cell[d] # x
  <2>1. d # c /\ place[d] \in Initializing
    BY <1>9, <1>10 DEF Initializing
  <2> QED BY <1>1, <1>2, <2>1 DEF CellsInv, Initializing, x
<1>11. CellsInv'
  <2>1. ASSUME NEW d \in Contexts, place'[d] \in Initializing
        PROVE  initialized'[cell'[d]] /\ value'[cell'[d]] = NoValue
    <3>1. initialized[cell[d]] /\ value[cell[d]] = NoValue /\ cell[d] # x
      BY <1>1, <1>10, <2>1 DEF CellsInv
    <3> QED BY <1>2, <1>4, <1>6, <3>1
  <2>2. \A d, e \in Contexts :
          place'[d] \in Initializing /\ place'[e] \in Initializing /\ cell'[d] = cell'[e] => d = e
    BY <1>1, <1>2, <1>10 DEF CellsInv
  <2>3. \A y \in Cells : value'[y] # NoValue => initialized'[y]
    BY <1>1, <1>2, <1>4, <1>6 DEF CellsInv
  <2> QED BY ZenonT(30), <2>1, <2>2, <2>3 DEF CellsInv
<1>12. BootInv'
  <2>1. CASE phase = "boot"
    <3>1. c = Boot /\ phase' = "boot"
      BY <1>2, <2>1, BootRuns
    <3>2. \A d \in Contexts \ {Boot} : place'[d] = "idle"
      BY <1>1, <1>9, <2>1, <3>1 DEF BootInv
    <3>3. ASSUME NEW y \in Early, initialized'[y]
          PROVE  value'[y] # NoValue
      <4>1. value[y] # NoValue \/ y = x
        BY <1>1, <1>2, <2>1, <3>1, <3>3 DEF BootInv, x
      <4> QED BY <1>6, <1>7, <4>1 DEF Cells
    <3> QED BY <3>1, <3>2, <3>3 DEF BootInv
  <2>2. CASE phase # "boot"
    BY <1>1, <1>2, <1>7, <2>2 DEF BootInv, Cells
  <2> QED BY <2>1, <2>2
<1>13. ReferenceInv'
  <2> SUFFICES ASSUME NEW d \in Contexts, place'[d] = "reference", cell[d] \in Early
               PROVE  value'[cell[d]] # NoValue
    BY <1>2 DEF ReferenceInv
  <2>1. CASE d = c
    BY <1>6, <2>1 DEF x
  <2>2. CASE d # c
    BY <1>1, <1>4, <1>7, <1>9, <2>2 DEF ReferenceInv
  <2> QED BY <2>1, <2>2
<1> QED BY <1>5, <1>8, <1>11, <1>12, <1>13 DEF OnceIInv

(* A step that changes no cell *)
LEMMA OtherCellStep ==
  ASSUME OnceIInv, NEW c \in Contexts, MayRun(c), NEW l \in Places, Goto(c, l),
         HeapInv' /\ allocLock' = \E d \in Contexts : place'[d] \in Heap,
         UNCHANGED <<initialized, value, phase>>, cell' \in [Contexts -> Cells],
         \A d \in Contexts : d # c => cell'[d] = cell[d],
         place[c] \in Initializing <=> l \in Initializing,
         l \in Initializing => cell'[c] = cell[c],
         l = "reference" => place[c] = "idle" /\ initialized[cell'[c]]
  PROVE  OnceIInv'
<1>1. CellTypes /\ CellsInv /\ BootInv /\ HeapInv /\ ReferenceInv
  BY DEF OnceIInv
<1>2. CellTypes'
  <2>1. initialized' \in [Cells -> BOOLEAN] /\ value' \in [Cells -> Contexts \cup {NoValue}]
    BY <1>1 DEF CellTypes
  <2> QED BY <1>1, <2>1, TypesKept
<1>3. place'[c] = l /\ \A d \in Contexts : d # c => place'[d] = place[d]
  BY <1>1, GotoOK
<1>4. ASSUME NEW d \in Contexts, place'[d] \in Initializing
      PROVE  place[d] \in Initializing /\ cell'[d] = cell[d]
  BY <1>3, <1>4
<1>5. CellsInv'
  BY ZenonT(30), <1>1, <1>4 DEF CellsInv
<1>6. BootInv'
  <2>1. CASE phase = "boot"
    <3>1. c = Boot /\ phase' = "boot"
      BY <2>1, BootRuns
    <3>2. \A d \in Contexts \ {Boot} : place'[d] = "idle"
      BY <1>1, <1>3, <2>1, <3>1 DEF BootInv
    <3>3. ASSUME NEW y \in Early, initialized'[y]
          PROVE  value'[y] # NoValue \/ (place'[Boot] \in Initializing /\ cell'[Boot] = y)
      <4>1. value[y] # NoValue \/ (place[Boot] \in Initializing /\ cell[Boot] = y)
        BY <1>1, <2>1, <3>3 DEF BootInv
      <4> QED BY <1>3, <3>1, <4>1
    <3> QED BY <3>1, <3>2, <3>3 DEF BootInv
  <2>2. CASE phase # "boot"
    BY ZenonT(30), <1>1, <2>2 DEF BootInv
  <2> QED BY ZenonT(30), <2>1, <2>2
<1>7. ReferenceInv'
  <2> SUFFICES ASSUME NEW d \in Contexts, place'[d] = "reference", cell'[d] \in Early
               PROVE  value[cell'[d]] # NoValue
    BY DEF ReferenceInv
  <2>1. CASE d # c
    BY <1>1, <1>3, <2>1 DEF ReferenceInv
  <2>2. CASE d = c
    <3>1. place[c] = "idle" /\ initialized[cell'[c]] /\ cell'[c] \in Early
      BY ZenonT(30), <1>3, <2>2
    <3>2. phase = "boot" => c = Boot
      BY BootRuns
    <3> QED BY <1>1, <2>2, <3>1, <3>2 DEF BootInv, Initializing
  <2> QED BY <2>1, <2>2
<1> QED BY <1>2, <1>5, <1>6, <1>7 DEF OnceIInv

LEMMA OtherCellSteps ==
  ASSUME OnceIInv, NEW c \in Contexts,
         \/ ConstructLock(c) \/ ConstructUnlock(c) \/ Done(c)
         \/ HeapLock(c) \/ HeapUnlock(c) \/ \E x \in Cells : Get(c, x)
  PROVE  OnceIInv'
<1>1. CellTypes /\ HeapInv /\ CellsInv
  BY DEF OnceIInv
<1>2. {"idle", "reference", "alloc", "write", "heap"} \subseteq Places
  BY DEF Places, Initializing, Heap
<1>3. ASSUME ConstructLock(c) PROVE OnceIInv'
  <2>1. /\ place[c] = "construct" /\ MayRun(c) /\ ~allocLock /\ allocLock' = TRUE /\ Goto(c, "alloc")
        /\ UNCHANGED <<initialized, value, cell, phase>>
    BY <1>3 DEF ConstructLock, At
  <2>2. HeapInv' /\ allocLock' = \E d \in Contexts : place'[d] \in Heap
    BY <1>1, <2>1, HeapTaken DEF Heap
  <2> QED BY <1>1, <1>2, <2>1, <2>2, OtherCellStep DEF Initializing, CellTypes
<1>4. ASSUME ConstructUnlock(c) PROVE OnceIInv'
  <2>1. /\ place[c] = "alloc" /\ MayRun(c) /\ allocLock' = FALSE /\ Goto(c, "write")
        /\ UNCHANGED <<initialized, value, cell, phase>>
    BY <1>4 DEF ConstructUnlock, At
  <2>2. HeapInv' /\ allocLock' = \E d \in Contexts : place'[d] \in Heap
    BY <1>1, <1>2, <2>1, HeapFreed, Zenon DEF Heap
  <2> QED BY <1>1, <1>2, <2>1, <2>2, OtherCellStep DEF Initializing, CellTypes
<1>5. ASSUME Done(c) PROVE OnceIInv'
  <2>1. /\ place[c] = "reference" /\ MayRun(c) /\ allocLock' = allocLock /\ Goto(c, "idle")
        /\ UNCHANGED <<initialized, value, cell, phase>>
    BY <1>5 DEF Done, At
  <2>2. HeapInv' /\ allocLock' = \E d \in Contexts : place'[d] \in Heap
    BY ZenonT(30), <1>1, <1>2, <2>1, HeapKept DEF Heap
  <2> QED BY <1>1, <1>2, <2>1, <2>2, OtherCellStep, Zenon DEF Initializing, CellTypes
<1>6. ASSUME HeapLock(c) PROVE OnceIInv'
  <2>1. /\ place[c] = "idle" /\ MayRun(c) /\ ~allocLock /\ allocLock' = TRUE /\ Goto(c, "heap")
        /\ UNCHANGED <<initialized, value, cell, phase>>
    BY <1>6 DEF HeapLock, At
  <2>2. HeapInv' /\ allocLock' = \E d \in Contexts : place'[d] \in Heap
    BY <1>1, <2>1, HeapTaken DEF Heap
  <2> QED BY <1>1, <1>2, <2>1, <2>2, OtherCellStep DEF Initializing, CellTypes
<1>7. ASSUME HeapUnlock(c) PROVE OnceIInv'
  <2>1. /\ place[c] = "heap" /\ MayRun(c) /\ allocLock' = FALSE /\ Goto(c, "idle")
        /\ UNCHANGED <<initialized, value, cell, phase>>
    BY <1>7 DEF HeapUnlock, At
  <2>2. HeapInv' /\ allocLock' = \E d \in Contexts : place'[d] \in Heap
    BY ZenonT(30), <1>1, <1>2, <2>1, HeapFreed DEF Heap
  <2> QED BY <1>1, <1>2, <2>1, <2>2, OtherCellStep DEF Initializing, CellTypes
<1>8. ASSUME NEW x \in Cells, Get(c, x) PROVE OnceIInv'
  <2>1. /\ place[c] = "idle" /\ MayRun(c) /\ allocLock' = allocLock /\ Goto(c, "reference")
        /\ initialized[x] /\ cell' = [cell EXCEPT ![c] = x]
        /\ UNCHANGED <<initialized, value, phase>>
    BY <1>8 DEF Get, At
  <2>2. HeapInv' /\ allocLock' = \E d \in Contexts : place'[d] \in Heap
    BY <1>1, <1>2, <2>1, HeapKept, Zenon DEF Heap
  <2>3. /\ cell' \in [Contexts -> Cells] /\ cell'[c] = x
        /\ \A d \in Contexts : d # c => cell'[d] = cell[d]
    BY <1>1, <2>1 DEF CellTypes
  <2> QED BY ZenonT(30), <1>1, <1>2, <2>1, <2>2, <2>3, OtherCellStep DEF Initializing
<1> QED BY <1>3, <1>4, <1>5, <1>6, <1>7, <1>8, Zenon

(* The phases *)
LEMMA PhaseSteps ==
  ASSUME OnceIInv, EnableInt \/ StartThreads
  PROVE  OnceIInv'
<1>1. CellTypes /\ CellsInv /\ BootInv /\ HeapInv /\ ReferenceInv
  BY DEF OnceIInv
<1>2. /\ UNCHANGED <<initialized, value, place, cell, allocLock>> /\ place[Boot] = "idle"
      /\ phase' \in {"menu", "threads"}
      /\ phase = "boot" => \A x \in Early : initialized[x]
  BY DEF EnableInt, StartThreads, Goes
<1>3. CellsInv' /\ HeapInv' /\ ReferenceInv'
  BY <1>1, <1>2 DEF CellsInv, HeapInv, ReferenceInv
<1>4. CellTypes'
  BY <1>1, <1>2 DEF CellTypes
<1>5. BootInv'
  BY <1>1, <1>2 DEF BootInv, Initializing
<1> QED BY <1>3, <1>4, <1>5 DEF OnceIInv
-----------------------------------------------------------------------------
LEMMA InitOK ==
  ASSUME OnceInit
  PROVE  OnceIInv
<1>1. \A c \in Contexts : place[c] = "idle"
  BY DEF OnceInit
<1>2. CellTypes
  <2>1. initialized \in [Cells -> BOOLEAN]
    BY Zenon DEF OnceInit
  <2>2. value \in [Cells -> Contexts \cup {NoValue}]
    BY DEF OnceInit
  <2>3. place \in [Contexts -> {"idle", "construct", "alloc", "write", "reference", "heap"}]
    BY DEF OnceInit
  <2>4. cell \in [Contexts -> Cells] /\ phase \in {"boot", "menu", "threads"}
    BY OnceAssumption DEF OnceInit, Cells
  <2>5. ~\E c \in Contexts : place[c] \in {"alloc", "heap"}
    BY <1>1
  <2>6. allocLock = \E c \in Contexts : place[c] \in {"alloc", "heap"}
    BY <2>5, Zenon DEF OnceInit
  <2> QED BY <2>1, <2>2, <2>3, <2>4, <2>6, Zenon DEF CellTypes
<1>3. CellsInv /\ HeapInv /\ ReferenceInv
  BY <1>1 DEF OnceInit, CellsInv, HeapInv, ReferenceInv, Initializing
<1>4. BootInv
  BY <1>1 DEF OnceInit, BootInv, Cells
<1> QED BY <1>2, <1>3, <1>4 DEF OnceIInv

LEMMA NextOK ==
  ASSUME OnceIInv, [OnceNext]_onceVars
  PROVE  OnceIInv'
<1>1. CASE EnableInt \/ StartThreads
  BY <1>1, PhaseSteps
<1>2. ASSUME NEW c \in Contexts, Call(c) \/ Continue(c)
      PROVE  OnceIInv'
  BY <1>2, SwapIInv, WriteIInv, OtherCellSteps, Zenon DEF Call, Continue
<1>3. ASSUME NEW t \in Threads \cup {Boot}, HeapLock(t) \/ HeapUnlock(t)
      PROVE  OnceIInv'
  <2>1. t \in Contexts
    BY DEF Contexts
  <2> QED BY <1>3, <2>1, OtherCellSteps, Zenon
<1>4. CASE UNCHANGED onceVars
  BY <1>4 DEF onceVars, OnceIInv, CellTypes, CellsInv, BootInv, HeapInv, ReferenceInv
<1> QED BY <1>1, <1>2, <1>3, <1>4, Zenon DEF OnceNext

(* However boot code, threads and handler interleave their calls of init   *)
(* and get, a cell has one initialiser, who finds it empty, and the cells  *)
(* of main() have their values when it enables interrupts.                 *)
THEOREM OnceInvariance == OnceSpec => []OnceIInv
<1>1. OnceIInv /\ [OnceNext]_onceVars => OnceIInv'
  BY NextOK
<1> QED BY <1>1, InitOK, PTL DEF OnceSpec

(* get and init never give out a reference to an early cell without its    *)
(* value, and early cells are constructed with interrupts off: for any     *)
(* cells and any number of threads.                                        *)
THEOREM EarlySafe == OnceSpec => []EarlyCellsSafe
<1>1. ASSUME OnceIInv
      PROVE  EarlyCellsSafe
  <2>1. CellTypes /\ CellsInv /\ BootInv /\ ReferenceInv
    BY <1>1 DEF OnceIInv
  <2>2. ASSUME NEW c \in Contexts, cell[c] \in Early
        PROVE  /\ place[c] = "reference" => value[cell[c]] # NoValue
               /\ place[c] \in {"construct", "alloc", "write"} => phase = "boot"
    BY <2>1, <2>2 DEF CellsInv, BootInv, ReferenceInv, Initializing
  <2> QED BY <2>1, <2>2, Zenon DEF EarlyCellsSafe
<1> QED BY <1>1, OnceInvariance, PTL

(* init writes a cell once: the swap of the flag lets one caller through.  *)
THEOREM WrittenByOne == OnceSpec => WrittenOnce
<1>1. ASSUME OnceIInv, [OnceNext]_onceVars
      PROVE  [\A x \in Cells : value[x] # NoValue => value'[x] = value[x]]_onceVars
  <2> SUFFICES ASSUME OnceNext, NEW x \in Cells, value[x] # NoValue
               PROVE  value'[x] = value[x]
    BY <1>1
  <2>1. ASSUME NEW c \in Contexts, Write(c)
        PROVE  value'[x] = value[x]
    <3>1. value[cell[c]] = NoValue
      BY <1>1, <2>1 DEF OnceIInv, CellsInv, Write, At, Initializing
    <3>2. value \in [Cells -> Contexts \cup {NoValue}] /\ value' = [value EXCEPT ![cell[c]] = c]
      BY <1>1, <2>1 DEF OnceIInv, CellTypes, Write
    <3> QED BY <3>1, <3>2
  <2>2. (\E c \in Contexts : Write(c)) \/ value' = value
    BY DEF OnceNext, Call, Continue, EnableInt, StartThreads, Swap, Get, ConstructLock,
           ConstructUnlock, Done, HeapLock, HeapUnlock
  <2> QED BY <2>1, <2>2
<1> QED BY <1>1, OnceInvariance, PTL DEF OnceSpec, WrittenOnce

-----------------------------------------------------------------------------
(* Sequences *)

LEMMA SeqDomain ==
  ASSUME NEW S, NEW s \in Seq(S)
  PROVE  Len(s) \in Nat /\ s \in [1 .. Len(s) -> S]
OBVIOUS

LEMMA Emptiness ==
  ASSUME NEW S, NEW s \in Seq(S)
  PROVE  s = <<>> <=> Len(s) = 0
OBVIOUS

LEMMA Appended ==
  ASSUME NEW S, NEW s \in Seq(S), NEW e \in S
  PROVE  /\ Append(s, e) \in Seq(S) /\ Len(Append(s, e)) = Len(s) + 1
         /\ \A i \in 1 .. Len(s) : Append(s, e)[i] = s[i]
         /\ Append(s, e)[Len(s) + 1] = e
OBVIOUS

LEMMA HeadAndTail ==
  ASSUME NEW S, NEW s \in Seq(S), s # <<>>
  PROVE  /\ Head(s) \in S /\ Tail(s) \in Seq(S) /\ Len(Tail(s)) = Len(s) - 1
         /\ \A i \in 1 .. Len(Tail(s)) : Tail(s)[i] = s[i + 1]
OBVIOUS

(* PacketQueue *)

USE PacketQueueAssumption

LEMMA ModSmall ==
  ASSUME NEW x \in Nat, x < Capacity
  PROVE  x % Capacity = x
OBVIOUS

LEMMA ModLarge ==
  ASSUME NEW x \in Nat, Capacity <= x, x < 2 * Capacity
  PROVE  x % Capacity = x - Capacity
OBVIOUS

(* Position of the i-th frame, without the remainder. *)
LEMMA Wrap ==
  ASSUME NEW t \in Slots, NEW n \in 0 .. Capacity
  PROVE  /\ (t + n) % Capacity \in Slots
         /\ (t + n) % Capacity = IF t + n < Capacity THEN t + n
                                 ELSE t + n - Capacity
BY ModSmall, ModLarge DEF Slots

LEMMA InitInv == Init => Inv
<1> SUFFICES ASSUME Init PROVE Inv
  OBVIOUS
<1>1. TypeOK
  BY DEF Init, TypeOK, Slots
<1>2. head = (tail + size) % Capacity
  BY ModSmall DEF Init
<1>3. \A i \in 1 .. size : Contents[i] \in Frames
  BY DEF Init
<1> QED
  BY <1>1, <1>2, <1>3 DEF Inv

(* push appends to the contents: the slot at head is the one free slot     *)
(* behind the last frame, and no frame is in it.                           *)
LEMMA PushContents ==
  ASSUME Inv, NEW f \in Frames, Push(f)
  PROVE  /\ Contents' = Append(Contents, f)
         /\ size < Capacity
<1>1. /\ size \in 0 .. Capacity /\ size < Capacity /\ tail \in Slots
      /\ tail' = tail /\ size' = size + 1 /\ head \in Slots
      /\ buffer \in [Slots -> Frames \cup {None}]
      /\ buffer' = [buffer EXCEPT ![head] = f]
  BY DEF Inv, TypeOK, Push
<1>2. ASSUME NEW i \in 1 .. size
      PROVE  buffer'[(tail + i - 1) % Capacity] = buffer[(tail + i - 1) % Capacity]
  <2>1. /\ i - 1 \in 0 .. Capacity /\ i - 1 < size
        /\ tail + (i - 1) = tail + i - 1
    BY <1>1 DEF Slots
  <2>2. (tail + (i - 1)) % Capacity # (tail + size) % Capacity
    <3>1. (tail + (i - 1)) % Capacity
            = IF tail + (i - 1) < Capacity THEN tail + (i - 1)
              ELSE tail + (i - 1) - Capacity
      BY <1>1, <2>1, Wrap
    <3>2. (tail + size) % Capacity
            = IF tail + size < Capacity THEN tail + size
              ELSE tail + size - Capacity
      BY <1>1, Wrap
    <3>3. tail \in Nat /\ tail < Capacity /\ i \in Nat /\ size \in Nat
      BY <1>1 DEF Slots
    <3> QED
      BY <1>1, <2>1, <3>1, <3>2, <3>3
  <2>3. (tail + (i - 1)) % Capacity \in Slots
    BY <1>1, <2>1, Wrap
  <2> QED
    BY <1>1, <2>1, <2>2, <2>3 DEF Inv
<1>3. buffer'[(tail + (size + 1) - 1) % Capacity] = f
  <2>1. tail + (size + 1) - 1 = tail + size
    BY <1>1 DEF Slots
  <2> QED
    BY <1>1, <2>1 DEF Inv
<1>4. Contents' = [i \in 1 .. size + 1 |-> buffer'[(tail + i - 1) % Capacity]]
  BY <1>1 DEF Contents
<1>5. Contents \in Seq(Frames \cup {None}) /\ Len(Contents) = size
  <2>1. \A i \in 1 .. size : Contents[i] \in Frames
    BY DEF Inv
  <2> QED
    BY <1>1, <2>1 DEF Contents
<1>6. Append(Contents, f)
        = [i \in 1 .. size + 1 |-> IF i = size + 1 THEN f ELSE Contents[i]]
  <2>1. /\ Append(Contents, f) \in Seq(Frames \cup {None})
        /\ Len(Append(Contents, f)) = size + 1
        /\ \A i \in 1 .. size : Append(Contents, f)[i] = Contents[i]
        /\ Append(Contents, f)[size + 1] = f
    BY <1>5, Appended
  <2>2. Append(Contents, f) = [i \in 1 .. size + 1 |-> Append(Contents, f)[i]]
    BY ZenonT(30), <2>1, SeqDomain
  <2> QED
    BY <1>1, <2>1, <2>2
<1>7. \A i \in 1 .. size + 1 :
        buffer'[(tail + i - 1) % Capacity] = IF i = size + 1 THEN f ELSE Contents[i]
  <2> TAKE i \in 1 .. size + 1
  <2>1. CASE i = size + 1
    BY <1>3, <2>1
  <2>2. CASE i # size + 1
    <3>1. i \in 1 .. size
      BY <1>1, <2>2
    <3> QED
      BY <1>2, <2>2, <3>1 DEF Contents
  <2> QED
    BY <2>1, <2>2
<1> QED
  BY <1>1, <1>4, <1>6, <1>7

(* pop takes the first frame: what is left is the tail of the contents. *)
LEMMA PopContents ==
  ASSUME Inv, Pop
  PROVE  /\ Contents # <<>>
         /\ Contents' = Tail(Contents)
         /\ result' = Head(Contents)
<1>1. /\ size \in 1 .. Capacity /\ tail \in Slots
      /\ tail' = (tail + 1) % Capacity /\ size' = size - 1
      /\ buffer' = buffer /\ result' = buffer[tail]
      /\ buffer \in [Slots -> Frames \cup {None}]
  BY DEF Inv, TypeOK, Pop
<1>2. Contents \in Seq(Frames) /\ Len(Contents) = size
  <2>1. \A i \in 1 .. size : Contents[i] \in Frames
    BY DEF Inv
  <2> QED
    BY <1>1, <2>1 DEF Contents
<1>3. Head(Contents) = buffer[tail]
  <2>1. (tail + 1 - 1) % Capacity = tail
    BY <1>1, ModSmall DEF Slots
  <2> QED
    BY <1>1, <1>2, <2>1 DEF Contents
<1>4. Tail(Contents) = [i \in 1 .. size - 1 |-> Contents[i + 1]]
  <2>1. /\ Tail(Contents) \in Seq(Frames)
        /\ Len(Tail(Contents)) = size - 1
        /\ \A i \in 1 .. size - 1 : Tail(Contents)[i] = Contents[i + 1]
    BY <1>1, <1>2, HeadAndTail
  <2>2. Tail(Contents) = [i \in 1 .. size - 1 |-> Tail(Contents)[i]]
    BY ZenonT(30), <2>1, SeqDomain
  <2> QED
    BY <1>1, <2>1, <2>2
<1>5. ASSUME NEW i \in 1 .. size - 1
      PROVE  (((tail + 1) % Capacity) + i - 1) % Capacity = (tail + (i + 1) - 1) % Capacity
  <2>1. tail \in Nat /\ tail < Capacity /\ i \in Nat /\ i < Capacity
    BY <1>1 DEF Slots
  <2>2. (tail + (i + 1) - 1) % Capacity
          = IF tail + i < Capacity THEN tail + i ELSE tail + i - Capacity
    <3>1. tail + (i + 1) - 1 = tail + i /\ i \in 0 .. Capacity
      BY <1>1, <2>1
    <3> QED
      BY <1>1, <3>1, Wrap
  <2>3. CASE tail + 1 < Capacity
    <3>1. (tail + 1) % Capacity = tail + 1 /\ tail + 1 + i - 1 = tail + (i + 1) - 1
      BY <2>1, <2>3, ModSmall
    <3> QED
      BY <3>1
  <2>4. CASE tail + 1 = Capacity
    <3>1. (tail + 1) % Capacity = 0
      BY <2>1, <2>4, ModLarge
    <3>2. 0 + i - 1 \in Nat /\ 0 + i - 1 < Capacity /\ 0 + i - 1 = tail + i - Capacity
      BY <2>1, <2>4, <1>1
    <3>3. (0 + i - 1) % Capacity = 0 + i - 1
      BY <3>2, ModSmall
    <3>4. ~(tail + i < Capacity)
      BY <1>1, <2>1, <2>4
    <3> QED
      BY <2>2, <3>1, <3>2, <3>3, <3>4
  <2> QED
    BY <2>1, <2>3, <2>4
<1>6. Contents' = [i \in 1 .. size - 1 |-> buffer[(((tail + 1) % Capacity) + i - 1) % Capacity]]
  BY <1>1 DEF Contents
<1>7. \A i \in 1 .. size - 1 :
        Contents[i + 1] = buffer[(((tail + 1) % Capacity) + i - 1) % Capacity]
  <2> TAKE i \in 1 .. size - 1
  <2>1. i + 1 \in 1 .. size
    BY <1>1
  <2> QED
    BY <1>5, <2>1 DEF Contents
<1> QED
  BY SMTT(30), <1>1, <1>2, <1>3, <1>4, <1>6, <1>7

LEMMA NextInv ==
  ASSUME Inv, [Next]_vars
  PROVE  Inv'
<1> USE DEF Inv
<1>1. ASSUME NEW f \in Frames, Push(f)
      PROVE  Inv'
  <2>1. TypeOK'
    <3>1. (head + 1) % Capacity \in Slots
      BY Wrap DEF TypeOK
    <3> QED
      BY <1>1, <3>1 DEF TypeOK, Push
  <2>2. head' = (tail' + size') % Capacity
    <3>1. /\ tail \in Slots /\ size \in 0 .. Capacity - 1 /\ tail' = tail
          /\ size' = size + 1 /\ head' = (head + 1) % Capacity
      BY <1>1 DEF TypeOK, Push
    <3>1a. head = IF tail + size < Capacity THEN tail + size
                 ELSE tail + size - Capacity
      BY <3>1, Wrap
    <3>2. head' = IF head + 1 < Capacity THEN head + 1 ELSE head + 1 - Capacity
      BY <3>1, Wrap DEF TypeOK
    <3>3. (tail + (size + 1)) % Capacity
            = IF tail + (size + 1) < Capacity THEN tail + (size + 1)
              ELSE tail + (size + 1) - Capacity
      BY SMTT(30), <3>1, Wrap
    <3>4. tail \in Nat /\ tail < Capacity /\ size \in Nat /\ size < Capacity
      BY <3>1 DEF Slots
    <3> QED
      BY <3>1a, <3>1, <3>2, <3>3, <3>4
  <2>3. \A i \in 1 .. size' : Contents'[i] \in Frames
    <3>1. Contents \in Seq(Frames) /\ Len(Contents) = size /\ size' = size + 1
      BY <1>1 DEF Contents, TypeOK, Push
    <3>2. Contents' = Append(Contents, f)
      BY Zenon, <1>1, PushContents
    <3>3. Contents' \in Seq(Frames) /\ Len(Contents') = size'
      <4> HIDE DEF Inv
      <4> QED BY <1>1, <3>1, <3>2, Appended
    <3> QED
      BY <3>3
  <2> QED
    BY <2>1, <2>2, <2>3
<1>2. CASE Pop
  <2>1. TypeOK'
    <3>1. (tail + 1) % Capacity \in Slots
      BY Wrap DEF TypeOK
    <3> QED
      BY <1>2, <3>1 DEF TypeOK, Pop, Slots
  <2>2. head' = (tail' + size') % Capacity
    <3>1. /\ tail \in Slots /\ size \in 1 .. Capacity /\ tail' = (tail + 1) % Capacity
          /\ size' = size - 1 /\ head' = head
      BY <1>2 DEF TypeOK, Pop
    <3>1a. head = IF tail + size < Capacity THEN tail + size
                 ELSE tail + size - Capacity
      BY <3>1, Wrap
    <3>2. tail' = (IF tail + 1 < Capacity THEN tail + 1 ELSE tail + 1 - Capacity)
          /\ tail' \in Slots
      BY <3>1, Wrap
    <3>3. (tail' + (size - 1)) % Capacity
            = IF tail' + (size - 1) < Capacity THEN tail' + (size - 1)
              ELSE tail' + (size - 1) - Capacity
      <4>1. size - 1 \in 0 .. Capacity
        BY <3>1
      <4> QED
        BY ZenonT(30), <3>2, <4>1, Wrap
    <3>4. tail \in Nat /\ tail < Capacity /\ size \in Nat /\ size <= Capacity
      BY <3>1 DEF Slots
    <3> QED
      BY <3>1a, <3>1, <3>2, <3>3, <3>4
  <2>3. \A i \in 1 .. size' : Contents'[i] \in Frames
    <3>1. Contents \in Seq(Frames) /\ Len(Contents) = size /\ size' = size - 1
          /\ size > 0
      BY <1>2 DEF Contents, TypeOK, Pop
    <3>2. Contents' \in Seq(Frames) /\ Len(Contents') = size'
      BY ZenonT(30), SMTT(30), <1>2, <3>1, PopContents, HeadAndTail
    <3> QED
      BY <3>2
  <2> QED
    BY <2>1, <2>2, <2>3
<1>3. ASSUME NEW f \in Frames, PushDrops(f)
      PROVE  Inv'
  BY <1>3 DEF PushDrops, TypeOK, Contents
<1>4. CASE PopEmpty
  BY <1>4 DEF PopEmpty, TypeOK, Contents
<1>5. CASE UNCHANGED vars
  BY <1>5 DEF vars, TypeOK, Contents
<1> QED
  BY <1>1, <1>2, <1>3, <1>4, <1>5 DEF Next

(* Every reachable state satisfies Inv. *)
THEOREM Invariance == Spec => []Inv
  BY InitInv, NextInv, PTL DEF Spec

(* The indices of push and pop stay inside the buffer, whatever its size. *)
THEOREM TypeCorrect == Spec => []TypeOK
<1>1. Inv => TypeOK
  BY DEF Inv
<1> QED
  BY <1>1, Invariance, PTL

(* PacketQueue implements FrameFifo, for every capacity and set of frames. *)
THEOREM Refinement == Spec => IsFifo
<1>1. Init => Fifo!Init
  <2> SUFFICES ASSUME Init PROVE Fifo!Init
    OBVIOUS
  <2>1. Contents = <<>>
    BY DEF Init, Contents
  <2> QED
    BY <2>1 DEF Init, Fifo!Init
<1>2. ASSUME Inv, [Next]_vars
      PROVE  [Fifo!Next]_<<Contents, dropped, result>>
  <2>1. Len(Contents) = size /\ size \in Nat /\ (size = 0 <=> Contents = <<>>)
    BY <1>2 DEF Inv, TypeOK, Contents
  <2>2. ASSUME NEW f \in Frames, Push(f)
        PROVE  Fifo!Push(f)
    BY ZenonT(30), <1>2, <2>1, <2>2, PushContents DEF Fifo!Push, Push
  <2>3. ASSUME NEW f \in Frames, PushDrops(f)
        PROVE  Fifo!Drop(f)
    BY <2>1, <2>3 DEF Fifo!Drop, PushDrops, Contents
  <2>4. CASE Pop
    BY <1>2, <2>4, PopContents DEF Fifo!Next, Fifo!Pop, Pop
  <2>5. CASE PopEmpty
    BY <2>1, <2>5 DEF Fifo!Next, Fifo!PopEmpty, PopEmpty, Contents
  <2>6. CASE UNCHANGED vars
    BY <2>6 DEF vars, Contents
  <2> QED
    BY <1>2, <2>2, <2>3, <2>4, <2>5, <2>6 DEF Next, Fifo!Next
<1> QED
  BY <1>1, <1>2, Invariance, PTL DEF Spec, IsFifo, Fifo!Spec
-----------------------------------------------------------------------------
(* RxRing *)

HIDE PacketQueueAssumption

Positions == 0 .. RingSize - 1

(* Arithmetic modulo the size of the ring. *)
LEMMA Ring == RingSize = 32 \/ RingSize = 64 \/ RingSize = 8192
BY RingAssumption

LEMMA Sizes == RingSize \in Nat /\ RingSize >= 32 /\ RingSize % 4 = 0
<1>1. CASE RingSize = 32
  BY <1>1
<1>2. CASE RingSize = 64
  BY <1>2
<1>3. CASE RingSize = 8192
  BY <1>3
<1> QED BY <1>1, <1>2, <1>3, Ring

LEMMA Mod ==
  ASSUME NEW x \in Int, -RingSize <= x, x < 2 * RingSize
  PROVE  x % RingSize = IF x < 0 THEN x + RingSize
                        ELSE IF x < RingSize THEN x ELSE x - RingSize
<1>1. CASE RingSize = 32
  BY <1>1
<1>2. CASE RingSize = 64
  BY <1>2
<1>3. CASE RingSize = 8192
  BY <1>3
<1> QED BY <1>1, <1>2, <1>3, Ring

(* CAPR wraps at 16 bits, the ring at a divisor of 2^16. *)
LEMMA CaprRead ==
  ASSUME NEW x \in Positions
  PROVE  /\ (x - 16) % 65536 \in Nat
         /\ (((x - 16) % 65536) + 16) % RingSize = x
<1>0. x \in Int /\ 0 <= x /\ x < RingSize
  BY Sizes DEF Positions
<1>1. CASE RingSize = 32
  BY <1>0, <1>1, SMT
<1>2. CASE RingSize = 64
  BY <1>0, <1>2, SMT
<1>3. CASE RingSize = 8192
  <2>1. x \in Int /\ 0 <= x /\ x < 8192
    BY <1>0, <1>3, SMT
  <2>2. (x - 16) % 65536 = IF x < 16 THEN x + 65520 ELSE x - 16
    BY <2>1, SMT
  <2>3. (((x - 16) % 65536) + 16) % 8192 = x
    BY <2>1, <2>2, SMT
  <2> QED BY <2>1, <2>2, <2>3, <1>3, SMT
<1> QED BY <1>1, <1>2, <1>3, Ring, SMT

LEMMA CardReadOK ==
  ASSUME capr \in Nat
  PROVE  CardRead \in Positions
<1>1. (capr + 16) % RingSize \in 0 .. RingSize - 1
  BY Sizes, SMT
<1> QED BY <1>1 DEF Positions, CardRead

LEMMA RoomOK ==
  ASSUME NEW n \in Lengths
  PROVE  /\ n \in Nat /\ Aligned(4 + n) \in Nat /\ Aligned(4 + n) % 4 = 0
         /\ 4 + n <= Aligned(4 + n) /\ Aligned(4 + n) >= 8
<1>1. n \in Nat /\ n >= 4
  BY Sizes, RingAssumption
<1> QED BY <1>1 DEF Aligned

(* The driver and the card compute the same next position. *)
LEMMA SameNext ==
  ASSUME NEW x \in Positions, x % 4 = 0, NEW n \in Lengths
  PROVE  NextOffset(x, n) = (x + Aligned(4 + n)) % RingSize
<1>1. n \in Nat /\ x \in Nat
  BY RoomOK, Sizes DEF Positions
<1>2. ((x + 4 + n + 3) \div 4) * 4 = x + ((4 + n + 3) \div 4) * 4
  BY <1>1
<1> QED BY <1>2 DEF NextOffset, Aligned

LEMMA Distance ==
  ASSUME NEW x \in Positions, NEW c \in Positions
  PROVE  /\ (x - c) % RingSize = IF x >= c THEN x - c ELSE x - c + RingSize
         /\ (x - c) % RingSize \in Positions
         /\ (x - c) % RingSize = 0 <=> x = c
BY Mod, Sizes DEF Positions

(* Going on by k bytes from x, no further than once around from c. *)
LEMMA Forward ==
  ASSUME NEW x \in Positions, NEW c \in Positions, NEW k \in Nat,
         ((x - c) % RingSize) + k < RingSize
  PROVE  /\ (x + k) % RingSize \in Positions
         /\ (((x + k) % RingSize) - c) % RingSize = ((x - c) % RingSize) + k
         /\ x % 4 = 0 /\ k % 4 = 0 => ((x + k) % RingSize) % 4 = 0
<1>1. (x + k) % RingSize = IF x + k < RingSize THEN x + k ELSE x + k - RingSize
  BY SMTT(30), Mod, Sizes, Distance DEF Positions
<1>2. (x + k) % RingSize \in Positions
  BY <1>1, Sizes, Distance DEF Positions
<1>3. (((x + k) % RingSize) - c) % RingSize = ((x - c) % RingSize) + k
  BY <1>1, <1>2, Sizes, Distance DEF Positions
<1>4. x % 4 = 0 /\ k % 4 = 0 => ((x + k) % RingSize) % 4 = 0
  BY <1>1, Sizes DEF Positions
<1> QED BY <1>2, <1>3, <1>4

(* Measured from k bytes further on, everything beyond is k bytes nearer. *)
LEMMA Nearer ==
  ASSUME NEW x \in Positions, NEW c \in Positions, NEW k \in Nat,
         k <= (x - c) % RingSize
  PROVE  (x - ((c + k) % RingSize)) % RingSize = ((x - c) % RingSize) - k
<1> DEFINE d == (c + k) % RingSize
<1>1. /\ (x - c) % RingSize = IF x >= c THEN x - c ELSE x - c + RingSize
      /\ (x - c) % RingSize < RingSize
  BY Sizes, Distance DEF Positions
<1>2. c + k \in Int /\ -RingSize <= c + k /\ c + k < 2 * RingSize
  BY <1>1, Sizes DEF Positions
<1>3. d = IF c + k < RingSize THEN c + k ELSE c + k - RingSize
  <2> DEFINE y == c + k
  <2>1. y \in Int /\ -RingSize <= y /\ y < 2 * RingSize
    BY <1>2
  <2> HIDE DEF y
  <2>2. y % RingSize = IF y < 0 THEN y + RingSize
                       ELSE IF y < RingSize THEN y ELSE y - RingSize
    BY ONLY <2>1, Mod
  <2> QED BY <2>2, <1>2, Sizes DEF y, Positions
<1>4. d \in Positions
  BY <1>2, <1>3, Sizes DEF Positions
<1>5. (x - d) % RingSize = IF x >= d THEN x - d ELSE x - d + RingSize
  <2> HIDE DEF d
  <2> QED BY <1>4, Distance
<1> QED BY <1>1, <1>3, <1>4, <1>5, Sizes DEF Positions

(* Two packets that follow each other in the ring have no byte in common,  *)
(* although either may go on behind the end of the ring, or at its start.  *)
LEMMA Apart ==
  ASSUME NEW p \in Packets, NEW q \in Packets, NEW c \in Positions,
         ((q.at - c) % RingSize) + 4 + q.len <= (p.at - c) % RingSize,
         ((p.at - c) % RingSize) + 4 + p.len < RingSize
  PROVE  ~Overlap(p, q) /\ ~AtStart(p, q)
<1>1. p.at \in Positions /\ q.at \in Positions /\ p.len \in Nat /\ q.len \in Nat
  BY RoomOK DEF Packets, Positions
<1>2. /\ (q.at - c) % RingSize = IF q.at >= c THEN q.at - c ELSE q.at - c + RingSize
      /\ (p.at - c) % RingSize = IF p.at >= c THEN p.at - c ELSE p.at - c + RingSize
  BY <1>1, Distance
<1>3. \/ q.at + 4 + q.len <= p.at
      \/ p.at + 4 + p.len <= q.at
  BY <1>1, <1>2, Sizes DEF Positions
<1>4. p.at + 4 + p.len - RingSize <= q.at
  BY <1>1, <1>2, Sizes DEF Positions
<1> QED BY <1>1, <1>3, <1>4, Sizes DEF Positions, Overlap, AtStart
-----------------------------------------------------------------------------
LEMMA Fields ==
  ASSUME NEW p \in Packets
  PROVE  p.at \in Positions /\ p.len \in Lengths
BY DEF Packets, Positions

(* Every packet between CAPR and the write position ends before the latter. *)
LEMMA ReadAhead ==
  ASSUME RingOK, NEW i \in 1 .. Len(held)
  PROVE  /\ held[i] \in Packets /\ held[i].at \in Positions /\ held[i].len \in Lengths
         /\ Room(held[i]) \in Nat /\ Room(held[i]) >= 8
         /\ 4 + held[i].len <= Room(held[i])
         /\ Ahead(held[i].at) \in Positions
         /\ Ahead(held[i].at) + Room(held[i]) <= Ahead(wr)
<1>1. held \in Seq(Packets) /\ capr \in Nat
  BY DEF RingOK
<1>2. held[i] \in Packets /\ held[i].at \in Positions /\ held[i].len \in Lengths
  <2>1. held[i] \in Packets
    BY <1>1
  <2> QED BY <2>1, Fields
<1>3. /\ Room(held[i]) \in Nat /\ Room(held[i]) >= 8
      /\ 4 + held[i].len <= Room(held[i])
  BY <1>2, RoomOK DEF Room
<1>4. Ahead(held[i].at) \in Positions
  BY <1>1, <1>2, CardReadOK, Distance DEF Ahead
<1>5. Ahead(held[i].at) + Room(held[i]) <= Ahead(wr)
  <2>0. \A m \in 1 .. Len(held) :
          Ahead(held[m].at) + Room(held[m])
            = IF m = Len(held) THEN Ahead(wr) ELSE Ahead(held[m + 1].at)
    BY DEF RingOK
  <2>1. CASE i = Len(held)
    <3>1. Ahead(held[i].at) + Room(held[i]) = Ahead(wr)
      BY <2>0, <2>1
    <3> QED BY <3>1, <1>3, <1>4, Sizes DEF Positions
  <2>2. CASE i < Len(held)
    <3> DEFINE j == Len(held)
    <3>1. j \in 1 .. Len(held) /\ i < j
      BY <2>2, <1>1
    <3> HIDE DEF j
    <3>2. held[j].at \in Positions /\ held[j].len \in Lengths
      <4>1. held[j] \in Packets
        BY <3>1, <1>1
      <4> QED BY <4>1, Fields
    <3>3. Ahead(held[j].at) \in Positions /\ Room(held[j]) \in Nat
      BY <3>2, <1>1, CardReadOK, Distance, RoomOK DEF Ahead, Room
    <3>4. Ahead(held[i].at) + Room(held[i]) <= Ahead(held[j].at)
      BY <3>1 DEF RingOK
    <3>5. Ahead(held[j].at) + Room(held[j]) = Ahead(wr)
      BY <3>1, <2>0 DEF j
    <3> QED BY <3>3, <3>4, <3>5, <1>3, <1>4, Sizes DEF Positions
  <2> QED BY <2>1, <2>2, <1>1
<1> QED BY <1>2, <1>3, <1>4, <1>5

(* What the card needs is there: a packet that fits ends before CAPR. *)
LEMMA Fits ==
  ASSUME RingOK, NEW k \in Nat, k < Space
  PROVE  /\ CardRead \in Positions /\ wr \in Positions
         /\ Ahead(wr) \in Positions /\ Ahead(wr) + k < RingSize
<1>1. CardRead \in Positions /\ wr \in Positions
  BY CardReadOK DEF RingOK, Positions
<1>2. /\ Ahead(wr) = IF wr >= CardRead THEN wr - CardRead ELSE wr - CardRead + RingSize
      /\ Ahead(wr) \in Positions
  BY <1>1, Distance DEF Ahead
<1>3. (CardRead - wr) % RingSize
        = IF CardRead >= wr THEN CardRead - wr ELSE CardRead - wr + RingSize
  BY <1>1, Distance
<1>4. Ahead(wr) + k < RingSize
  <2> HIDE DEF CardRead
  <2> QED BY <1>1, <1>2, <1>3, Sizes DEF Positions, Space, BufferEmpty
<1> QED BY <1>1, <1>2, <1>4

(* The card stores a packet behind the last one. *)
LEMMA StoreStep ==
  ASSUME RingOK, NEW n \in Lengths, NEW ok \in BOOLEAN, CardStore(n, ok)
  PROVE  RingOK'
<1> DEFINE p == [at |-> wr, len |-> n, ok |-> ok, mark |-> mark]
           l == Len(held)
<1>0. PICK copies \in BOOLEAN :
        rxBuffer' = {q \in rxBuffer : ~Overlap(p, q) /\ ~(copies /\ AtStart(p, q))}
                    \cup {p}
  BY DEF CardStore
<1>1. /\ rxBuffer' = {q \in rxBuffer : ~Overlap(p, q) /\ ~(copies /\ AtStart(p, q))}
                      \cup {p}
      /\ wr' = (wr + Room(p)) % RingSize
      /\ held' = Append(held, p)
      /\ pc' = pc /\ rxReadOffset' = rxReadOffset /\ capr' = capr
      /\ Room(p) < Space
  BY <1>0 DEF CardStore, Room
<1>2. /\ p \in Packets /\ p.at = wr /\ p.len \in Lengths
      /\ Room(p) \in Nat /\ Room(p) >= 8 /\ Room(p) % 4 = 0 /\ 4 + p.len <= Room(p)
      /\ p.len \in Nat
  BY RoomOK DEF Packets, Room, RingOK
<1> HIDE DEF p
<1>3. /\ held \in Seq(Packets) /\ l \in Nat /\ rxBuffer \subseteq Packets
      /\ wr % 4 = 0
  BY DEF RingOK
<1>4. /\ held' \in Seq(Packets) /\ Len(held') = l + 1 /\ held' # <<>>
      /\ \A i \in 1 .. l : held'[i] = held[i]
      /\ held'[l + 1] = p
  BY <1>1, <1>2, <1>3
<1>5. /\ CardRead \in Positions /\ wr \in Positions
      /\ Ahead(wr) \in Positions /\ Ahead(wr) + Room(p) < RingSize
  BY <1>1, <1>2, Fits
<1>6. CardRead' = CardRead /\ \A x : Ahead(x)' = Ahead(x)
  BY <1>1 DEF CardRead, Ahead
<1>7. /\ wr' \in Positions /\ wr' % 4 = 0
      /\ (wr' - CardRead) % RingSize = Ahead(wr) + Room(p)
  BY <1>1, <1>2, <1>3, <1>5, Forward DEF Ahead
<1>8. ~BufferEmpty'
  <2>0. Ahead(wr) + Room(p) # 0
    BY <1>2, <1>5, Sizes DEF Positions
  <2>1. (wr' - CardRead) % RingSize # 0
    BY <2>0, <1>7, Zenon
  <2>2. wr' # CardRead
    BY <2>1, <1>5, <1>7, Distance
  <2> QED BY <2>2, <1>6 DEF BufferEmpty
<1>9. \A i \in 1 .. l : held[i] \in rxBuffer'
  <2> TAKE i \in 1 .. l
  <2>0. held[i] \in rxBuffer
    BY DEF RingOK
  <2>1. /\ held[i] \in Packets /\ held[i].len \in Lengths
        /\ Room(held[i]) \in Nat /\ 4 + held[i].len <= Room(held[i])
        /\ Ahead(held[i].at) \in Positions
        /\ Ahead(held[i].at) + Room(held[i]) <= Ahead(wr)
    BY ReadAhead
  <2>2. /\ Ahead(held[i].at) + 4 + held[i].len <= Ahead(p.at)
        /\ Ahead(p.at) + 4 + p.len < RingSize
    <3>1. held[i].len \in Nat /\ Ahead(held[i].at) \in Nat /\ Ahead(wr) \in Nat
      BY SMTT(30), <2>1, <1>5, RoomOK, Sizes DEF Positions
    <3>2. \A a, m, r, b \in Nat : 4 + m <= r /\ a + r <= b => a + 4 + m <= b
      OBVIOUS
    <3>3. \A a, m, r, b \in Nat : 4 + m <= r /\ a + r < b => a + 4 + m < b
      OBVIOUS
    <3>4. Ahead(held[i].at) + 4 + held[i].len <= Ahead(wr)
      BY <3>1, <3>2, <2>1, Zenon
    <3>5. Ahead(wr) + 4 + p.len < RingSize
      BY <3>1, <3>3, <1>2, <1>5, Sizes, Zenon
    <3> QED BY <3>4, <3>5, <1>2
  <2>3. ~Overlap(p, held[i]) /\ ~AtStart(p, held[i])
    BY <2>1, <2>2, <1>2, <1>5, Apart DEF Ahead
  <2> QED BY <2>0, <2>3, <1>1
<1>10. rxBuffer' \subseteq Packets /\ \A q, r \in rxBuffer' : q.at = r.at => q = r
  <2>1. \A q \in Packets : q.at = p.at => Overlap(p, q)
    BY <1>2, <1>5, Fields, RoomOK, Sizes DEF Overlap, Positions
  <2> QED BY ZenonT(30), <2>1, <1>1, <1>2, <1>3 DEF RingOK
<1>11. held'[1].at = CardRead
  <2>1. CASE l = 0
    <3>1. held = <<>>
      BY <2>1, <1>3
    <3>2. wr = CardRead
      BY <3>1 DEF RingOK, BufferEmpty
    <3> QED BY <3>2, <2>1, <1>2, <1>4
  <2>2. CASE l # 0
    BY <2>2, <1>3, <1>4 DEF RingOK
  <2> QED BY <2>1, <2>2
<1>12. rxReadOffset' = (CardRead' + IF pc' = "capr" THEN Room(held'[1]) ELSE 0) % RingSize
  <2>1. pc = "capr" => held'[1] = held[1]
    BY <1>3, <1>4 DEF RingOK
  <2> QED BY <2>1, <1>1, <1>6 DEF RingOK
<1>13. \A i \in 1 .. l :
         /\ held[i].at % 4 = 0
         /\ Ahead(held[i].at) + Room(held[i])
              = IF i = l THEN Ahead(wr) ELSE Ahead(held[i + 1].at)
  BY DEF RingOK
<1>14. \A i \in 1 .. Len(held') :
         /\ held'[i] \in rxBuffer' /\ held'[i].at % 4 = 0
         /\ Ahead(held'[i].at) + Room(held'[i])
              = IF i = Len(held') THEN Ahead(wr') ELSE Ahead(held'[i + 1].at)
  <2> TAKE i \in 1 .. Len(held')
  <2>1. CASE i = l + 1
    BY ZenonT(30), SMTT(30), <2>1, <1>1, <1>2, <1>3, <1>4, <1>7 DEF Ahead
  <2>2. CASE i = l
    BY <2>2, <1>2, <1>3, <1>4, <1>9, <1>13
  <2>3. CASE i < l
    BY SMTT(30), <2>3, <1>2, <1>3, <1>4, <1>9, <1>13
  <2> QED BY <2>1, <2>2, <2>3, <1>3, <1>4
<1>15. \A i, j \in 1 .. Len(held') :
         i < j => Ahead(held'[i].at) + Room(held'[i]) <= Ahead(held'[j].at)
  <2>0. \A i, j \in 1 .. l : i < j => Ahead(held[i].at) + Room(held[i]) <= Ahead(held[j].at)
    BY DEF RingOK
  <2> SUFFICES ASSUME NEW i \in 1 .. Len(held'), NEW j \in 1 .. Len(held'), i < j
               PROVE  Ahead(held'[i].at) + Room(held'[i]) <= Ahead(held'[j].at)
    OBVIOUS
  <2>1. i \in 1 .. l /\ held'[i] = held[i]
    BY <1>3, <1>4
  <2>2. CASE j = l + 1
    BY <2>1, <2>2, <1>2, <1>4, ReadAhead
  <2>3. CASE j \in 1 .. l
    BY ZenonT(30), <2>0, <2>1, <2>3, <1>4
  <2> QED BY <2>2, <2>3, <1>3, <1>4
<1> HIDE DEF l
<1>16. mark' \in BOOLEAN
  BY DEF RingOK, CardStore
<1> QED BY <1>1, <1>4, <1>6, <1>7, <1>8, <1>10, <1>11, <1>12, <1>14, <1>15, <1>16, ZenonT(60)
        DEF RingOK, Ahead, Room, Positions

(* The driver tells the card that the oldest packet is read. *)
LEMMA CaprStep ==
  ASSUME RingOK, WriteCapr
  PROVE  RingOK'
<1> DEFINE k == Room(held[1])
           l == Len(held)
<1>0. capr' = (rxReadOffset - 16) % 65536
  BY SMT DEF WriteCapr
<1>1. /\ pc = "capr" /\ pc' = "loop"
      /\ held' = Tail(held) /\ wr' = wr /\ rxBuffer' = rxBuffer
      /\ rxReadOffset' = rxReadOffset /\ mark' = mark
  BY SMT DEF WriteCapr
<1>2. held \in Seq(Packets) /\ l \in Nat /\ l # 0 /\ capr \in Nat
  BY <1>1 DEF RingOK
<1>3. /\ held' \in Seq(Packets) /\ Len(held') = l - 1
      /\ \A i \in 1 .. l - 1 : held'[i] = held[i + 1]
      /\ held' = <<>> <=> l = 1
  <2>1. held' = Tail(held)
    BY <1>1
  <2>2. held # <<>>
    BY <1>2
  <2>3. Tail(held) \in Seq(Packets) /\ Len(Tail(held)) = l - 1
    BY <1>2, <2>2
  <2>4. \A i \in 1 .. l - 1 : Tail(held)[i] = held[i + 1]
    BY <1>2, <2>2
  <2>5. Tail(held) = <<>> <=> Len(Tail(held)) = 0
    BY <2>3, Emptiness, Zenon
  <2> HIDE DEF l
  <2> QED BY <2>1, <2>3, <2>4, <2>5, <1>2
<1>4. /\ CardRead \in Positions /\ wr \in Positions /\ rxReadOffset \in Positions
      /\ k \in Nat /\ k >= 8 /\ rxReadOffset = (CardRead + k) % RingSize
      /\ held[1].at = CardRead /\ Ahead(held[1].at) = 0
  <2>1. CardRead \in Positions /\ wr \in Positions /\ rxReadOffset \in Positions
    BY <1>2, CardReadOK DEF RingOK, Positions
  <2>2. k \in Nat /\ k >= 8
    BY <1>2, ReadAhead
  <2>3. rxReadOffset = (CardRead + k) % RingSize /\ held[1].at = CardRead
    BY <1>1, <1>2 DEF RingOK
  <2>4. Ahead(held[1].at) = 0
    BY <2>1, <2>3, Distance DEF Ahead
  <2> QED BY ZenonT(30), <2>1, <2>2, <2>3, <2>4
<1>5. CardRead' = rxReadOffset /\ capr' \in Nat
  BY <1>0, <1>4, CaprRead, SMT DEF CardRead
<1>6. \A x \in Positions :
        k <= Ahead(x) => (x - rxReadOffset) % RingSize = Ahead(x) - k
  <2> TAKE x \in Positions
  <2> HAVE k <= Ahead(x)
  <2> HIDE DEF k
  <2>1. (x - ((CardRead + k) % RingSize)) % RingSize = ((x - CardRead) % RingSize) - k
    BY SMTT(30), <1>4, Nearer DEF Ahead
  <2> QED BY <2>1, <1>4 DEF Ahead
<1>7. \A i \in 1 .. l :
        /\ held[i].at \in Positions /\ Ahead(held[i].at) \in Positions
        /\ Room(held[i]) \in Nat /\ Room(held[i]) >= 8
        /\ held[i] \in rxBuffer /\ held[i].at % 4 = 0
        /\ Ahead(held[i].at) + Room(held[i])
             = IF i = l THEN Ahead(wr) ELSE Ahead(held[i + 1].at)
  BY SMTT(30), ReadAhead DEF RingOK
<1>8. \A i \in 2 .. l :
        /\ k <= Ahead(held[i].at)
        /\ (held[i].at - rxReadOffset) % RingSize = Ahead(held[i].at) - k
  <2> SUFFICES ASSUME NEW i \in 2 .. l
               PROVE  /\ k <= Ahead(held[i].at)
                      /\ (held[i].at - rxReadOffset) % RingSize = Ahead(held[i].at) - k
    BY Zenon
  <2>1. 1 \in 1 .. l /\ i \in 1 .. l /\ 1 < i
    BY <1>2
  <2>2. 0 + k <= Ahead(held[i].at)
    BY <2>1, <1>4 DEF RingOK
  <2>3. k <= Ahead(held[i].at)
    BY <2>2, <1>4
  <2> QED BY ZenonT(30), <2>1, <2>3, <1>6, <1>7
<1> HIDE DEF k, l
<1>9. l \in Nat /\ l >= 1 /\ (l # 1 => 1 \in 1 .. l - 1)
      /\ 1 \in 1 .. l /\ l \in 1 .. l /\ (l # 1 => 2 \in 2 .. l /\ 2 \in 1 .. l /\ l \in 2 .. l)
  <2>1. l \in Nat /\ l # 0
    BY <1>2
  <2> QED BY <2>1
<1>10. /\ Ahead(wr) \in Positions /\ k <= Ahead(wr)
       /\ (wr - rxReadOffset) % RingSize = Ahead(wr) - k
       /\ (Ahead(wr) = k <=> l = 1)
  <2>1. Ahead(wr) \in Positions
    BY <1>4, Distance DEF Ahead
  <2>2. k <= Ahead(wr) /\ (Ahead(wr) = k <=> l = 1)
    <3>1. Ahead(held[l].at) + Room(held[l]) = Ahead(wr)
      BY <1>9, <1>7
    <3>2. CASE l = 1
      <4>1. 0 + k = Ahead(wr)
        BY <3>1, <3>2, <1>4 DEF k
      <4> QED BY <4>1, <3>2, <1>4
    <3>3. CASE l # 1
      <4>1. k <= Ahead(held[l].at) /\ Room(held[l]) >= 8
        BY <3>3, <1>7, <1>8, <1>9, Zenon
      <4>2. \A a, r, w \in Nat : a + r = w /\ k <= a /\ r >= 8 => k <= w /\ w # k
        BY <1>4
      <4>3. Ahead(held[l].at) \in Nat /\ Room(held[l]) \in Nat /\ Ahead(wr) \in Nat
        BY <2>1, <1>7, <1>9, Sizes DEF Positions
      <4> QED BY <4>1, <4>2, <4>3, <3>1, <3>3, Zenon
    <3> QED BY <3>2, <3>3
  <2> QED BY <2>1, <2>2, <1>4, <1>6
<1>11. (held' = <<>> <=> BufferEmpty') /\ (held' # <<>> => held'[1].at = CardRead')
  <2>1. BufferEmpty' <=> rxReadOffset = wr
    BY <1>1, <1>5 DEF BufferEmpty
  <2>2. (wr - rxReadOffset) % RingSize = 0 <=> l = 1
    <3>1. \A a \in Positions : a - k = 0 <=> a = k
      BY <1>4, Sizes DEF Positions
    <3> QED BY <3>1, <1>10, Zenon
  <2>3. wr = rxReadOffset <=> l = 1
    BY <2>2, <1>4, Distance
  <2>4. CASE l # 1
    <3>2. held'[1] = held[2] /\ held[2].at \in Positions
      BY <2>4, <1>9, <1>3, <1>7
    <3>3. 0 + k = Ahead(held[2].at)
      BY <2>4, <1>4, <1>7, <1>9 DEF k
    <3>4. (held[2].at - rxReadOffset) % RingSize = 0
      BY <2>4, <3>3, <1>4, <1>8, <1>9
    <3>5. held[2].at = rxReadOffset
      BY ZenonT(30), <3>2, <3>4, <1>4, Distance
    <3> QED BY <2>1, <2>3, <3>2, <3>5, <1>3, <1>5
  <2>5. CASE l = 1
    BY <2>1, <2>3, <2>5, <1>3
  <2> QED BY <2>4, <2>5
<1>12. rxReadOffset = (CardRead' + 0) % RingSize
  BY <1>4, <1>5, Mod, Sizes DEF Positions
<1> DEFINE A(x) == (x - rxReadOffset) % RingSize
<1>13. \A i \in 1 .. l - 1 :
         /\ i + 1 \in 2 .. l /\ i + 1 \in 1 .. l
         /\ held'[i] = held[i + 1] /\ Room(held[i + 1]) \in Nat
         /\ Ahead(held[i + 1].at) \in Nat
         /\ A(held[i + 1].at) = Ahead(held[i + 1].at) - k
  <2> TAKE i \in 1 .. l - 1
  <2>1. i + 1 \in 2 .. l /\ i + 1 \in 1 .. l
    BY <1>9
  <2> QED BY <2>1, <1>3, <1>7, <1>8, Sizes DEF Positions
<1>14. \A i \in 1 .. Len(held') :
         /\ held'[i] \in rxBuffer' /\ held'[i].at % 4 = 0
         /\ A(held'[i].at) + Room(held'[i])
              = IF i = Len(held') THEN A(wr') ELSE A(held'[i + 1].at)
  <2> TAKE i \in 1 .. Len(held')
  <2>1. i \in 1 .. l - 1 /\ (i # l - 1 => i + 1 \in 1 .. l - 1) /\ (i = l - 1 <=> i + 1 = l)
    BY <1>3, <1>9
  <2>2. held'[i] \in rxBuffer' /\ held'[i].at % 4 = 0
    BY ZenonT(30), <2>1, <1>1, <1>7, <1>13
  <2>3. \A a, r, w \in Nat : a + r = w => (a - k) + r = w - k
    BY <1>4
  <2> DEFINE a == Ahead(held[i + 1].at)
             r == Room(held[i + 1])
  <2>4. /\ a + r = IF i + 1 = l THEN Ahead(wr) ELSE Ahead(held[i + 1 + 1].at)
        /\ a \in Nat /\ r \in Nat /\ A(held'[i].at) = a - k /\ Room(held'[i]) = r
    BY ZenonT(30), <2>1, <1>7, <1>13
  <2> HIDE DEF a, r
  <2>5. CASE i = l - 1
    <3>1. a + r = Ahead(wr) /\ Ahead(wr) \in Nat
      BY <2>1, <2>4, <2>5, <1>10, Sizes DEF Positions
    <3>2. (a - k) + r = Ahead(wr) - k
      BY ZenonT(30), <2>3, <2>4, <3>1
    <3> QED BY ZenonT(30), SMTT(30), <2>2, <2>4, <2>5, <3>2, <1>1, <1>3, <1>10
  <2>6. CASE i # l - 1
    <3> DEFINE w == Ahead(held[i + 1 + 1].at)
    <3>1. a + r = w /\ w \in Nat /\ A(held'[i + 1].at) = w - k
      BY <2>1, <2>4, <2>6, <1>13
    <3> HIDE DEF w
    <3>2. (a - k) + r = w - k
      BY ZenonT(30), <2>3, <2>4, <3>1
    <3> QED BY ZenonT(30), <2>2, <2>4, <2>6, <3>1, <3>2, <1>3
  <2> QED BY <2>5, <2>6
<1>15. \A i, j \in 1 .. Len(held') :
         i < j => A(held'[i].at) + Room(held'[i]) <= A(held'[j].at)
  <2> SUFFICES ASSUME NEW i \in 1 .. Len(held'), NEW j \in 1 .. Len(held'), i < j
               PROVE  A(held'[i].at) + Room(held'[i]) <= A(held'[j].at)
    OBVIOUS
  <2>1. i \in 1 .. l - 1 /\ j \in 1 .. l - 1 /\ i + 1 < j + 1
    BY SMTT(30), <1>3, <1>9
  <2>2. Ahead(held[i + 1].at) + Room(held[i + 1]) <= Ahead(held[j + 1].at)
    BY <2>1, <1>13 DEF RingOK, l
  <2>3. \A a, r, w \in Nat : a + r <= w => (a - k) + r <= w - k
    BY <1>4
  <2>4. (Ahead(held[i + 1].at) - k) + Room(held[i + 1]) <= Ahead(held[j + 1].at) - k
    BY <2>1, <2>2, <2>3, <1>13, Zenon
  <2> QED BY ZenonT(30), SMTT(30), <2>1, <2>4, <1>13
<1>16. /\ wr' \in Positions /\ wr' % 4 = 0 /\ rxReadOffset' \in Positions
       /\ rxBuffer' \subseteq Packets /\ mark' \in BOOLEAN
       /\ \A p, q \in rxBuffer' : p.at = q.at => p = q
  BY <1>1 DEF RingOK, Positions
<1>17. (\A i \in 1 .. Len(held) :
          /\ held[i] \in rxBuffer /\ held[i].at % 4 = 0
          /\ Ahead(held[i].at) + Room(held[i])
               = IF i = Len(held) THEN Ahead(wr) ELSE Ahead(held[i + 1].at))'
  BY <1>5, <1>14, Zenon DEF Ahead, Room
<1>18. (\A i, j \in 1 .. Len(held) :
          i < j => Ahead(held[i].at) + Room(held[i]) <= Ahead(held[j].at))'
  BY <1>5, <1>15, Zenon DEF Ahead, Room
<1>19. rxReadOffset' = (CardRead' + IF pc' = "capr" THEN Room(held'[1]) ELSE 0) % RingSize
  BY <1>1, <1>12
<1> QED BY <1>1, <1>3, <1>5, <1>11, <1>16, <1>17, <1>18, <1>19, Zenon
        DEF RingOK, Room, Positions

(* What the driver takes for a header is that of the oldest packet. *)
LEMMA AtOldest ==
  ASSUME RingOK, pc = "packet", NEW p \in Headers
  PROVE  /\ p = held[1] /\ p = Head(held) /\ p \in Packets /\ p \in rxBuffer
         /\ p.at % 4 = 0 /\ p.at = CardRead /\ p.at = rxReadOffset
         /\ p.at \in Positions /\ p.len \in Lengths /\ Room(p) \in Nat
<1> DEFINE q == held[1]
<1>1. held # <<>> /\ held \in Seq(Packets) /\ capr \in Nat
  BY DEF RingOK
<1>2. 1 \in 1 .. Len(held) /\ q = Head(held)
  BY SMTT(30), <1>1
<1>3. q \in Packets /\ q.at \in Positions /\ q.len \in Lengths /\ q \in rxBuffer
      /\ q.at % 4 = 0 /\ q.at = CardRead /\ Room(q) \in Nat
  BY <1>1, <1>2, ReadAhead DEF RingOK
<1>4. rxReadOffset = q.at
  <2>1. rxReadOffset = (CardRead + 0) % RingSize
    BY DEF RingOK
  <2>2. \A x \in Positions : (x + 0) % RingSize = x
    BY Mod, Sizes DEF Positions
  <2> QED BY <2>1, <2>2, <1>3, Zenon
<1>5. p = q
  <2>1. p \in rxBuffer /\ p.at = rxReadOffset
    BY <1>3, <1>4 DEF Headers
  <2> QED BY ZenonT(30), <2>1, <1>3, <1>4 DEF RingOK
<1> QED BY <1>2, <1>3, <1>4, <1>5

(* It goes past the packet before it tells the card. *)
LEMMA PacketStep ==
  ASSUME RingOK, RxPacket
  PROVE  RingOK'
<1>1. PICK p \in Headers :
        /\ pc = "packet" /\ pc' = "capr"
        /\ rxReadOffset' = NextOffset(rxReadOffset, p.len)
        /\ UNCHANGED <<capr, wr, rxBuffer, held, mark>>
  BY Zenon DEF RxPacket
<1>2. /\ p = held[1] /\ p.at % 4 = 0 /\ p.at = CardRead /\ p.at = rxReadOffset
      /\ p.at \in Positions /\ p.len \in Lengths /\ Room(p) \in Nat
  BY <1>1, AtOldest
<1>3. rxReadOffset' = (CardRead + Room(p)) % RingSize
  BY <1>1, <1>2, SameNext DEF Room
<1>4. rxReadOffset' \in Positions
  <2>1. CardRead + Room(p) \in Nat
    BY <1>2, Sizes DEF Positions
  <2>2. \A x \in Nat : x % RingSize \in 0 .. RingSize - 1
    BY Sizes, SMT
  <2> QED BY <2>1, <2>2, <1>3, Zenon DEF Positions
<1>5. CardRead' = CardRead /\ held' = held /\ wr' = wr /\ rxBuffer' = rxBuffer
      /\ mark' = mark /\ capr' = capr
  BY <1>1 DEF CardRead
<1>6. rxReadOffset' = (CardRead' + IF pc' = "capr" THEN Room(held'[1]) ELSE 0) % RingSize
  BY ZenonT(30), <1>1, <1>2, <1>3, <1>5
<1>7. held # <<>>
  BY <1>1 DEF RingOK
<1> QED BY <1>1, <1>4, <1>5, <1>6, <1>7, Zenon DEF RingOK, Ahead, BufferEmpty, Positions

(* No other step moves anything in the ring. *)
LEMMA OtherStep ==
  ASSUME RingOK,
         ProcessRxBuffer \/ RxBufferEmpty \/ ReceivePacket \/ UNCHANGED rxVars
  PROVE  RingOK'
<1>1. /\ rxReadOffset' = rxReadOffset /\ capr' = capr /\ wr' = wr
      /\ rxBuffer' = rxBuffer /\ held' = held /\ mark' = mark
  BY DEF ProcessRxBuffer, RxBufferEmpty, ReceivePacket, rxVars
<1>2. CardRead' = CardRead
  BY <1>1 DEF CardRead
<1>3. /\ pc' \in {"idle", "loop", "packet", "capr"}
      /\ pc' = "capr" <=> pc = "capr"
      /\ pc' \in {"packet", "capr"} => held # <<>>
  BY DEF ProcessRxBuffer, RxBufferEmpty, ReceivePacket, rxVars, RingOK
<1> QED BY <1>1, <1>2, <1>3, Zenon DEF RingOK, Ahead, BufferEmpty

LEMMA InitRing == RxInit => RingOK
<1> SUFFICES ASSUME RxInit PROVE RingOK
  OBVIOUS
<1>1. /\ pc = "idle" /\ rxReadOffset = 0 /\ wr = 0 /\ rxBuffer = {}
      /\ held = <<>> /\ mark = FALSE
  BY SMT DEF RxInit
<1>2. capr \in Nat /\ CardRead = 0
  <2>1. capr = 65520
    BY SMT DEF RxInit
  <2>2. CASE RingSize = 32
    BY <2>1, <2>2, SMT DEF CardRead
  <2>3. CASE RingSize = 64
    BY <2>1, <2>3, SMT DEF CardRead
  <2>4. CASE RingSize = 8192
    BY <2>1, <2>4, SMT DEF CardRead
  <2> QED BY <2>2, <2>3, <2>4, Ring
<1>3. 0 \in 0 .. RingSize - 1 /\ 0 % 4 = 0 /\ 0 = (0 + 0) % RingSize
  BY Sizes, Mod
<1>4. Len(held) = 0 /\ held \in Seq(Packets) /\ 1 .. Len(held) = {}
  BY <1>1
<1> QED BY <1>1, <1>2, <1>3, <1>4, Zenon DEF RingOK, BufferEmpty

LEMMA NextRing == RingOK /\ [RxNext]_rxVars => RingOK'
BY StoreStep, CaprStep, PacketStep, OtherStep DEF RxNext

(* Whatever the lengths of the packets, and for the ring of 8192 bytes,    *)
(* the positions that CAPR, rx_read_offset and the card keep agree, and no *)
(* packet is overwritten before process_rx_buffer has read it.             *)
THEOREM RingIntact == RxSpec => []RingOK
BY InitRing, NextRing, PTL DEF RxSpec

(* Only process_rx_buffer with a packet, and receive_packet, use rx_queue. *)
LEMMA OtherQueue ==
  ASSUME RxNext, ~RxPacket, ~ReceivePacket
  PROVE  UNCHANGED queueVars
<1>1. ASSUME NEW n \in Lengths, NEW ok \in BOOLEAN, CardStore(n, ok)
      PROVE  UNCHANGED queueVars
  BY <1>1, Zenon DEF CardStore
<1>2. ProcessRxBuffer => UNCHANGED queueVars
  BY Zenon DEF ProcessRxBuffer
<1>3. RxBufferEmpty => UNCHANGED queueVars
  BY Zenon DEF RxBufferEmpty
<1>4. WriteCapr => UNCHANGED queueVars
  BY SMT DEF WriteCapr, queueVars
<1> QED BY <1>1, <1>2, <1>3, <1>4, Zenon DEF RxNext

LEMMA FrameOK ==
  ASSUME RingOK, pc = "packet", NEW p \in Headers
  PROVE  Frame(p) \in Frames
<1>1. p \in Packets
  BY AtOldest
<1>2. p.len \in Lengths /\ p.mark \in BOOLEAN
  BY <1>1 DEF Packets
<1>3. Frames = [len : {n - 4 : n \in Lengths}, mark : BOOLEAN]
  BY RingAssumption
<1> QED BY <1>2, <1>3 DEF Frame

(* The driver uses rx_queue through push and pop only. *)
LEMMA QueueStep ==
  ASSUME RingOK, [RxNext]_rxVars
  PROVE  [Next]_vars
<1>2. CASE RxPacket
  BY FrameOK, <1>2, Zenon DEF RxPacket, Next, vars, queueVars
<1>3. CASE UNCHANGED queueVars
  BY <1>3 DEF queueVars, vars
<1>4. CASE ReceivePacket
  BY <1>4, Zenon DEF ReceivePacket, Next
<1> QED BY <1>2, <1>3, <1>4, OtherQueue, Zenon DEF rxVars

LEMMA RxQueue == RxSpec => Spec
<1>1. RxInit => Init
  BY SMT DEF RxInit
<1> QED BY <1>1, RingIntact, QueueStep, PTL DEF RxSpec, Spec

(* With the card in front of it rx_queue still is a queue. *)
THEOREM QueueOfRing == RxSpec => IsFifo
BY RxQueue, Refinement, PTL

(* Only good packets, oldest first and each with its own length, enter     *)
(* rx_queue: what the handler copies is never a part of another packet.    *)
THEOREM Delivery == RxSpec => OldestDelivered
<1>1. ASSUME Inv, RingOK, [RxNext]_rxVars, size' > size
      PROVE  Head(held).ok /\ Contents'[size'] = Frame(Head(held))
  <2>1. size \in Nat
    BY <1>1 DEF Inv, TypeOK
  <2>2. RxPacket
    <3>1. ~(UNCHANGED queueVars)
      BY <1>1, <2>1 DEF queueVars
    <3>2. ~ReceivePacket
      BY <1>1, <2>1 DEF ReceivePacket, Pop, PopEmpty
    <3> QED BY <3>1, <3>2, <1>1, OtherQueue, Zenon DEF rxVars
  <2>3. PICK p \in Headers : pc = "packet" /\ p.ok /\ Push(Frame(p))
    <3>1. \A f : ~PushDrops(f)
      BY <1>1, <2>1 DEF PushDrops
    <3>2. ~(UNCHANGED queueVars)
      BY <1>1, <2>1 DEF queueVars
    <3> QED BY <2>2, <3>1, <3>2, Zenon DEF RxPacket
  <2>4. p = Head(held) /\ p \in Packets
    BY <1>1, <2>3, AtOldest
  <2>5. Contents' = Append(Contents, Frame(p)) /\ size' = size + 1
    <3>1. Frame(p) \in Frames
      BY <1>1, <2>3, FrameOK
    <3> QED BY <1>1, <2>3, <3>1, PushContents, Zenon DEF Push
  <2>6. Len(Contents) = size /\ Contents \in Seq(Frames)
    BY <1>1, <2>1 DEF Inv, Contents
  <2>7. Contents'[size'] = Frame(p)
    BY ONLY <2>1, <2>5, <2>6
  <2> QED BY <2>3, <2>4, <2>7
<1>2. RxSpec => []Inv
  BY RxQueue, Invariance, PTL
<1> QED BY <1>1, <1>2, RingIntact, PTL DEF RxSpec, OldestDelivered
=============================================================================
