-------------------------------- MODULE Once --------------------------------
(***************************************************************************)
(* The Once cells of the kernel, initialised by the boot code, by threads  *)
(* and by an interrupt handler.                                            *)
(*                                                                         *)
(* The boot code initialises the cells in Early (TERMINAL, FILESYSTEM,     *)
(* IDT, TIMER, PCI_BUS, RTL8139) before it enables interrupts; the ones in *)
(* Lazy (SCHEDULER, KEYBOARD_BUFFER) belong to whoever comes first, thread *)
(* or handler.  The boot code goes on with interrupts enabled until the    *)
(* scheduler starts the first thread, and never comes back.  While the     *)
(* handler runs nobody else does.  A value is allocated on the heap before *)
(* it is written to its cell.                                              *)
(*                                                                         *)
(* An operator Name_Defect is Name with a plausible mistake in the code;   *)
(* it is not part of the specification.                                    *)
(***************************************************************************)
EXTENDS Naturals

CONSTANTS Early, Lazy, SCHEDULER, Threads, Boot, Isr, NoValue

Cells == Early \cup Lazy
Contexts == Threads \cup {Boot, Isr}

ASSUME OnceAssumption ==
  /\ Early \cap Lazy = {} /\ SCHEDULER \in Lazy
  /\ Boot # Isr /\ {Boot, Isr} \cap Threads = {}
  /\ NoValue \notin Contexts

VARIABLES
  initialized,  \* the flag of each cell
  value,        \* its value, named after the context that wrote it
  place, cell,     \* where each context is, and in which cell
  allocLock,    \* the heap's lock bit
  phase         \* what runs: boot code, boot code and handler, threads and handler

onceVars == <<initialized, value, place, cell, allocLock, phase>>

(* Types, and the lock bit is set while somebody is in the heap. *)
CellTypes ==
  /\ initialized \in [Cells -> BOOLEAN]
  /\ value \in [Cells -> Contexts \cup {NoValue}]
  /\ place \in [Contexts -> {"idle", "construct", "alloc", "write", "reference",
                          "heap"}]
  /\ cell \in [Contexts -> Cells]
  /\ allocLock = \E c \in Contexts : place[c] \in {"alloc", "heap"}
  /\ phase \in {"boot", "menu", "threads"}

OnceInit ==
  /\ initialized = [x \in Cells |-> FALSE]
  /\ value = [x \in Cells |-> NoValue]
  /\ place = [c \in Contexts |-> "idle"]
  /\ cell = [c \in Contexts |-> SCHEDULER]
  /\ allocLock = FALSE /\ phase = "boot"

(* The handler is never interrupted, and a thread that holds the heap's    *)
(* lock is interrupted but not switched away from (see Scheduler).         *)
MayRun(c) ==
  /\ c = Boot => phase # "threads"
  /\ c = Isr => phase # "boot"
  /\ c \in Threads => phase = "threads"
  /\ c # Isr => /\ place[Isr] = "idle"
                /\ \A d \in Contexts \ {c} : place[d] \notin {"alloc", "heap"}

At(c, l) == place[c] = l /\ MayRun(c)
Goto(c, l) == place' = [place EXCEPT ![c] = l]
-----------------------------------------------------------------------------
Swap_OldIgnored(c, x) ==
  /\ At(c, "idle")
  /\ phase = "boot" => x \in Early
  /\ cell' = [cell EXCEPT ![c] = x]
  /\ initialized' = [initialized EXCEPT ![x] = TRUE]
  /\ Goto(c, "construct")
  /\ UNCHANGED <<value, allocLock, phase>>

(* init: the flag is set and its old value decides. *)
Swap(c, x) ==
  /\ At(c, "idle")
  /\ phase = "boot" => x \in Early
  /\ cell' = [cell EXCEPT ![c] = x]
  /\ initialized' = [initialized EXCEPT ![x] = TRUE]
  /\ Goto(c, IF initialized[x] THEN "reference" ELSE "construct")
  /\ UNCHANGED <<value, allocLock, phase>>

(* init(): the closure allocates. *)
ConstructLock(c) ==
  /\ At(c, "construct") /\ ~allocLock
  /\ allocLock' = TRUE
  /\ Goto(c, "alloc")
  /\ UNCHANGED <<initialized, value, cell, phase>>

ConstructUnlock(c) ==
  /\ At(c, "alloc")
  /\ allocLock' = FALSE
  /\ Goto(c, "write")
  /\ UNCHANGED <<initialized, value, cell, phase>>

Write(c) ==
  /\ At(c, "write")
  /\ value' = [value EXCEPT ![cell[c]] = c]
  /\ Goto(c, "reference")
  /\ UNCHANGED <<initialized, cell, allocLock, phase>>

(* get: a reference if the flag is set; None leaves the caller where it is *)
Get(c, x) ==
  /\ At(c, "idle") /\ initialized[x]
  /\ cell' = [cell EXCEPT ![c] = x]
  /\ Goto(c, "reference")
  /\ UNCHANGED <<initialized, value, allocLock, phase>>

(* The caller is done with the reference. *)
Done(c) ==
  /\ At(c, "reference")
  /\ Goto(c, "idle")
  /\ UNCHANGED <<initialized, value, cell, allocLock, phase>>

(* Any other allocation of the boot code or a thread. *)
HeapLock(t) ==
  /\ At(t, "idle") /\ ~allocLock
  /\ allocLock' = TRUE
  /\ Goto(t, "heap")
  /\ UNCHANGED <<initialized, value, cell, phase>>

HeapUnlock(t) ==
  /\ At(t, "heap")
  /\ allocLock' = FALSE
  /\ Goto(t, "idle")
  /\ UNCHANGED <<initialized, value, cell, phase>>

Goes(from, to) == phase = from /\ phase' = to /\ place[Boot] = "idle"

EnableInt_First ==
  /\ Goes("boot", "menu")
  /\ UNCHANGED <<initialized, value, place, cell, allocLock>>

(* The last step of main() before the menu. *)
EnableInt ==
  /\ Goes("boot", "menu") /\ \A x \in Early : initialized[x]
  /\ UNCHANGED <<initialized, value, place, cell, allocLock>>

(* demo_menu: schedule() leaves the boot code for the first thread. *)
StartThreads ==
  /\ Goes("menu", "threads") /\ place[Isr] = "idle" /\ initialized[SCHEDULER]
  /\ UNCHANGED <<initialized, value, place, cell, allocLock>>
-----------------------------------------------------------------------------
Call(c) == \E x \in Cells : Swap(c, x) \/ Get(c, x)
Continue(c) == ConstructLock(c) \/ ConstructUnlock(c) \/ Write(c) \/ Done(c)
OnceNext ==
  \/ EnableInt \/ StartThreads
  \/ \E c \in Contexts : Call(c) \/ Continue(c)
  \/ \E t \in Threads \cup {Boot} : HeapLock(t) \/ HeapUnlock(t)

OnceSpec == OnceInit /\ [][OnceNext]_onceVars
-----------------------------------------------------------------------------
(* Properties *)

(* However calls of init interleave, a cell is written once: nobody's      *)
(* reference sees the value replaced.                                      *)
WrittenOnce ==
  [][\A x \in Cells : value[x] # NoValue => value'[x] = value[x]]_onceVars

(* The cells that main() initialises before it enables interrupts are      *)
(* never seen without their value, nor does their construction meet the    *)
(* heap locked by an interrupted thread.  (The variables have their types.) *)
EarlyCellsSafe ==
  /\ CellTypes
  /\ \A c \in Contexts : cell[c] \in Early =>
       /\ place[c] = "reference" => value[cell[c]] # NoValue
       /\ place[c] \in {"construct", "alloc", "write"} => phase = "boot"

(* "It allows you to initialize a value exactly once, and then access it   *)
(* safely afterward." (once.rs:15)                                         *)
AccessIsSafe ==
  \A c \in Contexts : place[c] = "reference" => value[cell[c]] # NoValue
=============================================================================
