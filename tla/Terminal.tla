------------------------------ MODULE Terminal ------------------------------
(***************************************************************************)
(* The terminal, its framebuffer and the threads that share them: text     *)
(* printed under the terminal's lock, pictures drawn under the lock of the *)
(* framebuffer, the spinner of the timer's handler, and the heap's free    *)
(* list printed under the heap's lock, with which no thread is switched.   *)
(*                                                                         *)
(* A cell of the screen shows the thread whose character is there; colours *)
(* and pixels are left out.  The scheduler is the one RoundRobin promises, *)
(* with any thread next.  out, scrolled and calls are history.             *)
(*                                                                         *)
(* An operator Name_Defect is Name with a plausible mistake in the code;   *)
(* it is not part of the specification.                                    *)
(***************************************************************************)
EXTENDS Naturals, Sequences

CONSTANTS
  Threads,
  Cols, Rows,
  Texts,      \* what is printed: sequences over "x" and "\n"
  Spinner,    \* the cell, column and row, the timer draws in
  Picture,    \* the cells a bitmap covers
  DumpLines,  \* the lines of a dump: one and one per free block
  MaxCalls    \* bound on the calls

Blank == "blank"
Graphic == "graphic"
Cell == (0 .. Cols - 1) \X (0 .. Rows - 1)

ASSUME TerminalAssumption ==
  /\ {Cols, Rows, DumpLines} \subseteq Nat \ {0} /\ MaxCalls \in Nat
  /\ Texts \subseteq Seq({"x", "\n"}) \ {<<>>}
  /\ Spinner \in Cell /\ Picture \subseteq Cell
  /\ {Blank, Graphic} \cap Threads = {}

VARIABLES
  termLock, fbLock, allocLock,  \* lock bits
  pos,       \* cursor: column and row
  screen,    \* what each cell shows
  cpu,       \* the running thread
  pc,        \* where each thread is
  rest,      \* the characters it has yet to print
  dump,      \* 1 + the lines of the free list it has yet to print, or 0
  out,       \* the characters of the latest print: by, char, col, line
  scrolled,  \* lines scrolled since it began
  calls

locks   == <<termLock, fbLock, allocLock>>
display == <<pos, screen>>
history == <<out, scrolled, calls>>
vars    == <<locks, display, cpu, pc, rest, dump, history>>

Drawing == {"draw", "clear", "picture"}

(* Types; the cursor is on the screen whenever a character may be drawn.   *)
TypeOK ==
  /\ {termLock, fbLock, allocLock} \subseteq BOOLEAN
  /\ pos \in Cell /\ screen \in [Cell -> Threads \cup {Blank, Graphic}]
  /\ cpu \in Threads
  /\ pc \in [Threads -> {"run", "wait", "locked", "print"} \cup Drawing]
  /\ rest \in [Threads -> Seq({"x", "\n"})]
  /\ dump \in [Threads -> 0 .. DumpLines + 1]

Init ==
  /\ termLock = FALSE /\ fbLock = FALSE /\ allocLock = FALSE
  /\ pos = <<0, 0>> /\ screen = [c \in Cell |-> Blank]
  /\ cpu \in Threads
  /\ pc = [t \in Threads |-> "run"] /\ rest = [t \in Threads |-> <<>>]
  /\ dump = [t \in Threads |-> 0]
  /\ out = <<>> /\ scrolled = 0 /\ calls = 0

At(t, l) == cpu = t /\ pc[t] = l
Goto(t, l) == pc' = [pc EXCEPT ![t] = l]
Call(t) == At(t, "run") /\ calls < MaxCalls /\ calls' = calls + 1
-----------------------------------------------------------------------------
(* print!, println!, sys_print; and terminal().lock().clear() *)

PrintCall(t, text) ==
  /\ Call(t) /\ dump[t] = 0
  /\ rest' = [rest EXCEPT ![t] = text]
  /\ Goto(t, "wait")
  /\ UNCHANGED <<locks, display, cpu, dump, out, scrolled>>

LockTerminal_Ignored(t) ==
  /\ At(t, "wait")
  /\ termLock' = TRUE
  /\ out' = <<>> /\ scrolled' = 0
  /\ Goto(t, "locked")
  /\ UNCHANGED <<fbLock, allocLock, display, cpu, rest, dump, calls>>

LockTerminal(t) ==
  /\ At(t, "wait") /\ ~termLock
  /\ termLock' = TRUE
  /\ out' = <<>> /\ scrolled' = 0
  /\ Goto(t, "locked")
  /\ UNCHANGED <<fbLock, allocLock, display, cpu, rest, dump, calls>>

AtMost(n, m) == IF n < m THEN n ELSE m

(* A thread that has locked the terminal may place the cursor. *)
SetPos(t, col, row) ==
  /\ At(t, "locked") /\ rest[t] # <<>> /\ dump[t] = 0
  /\ pos' = <<AtMost(col, Cols - 1), AtMost(row, Rows - 1)>>
  /\ Goto(t, "print")
  /\ UNCHANGED <<locks, screen, cpu, rest, dump, history>>

LockFramebuffer(t, to) ==
  /\ ~fbLock /\ fbLock' = TRUE
  /\ Goto(t, to)
  /\ UNCHANGED <<termLock, allocLock, display, cpu, rest, dump>>

PutCharLock(t) ==
  /\ At(t, "locked") \/ At(t, "print")
  /\ rest[t] # <<>>
  /\ LockFramebuffer(t, "draw")
  /\ UNCHANGED history

Advance(p, ch) ==
  LET col == IF ch = "\n" THEN p[1] ELSE p[1] + 1
  IN  IF col >= Cols \/ ch = "\n" THEN <<0, p[2] + 1>> ELSE <<col, p[2]>>

DrawChar(p, x) == [screen EXCEPT ![p] = x]
ScrollUp(s) == [c \in Cell |-> IF c[2] = Rows - 1 THEN Blank ELSE s[<<c[1], c[2] + 1>>]]

(* put_char_colored, with the framebuffer locked *)
PutChar(t) ==
  /\ At(t, "draw")
  /\ LET ch == Head(rest[t])
         drawn == IF ch = "\n" \/ pos \notin Cell THEN screen ELSE DrawChar(pos, t)
         next == Advance(pos, ch)
         over == next[2] >= Rows
     IN  /\ screen' = IF over THEN ScrollUp(drawn) ELSE drawn
         /\ pos' = IF over THEN <<next[1], Rows - 1>> ELSE next
         /\ scrolled' = IF over THEN scrolled + 1 ELSE scrolled
         /\ out' = Append(out, [by |-> t, char |-> ch, col |-> pos[1],
                                line |-> pos[2] + scrolled])
  /\ rest' = [rest EXCEPT ![t] = Tail(@)]
  /\ fbLock' = FALSE
  /\ Goto(t, "print")
  /\ UNCHANGED <<termLock, allocLock, cpu, dump, calls>>

ClearCall(t) ==
  /\ Call(t) /\ dump[t] = 0
  /\ Goto(t, "wait")
  /\ UNCHANGED <<locks, display, cpu, rest, dump, out, scrolled>>

ClearLock(t) ==
  /\ At(t, "locked") /\ rest[t] = <<>>
  /\ LockFramebuffer(t, "clear")
  /\ UNCHANGED history

Clear(t) ==
  /\ At(t, "clear")
  /\ screen' = [c \in Cell |-> Blank] /\ pos' = <<0, 0>>
  /\ fbLock' = FALSE
  /\ Goto(t, "print")
  /\ UNCHANGED <<termLock, allocLock, cpu, rest, dump, history>>

Unlock_Forgotten(t) ==
  /\ At(t, "print") /\ rest[t] = <<>>
  /\ Goto(t, "run")
  /\ UNCHANGED <<locks, display, cpu, rest, dump, history>>

Unlock(t) ==
  /\ At(t, "print") /\ rest[t] = <<>>
  /\ termLock' = FALSE
  /\ Goto(t, "run")
  /\ UNCHANGED <<fbLock, allocLock, display, cpu, rest, dump, history>>
-----------------------------------------------------------------------------
(* framebuffer().lock().draw_bitmap, as the menu does *)

PictureLock(t) ==
  /\ Call(t) /\ dump[t] = 0
  /\ LockFramebuffer(t, "picture")
  /\ UNCHANGED <<out, scrolled>>

DrawBitmap(t) ==
  /\ At(t, "picture")
  /\ screen' = [c \in Cell |-> IF c \in Picture THEN Graphic ELSE screen[c]]
  /\ fbLock' = FALSE
  /\ Goto(t, "run")
  /\ UNCHANGED <<termLock, allocLock, pos, cpu, rest, dump, history>>
-----------------------------------------------------------------------------
(* dump_free_list: every line is a println! with the heap locked. *)

DumpLock(t) ==
  /\ Call(t) /\ ~allocLock
  /\ allocLock' = TRUE
  /\ dump' = [dump EXCEPT ![t] = DumpLines + 1]
  /\ UNCHANGED <<termLock, fbLock, display, cpu, pc, rest, out, scrolled>>

DumpLine(t, text) ==
  /\ At(t, "run") /\ dump[t] > 1
  /\ dump' = [dump EXCEPT ![t] = @ - 1]
  /\ rest' = [rest EXCEPT ![t] = text]
  /\ Goto(t, "wait")
  /\ UNCHANGED <<locks, display, cpu, history>>

DumpEnd(t) ==
  /\ At(t, "run") /\ dump[t] = 1
  /\ dump' = [dump EXCEPT ![t] = 0]
  /\ allocLock' = FALSE
  /\ UNCHANGED <<termLock, fbLock, display, cpu, pc, rest, history>>
-----------------------------------------------------------------------------
(* The timer's handler: the spinner, now and then, if the framebuffer is   *)
(* free; then a switch, which yield_cpu refuses while the heap is locked.  *)

Spin_NoTryLock(spin) ==
  screen' = IF spin THEN DrawChar(Spinner, Graphic) ELSE screen

Spin(spin) ==
  screen' = IF spin /\ ~fbLock THEN DrawChar(Spinner, Graphic) ELSE screen

TimerTrigger(spin, next) ==
  /\ Spin(spin)
  /\ cpu' = IF allocLock THEN cpu ELSE next
  /\ UNCHANGED <<locks, pos, pc, rest, dump, history>>

(* What a thread inside a call does next. *)
Step(t) ==
  \/ LockTerminal(t) \/ PutCharLock(t) \/ PutChar(t)
  \/ ClearLock(t) \/ Clear(t) \/ Unlock(t)
  \/ DrawBitmap(t)
  \/ \E text \in Texts : DumpLine(t, text)
  \/ DumpEnd(t)

Next ==
  \/ \E t \in Threads :
       \/ Step(t)
       \/ ClearCall(t) \/ PictureLock(t) \/ DumpLock(t)
       \/ \E text \in Texts : PrintCall(t, text)
       \/ \E col \in 0 .. Cols, row \in 0 .. Rows : SetPos(t, col, row)
  \/ \E spin \in BOOLEAN, next \in Threads : TimerTrigger(spin, next)

Spec == Init /\ [][Next]_vars

(* Round robin runs every thread again and again, and a thread it runs     *)
(* takes its step; the ticks keep no beat with a lock that others take and *)
(* release, so a thread waiting for one finds it free at last.             *)
Fairness ==
  \A t \in Threads :
    /\ SF_vars(Step(t))
    /\ WF_vars(cpu # t /\ \E spin \in BOOLEAN : TimerTrigger(spin, t))

FairSpec == Spec /\ Fairness
-----------------------------------------------------------------------------
Follows(a, b) ==
  IF a.char = "\n" \/ a.col = Cols - 1
  THEN b.col = 0 /\ b.line = a.line + 1
  ELSE b.col = a.col + 1 /\ b.line = a.line

(* print! keeps the terminal locked for the whole text: its characters are *)
(* all of one thread, each in the cell after the one before, on to the     *)
(* next line at the right edge and after a newline; and what has not been  *)
(* scrolled off the screen can still be read where put_char_colored and    *)
(* scroll_up left it, unless the spinner or a picture went over it.        *)
(* (The variables have their types.)                                       *)
PrintIntact ==
  /\ TypeOK
  /\ \A i \in DOMAIN out :
       /\ i > 1 => out[i].by = out[i - 1].by /\ Follows(out[i - 1], out[i])
       /\ out[i].char # "\n" /\ out[i].line >= scrolled =>
            screen[<<out[i].col, out[i].line - scrolled>>] \in {out[i].by, Graphic}

(* Between a thread's taking the framebuffer and its drawing, nobody else  *)
(* draws: neither another thread, with or without the terminal's lock, nor *)
(* the spinner of the timer's handler, which interrupts it.                *)
DrawsAlone ==
  [][(\E t \in Threads : pc[t] \in Drawing /\ pc'[t] = pc[t])
        => screen' = screen]_vars

(* A thread that prints the free list with the heap locked, while another, *)
(* which cannot run before the heap is free, holds the lock it needs.      *)
DumpWaits ==
  \E t \in Threads :
    /\ dump[t] > 0
    /\ \/ pc[t] = "wait" /\ termLock
       \/ pc[t] \in {"locked", "print"} /\ rest[t] # <<>> /\ fbLock

(* Every print!, println! and clear that is begun returns, whoever else    *)
(* prints or draws, unless a dump_free_list waits as above: it waits for   *)
(* ever, and with it every thread.                                         *)
PrintReturns ==
  \A t \in Threads : pc[t] = "wait" ~> (pc[t] = "run" \/ DumpWaits)

=============================================================================
