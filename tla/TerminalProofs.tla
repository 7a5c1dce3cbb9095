--------------------------- MODULE TerminalProofs ---------------------------
(***************************************************************************)
(* Text and pictures on the screen stay intact for any number of threads,  *)
(* any texts and any size of the screen.                                   *)
(***************************************************************************)
EXTENDS Terminal, TLAPS

(* Places between taking and releasing the terminal's lock *)
Printing == {"locked", "print", "draw", "clear"}

LockInv ==
  /\ \A t \in Threads : (pc[t] \in Printing => termLock) /\ (pc[t] \in Drawing => fbLock)
  /\ \A t, u \in Threads :
       \/ pc[t] \in Printing /\ pc[u] \in Printing
       \/ pc[t] \in Drawing /\ pc[u] \in Drawing
       => t = u

(* Who prints has printed all of out; the cursor is where it goes on. *)
PrintInv ==
  /\ \A t \in Threads :
       /\ pc[t] \in {"locked", "clear"} => out = <<>>
       /\ pc[t] \in {"print", "draw"} => \A i \in DOMAIN out : out[i].by = t
       /\ pc[t] = "draw" => rest[t] # <<>>
  /\ out # <<>> => Follows(out[Len(out)], [col |-> pos[1], line |-> pos[2] + scrolled])

Printed == [by : Threads, char : {"x", "\n"}, col : 0 .. Cols - 1, line : Nat]

(* The characters in out are in a row, and are on the screen. *)
OutInv ==
  /\ scrolled \in Nat /\ out \in Seq(Printed)
  /\ \A i \in DOMAIN out :
       /\ out[i].line < scrolled + Rows
       /\ i > 1 => out[i].by = out[i - 1].by /\ Follows(out[i - 1], out[i])
       /\ out[i].char # "\n" /\ out[i].line >= scrolled =>
            screen[<<out[i].col, out[i].line - scrolled>>] \in {out[i].by, Graphic}

IInv == TypeOK /\ LockInv /\ PrintInv /\ OutInv

-----------------------------------------------------------------------------
Places == {"run", "wait", "locked", "print"} \cup Drawing

LEMMA GotoOK ==
  ASSUME TypeOK, NEW t \in Threads, NEW l \in Places, Goto(t, l)
  PROVE  /\ pc' \in [Threads -> Places] /\ pc'[t] = l
         /\ \A u \in Threads : u # t => pc'[u] = pc[u]
BY DEF TypeOK, Goto, Places

(* What a step of t to l may do with the two locks *)
LockStep(t, l) ==
  /\ l \in Printing => termLock' /\ (pc[t] \in Printing \/ ~termLock)
  /\ l \in Drawing => fbLock' /\ (pc[t] \in Drawing \/ ~fbLock)
  /\ l \notin Printing /\ pc[t] \notin Printing /\ termLock => termLock'
  /\ l \notin Drawing /\ pc[t] \notin Drawing /\ fbLock => fbLock'

LEMMA LockStepOK ==
  ASSUME TypeOK, LockInv, NEW t \in Threads, NEW l \in Places, Goto(t, l), LockStep(t, l)
  PROVE  LockInv'
<1>1. pc'[t] = l /\ \A u \in Threads : u # t => pc'[u] = pc[u]
  BY GotoOK
<1>2. ASSUME NEW u \in Threads, u # t
      PROVE  /\ pc'[u] \in Printing => termLock' /\ l \notin Printing
             /\ pc'[u] \in Drawing => fbLock' /\ l \notin Drawing
  BY <1>1, <1>2 DEF LockInv, LockStep
<1>3. ASSUME NEW u \in Threads
      PROVE  (pc'[u] \in Printing => termLock') /\ (pc'[u] \in Drawing => fbLock')
  <2>1. CASE u = t
    BY <1>1, <2>1 DEF LockStep
  <2>2. CASE u # t
    BY <1>2, <2>2
  <2> QED BY <2>1, <2>2
<1>4. ASSUME NEW u \in Threads, NEW v \in Threads,
             \/ pc'[u] \in Printing /\ pc'[v] \in Printing
             \/ pc'[u] \in Drawing /\ pc'[v] \in Drawing
      PROVE  u = v
  BY <1>1, <1>2, <1>4 DEF LockInv
<1> QED BY <1>3, <1>4, Zenon DEF LockInv

LEMMA ElementOK ==
  ASSUME NEW S, NEW s \in Seq(S), NEW i \in DOMAIN s
  PROVE  s[i] \in S
OBVIOUS

(* A printed character is on a line of the screen or above it. *)
LEMMA OnScreen ==
  ASSUME OutInv, NEW i \in DOMAIN out
  PROVE  /\ out[i].col \in 0 .. Cols - 1 /\ out[i].line \in Nat /\ scrolled \in Nat
         /\ out[i].line < scrolled + Rows
         /\ out[i].line >= scrolled =>
              /\ out[i].line - scrolled \in 0 .. Rows - 1
              /\ <<out[i].col, out[i].line - scrolled>> \in Cell
<1>1. out[i].line < scrolled + Rows /\ scrolled \in Nat /\ out \in Seq(Printed)
  BY Zenon DEF OutInv
<1>2. out[i] \in Printed
  BY <1>1, ElementOK
<1>3. out[i].col \in 0 .. Cols - 1 /\ out[i].line \in Nat
  BY <1>2 DEF Printed
<1>4. out[i].line >= scrolled => out[i].line - scrolled \in 0 .. Rows - 1
  BY <1>1, <1>3, TerminalAssumption
<1> QED BY <1>1, <1>3, <1>4 DEF Cell

(* Steps that do not print: the text, if any, stays where it is. *)
LEMMA OutSame ==
  ASSUME TypeOK, OutInv, UNCHANGED <<out, scrolled>>,
         \A c \in Cell : screen'[c] \in {screen[c], Graphic}
  PROVE  OutInv'
<1>1. ASSUME NEW i \in DOMAIN out, out[i].char # "\n", out[i].line >= scrolled
      PROVE  screen'[<<out[i].col, out[i].line - scrolled>>] \in {out[i].by, Graphic}
  <2> DEFINE c == <<out[i].col, out[i].line - scrolled>>
  <2>1. c \in Cell
    BY <1>1, OnScreen
  <2>2. screen[c] \in {out[i].by, Graphic}
    BY <1>1 DEF OutInv
  <2> HIDE DEF c
  <2>3. screen'[c] \in {out[i].by, Graphic}
    BY <2>1, <2>2
  <2> QED BY <2>3 DEF c
<1> QED BY ZenonT(30), <1>1 DEF OutInv

LEMMA PrintSame ==
  ASSUME TypeOK, PrintInv, NEW t \in Threads, NEW l \in Places, Goto(t, l),
         UNCHANGED <<out, pos, scrolled>>, \A u \in Threads : u # t => rest'[u] = rest[u],
         l \in {"locked", "clear"} => out = <<>>,
         l \in {"print", "draw"} => pc[t] \in {"print", "draw"} \/ out = <<>>,
         l = "draw" => rest'[t] # <<>>
  PROVE  PrintInv'
<1>1. pc'[t] = l /\ \A u \in Threads : u # t => pc'[u] = pc[u]
  BY GotoOK
<1>2. ASSUME NEW u \in Threads
      PROVE  /\ pc'[u] \in {"locked", "clear"} => out' = <<>>
             /\ pc'[u] \in {"print", "draw"} => \A i \in DOMAIN out' : out'[i].by = u
             /\ pc'[u] = "draw" => rest'[u] # <<>>
  <2>1. CASE u = t
    BY <1>1, <2>1 DEF PrintInv
  <2>2. CASE u # t
    BY <1>1, <2>2 DEF PrintInv
  <2> QED BY <2>1, <2>2
<1> QED BY <1>2 DEF PrintInv

(* A step that leaves what is printed *)
LEMMA QuietStep ==
  ASSUME IInv, TypeOK', NEW t \in Threads, NEW l \in Places, Goto(t, l), LockStep(t, l),
         UNCHANGED <<out, pos, scrolled>>, \A u \in Threads : u # t => rest'[u] = rest[u],
         \A c \in Cell : screen'[c] \in {screen[c], Graphic},
         l \in {"locked", "clear"} => out = <<>>,
         l \in {"print", "draw"} => pc[t] \in {"print", "draw"} \/ out = <<>>,
         l = "draw" => rest'[t] # <<>>
  PROVE  IInv'
<1>1. TypeOK /\ LockInv /\ PrintInv /\ OutInv
  BY DEF IInv
<1>2. LockInv'
  BY <1>1, LockStepOK, Zenon
<1>3. OutInv'
  BY <1>1, OutSame, Zenon
<1>4. PrintInv'
  BY <1>1, PrintSame, Zenon
<1> QED BY <1>2, <1>3, <1>4 DEF IInv

-----------------------------------------------------------------------------
(* put_char_colored: the character drawn, the cursor moved, the lines scrolled *)

Entry(t) == [by |-> t, char |-> Head(rest[t]), col |-> pos[1], line |-> pos[2] + scrolled]
Drawn(t) == IF Head(rest[t]) = "\n" THEN screen ELSE DrawChar(pos, t)

(* The character ends its line; the line is the last one. *)
Wraps(t) == Head(rest[t]) = "\n" \/ pos[1] = Cols - 1
Scrolls(t) == Wraps(t) /\ pos[2] = Rows - 1

LEMMA PosOK ==
  ASSUME TypeOK
  PROVE  /\ pos = <<pos[1], pos[2]>> /\ pos[1] \in 0 .. Cols - 1 /\ pos[2] \in 0 .. Rows - 1
         /\ Cols \in Nat /\ Rows \in Nat /\ Cols > 0 /\ Rows > 0
BY TerminalAssumption DEF TypeOK, Cell

LEMMA AdvanceOK ==
  ASSUME TypeOK, NEW t \in Threads
  PROVE  /\ Wraps(t) => Advance(pos, Head(rest[t])) = <<0, pos[2] + 1>>
         /\ ~Wraps(t) => Advance(pos, Head(rest[t])) = <<pos[1] + 1, pos[2]>>
<1>1. pos[1] \in 0 .. Cols - 1 /\ Cols \in Nat
  BY PosOK
<1> QED BY <1>1 DEF Advance, Wraps

LEMMA PutCharOK ==
  ASSUME TypeOK, NEW t \in Threads, PutChar(t)
  PROVE  /\ out' = Append(out, Entry(t))
         /\ Scrolls(t) => /\ pos' = <<0, Rows - 1>> /\ scrolled' = scrolled + 1
                          /\ screen' = ScrollUp(Drawn(t))
         /\ ~Scrolls(t) => /\ scrolled' = scrolled /\ screen' = Drawn(t)
                           /\ pos' = IF Wraps(t) THEN <<0, pos[2] + 1>>
                                                 ELSE <<pos[1] + 1, pos[2]>>
<1> DEFINE n == Advance(pos, Head(rest[t]))
<1>1. pos \in Cell
  BY DEF TypeOK
<1>2. /\ out' = Append(out, Entry(t))
      /\ n[2] >= Rows => /\ pos' = <<n[1], Rows - 1>> /\ scrolled' = scrolled + 1
                         /\ screen' = ScrollUp(Drawn(t))
      /\ ~(n[2] >= Rows) => pos' = n /\ scrolled' = scrolled /\ screen' = Drawn(t)
  BY <1>1 DEF PutChar, Entry, Drawn
<1>3. /\ Wraps(t) => n = <<0, pos[2] + 1>>
      /\ ~Wraps(t) => n = <<pos[1] + 1, pos[2]>>
  BY AdvanceOK, Zenon
<1> HIDE DEF n
<1>4. n[2] >= Rows <=> Scrolls(t)
  BY <1>3, PosOK DEF Scrolls
<1>5. Scrolls(t) => n[1] = 0
  BY <1>3 DEF Scrolls
<1> QED BY <1>2, <1>3, <1>4, <1>5

LEMMA DrawnOK ==
  ASSUME TypeOK, NEW t \in Threads
  PROVE  /\ Drawn(t) \in [Cell -> Threads \cup {Blank, Graphic}]
         /\ \A c \in Cell : Drawn(t)[c] \in {screen[c], t}
         /\ Head(rest[t]) # "\n" => Drawn(t)[pos] = t
BY DEF TypeOK, Drawn, DrawChar

LEMMA ScrollOK ==
  ASSUME NEW s \in [Cell -> Threads \cup {Blank, Graphic}]
  PROVE  /\ ScrollUp(s) \in [Cell -> Threads \cup {Blank, Graphic}]
         /\ \A col \in 0 .. Cols - 1, row \in 1 .. Rows - 1 :
              ScrollUp(s)[<<col, row - 1>>] = s[<<col, row>>]
<1>0. Cols \in Nat /\ Rows \in Nat /\ Rows > 0
  BY TerminalAssumption
<1>1. ASSUME NEW c \in Cell, c[2] # Rows - 1
      PROVE  <<c[1], c[2] + 1>> \in Cell
  BY <1>0, <1>1 DEF Cell
<1>2. ScrollUp(s) \in [Cell -> Threads \cup {Blank, Graphic}]
  BY <1>1 DEF ScrollUp
<1>3. ASSUME NEW col \in 0 .. Cols - 1, NEW row \in 1 .. Rows - 1
      PROVE  ScrollUp(s)[<<col, row - 1>>] = s[<<col, row>>]
  <2>1. <<col, row - 1>> \in Cell /\ row - 1 # Rows - 1 /\ (row - 1) + 1 = row
    BY <1>0 DEF Cell
  <2> QED BY <2>1 DEF ScrollUp
<1> QED BY <1>2, <1>3

LEMMA PutCharTypes ==
  ASSUME TypeOK, NEW t \in Threads, PutChar(t), rest[t] # <<>>
  PROVE  /\ pos' \in Cell /\ screen' \in [Cell -> Threads \cup {Blank, Graphic}]
         /\ rest' \in [Threads -> Seq({"x", "\n"})] /\ Head(rest[t]) \in {"x", "\n"}
<1>1. screen' \in [Cell -> Threads \cup {Blank, Graphic}]
  <2>1. Drawn(t) \in [Cell -> Threads \cup {Blank, Graphic}]
    BY DrawnOK
  <2>2. screen' \in {Drawn(t), ScrollUp(Drawn(t))}
    BY PutCharOK
  <2> QED BY <2>1, <2>2, ScrollOK
<1>2. pos' \in Cell
  <2>1. CASE Scrolls(t)
    BY <2>1, PutCharOK, PosOK DEF Cell
  <2>2. CASE ~Scrolls(t) /\ Wraps(t)
    <3>1. pos' = <<0, pos[2] + 1>> /\ pos[2] # Rows - 1
      BY <2>2, PutCharOK, Zenon DEF Scrolls
    <3> QED BY <3>1, PosOK DEF Cell
  <2>3. CASE ~Wraps(t)
    <3>1. pos' = <<pos[1] + 1, pos[2]>> /\ pos[1] # Cols - 1
      BY <2>3, PutCharOK, Zenon DEF Scrolls, Wraps
    <3> QED BY <3>1, PosOK DEF Cell
  <2> QED BY <2>1, <2>2, <2>3
<1>3. rest[t] \in Seq({"x", "\n"})
  BY DEF TypeOK
<1>4. Head(rest[t]) \in {"x", "\n"} /\ Tail(rest[t]) \in Seq({"x", "\n"})
  BY <1>3
<1>5. rest' \in [Threads -> Seq({"x", "\n"})]
  BY <1>4 DEF PutChar, TypeOK
<1> QED BY <1>1, <1>2, <1>4, <1>5

LEMMA AppendOK ==
  ASSUME NEW S, NEW s \in Seq(S), NEW e \in S
  PROVE  /\ Append(s, e) \in Seq(S) /\ Append(s, e) # <<>>
         /\ Len(Append(s, e)) = Len(s) + 1 /\ Append(s, e)[Len(s) + 1] = e
         /\ \A i \in DOMAIN Append(s, e) : \/ i \in DOMAIN s /\ Append(s, e)[i] = s[i]
                                           \/ i = Len(s) + 1
         /\ Len(s) \in Nat /\ DOMAIN s = 1 .. Len(s)
OBVIOUS

(* The characters already printed, and the new one, are on the screen before it is scrolled. *)
LEMMA DrawnShows ==
  ASSUME TypeOK, OutInv, NEW t \in Threads, \A i \in DOMAIN out : out[i].by = t,
         NEW i \in DOMAIN out, out[i].char # "\n", out[i].line >= scrolled
  PROVE  Drawn(t)[<<out[i].col, out[i].line - scrolled>>] \in {out[i].by, Graphic}
<1> DEFINE c == <<out[i].col, out[i].line - scrolled>>
<1>1. c \in Cell
  BY OnScreen
<1>2. screen[c] \in {out[i].by, Graphic}
  BY Zenon DEF OutInv
<1> HIDE DEF c
<1>3. Drawn(t)[c] \in {screen[c], t}
  BY <1>1, DrawnOK
<1>4. Drawn(t)[c] \in {out[i].by, Graphic}
  BY <1>2, <1>3
<1> QED BY <1>4 DEF c

(* Where a character stands after the step *)
LEMMA ShownAfter ==
  ASSUME TypeOK, NEW t \in Threads, PutChar(t), scrolled \in Nat, NEW e,
         e.col \in 0 .. Cols - 1, e.line \in Nat, e.line < scrolled + Rows,
         e.line >= scrolled', e.line >= scrolled =>
           Drawn(t)[<<e.col, e.line - scrolled>>] \in {e.by, Graphic}
  PROVE  screen'[<<e.col, e.line - scrolled'>>] \in {e.by, Graphic}
<1>0. Rows \in Nat /\ Drawn(t) \in [Cell -> Threads \cup {Blank, Graphic}]
  BY DrawnOK, TerminalAssumption
<1>1. CASE Scrolls(t)
  <2>1. scrolled' = scrolled + 1 /\ screen' = ScrollUp(Drawn(t))
    BY <1>1, PutCharOK
  <2> DEFINE row == e.line - scrolled
  <2>2. row \in 1 .. Rows - 1 /\ e.line - (scrolled + 1) = row - 1 /\ e.line >= scrolled
    BY <1>0, <2>1
  <2>3. Drawn(t)[<<e.col, row>>] \in {e.by, Graphic}
    BY <2>2
  <2> HIDE DEF row
  <2>4. ScrollUp(Drawn(t))[<<e.col, row - 1>>] = Drawn(t)[<<e.col, row>>]
    BY <1>0, <2>2, ScrollOK
  <2> QED BY <2>1, <2>2, <2>3, <2>4
<1>2. CASE ~Scrolls(t)
  BY ZenonT(30), SMTT(30), <1>2, PutCharOK
<1> QED BY <1>1, <1>2

LEMMA EntryOK ==
  ASSUME TypeOK, NEW t \in Threads, rest[t] # <<>>, scrolled \in Nat
  PROVE  /\ Entry(t) \in Printed /\ Entry(t).by = t /\ Entry(t).char = Head(rest[t])
         /\ Entry(t).col = pos[1] /\ Entry(t).line = pos[2] + scrolled
         /\ Entry(t).line >= scrolled /\ Entry(t).line < scrolled + Rows
         /\ Entry(t).line - scrolled = pos[2]
         /\ Entry(t).char # "\n" => Drawn(t)[<<Entry(t).col, Entry(t).line - scrolled>>] = t
<1>1. rest[t] \in Seq({"x", "\n"})
  BY DEF TypeOK
<1>2. Head(rest[t]) \in {"x", "\n"}
  BY <1>1
<1>3. /\ Entry(t).by = t /\ Entry(t).char = Head(rest[t])
      /\ Entry(t).col = pos[1] /\ Entry(t).line = pos[2] + scrolled
  BY DEF Entry
<1>4. /\ Entry(t).line >= scrolled /\ Entry(t).line < scrolled + Rows
      /\ Entry(t).line - scrolled = pos[2] /\ pos[2] + scrolled \in Nat
  BY <1>3, PosOK
<1>5. Entry(t) \in Printed
  BY <1>2, <1>4, PosOK DEF Entry, Printed
<1>6. Head(rest[t]) # "\n" => Drawn(t)[<<pos[1], pos[2]>>] = t
  BY DrawnOK, PosOK
<1> QED BY <1>3, <1>4, <1>5, <1>6

(* The cursor follows the new character, on the scrolled screen as well. *)
LEMMA CursorFollows ==
  ASSUME TypeOK, NEW t \in Threads, PutChar(t), rest[t] # <<>>, scrolled \in Nat
  PROVE  Follows(Entry(t), [col |-> pos'[1], line |-> pos'[2] + scrolled'])
<1>1. /\ Entry(t).char = Head(rest[t])
      /\ Entry(t).col = pos[1] /\ Entry(t).line = pos[2] + scrolled
  BY EntryOK, Zenon
<1>2. CASE Wraps(t)
  <2>1. pos'[1] = 0
    BY <1>2, PutCharOK
  <2>2. pos'[2] + scrolled' = (pos[2] + scrolled) + 1
    <3>1. CASE Scrolls(t)
      BY <3>1, PutCharOK, PosOK DEF Scrolls
    <3>2. CASE ~Scrolls(t)
      <4>1. pos'[2] = pos[2] + 1 /\ scrolled' = scrolled
        BY <1>2, <3>2, PutCharOK
      <4> QED BY <4>1, PosOK
    <3> QED BY <3>1, <3>2
  <2> QED BY <1>1, <1>2, <2>1, <2>2 DEF Follows, Wraps
<1>3. CASE ~Wraps(t)
  <2>1. pos'[1] = pos[1] + 1 /\ pos'[2] = pos[2] /\ scrolled' = scrolled
    BY <1>3, PutCharOK DEF Scrolls
  <2> QED BY <1>1, <1>3, <2>1 DEF Follows, Wraps
<1> QED BY <1>2, <1>3

LEMMA PutCharOut ==
  ASSUME TypeOK, OutInv, PrintInv, NEW t \in Threads, PutChar(t), rest[t] # <<>>,
         \A i \in DOMAIN out : out[i].by = t
  PROVE  OutInv' /\ out' # <<>> /\ (\A i \in DOMAIN out' : out'[i].by = t)
         /\ out'[Len(out')] = Entry(t)
<1> DEFINE e == Entry(t)
           n == Len(out)
<1>1. scrolled \in Nat /\ out \in Seq(Printed)
  BY DEF OutInv
<1>2. e \in Printed /\ e.by = t /\ e.line < scrolled + Rows
  BY <1>1, EntryOK, Zenon
<1>3. out' = Append(out, e)
  BY PutCharOK
<1>4. scrolled' \in Nat /\ scrolled' >= scrolled
  <2>1. scrolled' \in {scrolled, scrolled + 1}
    BY PutCharOK
  <2> QED BY <1>1, <2>1
<1> HIDE DEF e
<1>5. /\ out' \in Seq(Printed) /\ out' # <<>> /\ Len(out') = n + 1 /\ out'[n + 1] = e
      /\ \A i \in DOMAIN out' : (i \in DOMAIN out /\ out'[i] = out[i]) \/ i = n + 1
      /\ n \in Nat /\ DOMAIN out = 1 .. n
  BY <1>1, <1>2, <1>3, AppendOK
<1>6. ASSUME NEW i \in DOMAIN out'
      PROVE  out'[i].by = t
  BY <1>2, <1>5
<1>7. ASSUME NEW i \in DOMAIN out'
      PROVE  out'[i].line < scrolled' + Rows
  <2>1. out'[i].line \in Nat /\ out'[i].line < scrolled + Rows
    <3>1. CASE i = n + 1
      BY <1>2, <1>5, <3>1 DEF Printed
    <3>2. CASE i \in DOMAIN out /\ out'[i] = out[i]
      BY <3>2, OnScreen, Zenon
    <3> QED BY <1>5, <3>1, <3>2
  <2> QED BY <1>1, <1>4, <2>1, TerminalAssumption
<1>8. ASSUME NEW i \in DOMAIN out', i > 1
      PROVE  out'[i].by = out'[i - 1].by /\ Follows(out'[i - 1], out'[i])
  <2>0. DOMAIN out' = 1 .. n + 1
    BY <1>5
  <2>1. i - 1 \in DOMAIN out' /\ i - 1 \in DOMAIN out /\ i - 1 # n + 1
    BY <1>5, <1>8, <2>0
  <2>2. out'[i - 1] = out[i - 1]
    BY <1>5, <2>1
  <2>3. Follows(out[i - 1], out'[i])
    <3>1. CASE i = n + 1
      <4>1. i - 1 = n
        BY <1>5, <3>1
      <4>2. Follows(out[n], [col |-> pos[1], line |-> pos[2] + scrolled])
        <5>1. out # <<>>
          BY <2>1
        <5> QED BY <5>1, Zenon DEF PrintInv
      <4>3. Follows(out[n], e)
        BY <4>2 DEF Follows, e, Entry
      <4> QED BY <1>5, <3>1, <4>1, <4>3
    <3>2. CASE i \in DOMAIN out /\ out'[i] = out[i]
      BY <1>8, <3>2, Zenon DEF OutInv
    <3> QED BY <1>5, <3>1, <3>2
  <2> QED BY <1>6, <2>1, <2>2, <2>3
<1>9. ASSUME NEW i \in DOMAIN out', out'[i].char # "\n", out'[i].line >= scrolled'
      PROVE  screen'[<<out'[i].col, out'[i].line - scrolled'>>] \in {out'[i].by, Graphic}
  <2>1. CASE i = n + 1
    <3>1. out'[i] = e
      BY <1>5, <2>1
    <3>2. e.col \in 0 .. Cols - 1 /\ e.line \in Nat
      BY <1>2 DEF Printed
    <3>3. Drawn(t)[<<e.col, e.line - scrolled>>] \in {e.by, Graphic}
      BY ZenonT(30), <1>1, <1>2, <1>9, <3>1, EntryOK DEF e
    <3> QED BY <1>1, <1>2, <1>9, <3>1, <3>2, <3>3, ShownAfter
  <2>2. CASE i \in DOMAIN out /\ out'[i] = out[i]
    <3> DEFINE d == out[i]
    <3>1. d.col \in 0 .. Cols - 1 /\ d.line \in Nat /\ d.line < scrolled + Rows
      BY <2>2, OnScreen, Zenon
    <3>2. d.line >= scrolled => Drawn(t)[<<d.col, d.line - scrolled>>] \in {d.by, Graphic}
      BY <1>9, <2>2, DrawnShows
    <3>3. d.line >= scrolled' /\ out'[i] = d
      BY <1>9, <2>2
    <3> HIDE DEF d
    <3> QED BY <1>1, <3>1, <3>2, <3>3, ShownAfter
  <2> QED BY <1>5, <2>1, <2>2
<1>10. OutInv'
  BY ZenonT(30), <1>4, <1>5, <1>7, <1>8, <1>9 DEF OutInv
<1> QED BY <1>5, <1>6, <1>10 DEF e

LEMMA PutCharStep ==
  ASSUME IInv, NEW t \in Threads, PutChar(t), TypeOK'
  PROVE  IInv'
<1>1. TypeOK /\ LockInv /\ PrintInv /\ OutInv
  BY DEF IInv
<1>2. pc[t] = "draw" /\ Goto(t, "print") /\ ~fbLock' /\ termLock' = termLock
  BY DEF PutChar, At
<1>3. rest[t] # <<>> /\ \A i \in DOMAIN out : out[i].by = t
  BY <1>1, <1>2 DEF PrintInv
<1>4. LockInv'
  <2>1. "print" \in Places /\ LockStep(t, "print")
    BY <1>1, <1>2 DEF Places, LockStep, Printing, Drawing, LockInv
  <2> QED BY <1>1, <1>2, <2>1, LockStepOK
<1>5. OutInv' /\ out' # <<>> /\ (\A i \in DOMAIN out' : out'[i].by = t)
      /\ out'[Len(out')] = Entry(t)
  BY <1>1, <1>3, PutCharOut
<1>6. PrintInv'
  <2>1. pc'[t] = "print" /\ \A u \in Threads : u # t => pc'[u] = pc[u]
    BY <1>1, <1>2, GotoOK DEF Places
  <2>2. \A u \in Threads : u # t => pc[u] \notin Printing
    BY <1>1, <1>2 DEF LockInv, Printing
  <2>3. ASSUME NEW u \in Threads
        PROVE  /\ pc'[u] \in {"locked", "clear"} => out' = <<>>
               /\ pc'[u] \in {"print", "draw"} => \A i \in DOMAIN out' : out'[i].by = u
               /\ pc'[u] = "draw" => rest'[u] # <<>>
    <3>1. CASE u = t
      BY <1>5, <2>1, <3>1
    <3>2. CASE u # t
      BY <2>1, <2>2, <3>2 DEF Printing
    <3> QED BY <3>1, <3>2
  <2>4. scrolled \in Nat
    BY <1>1 DEF OutInv
  <2>5. Follows(Entry(t), [col |-> pos'[1], line |-> pos'[2] + scrolled'])
    BY <1>1, <1>3, <2>4, CursorFollows
  <2> QED BY <1>5, <2>3, <2>5 DEF PrintInv
<1> QED BY <1>4, <1>5, <1>6 DEF IInv

-----------------------------------------------------------------------------
(* Types *)

LEMMA TextOK ==
  ASSUME NEW text \in Texts
  PROVE  text \in Seq({"x", "\n"}) /\ text # <<>>
BY TerminalAssumption

LEMMA TypesKept ==
  ASSUME TypeOK, UNCHANGED dump \/ dump' \in [Threads -> 0 .. DumpLines + 1],
         UNCHANGED pos \/ pos' \in Cell,
         UNCHANGED screen \/ screen' \in [Cell -> Threads \cup {Blank, Graphic}],
         UNCHANGED rest \/ rest' \in [Threads -> Seq({"x", "\n"})],
         UNCHANGED pc \/ pc' \in [Threads -> Places], cpu' \in Threads,
         termLock' \in BOOLEAN, fbLock' \in BOOLEAN, allocLock' \in BOOLEAN
  PROVE  TypeOK'
BY Zenon DEF TypeOK, Places

LEMMA BooleanLocks ==
  ASSUME TypeOK
  PROVE  termLock \in BOOLEAN /\ fbLock \in BOOLEAN /\ allocLock \in BOOLEAN /\ cpu \in Threads
BY DEF TypeOK

LEMMA SetPosTypes ==
  ASSUME NEW col \in 0 .. Cols, NEW row \in 0 .. Rows
  PROVE  <<AtMost(col, Cols - 1), AtMost(row, Rows - 1)>> \in Cell
<1>1. Cols \in Nat /\ Cols > 0 /\ Rows \in Nat /\ Rows > 0
  BY TerminalAssumption
<1>2. AtMost(col, Cols - 1) \in 0 .. Cols - 1 /\ AtMost(row, Rows - 1) \in 0 .. Rows - 1
  BY <1>1 DEF AtMost
<1> QED BY <1>2 DEF Cell

LEMMA StepTypes ==
  ASSUME TypeOK, PrintInv, NEW t \in Threads, Step(t)
  PROVE  TypeOK'
<1> USE BooleanLocks
<1>1. \A l \in Places : Goto(t, l) => pc' \in [Threads -> Places]
  BY GotoOK
<1>2. /\ "locked" \in Places /\ "draw" \in Places /\ "print" \in Places
      /\ "clear" \in Places /\ "run" \in Places /\ "wait" \in Places /\ "picture" \in Places
  BY DEF Places, Drawing
<1>3. ASSUME LockTerminal(t) PROVE TypeOK'
  BY <1>1, <1>2, <1>3, TypesKept DEF LockTerminal, display
<1>4. ASSUME PutCharLock(t) PROVE TypeOK'
  BY <1>1, <1>2, <1>4, TypesKept DEF PutCharLock, LockFramebuffer, display
<1>5. ASSUME PutChar(t) PROVE TypeOK'
  <2>1. rest[t] # <<>>
    BY <1>5 DEF PutChar, At, PrintInv
  <2>2. /\ pos' \in Cell /\ screen' \in [Cell -> Threads \cup {Blank, Graphic}]
        /\ rest' \in [Threads -> Seq({"x", "\n"})]
    BY <1>5, <2>1, PutCharTypes
  <2>3. Goto(t, "print") /\ fbLock' = FALSE /\ UNCHANGED <<termLock, allocLock, cpu, dump>>
    BY <1>5 DEF PutChar
  <2>4. pc' \in [Threads -> Places]
    BY ZenonT(30), <1>1, <1>2, <2>3
  <2> QED BY <2>2, <2>3, <2>4, TypesKept, Zenon
<1>6. ASSUME ClearLock(t) PROVE TypeOK'
  BY <1>1, <1>2, <1>6, TypesKept DEF ClearLock, LockFramebuffer, display
<1>7. ASSUME Clear(t) PROVE TypeOK'
  <2>1. pos' \in Cell /\ screen' \in [Cell -> Threads \cup {Blank, Graphic}]
    BY <1>7, TerminalAssumption DEF Clear, Cell
  <2> QED BY <1>1, <1>2, <1>7, <2>1, TypesKept, Zenon DEF Clear
<1>8. ASSUME Unlock(t) PROVE TypeOK'
  BY <1>1, <1>2, <1>8, TypesKept, Zenon DEF Unlock, display
<1>9. ASSUME DrawBitmap(t) PROVE TypeOK'
  <2>1. screen' \in [Cell -> Threads \cup {Blank, Graphic}]
    BY ZenonT(30), <1>9 DEF DrawBitmap, TypeOK
  <2> QED BY <1>1, <1>2, <1>9, <2>1, TypesKept, Zenon DEF DrawBitmap
<1>10. ASSUME NEW text \in Texts, DumpLine(t, text) PROVE TypeOK'
  <2>1. rest' \in [Threads -> Seq({"x", "\n"})]
    BY <1>10, TextOK DEF DumpLine, TypeOK
  <2>2. DumpLines \in Nat /\ dump[t] \in 0 .. DumpLines + 1 /\ dump[t] > 1
    BY <1>10, TerminalAssumption DEF DumpLine, TypeOK
  <2>3. dump[t] - 1 \in 0 .. DumpLines + 1
    BY <2>2
  <2>4. dump' \in [Threads -> 0 .. DumpLines + 1]
    BY <1>10, <2>3 DEF DumpLine, TypeOK
  <2> QED BY ZenonT(30), <1>1, <1>2, <1>10, <2>1, <2>4, TypesKept DEF DumpLine, locks, display
<1>11. ASSUME DumpEnd(t) PROVE TypeOK'
  <2>1. 0 \in 0 .. DumpLines + 1
    BY TerminalAssumption
  <2>2. dump' \in [Threads -> 0 .. DumpLines + 1]
    BY <1>11, <2>1 DEF DumpEnd, TypeOK
  <2> QED BY <1>11, <2>2, TypesKept, Zenon DEF DumpEnd, display
<1> QED
  BY <1>3, <1>4, <1>5, <1>6, <1>7, <1>8, <1>9, <1>10, <1>11, Zenon DEF Step

LEMMA CallTypes ==
  ASSUME TypeOK, NEW t \in Threads
  PROVE  /\ ClearCall(t) \/ PictureLock(t) \/ DumpLock(t) => TypeOK'
         /\ \A text \in Texts : PrintCall(t, text) => TypeOK'
         /\ \A col \in 0 .. Cols, row \in 0 .. Rows : SetPos(t, col, row) => TypeOK'
<1> USE BooleanLocks
<1>1. \A l \in Places : Goto(t, l) => pc' \in [Threads -> Places]
  BY GotoOK
<1>2. "print" \in Places /\ "wait" \in Places /\ "picture" \in Places
  BY DEF Places, Drawing
<1>3. ClearCall(t) => TypeOK'
  BY <1>1, <1>2, TypesKept DEF ClearCall, locks, display
<1>4. PictureLock(t) => TypeOK'
  BY <1>1, <1>2, TypesKept DEF PictureLock, LockFramebuffer, display
<1>5. ASSUME DumpLock(t) PROVE TypeOK'
  <2>1. DumpLines + 1 \in 0 .. DumpLines + 1
    BY TerminalAssumption
  <2>2. dump' \in [Threads -> 0 .. DumpLines + 1]
    BY <1>5, <2>1 DEF DumpLock, TypeOK
  <2> QED BY <1>5, <2>2, TypesKept DEF DumpLock, display
<1>6. ASSUME NEW text \in Texts, PrintCall(t, text) PROVE TypeOK'
  <2>1. rest' \in [Threads -> Seq({"x", "\n"})]
    BY <1>6, TextOK DEF PrintCall, TypeOK
  <2> QED BY ZenonT(30), <1>1, <1>2, <1>6, <2>1, TypesKept DEF PrintCall, locks, display
<1>7. ASSUME NEW col \in 0 .. Cols, NEW row \in 0 .. Rows, SetPos(t, col, row) PROVE TypeOK'
  BY <1>1, <1>2, <1>7, SetPosTypes, TypesKept DEF SetPos, locks
<1> QED BY <1>3, <1>4, <1>5, <1>6, <1>7, Zenon

LEMMA SpinOK ==
  ASSUME TypeOK, NEW spin \in BOOLEAN, Spin(spin)
  PROVE  /\ screen' \in [Cell -> Threads \cup {Blank, Graphic}]
         /\ \A c \in Cell : screen'[c] \in {screen[c], Graphic}
         /\ fbLock => screen' = screen
BY Zenon DEF TypeOK, Spin, DrawChar

-----------------------------------------------------------------------------
(* The steps that print nothing *)

(* A step of a thread that alone has the terminal, with nothing printed    *)
(* after it, wherever it puts the cursor and whatever the screen shows.    *)
LEMMA FreshStep ==
  ASSUME IInv, TypeOK', NEW t \in Threads, NEW l \in Places \ {"draw"}, Goto(t, l),
         LockStep(t, l), out' = <<>>, scrolled' \in Nat,
         \A u \in Threads : u # t => pc[u] \notin Printing
  PROVE  IInv'
<1>1. TypeOK /\ LockInv
  BY DEF IInv
<1>2. LockInv'
  BY <1>1, LockStepOK
<1>3. pc'[t] = l /\ \A u \in Threads : u # t => pc'[u] = pc[u]
  BY <1>1, GotoOK
<1>4. out' \in Seq(Printed) /\ DOMAIN out' = {}
  OBVIOUS
<1>5. OutInv'
  BY <1>4 DEF OutInv
<1>6. PrintInv'
  <2>1. \A u \in Threads : pc'[u] # "draw"
    BY <1>3 DEF Printing
  <2> QED BY <1>4, <2>1 DEF PrintInv
<1> QED BY <1>2, <1>5, <1>6 DEF IInv

(* The holder of the terminal is alone. *)
LEMMA Alone ==
  ASSUME LockInv, NEW t \in Threads, ~termLock \/ pc[t] \in Printing
  PROVE  \A u \in Threads : u # t => pc[u] \notin Printing
BY DEF LockInv

LEMMA PlacesOK ==
  /\ {"run", "wait", "locked", "print", "clear", "picture", "draw"} \subseteq Places
  /\ \A l : (l \in Printing <=> l \in {"locked", "print", "draw", "clear"})
            /\ (l \in Drawing <=> l \in {"draw", "clear", "picture"})
BY DEF Places, Printing, Drawing

LEMMA FreshSteps ==
  ASSUME IInv, TypeOK', NEW t \in Threads,
         \/ LockTerminal(t) \/ Clear(t)
         \/ \E col \in 0 .. Cols, row \in 0 .. Rows : SetPos(t, col, row)
  PROVE  IInv'
<1>1. LockInv /\ PrintInv /\ OutInv /\ TypeOK
  BY DEF IInv
<1>2. CASE LockTerminal(t)
  <2>1. /\ pc[t] = "wait" /\ ~termLock /\ termLock' /\ fbLock' = fbLock
        /\ Goto(t, "locked") /\ out' = <<>> /\ scrolled' = 0
    BY <1>2 DEF LockTerminal, At
  <2>2. LockStep(t, "locked")
    BY <2>1 DEF LockStep, Printing, Drawing
  <2>3. \A u \in Threads : u # t => pc[u] \notin Printing
    BY <1>1, <2>1, Alone
  <2> QED BY ZenonT(30), <2>1, <2>2, <2>3, PlacesOK, FreshStep
<1>3. CASE Clear(t)
  <2>1. /\ pc[t] = "clear" /\ termLock' = termLock /\ fbLock' = FALSE
        /\ Goto(t, "print") /\ out' = out /\ scrolled' = scrolled
    BY ZenonT(30), <1>3 DEF Clear, At, history
  <2>2. pc[t] \in Printing /\ termLock /\ out = <<>> /\ scrolled \in Nat
    BY <1>1, <2>1, PlacesOK DEF LockInv, PrintInv, OutInv
  <2>3. LockStep(t, "print")
    BY <2>1, <2>2 DEF LockStep, Printing, Drawing
  <2>4. \A u \in Threads : u # t => pc[u] \notin Printing
    BY <1>1, <2>2, Alone
  <2> QED BY <2>1, <2>2, <2>3, <2>4, PlacesOK, FreshStep
<1>4. ASSUME NEW col \in 0 .. Cols, NEW row \in 0 .. Rows, SetPos(t, col, row)
      PROVE  IInv'
  <2>1. /\ pc[t] = "locked" /\ termLock' = termLock /\ fbLock' = fbLock
        /\ Goto(t, "print") /\ out' = out /\ scrolled' = scrolled
    BY ZenonT(30), <1>4 DEF SetPos, At, history, locks
  <2>2. pc[t] \in Printing /\ termLock /\ out = <<>> /\ scrolled \in Nat
    BY <1>1, <2>1, PlacesOK DEF LockInv, PrintInv, OutInv
  <2>3. LockStep(t, "print")
    BY <2>1, <2>2 DEF LockStep, Printing, Drawing
  <2>4. \A u \in Threads : u # t => pc[u] \notin Printing
    BY <1>1, <2>2, Alone
  <2> QED BY ZenonT(30), <2>1, <2>2, <2>3, <2>4, PlacesOK, FreshStep
<1> QED BY <1>2, <1>3, <1>4, Zenon

(* QuietStep, for steps that leave the screen as it is *)
LEMMA StillStep ==
  ASSUME IInv, TypeOK', NEW t \in Threads, NEW l \in Places, Goto(t, l), LockStep(t, l),
         UNCHANGED <<out, scrolled>>, UNCHANGED display,
         \A u \in Threads : u # t => rest'[u] = rest[u],
         l \in {"locked", "clear"} => out = <<>>,
         l \in {"print", "draw"} => pc[t] \in {"print", "draw"} \/ out = <<>>,
         l = "draw" => rest'[t] # <<>>
  PROVE  IInv'
<1>1. UNCHANGED <<out, pos, scrolled>> /\ \A c \in Cell : screen'[c] \in {screen[c], Graphic}
  BY DEF display
<1> QED BY <1>1, QuietStep, Zenon

LEMMA RestKept ==
  ASSUME TypeOK, NEW t \in Threads, NEW text, rest' = [rest EXCEPT ![t] = text]
  PROVE  \A u \in Threads : u # t => rest'[u] = rest[u]
BY DEF TypeOK

LEMMA PrintingSteps ==
  ASSUME IInv, TypeOK', NEW t \in Threads, PutCharLock(t) \/ ClearLock(t) \/ Unlock(t)
  PROVE  IInv'
<1>1. LockInv /\ PrintInv /\ TypeOK
  BY DEF IInv
<1>2. CASE PutCharLock(t)
  <2>1. /\ pc[t] \in {"locked", "print"} /\ ~fbLock /\ fbLock' /\ termLock' = termLock
        /\ Goto(t, "draw") /\ UNCHANGED <<out, scrolled>> /\ UNCHANGED display
        /\ rest' = rest /\ rest[t] # <<>>
    BY <1>2 DEF PutCharLock, LockFramebuffer, At, history
  <2>2. termLock /\ (pc[t] = "print" \/ out = <<>>)
    BY <1>1, <2>1 DEF LockInv, PrintInv, Printing
  <2>3. LockStep(t, "draw")
    BY <2>1, <2>2 DEF LockStep, Printing, Drawing
  <2> QED BY ZenonT(30), <2>1, <2>2, <2>3, PlacesOK, StillStep
<1>3. CASE ClearLock(t)
  <2>1. /\ pc[t] = "locked" /\ ~fbLock /\ fbLock' /\ termLock' = termLock
        /\ Goto(t, "clear") /\ UNCHANGED <<out, scrolled>> /\ UNCHANGED display /\ rest' = rest
    BY <1>3 DEF ClearLock, LockFramebuffer, At, history
  <2>2. termLock /\ out = <<>>
    BY <1>1, <2>1 DEF LockInv, PrintInv, Printing
  <2>3. LockStep(t, "clear")
    BY <2>1, <2>2 DEF LockStep, Printing, Drawing
  <2> QED BY ZenonT(30), <2>1, <2>2, <2>3, PlacesOK, StillStep
<1>4. CASE Unlock(t)
  <2>1. /\ pc[t] = "print" /\ fbLock' = fbLock
        /\ Goto(t, "run") /\ UNCHANGED <<out, scrolled>> /\ UNCHANGED display /\ rest' = rest
    BY <1>4 DEF Unlock, At, history
  <2>2. LockStep(t, "run")
    BY <2>1 DEF LockStep, Printing, Drawing
  <2> QED BY ZenonT(30), <2>1, <2>2, PlacesOK, StillStep
<1> QED BY <1>2, <1>3, <1>4

LEMMA PictureSteps ==
  ASSUME IInv, TypeOK', NEW t \in Threads, PictureLock(t) \/ DrawBitmap(t)
  PROVE  IInv'
<1>1. CASE PictureLock(t)
  <2>1. /\ pc[t] = "run" /\ ~fbLock /\ fbLock' /\ termLock' = termLock
        /\ Goto(t, "picture") /\ UNCHANGED <<out, scrolled>> /\ UNCHANGED display /\ rest' = rest
    BY <1>1 DEF PictureLock, LockFramebuffer, Call, At
  <2>2. LockStep(t, "picture")
    BY ZenonT(30), <2>1 DEF LockStep, Printing, Drawing
  <2> QED BY <2>1, <2>2, PlacesOK, StillStep
<1>2. CASE DrawBitmap(t)
  <2>1. /\ pc[t] = "picture" /\ termLock' = termLock
        /\ Goto(t, "run") /\ UNCHANGED <<out, pos, scrolled>> /\ rest' = rest
    BY <1>2 DEF DrawBitmap, At, history
  <2>2. LockStep(t, "run")
    BY <2>1 DEF LockStep, Printing, Drawing
  <2>3. \A c \in Cell : screen'[c] \in {screen[c], Graphic}
    BY <1>2 DEF DrawBitmap
  <2> QED BY <2>1, <2>2, <2>3, PlacesOK, QuietStep
<1> QED BY <1>1, <1>2

LEMMA CallSteps ==
  ASSUME IInv, TypeOK', NEW t \in Threads,
         ClearCall(t) \/ \E text \in Texts : PrintCall(t, text) \/ DumpLine(t, text)
  PROVE  IInv'
<1>1. TypeOK
  BY DEF IInv
<1>2. /\ pc[t] = "run" /\ termLock' = termLock /\ fbLock' = fbLock
      /\ Goto(t, "wait") /\ UNCHANGED <<out, scrolled>> /\ UNCHANGED display
  BY DEF ClearCall, PrintCall, DumpLine, Call, At, locks, history
<1>3. LockStep(t, "wait")
  BY <1>2 DEF LockStep, Printing, Drawing
<1>4. \A u \in Threads : u # t => rest'[u] = rest[u]
  BY <1>1, RestKept DEF ClearCall, PrintCall, DumpLine
<1> QED BY <1>2, <1>3, <1>4, PlacesOK, StillStep

(* Steps that move no thread: the heap's lock and the timer *)
LEMMA OtherSteps ==
  ASSUME IInv, TypeOK', UNCHANGED <<pc, rest, termLock, fbLock, pos, out, scrolled>>,
         \A c \in Cell : screen'[c] \in {screen[c], Graphic}
  PROVE  IInv'
<1>1. LockInv' /\ PrintInv'
  BY DEF IInv, LockInv, PrintInv
<1>2. OutInv'
  BY OutSame DEF IInv
<1> QED BY ZenonT(30), SMTT(30), <1>1, <1>2 DEF IInv
-----------------------------------------------------------------------------
LEMMA InitOK ==
  ASSUME Init
  PROVE  IInv
<1>1. TypeOK
  <2>1. pos \in Cell /\ 0 \in 0 .. DumpLines + 1
    BY TerminalAssumption DEF Init, Cell
  <2>2. screen \in [Cell -> Threads \cup {Blank, Graphic}]
    BY DEF Init
  <2>3. termLock \in BOOLEAN /\ fbLock \in BOOLEAN /\ allocLock \in BOOLEAN
    BY Zenon DEF Init
  <2>4. {termLock, fbLock, allocLock} \subseteq BOOLEAN
    BY <2>3, Zenon
  <2>5. /\ cpu \in Threads /\ rest \in [Threads -> Seq({"x", "\n"})]
        /\ pc \in [Threads -> {"run", "wait", "locked", "print"} \cup Drawing]
        /\ dump \in [Threads -> 0 .. DumpLines + 1]
    BY <2>1 DEF Init
  <2> QED BY <2>1, <2>2, <2>4, <2>5, Zenon DEF TypeOK
<1>2. LockInv /\ PrintInv
  BY DEF Init, LockInv, PrintInv, Printing, Drawing
<1>3. OutInv
  BY DEF Init, OutInv
<1> QED BY <1>1, <1>2, <1>3 DEF IInv

LEMMA NextOK ==
  ASSUME IInv, [Next]_vars
  PROVE  IInv'
<1>0. TypeOK /\ PrintInv
  BY DEF IInv
<1>1. ASSUME NEW t \in Threads, Step(t)
      PROVE  IInv'
  <2>0. TypeOK'
    BY <1>0, <1>1, StepTypes
  <2>1. CASE LockTerminal(t) \/ Clear(t)
    BY <2>0, <2>1, FreshSteps, Zenon
  <2>2. CASE PutCharLock(t) \/ ClearLock(t) \/ Unlock(t)
    BY <2>0, <2>2, PrintingSteps, Zenon
  <2>3. CASE PutChar(t)
    BY <2>0, <2>3, PutCharStep, Zenon
  <2>4. CASE DrawBitmap(t)
    BY <2>0, <2>4, PictureSteps, Zenon
  <2>5. CASE \E text \in Texts : DumpLine(t, text)
    BY <2>0, <2>5, CallSteps, Zenon
  <2>6. CASE DumpEnd(t)
    <3>1. UNCHANGED <<pc, rest, termLock, fbLock, pos, screen, out, scrolled>>
      BY <2>6 DEF DumpEnd, display, history
    <3> QED BY <2>0, <3>1, OtherSteps
  <2> QED BY <1>1, <2>1, <2>2, <2>3, <2>4, <2>5, <2>6, Zenon DEF Step
<1>2. ASSUME NEW t \in Threads, ClearCall(t) \/ \E text \in Texts : PrintCall(t, text)
      PROVE  IInv'
  BY <1>0, <1>2, CallTypes, CallSteps, Zenon
<1>3. ASSUME NEW t \in Threads, PictureLock(t)
      PROVE  IInv'
  BY <1>0, <1>3, CallTypes, PictureSteps, Zenon
<1>4. ASSUME NEW t \in Threads, \E col \in 0 .. Cols, row \in 0 .. Rows : SetPos(t, col, row)
      PROVE  IInv'
  BY <1>0, <1>4, CallTypes, FreshSteps, Zenon
<1>5. ASSUME NEW t \in Threads, DumpLock(t)
      PROVE  IInv'
  <2>1. TypeOK'
    BY <1>0, <1>5, CallTypes, Zenon
  <2>2. UNCHANGED <<pc, rest, termLock, fbLock, pos, screen, out, scrolled>>
    BY <1>5 DEF DumpLock, display
  <2> QED BY <2>1, <2>2, OtherSteps
<1>6. ASSUME NEW spin \in BOOLEAN, NEW next \in Threads, TimerTrigger(spin, next)
      PROVE  IInv'
  <2>1. /\ screen' \in [Cell -> Threads \cup {Blank, Graphic}]
        /\ \A c \in Cell : screen'[c] \in {screen[c], Graphic}
    BY <1>0, <1>6, SpinOK, Zenon DEF TimerTrigger
  <2>2. /\ UNCHANGED <<pc, rest, termLock, fbLock, pos, out, scrolled>>
        /\ UNCHANGED <<allocLock, dump>> /\ cpu' \in Threads
    BY <1>0, <1>6, BooleanLocks DEF TimerTrigger, locks, history
  <2>3. TypeOK'
    BY <1>0, <2>1, <2>2, BooleanLocks, TypesKept
  <2> QED BY <2>1, <2>2, <2>3, OtherSteps
<1>7. CASE UNCHANGED vars
  <2>1. UNCHANGED <<pc, rest, termLock, fbLock, pos, screen, out, scrolled>>
        /\ UNCHANGED <<allocLock, dump, cpu>>
    BY <1>7 DEF vars, locks, display, history
  <2>2. TypeOK'
    BY <1>0, <2>1 DEF TypeOK
  <2> QED BY <2>1, <2>2, OtherSteps
<1> QED BY <1>1, <1>2, <1>3, <1>4, <1>5, <1>6, <1>7, Zenon DEF Next

(* With print!, clear, dump_free_list, pictures and the timer's spinner in *)
(* any order, the locks of the terminal and of the framebuffer have one    *)
(* holder each, all that was printed since the terminal was locked is its  *)
(* holder's, and the cursor is where put_char_colored left it.             *)
THEOREM Invariance == Spec => []IInv
<1>1. IInv /\ [Next]_vars => IInv'
  BY NextOK
<1> QED BY <1>1, InitOK, PTL DEF Spec

(* What print! writes stays in one piece, each character in the cell after *)
(* the one before, and stays on the screen until it is scrolled off it:    *)
(* for any number of threads, any texts and any size of the screen.        *)
THEOREM TextStaysIntact == Spec => []PrintIntact
<1>1. IInv => PrintIntact
  BY Zenon DEF IInv, OutInv, PrintIntact
<1> QED BY <1>1, Invariance, PTL

(* Whoever has locked the framebuffer draws alone: no thread and no tick   *)
(* of the timer changes the screen before it has drawn.                    *)
THEOREM LockedScreenIsStill == Spec => DrawsAlone
<1>1. ASSUME IInv, [Next]_vars
      PROVE  [(\E t \in Threads : pc[t] \in Drawing /\ pc'[t] = pc[t]) => screen' = screen]_vars
  <2> SUFFICES ASSUME Next, NEW t \in Threads, pc[t] \in Drawing, pc'[t] = pc[t]
               PROVE  screen' = screen
    BY <1>1
  <2>1. TypeOK /\ LockInv
    BY <1>1 DEF IInv
  <2>2. fbLock
    BY <2>1 DEF LockInv
  <2>3. ASSUME NEW u \in Threads, PutChar(u) \/ Clear(u) \/ DrawBitmap(u)
        PROVE  FALSE
    <3>1. pc[u] \in Drawing
      BY <2>3 DEF PutChar, Clear, DrawBitmap, At, Drawing
    <3>2. u = t
      BY <2>1, <3>1, Zenon DEF LockInv
    <3>3. pc' = [pc EXCEPT ![u] = "print"] \/ pc' = [pc EXCEPT ![u] = "run"]
      BY <2>3 DEF PutChar, Clear, DrawBitmap, Goto
    <3>4. pc'[u] \in {"print", "run"}
      BY ZenonT(30), <2>1, <3>3 DEF TypeOK
    <3> QED BY ZenonT(30), <3>2, <3>4 DEF Drawing
  <2>4. ASSUME NEW u \in Threads, Step(u)
        PROVE  screen' = screen
    BY ZenonT(30), <2>3, <2>4 DEF Step, LockTerminal, PutCharLock, ClearLock, LockFramebuffer, Unlock,
                      DumpLine, DumpEnd, display
  <2>5. ASSUME NEW u \in Threads,
               \/ ClearCall(u) \/ PictureLock(u) \/ DumpLock(u)
               \/ \E text \in Texts : PrintCall(u, text)
               \/ \E col \in 0 .. Cols, row \in 0 .. Rows : SetPos(u, col, row)
        PROVE  screen' = screen
    BY <2>5 DEF ClearCall, PictureLock, LockFramebuffer, DumpLock, PrintCall, SetPos, display
  <2>6. ASSUME NEW spin \in BOOLEAN, NEW next \in Threads, TimerTrigger(spin, next)
        PROVE  screen' = screen
    BY <2>1, <2>2, <2>6, SpinOK, Zenon DEF TimerTrigger
  <2> QED BY <2>4, <2>5, <2>6, Zenon DEF Next
<1> QED BY <1>1, Invariance, PTL DEF Spec, DrawsAlone
=============================================================================
