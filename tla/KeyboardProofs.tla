--------------------------- MODULE KeyboardProofs ---------------------------
(***************************************************************************)
(* What the handler of the keyboard decodes are the keys that were typed,  *)
(* no modifier sticks, the lamps show the locks, and what is read as       *)
(* characters are presses: for any keys, any number of strokes and any     *)
(* capacity of the queue.                                                  *)
(***************************************************************************)
EXTENDS Keyboard, TLAPS

(* Sequences *)

LEMMA SeqDomain ==
  ASSUME NEW S, NEW s \in Seq(S)
  PROVE  Len(s) \in Nat /\ DOMAIN s = 1 .. Len(s) /\ \A i \in 1 .. Len(s) : s[i] \in S
OBVIOUS

LEMMA Emptiness ==
  ASSUME NEW S, NEW s \in Seq(S)
  PROVE  s = <<>> <=> Len(s) = 0
OBVIOUS

LEMMA Appended ==
  ASSUME NEW S, NEW s \in Seq(S), NEW e \in S
  PROVE  /\ Append(s, e) \in Seq(S) /\ Len(Append(s, e)) = Len(s) + 1
         /\ \A i \in 1 .. Len(s) : Append(s, e)[i] = s[i]
         /\ Append(s, e)[Len(s) + 1] = e
OBVIOUS

LEMMA HeadAndTail ==
  ASSUME NEW S, NEW s \in Seq(S), s # <<>>
  PROVE  /\ Head(s) = s[1] /\ Head(s) \in S /\ Tail(s) \in Seq(S)
         /\ Len(Tail(s)) = Len(s) - 1
         /\ \A i \in 1 .. Len(Tail(s)) : Tail(s)[i] = s[i + 1]
OBVIOUS

(* A sequence with something put in front of it *)
LEMMA InFront ==
  ASSUME NEW S, NEW s \in Seq(S), NEW e \in S
  PROVE  /\ <<e>> \o s \in Seq(S) /\ <<e>> \o s # <<>>
         /\ Head(<<e>> \o s) = e /\ Tail(<<e>> \o s) = s
<1>1. <<e>> \in Seq(S) /\ Len(<<e>>) = 1 /\ <<e>>[1] = e
  OBVIOUS
<1> DEFINE t == <<e>> \o s
<1>2. /\ t \in Seq(S) /\ Len(t) = Len(s) + 1 /\ t[1] = e
      /\ \A i \in 1 .. Len(s) : t[i + 1] = s[i]
  BY <1>1
<1> HIDE DEF t
<1>3. t # <<>> /\ Head(t) = e
  BY <1>2
<1>4. /\ Tail(t) \in Seq(S) /\ Len(Tail(t)) = Len(s)
      /\ \A i \in 1 .. Len(s) : Tail(t)[i] = s[i]
  BY <1>2, <1>3, HeadAndTail
<1>5. Tail(t) = s
  BY <1>4
<1> QED BY <1>2, <1>3, <1>5 DEF t

LEMMA Joined ==
  ASSUME NEW S, NEW r \in Seq(S), NEW s \in Seq(S)
  PROVE  r \o s \in Seq(S)
OBVIOUS

LEMMA JoinEmpty ==
  ASSUME NEW S, NEW s \in Seq(S)
  PROVE  <<>> \o s = s /\ s \o <<>> = s
OBVIOUS

(* What is appended to a sequence is appended behind a prefix as well.     *)
LEMMA JoinAppend ==
  ASSUME NEW S, NEW r \in Seq(S), NEW s \in Seq(S), NEW e \in S
  PROVE  r \o Append(s, e) = Append(r \o s, e)
OBVIOUS

LEMMA JoinLast ==
  ASSUME NEW S, NEW s \in Seq(S), NEW e \in S
  PROVE  s \o <<e>> = Append(s, e) /\ s \o <<e>> \in Seq(S)
OBVIOUS

LEMMA JoinTwo ==
  ASSUME NEW S, NEW s \in Seq(S), NEW a \in S, NEW b \in S
  PROVE  s \o <<a, b>> = Append(Append(s, a), b)
<1>1. <<a>> \in Seq(S) /\ <<a, b>> = Append(<<a>>, b)
  OBVIOUS
<1>2. s \o Append(<<a>>, b) = Append(s \o <<a>>, b)
  BY <1>1, JoinAppend
<1>3. s \o <<a>> = Append(s, a)
  BY JoinLast
<1> QED BY <1>1, <1>2, <1>3, Zenon
-----------------------------------------------------------------------------
(* Tables and bytes *)

Octet == 0 .. 255
CtrlDown == 29
NumDown == 69
CtrlUp == 157
NumUp == 197
ShiftOn == 42
ShiftOff == 170

LEMMA NormalTab == \A i \in 1 .. TableSize : NORMAL_TAB[i] \in Octet
BY DEF NORMAL_TAB, TableSize, Octet

LEMMA ShiftTab == \A i \in 1 .. TableSize : SHIFT_TAB[i] \in Octet
BY DEF SHIFT_TAB, TableSize, Octet

LEMMA AltTab == \A i \in 1 .. TableSize : ALT_TAB[i] \in Octet
BY DEF ALT_TAB, TableSize, Octet

LEMMA NumTabs == \A i \in 1 .. 13 : ASC_NUM_TAB[i] \in Octet /\ SCAN_NUM_TAB[i] \in 0 .. 127
BY DEF ASC_NUM_TAB, SCAN_NUM_TAB, Octet

LEMMA CodeOf ==
  ASSUME NEW b \in Octet
  PROVE  /\ IsBreak(b) \in BOOLEAN /\ Code(b) \in 0 .. 127
         /\ IsBreak(b) => b >= 128 /\ Code(b) = b - 128
         /\ ~IsBreak(b) => b < 128 /\ Code(b) = b
BY DEF IsBreak, Code, BREAK_BIT, Octet

LEMMA ToScancodeOK ==
  ASSUME NEW c \in 0 .. 127
  PROVE  ToScancode(c) \in 0 .. 127
BY DEF ToScancode, None

LEMMA TableEntryOK ==
  ASSUME NEW code \in 1 .. TableSize - 1, NEW p, NEW modifiers
  PROVE  TableEntry(code, p, modifiers) \in Octet /\ ScanEntry(code, p, modifiers) \in 0 .. 127
<1>1. code + 1 \in 1 .. TableSize /\ code \in 0 .. 127
  BY DEF TableSize
<1>2. CASE OnNumberBlock(code, p, modifiers)
  <2>1. code - 70 \in 1 .. 13
    BY <1>2 DEF OnNumberBlock
  <2>2. ASC_NUM_TAB[code - 70] \in Octet /\ SCAN_NUM_TAB[code - 70] \in 0 .. 127
    BY <2>1, NumTabs, Zenon
  <2> QED BY <1>2, <2>2, ToScancodeOK, Zenon DEF TableEntry, ScanEntry
<1>3. CASE ~OnNumberBlock(code, p, modifiers)
  <2>1. /\ NORMAL_TAB[code + 1] \in Octet /\ SHIFT_TAB[code + 1] \in Octet
        /\ ALT_TAB[code + 1] \in Octet
    BY <1>1, NormalTab, ShiftTab, AltTab, Zenon
  <2> QED BY <1>1, <1>3, <2>1, ToScancodeOK, Zenon DEF TableEntry, ScanEntry
<1> QED BY <1>2, <1>3, Zenon

(* Event x is the one of the press or release t: the scancode is the       *)
(* table's, and so is the character unless the table has none.             *)
Decodes(t, x) ==
  LET entry == TableEntry(t.code, t.prefix, x.event.modifiers)
  IN  /\ t.code = x.code /\ t.pressed = x.event.pressed
      /\ x.event.scancode = ScanEntry(t.code, t.prefix, x.event.modifiers)
      /\ entry # 0 => x.event.ascii = entry

LEMMA ParsedOK ==
  ASSUME gather \in KeyEvent, NEW code \in 1 .. TableSize - 1, NEW pressed \in BOOLEAN
  PROVE  LET e == ParsedEvent(code, pressed)
         IN  /\ e \in KeyEvent /\ e.modifiers = gather.modifiers
             /\ Decodes([code |-> code, pressed |-> pressed, prefix |-> prefix],
                        [code |-> code, event |-> e])
<1> DEFINE t == TableEntry(code, prefix, gather.modifiers)
           a == SetAscii(t)
           c == ScanEntry(code, prefix, gather.modifiers)
           e == [ascii |-> a, scancode |-> c, modifiers |-> gather.modifiers,
                 pressed |-> pressed]
<1>1. ParsedEvent(code, pressed) = e
  BY DEF ParsedEvent
<1>2. t \in Octet /\ c \in 0 .. 127
  BY TableEntryOK, Zenon
<1>3. t = TableEntry(code, prefix, gather.modifiers) /\ c = ScanEntry(code, prefix, gather.modifiers)
  BY Zenon
<1> HIDE DEF t, c
<1>4. a \in Octet /\ gather.modifiers \in SUBSET KeyModifiers /\ (t # 0 => a = t)
  BY <1>2 DEF SetAscii, KeyEvent, Octet
<1> HIDE DEF a
<1>5. /\ e \in KeyEvent /\ e.pressed = pressed /\ e.modifiers = gather.modifiers
      /\ e.ascii = a /\ e.scancode = c
  BY <1>2, <1>4 DEF KeyEvent, Octet
<1> HIDE DEF e
<1> DEFINE k == [code |-> code, pressed |-> pressed, prefix |-> prefix]
           x == [code |-> code, event |-> e]
<1>6. k.code = code /\ k.pressed = pressed /\ k.prefix = prefix /\ x.code = code /\ x.event = e
  OBVIOUS
<1> HIDE DEF k, x
<1>7. Decodes(k, x)
  BY <1>3, <1>4, <1>5, <1>6, Zenon DEF Decodes
<1> QED BY <1>1, <1>5, <1>7, Zenon DEF k, x

-----------------------------------------------------------------------------
(* Reading ahead.  The bytes on their way to the handler decide which      *)
(* events it will decode: a decoder is the part of the driver's state that *)
(* the next bytes depend on, with the number of events so far; it is dead  *)
(* after a byte that panics.                                               *)

ModCodes == {42, 54, 56, 29}
Decoder == [dead : BOOLEAN, prefix : {0, PREFIX1, PREFIX2},
            mods : SUBSET (KeyModifiers \ Locks), n : Nat]
Entry == [code : 1 .. 127, pressed : BOOLEAN, prefix : {0, PREFIX1, PREFIX2}]

ModifierFor(p, code) ==
  IF code \in {42, 54} THEN "SHIFT"
  ELSE IF code = 56 THEN IF p = PREFIX1 THEN "ALT_RIGHT" ELSE "ALT_LEFT"
  ELSE IF p = PREFIX1 THEN "CTRL_RIGHT" ELSE "CTRL_LEFT"
IsLockFor(mods, code) == code \in {58, 70} \/ (code = 69 /\ "CTRL_LEFT" \notin mods)

(* Decoder d reads byte b and becomes e; an event is the next one of T.    *)
ReadsPrefix(d, b, e) == IsPrefixByte(b) /\ e.prefix = b /\ e.mods = d.mods /\ e.n = d.n
ReadsModifier(d, b, e) ==
  /\ Code(b) \in ModCodes /\ e.prefix = 0 /\ e.n = d.n
  /\ e.mods = IF IsBreak(b) THEN d.mods \ {ModifierFor(d.prefix, Code(b))}
              ELSE d.mods \cup {ModifierFor(d.prefix, Code(b))}
ReadsLock(d, b, e) ==
  IsLockFor(d.mods, Code(b)) /\ e.prefix = 0 /\ e.n = d.n /\ e.mods = d.mods
ReadsKey(d, b, e, T) ==
  /\ Code(b) \in 1 .. TableSize - 1 /\ Code(b) \notin ModCodes /\ ~IsLockFor(d.mods, Code(b))
  /\ e.prefix = 0 /\ e.mods = d.mods /\ e.n = d.n + 1
  /\ e.n <= Len(T)
  /\ T[e.n] = [code |-> Code(b), pressed |-> ~IsBreak(b), prefix |-> d.prefix]
Reads(d, b, e, T) ==
  \/ e.dead /\ (d.dead \/ b \in TableSize .. 127)
  \/ /\ ~d.dead /\ ~e.dead
     /\ ReadsPrefix(d, b, e) \/ ReadsModifier(d, b, e) \/ ReadsLock(d, b, e)
        \/ ReadsKey(d, b, e, T)

(* Decoder d reads the bytes P and becomes e. *)
IsReading(r, d, P, T, e) ==
  /\ Len(r) = Len(P) + 1 /\ r[1] = d /\ r[Len(r)] = e
  /\ \A i \in 1 .. Len(P) : Reads(r[i], P[i], r[i + 1], T)
ReadsAll(d, P, T, e) == \E r \in Seq(Decoder) : IsReading(r, d, P, T, e)

LEMMA SameDecoder ==
  ASSUME NEW d \in Decoder, NEW e \in Decoder,
         d.dead = e.dead, d.prefix = e.prefix, d.mods = e.mods, d.n = e.n
  PROVE  d = e
BY DEF Decoder

LEMMA Alive ==
  ASSUME NEW d \in Decoder, ~d.dead
  PROVE  d.dead = FALSE
BY DEF Decoder

LEMMA ReadsNothing ==
  ASSUME NEW T, NEW d \in Decoder
  PROVE  /\ ReadsAll(d, <<>>, T, d)
         /\ \A e \in Decoder : ReadsAll(d, <<>>, T, e) => d = e
<1>1. ReadsAll(d, <<>>, T, d)
  <2>1. <<d>> \in Seq(Decoder) /\ Len(<<d>>) = 1 /\ <<d>>[1] = d /\ Len(<<>>) = 0
    OBVIOUS
  <2>2. IsReading(<<d>>, d, <<>>, T, d)
    BY <2>1 DEF IsReading
  <2> QED BY <2>1, <2>2, Zenon DEF ReadsAll
<1>2. ASSUME NEW e \in Decoder, ReadsAll(d, <<>>, T, e)
      PROVE  d = e
  BY <1>2 DEF ReadsAll, IsReading
<1> QED BY <1>1, <1>2, Zenon

(* The first byte *)
LEMMA ReadsFirst ==
  ASSUME NEW T, NEW d \in Decoder, NEW e \in Decoder, NEW P \in Seq(Octet), P # <<>>,
         ReadsAll(d, P, T, e)
  PROVE  \E c \in Decoder : Reads(d, Head(P), c, T) /\ ReadsAll(c, Tail(P), T, e)
<1>1. PICK r \in Seq(Decoder) : IsReading(r, d, P, T, e)
  BY Zenon DEF ReadsAll
<1>2. /\ Len(P) \in Nat /\ Len(P) >= 1 /\ Len(r) = Len(P) + 1 /\ r[1] = d /\ r[Len(P) + 1] = e
      /\ \A i \in 1 .. Len(P) : Reads(r[i], P[i], r[i + 1], T)
  <2>1. Len(P) \in Nat /\ Len(P) # 0
    BY Emptiness
  <2> QED BY <1>1, <2>1 DEF IsReading
<1>3. Head(P) = P[1] /\ Len(Tail(P)) = Len(P) - 1
      /\ \A i \in 1 .. Len(P) - 1 : Tail(P)[i] = P[i + 1]
  BY HeadAndTail
<1>4. r # <<>>
  BY <1>2
<1>5. /\ Tail(r) \in Seq(Decoder) /\ Len(Tail(r)) = Len(P)
      /\ \A i \in 1 .. Len(P) : Tail(r)[i] = r[i + 1]
  BY <1>2, <1>4, HeadAndTail
<1>6. r[2] \in Decoder /\ Reads(d, Head(P), r[2], T)
  <2>1. 1 \in 1 .. Len(P) /\ 1 + 1 = 2 /\ 2 \in 1 .. Len(r)
    BY <1>2
  <2> QED BY <1>2, <1>3, <2>1
<1>7. IsReading(Tail(r), r[2], Tail(P), T, e)
  <2>1. Tail(r)[1] = r[2] /\ Tail(r)[Len(P)] = e
    BY <1>2, <1>5
  <2>2. ASSUME NEW i \in 1 .. Len(P) - 1
        PROVE  Reads(Tail(r)[i], Tail(P)[i], Tail(r)[i + 1], T)
    <3>1. i \in 1 .. Len(P) /\ i + 1 \in 1 .. Len(P)
      BY <1>2
    <3>2. Reads(r[i + 1], P[i + 1], r[(i + 1) + 1], T)
      BY <1>2, <3>1, Zenon
    <3> QED BY <1>3, <1>5, <3>1, <3>2
  <2>3. Len(Tail(r)) = Len(Tail(P)) + 1
    BY <1>2, <1>3, <1>5
  <2> QED BY <1>3, <1>5, <2>1, <2>2, <2>3 DEF IsReading
<1> QED BY <1>5, <1>6, <1>7, Zenon DEF ReadsAll

(* One more byte *)
LEMMA ReadsOneMore ==
  ASSUME NEW T, NEW d \in Decoder, NEW c \in Decoder, NEW e \in Decoder,
         NEW P \in Seq(Octet), NEW b \in Octet,
         ReadsAll(d, P, T, c), Reads(c, b, e, T)
  PROVE  ReadsAll(d, Append(P, b), T, e)
<1>1. PICK r \in Seq(Decoder) : IsReading(r, d, P, T, c)
  BY Zenon DEF ReadsAll
<1> DEFINE l == Len(P)
           s == Append(r, e)
           Q == Append(P, b)
<1>2. /\ l \in Nat /\ Len(r) = l + 1 /\ r[1] = d /\ r[l + 1] = c
      /\ \A i \in 1 .. l : Reads(r[i], P[i], r[i + 1], T)
  BY <1>1 DEF IsReading
<1>3. /\ s \in Seq(Decoder) /\ Len(s) = l + 2 /\ s[l + 2] = e
      /\ \A i \in 1 .. l + 1 : s[i] = r[i]
  BY <1>2, Appended
<1>4. Len(Q) = l + 1 /\ Q[l + 1] = b /\ \A i \in 1 .. l : Q[i] = P[i]
  BY Appended
<1> HIDE DEF l, s, Q
<1>5. s[1] = d /\ s[l + 1] = c
  BY <1>2, <1>3
<1>6. ASSUME NEW i \in 1 .. l + 1
      PROVE  Reads(s[i], Q[i], s[i + 1], T)
  <2>1. CASE i = l + 1
    <3>1. (l + 1) + 1 = l + 2
      BY <1>2
    <3> QED BY <1>3, <1>4, <1>5, <2>1, <3>1
  <2>2. CASE i # l + 1
    <3>1. i \in 1 .. l /\ i \in 1 .. l + 1 /\ i + 1 \in 1 .. l + 1
      BY <1>2, <2>2
    <3> QED BY <1>2, <1>3, <1>4, <3>1
  <2> QED BY <2>1, <2>2
<1>7. IsReading(s, d, Q, T, e)
  BY <1>2, <1>3, <1>4, <1>5, <1>6 DEF IsReading
<1> QED BY <1>3, <1>7, Zenon DEF ReadsAll, Q

(* What is typed later changes nothing. *)
LEMMA ReadsStays ==
  ASSUME NEW T \in Seq(Entry), NEW x \in Entry, NEW d \in Decoder, NEW e \in Decoder,
         NEW P \in Seq(Octet), ReadsAll(d, P, T, e)
  PROVE  ReadsAll(d, P, Append(T, x), e)
<1>1. PICK r \in Seq(Decoder) : IsReading(r, d, P, T, e)
  BY Zenon DEF ReadsAll
<1> DEFINE U == Append(T, x)
<1>2. Len(T) \in Nat /\ Len(U) = Len(T) + 1 /\ \A i \in 1 .. Len(T) : U[i] = T[i]
  BY Appended
<1> HIDE DEF U
<1>3. ASSUME NEW i \in 1 .. Len(P)
      PROVE  Reads(r[i], P[i], r[i + 1], U)
  <2>1. Reads(r[i], P[i], r[i + 1], T)
    BY <1>1, Zenon DEF IsReading
  <2>2. r[i] \in Decoder /\ r[i].n \in Nat
    <3>1. i \in 1 .. Len(r)
      BY <1>1 DEF IsReading
    <3>2. \A c \in Decoder : c.n \in Nat
      BY DEF Decoder
    <3> QED BY <3>1, <3>2, SeqDomain
  <2>3. ReadsKey(r[i], P[i], r[i + 1], T) => ReadsKey(r[i], P[i], r[i + 1], U)
    <3> SUFFICES ASSUME ReadsKey(r[i], P[i], r[i + 1], T)
                 PROVE  ReadsKey(r[i], P[i], r[i + 1], U)
      OBVIOUS
    <3>1. r[i + 1].n = r[i].n + 1 /\ r[i + 1].n <= Len(T)
      BY DEF ReadsKey
    <3>2. r[i + 1].n \in 1 .. Len(T) /\ r[i + 1].n <= Len(U)
      BY SMTT(30), <1>2, <2>2, <3>1
    <3> QED BY <1>2, <3>2, Zenon DEF ReadsKey
  <2> QED BY <2>1, <2>3, Zenon DEF Reads
<1>4. IsReading(r, d, P, U, e)
  BY <1>1, <1>3, Zenon DEF IsReading
<1> QED BY <1>4, Zenon DEF ReadsAll, U

-----------------------------------------------------------------------------
(* The elements of S are elements of D, in order: f says which. *)

Placed(f, S, D) ==
  /\ f \in [1 .. Len(S) -> 1 .. Len(D)]
  /\ \A i, j \in 1 .. Len(S) : i < j => f[i] < f[j]
  /\ \A i \in 1 .. Len(S) : S[i] = D[f[i]]

LEMMA PlacedInMore ==
  ASSUME NEW X, NEW S \in Seq(X), NEW D \in Seq(X), NEW x \in X, NEW f, Placed(f, S, D)
  PROVE  Placed(f, S, Append(D, x))
<1> DEFINE E == Append(D, x)
<1>1. /\ Len(D) \in Nat /\ Len(S) \in Nat /\ Len(E) = Len(D) + 1
      /\ \A i \in 1 .. Len(D) : E[i] = D[i]
  BY Appended
<1> HIDE DEF E
<1>2. f \in [1 .. Len(S) -> 1 .. Len(D)] /\ \A i \in 1 .. Len(S) : f[i] \in 1 .. Len(D)
  BY ZenonT(30) DEF Placed
<1>3. f \in [1 .. Len(S) -> 1 .. Len(E)]
  BY <1>1, <1>2
<1>4. ASSUME NEW i \in 1 .. Len(S)
      PROVE  S[i] = E[f[i]]
  <2>1. S[i] = D[f[i]]
    BY Zenon DEF Placed
  <2> QED BY <1>1, <1>2, <2>1
<1>5. \A i, j \in 1 .. Len(S) : i < j => f[i] < f[j]
  BY Zenon DEF Placed
<1> QED BY <1>3, <1>4, <1>5, Zenon DEF Placed, E

LEMMA PlacedOneMore ==
  ASSUME NEW X, NEW S \in Seq(X), NEW D \in Seq(X), NEW f, Placed(f, S, D),
         NEW k \in 1 .. Len(D), \A i \in 1 .. Len(S) : f[i] < k
  PROVE  \E g : /\ Placed(g, Append(S, D[k]), D) /\ g[Len(S) + 1] = k
                /\ \A i \in 1 .. Len(S) : g[i] = f[i]
<1> DEFINE n == Len(S)
           R == Append(S, D[k])
           g == [i \in 1 .. n + 1 |-> IF i = n + 1 THEN k ELSE f[i]]
<1>1. Len(D) \in Nat /\ n \in Nat /\ D[k] \in X
  BY SeqDomain
<1>2. Len(R) = n + 1 /\ R[n + 1] = D[k] /\ \A i \in 1 .. n : R[i] = S[i]
  BY <1>1, Appended
<1>3. /\ f \in [1 .. n -> 1 .. Len(D)] /\ \A i \in 1 .. n : f[i] \in 1 .. Len(D)
      /\ \A i, j \in 1 .. n : i < j => f[i] < f[j]
      /\ \A i \in 1 .. n : S[i] = D[f[i]]
  BY ZenonT(30), SMTT(30) DEF Placed
<1>4. \A i \in 1 .. n : f[i] < k
  OBVIOUS
<1> HIDE DEF R, n
<1>5. g \in [1 .. n + 1 -> 1 .. Len(D)] /\ g[n + 1] = k /\ \A i \in 1 .. n : g[i] = f[i]
  BY <1>1, <1>3
<1> HIDE DEF g
<1>6. \A i \in 1 .. n + 1 : i = n + 1 \/ i \in 1 .. n
  BY <1>1
<1>7. ASSUME NEW i \in 1 .. n + 1, NEW j \in 1 .. n + 1, i < j
      PROVE  g[i] < g[j]
  <2>1. i \in 1 .. n
    BY <1>1, <1>7
  <2>2. CASE j = n + 1
    BY <1>4, <1>5, <2>1, <2>2
  <2>3. CASE j \in 1 .. n
    BY <1>3, <1>5, <1>7, <2>1, <2>3
  <2> QED BY <1>6, <2>2, <2>3
<1>8. ASSUME NEW i \in 1 .. n + 1
      PROVE  R[i] = D[g[i]]
  <2>1. CASE i = n + 1
    BY <1>2, <1>5, <2>1
  <2>2. CASE i \in 1 .. n
    <3>1. R[i] = S[i] /\ S[i] = D[f[i]] /\ g[i] = f[i]
      BY <1>2, <1>3, <1>5, <2>2, Zenon
    <3> QED BY <3>1, Zenon
  <2> QED BY <1>6, <2>1, <2>2
<1>9. Placed(g, R, D)
  BY <1>2, <1>5, <1>7, <1>8 DEF Placed
<1> QED BY <1>5, <1>9, Zenon DEF R, n

(* An element put behind both *)
LEMMA PlacedLast ==
  ASSUME NEW X, NEW S \in Seq(X), NEW D \in Seq(X), NEW x \in X, NEW f, Placed(f, S, D)
  PROVE  /\ \A i \in 1 .. Len(S) : f[i] < Len(D) + 1
         /\ \E g : /\ Placed(g, Append(S, x), Append(D, x)) /\ g[Len(S) + 1] = Len(D) + 1
                   /\ \A i \in 1 .. Len(S) : g[i] = f[i]
<1> DEFINE n == Len(D)
           E == Append(D, x)
<1>1. E \in Seq(X) /\ n \in Nat /\ Len(E) = n + 1 /\ E[n + 1] = x
  BY Appended
<1>2. \A i \in 1 .. Len(S) : f[i] \in 1 .. n
  BY DEF Placed
<1>3. Placed(f, S, E)
  BY PlacedInMore
<1> HIDE DEF E, n
<1>4. \A i \in 1 .. Len(S) : f[i] < n + 1
  BY <1>1, <1>2
<1>5. n + 1 \in 1 .. Len(E)
  BY <1>1
<1>6. \E g : /\ Placed(g, Append(S, E[n + 1]), E) /\ g[Len(S) + 1] = n + 1
             /\ \A i \in 1 .. Len(S) : g[i] = f[i]
  BY SMTT(30), <1>1, <1>3, <1>4, <1>5, PlacedOneMore
<1> QED BY <1>1, <1>4, <1>6, Zenon DEF E, n

LEMMA PlacedTail ==
  ASSUME NEW X, NEW S \in Seq(X), NEW D \in Seq(X), NEW f, Placed(f, S, D), S # <<>>
  PROVE  \E g : /\ Placed(g, Tail(S), D) /\ f[1] \in 1 .. Len(D) /\ Head(S) = D[f[1]]
                /\ \A i \in 1 .. Len(Tail(S)) : f[1] < g[i]
                /\ \A i \in 1 .. Len(Tail(S)) : i + 1 \in 1 .. Len(S) /\ g[i] = f[i + 1]
<1> DEFINE n == Len(S)
           R == Tail(S)
           g == [i \in 1 .. n - 1 |-> f[i + 1]]
<1>1. /\ Len(D) \in Nat /\ n \in Nat /\ n >= 1 /\ 1 \in 1 .. n
      /\ \A i \in 1 .. n - 1 : i + 1 \in 1 .. n /\ 1 < i + 1
  BY Emptiness
<1>2. Len(R) = n - 1 /\ Head(S) = S[1] /\ \A i \in 1 .. n - 1 : R[i] = S[i + 1]
  BY HeadAndTail
<1>3. /\ f \in [1 .. n -> 1 .. Len(D)] /\ \A i \in 1 .. n : f[i] \in 1 .. Len(D)
      /\ \A i, j \in 1 .. n : i < j => f[i] < f[j]
      /\ \A i \in 1 .. n : S[i] = D[f[i]]
  BY ZenonT(30) DEF Placed
<1> HIDE DEF R, n
<1>4. g \in [1 .. n - 1 -> 1 .. Len(D)] /\ \A i \in 1 .. n - 1 : g[i] = f[i + 1]
  BY <1>1, <1>3
<1> HIDE DEF g
<1>5. ASSUME NEW i \in 1 .. n - 1, NEW j \in 1 .. n - 1, i < j
      PROVE  g[i] < g[j]
  <2>1. i + 1 < j + 1 /\ i + 1 \in 1 .. n /\ j + 1 \in 1 .. n
    BY <1>1, <1>5
  <2> QED BY <1>3, <1>4, <2>1, Zenon
<1>6. ASSUME NEW i \in 1 .. n - 1
      PROVE  f[1] < g[i] /\ R[i] = D[g[i]]
  <2>1. g[i] = f[i + 1] /\ R[i] = S[i + 1] /\ S[i + 1] = D[f[i + 1]]
    BY <1>1, <1>2, <1>3, <1>4, Zenon
  <2>2. f[1] < f[i + 1]
    BY <1>1, <1>3, Zenon
  <2> QED BY <2>1, <2>2, Zenon
<1>7. Placed(g, R, D)
  BY <1>2, <1>4, <1>5, <1>6 DEF Placed
<1>8. f[1] \in 1 .. Len(D) /\ Head(S) = D[f[1]]
  BY <1>1, <1>2, <1>3, Zenon
<1> QED BY <1>1, <1>2, <1>4, <1>6, <1>7, <1>8 DEF R, n
-----------------------------------------------------------------------------
(* The inductive invariant *)

Coded == [code : 1 .. 127, event : KeyEvent]
Panicked == pc \in {"panic_index", "panic_answer"}

(* out is the keyboard's answer to a command of set_led. *)
Answer == (pc = "ack_command" /\ command = "await_data") \/ (pc = "ack_data" /\ command = "none")

(* The bytes decode_byte has yet to see, and the decoder that will *)
Pending == (IF out = <<>> \/ Answer \/ Head(out).aux THEN <<>> ELSE <<Head(out).byte>>) \o buffer
Now == [dead |-> FALSE, prefix |-> prefix, mods |-> gather.modifiers \ Locks, n |-> Len(decoded)]

(* What the modifiers are to be when all bytes are read; Shift has two     *)
(* keys and those that send it, and is off when one of them is released.   *)
Held(p, c) == [prefix |-> p, code |-> c] \in held
Matches(mods) ==
  /\ "CTRL_LEFT" \in mods <=> CtrlLeft \in held
  /\ "CTRL_RIGHT" \in mods <=> Held(PREFIX1, 29)
  /\ "ALT_LEFT" \in mods <=> Held(0, 56)
  /\ "ALT_RIGHT" \in mods <=> Held(PREFIX1, 56)
ShiftHeld(mods) == "SHIFT" \in mods => \E k \in held : k.code \in {42, 54} \/ k \in shifting

Foretold(d) ==
  ~d.dead => /\ d.prefix = 0 /\ d.n = Len(typed) /\ Matches(d.mods)
             /\ \A k \in held : k.code < TableSize
Expected(d) == Foretold(d) /\ (~d.dead => ShiftHeld(d.mods))

Ahead == \E d \in Decoder : ReadsAll(Now, Pending, typed, d) /\ Expected(d)

DriverTypes ==
  /\ prefix \in {0, PREFIX1, PREFIX2} /\ gather \in KeyEvent /\ leds \in SUBSET Locks
  /\ pc \in {"idle", "led_command", "ack_command", "led_data", "ack_data",
             "panic_index", "panic_answer"}
EventTypes ==
  /\ queue \in Seq(Coded) /\ Len(queue) <= QueueCapacity
  /\ decoded \in Seq(Coded) /\ chars \in Seq(Coded)
KeyTypes ==
  /\ held \in SUBSET Keys /\ shifting \in SUBSET held /\ \A k \in held : ~IsPause(k)
  /\ buffer \in Seq(Octet) /\ typed \in Seq(Entry)
LampTypes == lamps \in SUBSET Locks /\ command \in {"none", "set_led", "await_data", "data"}
OutTypes == out = <<>> \/ \E o \in Byte : out = <<o>>
Types == DriverTypes /\ EventTypes /\ KeyTypes /\ LampTypes /\ OutTypes

EventsInv ==
  /\ Len(decoded) <= Len(typed)
  /\ \A i \in 1 .. Len(decoded) : Decodes(typed[i], decoded[i])

(* The dialogue of set_led; a byte of the mouse is no answer. *)
LedInv ==
  /\ pc \in {"idle", "led_command"} => command = "none"
  /\ pc = "ack_command" => command \in {"set_led", "await_data"}
  /\ pc = "led_data" => command = "await_data"
  /\ pc = "ack_data" => command \in {"data", "none"}
  /\ Answer => out = <<[byte |-> ACK, aux |-> FALSE]>>
  /\ pc \in {"led_data", "ack_data"} /\ ~Answer /\ out # <<>> => Head(out).aux
  /\ leds = gather.modifiers \cap Locks
  /\ pc = "idle" \/ (pc = "ack_data" /\ command = "none") => lamps = leds
MouseInv == out # <<>> /\ Head(out).aux => Head(out).byte # ACK

(* The events read were decoded before those in the queue, both in order;  *)
(* what is read are presses with a character.                              *)
OrderInv ==
  \E f, g : /\ Placed(f, chars, decoded) /\ Placed(g, queue, decoded)
            /\ \A i \in 1 .. Len(chars), j \in 1 .. Len(queue) : f[i] < g[j]
PressInv == \A i \in 1 .. Len(chars) : chars[i].event.pressed /\ chars[i].event.ascii # 0

IInv ==
  /\ Types /\ EventsInv /\ MouseInv /\ OrderInv /\ PressInv
  /\ ~Panicked => LedInv /\ Ahead
-----------------------------------------------------------------------------
(* Keys *)

LEMMA KeyOK ==
  ASSUME NEW k \in Keys
  PROVE  /\ k.prefix \in {0, PREFIX1, PREFIX2} /\ k.code \in 1 .. 127
         /\ k = [prefix |-> k.prefix, code |-> k.code]
         /\ IsPause(k) => k.code = 69
<1>1. k \in [prefix : {0, PREFIX1, PREFIX2}, code : 1 .. 127]
  BY KeyboardAssumption
<1>2. IsPause(k) => k.code = 69
  BY KeyboardAssumption DEF IsPause
<1> QED BY <1>1, <1>2

LEMMA NowOK ==
  ASSUME Types
  PROVE  Now \in Decoder /\ Len(decoded) \in Nat /\ Len(typed) \in Nat
<1>1. Len(decoded) \in Nat /\ Len(typed) \in Nat
  BY DEF Types, EventTypes, KeyTypes
<1>2. gather.modifiers \in SUBSET KeyModifiers /\ prefix \in {0, PREFIX1, PREFIX2}
  BY DEF Types, DriverTypes, KeyEvent
<1> QED BY <1>1, <1>2 DEF Now, Decoder

LEMMA NextNowOK ==
  ASSUME Types'
  PROVE  Now' \in Decoder
<1>1. Len(decoded') \in Nat
  BY DEF Types, EventTypes
<1>2. gather'.modifiers \in SUBSET KeyModifiers /\ prefix' \in {0, PREFIX1, PREFIX2}
  BY DEF Types, DriverTypes, KeyEvent
<1> QED BY <1>1, <1>2 DEF Now, Decoder

LEMMA SetField ==
  ASSUME NEW A, NEW B, NEW C, NEW D, NEW m \in C,
         NEW g \in [ascii : A, scancode : B, modifiers : C, pressed : D]
  PROVE  LET h == [g EXCEPT !.modifiers = m]
         IN  /\ h \in [ascii : A, scancode : B, modifiers : C, pressed : D]
             /\ h.modifiers = m /\ h.ascii = g.ascii
OBVIOUS

LEMMA SetModifiers ==
  ASSUME NEW g \in KeyEvent, NEW m \in SUBSET KeyModifiers
  PROVE  LET h == [g EXCEPT !.modifiers = m]
         IN  h \in KeyEvent /\ h.modifiers = m /\ h.ascii = g.ascii
BY SetField DEF KeyEvent

LEMMA PendingOK ==
  ASSUME Types
  PROVE  /\ buffer \in Seq(Octet) /\ Pending \in Seq(Octet)
         /\ out = <<>> \/ Answer \/ Head(out).aux => Pending = buffer
         /\ ~(out = <<>> \/ Answer \/ Head(out).aux) =>
              /\ Head(out).byte \in Octet /\ Pending = <<Head(out).byte>> \o buffer
              /\ Pending # <<>> /\ Head(Pending) = Head(out).byte /\ Tail(Pending) = buffer
<1>1. buffer \in Seq(Octet) /\ OutTypes
  BY DEF Types, KeyTypes
<1>2. CASE out = <<>> \/ Answer \/ Head(out).aux
  <2>1. Pending = <<>> \o buffer
    BY <1>2, Zenon DEF Pending
  <2>2. Pending = buffer
    BY <1>1, <2>1, JoinEmpty, Zenon
  <2> QED BY <1>1, <1>2, <2>2
<1>3. CASE ~(out = <<>> \/ Answer \/ Head(out).aux)
  <2>1. Pending = <<Head(out).byte>> \o buffer
    BY <1>3, Zenon DEF Pending
  <2>2. Head(out).byte \in Octet
    <3>1. Head(out) \in Byte
      BY <1>1, <1>3 DEF OutTypes
    <3> QED BY <3>1 DEF Byte, Octet
  <2> DEFINE b == Head(out).byte
  <2> HIDE DEF b
  <2>3. /\ <<b>> \o buffer \in Seq(Octet) /\ <<b>> \o buffer # <<>>
        /\ Head(<<b>> \o buffer) = b /\ Tail(<<b>> \o buffer) = buffer
    BY <1>1, <2>2, InFront DEF b
  <2> QED BY <1>1, <1>3, <2>1, <2>2, <2>3, Zenon DEF b
<1> QED BY <1>2, <1>3, Zenon

(* Nothing that matters to the decoder has changed. *)
LEMMA AheadKept ==
  ASSUME Ahead, Now' = Now, Pending' = Pending, UNCHANGED <<typed, held, shifting>>
  PROVE  Ahead'
<1>1. PICK d \in Decoder : ReadsAll(Now, Pending, typed, d) /\ Expected(d)
  BY Zenon DEF Ahead
<1>2. Expected(d)'
  BY <1>1 DEF Expected, Foretold, ShiftHeld, Matches, Held
<1>3. ReadsAll(Now', Pending', typed', d)
  BY <1>1, Zenon
<1> QED BY <1>2, <1>3, Zenon DEF Ahead

(* The byte in out is the first of those the decoder will read. *)
LEMMA AheadOne ==
  ASSUME Types, Ahead, out # <<>>, ~Answer, ~Head(out).aux
  PROVE  \E c, d \in Decoder :
           /\ Reads(Now, Head(out).byte, c, typed)
           /\ ReadsAll(c, buffer, typed, d) /\ Expected(d)
<1>1. PICK d \in Decoder : ReadsAll(Now, Pending, typed, d) /\ Expected(d)
  BY Zenon DEF Ahead
<1>2. /\ Pending \in Seq(Octet) /\ Pending # <<>>
      /\ Head(Pending) = Head(out).byte /\ Tail(Pending) = buffer
  BY PendingOK, Zenon
<1>3. Now \in Decoder
  BY NowOK
<1>4. \E c \in Decoder : Reads(Now, Head(Pending), c, typed) /\ ReadsAll(c, Tail(Pending), typed, d)
  BY <1>1, <1>2, <1>3, ReadsFirst, Zenon
<1> QED BY <1>1, <1>2, <1>4, Zenon

(* It has read it. *)
LEMMA AheadRead ==
  ASSUME NEW c \in Decoder, NEW d \in Decoder, ReadsAll(c, buffer, typed, d), Expected(d),
         Types, Now' = c, out' = <<>>, UNCHANGED <<buffer, typed, held, shifting>>
  PROVE  Ahead'
<1>1. Pending' = <<>> \o buffer
  BY Zenon DEF Pending
<1>2. Pending' = buffer
  BY <1>1, JoinEmpty, PendingOK, Zenon
<1>3. Expected(d)'
  BY DEF Expected, Foretold, ShiftHeld, Matches, Held
<1>4. ReadsAll(Now', Pending', typed', d)
  BY <1>2, Zenon
<1> QED BY <1>3, <1>4, Zenon DEF Ahead

-----------------------------------------------------------------------------
(* The handler decodes a byte. *)

LEMMA WhichRead ==
  ASSUME NEW T, NEW b \in Octet, NEW d \in Decoder, NEW e \in Decoder, ~d.dead,
         Reads(d, b, e, T)
  PROVE  /\ b # ACK
         /\ e.dead => ~IsPrefixByte(b) /\ Code(b) >= TableSize
         /\ ~e.dead /\ IsPrefixByte(b) => ReadsPrefix(d, b, e)
         /\ ~e.dead /\ ~IsPrefixByte(b) =>
              /\ Code(b) \in 1 .. TableSize - 1
              /\ Code(b) \in ModCodes => ReadsModifier(d, b, e)
              /\ IsLockFor(d.mods, Code(b)) => ReadsLock(d, b, e)
              /\ Code(b) \notin ModCodes /\ ~IsLockFor(d.mods, Code(b)) => ReadsKey(d, b, e, T)
<1>1. /\ IsBreak(b) \in BOOLEAN /\ Code(b) \in 0 .. 127
      /\ IsBreak(b) => b >= 128 /\ Code(b) = b - 128
      /\ ~IsBreak(b) => b < 128 /\ Code(b) = b
  BY CodeOf, Zenon
<1>2. \A code \in ModCodes : code \in 1 .. TableSize - 1 /\ ~IsLockFor(d.mods, code)
  BY DEF ModCodes, IsLockFor, TableSize
<1>3. \A code \in 0 .. 127 : IsLockFor(d.mods, code) => code \in 1 .. TableSize - 1
  BY DEF IsLockFor, TableSize
<1>4. IsPrefixByte(b) => b \in {224, 225} /\ Code(b) \in {96, 97} /\ Code(b) \notin 1 .. TableSize - 1
  BY <1>1 DEF IsPrefixByte, PREFIX1, PREFIX2, TableSize
<1>5. CASE e.dead
  BY <1>1, <1>4, <1>5 DEF Reads, ACK, TableSize
<1>6. CASE ~e.dead
  <2>1. \/ ReadsPrefix(d, b, e) \/ ReadsModifier(d, b, e) \/ ReadsLock(d, b, e)
        \/ ReadsKey(d, b, e, T)
    BY <1>6, Zenon DEF Reads
  <2>2. CASE ReadsPrefix(d, b, e)
    BY <1>4, <1>6, <2>2 DEF ReadsPrefix, ACK
  <2>3. CASE ReadsModifier(d, b, e)
    <3>1. Code(b) \in ModCodes
      BY <2>3 DEF ReadsModifier
    <3>2. Code(b) \in 1 .. TableSize - 1 /\ ~IsLockFor(d.mods, Code(b))
      BY <1>2, <3>1, Zenon
    <3>3. b # ACK
      BY <1>1, <3>2 DEF ACK, TableSize
    <3> QED BY <1>4, <1>6, <2>3, <3>1, <3>2, <3>3, Zenon
  <2>4. CASE ReadsLock(d, b, e)
    <3>1. IsLockFor(d.mods, Code(b))
      BY <2>4 DEF ReadsLock
    <3>2. Code(b) \in 1 .. TableSize - 1 /\ Code(b) \notin ModCodes
      BY <1>1, <1>2, <1>3, <3>1, Zenon
    <3>3. b # ACK
      BY <1>1, <3>2 DEF ACK, TableSize
    <3> QED BY <1>4, <1>6, <2>4, <3>1, <3>2, <3>3, Zenon
  <2>5. CASE ReadsKey(d, b, e, T)
    <3>1. Code(b) \in 1 .. TableSize - 1 /\ Code(b) \notin ModCodes /\ ~IsLockFor(d.mods, Code(b))
      BY <2>5 DEF ReadsKey
    <3>2. b # ACK
      BY <1>1, <3>1 DEF ACK, TableSize
    <3> QED BY <1>4, <1>6, <2>5, <3>1, <3>2, Zenon
  <2> QED BY <2>1, <2>2, <2>3, <2>4, <2>5, Zenon
<1> QED BY <1>5, <1>6, Zenon

LEMMA DecodeFacts ==
  ASSUME IInv, NEW b, Read(b)
  PROVE  /\ Types /\ EventsInv /\ MouseInv /\ OrderInv /\ PressInv /\ LedInv /\ Ahead
         /\ pc = "idle" /\ out' = <<>> /\ b \in Octet
         /\ \E c, d \in Decoder : /\ Reads(Now, b, c, typed)
                                  /\ ReadsAll(c, buffer, typed, d) /\ Expected(d)
<1>1. pc = "idle" /\ out # <<>> /\ out' = <<>> /\ ~Head(out).aux /\ Head(out).byte = b
  BY Zenon DEF Read, Take
<1>2. Types /\ EventsInv /\ MouseInv /\ OrderInv /\ PressInv /\ LedInv /\ Ahead
  BY <1>1 DEF IInv, Panicked
<1>3. ~Answer
  BY <1>1 DEF Answer
<1>4. b \in Octet
  BY <1>1, <1>2, <1>3, PendingOK, Zenon
<1>5. \E c, d \in Decoder : /\ Reads(Now, b, c, typed)
                            /\ ReadsAll(c, buffer, typed, d) /\ Expected(d)
  BY <1>1, <1>2, <1>3, AheadOne, Zenon
<1> QED BY <1>1, <1>2, <1>4, <1>5, Zenon

(* The state after a byte is the one foretold. *)
LEMMA DecodeEnds ==
  ASSUME IInv, NEW b, Read(b), UNCHANGED <<hardware, typed>>, pc' \in {"idle", "led_command"},
         leds' = gather'.modifiers \cap Locks, pc' = "idle" => leds' = leds,
         Types', EventsInv', OrderInv', PressInv',
         \A c \in Decoder : Reads(Now, b, c, typed) => Now' = c
  PROVE  IInv'
<1>1. /\ Types /\ LedInv /\ pc = "idle" /\ out' = <<>>
      /\ \E c, d \in Decoder : /\ Reads(Now, b, c, typed)
                               /\ ReadsAll(c, buffer, typed, d) /\ Expected(d)
  BY DecodeFacts, Zenon
<1>2. UNCHANGED <<held, shifting, buffer, command, lamps, typed>>
  BY DEF hardware
<1>3. Ahead'
  <2>1. PICK c \in Decoder, d \in Decoder : /\ Reads(Now, b, c, typed)
                                            /\ ReadsAll(c, buffer, typed, d) /\ Expected(d)
    BY <1>1, Zenon
  <2>2. Now' = c
    BY <2>1, Zenon
  <2> QED BY <1>1, <1>2, <2>1, <2>2, AheadRead, Zenon
<1>4. LedInv'
  BY <1>1, <1>2 DEF LedInv, Answer
<1>5. MouseInv'
  BY <1>1 DEF MouseInv
<1> QED BY <1>3, <1>4, <1>5, Zenon DEF IInv

LEMMA DecoderFields ==
  /\ Now.dead = FALSE /\ Now.prefix = prefix /\ Now.n = Len(decoded)
  /\ Now.mods = gather.modifiers \ Locks
BY DEF Now

LEMMA IsLockNow ==
  ASSUME NEW code
  PROVE  IsLock(code) <=> IsLockFor(Now.mods, code)
<1>1. "CTRL_LEFT" \in Now.mods <=> "CTRL_LEFT" \in gather.modifiers
  BY DEF Now, Locks
<1> QED BY <1>1, Zenon DEF IsLock, IsLockFor, Active

LEMMA ModifierNow ==
  ASSUME NEW code \in ModCodes
  PROVE  ModifierOf(code) = ModifierFor(prefix, code) /\ ModifierOf(code) \in KeyModifiers \ Locks
BY DEF ModifierOf, ModifierFor, ModCodes, KeyModifiers, Locks

(* Nothing is decoded, read or queued.                                     *)
LEMMA NoEvent ==
  ASSUME EventsInv, OrderInv, PressInv, UNCHANGED <<typed, decoded, chars, queue>>
  PROVE  EventsInv' /\ OrderInv' /\ PressInv'
<1>1. EventsInv'
  BY DEF EventsInv
<1>2. OrderInv'
  BY ZenonT(30) DEF OrderInv
<1>3. PressInv'
  BY DEF PressInv
<1> QED BY <1>1, <1>2, <1>3

LEMMA DecodeTypes ==
  ASSUME Types, DriverTypes', out' = <<>>,
         UNCHANGED <<queue, decoded, chars, held, shifting, buffer, typed, lamps, command>>
  PROVE  Types'
<1>1. EventTypes' /\ LampTypes'
  BY DEF Types, EventTypes, LampTypes
<1>2. KeyTypes'
  BY DEF Types, KeyTypes, IsPause
<1> QED BY <1>1, <1>2 DEF Types, OutTypes

LEMMA DecodePrefixIInv ==
  ASSUME IInv, NEW b, DecodePrefix(b)
  PROVE  IInv'
<1>1. /\ Read(b) /\ IsPrefixByte(b) /\ prefix' = b /\ out' = <<>>
      /\ UNCHANGED <<gather, leds, queue, pc, hardware, history>>
  BY DEF DecodePrefix, Read, Take
<1>2. /\ Types /\ EventsInv /\ OrderInv /\ PressInv /\ LedInv /\ pc = "idle" /\ b \in Octet
  BY <1>1, DecodeFacts, Zenon
<1>3. UNCHANGED <<typed, decoded, chars, held, shifting, buffer, command, lamps>>
  BY <1>1 DEF history, hardware
<1>4. Types'
  <2>1. DriverTypes'
    BY <1>1, <1>2 DEF Types, DriverTypes, IsPrefixByte
  <2> QED BY <1>1, <1>2, <1>3, <2>1, DecodeTypes
<1>5. EventsInv' /\ OrderInv' /\ PressInv'
  BY <1>1, <1>2, <1>3, NoEvent
<1>6. ASSUME NEW c \in Decoder, Reads(Now, b, c, typed)
      PROVE  Now' = c
  <2>1. Now \in Decoder /\ Now' \in Decoder
    BY <1>2, <1>4, NowOK, NextNowOK
  <2>2. ~c.dead /\ ReadsPrefix(Now, b, c)
    BY ZenonT(30), <1>1, <1>2, <1>6, <2>1, DecoderFields, WhichRead
  <2>3. Now'.prefix = b /\ Now'.mods = Now.mods /\ Now'.n = Now.n /\ Now'.dead = FALSE
    BY <1>1, <1>3 DEF Now
  <2>4. c.dead = FALSE
    BY <2>2, Alive
  <2>5. c.prefix = b /\ c.mods = Now.mods /\ c.n = Now.n
    BY <2>2, Zenon DEF ReadsPrefix
  <2> QED BY <1>6, <2>1, <2>3, <2>4, <2>5, SameDecoder, Zenon
<1>7. leds' = gather'.modifiers \cap Locks
  BY <1>1, <1>2 DEF LedInv
<1> QED BY <1>1, <1>2, <1>3, <1>4, <1>5, <1>6, <1>7, DecodeEnds

LEMMA DecodeModifierIInv ==
  ASSUME IInv, NEW b, DecodeModifier(b)
  PROVE  IInv'
<1> DEFINE m == ModifierOf(Code(b))
           mods == IF IsBreak(b) THEN gather.modifiers \ {m} ELSE gather.modifiers \cup {m}
<1>1. /\ Read(b) /\ ~IsPrefixByte(b) /\ Code(b) \in ModCodes /\ prefix' = 0 /\ out' = <<>>
      /\ gather' = [gather EXCEPT !.modifiers = mods]
      /\ UNCHANGED <<leds, queue, pc, hardware, history>>
  BY DEF DecodeModifier, Read, Take, ModCodes
<1>2. /\ Types /\ EventsInv /\ OrderInv /\ PressInv /\ LedInv /\ pc = "idle" /\ b \in Octet
  BY <1>1, DecodeFacts, Zenon
<1>3. UNCHANGED <<typed, decoded, chars, held, shifting, buffer, command, lamps>>
  BY <1>1 DEF history, hardware
<1>4. m = ModifierFor(prefix, Code(b)) /\ m \in KeyModifiers \ Locks
  BY <1>1, ModifierNow
<1>5. gather \in KeyEvent /\ gather.modifiers \in SUBSET KeyModifiers
  BY <1>2 DEF Types, DriverTypes, KeyEvent
<1> HIDE DEF m
<1>6. /\ mods \in SUBSET KeyModifiers /\ mods \cap Locks = gather.modifiers \cap Locks
      /\ mods \ Locks = IF IsBreak(b) THEN (gather.modifiers \ Locks) \ {m}
                        ELSE (gather.modifiers \ Locks) \cup {m}
  BY <1>4, <1>5
<1> HIDE DEF mods
<1>7. gather' \in KeyEvent /\ gather'.modifiers = mods /\ gather'.ascii = gather.ascii
  BY <1>1, <1>5, <1>6, SetModifiers, Zenon
<1>8. Types'
  <2>1. DriverTypes'
    BY <1>1, <1>2, <1>7 DEF Types, DriverTypes
  <2> QED BY <1>1, <1>2, <1>3, <2>1, DecodeTypes
<1>9. EventsInv' /\ OrderInv' /\ PressInv'
  BY <1>1, <1>2, <1>3, <1>7, NoEvent
<1>10. ASSUME NEW c \in Decoder, Reads(Now, b, c, typed)
       PROVE  Now' = c
  <2>1. Now \in Decoder /\ Now' \in Decoder
    BY <1>2, <1>8, NowOK, NextNowOK
  <2>2. Code(b) < TableSize
    BY <1>1 DEF ModCodes, TableSize
  <2>3. ~c.dead /\ ReadsModifier(Now, b, c)
    <3>1. ~(Code(b) >= TableSize)
      BY <1>1, <2>2 DEF ModCodes, TableSize
    <3> QED BY <1>1, <1>2, <1>10, <2>1, <3>1, DecoderFields, WhichRead, Zenon
  <2>4. Now'.prefix = 0 /\ Now'.mods = mods \ Locks /\ Now'.n = Now.n /\ Now'.dead = FALSE
    BY <1>1, <1>3, <1>7 DEF Now
  <2>5. c.dead = FALSE
    BY <2>3, Alive
  <2>6. c.mods = mods \ Locks
    BY <1>4, <1>6, <2>3, DecoderFields, Zenon DEF ReadsModifier
  <2>7. c.prefix = 0 /\ c.n = Now.n
    BY <2>3, Zenon DEF ReadsModifier
  <2> QED BY <1>10, <2>1, <2>4, <2>5, <2>6, <2>7, SameDecoder, Zenon
<1>11. leds' = gather'.modifiers \cap Locks
  BY <1>1, <1>2, <1>6, <1>7 DEF LedInv
<1> QED BY <1>1, <1>2, <1>3, <1>8, <1>9, <1>10, <1>11, DecodeEnds

LEMMA LockOfOK ==
  ASSUME NEW code, IsLock(code)
  PROVE  LockOf(code) \in Locks
BY DEF LockOf, IsLock, Locks

LEMMA DecodeLockIInv ==
  ASSUME IInv, NEW b, DecodeLock(b)
  PROVE  IInv'
<1> DEFINE l == LockOf(Code(b))
           mods == IF Active(l) THEN gather.modifiers \ {l} ELSE gather.modifiers \cup {l}
<1>1. /\ Read(b) /\ ~IsPrefixByte(b) /\ IsLock(Code(b)) /\ prefix' = 0 /\ out' = <<>>
      /\ \/ UNCHANGED <<gather, leds, pc>>
         \/ /\ gather' = [gather EXCEPT !.modifiers = mods]
            /\ leds' = (IF l \in mods THEN leds \cup {l} ELSE leds \ {l})
            /\ pc' = "led_command"
      /\ UNCHANGED <<queue, hardware, history>>
  BY Zenon DEF DecodeLock, Read, Take
<1>2. /\ Types /\ EventsInv /\ OrderInv /\ PressInv /\ LedInv /\ pc = "idle" /\ b \in Octet
  BY <1>1, DecodeFacts, Zenon
<1>3. UNCHANGED <<typed, decoded, chars, held, shifting, buffer, command, lamps>>
  BY <1>1 DEF history, hardware
<1>4. l \in Locks
  BY <1>1, LockOfOK
<1>5. gather \in KeyEvent /\ gather.modifiers \in SUBSET KeyModifiers
      /\ leds = gather.modifiers \cap Locks /\ Locks \subseteq KeyModifiers
  BY <1>2 DEF Types, DriverTypes, KeyEvent, LedInv, KeyModifiers
<1>6. /\ mods \in SUBSET KeyModifiers /\ mods \ Locks = gather.modifiers \ Locks
      /\ (IF l \in mods THEN leds \cup {l} ELSE leds \ {l}) = mods \cap Locks
  <2> HIDE DEF l
  <2>1. CASE l \in gather.modifiers
    BY <1>4, <1>5, <2>1 DEF Active
  <2>2. CASE l \notin gather.modifiers
    BY <1>4, <1>5, <2>2 DEF Active
  <2> QED BY <2>1, <2>2
<1> HIDE DEF l, mods
<1>7. /\ gather' \in KeyEvent /\ gather'.ascii = gather.ascii
      /\ gather'.modifiers \ Locks = gather.modifiers \ Locks
      /\ leds' = gather'.modifiers \cap Locks /\ pc' \in {"idle", "led_command"}
      /\ pc' = "idle" => leds' = leds
  <2>1. CASE UNCHANGED <<gather, leds, pc>>
    BY <1>2, <1>5, <2>1
  <2>2. CASE /\ gather' = [gather EXCEPT !.modifiers = mods]
             /\ leds' = (IF l \in mods THEN leds \cup {l} ELSE leds \ {l})
             /\ pc' = "led_command"
    <3>1. gather' \in KeyEvent /\ gather'.modifiers = mods /\ gather'.ascii = gather.ascii
      BY <1>5, <1>6, <2>2, SetModifiers, Zenon
    <3> QED BY <1>6, <2>2, <3>1, Zenon
  <2> QED BY <1>1, <2>1, <2>2
<1>8. Types'
  <2>1. DriverTypes'
    BY <1>1, <1>7 DEF DriverTypes
  <2> QED BY <1>1, <1>2, <1>3, <2>1, DecodeTypes
<1>9. EventsInv' /\ OrderInv' /\ PressInv'
  BY <1>1, <1>2, <1>3, <1>7, NoEvent
<1>10. ASSUME NEW c \in Decoder, Reads(Now, b, c, typed)
       PROVE  Now' = c
  <2>1. Now \in Decoder /\ Now' \in Decoder
    BY <1>2, <1>8, NowOK, NextNowOK
  <2>2. ~(Code(b) >= TableSize)
    BY <1>1 DEF IsLock, TableSize
  <2>3. ~c.dead /\ ReadsLock(Now, b, c)
    BY <1>1, <1>2, <1>10, <2>1, <2>2, DecoderFields, IsLockNow, WhichRead, Zenon
  <2>4. Now'.prefix = 0 /\ Now'.mods = Now.mods /\ Now'.n = Now.n /\ Now'.dead = FALSE
    BY <1>1, <1>3, <1>7 DEF Now
  <2>5. c.dead = FALSE
    BY <2>3, Alive
  <2>6. c.prefix = 0 /\ c.mods = Now.mods /\ c.n = Now.n
    BY <2>3, Zenon DEF ReadsLock
  <2> QED BY <1>10, <2>1, <2>4, <2>5, <2>6, SameDecoder, Zenon
<1> QED BY <1>1, <1>2, <1>3, <1>7, <1>8, <1>9, <1>10, DecodeEnds

(* A new event comes after all those read or queued. *)
LEMMA KeyOrder ==
  ASSUME EventTypes, OrderInv, NEW x \in Coded, decoded' = Append(decoded, x),
         PushKeyEvent(x), chars' = chars
  PROVE  OrderInv'
<1> DEFINE n == Len(decoded)
           D == Append(decoded, x)
<1>1. PICK f, g : /\ Placed(f, chars, decoded) /\ Placed(g, queue, decoded)
                  /\ \A i \in 1 .. Len(chars), j \in 1 .. Len(queue) : f[i] < g[j]
  BY Zenon DEF OrderInv
<1>2. queue \in Seq(Coded) /\ chars \in Seq(Coded) /\ decoded \in Seq(Coded)
  BY DEF EventTypes
<1>3. D \in Seq(Coded) /\ n \in Nat /\ Len(D) = n + 1 /\ D[n + 1] = x
  BY <1>2, Appended
<1>4. Placed(f, chars, D) /\ Placed(g, queue, D)
  BY <1>1, <1>2, PlacedInMore
<1>5. /\ \A i \in 1 .. Len(chars) : f[i] < n + 1
      /\ \A i \in 1 .. Len(queue) : g[i] < n + 1
  BY <1>1, <1>2, PlacedLast, Zenon
<1> HIDE DEF n, D
<1>6. CASE queue' = queue
  BY <1>1, <1>4, <1>6, Zenon DEF OrderInv, D
<1>7. CASE queue' = Append(queue, x)
  <2>1. Placed(g, queue, decoded)
    BY <1>1, Zenon
  <2>2. PICK h : /\ Placed(h, Append(queue, x), D) /\ h[Len(queue) + 1] = n + 1
                 /\ \A i \in 1 .. Len(queue) : h[i] = g[i]
    <3>1. \E h : /\ Placed(h, Append(queue, x), Append(decoded, x))
                /\ h[Len(queue) + 1] = Len(decoded) + 1
                /\ \A i \in 1 .. Len(queue) : h[i] = g[i]
      BY <1>2, <2>1, PlacedLast
    <3> QED BY <3>1, Zenon DEF n, D
  <2>3. Len(queue) \in Nat /\ Len(queue') = Len(queue) + 1
    BY <1>2, <1>7, Appended
  <2>4. ASSUME NEW i \in 1 .. Len(chars), NEW j \in 1 .. Len(queue')
        PROVE  f[i] < h[j]
    <3>1. CASE j = Len(queue) + 1
      BY <1>5, <2>2, <3>1
    <3>2. CASE j # Len(queue) + 1
      <4>1. j \in 1 .. Len(queue)
        BY <2>3, <3>2
      <4> QED BY <1>1, <2>2, <4>1
    <3> QED BY <3>1, <3>2
  <2> QED BY <1>4, <1>7, <2>2, <2>4, Zenon DEF OrderInv, D
<1> QED BY <1>6, <1>7 DEF PushKeyEvent

LEMMA KeyEvents ==
  ASSUME EventsInv, NEW x \in Coded, decoded \in Seq(Coded), decoded' = Append(decoded, x),
         Len(typed) \in Nat, typed' = typed, Len(decoded) + 1 <= Len(typed),
         Decodes(typed[Len(decoded) + 1], x)
  PROVE  EventsInv'
<1> DEFINE n == Len(decoded)
<1>1. /\ n \in Nat /\ Len(decoded') = n + 1 /\ decoded'[n + 1] = x
      /\ \A i \in 1 .. n : decoded'[i] = decoded[i]
  BY Appended
<1>2. ASSUME NEW i \in 1 .. n + 1
      PROVE  Decodes(typed[i], decoded'[i])
  <2>1. CASE i = n + 1
    BY <1>1, <2>1, Zenon
  <2>2. CASE i # n + 1
    <3>1. i \in 1 .. n
      BY <1>1, <2>2
    <3>2. decoded'[i] = decoded[i]
      BY <1>1, <3>1, Zenon
    <3> QED BY <3>1, <3>2, Zenon DEF EventsInv
  <2> QED BY <2>1, <2>2
<1> QED BY <1>1, <1>2, Zenon DEF EventsInv

LEMMA PushTypes ==
  ASSUME EventTypes, NEW x \in Coded, PushKeyEvent(x), decoded' = Append(decoded, x), chars' = chars
  PROVE  EventTypes'
<1>1. queue \in Seq(Coded) /\ Len(queue) \in Nat /\ QueueCapacity \in Nat /\ Len(queue) <= QueueCapacity
  BY KeyboardAssumption DEF EventTypes
<1>2. decoded' \in Seq(Coded) /\ chars' \in Seq(Coded)
  BY Appended DEF EventTypes
<1>3. Append(queue, x) \in Seq(Coded) /\ Len(Append(queue, x)) = Len(queue) + 1
  BY <1>1, Appended
<1>4. queue' \in Seq(Coded) /\ Len(queue') <= QueueCapacity
  BY <1>1, <1>3 DEF PushKeyEvent
<1> QED BY <1>2, <1>4 DEF EventTypes

LEMMA DecodeKeyIInv ==
  ASSUME IInv, NEW b, DecodeKey(b)
  PROVE  IInv'
<1> DEFINE event == ParsedEvent(Code(b), ~IsBreak(b))
           x == [code |-> Code(b), event |-> event]
<1>1. /\ Read(b) /\ ~IsPrefixByte(b) /\ IsKey(Code(b)) /\ Code(b) < TableSize
      /\ prefix' = 0 /\ out' = <<>> /\ gather' = event
      /\ PushKeyEvent(x) /\ decoded' = Append(decoded, x)
      /\ UNCHANGED <<leds, pc, hardware, typed, chars>>
  BY Zenon DEF DecodeKey, Read, Take
<1>2. /\ Types /\ EventsInv /\ OrderInv /\ PressInv /\ LedInv /\ pc = "idle" /\ b \in Octet
      /\ \E c \in Decoder : Reads(Now, b, c, typed)
  BY <1>1, DecodeFacts, Zenon
<1>3. UNCHANGED <<held, shifting, buffer, command, lamps>>
  BY <1>1 DEF hardware
<1>4. Code(b) \notin ModCodes /\ ~IsLockFor(Now.mods, Code(b)) /\ ~(Code(b) >= TableSize)
  <2>1. Code(b) \notin ModCodes /\ ~IsLockFor(Now.mods, Code(b))
    BY <1>1, IsLockNow, Zenon DEF IsKey, ModCodes
  <2>2. Code(b) \in 0 .. 127
    BY <1>2, CodeOf, Zenon
  <2>3. \A code \in 0 .. 127 : code < TableSize => ~(code >= TableSize)
    BY DEF TableSize
  <2> QED BY <1>1, <2>1, <2>2, <2>3, Zenon
<1>5. Now \in Decoder /\ Len(decoded) \in Nat /\ Len(typed) \in Nat
  BY <1>2, NowOK
<1>6. ASSUME NEW c \in Decoder, Reads(Now, b, c, typed)
      PROVE  c.dead = FALSE /\ ReadsKey(Now, b, c, typed) /\ Code(b) \in 1 .. TableSize - 1
  <2>1. ~c.dead /\ ReadsKey(Now, b, c, typed) /\ Code(b) \in 1 .. TableSize - 1
    BY <1>1, <1>2, <1>4, <1>5, <1>6, DecoderFields, WhichRead, Zenon
  <2>2. c.dead = FALSE
    BY <2>1, Alive
  <2> QED BY <2>1, <2>2
<1>7. /\ Code(b) \in 1 .. TableSize - 1 /\ Len(decoded) + 1 <= Len(typed)
      /\ typed[Len(decoded) + 1] = [code |-> Code(b), pressed |-> ~IsBreak(b), prefix |-> prefix]
  <2>1. PICK c \in Decoder : Reads(Now, b, c, typed)
    BY <1>2, Zenon
  <2>2. ReadsKey(Now, b, c, typed) /\ Code(b) \in 1 .. TableSize - 1
    BY <1>6, <2>1, Zenon
  <2>3. c.n = Len(decoded) + 1
    BY <2>2, DecoderFields, Zenon DEF ReadsKey
  <2> QED BY <2>2, <2>3, DecoderFields, Zenon DEF ReadsKey
<1>8. /\ event \in KeyEvent /\ event.modifiers = gather.modifiers
      /\ Decodes(typed[Len(decoded) + 1], x)
  <2>1. gather \in KeyEvent /\ (~IsBreak(b)) \in BOOLEAN
    BY SMTT(30), <1>2 DEF Types, DriverTypes
  <2> QED BY <1>7, <2>1, ParsedOK, Zenon
<1> HIDE DEF event
<1>9. x \in Coded /\ x.code = Code(b) /\ x.event = event
  BY <1>7, <1>8 DEF Coded, TableSize
<1> HIDE DEF x
<1>10. Types'
  <2>1. EventTypes'
    BY <1>1, <1>2, <1>9, PushTypes, Zenon DEF Types
  <2>2. DriverTypes'
    BY <1>1, <1>2, <1>8 DEF Types, DriverTypes
  <2>3. KeyTypes'
    BY <1>1, <1>2, <1>3 DEF Types, KeyTypes, IsPause
  <2>4. LampTypes' /\ OutTypes'
    BY <1>1, <1>2, <1>3 DEF Types, LampTypes, OutTypes
  <2> QED BY <2>1, <2>2, <2>3, <2>4, Zenon DEF Types
<1>11. EventTypes /\ decoded \in Seq(Coded)
  BY <1>2 DEF Types, EventTypes
<1>12. OrderInv' /\ PressInv'
  <2>1. PressInv'
    BY ZenonT(30), <1>1, <1>2 DEF PressInv
  <2> QED BY ZenonT(30), <1>1, <1>2, <1>9, <1>11, <2>1, KeyOrder
<1>13. EventsInv'
  BY <1>1, <1>2, <1>5, <1>7, <1>8, <1>9, <1>11, KeyEvents, Zenon
<1>14. ASSUME NEW c \in Decoder, Reads(Now, b, c, typed)
       PROVE  Now' = c
  <2>1. Now' \in Decoder
    BY <1>10, NextNowOK
  <2>2. c.dead = FALSE /\ c.prefix = 0 /\ c.mods = Now.mods /\ c.n = Len(decoded) + 1
    BY ZenonT(30), <1>6, <1>14, DecoderFields DEF ReadsKey
  <2>3. Len(decoded') = Len(decoded) + 1
    BY ZenonT(30), <1>1, <1>9, <1>11, Appended
  <2>4. Now'.prefix = 0 /\ Now'.mods = Now.mods /\ Now'.n = Len(decoded) + 1 /\ Now'.dead = FALSE
    BY ZenonT(30), SMTT(30), <1>1, <1>8, <2>3 DEF Now
  <2> QED BY <1>14, <2>1, <2>2, <2>4, SameDecoder, Zenon
<1>15. leds' = gather'.modifiers \cap Locks /\ pc' = "idle" /\ leds' = leds
  BY <1>1, <1>2, <1>8 DEF LedInv
<1> QED BY <1>1, <1>10, <1>12, <1>13, <1>14, <1>15, DecodeEnds

LEMMA DecodePanicsIInv ==
  ASSUME IInv, NEW b, DecodePanics(b)
  PROVE  IInv'
<1>1. /\ Read(b) /\ prefix' = 0 /\ out' = <<>> /\ pc' = "panic_index"
      /\ UNCHANGED <<gather, leds, queue, hardware, history>>
  BY DEF DecodePanics, Read, Take
<1>2. /\ Types /\ EventsInv /\ OrderInv /\ PressInv
  BY <1>1, DecodeFacts, Zenon
<1>3. UNCHANGED <<typed, decoded, chars, held, shifting, buffer, command, lamps>>
  BY <1>1 DEF history, hardware
<1>4. Types'
  <2>1. DriverTypes'
    BY <1>1, <1>2 DEF Types, DriverTypes
  <2> QED BY <1>1, <1>2, <1>3, <2>1, DecodeTypes
<1>5. EventsInv' /\ OrderInv' /\ PressInv'
  BY <1>1, <1>2, <1>3, NoEvent
<1>6. MouseInv' /\ Panicked'
  BY <1>1 DEF MouseInv, Panicked
<1> QED BY <1>4, <1>5, <1>6, Zenon DEF IInv

LEMMA IgnoreMouseIInv ==
  ASSUME IInv, IgnoreMouse
  PROVE  IInv'
<1>1. /\ pc = "idle" /\ out # <<>> /\ Head(out).aux /\ out' = <<>>
      /\ UNCHANGED <<driver, queue, pc, hardware, history>>
  BY DEF IgnoreMouse, Take
<1>2. /\ Types /\ EventsInv /\ OrderInv /\ PressInv /\ LedInv /\ Ahead
  BY <1>1 DEF IInv, Panicked
<1>3. UNCHANGED <<prefix, gather, leds, typed, decoded, chars, held, shifting, buffer, command, lamps>>
  BY <1>1 DEF history, hardware, driver
<1>4. Types'
  <2>1. DriverTypes'
    BY <1>1, <1>2, <1>3 DEF Types, DriverTypes
  <2> QED BY <1>1, <1>2, <1>3, <2>1, DecodeTypes
<1>5. EventsInv' /\ OrderInv' /\ PressInv'
  BY <1>1, <1>2, <1>3, NoEvent
<1>6. Ahead'
  <2>1. Pending = buffer
    BY <1>1, <1>2, PendingOK, Zenon
  <2>2. Pending' = <<>> \o buffer
    BY <1>1, <1>3, Zenon DEF Pending
  <2>3. Pending' = buffer
    BY <1>2, <2>2, JoinEmpty, PendingOK, Zenon
  <2>4. Now' = Now
    BY <1>3 DEF Now
  <2> QED BY <1>2, <1>3, <2>1, <2>3, <2>4, AheadKept
<1>7. LedInv' /\ MouseInv'
  BY <1>1, <1>2, <1>3 DEF LedInv, MouseInv, Answer
<1> QED BY <1>4, <1>5, <1>6, <1>7, Zenon DEF IInv
-----------------------------------------------------------------------------
(* set_led and poll_char *)

(* A step of the dialogue or of the controller that keeps the keys and the *)
(* events: what remains is the dialogue, and that no byte is lost.         *)
LEMMA OtherIInv ==
  ASSUME IInv, DriverTypes', LampTypes', OutTypes', MouseInv',
         UNCHANGED <<driver, queue, held, shifting, buffer, typed, decoded, chars>>,
         ~Panicked' => ~Panicked /\ LedInv' /\ Pending' = Pending
  PROVE  IInv'
<1>1. UNCHANGED <<prefix, gather, leds>>
  BY DEF driver
<1>2. Types /\ EventsInv /\ OrderInv /\ PressInv /\ (~Panicked => Ahead)
  BY DEF IInv
<1>3. Types'
  <2>1. EventTypes'
    BY <1>2 DEF Types, EventTypes
  <2>2. KeyTypes'
    BY <1>2 DEF Types, KeyTypes, IsPause
  <2> QED BY <2>1, <2>2, Zenon DEF Types
<1>4. EventsInv' /\ OrderInv' /\ PressInv'
  BY <1>1, <1>2, NoEvent
<1>5. ASSUME ~Panicked' PROVE Ahead'
  <2>1. Now' = Now
    BY <1>1 DEF Now
  <2> QED BY <1>2, <1>5, <2>1, AheadKept
<1> QED BY <1>3, <1>4, <1>5, Zenon DEF IInv

LEMMA LedSendIInv ==
  ASSUME IInv, SetLedCommand \/ SetLedData
  PROVE  IInv'
<1>1. /\ UNCHANGED <<driver, queue, held, shifting, buffer, lamps, out, history>>
      /\ \/ pc = "led_command" /\ command' = "set_led" /\ pc' = "ack_command"
         \/ pc = "led_data" /\ command' = "data" /\ pc' = "ack_data"
  BY DEF SetLedCommand, SetLedData, LedSend
<1>2. UNCHANGED <<typed, decoded, chars, prefix, gather, leds>>
  BY <1>1 DEF history, driver
<1>3. ~Panicked /\ ~Panicked'
  BY <1>1 DEF Panicked
<1>4. Types /\ MouseInv /\ LedInv
  BY <1>3, Zenon DEF IInv
<1>5. DriverTypes' /\ LampTypes'
  BY <1>1, <1>2, <1>4 DEF Types, DriverTypes, LampTypes
<1>6. OutTypes' /\ MouseInv'
  BY <1>1, <1>4 DEF Types, OutTypes, MouseInv
<1>7. ~Answer /\ ~Answer'
  BY <1>1 DEF Answer
<1>8. LedInv'
  BY <1>1, <1>2, <1>4, <1>7 DEF LedInv
<1>9. Pending' = Pending
  BY <1>1, <1>7 DEF Pending
<1> QED BY <1>1, <1>2, <1>3, <1>5, <1>6, <1>8, <1>9, OtherIInv, Zenon

(* Only the keyboard's answer is taken for one. *)
LEMMA OnlyAnswers ==
  ASSUME Types, MouseInv, LedInv, Ahead, out # <<>>, Head(out).byte = ACK
  PROVE  Answer
<1> SUFFICES ASSUME ~Answer PROVE FALSE
  OBVIOUS
<1>1. ~Head(out).aux
  BY DEF MouseInv
<1>2. PICK c \in Decoder : Reads(Now, Head(out).byte, c, typed)
  BY <1>1, AheadOne, Zenon
<1>3. Head(out).byte \in Octet /\ Now \in Decoder /\ ~Now.dead
  BY <1>1, PendingOK, NowOK, DecoderFields, Zenon
<1> QED BY <1>2, <1>3, WhichRead, Zenon

LEMMA SetLedAnswerIInv ==
  ASSUME IInv, SetLedAnswer
  PROVE  IInv'
<1>1. /\ pc \in {"ack_command", "ack_data"} /\ out # <<>> /\ out' = <<>>
      /\ pc' = (IF Head(out).byte # ACK THEN "panic_answer"
                ELSE IF pc = "ack_command" THEN "led_data" ELSE "idle")
      /\ UNCHANGED <<driver, queue, hardware, history>>
  BY DEF SetLedAnswer
<1>2. /\ UNCHANGED <<typed, decoded, chars, prefix, gather, leds>>
      /\ UNCHANGED <<held, shifting, buffer, command, lamps>>
  BY <1>1 DEF history, driver, hardware
<1>3. ~Panicked
  BY <1>1 DEF Panicked
<1>4. Types /\ MouseInv /\ LedInv /\ Ahead
  BY <1>3, Zenon DEF IInv
<1>5. DriverTypes' /\ LampTypes'
  BY <1>1, <1>2, <1>4 DEF Types, DriverTypes, LampTypes
<1>6. OutTypes' /\ MouseInv'
  BY <1>1 DEF OutTypes, MouseInv
<1>7. ASSUME ~Panicked'
      PROVE  LedInv' /\ Pending' = Pending
  <2>1. Head(out).byte = ACK
    BY <1>1, <1>7 DEF Panicked
  <2>2. Answer
    BY <1>1, <1>4, <2>1, OnlyAnswers, Zenon
  <2>3. ~Answer'
    BY <1>1, <2>1 DEF Answer
  <2>4. LedInv'
    BY <1>1, <1>2, <1>4, <2>1, <2>2, <2>3 DEF LedInv, Answer
  <2>5. Pending = <<>> \o buffer /\ Pending' = <<>> \o buffer
    BY <1>1, <1>2, <2>2, Zenon DEF Pending
  <2> QED BY <2>4, <2>5
<1> QED BY <1>1, <1>2, <1>3, <1>5, <1>6, <1>7, OtherIInv, Zenon

LEMMA PollCharIInv ==
  ASSUME IInv, PollChar
  PROVE  IInv'
<1> DEFINE e == Head(queue)
<1>1. /\ pc = "idle" /\ queue # <<>> /\ queue' = Tail(queue)
      /\ \/ chars' = chars
         \/ e.event.pressed /\ e.event.ascii # 0 /\ chars' = Append(chars, e)
      /\ UNCHANGED <<driver, pc, hardware, out, typed, decoded>>
  BY Zenon DEF PollChar, None
<1>2. /\ Types /\ EventsInv /\ MouseInv /\ OrderInv /\ PressInv /\ LedInv /\ Ahead
      /\ ~Panicked /\ ~Panicked'
  BY <1>1 DEF IInv, Panicked
<1>3. /\ UNCHANGED <<prefix, gather, leds, held, shifting, buffer, command, lamps>>
  BY <1>1 DEF driver, hardware
<1>4. /\ queue \in Seq(Coded) /\ Len(queue) <= QueueCapacity
      /\ decoded \in Seq(Coded) /\ chars \in Seq(Coded)
  BY <1>2 DEF Types, EventTypes
<1>5. e \in Coded /\ Tail(queue) \in Seq(Coded) /\ Len(Tail(queue)) = Len(queue) - 1
  BY <1>1, <1>4, HeadAndTail
<1>6. /\ Append(chars, e) \in Seq(Coded) /\ Len(Append(chars, e)) = Len(chars) + 1
      /\ Append(chars, e)[Len(chars) + 1] = e
      /\ \A i \in 1 .. Len(chars) : Append(chars, e)[i] = chars[i]
  BY <1>4, <1>5, Appended
<1> HIDE DEF e
<1>7. Types'
  <2>1. Len(Tail(queue)) <= QueueCapacity
    <3>1. QueueCapacity \in Nat
      BY KeyboardAssumption
    <3> QED BY <1>4, <1>5, <3>1
  <2>2. EventTypes'
    <3>1. chars' \in Seq(Coded)
      BY <1>1, <1>4, <1>6, Zenon
    <3> QED BY <1>1, <1>4, <1>5, <2>1, <3>1, Zenon DEF EventTypes
  <2>3. DriverTypes' /\ LampTypes' /\ OutTypes'
    BY <1>1, <1>2, <1>3 DEF Types, DriverTypes, LampTypes, OutTypes
  <2>4. KeyTypes'
    BY ZenonT(30), SMTT(30), <1>1, <1>2, <1>3 DEF Types, KeyTypes, IsPause
  <2> QED BY <2>2, <2>3, <2>4, Zenon DEF Types
<1>8. EventsInv' /\ MouseInv'
  BY <1>1, <1>2, <1>3 DEF EventsInv, MouseInv
<1>9. PressInv'
  <2>1. CASE chars' = chars
    BY <1>2, <2>1 DEF PressInv
  <2>2. CASE e.event.pressed /\ e.event.ascii # 0 /\ chars' = Append(chars, e)
    <3>1. ASSUME NEW i \in 1 .. Len(chars) + 1
          PROVE  Append(chars, e)[i].event.pressed /\ Append(chars, e)[i].event.ascii # 0
      <4>1. CASE i = Len(chars) + 1
        BY <1>6, <2>2, <4>1, Zenon
      <4>2. CASE i # Len(chars) + 1
        <5>1. i \in 1 .. Len(chars)
          BY <1>4, <4>2
        <5> QED BY <1>2, <1>6, <5>1, Zenon DEF PressInv
      <4> QED BY <4>1, <4>2, Zenon
    <3> QED BY <1>6, <2>2, <3>1, Zenon DEF PressInv
  <2> QED BY <1>1, <2>1, <2>2
<1>10. OrderInv'
  <2>1. PICK f, g : /\ Placed(f, chars, decoded) /\ Placed(g, queue, decoded)
                    /\ \A i \in 1 .. Len(chars), j \in 1 .. Len(queue) : f[i] < g[j]
    BY <1>2, Zenon DEF OrderInv
  <2>2. PICK h : /\ Placed(h, Tail(queue), decoded) /\ g[1] \in 1 .. Len(decoded)
                 /\ Head(queue) = decoded[g[1]]
                 /\ \A i \in 1 .. Len(Tail(queue)) : g[1] < h[i]
                 /\ \A i \in 1 .. Len(Tail(queue)) : i + 1 \in 1 .. Len(queue) /\ h[i] = g[i + 1]
    <3>1. Placed(g, queue, decoded) /\ queue # <<>>
      BY <1>1, <2>1, Zenon
    <3> QED BY <1>4, <3>1, PlacedTail
  <2>3. CASE chars' = chars
    <3>1. \A i \in 1 .. Len(chars), j \in 1 .. Len(Tail(queue)) : f[i] < h[j]
      BY <2>1, <2>2, Zenon
    <3> QED BY <1>1, <2>1, <2>2, <2>3, <3>1, Zenon DEF OrderInv
  <2>4. CASE e.event.pressed /\ e.event.ascii # 0 /\ chars' = Append(chars, e)
    <3>1. 1 \in 1 .. Len(queue)
      BY <1>1, <1>4, Emptiness
    <3>2. PICK k : /\ Placed(k, Append(chars, decoded[g[1]]), decoded) /\ k[Len(chars) + 1] = g[1]
                   /\ \A i \in 1 .. Len(chars) : k[i] = f[i]
      <4> DEFINE p == g[1]
      <4>1. Placed(f, chars, decoded) /\ p \in 1 .. Len(decoded)
        BY <2>1, <2>2, Zenon
      <4>2. \A i \in 1 .. Len(chars) : f[i] < p
        BY <2>1, <3>1, Zenon
      <4> HIDE DEF p
      <4>3. \E k : /\ Placed(k, Append(chars, decoded[p]), decoded) /\ k[Len(chars) + 1] = p
                  /\ \A i \in 1 .. Len(chars) : k[i] = f[i]
        BY <1>4, <4>1, <4>2, PlacedOneMore
      <4> QED BY <4>3, Zenon DEF p
    <3>3. Placed(k, chars', decoded)
      BY <2>2, <2>4, <3>2, Zenon DEF e
    <3>4. ASSUME NEW i \in 1 .. Len(chars'), NEW j \in 1 .. Len(Tail(queue))
          PROVE  k[i] < h[j]
      <4>1. CASE i = Len(chars) + 1
        BY <2>2, <3>2, <4>1, Zenon
      <4>2. CASE i # Len(chars) + 1
        <5>1. i \in 1 .. Len(chars)
          BY <1>4, <1>6, <2>4, <4>2
        <5> QED BY <2>1, <2>2, <3>2, <5>1, Zenon
      <4> QED BY <4>1, <4>2, Zenon
    <3> QED BY <1>1, <2>2, <3>3, <3>4, Zenon DEF OrderInv
  <2> QED BY <1>1, <2>3, <2>4
<1>11. Ahead'
  <2>1. Now' = Now
    BY <1>1, <1>3 DEF Now
  <2>2. Pending' = Pending
    BY <1>1, <1>3 DEF Pending, Answer
  <2> QED BY SMTT(30), <1>1, <1>2, <1>3, <2>1, <2>2, AheadKept
<1>12. LedInv'
  BY <1>1, <1>2, <1>3 DEF LedInv, Answer
<1> QED BY <1>7, <1>8, <1>9, <1>10, <1>11, <1>12, Zenon DEF IInv
-----------------------------------------------------------------------------
(* Keyboard and controller *)

LEMMA SendByteIInv ==
  ASSUME IInv, SendByte
  PROVE  IInv'
<1>1. /\ buffer # <<>> /\ out = <<>> /\ command = "none"
      /\ out' = <<[byte |-> Head(buffer), aux |-> FALSE]>> /\ buffer' = Tail(buffer)
      /\ UNCHANGED <<driver, queue, pc, held, shifting, command, lamps, history>>
  BY DEF SendByte
<1>2. UNCHANGED <<typed, decoded, chars, prefix, gather, leds>>
  BY <1>1 DEF history, driver
<1>3. /\ Types /\ EventsInv /\ OrderInv /\ PressInv /\ (~Panicked => LedInv /\ Ahead)
  BY DEF IInv
<1>4. buffer \in Seq(Octet) /\ Head(buffer) \in Octet /\ Tail(buffer) \in Seq(Octet)
  BY <1>1, <1>3, HeadAndTail DEF Types, KeyTypes
<1> DEFINE o == [byte |-> Head(buffer), aux |-> FALSE]
<1>5. o \in Byte /\ o.byte = Head(buffer) /\ o.aux = FALSE
  BY <1>4 DEF Byte, Octet
<1>6. out' = <<o>> /\ Head(out') = o /\ out' # <<>>
  BY <1>1
<1> HIDE DEF o
<1>7. Types'
  <2>1. KeyTypes'
    BY <1>1, <1>2, <1>3, <1>4 DEF Types, KeyTypes, IsPause
  <2>2. OutTypes'
    BY <1>5, <1>6 DEF OutTypes
  <2>3. DriverTypes' /\ LampTypes' /\ EventTypes'
    BY <1>1, <1>2, <1>3 DEF Types, DriverTypes, LampTypes, EventTypes
  <2> QED BY <2>1, <2>2, <2>3, Zenon DEF Types
<1>8. EventsInv' /\ OrderInv' /\ PressInv'
  BY <1>1, <1>2, <1>3, NoEvent
<1>9. MouseInv'
  BY <1>5, <1>6, Zenon DEF MouseInv
<1>10. ASSUME ~Panicked' PROVE LedInv' /\ Ahead'
  <2>1. ~Panicked /\ LedInv /\ Ahead
    BY <1>1, <1>3, <1>10 DEF Panicked
  <2>2. ~Answer
    BY <1>1, <2>1 DEF LedInv
  <2>3. ~Answer' /\ pc \notin {"led_data", "ack_data"}
    BY ZenonT(30), SMTT(30), <1>1, <2>1, <2>2 DEF LedInv, Answer
  <2>4. LedInv'
    BY <1>1, <1>2, <2>1, <2>3 DEF LedInv
  <2>5. Pending' = Pending
    <3>1. Pending' = <<Head(buffer)>> \o Tail(buffer)
      BY <1>1, <1>5, <1>6, <2>3, Zenon DEF Pending
    <3>2. Pending = buffer
      BY <1>1, <1>3, PendingOK, Zenon
    <3>3. <<Head(buffer)>> \o Tail(buffer) = buffer
      BY SMTT(30), <1>1, <1>4
    <3> QED BY <3>1, <3>2, <3>3, Zenon
  <2>6. Now' = Now
    BY <1>2 DEF Now
  <2> QED BY <1>1, <1>2, <2>1, <2>4, <2>5, <2>6, AheadKept
<1> QED BY <1>7, <1>8, <1>9, <1>10, Zenon DEF IInv

LEMMA AcknowledgeIInv ==
  ASSUME IInv, Acknowledge
  PROVE  IInv'
<1> DEFINE o == [byte |-> ACK, aux |-> FALSE]
<1>1. /\ command \in {"set_led", "data"} /\ out = <<>> /\ out' = <<o>>
      /\ command' = (IF command = "set_led" THEN "await_data" ELSE "none")
      /\ lamps' = (IF command = "data" THEN leds ELSE lamps)
      /\ UNCHANGED <<driver, queue, pc, held, shifting, buffer, history>>
  BY DEF Acknowledge
<1>2. UNCHANGED <<typed, decoded, chars, prefix, gather, leds>>
  BY <1>1 DEF history, driver
<1>3. Types /\ MouseInv /\ (~Panicked => LedInv)
  BY DEF IInv
<1>4. o \in Byte /\ o.aux = FALSE /\ out' # <<>> /\ Head(out') = o
  BY <1>1 DEF Byte, ACK
<1> HIDE DEF o
<1>5. DriverTypes' /\ LampTypes'
  BY <1>1, <1>2, <1>3 DEF Types, DriverTypes, LampTypes
<1>6. OutTypes' /\ MouseInv'
  <2>1. OutTypes'
    BY <1>1, <1>4, Zenon DEF OutTypes
  <2>2. MouseInv'
    BY <1>4, Zenon DEF MouseInv
  <2> QED BY <2>1, <2>2
<1>7. ASSUME ~Panicked'
      PROVE  ~Panicked /\ LedInv' /\ Pending' = Pending
  <2>1. ~Panicked /\ LedInv
    BY <1>1, <1>3, <1>7 DEF Panicked
  <2>2. /\ command = "set_led" => pc = "ack_command"
        /\ command = "data" => pc = "ack_data"
    <3>1. pc \in {"idle", "led_command", "ack_command", "led_data", "ack_data"}
      BY <1>3, <2>1 DEF Types, DriverTypes, Panicked
    <3> QED BY <1>1, <2>1, <3>1 DEF LedInv
  <2>3. Answer'
    BY ZenonT(30), SMTT(30), <1>1, <2>2 DEF Answer
  <2>4. LedInv'
    BY <1>1, <1>2, <2>1, <2>2, <2>3 DEF LedInv, o
  <2>5. Pending = <<>> \o buffer /\ Pending' = <<>> \o buffer
    BY <1>1, <2>3, Zenon DEF Pending
  <2> QED BY <2>1, <2>4, <2>5
<1> QED BY <1>1, <1>2, <1>5, <1>6, <1>7, OtherIInv, Zenon

LEMMA MouseByteIInv ==
  ASSUME IInv, MouseByte
  PROVE  IInv'
<1> DEFINE o == [byte |-> 8, aux |-> TRUE]
<1>1. /\ out = <<>> /\ out' = <<o>>
      /\ UNCHANGED <<driver, queue, pc, hardware, typed, decoded, chars>>
  BY DEF MouseByte
<1>2. UNCHANGED <<prefix, gather, leds, held, shifting, buffer, command, lamps>>
  BY <1>1 DEF driver, hardware
<1>3. Types /\ MouseInv /\ (~Panicked => LedInv)
  BY DEF IInv
<1>4. o \in Byte /\ o.aux = TRUE /\ o.byte # ACK /\ out' # <<>> /\ Head(out') = o
  BY <1>1 DEF Byte, ACK
<1> HIDE DEF o
<1>5. DriverTypes' /\ LampTypes'
  BY <1>1, <1>2, <1>3 DEF Types, DriverTypes, LampTypes
<1>6. OutTypes' /\ MouseInv'
  <2>1. OutTypes'
    BY <1>1, <1>4, Zenon DEF OutTypes
  <2>2. MouseInv'
    BY <1>4, Zenon DEF MouseInv
  <2> QED BY <2>1, <2>2
<1>7. ASSUME ~Panicked'
      PROVE  ~Panicked /\ LedInv' /\ Pending' = Pending
  <2>1. ~Panicked /\ LedInv
    BY <1>1, <1>3, <1>7 DEF Panicked
  <2>2. ~Answer /\ ~Answer'
    BY SMTT(30), <1>1, <1>2, <2>1 DEF LedInv, Answer
  <2>3. LedInv'
    BY <1>1, <1>2, <1>4, <2>1, <2>2 DEF LedInv
  <2>4. Pending = <<>> \o buffer /\ Pending' = <<>> \o buffer
    BY <1>1, <1>2, <1>4, Zenon DEF Pending
  <2> QED BY <2>1, <2>3, <2>4
<1> QED BY <1>1, <1>2, <1>5, <1>6, <1>7, OtherIInv, Zenon

(* What a key adds to the bytes comes last. *)
LEMMA PendingMore ==
  ASSUME Types, UNCHANGED <<out, pc, command>>
  PROVE  \E P \in Seq(Octet) : Pending = P \o buffer /\ Pending' = P \o buffer'
<1> DEFINE P == IF out = <<>> \/ Answer \/ Head(out).aux THEN <<>> ELSE <<Head(out).byte>>
<1>1. Answer' = Answer
  BY DEF Answer
<1>2. Pending = P \o buffer /\ Pending' = P \o buffer'
  BY <1>1 DEF Pending
<1>3. P \in Seq(Octet)
  <2>1. CASE out = <<>> \/ Answer \/ Head(out).aux
    <3>1. <<>> \in Seq(Octet)
      OBVIOUS
    <3> QED BY <2>1, <3>1
  <2>2. CASE ~(out = <<>> \/ Answer \/ Head(out).aux)
    <3>1. Head(out).byte \in Octet
      BY <2>2, PendingOK, Zenon
    <3>2. \A b \in Octet : <<b>> \in Seq(Octet)
      OBVIOUS
    <3> QED BY <2>2, <3>1, <3>2, Zenon
  <2> QED BY <2>1, <2>2
<1> HIDE DEF P
<1> QED BY <1>2, <1>3, Zenon

LEMMA ReadsByte ==
  ASSUME NEW T, NEW P \in Seq(Octet), NEW B \in Seq(Octet), NEW b \in Octet,
         NEW d \in Decoder, NEW c \in Decoder, NEW e \in Decoder,
         ReadsAll(d, P \o B, T, c), Reads(c, b, e, T)
  PROVE  Append(B, b) \in Seq(Octet) /\ ReadsAll(d, P \o Append(B, b), T, e)
<1> DEFINE Q == P \o B
<1>1. Q \in Seq(Octet) /\ ReadsAll(d, Q, T, c)
  OBVIOUS
<1>2. P \o Append(B, b) = Append(Q, b) /\ Append(B, b) \in Seq(Octet)
  BY SMTT(30), JoinAppend, Appended
<1> HIDE DEF Q
<1>3. ReadsAll(d, Append(Q, b), T, e)
  BY <1>1, ReadsOneMore, Zenon
<1> QED BY <1>2, <1>3, Zenon

(* The decoder after a key with code is pressed or released *)
AfterMods(d, code, pressed) ==
  LET m == ModifierFor(d.prefix, code)
  IN  IF code \notin ModCodes THEN d.mods
      ELSE IF pressed THEN d.mods \cup {m} ELSE d.mods \ {m}
AfterCount(d, code) == IF code \in ModCodes \/ IsLockFor(d.mods, code) THEN d.n ELSE d.n + 1
After(d, code, pressed) ==
  [dead |-> FALSE, prefix |-> 0, mods |-> AfterMods(d, code, pressed), n |-> AfterCount(d, code)]

LEMMA AfterOK ==
  ASSUME NEW d \in Decoder, NEW code, NEW pressed \in BOOLEAN
  PROVE  LET e == After(d, code, pressed)
         IN  /\ e \in Decoder /\ e.dead = FALSE /\ e.prefix = 0
             /\ e.mods = AfterMods(d, code, pressed) /\ e.n = AfterCount(d, code)
<1> DEFINE m == ModifierFor(d.prefix, code)
<1>1. m \in KeyModifiers \ Locks
  BY DEF ModifierFor, KeyModifiers, Locks
<1>2. d.mods \in SUBSET (KeyModifiers \ Locks) /\ d.n \in Nat
  BY DEF Decoder
<1> HIDE DEF m
<1>3. AfterMods(d, code, pressed) \in SUBSET (KeyModifiers \ Locks)
  BY <1>1, <1>2 DEF AfterMods, m
<1>4. AfterCount(d, code) \in Nat
  BY <1>2 DEF AfterCount
<1> QED BY <1>3, <1>4 DEF After, Decoder

LEMMA ReadsStroke ==
  ASSUME NEW T, NEW d \in Decoder, ~d.dead, NEW code \in 1 .. TableSize - 1,
         NEW pressed \in BOOLEAN, NEW b \in Octet, Code(b) = code, IsBreak(b) = ~pressed,
         code \notin ModCodes /\ ~IsLockFor(d.mods, code) =>
           /\ d.n + 1 <= Len(T)
           /\ T[d.n + 1] = [code |-> code, pressed |-> pressed, prefix |-> d.prefix]
  PROVE  Reads(d, b, After(d, code, pressed), T)
<1> DEFINE e == After(d, code, pressed)
<1>1. /\ e.dead = FALSE /\ e.prefix = 0
      /\ e.mods = AfterMods(d, code, pressed) /\ e.n = AfterCount(d, code)
  BY AfterOK, Zenon
<1> HIDE DEF e
<1>2. ReadsModifier(d, b, e) \/ ReadsLock(d, b, e) \/ ReadsKey(d, b, e, T)
  <2>1. CASE code \in ModCodes
    <3>1. e.mods = IF IsBreak(b) THEN d.mods \ {ModifierFor(d.prefix, code)}
                   ELSE d.mods \cup {ModifierFor(d.prefix, code)}
      BY <1>1, <2>1, Zenon DEF AfterMods
    <3>2. e.n = d.n
      BY <1>1, <2>1, Zenon DEF AfterCount
    <3> QED BY <1>1, <2>1, <3>1, <3>2, Zenon DEF ReadsModifier
  <2>2. CASE code \notin ModCodes /\ IsLockFor(d.mods, code)
    <3>1. e.n = d.n /\ e.mods = d.mods
      BY <1>1, <2>2, Zenon DEF AfterCount, AfterMods
    <3> QED BY <1>1, <2>2, <3>1, Zenon DEF ReadsLock
  <2>3. CASE code \notin ModCodes /\ ~IsLockFor(d.mods, code)
    <3>1. e.n = d.n + 1 /\ e.mods = d.mods
      BY <1>1, <2>3, Zenon DEF AfterCount, AfterMods
    <3>2. pressed = ~IsBreak(b)
      BY Zenon
    <3> QED BY <1>1, <2>3, <3>1, <3>2, Zenon DEF ReadsKey
  <2> QED BY <2>1, <2>2, <2>3, Zenon
<1> QED BY <1>1, <1>2, Zenon DEF Reads, e

(* The byte of a key that the decoder has a table for *)
LEMMA StrokeByte ==
  ASSUME NEW code \in 1 .. TableSize - 1
  PROVE  /\ code \in Octet /\ Code(code) = code /\ IsBreak(code) = FALSE
         /\ code + BREAK_BIT \in Octet /\ Code(code + BREAK_BIT) = code
         /\ IsBreak(code + BREAK_BIT) = TRUE
BY DEF Code, IsBreak, BREAK_BIT, TableSize, Octet

(* What is reported is what the decoder takes for an ordinary key. *)
LEMMA ReportedOK ==
  ASSUME NEW k \in Keys, ~IsPause(k), NEW mods, Matches(mods)
  PROVE  Reported(k) <=> k.code \notin ModCodes /\ ~IsLockFor(mods, k.code)
<1>1. "CTRL_LEFT" \in mods <=> CtrlLeft \in held
  BY Zenon DEF Matches
<1>2. k \in Mods <=> k.code \in ModCodes
  BY Zenon DEF Mods, ModCodes
<1> QED BY <1>1, <1>2 DEF Reported, IsLockFor

LEMMA HeldAfter ==
  ASSUME NEW k \in Keys, NEW p, NEW c, NEW pressed \in BOOLEAN,
         held' = IF pressed THEN held \cup {k} ELSE held \ {k}
  PROVE  Held(p, c)' <=> IF pressed THEN Held(p, c) \/ (k.prefix = p /\ k.code = c)
                         ELSE Held(p, c) /\ ~(k.prefix = p /\ k.code = c)
<1>1. k = [prefix |-> p, code |-> c] <=> k.prefix = p /\ k.code = c
  BY SMTT(30), KeyOK
<1> QED BY <1>1 DEF Held

LEMMA MatchesAfter ==
  ASSUME NEW k \in Keys, ~IsPause(k), NEW pressed \in BOOLEAN, NEW f,
         f.prefix = k.prefix, Matches(f.mods),
         held' = IF pressed THEN held \cup {k} ELSE held \ {k},
         NEW mods, mods = AfterMods(f, k.code, pressed)
  PROVE  Matches(mods)'
<1> DEFINE m == ModifierFor(k.prefix, k.code)
           On(x, p, c) == x \in mods <=> Held(p, c)'
<1>1. /\ k.code \notin ModCodes => mods = f.mods
      /\ k.code \in ModCodes /\ pressed => mods = f.mods \cup {m}
      /\ k.code \in ModCodes /\ ~pressed => mods = f.mods \ {m}
  BY Zenon DEF AfterMods
<1>2. k.prefix \in {0, PREFIX1} /\ PREFIX1 # 0
  BY KeyOK DEF IsPause, PREFIX1, PREFIX2
<1>3. /\ "CTRL_LEFT" \in f.mods <=> Held(0, 29)
      /\ "CTRL_RIGHT" \in f.mods <=> Held(PREFIX1, 29)
      /\ "ALT_LEFT" \in f.mods <=> Held(0, 56)
      /\ "ALT_RIGHT" \in f.mods <=> Held(PREFIX1, 56)
  BY DEF Matches, CtrlLeft, Held
<1>4. /\ k.code \in {42, 54} => m = "SHIFT"
      /\ k.code = 56 => m = IF k.prefix = PREFIX1 THEN "ALT_RIGHT" ELSE "ALT_LEFT"
      /\ k.code = 29 => m = IF k.prefix = PREFIX1 THEN "CTRL_RIGHT" ELSE "CTRL_LEFT"
  BY DEF ModifierFor
<1> HIDE DEF m
<1>5. \A p, c : Held(p, c)' <=> IF pressed THEN Held(p, c) \/ (k.prefix = p /\ k.code = c)
                                ELSE Held(p, c) /\ ~(k.prefix = p /\ k.code = c)
  BY ZenonT(30), HeldAfter
<1>6. On("CTRL_LEFT", 0, 29) /\ On("CTRL_RIGHT", PREFIX1, 29)
  BY SMTT(30), <1>1, <1>2, <1>3, <1>4, <1>5 DEF ModCodes
<1>7. On("ALT_LEFT", 0, 56) /\ On("ALT_RIGHT", PREFIX1, 56)
  BY <1>1, <1>2, <1>3, <1>4, <1>5 DEF ModCodes
<1>8. CtrlLeft \in held' <=> Held(0, 29)'
  BY DEF CtrlLeft, Held
<1> QED BY <1>6, <1>7, <1>8 DEF Matches

(* The key of Shift alone turns it on. *)
LEMMA ShiftAfter ==
  ASSUME NEW f, NEW code, NEW pressed \in BOOLEAN, "SHIFT" \in AfterMods(f, code, pressed)
  PROVE  IF code \in {42, 54} THEN pressed ELSE "SHIFT" \in f.mods
<1> DEFINE m == ModifierFor(f.prefix, code)
<1>1. /\ code \in {42, 54} => m = "SHIFT" /\ code \in ModCodes
      /\ code \notin {42, 54} => m # "SHIFT"
  BY DEF ModifierFor, ModCodes
<1> HIDE DEF m
<1>2. "SHIFT" \in IF code \notin ModCodes THEN f.mods
                  ELSE IF pressed THEN f.mods \cup {m} ELSE f.mods \ {m}
  BY Zenon DEF AfterMods, m
<1> QED BY <1>1, <1>2

(* What is recorded of a key *)
Stroke(k, pressed) ==
  [code |-> k.code, pressed |-> pressed, prefix |-> IF IsPause(k) THEN 0 ELSE k.prefix]

LEMMA StrokeOK ==
  ASSUME NEW k \in Keys, NEW pressed \in BOOLEAN, Record(k, pressed)
  PROVE  /\ Stroke(k, pressed) \in Entry
         /\ Reported(k) => typed' = Append(typed, Stroke(k, pressed))
         /\ ~Reported(k) => typed' = typed
<1>1. k.prefix \in {0, PREFIX1, PREFIX2} /\ k.code \in 1 .. 127
  BY KeyOK
<1>2. Stroke(k, pressed) \in Entry
  BY <1>1 DEF Stroke, Entry
<1> QED BY <1>2, Zenon DEF Record, Stroke

LEMMA RecordLength ==
  ASSUME Types, NEW k \in Keys, NEW pressed \in BOOLEAN, Record(k, pressed)
  PROVE  /\ Reported(k) => Len(typed') = Len(typed) + 1
         /\ ~Reported(k) => typed' = typed
<1>1. typed \in Seq(Entry)
  BY DEF Types, KeyTypes
<1>2. Reported(k) => Len(typed') = Len(typed) + 1
  <2>1. ASSUME Reported(k) PROVE Len(typed') = Len(typed) + 1
    <3>1. typed' = Append(typed, Stroke(k, pressed)) /\ Stroke(k, pressed) \in Entry
      BY <2>1, StrokeOK, Zenon
    <3> QED BY <1>1, <3>1, Appended
  <2> QED BY <2>1
<1> QED BY <1>2, StrokeOK, Zenon

LEMMA ForetoldAfter ==
  ASSUME Types, NEW k \in Keys, ~IsPause(k), k.code < TableSize, NEW pressed \in BOOLEAN,
         NEW d \in Decoder, NEW f \in Decoder, NEW e \in Decoder, ~d.dead, Foretold(d),
         f.prefix = k.prefix, f.mods = d.mods, f.n = d.n, e = After(f, k.code, pressed),
         Record(k, pressed), held' = IF pressed THEN held \cup {k} ELSE held \ {k}
  PROVE  Foretold(e)'
<1>1. e.prefix = 0 /\ e.mods = AfterMods(f, k.code, pressed) /\ e.n = AfterCount(f, k.code)
  BY ZenonT(30), AfterOK
<1>2. d.n = Len(typed) /\ Matches(d.mods) /\ \A l \in held : l.code < TableSize
  BY Zenon DEF Foretold
<1>3. Matches(e.mods)'
  BY ZenonT(30), <1>1, <1>2, MatchesAfter
<1>4. e.n = Len(typed')
  <2>1. Reported(k) <=> k.code \notin ModCodes /\ ~IsLockFor(f.mods, k.code)
    BY <1>2, ReportedOK, Zenon
  <2>2. /\ Reported(k) => Len(typed') = Len(typed) + 1
        /\ ~Reported(k) => typed' = typed
    BY ZenonT(30), RecordLength
  <2> QED BY ZenonT(30), <1>1, <1>2, <2>1, <2>2 DEF AfterCount
<1>5. \A l \in held' : l.code < TableSize
  BY <1>2
<1> QED BY <1>1, <1>3, <1>4, <1>5, Zenon DEF Foretold

LEMMA CodeRange ==
  \A c \in 1 .. 127 :
    /\ c < TableSize \/ c >= TableSize
    /\ c < TableSize => c \in 1 .. TableSize - 1
    /\ c >= TableSize => ~(c < TableSize) /\ c \in TableSize .. 127
BY DEF TableSize

LEMMA CodeByte ==
  ASSUME NEW c \in 1 .. 127
  PROVE  c \in Octet /\ c + BREAK_BIT \in Octet
BY DEF BREAK_BIT, Octet

LEMMA ReadsBytes ==
  ASSUME NEW T, NEW P \in Seq(Octet), NEW B \in Seq(Octet), NEW b \in Octet,
         NEW k \in Keys, ~IsPause(k), NEW s \in Decoder, NEW d \in Decoder, NEW f \in Decoder,
         NEW e \in Decoder, ReadsAll(s, P \o B, T, d), k.prefix = 0 => f = d,
         k.prefix # 0 => Reads(d, PREFIX1, f, T), Reads(f, b, e, T)
  PROVE  B \o Bytes(k, b) \in Seq(Octet) /\ ReadsAll(s, P \o (B \o Bytes(k, b)), T, e)
<1>1. CASE k.prefix = 0
  <2>1. B \o Bytes(k, b) = Append(B, b)
    <3>1. B \o <<b>> = Append(B, b)
      BY JoinLast
    <3> QED BY <1>1, <3>1, Zenon DEF Bytes
  <2>2. Append(B, b) \in Seq(Octet) /\ ReadsAll(s, P \o Append(B, b), T, e)
    <3>1. Reads(d, b, e, T)
      BY <1>1, Zenon
    <3> QED BY <3>1, ReadsByte, ZenonT(30)
  <2> QED BY <2>1, <2>2, Zenon
<1>2. CASE k.prefix # 0
  <2>1. k.prefix = PREFIX1 /\ PREFIX1 \in Octet
    BY <1>2, KeyOK DEF IsPause, PREFIX1, PREFIX2, Octet
  <2>2. B \o Bytes(k, b) = Append(Append(B, PREFIX1), b)
    <3>1. B \o <<PREFIX1, b>> = Append(Append(B, PREFIX1), b)
      BY <2>1, JoinTwo
    <3> QED BY <1>2, <2>1, <3>1, Zenon DEF Bytes
  <2> DEFINE C == Append(B, PREFIX1)
  <2>3. C \in Seq(Octet) /\ ReadsAll(s, P \o C, T, f)
    BY <1>2, <2>1, ReadsByte, ZenonT(30)
  <2> HIDE DEF C
  <2>4. Append(C, b) \in Seq(Octet) /\ ReadsAll(s, P \o Append(C, b), T, e)
    BY <2>3, ReadsByte, ZenonT(30)
  <2> QED BY <2>2, <2>4, Zenon DEF C
<1> QED BY <1>1, <1>2, Zenon

(* The decoder with the prefix of a key *)
LEMMA Prefixed ==
  ASSUME NEW T, NEW d \in Decoder, ~d.dead, d.prefix = 0, NEW k \in Keys, ~IsPause(k)
  PROVE  \E f \in Decoder :
           /\ ~f.dead /\ f.prefix = k.prefix /\ f.mods = d.mods /\ f.n = d.n
           /\ k.prefix = 0 => f = d
           /\ k.prefix # 0 => Reads(d, PREFIX1, f, T)
<1> DEFINE f == [dead |-> FALSE, prefix |-> k.prefix, mods |-> d.mods, n |-> d.n]
<1>1. k.prefix \in {0, PREFIX1}
  BY KeyOK DEF IsPause
<1>2. f \in Decoder
  BY <1>1 DEF Decoder
<1>3. f.dead = FALSE /\ f.prefix = k.prefix /\ f.mods = d.mods /\ f.n = d.n
  OBVIOUS
<1> HIDE DEF f
<1>4. k.prefix = 0 => f = d
  BY ZenonT(30), <1>2, <1>3, Alive, SameDecoder
<1>5. k.prefix # 0 => Reads(d, PREFIX1, f, T)
  BY <1>1, <1>3 DEF Reads, ReadsPrefix, IsPrefixByte
<1> QED BY <1>2, <1>3, <1>4, <1>5, Zenon

LEMMA TypedMore ==
  ASSUME NEW t \in Seq(Entry), NEW x \in Entry
  PROVE  /\ Len(t) + 1 <= Len(Append(t, x)) /\ Len(Append(t, x)) = Len(t) + 1
         /\ Append(t, x)[Len(t) + 1] = x
BY Appended

(* The bytes of a key, read after those in front of them *)
LEMMA StrokeReads ==
  ASSUME Types, NEW k \in Keys, ~IsPause(k), NEW pressed \in BOOLEAN, pressed \/ k \in held,
         held' = (IF pressed THEN held \cup {k} ELSE held \ {k}), Record(k, pressed),
         NEW P \in Seq(Octet), NEW B \in Seq(Octet), NEW s \in Decoder, NEW d \in Decoder,
         ReadsAll(s, P \o B, typed', d), Foretold(d),
         NEW b, b = IF pressed THEN k.code ELSE k.code + BREAK_BIT
  PROVE  \E e \in Decoder :
           /\ ReadsAll(s, P \o (B \o Bytes(k, b)), typed', e) /\ Foretold(e)'
           /\ ~e.dead => ~d.dead
           /\ ~e.dead /\ "SHIFT" \in e.mods =>
                IF k.code \in {42, 54} THEN pressed ELSE "SHIFT" \in d.mods
<1>1. b \in Octet /\ k.code \in 1 .. 127
  <2>1. k.code \in 1 .. 127
    BY KeyOK, Zenon
  <2>2. k.code \in Octet /\ k.code + BREAK_BIT \in Octet
    BY <2>1, CodeByte, Zenon
  <2>3. b = k.code \/ b = k.code + BREAK_BIT
    BY Zenon
  <2> QED BY <2>1, <2>2, <2>3, Zenon
<1>2. ASSUME NEW f \in Decoder, NEW e \in Decoder, k.prefix = 0 => f = d,
             k.prefix # 0 => Reads(d, PREFIX1, f, typed'), Reads(f, b, e, typed')
      PROVE  ReadsAll(s, P \o (B \o Bytes(k, b)), typed', e)
  BY <1>1, <1>2, ReadsBytes, ZenonT(30)
<1>3. CASE d.dead
  <2>1. \A x : Reads(d, x, d, typed')
    BY <1>3, Zenon DEF Reads
  <2>2. Foretold(d)'
    BY <1>3, Zenon DEF Foretold
  <2>3. ReadsAll(s, P \o (B \o Bytes(k, b)), typed', d)
    BY <1>2, <2>1, Zenon
  <2> QED BY <1>3, <2>2, <2>3, Zenon
<1>4. CASE ~d.dead
  <2>1. d.prefix = 0 /\ d.n = Len(typed) /\ Matches(d.mods) /\ \A l \in held : l.code < TableSize
    BY <1>4, Zenon DEF Foretold
  <2>2. PICK f \in Decoder : /\ ~f.dead /\ f.prefix = k.prefix /\ f.mods = d.mods /\ f.n = d.n
                             /\ k.prefix = 0 => f = d
                             /\ k.prefix # 0 => Reads(d, PREFIX1, f, typed')
    BY <1>4, <2>1, Prefixed, Zenon
  <2>3. CASE k.code >= TableSize
    <3> DEFINE e == [dead |-> TRUE, prefix |-> 0, mods |-> {}, n |-> 0]
    <3>1. e \in Decoder /\ e.dead
      BY ZenonT(30) DEF Decoder
    <3> HIDE DEF e
    <3>2. b \in TableSize .. 127
      <4>1. ~(k.code < TableSize)
        BY <1>1, <2>3, CodeRange, Zenon
      <4>2. pressed
        BY <2>1, <4>1, Zenon
      <4>3. k.code \in TableSize .. 127
        BY <1>1, <2>3, CodeRange, Zenon
      <4> QED BY <4>2, <4>3, Zenon
    <3>3. Reads(f, b, e, typed')
      BY <3>1, <3>2, Zenon DEF Reads
    <3>4. Foretold(e)'
      BY <3>1, Zenon DEF Foretold
    <3>5. ReadsAll(s, P \o (B \o Bytes(k, b)), typed', e)
      BY <1>2, <2>2, <3>1, <3>3, Zenon
    <3> QED BY <3>1, <3>4, <3>5, Zenon
  <2>4. CASE k.code < TableSize
    <3> DEFINE e == After(f, k.code, pressed)
    <3>1. e \in Decoder /\ e.mods = AfterMods(f, k.code, pressed)
      BY AfterOK, Zenon
    <3>2. Foretold(e)'
      BY <1>4, <2>2, <2>4, <3>1, ForetoldAfter, Zenon
    <3>3. k.code \in 1 .. TableSize - 1
      BY <1>1, <2>4, CodeRange, Zenon
    <3>4. Code(b) = k.code /\ IsBreak(b) = ~pressed
      BY <3>3, StrokeByte, Zenon
    <3>5. k.code \notin ModCodes /\ ~IsLockFor(f.mods, k.code) =>
            /\ f.n + 1 <= Len(typed')
            /\ typed'[f.n + 1] = [code |-> k.code, pressed |-> pressed, prefix |-> f.prefix]
      <4> SUFFICES ASSUME k.code \notin ModCodes, ~IsLockFor(f.mods, k.code)
                   PROVE  /\ f.n + 1 <= Len(typed')
                          /\ typed'[f.n + 1] =
                               [code |-> k.code, pressed |-> pressed, prefix |-> f.prefix]
        BY Zenon
      <4>1. Reported(k)
        BY ZenonT(30), <2>1, <2>2, ReportedOK
      <4>2. typed' = Append(typed, Stroke(k, pressed)) /\ Stroke(k, pressed) \in Entry
        BY <4>1, StrokeOK, Zenon
      <4>3. typed \in Seq(Entry)
        BY DEF Types, KeyTypes
      <4>4. Len(typed) + 1 <= Len(typed') /\ typed'[Len(typed) + 1] = Stroke(k, pressed)
        BY <4>2, <4>3, TypedMore, Zenon
      <4> QED BY <2>1, <2>2, <4>4, Zenon DEF Stroke
    <3>6. Reads(f, b, e, typed')
      BY <1>1, <2>2, <3>3, <3>4, <3>5, ReadsStroke, Zenon
    <3>7. ReadsAll(s, P \o (B \o Bytes(k, b)), typed', e)
      BY <1>2, <2>2, <3>1, <3>6, Zenon
    <3>8. "SHIFT" \in e.mods => IF k.code \in {42, 54} THEN pressed ELSE "SHIFT" \in d.mods
      <4> SUFFICES ASSUME "SHIFT" \in e.mods
                   PROVE  IF k.code \in {42, 54} THEN pressed ELSE "SHIFT" \in f.mods
        BY <2>2, Zenon
      <4>1. "SHIFT" \in AfterMods(f, k.code, pressed)
        BY <3>1, Zenon
      <4> QED BY <4>1, ShiftAfter
    <3> QED BY <1>4, <3>1, <3>2, <3>7, <3>8, Zenon
  <2>5. k.code >= TableSize \/ k.code < TableSize
    BY <1>1, CodeRange, Zenon
  <2> QED BY <2>3, <2>4, <2>5, Zenon
<1> QED BY <1>3, <1>4, Zenon

(* Decoder s reads Q and then is d with the Shift code b that a key of the *)
(* cursor block sends.                                                     *)
ReadsShift(s, Q, T, d, b) ==
  \E e \in Decoder :
    /\ ReadsAll(s, Q, T, e) /\ (~e.dead => ~d.dead)
    /\ ~e.dead => /\ e.prefix = 0 /\ e.n = d.n
                  /\ IsBreak(b) => e.mods = d.mods \ {"SHIFT"}
                  /\ ~IsBreak(b) => e.mods = d.mods \cup {"SHIFT"}

LEMMA ShiftReads ==
  ASSUME NEW T, NEW P \in Seq(Octet), NEW B \in Seq(Octet), NEW s \in Decoder,
         NEW d \in Decoder, ReadsAll(s, P \o B, T, d),
         NEW b \in Octet, Code(b) = ShiftOn
  PROVE  /\ B \o <<PREFIX1, b>> \in Seq(Octet)
         /\ ReadsShift(s, P \o (B \o <<PREFIX1, b>>), T, d, b)
<1>1. PREFIX1 \in Octet /\ IsPrefixByte(PREFIX1)
  BY DEF Octet, PREFIX1, IsPrefixByte
<1> DEFINE C == Append(B, PREFIX1)
<1>2. B \o <<PREFIX1, b>> = Append(C, b)
  BY <1>1, JoinTwo
<1>3. C \in Seq(Octet) /\ Append(C, b) \in Seq(Octet)
  BY <1>1, Appended
<1>4. ASSUME NEW c \in Decoder, NEW e \in Decoder, Reads(d, PREFIX1, c, T), Reads(c, b, e, T)
      PROVE  ReadsAll(s, P \o (B \o <<PREFIX1, b>>), T, e)
  <2>1. C \in Seq(Octet) /\ ReadsAll(s, P \o C, T, c)
    BY <1>1, <1>4, ReadsByte, ZenonT(30)
  <2> HIDE DEF C
  <2>2. Append(C, b) \in Seq(Octet) /\ ReadsAll(s, P \o Append(C, b), T, e)
    BY <1>4, <2>1, ReadsByte, ZenonT(30)
  <2> QED BY <1>2, <2>2, Zenon
<1> HIDE DEF C
<1>5. CASE d.dead
  <2>1. \A x : Reads(d, x, d, T)
    BY <1>5, Zenon DEF Reads
  <2>2. ReadsAll(s, P \o (B \o <<PREFIX1, b>>), T, d)
    BY <1>4, <2>1, Zenon
  <2> QED BY <1>2, <1>3, <1>5, <2>2, Zenon DEF ReadsShift
<1>6. CASE ~d.dead
  <2> DEFINE mods == IF IsBreak(b) THEN d.mods \ {"SHIFT"} ELSE d.mods \cup {"SHIFT"}
  <2>1. d.mods \in SUBSET (KeyModifiers \ Locks) /\ d.n \in Nat
    BY DEF Decoder
  <2>2. mods \in SUBSET (KeyModifiers \ Locks)
    BY <2>1 DEF KeyModifiers, Locks
  <2>3. mods = IF IsBreak(b) THEN d.mods \ {"SHIFT"} ELSE d.mods \cup {"SHIFT"}
    BY Zenon
  <2> HIDE DEF mods
  <2> DEFINE c == [dead |-> FALSE, prefix |-> PREFIX1, mods |-> d.mods, n |-> d.n]
             e == [dead |-> FALSE, prefix |-> 0, mods |-> mods, n |-> d.n]
  <2>4. /\ c \in Decoder /\ c.dead = FALSE /\ c.prefix = PREFIX1 /\ c.mods = d.mods /\ c.n = d.n
        /\ e \in Decoder /\ e.dead = FALSE /\ e.prefix = 0 /\ e.mods = mods /\ e.n = d.n
    BY <2>1, <2>2 DEF Decoder
  <2> HIDE DEF c, e
  <2>5. Reads(d, PREFIX1, c, T)
    BY <1>1, <1>6, <2>4, Zenon DEF Reads, ReadsPrefix
  <2>6. ReadsModifier(c, b, e)
    <3>1. ShiftOn \in ModCodes /\ ModifierFor(c.prefix, ShiftOn) = "SHIFT"
      BY DEF ModCodes, ModifierFor, ShiftOn
    <3>2. e.mods = IF IsBreak(b) THEN c.mods \ {ModifierFor(c.prefix, Code(b))}
                   ELSE c.mods \cup {ModifierFor(c.prefix, Code(b))}
      BY <2>3, <2>4, <3>1, Zenon
    <3>3. Code(b) \in ModCodes /\ e.prefix = 0 /\ e.n = c.n
      BY <2>4, <3>1, Zenon
    <3> QED BY <3>2, <3>3, Zenon DEF ReadsModifier
  <2>7. Reads(c, b, e, T)
    BY <2>4, <2>6, Zenon DEF Reads
  <2>8. ReadsAll(s, P \o (B \o <<PREFIX1, b>>), T, e)
    BY <1>4, <2>4, <2>5, <2>7, Zenon
  <2>9. B \o <<PREFIX1, b>> \in Seq(Octet)
    BY <1>2, <1>3, Zenon
  <2>10. /\ IsBreak(b) => e.mods = d.mods \ {"SHIFT"}
         /\ ~IsBreak(b) => e.mods = d.mods \cup {"SHIFT"}
    BY <2>3, <2>4, Zenon
  <2> QED BY <1>6, <2>4, <2>8, <2>9, <2>10, Zenon DEF ReadsShift
<1> QED BY <1>5, <1>6, Zenon

(* Its two codes *)
LEMMA ShiftCodes ==
  /\ ShiftOn \in Octet /\ Code(ShiftOn) = ShiftOn /\ ~IsBreak(ShiftOn)
  /\ ShiftOff \in Octet /\ Code(ShiftOff) = ShiftOn /\ IsBreak(ShiftOff)
  /\ ShiftDown = <<PREFIX1, ShiftOn>> /\ ShiftUp = <<PREFIX1, ShiftOff>>
BY DEF Octet, Code, IsBreak, BREAK_BIT, ShiftOn, ShiftOff, ShiftDown, ShiftUp

(* Shift is none of the modifiers that must match the keys. *)
LEMMA ShiftMatches ==
  ASSUME NEW mods, NEW more, more \in {mods \cup {"SHIFT"}, mods \ {"SHIFT"}}
  PROVE  (Matches(mods) => Matches(more)) /\ (Matches(mods)' => Matches(more)')
<1>1. \A m \in {"CTRL_LEFT", "CTRL_RIGHT", "ALT_LEFT", "ALT_RIGHT"} : m \in mods <=> m \in more
  OBVIOUS
<1>2. Matches(mods) => Matches(more)
  BY <1>1, Zenon DEF Matches
<1>3. Matches(mods)' => Matches(more)'
  BY <1>1, Zenon DEF Matches
<1> QED BY <1>2, <1>3

(* What is on its way is read as before, and what a key adds comes last.   *)
LEMMA TypedReads ==
  ASSUME Types, Ahead, NEW k \in Keys, NEW pressed \in BOOLEAN, Record(k, pressed),
         UNCHANGED <<prefix, gather, decoded, pc, out, command>>
  PROVE  /\ Now' = Now /\ Now \in Decoder /\ buffer \in Seq(Octet)
         /\ \E P \in Seq(Octet), d \in Decoder :
              /\ Pending' = P \o buffer' /\ ReadsAll(Now, P \o buffer, typed', d)
              /\ Expected(d)
<1>1. PICK d \in Decoder : ReadsAll(Now, Pending, typed, d) /\ Expected(d)
  BY Zenon DEF Ahead
<1>2. PICK P \in Seq(Octet) : Pending = P \o buffer /\ Pending' = P \o buffer'
  BY PendingMore, Zenon
<1>3. Now' = Now /\ Now \in Decoder /\ buffer \in Seq(Octet) /\ Pending \in Seq(Octet)
  <2>1. Now' = Now
    BY DEF Now
  <2> QED BY ZenonT(30), <2>1, NowOK, PendingOK
<1>4. ReadsAll(Now, P \o buffer, typed', d)
  <2>1. CASE typed' = typed
    BY <1>1, <1>2, <2>1, Zenon
  <2>2. CASE typed' = Append(typed, Stroke(k, pressed))
    <3>1. Stroke(k, pressed) \in Entry /\ typed \in Seq(Entry)
      BY StrokeOK DEF Types, KeyTypes
    <3> QED BY ZenonT(30), <1>1, <1>2, <1>3, <2>2, <3>1, ReadsStays
  <2> QED BY <2>1, <2>2, StrokeOK, Zenon
<1> QED BY <1>1, <1>2, <1>3, <1>4, Zenon

(* A key is pressed, and the decoder will find it so. *)
LEMMA PressAhead ==
  ASSUME Types, Ahead, NEW k \in Keys, ~IsPause(k), held' = held \cup {k},
         shifting' = (IF SendsShift(k) THEN shifting \cup {k} ELSE shifting),
         buffer' = (IF SendsShift(k) THEN buffer \o ShiftDown ELSE buffer) \o Bytes(k, k.code),
         Record(k, TRUE), UNCHANGED <<prefix, gather, decoded, pc, out, command>>
  PROVE  Ahead'
<1>1. PICK P \in Seq(Octet), d \in Decoder :
        /\ Pending' = P \o buffer' /\ ReadsAll(Now, P \o buffer, typed', d) /\ Expected(d)
  BY TypedReads, Zenon
<1>2. Now' = Now /\ Now \in Decoder /\ buffer \in Seq(Octet)
  BY TypedReads, Zenon
<1>3. \E B \in Seq(Octet), c \in Decoder :
        /\ buffer' = B \o Bytes(k, k.code) /\ ReadsAll(Now, P \o B, typed', c) /\ Foretold(c)
        /\ ~c.dead => ~d.dead
        /\ ~c.dead /\ "SHIFT" \in c.mods => "SHIFT" \in d.mods \/ SendsShift(k)
  <2>1. CASE ~SendsShift(k)
    BY <1>1, <1>2, <2>1, Zenon DEF Expected
  <2>2. CASE SendsShift(k)
    <3>1. buffer \o ShiftDown \in Seq(Octet) /\ buffer' = (buffer \o ShiftDown) \o Bytes(k, k.code)
      <4>1. buffer \o <<PREFIX1, 42>> \in Seq(Octet)
        BY <1>2, JoinTwo, Appended DEF PREFIX1, Octet
      <4> QED BY <2>2, <4>1, Zenon DEF ShiftDown
    <3>2. PICK c \in Decoder : /\ ReadsAll(Now, P \o (buffer \o ShiftDown), typed', c)
                               /\ ~c.dead => ~d.dead
                               /\ ~c.dead => /\ c.prefix = 0 /\ c.n = d.n
                                             /\ c.mods = d.mods \cup {"SHIFT"}
      <4>1. ReadsShift(Now, P \o (buffer \o ShiftDown), typed', d, ShiftOn)
        BY <1>1, <1>2, ShiftCodes, ShiftReads, Zenon
      <4> QED BY <4>1, ShiftCodes, Zenon DEF ReadsShift
    <3>3. Foretold(c)
      <4> SUFFICES ASSUME ~c.dead
                   PROVE  /\ c.prefix = 0 /\ c.n = Len(typed) /\ Matches(c.mods)
                          /\ \A l \in held : l.code < TableSize
        BY Zenon DEF Foretold
      <4>1. d.n = Len(typed) /\ Matches(d.mods) /\ \A l \in held : l.code < TableSize
        BY <1>1, <3>2, Zenon DEF Expected, Foretold
      <4>2. c.mods \in {d.mods \cup {"SHIFT"}, d.mods \ {"SHIFT"}}
        BY <3>2, Zenon
      <4>3. Matches(c.mods)
        BY <4>1, <4>2, ShiftMatches, Zenon
      <4> QED BY <3>2, <4>1, <4>3, Zenon
    <3> QED BY <2>2, <3>1, <3>2, <3>3, Zenon
  <2> QED BY <2>1, <2>2, Zenon
<1>4. PICK B \in Seq(Octet), c \in Decoder :
        /\ buffer' = B \o Bytes(k, k.code) /\ ReadsAll(Now, P \o B, typed', c) /\ Foretold(c)
        /\ ~c.dead => ~d.dead
        /\ ~c.dead /\ "SHIFT" \in c.mods => "SHIFT" \in d.mods \/ SendsShift(k)
  BY <1>3, Zenon
<1>5. PICK e \in Decoder :
        /\ ReadsAll(Now, P \o (B \o Bytes(k, k.code)), typed', e) /\ Foretold(e)'
        /\ ~e.dead => ~c.dead
        /\ ~e.dead /\ "SHIFT" \in e.mods =>
             IF k.code \in {42, 54} THEN TRUE ELSE "SHIFT" \in c.mods
  <2>1. /\ held' = (IF TRUE THEN held \cup {k} ELSE held \ {k})
        /\ k.code = (IF TRUE THEN k.code ELSE k.code + BREAK_BIT)
    BY Zenon
  <2> QED BY <1>2, <1>4, <2>1, StrokeReads, Zenon
<1>6. ASSUME ~e.dead, "SHIFT" \in e.mods
      PROVE  \E l \in held' : l.code \in {42, 54} \/ l \in shifting'
  <2>1. k \in held' /\ held \subseteq held' /\ shifting \subseteq shifting'
    OBVIOUS
  <2>2. CASE k.code \in {42, 54}
    BY <2>1, <2>2, Zenon
  <2>3. CASE k.code \notin {42, 54} /\ SendsShift(k)
    <3>1. k \in shifting'
      BY <2>3
    <3> QED BY <2>1, <3>1, Zenon
  <2>4. CASE k.code \notin {42, 54} /\ ~SendsShift(k)
    <3>1. ~d.dead /\ "SHIFT" \in d.mods
      BY <1>4, <1>5, <1>6, <2>4, Zenon
    <3>2. \E l \in held : l.code \in {42, 54} \/ l \in shifting
      BY <1>1, <3>1, Zenon DEF Expected, ShiftHeld
    <3> QED BY <2>1, <3>2
  <2> QED BY <2>2, <2>3, <2>4, Zenon
<1>7. Expected(e)'
  BY <1>5, <1>6, Zenon DEF Expected, ShiftHeld
<1>8. ReadsAll(Now', Pending', typed', e)
  BY <1>1, <1>2, <1>4, <1>5, Zenon
<1> QED BY <1>7, <1>8, Zenon DEF Ahead

(* A key is released: with the Shift code it sent, or another key has it.  *)
LEMMA ReleaseAhead ==
  ASSUME Types, Ahead, NEW k \in Keys, ~IsPause(k), k \in held, held' = held \ {k},
         shifting' = shifting \ {k},
         NEW more, more = buffer \o Bytes(k, k.code + BREAK_BIT), more \in Seq(Octet),
         buffer' = (IF k \in shifting THEN more \o ShiftUp ELSE more),
         Record(k, FALSE), UNCHANGED <<prefix, gather, decoded, pc, out, command>>
  PROVE  Ahead'
<1>1. PICK P \in Seq(Octet), d \in Decoder :
        /\ Pending' = P \o buffer' /\ ReadsAll(Now, P \o buffer, typed', d) /\ Expected(d)
  BY TypedReads, Zenon
<1>2. Now' = Now /\ Now \in Decoder /\ buffer \in Seq(Octet)
  BY TypedReads, Zenon
<1>3. PICK c \in Decoder :
        /\ ReadsAll(Now, P \o more, typed', c) /\ Foretold(c)'
        /\ ~c.dead => ~d.dead
        /\ ~c.dead /\ "SHIFT" \in c.mods =>
             IF k.code \in {42, 54} THEN FALSE ELSE "SHIFT" \in d.mods
  <2>1. /\ held' = (IF FALSE THEN held \cup {k} ELSE held \ {k})
        /\ k.code + BREAK_BIT = (IF FALSE THEN k.code ELSE k.code + BREAK_BIT)
    BY Zenon
  <2>2. Foretold(d)
    BY <1>1, Zenon DEF Expected
  <2> QED BY <1>1, <1>2, <2>1, <2>2, StrokeReads, Zenon
<1>4. ASSUME NEW e \in Decoder, ReadsAll(Now, P \o buffer', typed', e), Foretold(e)',
             ~e.dead /\ "SHIFT" \in e.mods =>
               \E l \in held' : l.code \in {42, 54} \/ l \in shifting'
      PROVE  Ahead'
  <2>1. Expected(e)'
    BY <1>4, Zenon DEF Expected, ShiftHeld
  <2>2. ReadsAll(Now', Pending', typed', e)
    BY <1>1, <1>2, <1>4, Zenon
  <2> QED BY <2>1, <2>2, Zenon DEF Ahead
<1>5. CASE k \in shifting
  <2>1. PICK e \in Decoder : /\ ReadsAll(Now, P \o (more \o ShiftUp), typed', e)
                             /\ ~e.dead => ~c.dead
                             /\ ~e.dead => /\ e.prefix = 0 /\ e.n = c.n
                                           /\ e.mods = c.mods \ {"SHIFT"}
    <3>1. ReadsShift(Now, P \o (more \o ShiftUp), typed', c, ShiftOff)
      BY <1>2, <1>3, ShiftCodes, ShiftReads, Zenon
    <3> QED BY <3>1, ShiftCodes, Zenon DEF ReadsShift
  <2>2. Foretold(e)'
    <3> SUFFICES ASSUME ~e.dead
                 PROVE  /\ e.prefix = 0 /\ e.n = Len(typed') /\ Matches(e.mods)'
                        /\ \A l \in held' : l.code < TableSize
      BY Zenon DEF Foretold
    <3>1. c.n = Len(typed') /\ Matches(c.mods)' /\ \A l \in held' : l.code < TableSize
      BY <1>3, <2>1, Zenon DEF Foretold
    <3>2. e.mods \in {c.mods \cup {"SHIFT"}, c.mods \ {"SHIFT"}}
      BY <2>1, Zenon
    <3>3. Matches(e.mods)'
      BY <3>1, <3>2, ShiftMatches, Zenon
    <3> QED BY <2>1, <3>1, <3>3, Zenon
  <2>3. ~(~e.dead /\ "SHIFT" \in e.mods)
    BY <2>1
  <2>4. buffer' = more \o ShiftUp
    BY <1>5, Zenon
  <2> QED BY <1>4, <2>1, <2>2, <2>3, <2>4, Zenon
<1>6. CASE k \notin shifting
  <2>1. ASSUME ~c.dead, "SHIFT" \in c.mods
        PROVE  \E l \in held' : l.code \in {42, 54} \/ l \in shifting'
    <3>1. k.code \notin {42, 54} /\ ~d.dead /\ "SHIFT" \in d.mods
      BY <1>3, <2>1, Zenon
    <3>2. PICK l \in held : l.code \in {42, 54} \/ l \in shifting
      BY <1>1, <3>1, Zenon DEF Expected, ShiftHeld
    <3>3. l # k
      BY <1>6, <3>1, <3>2, Zenon
    <3> QED BY <3>2, <3>3
  <2>2. buffer' = more
    BY <1>6, Zenon
  <2> QED BY <1>3, <1>4, <2>1, <2>2, Zenon
<1> QED BY <1>5, <1>6, Zenon

(* Pause: 225, Ctrl, 69, and the same released *)
PauseBytes == <<PREFIX2, CtrlDown, NumDown, PREFIX2, CtrlUp, NumUp>>

LEMMA JoinSix ==
  ASSUME NEW S, NEW s \in Seq(S), NEW a \in S, NEW b \in S, NEW c \in S, NEW d \in S,
         NEW e \in S, NEW f \in S
  PROVE  s \o <<a, b, c, d, e, f>> =
           Append(Append(Append(Append(Append(Append(s, a), b), c), d), e), f)
<1> DEFINE s2 == Append(Append(s, a), b)
           s3 == Append(s2, c)
           s4 == Append(s3, d)
           s5 == Append(s4, e)
<1>1. /\ <<a, b, c>> = Append(<<a, b>>, c) /\ <<a, b, c, d>> = Append(<<a, b, c>>, d)
      /\ <<a, b, c, d, e>> = Append(<<a, b, c, d>>, e)
      /\ <<a, b, c, d, e, f>> = Append(<<a, b, c, d, e>>, f)
  OBVIOUS
<1>2. /\ <<a, b>> \in Seq(S) /\ <<a, b, c>> \in Seq(S) /\ <<a, b, c, d>> \in Seq(S)
      /\ <<a, b, c, d, e>> \in Seq(S)
  OBVIOUS
<1>3. s \o <<a, b>> = s2
  BY JoinTwo
<1>4. s \o <<a, b, c>> = s3
  <2>1. s \o Append(<<a, b>>, c) = Append(s \o <<a, b>>, c)
    BY <1>2, JoinAppend
  <2> QED BY <1>1, <1>3, <2>1, Zenon
<1>5. s \o <<a, b, c, d>> = s4
  <2>1. s \o Append(<<a, b, c>>, d) = Append(s \o <<a, b, c>>, d)
    BY <1>2, JoinAppend
  <2> QED BY <1>1, <1>4, <2>1, Zenon
<1>6. s \o <<a, b, c, d, e>> = s5
  <2>1. s \o Append(<<a, b, c, d>>, e) = Append(s \o <<a, b, c, d>>, e)
    BY <1>2, JoinAppend
  <2> QED BY <1>1, <1>5, <2>1, Zenon
<1>7. s \o Append(<<a, b, c, d, e>>, f) = Append(s \o <<a, b, c, d, e>>, f)
  BY <1>2, JoinAppend
<1> QED BY <1>1, <1>6, <1>7, Zenon

LEMMA PauseCodes ==
  /\ PREFIX2 \in Octet /\ CtrlDown \in Octet /\ NumDown \in Octet
  /\ CtrlUp \in Octet /\ NumUp \in Octet
  /\ PREFIX2 # PREFIX1 /\ PREFIX1 # 0 /\ IsPrefixByte(PREFIX2)
  /\ Code(CtrlDown) = CtrlDown /\ Code(CtrlUp) = CtrlDown
  /\ Code(NumDown) = NumDown /\ Code(NumUp) = NumDown
  /\ IsBreak(CtrlDown) = FALSE /\ IsBreak(NumDown) = FALSE
  /\ IsBreak(CtrlUp) = TRUE /\ IsBreak(NumUp) = TRUE
  /\ CtrlDown \in ModCodes /\ NumDown \notin ModCodes /\ NumDown \in 1 .. TableSize - 1
  /\ ModifierFor(PREFIX2, CtrlDown) = "CTRL_LEFT"
<1> USE DEF PREFIX1, PREFIX2, CtrlDown, NumDown, CtrlUp, NumUp
<1>1. /\ PREFIX2 \in Octet /\ CtrlDown \in Octet /\ NumDown \in Octet
      /\ CtrlUp \in Octet /\ NumUp \in Octet
  BY DEF Octet
<1>2. /\ Code(CtrlDown) = CtrlDown /\ Code(CtrlUp) = CtrlDown
      /\ Code(NumDown) = NumDown /\ Code(NumUp) = NumDown
      /\ IsBreak(CtrlDown) = FALSE /\ IsBreak(NumDown) = FALSE
      /\ IsBreak(CtrlUp) = TRUE /\ IsBreak(NumUp) = TRUE
  BY DEF Code, IsBreak, BREAK_BIT
<1>3. PREFIX2 # PREFIX1 /\ PREFIX1 # 0 /\ IsPrefixByte(PREFIX2)
  BY DEF IsPrefixByte
<1>4. /\ CtrlDown \in ModCodes /\ NumDown \notin ModCodes /\ NumDown \in 1 .. TableSize - 1
  BY DEF ModCodes, TableSize
<1>5. ModifierFor(PREFIX2, CtrlDown) = "CTRL_LEFT"
  BY DEF ModifierFor
<1> HIDE DEF PREFIX1, PREFIX2, CtrlDown, NumDown, CtrlUp, NumUp
<1> QED BY <1>1, <1>2, <1>3, <1>4, <1>5, Zenon

LEMMA JoinPause ==
  ASSUME NEW s \in Seq(Octet)
  PROVE  s \o PauseBytes = Append(Append(Append(Append(Append(Append(s,
           PREFIX2), CtrlDown), NumDown), PREFIX2), CtrlUp), NumUp)
<1>1. /\ PREFIX2 \in Octet /\ CtrlDown \in Octet /\ NumDown \in Octet
      /\ CtrlUp \in Octet /\ NumUp \in Octet
  BY PauseCodes, Zenon
<1> QED BY <1>1, JoinSix, SMTT(30) DEF PauseBytes

PauseReads(d, d1, d2, d3, d4, d5, d6, T) ==
  /\ Reads(d, PREFIX2, d1, T) /\ Reads(d1, CtrlDown, d2, T) /\ Reads(d2, NumDown, d3, T)
  /\ Reads(d3, PREFIX2, d4, T) /\ Reads(d4, CtrlUp, d5, T) /\ Reads(d5, NumUp, d6, T)

LEMMA ReadsPause ==
  ASSUME NEW T, NEW P \in Seq(Octet), NEW B \in Seq(Octet), NEW s \in Decoder,
         NEW d \in Decoder, NEW d1 \in Decoder, NEW d2 \in Decoder, NEW d3 \in Decoder,
         NEW d4 \in Decoder, NEW d5 \in Decoder, NEW d6 \in Decoder,
         ReadsAll(s, P \o B, T, d), PauseReads(d, d1, d2, d3, d4, d5, d6, T)
  PROVE  B \o PauseBytes \in Seq(Octet) /\ ReadsAll(s, P \o (B \o PauseBytes), T, d6)
<1> DEFINE B1 == Append(B, PREFIX2)
           B2 == Append(B1, CtrlDown)
           B3 == Append(B2, NumDown)
           B4 == Append(B3, PREFIX2)
           B5 == Append(B4, CtrlUp)
           B6 == Append(B5, NumUp)
<1>1. /\ PREFIX2 \in Octet /\ CtrlDown \in Octet /\ NumDown \in Octet
      /\ CtrlUp \in Octet /\ NumUp \in Octet
  BY PauseCodes, Zenon
<1>2. B \o PauseBytes = B6
  BY JoinPause, Zenon
<1>3. B1 \in Seq(Octet) /\ ReadsAll(s, P \o B1, T, d1)
  <2>1. Reads(d, PREFIX2, d1, T)
    BY Zenon DEF PauseReads
  <2> QED BY <1>1, <2>1, ReadsByte, Zenon
<1> HIDE DEF B1
<1>4. B2 \in Seq(Octet) /\ ReadsAll(s, P \o B2, T, d2)
  <2>1. Reads(d1, CtrlDown, d2, T)
    BY Zenon DEF PauseReads
  <2> QED BY <1>1, <1>3, <2>1, ReadsByte, Zenon
<1> HIDE DEF B2
<1>5. B3 \in Seq(Octet) /\ ReadsAll(s, P \o B3, T, d3)
  <2>1. Reads(d2, NumDown, d3, T)
    BY Zenon DEF PauseReads
  <2> QED BY <1>1, <1>4, <2>1, ReadsByte, Zenon
<1> HIDE DEF B3
<1>6. B4 \in Seq(Octet) /\ ReadsAll(s, P \o B4, T, d4)
  <2>1. Reads(d3, PREFIX2, d4, T)
    BY Zenon DEF PauseReads
  <2> QED BY <1>1, <1>5, <2>1, ReadsByte, Zenon
<1> HIDE DEF B4
<1>7. B5 \in Seq(Octet) /\ ReadsAll(s, P \o B5, T, d5)
  <2>1. Reads(d4, CtrlUp, d5, T)
    BY Zenon DEF PauseReads
  <2> QED BY <1>1, <1>6, <2>1, ReadsByte, Zenon
<1> HIDE DEF B5
<1>8. B6 \in Seq(Octet) /\ ReadsAll(s, P \o B6, T, d6)
  <2>1. Reads(d5, NumUp, d6, T)
    BY Zenon DEF PauseReads
  <2> QED BY <1>1, <1>7, <2>1, ReadsByte, Zenon
<1> HIDE DEF B6
<1> QED BY <1>2, <1>8, Zenon

(* Decoder e is between two keys, or behind prefix p of one. *)
Runs(e, p, mods, n) == ~e.dead /\ e.prefix = p /\ e.mods = mods /\ e.n = n

LEMMA RunsSome ==
  ASSUME NEW p \in {0, PREFIX1, PREFIX2}, NEW mods \in SUBSET (KeyModifiers \ Locks),
         NEW n \in Nat
  PROVE  \E e \in Decoder : Runs(e, p, mods, n)
<1> DEFINE e == [dead |-> FALSE, prefix |-> p, mods |-> mods, n |-> n]
<1>1. e \in Decoder
  BY DEF Decoder
<1> QED BY <1>1 DEF Runs

(* The bytes of Pause: a prefix, the Ctrl key of the prefix, NumLock with  *)
(* Ctrl (a key) and without it (a lock).                                   *)
LEMMA PausePrefix ==
  ASSUME NEW T, NEW d, NEW e, NEW mods, NEW n, ~d.dead, d.mods = mods, d.n = n,
         Runs(e, PREFIX2, mods, n)
  PROVE  Reads(d, PREFIX2, e, T)
BY PauseCodes, Zenon DEF Runs, Reads, ReadsPrefix

LEMMA PauseCtrl ==
  ASSUME NEW T, NEW d, NEW e, NEW m, NEW on, NEW n,
         on = m \cup {"CTRL_LEFT"}, m = on \ {"CTRL_LEFT"}
  PROVE  /\ Runs(d, PREFIX2, m, n) /\ Runs(e, 0, on, n) => Reads(d, CtrlDown, e, T)
         /\ Runs(d, PREFIX2, on, n) /\ Runs(e, 0, m, n) => Reads(d, CtrlUp, e, T)
<1>1. ASSUME Runs(d, PREFIX2, m, n), Runs(e, 0, on, n) PROVE ReadsModifier(d, CtrlDown, e)
  BY ZenonT(30), SMTT(30), <1>1, PauseCodes DEF Runs, ReadsModifier
<1>2. ASSUME Runs(d, PREFIX2, on, n), Runs(e, 0, m, n) PROVE ReadsModifier(d, CtrlUp, e)
  BY <1>2, PauseCodes DEF Runs, ReadsModifier
<1> QED BY ZenonT(30), <1>1, <1>2 DEF Runs, Reads

LEMMA PauseNum ==
  ASSUME NEW T, NEW d, NEW e, NEW mods, NEW n \in Nat, Runs(d, 0, mods, n)
  PROVE  /\ /\ "CTRL_LEFT" \in mods /\ Runs(e, 0, mods, n + 1) /\ n + 1 <= Len(T)
            /\ T[n + 1] = [code |-> NumDown, pressed |-> TRUE, prefix |-> 0]
            => Reads(d, NumDown, e, T)
         /\ "CTRL_LEFT" \notin mods => Reads(d, NumUp, d, T)
<1>1. IsLockFor(mods, NumDown) <=> "CTRL_LEFT" \notin mods
  BY SMTT(30) DEF IsLockFor, NumDown
<1>2. ASSUME "CTRL_LEFT" \in mods, Runs(e, 0, mods, n + 1), n + 1 <= Len(T),
             T[n + 1] = [code |-> NumDown, pressed |-> TRUE, prefix |-> 0]
      PROVE  ReadsKey(d, NumDown, e, T)
  <2>1. /\ e.n <= Len(T)
        /\ T[e.n] = [code |-> Code(NumDown), pressed |-> ~IsBreak(NumDown), prefix |-> d.prefix]
    BY <1>2, PauseCodes, Zenon DEF Runs
  <2> QED BY <1>1, <1>2, <2>1, PauseCodes DEF ReadsKey, Runs
<1>3. ASSUME "CTRL_LEFT" \notin mods PROVE ReadsLock(d, NumUp, d)
  BY <1>1, <1>3, PauseCodes, Zenon DEF ReadsLock, Runs
<1> QED BY <1>2, <1>3, Zenon DEF Runs, Reads

(* Decoder s reads Q and then has seen one event more than d. *)
ReadsEvent(s, Q, T, d) ==
  \E e \in Decoder : ReadsAll(s, Q, T, e) /\ Runs(e, 0, d.mods, d.n + 1)

LEMMA PauseSteps ==
  ASSUME NEW T, NEW P \in Seq(Octet), NEW B \in Seq(Octet), NEW s \in Decoder,
         NEW d \in Decoder, ReadsAll(s, P \o B, T, d), ~d.dead, "CTRL_LEFT" \notin d.mods,
         d.n + 1 <= Len(T), T[d.n + 1] = [code |-> NumDown, pressed |-> TRUE, prefix |-> 0]
  PROVE  ReadsEvent(s, P \o (B \o PauseBytes), T, d)
<1>1. PICK m \in SUBSET (KeyModifiers \ Locks), on \in SUBSET (KeyModifiers \ Locks) :
        m = d.mods /\ on = m \cup {"CTRL_LEFT"} /\ m = on \ {"CTRL_LEFT"}
  <2>1. d.mods \in SUBSET (KeyModifiers \ Locks)
    BY DEF Decoder
  <2>2. d.mods \cup {"CTRL_LEFT"} \in SUBSET (KeyModifiers \ Locks)
    BY ZenonT(30), SMTT(30), <2>1 DEF KeyModifiers, Locks
  <2>3. d.mods = (d.mods \cup {"CTRL_LEFT"}) \ {"CTRL_LEFT"}
    BY ZenonT(30), SMTT(30)
  <2> QED BY ZenonT(30), <2>1, <2>2, <2>3
<1>2. PICK n \in Nat, k \in Nat : n = d.n /\ k = n + 1
  BY DEF Decoder
<1>3. PREFIX2 \in {0, PREFIX1, PREFIX2} /\ 0 \in {0, PREFIX1, PREFIX2}
  BY Zenon
<1>4. PICK d1 \in Decoder, d2 \in Decoder : Runs(d1, PREFIX2, m, n) /\ Runs(d2, 0, on, n)
  BY <1>3, RunsSome, Zenon
<1>5. PICK d3 \in Decoder, d4 \in Decoder : Runs(d3, 0, on, k) /\ Runs(d4, PREFIX2, on, k)
  BY <1>3, RunsSome, Zenon
<1>6. PICK d5 \in Decoder : Runs(d5, 0, m, k)
  BY <1>3, RunsSome, Zenon
<1>7. Reads(d, PREFIX2, d1, T) /\ Reads(d3, PREFIX2, d4, T)
  BY <1>1, <1>2, <1>4, <1>5, PausePrefix, Zenon DEF Runs
<1>8. Reads(d1, CtrlDown, d2, T) /\ Reads(d4, CtrlUp, d5, T)
  BY <1>1, <1>4, <1>5, <1>6, PauseCtrl, Zenon
<1>9. Reads(d2, NumDown, d3, T) /\ Reads(d5, NumUp, d5, T)
  <2>1. "CTRL_LEFT" \in on /\ "CTRL_LEFT" \notin m
    BY <1>1
  <2>2. k <= Len(T) /\ T[k] = [code |-> NumDown, pressed |-> TRUE, prefix |-> 0]
    BY <1>2, Zenon
  <2> QED BY ZenonT(30), <1>2, <1>4, <1>5, <1>6, <2>1, <2>2, PauseNum
<1>10. PauseReads(d, d1, d2, d3, d4, d5, d5, T)
  BY <1>7, <1>8, <1>9, Zenon DEF PauseReads
<1>11. ReadsAll(s, P \o (B \o PauseBytes), T, d5)
  BY <1>10, ReadsPause, Zenon
<1> QED BY <1>1, <1>2, <1>6, <1>11, Zenon DEF ReadsEvent

LEMMA PauseAhead ==
  ASSUME Types, Ahead, NEW k \in Keys, IsPause(k), CtrlLeft \notin held,
         UNCHANGED <<held, shifting>>, buffer' = buffer \o PauseBytes,
         Record(k, TRUE), UNCHANGED <<prefix, gather, decoded, pc, out, command>>
  PROVE  Ahead'
<1> DEFINE x == [code |-> NumDown, pressed |-> TRUE, prefix |-> 0]
<1>1. PICK P \in Seq(Octet), d \in Decoder :
        /\ Pending' = P \o buffer' /\ ReadsAll(Now, P \o buffer, typed', d) /\ Expected(d)
  BY TypedReads, Zenon
<1>2. Now' = Now /\ Now \in Decoder /\ buffer \in Seq(Octet)
  BY TypedReads, Zenon
<1>3. x \in Entry /\ typed \in Seq(Entry) /\ typed' = Append(typed, x)
  <2>1. k.code = NumDown
    BY KeyOK DEF NumDown
  <2>2. Reported(k)
    BY <2>1 DEF Reported, Mods, NumDown
  <2>3. Stroke(k, TRUE) = x
    BY <2>1, Zenon DEF Stroke
  <2>4. typed \in Seq(Entry)
    BY DEF Types, KeyTypes
  <2> QED BY <2>2, <2>3, <2>4, StrokeOK, Zenon
<1>4. x = [code |-> NumDown, pressed |-> TRUE, prefix |-> 0]
  OBVIOUS
<1> HIDE DEF x
<1>5. /\ Len(typed) + 1 <= Len(typed') /\ Len(typed') = Len(typed) + 1
      /\ typed'[Len(typed) + 1] = x
  BY <1>3, TypedMore, Zenon
<1>6. ASSUME NEW e \in Decoder, ReadsAll(Now, P \o (buffer \o PauseBytes), typed', e), Expected(e)'
      PROVE  Ahead'
  <2>1. ReadsAll(Now', Pending', typed', e)
    BY <1>1, <1>2, <1>6, Zenon
  <2> QED BY <1>6, <2>1, Zenon DEF Ahead
<1>7. CASE d.dead
  <2>1. \A b : Reads(d, b, d, typed')
    BY <1>7, Zenon DEF Reads
  <2>2. PauseReads(d, d, d, d, d, d, d, typed')
    BY ZenonT(30), <2>1 DEF PauseReads
  <2>3. ReadsAll(Now, P \o (buffer \o PauseBytes), typed', d)
    BY <1>1, <1>2, <2>2, ReadsPause, Zenon
  <2>4. Expected(d)'
    BY <1>7, Zenon DEF Expected, Foretold
  <2> QED BY <1>6, <2>3, <2>4, Zenon
<1>8. CASE ~d.dead
  <2>1. /\ d.n = Len(typed) /\ Matches(d.mods) /\ ShiftHeld(d.mods)
        /\ \A l \in held : l.code < TableSize
    BY <1>1, <1>8, Zenon DEF Expected, Foretold
  <2>2. "CTRL_LEFT" \notin d.mods
    BY <2>1, Zenon DEF Matches
  <2>3. d.n + 1 <= Len(typed') /\ typed'[d.n + 1] = [code |-> NumDown, pressed |-> TRUE, prefix |-> 0]
    BY <1>4, <1>5, <2>1, Zenon
  <2>4. PICK e \in Decoder : /\ ReadsAll(Now, P \o (buffer \o PauseBytes), typed', e)
                             /\ ~e.dead /\ e.prefix = 0 /\ e.mods = d.mods /\ e.n = d.n + 1
    <3>1. ReadsEvent(Now, P \o (buffer \o PauseBytes), typed', d)
      BY <1>1, <1>2, <1>8, <2>2, <2>3, PauseSteps, Zenon
    <3> QED BY <3>1, Zenon DEF ReadsEvent, Runs
  <2>5. Expected(e)'
    <3>1. Matches(e.mods)'
      BY <2>1, <2>4 DEF Matches, Held
    <3>2. ShiftHeld(e.mods)'
      BY <2>1, <2>4 DEF ShiftHeld
    <3>3. e.n = Len(typed')
      BY <1>5, <2>1, <2>4, Zenon
    <3> QED BY ZenonT(30), <2>1, <2>4, <3>1, <3>2, <3>3 DEF Expected, Foretold
  <2> QED BY <1>6, <2>4, <2>5, Zenon
<1> QED BY <1>7, <1>8, Zenon

(* A key adds to what is typed; nothing is decoded yet. *)
LEMMA TypedIInv ==
  ASSUME IInv, NEW k \in Keys, NEW pressed \in BOOLEAN, Record(k, pressed),
         held' \in SUBSET Keys, shifting' \in SUBSET held', \A l \in held' : ~IsPause(l),
         buffer' \in Seq(Octet),
         UNCHANGED <<driver, queue, pc, out, command, lamps, decoded, chars>>,
         ~Panicked => Ahead'
  PROVE  IInv'
<1>1. UNCHANGED <<prefix, gather, leds>>
  BY DEF driver
<1>2. /\ Types /\ EventsInv /\ MouseInv /\ OrderInv /\ PressInv
      /\ ~Panicked => LedInv
  BY DEF IInv
<1> DEFINE x == Stroke(k, pressed)
<1>3. x \in Entry /\ typed \in Seq(Entry) /\ (typed' = typed \/ typed' = Append(typed, x))
  <2>1. typed \in Seq(Entry)
    BY <1>2 DEF Types, KeyTypes
  <2> QED BY <2>1, StrokeOK, Zenon
<1> HIDE DEF x
<1>4. /\ typed' \in Seq(Entry) /\ Len(typed) \in Nat /\ Len(typed) <= Len(typed')
      /\ \A i \in 1 .. Len(typed) : typed'[i] = typed[i]
  <2>1. CASE typed' = typed
    BY <1>3, <2>1, SeqDomain
  <2>2. CASE typed' = Append(typed, x)
    <3> DEFINE t == Append(typed, x)
    <3>1. /\ t \in Seq(Entry) /\ Len(typed) \in Nat /\ Len(t) = Len(typed) + 1
          /\ \A i \in 1 .. Len(typed) : t[i] = typed[i]
      BY <1>3, Appended
    <3> HIDE DEF t
    <3>2. Len(typed) <= Len(t)
      BY <3>1
    <3> QED BY ZenonT(30), <2>2, <3>1, <3>2 DEF t
  <2> QED BY <1>3, <2>1, <2>2, Zenon
<1>5. Types'
  <2>1. EventTypes' /\ DriverTypes' /\ LampTypes' /\ OutTypes'
    BY <1>1, <1>2 DEF Types, EventTypes, DriverTypes, LampTypes, OutTypes
  <2>2. KeyTypes'
    BY ZenonT(30), <1>4 DEF KeyTypes, IsPause
  <2> QED BY <2>1, <2>2, Zenon DEF Types
<1>6. EventsInv'
  <2>1. Len(decoded) \in Nat
    BY <1>2, NowOK, Zenon
  <2>2. Len(decoded) <= Len(typed)
    BY ZenonT(30), <1>2 DEF EventsInv
  <2>3. Len(decoded) <= Len(typed') /\ 1 .. Len(decoded) \subseteq 1 .. Len(typed)
    BY <1>4, <2>1, <2>2
  <2>4. \A i \in 1 .. Len(decoded) : typed'[i] = typed[i]
    BY ZenonT(30), <1>4, <2>3
  <2> QED BY <1>2, <2>3, <2>4 DEF EventsInv
<1>7. OrderInv' /\ PressInv'
  BY ZenonT(30), SMTT(30), <1>1, <1>2 DEF OrderInv, PressInv
<1>8. MouseInv' /\ (~Panicked' => LedInv' /\ ~Panicked)
  BY <1>1, <1>2 DEF MouseInv, LedInv, Answer, Panicked
<1> QED BY <1>5, <1>6, <1>7, <1>8, Zenon DEF IInv

LEMMA BytesOK ==
  ASSUME NEW k \in Keys, ~IsPause(k), NEW b \in Octet, NEW B \in Seq(Octet)
  PROVE  B \o Bytes(k, b) \in Seq(Octet)
<1>1. k.prefix \in Octet
  BY KeyOK DEF IsPause, PREFIX1, PREFIX2, Octet
<1>2. Bytes(k, b) \in Seq(Octet)
  <2>1. \A p \in Octet : <<b>> \in Seq(Octet) /\ <<p, b>> \in Seq(Octet)
    OBVIOUS
  <2> QED BY <1>1, <2>1, Zenon DEF Bytes
<1> QED BY <1>2, Joined, Zenon

LEMMA PressIInv ==
  ASSUME IInv, NEW k \in Keys, Press(k)
  PROVE  IInv'
<1>1. /\ k \notin held /\ (IsPause(k) => CtrlLeft \notin held)
      /\ held' = (IF IsPause(k) THEN held ELSE held \cup {k})
      /\ shifting' = (IF SendsShift(k) THEN shifting \cup {k} ELSE shifting)
      /\ Record(k, TRUE)
      /\ UNCHANGED <<driver, queue, pc, out, command, lamps, decoded, chars>>
  BY Zenon DEF Press
<1>2. SendsShift(k) => ~IsPause(k)
  BY DEF SendsShift, CursorBlock, IsPause, PREFIX1, PREFIX2
<1>3. buffer' = (IF SendsShift(k) THEN buffer \o ShiftDown ELSE buffer)
                \o (IF IsPause(k) THEN PauseBytes ELSE Bytes(k, k.code))
  <2>1. PauseBytes = <<225, 29, 69, 225, 157, 197>>
    BY DEF PauseBytes, PREFIX2, CtrlDown, NumDown, CtrlUp, NumUp
  <2> QED BY <2>1, Zenon DEF Press
<1>4. UNCHANGED <<prefix, gather>>
  BY <1>1 DEF driver
<1>5. /\ Types /\ (~Panicked => Ahead) /\ held \in SUBSET Keys /\ \A l \in held : ~IsPause(l)
      /\ shifting \in SUBSET held /\ buffer \in Seq(Octet)
  BY DEF IInv, Types, KeyTypes
<1>6. held' \in SUBSET Keys /\ shifting' \in SUBSET held' /\ \A l \in held' : ~IsPause(l)
  BY <1>1, <1>2, <1>5
<1>7. CASE IsPause(k)
  <2>1. held' = held /\ shifting' = shifting /\ CtrlLeft \notin held
    BY <1>1, <1>2, <1>7, Zenon
  <2>2. buffer' = buffer \o PauseBytes
    BY <1>2, <1>3, <1>7, Zenon
  <2>3. buffer' \in Seq(Octet)
    <3>1. PauseBytes \in Seq(Octet)
      BY PauseCodes DEF PauseBytes
    <3>2. buffer \o PauseBytes \in Seq(Octet)
      BY <1>5, <3>1, Joined
    <3> QED BY <2>2, <3>2, Zenon
  <2>4. ~Panicked => Ahead'
    BY <1>1, <1>4, <1>5, <1>7, <2>1, <2>2, PauseAhead, Zenon
  <2> QED BY <1>1, <1>6, <2>3, <2>4, TypedIInv, Zenon
<1>8. CASE ~IsPause(k)
  <2> DEFINE B == IF SendsShift(k) THEN buffer \o ShiftDown ELSE buffer
  <2>1. held' = held \cup {k} /\ buffer' = B \o Bytes(k, k.code)
    BY <1>1, <1>3, <1>8, Zenon
  <2>2. B \in Seq(Octet)
    <3>1. buffer \o <<PREFIX1, 42>> \in Seq(Octet)
      BY <1>5, JoinTwo, Appended DEF PREFIX1, Octet
    <3> QED BY <1>5, <3>1, Zenon DEF ShiftDown
  <2>3. buffer' \in Seq(Octet)
    <3> HIDE DEF B
    <3>1. k.code \in Octet
      BY KeyOK, CodeByte, Zenon
    <3> QED BY <1>8, <2>1, <2>2, <3>1, BytesOK, Zenon
  <2>4. ~Panicked => Ahead'
    BY <1>1, <1>4, <1>5, <1>8, <2>1, PressAhead, Zenon
  <2> QED BY <1>1, <1>6, <2>3, <2>4, TypedIInv, Zenon
<1> QED BY <1>7, <1>8, Zenon

LEMMA ReleaseIInv ==
  ASSUME IInv, NEW k \in Keys, Release(k)
  PROVE  IInv'
<1> DEFINE more == buffer \o Bytes(k, k.code + BREAK_BIT)
<1>1. /\ k \in held /\ held' = held \ {k} /\ shifting' = shifting \ {k}
      /\ buffer' = (IF k \in shifting THEN more \o ShiftUp ELSE more)
      /\ Record(k, FALSE)
      /\ UNCHANGED <<driver, queue, pc, out, command, lamps, decoded, chars>>
  BY Zenon DEF Release
<1>2. UNCHANGED <<prefix, gather>>
  BY <1>1 DEF driver
<1>3. /\ Types /\ (~Panicked => Ahead) /\ held \in SUBSET Keys /\ \A l \in held : ~IsPause(l)
      /\ shifting \in SUBSET held /\ buffer \in Seq(Octet)
  BY DEF IInv, Types, KeyTypes
<1>4. /\ held' \in SUBSET Keys /\ shifting' \in SUBSET held'
      /\ (\A l \in held' : ~IsPause(l)) /\ ~IsPause(k)
  BY <1>1, <1>3
<1>5. more \in Seq(Octet)
  <2>1. k.code + BREAK_BIT \in Octet
    BY KeyOK, CodeByte, Zenon
  <2> QED BY <1>3, <1>4, <2>1, BytesOK, Zenon
<1>6. more = buffer \o Bytes(k, k.code + BREAK_BIT)
  BY Zenon
<1> HIDE DEF more
<1>7. buffer' \in Seq(Octet)
  <2>1. more \o <<PREFIX1, 170>> \in Seq(Octet)
    BY <1>5, JoinTwo, Appended DEF PREFIX1, Octet
  <2> QED BY <1>1, <1>5, <2>1, Zenon DEF ShiftUp
<1>8. ~Panicked => Ahead'
  BY <1>1, <1>2, <1>3, <1>4, <1>5, <1>6, ReleaseAhead, Zenon
<1> QED BY <1>1, <1>4, <1>7, <1>8, TypedIInv, Zenon

-----------------------------------------------------------------------------
(* The theorems *)

LEMMA InitIInv ==
  ASSUME Init
  PROVE  IInv
<1>1. /\ prefix = 0 /\ leds = {} /\ queue = <<>> /\ pc = "idle"
      /\ gather = [ascii |-> None, scancode |-> None, modifiers |-> {}, pressed |-> FALSE]
      /\ held = {} /\ shifting = {} /\ buffer = <<>> /\ out = <<>> /\ command = "none" /\ lamps = {}
      /\ typed = <<>> /\ decoded = <<>> /\ chars = <<>>
  BY ZenonT(30) DEF Init
<1>2. gather \in KeyEvent /\ gather.modifiers = {} /\ gather.ascii = 0
  BY <1>1 DEF KeyEvent, None
<1>3. \A S : <<>> \in Seq(S)
  OBVIOUS
<1>4. Len(<<>>) = 0 /\ 1 .. 0 = {}
  OBVIOUS
<1>5. Types
  <2>1. QueueCapacity \in Nat
    BY KeyboardAssumption
  <2>2. EventTypes
    BY SMTT(30), <1>1, <1>3, <1>4, <2>1 DEF EventTypes
  <2>3. DriverTypes
    BY <1>1, <1>2 DEF DriverTypes
  <2>4. KeyTypes
    BY <1>1, <1>3 DEF KeyTypes
  <2>5. LampTypes /\ OutTypes
    BY ZenonT(30), SMTT(30), <1>1 DEF LampTypes, OutTypes
  <2> QED BY <2>2, <2>3, <2>4, <2>5, Zenon DEF Types
<1>6. EventsInv /\ PressInv
  BY SMTT(30), <1>1, <1>4 DEF EventsInv, PressInv
<1>7. MouseInv
  BY <1>1 DEF MouseInv
<1>8. OrderInv
  <2> DEFINE f == [i \in 1 .. 0 |-> 0]
  <2>1. Placed(f, <<>>, <<>>)
    BY <1>4 DEF Placed
  <2> HIDE DEF f
  <2>2. \A i \in 1 .. Len(chars), j \in 1 .. Len(queue) : f[i] < f[j]
    BY ZenonT(30), SMTT(30), <1>1, <1>4
  <2> QED BY <1>1, <2>1, <2>2, Zenon DEF OrderInv
<1>9. LedInv
  BY <1>1, <1>2 DEF LedInv, Answer
<1>10. Ahead
  <2>1. Pending = <<>>
    <3>1. Pending = <<>> \o <<>>
      BY <1>1, Zenon DEF Pending
    <3> QED BY <3>1
  <2>2. Now \in Decoder
    BY ZenonT(30), SMTT(30), <1>5, NowOK
  <2>3. Now.prefix = 0 /\ Now.n = Len(typed) /\ Now.mods = {}
    BY ZenonT(30), SMTT(30), <1>1, <1>2 DEF Now
  <2>4. Expected(Now)
    BY <1>1, <2>3 DEF Expected, Foretold, ShiftHeld, Matches, Held
  <2>5. ReadsAll(Now, Pending, typed, Now)
    BY <2>1, <2>2, ReadsNothing, Zenon
  <2> QED BY <2>2, <2>4, <2>5, Zenon DEF Ahead
<1> QED BY <1>5, <1>6, <1>7, <1>8, <1>9, <1>10, Zenon DEF IInv

LEMMA StutterIInv ==
  ASSUME IInv, UNCHANGED vars
  PROVE  IInv'
<1>1. UNCHANGED <<driver, queue, pc, hardware, out, history>>
  BY DEF vars
<1>2. UNCHANGED <<held, shifting, buffer, command, lamps, typed, decoded, chars, prefix, gather, leds>>
  BY <1>1 DEF hardware, history, driver
<1>3. Types /\ MouseInv /\ (~Panicked => LedInv)
  BY DEF IInv
<1>4. DriverTypes' /\ LampTypes' /\ OutTypes' /\ MouseInv'
  BY ZenonT(30), SMTT(30), <1>1, <1>2, <1>3 DEF Types, DriverTypes, LampTypes, OutTypes, MouseInv
<1>5. ~Panicked' => ~Panicked /\ LedInv' /\ Pending' = Pending
  BY <1>1, <1>2, <1>3 DEF Panicked, LedInv, Answer, Pending
<1> QED BY <1>1, <1>2, <1>4, <1>5, OtherIInv, Zenon

LEMMA NextIInv ==
  ASSUME IInv, [Next]_vars
  PROVE  IInv'
<1>1. CASE Trigger
  <2>1. CASE IgnoreMouse
    BY <2>1, IgnoreMouseIInv
  <2>2. ASSUME NEW b, Decode(b)
        PROVE  IInv'
    BY <2>2, DecodePrefixIInv, DecodeModifierIInv, DecodeLockIInv, DecodeKeyIInv,
       DecodePanicsIInv, Zenon DEF Decode
  <2> QED BY <1>1, <2>1, <2>2, Zenon DEF Trigger
<1>2. CASE SetLed
  BY <1>2, LedSendIInv, SetLedAnswerIInv, Zenon DEF SetLed
<1>3. CASE PollChar
  BY <1>3, PollCharIInv
<1>4. CASE Hardware
  BY <1>4, SendByteIInv, AcknowledgeIInv, MouseByteIInv, PressIInv, ReleaseIInv, Zenon DEF Hardware
<1>5. CASE UNCHANGED vars
  BY <1>5, StutterIInv
<1> QED BY <1>1, <1>2, <1>3, <1>4, <1>5, Zenon DEF Next

(* In every state the handler can reach, the bytes it has yet to read      *)
(* decode to the keys that were typed: what Keyboard::decode_byte, set_led *)
(* and poll_char leave behind always satisfies the inductive invariant.    *)
THEOREM KeyboardInvariance == Spec => []IInv
<1>1. Init => IInv
  BY InitIInv
<1>2. IInv /\ [Next]_vars => IInv'
  BY NextIInv
<1> QED BY <1>1, <1>2, PTL DEF Spec

LEMMA TypesOK ==
  ASSUME Types
  PROVE  TypeOK
<1>1. out \in Seq(Byte) /\ Len(out) <= 1
  <2>1. out = <<>> \/ \E o \in Byte : out = <<o>>
    BY DEF Types, OutTypes
  <2>2. \A S : <<>> \in Seq(S) /\ Len(<<>>) <= 1 /\ \A o \in S : <<o>> \in Seq(S) /\ Len(<<o>>) <= 1
    OBVIOUS
  <2> QED BY <2>1, <2>2, Zenon
<1>2. /\ prefix \in {0, PREFIX1, PREFIX2} /\ gather \in KeyEvent /\ leds \subseteq Locks
      /\ pc \in {"idle", "led_command", "ack_command", "led_data", "ack_data",
                 "panic_index", "panic_answer"}
  BY DEF Types, DriverTypes
<1>3. queue \in Seq([code : 1 .. 127, event : KeyEvent]) /\ Len(queue) <= QueueCapacity
  BY Zenon DEF Types, EventTypes, Coded
<1>4. held \subseteq Keys /\ shifting \subseteq held /\ buffer \in Seq(Octet)
  BY DEF Types, KeyTypes
<1>5. lamps \subseteq Locks /\ command \in {"none", "set_led", "await_data", "data"}
  BY DEF Types, LampTypes
<1> QED BY <1>1, <1>2, <1>3, <1>4, <1>5, Zenon DEF TypeOK, Octet

(* When nothing is on its way, the decoder has the state foretold. *)
LEMMA SettledOK ==
  ASSUME IInv, Settled
  PROVE  /\ prefix = 0 /\ Len(decoded) = Len(typed)
         /\ Matches(gather.modifiers \ Locks) /\ ShiftHeld(gather.modifiers \ Locks)
<1>1. pc = "idle" /\ buffer = <<>> /\ out = <<>> /\ Types /\ Ahead
  BY DEF Settled, IInv, Panicked
<1>2. Pending = <<>>
  <2>1. Pending = buffer
    BY <1>1, PendingOK, Zenon
  <2> QED BY <1>1, <2>1
<1>3. Now \in Decoder
  BY <1>1, NowOK
<1>4. PICK d \in Decoder : ReadsAll(Now, Pending, typed, d) /\ Expected(d)
  BY <1>1, Zenon DEF Ahead
<1>5. d = Now
  BY <1>2, <1>3, <1>4, ReadsNothing, Zenon
<1>6. ~Now.dead /\ Now.prefix = prefix /\ Now.n = Len(decoded) /\ Now.mods = gather.modifiers \ Locks
  BY DecoderFields
<1> QED BY <1>4, <1>5, <1>6, Zenon DEF Expected, Foretold

(* Whatever is typed in whatever order, with prefixes, modifiers, locks,   *)
(* mouse bytes and LED commands in between: decode_byte makes one event of *)
(* every press and release of an ordinary key, in order, with the scancode *)
(* of that key (its digit's, on the number block under NumLock), and none  *)
(* is outstanding when the bytes are used up.                              *)
THEOREM EventsMatch == Spec => []EventsMatchKeys
<1>1. IInv => EventsMatchKeys
  <2> SUFFICES ASSUME IInv PROVE EventsMatchKeys
    OBVIOUS
  <2>1. Types /\ EventsInv
    BY DEF IInv
  <2>2. TypeOK
    BY <2>1, TypesOK
  <2>3. DOMAIN decoded = 1 .. Len(decoded)
    BY <2>1, SeqDomain DEF Types, EventTypes
  <2>4. Settled => Len(decoded) = Len(typed)
    BY SettledOK
  <2>5. /\ Len(decoded) <= Len(typed)
        /\ \A i \in DOMAIN decoded :
             /\ typed[i].code = decoded[i].code /\ typed[i].pressed = decoded[i].event.pressed
             /\ decoded[i].event.scancode =
                  ScanEntry(typed[i].code, typed[i].prefix, decoded[i].event.modifiers)
    BY <2>1, <2>3, Zenon DEF EventsInv, Decodes
  <2> QED BY <2>2, <2>4, <2>5, Zenon DEF EventsMatchKeys
<1> QED BY <1>1, KeyboardInvariance, PTL

(* Once the bytes are used up, decode_byte's Ctrl and Alt modifiers are    *)
(* those of the keys held, and no prefix is left over for the next key.    *)
(* Shift is off unless a shift key is held, or a key of the cursor block   *)
(* that sent a Shift code of its own because NumLock was on.               *)
THEOREM ModifiersRelease == Spec => []NoStuckModifier
<1>1. IInv => NoStuckModifier
  <2> SUFFICES ASSUME IInv, Settled
               PROVE  /\ prefix = 0
                      /\ \A k \in Mods \ Shifts :
                           LET right == k.prefix = PREFIX1
                               m == IF k.code = 56 THEN IF right THEN "ALT_RIGHT" ELSE "ALT_LEFT"
                                    ELSE IF right THEN "CTRL_RIGHT" ELSE "CTRL_LEFT"
                           IN  k \in held <=> Active(m)
                      /\ Active("SHIFT") => held \cap (Shifts \cup shifting) # {}
    BY Zenon DEF NoStuckModifier
  <2>1. prefix = 0 /\ Matches(gather.modifiers \ Locks) /\ ShiftHeld(gather.modifiers \ Locks)
    BY ZenonT(30), SMTT(30), SettledOK
  <2>2. /\ Active("CTRL_LEFT") <=> [prefix |-> 0, code |-> 29] \in held
        /\ Active("CTRL_RIGHT") <=> [prefix |-> PREFIX1, code |-> 29] \in held
        /\ Active("ALT_LEFT") <=> [prefix |-> 0, code |-> 56] \in held
        /\ Active("ALT_RIGHT") <=> [prefix |-> PREFIX1, code |-> 56] \in held
    BY <2>1 DEF Matches, Held, CtrlLeft, Active, Locks
  <2>3. held \in SUBSET Keys /\ \A k \in held : ~IsPause(k)
    BY DEF IInv, Types, KeyTypes
  <2>4. Active("SHIFT") => held \cap (Shifts \cup shifting) # {}
    <3> SUFFICES ASSUME Active("SHIFT")
                 PROVE  \E k \in held : k \in Shifts \cup shifting
      OBVIOUS
    <3>1. PICK k \in held : k.code \in {42, 54} \/ k \in shifting
      BY <2>1 DEF ShiftHeld, Active, Locks
    <3>2. k.code \in {42, 54} => k \in Shifts
      BY <2>3 DEF Shifts, Mods
    <3> QED BY <3>1, <3>2
  <2>5. ASSUME NEW k \in Mods \ Shifts
        PROVE  k \in held <=> Active(IF k.code = 56
                                     THEN IF k.prefix = PREFIX1 THEN "ALT_RIGHT" ELSE "ALT_LEFT"
                                     ELSE IF k.prefix = PREFIX1 THEN "CTRL_RIGHT" ELSE "CTRL_LEFT")
    <3>1. k \in Keys /\ ~IsPause(k) /\ k.code \in {56, 29}
      BY DEF Mods, Shifts
    <3>2. k.prefix \in {0, PREFIX1} /\ k = [prefix |-> k.prefix, code |-> k.code] /\ PREFIX1 # 0
      BY <3>1, KeyOK DEF IsPause, PREFIX1, PREFIX2
    <3>3. CASE k.code = 56
      BY <2>2, <3>2, <3>3
    <3>4. CASE k.code = 29
      BY SMTT(30), <2>2, <3>2, <3>4
    <3> QED BY <3>1, <3>3, <3>4
  <2> QED BY <2>1, <2>4, <2>5, Zenon
<1> QED BY <1>1, KeyboardInvariance, PTL

(* When the handler has returned, set_led has brought the lamps of the     *)
(* keyboard to the lock modifiers the decoder uses, whatever bytes of keys *)
(* and mouse came between its commands and their answers.                  *)
THEOREM LedsShow == Spec => []LedsShowLocks
<1>1. IInv => LedsShowLocks
  BY DEF IInv, LedsShowLocks, LedInv, Panicked
<1> QED BY <1>1, KeyboardInvariance, PTL

(* What poll_char returns are decoded presses, in order and none twice,    *)
(* also when the queue was full in between; a key that has a character     *)
(* under the modifiers of its event is read as that character, whatever    *)
(* set_ascii has kept of the keys before it.                               *)
THEOREM CharsRead == Spec => []CharsFromPresses
<1>1. IInv => CharsFromPresses
  <2> SUFFICES ASSUME IInv PROVE CharsFromPresses
    OBVIOUS
  <2>1. Types /\ EventsInv /\ OrderInv /\ PressInv
    BY DEF IInv
  <2>2. DOMAIN decoded = 1 .. Len(decoded) /\ DOMAIN chars = 1 .. Len(chars)
    BY <2>1, SeqDomain DEF Types, EventTypes
  <2>3. PICK f : Placed(f, chars, decoded)
    BY <2>1, Zenon DEF OrderInv
  <2>4. /\ f \in [DOMAIN chars -> DOMAIN decoded]
        /\ \A i, j \in DOMAIN chars : i < j => f[i] < f[j]
        /\ \A i \in DOMAIN chars : chars[i] = decoded[f[i]]
    BY <2>2, <2>3, Zenon DEF Placed
  <2>5. ASSUME NEW i \in DOMAIN chars
        PROVE  LET key == typed[f[i]]
                   entry == TableEntry(key.code, key.prefix, chars[i].event.modifiers)
               IN  /\ chars[i] = decoded[f[i]] /\ chars[i].event.pressed
                   /\ entry # 0 => chars[i].event.ascii = entry
    <3>1. f[i] \in 1 .. Len(decoded)
      BY <2>2, <2>4
    <3>2. chars[i] = decoded[f[i]] /\ chars[i].event.pressed
      BY <2>1, <2>2, <2>4, Zenon DEF PressInv
    <3>3. Decodes(typed[f[i]], decoded[f[i]])
      BY <2>1, <3>1, Zenon DEF EventsInv
    <3> QED BY <3>2, <3>3, Zenon DEF Decodes
  <2> QED BY <2>4, <2>5, Zenon DEF CharsFromPresses
<1> QED BY <1>1, KeyboardInvariance, PTL
=============================================================================
