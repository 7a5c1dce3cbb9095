---------------------------- MODULE TarFsProofs -----------------------------
(***************************************************************************)
(* The file system in the ramdisk keeps its promises for any archive, any  *)
(* number of threads and of handles.                                       *)
(***************************************************************************)
EXTENDS TarFs, TLAPS

Results == {Nothing, FileNotFound, InvalidHandle, EndOfFile} \cup Nat \X Nat
HistoryOK ==
  result \in [Threads -> Results] /\ got \in [Handles -> Nat] /\ start \in [Handles -> Nat]

(* A thread between open's taking a number and the last use of its handle  *)
Active(t) == pc[t][1] \in {"insert", "size", "read", "close"}

(* Its handle is its own, and leads to the file it asked for, at the       *)
(* beginning until the thread has read.                                    *)
ClientOK(t) ==
  /\ Active(t) => handle[t] \in 0 .. nextHandle - 1 \ shared /\ file[t] \in Entries
  /\ pc[t][1] = "insert" => pc[t][2] \in Kinds /\ ~IsOpen(handle[t])
  /\ pc[t][1] \in {"size", "read", "close"} =>
       IsOpen(handle[t]) /\ Entry(handle[t]) = file[t]
  /\ pc[t][1] \in {"size", "read"} => Position(handle[t]) = 0
  /\ pc[t][1] = "size" => pc[t][2] = "load"
  /\ pc[t][1] = "read" => \/ pc[t][2] = "load" /\ size[t] = Size(file[t])
                          \/ pc[t][2] = "show"
  /\ pc[t][1] \in {"insert", "size", "read"} => result[t] = Nothing

(* What LoadsWhole says of the thread *)
Whole(t) ==
  result[t] \notin {Nothing, FileNotFound} =>
    result[t] = IF Size(file[t]) = 0 THEN EndOfFile
                ELSE <<0, Min2(Size(file[t]), size[t])>>

Private == \A t, u \in Threads : Active(t) /\ Active(u) /\ handle[t] = handle[u] => t = u
Numbered == DOMAIN openHandles \cup shared \subseteq 0 .. nextHandle - 1
Accounted ==
  /\ \A h \in shared : IsOpen(h) => start[h] + got[h] = Position(h)
  /\ \A h \in Handles \ shared : start[h] = 0 /\ got[h] = 0

IInv ==
  /\ TypeOK /\ HistoryOK /\ Private /\ Numbered /\ Accounted
  /\ \A t \in Threads : ClientOK(t) /\ Whole(t)

-----------------------------------------------------------------------------
(* The table of open handles *)

LEMMA WithOK ==
  ASSUME NEW h, NEW e, NEW p, openHandles' = With(h, e, p)
  PROVE  /\ DOMAIN openHandles' = DOMAIN openHandles \cup {h}
         /\ openHandles'[h].entry = e /\ openHandles'[h].position = p
         /\ \A k \in DOMAIN openHandles : k # h => openHandles'[k] = openHandles[k]
BY DEF With

LEMMA ClosedOK ==
  ASSUME NEW h, openHandles' = Closed(h)
  PROVE  /\ DOMAIN openHandles' = DOMAIN openHandles \ {h}
         /\ \A k \in DOMAIN openHandles' : openHandles'[k] = openHandles[k]
BY DEF Closed

(* What any operation does to the table: at most one handle is opened,     *)
(* moved within its file or closed.                                        *)
Touches(h) ==
  /\ DOMAIN openHandles' \subseteq DOMAIN openHandles \cup {h}
  /\ DOMAIN openHandles \ {h} \subseteq DOMAIN openHandles'
  /\ \A k \in DOMAIN openHandles : k # h => openHandles'[k] = openHandles[k]
  /\ h \in DOMAIN openHandles' =>
       /\ openHandles'[h].entry \in Entries
       /\ openHandles'[h].position \in 0 .. Size(openHandles'[h].entry)
       /\ h \in DOMAIN openHandles => openHandles'[h].entry = openHandles[h].entry

TableOK ==
  /\ DOMAIN openHandles \subseteq Handles
  /\ \A h \in DOMAIN openHandles :
       openHandles[h].entry \in Entries
         /\ openHandles[h].position \in 0 .. Size(openHandles[h].entry)

LEMMA TouchesOK ==
  ASSUME TableOK, NEW h \in Handles, Touches(h)
  PROVE  TableOK'
<1>1. DOMAIN openHandles' \subseteq Handles
  BY DEF TableOK, Touches
<1>2. ASSUME NEW k \in DOMAIN openHandles'
      PROVE  openHandles'[k].entry \in Entries
               /\ openHandles'[k].position \in 0 .. Size(openHandles'[k].entry)
  <2>1. CASE k = h
    BY <1>2, <2>1 DEF Touches
  <2>2. CASE k # h
    BY <1>2, <2>2 DEF Touches, TableOK
  <2> QED BY <2>1, <2>2
<1> QED BY <1>1, <1>2, Zenon DEF TableOK

LEMMA SizeOK == \A e \in Entries : Size(e) \in Nat
<1> DEFINE R == [name : Names, size : Nat]
<1>1. Archive \in Seq(R)
  BY TarFsAssumption
<1> HIDE DEF R
<1>2. \A e \in DOMAIN Archive : Archive[e] \in R
  BY <1>1
<1> QED BY <1>2 DEF Entries, Size, R

(* read leaves the position in the file, behind the bytes it returns. *)
LEMMA ReadToOK ==
  ASSUME NEW e \in Entries, NEW p \in 0 .. Size(e), NEW n \in Nat
  PROVE  ReadTo(e, p, n) \in p .. Size(e)
BY SizeOK DEF ReadTo, Min2

(* seek does so wherever it is sent. *)
LEMMA SeekToOK ==
  ASSUME NEW e \in Entries, NEW p \in 0 .. Size(e), NEW o \in Int,
         NEW mode \in {"Start", "Current", "End"}
  PROVE  SeekTo(e, p, o, mode) \in 0 .. Size(e)
<1>1. PICK new \in Int : SeekTo(e, p, o, mode) = Max2(0, Min2(new, Size(e)))
  <2>1. CASE mode = "Start"
    BY <2>1 DEF SeekTo
  <2>2. CASE mode = "Current"
    <3>1. p + o \in Int
      BY SizeOK
    <3> QED BY <2>2, <3>1 DEF SeekTo
  <2>3. CASE mode = "End"
    <3>1. Size(e) + o \in Int
      BY SizeOK
    <3> QED BY <2>3, <3>1 DEF SeekTo
  <2> QED BY <2>1, <2>2, <2>3
<1> QED BY <1>1, SizeOK DEF Min2, Max2

(* The three ways to touch a handle *)
LEMMA ReadsTouches ==
  ASSUME TableOK, NEW h, NEW n \in Nat, Reads(h, n)
  PROVE  /\ Touches(h) /\ DOMAIN openHandles' = DOMAIN openHandles
         /\ IF ~IsOpen(h) \/ AtEnd(h) THEN openHandles' = openHandles
            ELSE Position(h)' = ReadTo(Entry(h), Position(h), n)
<1>1. CASE ~IsOpen(h) \/ AtEnd(h)
  BY <1>1 DEF Reads, Touches, TableOK, IsOpen
<1>2. CASE IsOpen(h) /\ ~AtEnd(h)
  <2> DEFINE p == ReadTo(Entry(h), Position(h), n)
  <2>1. openHandles' = With(h, Entry(h), p)
    BY <1>2 DEF Reads
  <2>2. /\ Entry(h) \in Entries /\ Position(h) \in 0 .. Size(Entry(h))
    BY <1>2 DEF TableOK, IsOpen, Entry, Position
  <2>3. p \in 0 .. Size(Entry(h))
    BY <2>2, SizeOK, ReadToOK
  <2> HIDE DEF p
  <2> QED BY <1>2, <2>1, <2>2, <2>3, WithOK DEF Touches, IsOpen, Entry, Position, p
<1> QED BY <1>1, <1>2

LEMMA ClosedTouches ==
  ASSUME TableOK, NEW h, openHandles' = Closed(h)
  PROVE  Touches(h)
<1>1. /\ DOMAIN openHandles' = DOMAIN openHandles \ {h}
      /\ \A k \in DOMAIN openHandles' : openHandles'[k] = openHandles[k]
  BY ClosedOK, Zenon
<1> QED BY <1>1 DEF Touches

LEMMA InsertTouches ==
  ASSUME TableOK, NEW h, ~IsOpen(h), NEW e \in Entries, openHandles' = With(h, e, 0)
  PROVE  Touches(h)
<1>1. /\ DOMAIN openHandles' = DOMAIN openHandles \cup {h}
      /\ openHandles'[h].entry = e /\ openHandles'[h].position = 0
      /\ \A k \in DOMAIN openHandles : k # h => openHandles'[k] = openHandles[k]
  BY WithOK, Zenon
<1>2. 0 \in 0 .. Size(e)
  BY SizeOK
<1> QED BY <1>1, <1>2, Zenon DEF Touches, IsOpen

LEMMA SeekTouches ==
  ASSUME TableOK, NEW h, IsOpen(h), NEW p \in 0 .. Size(Entry(h)),
         openHandles' = With(h, Entry(h), p)
  PROVE  Touches(h)
<1>1. Entry(h) \in Entries
  BY DEF TableOK, IsOpen, Entry
<1> QED BY SMTT(30), <1>1, WithOK DEF Touches, IsOpen, Entry

-----------------------------------------------------------------------------
(* Threads that do not take the step *)

Same(u) ==
  /\ pc'[u] = pc[u] /\ file'[u] = file[u] /\ handle'[u] = handle[u]
  /\ size'[u] = size[u] /\ result'[u] = result[u]

LEMMA SameClient ==
  ASSUME NEW u \in Threads, Same(u), ClientOK(u), Whole(u), NEW h, Touches(h),
         Active(u) => h # handle[u] /\ handle[u] \notin shared',
         nextHandle \in Nat, nextHandle' \in Nat, nextHandle <= nextHandle'
  PROVE  ClientOK(u)' /\ Whole(u)'
<1>1. Whole(u)'
  BY DEF Whole, Same, Size
<1>2. Active(u) => handle'[u] \in 0 .. nextHandle' - 1 \ shared' /\ file'[u] \in Entries
  BY DEF ClientOK, Same
<1>3. Active(u)' = Active(u)
  BY DEF Active, Same
<1>4. ASSUME Active(u)
      PROVE  /\ IsOpen(handle[u])' <=> IsOpen(handle[u])
             /\ IsOpen(handle[u]) => openHandles'[handle[u]] = openHandles[handle[u]]
  BY <1>4 DEF IsOpen, Touches, Same
<1>5. ClientOK(u)'
  <2>1. CASE ~Active(u)
    BY <1>3, <2>1 DEF ClientOK, Active, Same
  <2>2. CASE Active(u)
    <3>1. /\ IsOpen(handle[u])' = IsOpen(handle[u])
          /\ IsOpen(handle[u]) => /\ Entry(handle[u])' = Entry(handle[u])
                                  /\ Position(handle[u])' = Position(handle[u])
      BY <1>4, <2>2 DEF Entry, Position, Same, IsOpen
    <3> QED BY <1>2, <1>3, <2>2, <3>1 DEF ClientOK, Same, Size, IsOpen, Entry, Position
  <2> QED BY <2>1, <2>2
<1> QED BY <1>1, <1>5

(* Steps of a thread on a handle of its own *)
Own(t) ==
  /\ t \in Threads /\ Active(t)
  /\ Touches(handle[t])
  /\ UNCHANGED <<file, handle, nextHandle>>
  /\ \A u \in Threads \ {t} : Same(u)

LEMMA OwnOthers ==
  ASSUME IInv, NEW t \in Threads, Own(t), shared' \subseteq shared \cup {handle[t]}
  PROVE  /\ \A u \in Threads \ {t} : ClientOK(u)' /\ Whole(u)'
         /\ Private' /\ Numbered' /\ TableOK' /\ shared' \subseteq Handles
<1>1. nextHandle \in Nat /\ nextHandle' \in Nat /\ nextHandle <= nextHandle'
  BY TarFsAssumption DEF IInv, TypeOK, Own
<1>2. ASSUME NEW u \in Threads \ {t} PROVE ClientOK(u)' /\ Whole(u)'
  <2>1. Active(u) => handle[t] # handle[u] /\ handle[u] \notin shared'
    BY DEF IInv, Private, Own, ClientOK
  <2>2. Same(u) /\ Touches(handle[t]) /\ ClientOK(u) /\ Whole(u) /\ u \in Threads
    BY DEF IInv, Own
  <2> QED BY <1>1, <2>1, <2>2, SameClient, Zenon
<1>3. handle[t] \in 0 .. nextHandle - 1 /\ handle[t] \in Handles
  BY <1>1, TarFsAssumption DEF IInv, ClientOK, Own, TypeOK, Handles
<1>4. Private'
  <2>1. \A u \in Threads : Active(u)' => Active(u)
    BY DEF Own, Same, Active
  <2> QED BY <2>1 DEF IInv, Private, Own
<1>5. Numbered'
  BY <1>3 DEF IInv, Numbered, Own, Touches
<1>6. TableOK'
  BY <1>3, TouchesOK DEF IInv, TypeOK, TableOK, Own
<1>7. shared' \subseteq Handles
  BY <1>3 DEF IInv, TypeOK
<1> QED BY <1>2, <1>4, <1>5, <1>6, <1>7

LEMMA OwnAccounted ==
  ASSUME IInv, NEW t \in Threads, Own(t), UNCHANGED share
  PROVE  Accounted'
<1>1. \A h \in shared : h # handle[t]
  BY DEF IInv, ClientOK, Own
<1>2. \A h \in shared : IsOpen(h)' => IsOpen(h) /\ openHandles'[h] = openHandles[h]
  BY <1>1 DEF Own, Touches, IsOpen
<1>3. \A h \in shared : IsOpen(h)' => start[h] + got[h] = Position(h)'
  BY <1>2 DEF IInv, Accounted, Position
<1> QED BY <1>3 DEF IInv, Accounted, share

Places == {"idle", "insert", "size", "read", "close", "panic"}

LEMMA GotoOK ==
  ASSUME TypeOK, NEW t \in Threads, NEW l \in Places, NEW k \in Kinds \cup {"none"},
         pc' = [pc EXCEPT ![t] = <<l, k>>]
  PROVE  /\ pc' \in [Threads -> Places \X (Kinds \cup {"none"})]
         /\ pc'[t][1] = l /\ pc'[t][2] = k /\ \A u \in Threads \ {t} : pc'[u] = pc[u]
BY DEF TypeOK, Places

(* Together: what a step must show of the thread that takes it *)
LEMMA OwnIInv ==
  ASSUME IInv, NEW t \in Threads, Own(t), shared' \subseteq shared \cup {handle[t]},
         pc' \in [Threads -> Places \X (Kinds \cup {"none"})], size' \in [Threads -> Nat],
         HistoryOK', Accounted', ClientOK(t)', Whole(t)'
  PROVE  IInv'
<1>1. /\ \A u \in Threads \ {t} : ClientOK(u)' /\ Whole(u)'
      /\ Private' /\ Numbered' /\ TableOK' /\ shared' \subseteq Handles
  BY OwnOthers, Zenon
<1>2. \A u \in Threads : ClientOK(u)' /\ Whole(u)'
  BY <1>1
<1>3. TypeOK'
  BY <1>1, Zenon DEF IInv, TypeOK, TableOK, Own, Places
<1> QED BY <1>1, <1>2, <1>3, Zenon DEF IInv

LEMMA InsertIInv ==
  ASSUME IInv, NEW t \in Threads, Insert(t)
  PROVE  IInv'
<1> DEFINE h == handle[t]
           e == file[t]
<1>1. /\ TypeOK /\ HistoryOK /\ Accounted /\ ClientOK(t) /\ Whole(t) /\ TableOK
      /\ pc[t][1] = "insert" /\ UNCHANGED <<file, handle, result, nextHandle, got, start>>
      /\ openHandles' = With(h, e, 0)
  BY DEF IInv, Insert, TypeOK, TableOK
<1>2. /\ Active(t) /\ h \in Handles \ shared /\ e \in Entries /\ ~IsOpen(h) /\ result[t] = Nothing
      /\ pc[t][2] \in Kinds
  BY <1>1, TarFsAssumption DEF Active, ClientOK, TypeOK, Handles
<1>3. Touches(h) /\ IsOpen(h)' /\ Entry(h)' = e /\ Position(h)' = 0
  <2>1. Touches(h)
    BY <1>1, <1>2, InsertTouches, Zenon
  <2>2. /\ DOMAIN openHandles' = DOMAIN openHandles \cup {h}
        /\ openHandles'[h].entry = e /\ openHandles'[h].position = 0
    <3>1. openHandles' = With(h, e, 0)
      BY <1>1
    <3> HIDE DEF h, e
    <3> QED BY ZenonT(30), <3>1, WithOK
  <2> QED BY <1>1, <2>1, <2>2 DEF IsOpen, Entry, Position
<1>4. HistoryOK' /\ Whole(t)'
  BY <1>1, <1>2 DEF HistoryOK, Whole
<1>5. /\ size' \in [Threads -> Nat] /\ \A u \in Threads \ {t} : size'[u] = size[u]
  BY <1>1, TarFsAssumption DEF Insert, TypeOK
<1>6. ASSUME NEW l \in Places, NEW k \in Kinds \cup {"none"},
             pc' = [pc EXCEPT ![t] = <<l, k>>],
             \/ l = "size" /\ k = "load" /\ UNCHANGED share
             \/ l = "read" /\ k = "show" /\ UNCHANGED share
             \/ l = "idle" /\ shared' = shared \cup {h} /\ UNCHANGED <<got, start>>
      PROVE  IInv'
  <2>1. /\ pc' \in [Threads -> Places \X (Kinds \cup {"none"})]
        /\ pc'[t][1] = l /\ pc'[t][2] = k /\ \A u \in Threads \ {t} : pc'[u] = pc[u]
    BY <1>1, <1>6, GotoOK, Zenon
  <2>2. Own(t) /\ shared' \subseteq shared \cup {h}
    BY ZenonT(30), <1>1, <1>2, <1>3, <1>5, <1>6, <2>1 DEF Own, Same, share
  <2>3. ClientOK(t)'
    BY <1>1, <1>2, <1>3, <1>6, <2>1 DEF ClientOK, Active, share
  <2>4. Accounted'
    <3>1. CASE UNCHANGED share
      BY ZenonT(30), SMTT(30), <2>2, <3>1, OwnAccounted
    <3>2. CASE shared' = shared \cup {h} /\ UNCHANGED <<got, start>>
      <4>1. \A k1 \in shared : IsOpen(k1)' => IsOpen(k1) /\ openHandles'[k1] = openHandles[k1]
        BY ZenonT(30), SMTT(30), <1>2, <1>3 DEF Touches, IsOpen
      <4>2. \A k1 \in shared : IsOpen(k1)' => start[k1] + got[k1] = Position(k1)'
        BY ZenonT(30), SMTT(30), <1>1, <4>1 DEF Accounted, Position
      <4>3. start[h] = 0 /\ got[h] = 0 /\ 0 + 0 = Position(h)'
        BY <1>1, <1>2, <1>3 DEF Accounted
      <4> QED BY ZenonT(30), SMTT(30), <1>1, <3>2, <4>2, <4>3 DEF Accounted
    <3> QED BY <1>6, <3>1, <3>2
  <2> QED BY <1>4, <1>5, <2>1, <2>2, <2>3, <2>4, OwnIInv, Zenon
<1>7. CASE pc[t][2] = "load"
  BY <1>1, <1>6, <1>7 DEF Insert, Goto, share, Places, Kinds
<1>8. CASE pc[t][2] = "show"
  BY <1>1, <1>6, <1>8 DEF Insert, Goto, share, Places, Kinds
<1>9. CASE pc[t][2] = "share"
  BY <1>1, <1>6, <1>9 DEF Insert, Idle, share, Places, Kinds
<1> QED BY <1>2, <1>7, <1>8, <1>9 DEF Kinds

LEMMA SizeIInv ==
  ASSUME IInv, NEW t \in Threads, ClientSize(t)
  PROVE  IInv'
<1> DEFINE h == handle[t]
           n == Size(file[t])
<1>1. /\ TypeOK /\ HistoryOK /\ ClientOK(t) /\ Whole(t) /\ TableOK /\ pc[t] = <<"size", "load">>
      /\ UNCHANGED <<file, handle, openHandles, nextHandle>> /\ UNCHANGED share
  BY DEF IInv, ClientSize, TypeOK, TableOK, fs
<1>2. pc[t][1] = "size" /\ pc[t][2] = "load" /\ Active(t)
  BY <1>1 DEF Active
<1>3. IsOpen(h) /\ Entry(h) = file[t] /\ Position(h) = 0 /\ result[t] = Nothing /\ file[t] \in Entries
  BY <1>1, <1>2 DEF ClientOK
<1>4. /\ size' = [size EXCEPT ![t] = n] /\ pc' = [pc EXCEPT ![t] = <<"read", "load">>]
      /\ result' = result /\ n \in Nat
  BY <1>1, <1>3, SizeOK DEF ClientSize, Goto
<1> HIDE DEF n
<1>5. /\ pc' \in [Threads -> Places \X (Kinds \cup {"none"})]
      /\ pc'[t][1] = "read" /\ pc'[t][2] = "load" /\ \A u \in Threads \ {t} : pc'[u] = pc[u]
  <2>1. "read" \in Places /\ "load" \in Kinds \cup {"none"}
    BY DEF Places, Kinds
  <2> QED BY <1>1, <1>4, <2>1, GotoOK, Zenon
<1>6. size' \in [Threads -> Nat] /\ size'[t] = n /\ \A u \in Threads \ {t} : size'[u] = size[u]
  BY <1>1, <1>4 DEF TypeOK
<1>7. Own(t)
  <2>1. Touches(h)
    BY ZenonT(30), SMTT(30), <1>1 DEF Touches, TableOK
  <2> QED BY <1>1, <1>2, <1>4, <1>5, <1>6, <2>1 DEF Own, Same
<1>8. ClientOK(t)'
  BY ZenonT(30), SMTT(30), <1>1, <1>2, <1>3, <1>4, <1>5, <1>6
     DEF ClientOK, Active, IsOpen, Entry, Position, Size, n, share
<1>9. HistoryOK' /\ Whole(t)'
  BY <1>1, <1>3, <1>4 DEF HistoryOK, Whole, share
<1>10. Accounted' /\ shared' \subseteq shared \cup {h}
  BY <1>1, <1>7, OwnAccounted DEF share
<1> QED BY <1>5, <1>6, <1>7, <1>8, <1>9, <1>10, OwnIInv, Zenon

(* What read returns from the beginning of a file *)
LEMMA FirstRead ==
  ASSUME NEW h, NEW e \in Entries, NEW n \in Nat, IsOpen(h), Entry(h) = e, Position(h) = 0
  PROVE  ReadResult(h, n) = IF Size(e) = 0 THEN EndOfFile ELSE <<0, Min2(Size(e), n)>>
BY SizeOK DEF ReadResult, AtEnd, ReadTo, Min2

LEMMA ReadIInv ==
  ASSUME IInv, NEW t \in Threads, ClientRead(t)
  PROVE  IInv'
<1> DEFINE h == handle[t]
           e == file[t]
           n == size[t]
           r == IF Size(e) = 0 THEN EndOfFile ELSE <<0, Min2(Size(e), n)>>
<1>1. /\ TypeOK /\ HistoryOK /\ ClientOK(t) /\ Whole(t) /\ TableOK /\ pc[t][1] = "read"
      /\ UNCHANGED <<file, handle, size, nextHandle>> /\ UNCHANGED share
  BY DEF IInv, ClientRead, TypeOK, TableOK
<1>2. /\ Active(t) /\ IsOpen(h) /\ Entry(h) = e /\ Position(h) = 0 /\ e \in Entries /\ n \in Nat
      /\ pc[t][2] \in {"load", "show"}
  BY <1>1 DEF Active, ClientOK, TypeOK
<1>3. ReadResult(h, n) = r
  BY <1>2, FirstRead, Zenon
<1>4. r \in Results /\ (Size(e) = 0 <=> Len(r) # 2)
  BY <1>2, SizeOK DEF Results, Min2, EndOfFile
<1>5. Reads(h, n) /\ result' = [result EXCEPT ![t] = r]
      /\ \/ pc' = [pc EXCEPT ![t] = <<"idle", "none">>]
         \/ pc' = [pc EXCEPT ![t] = <<"close", "show">>]
         \/ pc' = [pc EXCEPT ![t] = <<"panic", "show">>]
  BY <1>3 DEF ClientRead, Return, Goto, Idle
<1> HIDE DEF r
<1>6. Touches(h) /\ DOMAIN openHandles' = DOMAIN openHandles
  BY <1>1, <1>2, <1>5, ReadsTouches, Zenon
<1>7. PICK l \in {"idle", "close", "panic"}, k \in {"none", "show"} : pc' = [pc EXCEPT ![t] = <<l, k>>]
  BY <1>5
<1>8. /\ pc' \in [Threads -> Places \X (Kinds \cup {"none"})]
      /\ pc'[t][1] = l /\ pc'[t][2] = k /\ \A u \in Threads \ {t} : pc'[u] = pc[u]
  <2>1. l \in Places /\ k \in Kinds \cup {"none"}
    BY DEF Places, Kinds
  <2> QED BY <1>1, <1>7, <2>1, GotoOK, Zenon
<1>9. HistoryOK' /\ result'[t] = r /\ \A u \in Threads \ {t} : result'[u] = result[u]
  BY ZenonT(30), SMTT(30), <1>1, <1>4, <1>5 DEF HistoryOK, share
<1>10. Own(t)
  BY ZenonT(30), SMTT(30), <1>1, <1>2, <1>6, <1>8, <1>9 DEF Own, Same
<1>11. ClientOK(t)'
  <2>1. handle' = handle /\ file' = file /\ IsOpen(h)' /\ Entry(h)' = e
    BY ZenonT(30), SMTT(30), <1>1, <1>2, <1>6 DEF IsOpen, Touches, Entry
  <2> QED BY ZenonT(30), SMTT(30), <1>1, <1>2, <1>7, <1>8, <2>1 DEF ClientOK, Active, share
<1>12. Whole(t)' /\ size' \in [Threads -> Nat]
  BY ZenonT(30), SMTT(30), <1>1, <1>9 DEF Whole, r, TypeOK
<1>13. Accounted' /\ shared' \subseteq shared \cup {h}
  BY <1>1, <1>10, OwnAccounted DEF share
<1> QED BY <1>8, <1>9, <1>10, <1>11, <1>12, <1>13, OwnIInv, Zenon

LEMMA CloseIInv ==
  ASSUME IInv, NEW t \in Threads, ClientClose(t)
  PROVE  IInv'
<1> DEFINE h == handle[t]
<1>1. /\ TypeOK /\ HistoryOK /\ Whole(t) /\ TableOK /\ pc[t][1] = "close"
      /\ UNCHANGED <<file, handle, size, nextHandle>> /\ UNCHANGED share
      /\ pc' = [pc EXCEPT ![t] = <<"idle", "none">>] /\ openHandles' = Closed(h)
      /\ result' = [result EXCEPT ![t] = result[t]]
  BY DEF IInv, ClientClose, TypeOK, TableOK, Return, Idle
<1>2. result' = result /\ Active(t)
  BY <1>1 DEF HistoryOK, Active
<1>3. Touches(h)
  BY <1>1, ClosedTouches, Zenon
<1>4. /\ pc' \in [Threads -> Places \X (Kinds \cup {"none"})]
      /\ pc'[t][1] = "idle" /\ \A u \in Threads \ {t} : pc'[u] = pc[u]
  <2>1. "idle" \in Places /\ "none" \in Kinds \cup {"none"}
    BY DEF Places
  <2> QED BY <1>1, <2>1, GotoOK, Zenon
<1>5. Own(t) /\ ClientOK(t)'
  BY <1>1, <1>2, <1>3, <1>4 DEF Own, Same, ClientOK, Active
<1>6. HistoryOK' /\ Whole(t)' /\ size' \in [Threads -> Nat]
  BY <1>1, <1>2 DEF HistoryOK, Whole, share, TypeOK
<1>7. Accounted' /\ shared' \subseteq shared \cup {h}
  BY <1>1, <1>5, OwnAccounted DEF share
<1> QED BY <1>4, <1>5, <1>6, <1>7, OwnIInv, Zenon

-----------------------------------------------------------------------------
(* open, up to the number *)

LEMMA OpenIInv ==
  ASSUME IInv, NEW t \in Threads, NEW name \in Names,
         OpenMissing(t, name) \/ \E k \in Kinds : NextHandle(t, name, k)
  PROVE  IInv'
<1>1. /\ TypeOK /\ HistoryOK /\ Private /\ Numbered /\ Accounted /\ TableOK
      /\ UNCHANGED <<openHandles, size>> /\ UNCHANGED share /\ pc[t] = Idle
  BY DEF IInv, OpenMissing, NextHandle, TypeOK, TableOK, fs
<1>2. ~Active(t)
  BY <1>1 DEF Active, Idle
<1>3. nextHandle \in Nat /\ MaxOpens \in Nat
  BY <1>1, TarFsAssumption DEF TypeOK
<1>4. Touches(Free)
  BY <1>1 DEF Touches, TableOK
<1>5. ASSUME NEW l \in Places, NEW k \in Kinds \cup {"none"}, NEW r \in {Nothing, FileNotFound},
             NEW e \in Entries \cup {0}, NEW h \in Handles \cup {Free},
             nextHandle' \in nextHandle .. MaxOpens,
             pc' = [pc EXCEPT ![t] = <<l, k>>], result' = [result EXCEPT ![t] = r],
             file' = [file EXCEPT ![t] = e], handle' = [handle EXCEPT ![t] = h],
             \/ l = "idle"
             \/ /\ l = "insert" /\ k \in Kinds /\ e \in Entries /\ r = Nothing
                /\ h = nextHandle /\ nextHandle' = nextHandle + 1
      PROVE  IInv'
  <2>1. /\ pc' \in [Threads -> Places \X (Kinds \cup {"none"})]
        /\ pc'[t][1] = l /\ pc'[t][2] = k /\ \A u \in Threads \ {t} : pc'[u] = pc[u]
    BY ZenonT(30), <1>1, <1>5, GotoOK
  <2>2. /\ file' \in [Threads -> Entries \cup {0}] /\ handle' \in [Threads -> Handles \cup {Free}]
        /\ file'[t] = e /\ handle'[t] = h
        /\ \A u \in Threads \ {t} : file'[u] = file[u] /\ handle'[u] = handle[u]
    BY ZenonT(30), SMTT(30), <1>1, <1>5 DEF TypeOK
  <2>3. HistoryOK' /\ result'[t] = r /\ \A u \in Threads \ {t} : result'[u] = result[u]
    BY <1>1, <1>5 DEF HistoryOK, share, Results
  <2>4. nextHandle' \in Nat /\ nextHandle <= nextHandle' /\ nextHandle' \in 0 .. MaxOpens
    BY <1>3, <1>5
  <2>5. ASSUME NEW u \in Threads \ {t} PROVE ClientOK(u)' /\ Whole(u)'
    <3>1. Same(u)
      BY <1>1, <2>1, <2>2, <2>3 DEF Same
    <3>2. ClientOK(u) /\ Whole(u) /\ u \in Threads
      BY DEF IInv
    <3>3. Active(u) => Free # handle[u] /\ handle[u] \notin shared'
      <4>1. Active(u) => handle[u] \in 0 .. nextHandle - 1 \ shared
        BY <3>2, Zenon DEF ClientOK
      <4>2. shared' = shared
        BY <1>1 DEF share
      <4> QED BY <1>3, <4>1, <4>2 DEF Free
    <3> QED BY ZenonT(30), <1>3, <1>4, <2>4, <3>1, <3>2, <3>3, SameClient
  <2>6. ClientOK(t)'
    <3>1. CASE l = "idle"
      BY ZenonT(30), <2>1, <3>1 DEF ClientOK, Active
    <3>2. CASE /\ l = "insert" /\ k \in Kinds /\ e \in Entries /\ r = Nothing
               /\ h = nextHandle /\ nextHandle' = nextHandle + 1
      <4>1. h \in 0 .. nextHandle' - 1 /\ h \notin shared' /\ h \notin DOMAIN openHandles'
        BY <1>1, <1>3, <3>2 DEF Numbered, share
      <4> QED BY ZenonT(30), <2>1, <2>2, <2>3, <3>2, <4>1 DEF ClientOK, IsOpen
    <3> QED BY SMTT(30), <1>5, <3>1, <3>2
  <2>7. Whole(t)'
    BY <2>3, <1>5 DEF Whole
  <2>8. Private'
    <3>1. ASSUME NEW u \in Threads \ {t}, Active(u)', Active(t)' PROVE handle'[u] # handle'[t]
      <4>1. Active(u) /\ handle[u] \in 0 .. nextHandle - 1
        BY <2>1, <3>1 DEF Active, IInv, ClientOK
      <4>2. l = "insert"
        BY ZenonT(30), SMTT(30), <2>1, <3>1, <1>5 DEF Active
      <4> QED BY SMTT(30), <1>3, <1>5, <2>2, <4>1, <4>2
    <3>2. \A u, v \in Threads \ {t} :
            Active(u)' /\ Active(v)' /\ handle'[u] = handle'[v] => u = v
      BY SMTT(30), <1>1, <2>1, <2>2 DEF Private, Active
    <3> QED BY <3>1, <3>2 DEF Private
  <2>9. Numbered' /\ Accounted'
    BY <1>1, <1>3, <2>4 DEF Numbered, Accounted, IsOpen, Position, share
  <2>10. TypeOK'
    BY <1>1, <2>1, <2>2, <2>4, Zenon DEF TypeOK, Places, share
  <2>11. \A u \in Threads : ClientOK(u)' /\ Whole(u)'
    BY <2>5, <2>6, <2>7
  <2> QED BY <2>3, <2>8, <2>9, <2>10, <2>11, Zenon DEF IInv
<1>6. CASE OpenMissing(t, name)
  <2>1. /\ pc' = [pc EXCEPT ![t] = <<"idle", "none">>]
        /\ result' = [result EXCEPT ![t] = FileNotFound]
        /\ UNCHANGED <<file, handle, nextHandle>>
    BY ZenonT(30), <1>6 DEF OpenMissing, Return, Idle, fs
  <2>2. /\ file' = [file EXCEPT ![t] = file[t]] /\ handle' = [handle EXCEPT ![t] = handle[t]]
        /\ file[t] \in Entries \cup {0} /\ handle[t] \in Handles \cup {Free}
        /\ nextHandle' \in nextHandle .. MaxOpens
    BY <1>1, <1>3, <2>1 DEF TypeOK
  <2>3. "idle" \in Places /\ "none" \in Kinds \cup {"none"}
        /\ FileNotFound \in {Nothing, FileNotFound}
    BY DEF Places
  <2> QED BY <1>5, <2>1, <2>2, <2>3, Zenon
<1>7. ASSUME NEW k \in Kinds, NextHandle(t, name, k) PROVE IInv'
  <2>1. PICK e \in Entries : file' = [file EXCEPT ![t] = e]
    BY <1>7, Zenon DEF NextHandle
  <2>2. /\ handle' = [handle EXCEPT ![t] = nextHandle] /\ nextHandle' = nextHandle + 1
        /\ pc' = [pc EXCEPT ![t] = <<"insert", k>>]
        /\ result' = [result EXCEPT ![t] = Nothing] /\ nextHandle < MaxOpens
    BY <1>7 DEF NextHandle, Goto
  <2>3. /\ "insert" \in Places /\ k \in Kinds \cup {"none"} /\ e \in Entries \cup {0}
        /\ nextHandle \in Handles \cup {Free} /\ nextHandle' \in nextHandle .. MaxOpens
        /\ Nothing \in {Nothing, FileNotFound}
    BY <1>3, <2>2 DEF Places, Handles
  <2> QED BY <1>5, <2>1, <2>2, <2>3, Zenon
<1> QED BY ZenonT(30), SMTT(30), <1>6, <1>7

-----------------------------------------------------------------------------
(* Operations on a shared handle *)

LEMMA SharedIInv ==
  ASSUME IInv, NEW h \in shared, Touches(h), UNCHANGED <<client, nextHandle, shared>>,
         got' \in [Handles -> Nat], start' \in [Handles -> Nat],
         \A k \in Handles \ {h} : got'[k] = got[k] /\ start'[k] = start[k],
         h \in DOMAIN openHandles' => start'[h] + got'[h] = openHandles'[h].position
  PROVE  IInv'
<1>1. /\ TypeOK /\ HistoryOK /\ Private /\ Numbered /\ Accounted /\ TableOK
      /\ UNCHANGED <<pc, file, handle, size, result>>
  BY ZenonT(30), SMTT(30) DEF IInv, TypeOK, TableOK, client
<1>2. h \in Handles /\ h \in 0 .. nextHandle - 1 /\ nextHandle \in Nat /\ nextHandle <= nextHandle
  BY <1>1, TarFsAssumption DEF TypeOK, Numbered
<1>3. ASSUME NEW u \in Threads PROVE ClientOK(u)' /\ Whole(u)'
  <2>1. Same(u) /\ ClientOK(u) /\ Whole(u)
    BY SMTT(30), <1>1 DEF IInv, Same
  <2>2. Active(u) => h # handle[u] /\ handle[u] \notin shared'
    BY ZenonT(30), <2>1 DEF ClientOK
  <2>3. nextHandle' \in Nat /\ nextHandle <= nextHandle'
    BY <1>2
  <2> QED BY ZenonT(30), <1>2, <2>1, <2>2, <2>3, SameClient
<1>4. TableOK'
  BY <1>1, <1>2, TouchesOK, Zenon
<1>5. TypeOK' /\ HistoryOK'
  BY ZenonT(30), <1>1, <1>4 DEF TypeOK, TableOK, HistoryOK
<1>6. Private' /\ Numbered'
  BY SMTT(30), <1>1, <1>2 DEF Private, Active, Numbered, Touches
<1>7. Accounted'
  <2>1. ASSUME NEW k \in shared, k # h, k \in DOMAIN openHandles'
        PROVE  start'[k] + got'[k] = openHandles'[k].position
    <3>1. k \in Handles \ {h} /\ k \in DOMAIN openHandles /\ openHandles'[k] = openHandles[k]
      BY ZenonT(30), SMTT(30), <1>1, <2>1 DEF TypeOK, Touches
    <3> QED BY ZenonT(30), SMTT(30), <1>1, <2>1, <3>1 DEF Accounted, IsOpen, Position
  <2>2. \A k \in Handles \ shared : start'[k] = 0 /\ got'[k] = 0
    BY <1>1 DEF Accounted
  <2> QED BY <2>1, <2>2 DEF Accounted, IsOpen, Position
<1> QED BY ZenonT(30), <1>1, <1>3, <1>5, <1>6, <1>7 DEF IInv

LEMMA SharedReadIInv ==
  ASSUME IInv, NEW t \in Threads, NEW h \in shared, NEW n \in Chunks, SharedRead(t, h, n)
  PROVE  IInv'
<1> DEFINE r == ReadResult(h, n)
           d == IF Len(r) = 2 THEN r[2] - r[1] ELSE 0
<1>1. /\ TypeOK /\ HistoryOK /\ Accounted /\ TableOK /\ n \in Nat /\ h \in Handles
      /\ Reads(h, n) /\ UNCHANGED <<client, nextHandle, shared>> /\ start' = start
      /\ got' = [got EXCEPT ![h] = IF Len(r) = 2 THEN got[h] + (r[2] - r[1]) ELSE got[h]]
  BY TarFsAssumption DEF IInv, TypeOK, TableOK, SharedRead
<1>2. /\ Touches(h) /\ DOMAIN openHandles' = DOMAIN openHandles
      /\ IF ~IsOpen(h) \/ AtEnd(h) THEN openHandles' = openHandles
         ELSE openHandles'[h].position = ReadTo(Entry(h), Position(h), n)
  BY ZenonT(30), SMTT(30), <1>1, ReadsTouches DEF Position
<1>3. /\ d \in Nat
      /\ IsOpen(h) => openHandles'[h].position = Position(h) + d
  <2>1. CASE ~IsOpen(h) \/ AtEnd(h)
    <3>1. Len(r) = 1
      BY ZenonT(30), SMTT(30), <2>1 DEF ReadResult, InvalidHandle, EndOfFile
    <3> QED BY <1>1, <1>2, <2>1, <3>1 DEF Position, TableOK, IsOpen
  <2>2. CASE IsOpen(h) /\ ~AtEnd(h)
    <3>1. Entry(h) \in Entries /\ Position(h) \in 0 .. Size(Entry(h))
      BY <1>1, <2>2 DEF TableOK, IsOpen, Entry, Position
    <3>2. ReadTo(Entry(h), Position(h), n) \in Position(h) .. Size(Entry(h))
      BY <1>1, <3>1, ReadToOK
    <3>3. r = <<Position(h), ReadTo(Entry(h), Position(h), n)>>
      BY <2>2 DEF ReadResult
    <3>4. d = ReadTo(Entry(h), Position(h), n) - Position(h)
      BY <3>3
    <3> HIDE DEF d
    <3>5. Size(Entry(h)) \in Nat
      BY <3>1, SizeOK
    <3> QED BY SMTT(30), <1>2, <2>2, <3>1, <3>2, <3>4, <3>5
  <2> QED BY ZenonT(30), SMTT(30), <2>1, <2>2
<1>4. /\ got' \in [Handles -> Nat] /\ got'[h] = got[h] + d
      /\ \A k \in Handles \ {h} : got'[k] = got[k] /\ start'[k] = start[k]
  <2>1. d \in Nat
    BY <1>3
  <2>2. got' = [got EXCEPT ![h] = got[h] + d]
    <3>1. got[h] \in Nat
      BY <1>1 DEF HistoryOK
    <3>2. CASE Len(r) = 2
      BY <1>1, <3>2, Zenon
    <3>3. CASE Len(r) # 2
      <4>1. got[h] + d = got[h]
        BY <3>1, <3>3
      <4> QED BY <1>1, <3>3, <4>1, Zenon
    <3> QED BY <3>2, <3>3
  <2> HIDE DEF d
  <2> QED BY SMTT(30), <1>1, <2>1, <2>2 DEF HistoryOK
<1> HIDE DEF d
<1>5. start' \in [Handles -> Nat]
  BY SMTT(30), <1>1 DEF HistoryOK
<1>6. h \in DOMAIN openHandles' => start'[h] + got'[h] = openHandles'[h].position
  <2>1. IsOpen(h) => Position(h) = start[h] + got[h]
    BY <1>1 DEF Accounted
  <2>2. got[h] \in Nat /\ start[h] \in Nat
    BY <1>1 DEF HistoryOK
  <2>3. start'[h] = start[h]
    BY <1>1
  <2> QED BY <1>2, <1>3, <1>4, <2>1, <2>2, <2>3 DEF IsOpen
<1> QED BY ZenonT(30), <1>1, <1>2, <1>4, <1>5, <1>6, SharedIInv

LEMMA SharedSeekIInv ==
  ASSUME IInv, NEW t \in Threads, NEW h \in shared, NEW o \in Offsets,
         NEW mode \in {"Start", "Current", "End"}, SharedSeek(t, h, o, mode)
  PROVE  IInv'
<1> DEFINE p == SeekTo(Entry(h), Position(h), o, mode)
<1>1. /\ TypeOK /\ HistoryOK /\ TableOK /\ o \in Int /\ h \in Handles /\ IsOpen(h)
      /\ openHandles' = With(h, Entry(h), p) /\ UNCHANGED <<client, nextHandle, shared>>
      /\ start' = [start EXCEPT ![h] = p] /\ got' = [got EXCEPT ![h] = 0]
  BY ZenonT(30), SMTT(30), TarFsAssumption DEF IInv, TypeOK, TableOK, SharedSeek
<1>2. Entry(h) \in Entries /\ Position(h) \in 0 .. Size(Entry(h)) /\ Size(Entry(h)) \in Nat
  BY <1>1, SizeOK DEF TableOK, IsOpen, Entry, Position
<1>3. p \in 0 .. Size(Entry(h))
  BY <1>1, <1>2, SeekToOK, Zenon
<1> HIDE DEF p
<1>4. Touches(h) /\ openHandles'[h].position = p
  <2>1. openHandles' = With(h, Entry(h), p) /\ IsOpen(h) /\ TableOK
    BY <1>1
  <2> QED BY ZenonT(30), <1>3, <2>1, SeekTouches, WithOK
<1>5. /\ got' \in [Handles -> Nat] /\ start' \in [Handles -> Nat]
      /\ got'[h] = 0 /\ start'[h] = p /\ p + 0 = p
      /\ \A k \in Handles \ {h} : got'[k] = got[k] /\ start'[k] = start[k]
  BY <1>1, <1>2, <1>3 DEF HistoryOK
<1>6. h \in DOMAIN openHandles' => start'[h] + got'[h] = openHandles'[h].position
  BY <1>4, <1>5
<1> QED BY ZenonT(30), <1>1, <1>4, <1>5, <1>6, SharedIInv

LEMMA SharedCloseIInv ==
  ASSUME IInv, NEW t \in Threads, NEW h \in shared, SharedClose(t, h)
  PROVE  IInv'
<1>1. /\ HistoryOK /\ TableOK /\ openHandles' = Closed(h)
      /\ UNCHANGED <<client, nextHandle, shared>> /\ start' = start /\ got' = got
  BY DEF IInv, TypeOK, TableOK, SharedClose, share
<1>2. Touches(h) /\ h \notin DOMAIN openHandles'
  <2>1. Touches(h)
    BY <1>1, ClosedTouches, Zenon
  <2>2. DOMAIN openHandles' = DOMAIN openHandles \ {h}
    BY <1>1, ClosedOK, Zenon
  <2> QED BY <2>1, <2>2
<1>3. got' \in [Handles -> Nat] /\ start' \in [Handles -> Nat]
  BY <1>1 DEF HistoryOK
<1> QED BY ZenonT(30), <1>1, <1>2, <1>3, SharedIInv

-----------------------------------------------------------------------------
LEMMA InitIInv ==
  ASSUME Init
  PROVE  IInv
<1> USE DEF Init
<1>1. MaxOpens \in Nat /\ 0 \in 0 .. MaxOpens /\ DOMAIN <<>> = {} /\ Idle[1] = "idle"
  BY TarFsAssumption DEF Idle
<1>2. Idle \in Places \X (Kinds \cup {"none"}) /\ \A t \in Threads : pc[t] = Idle
  BY DEF Idle, Places
<1>3. TypeOK
  <2>1. /\ pc \in [Threads -> Places \X (Kinds \cup {"none"})]
        /\ file \in [Threads -> Entries \cup {0}] /\ handle \in [Threads -> Handles \cup {Free}]
        /\ size \in [Threads -> Nat]
    BY <1>2
  <2> QED BY <1>1, <2>1 DEF TypeOK, Places
<1>4. HistoryOK
  BY DEF HistoryOK, Results
<1>5. Numbered /\ Accounted
  BY <1>1 DEF Numbered, Accounted
<1>6. \A t \in Threads : ~Active(t)
  BY <1>1, <1>2 DEF Active
<1>7. Private /\ \A t \in Threads : ClientOK(t)
  BY <1>1, <1>2, <1>6 DEF Private, ClientOK
<1>8. \A t \in Threads : Whole(t)
  BY DEF Whole
<1> QED BY <1>3, <1>4, <1>5, <1>7, <1>8 DEF IInv

LEMMA NextIInv ==
  ASSUME IInv, [Next]_vars
  PROVE  IInv'
<1>1. CASE UNCHANGED vars
  <2>1. UNCHANGED <<pc, file, handle, size, result>> /\ UNCHANGED <<openHandles, nextHandle>>
        /\ UNCHANGED <<shared, got, start>>
    BY ZenonT(30), SMTT(30), <1>1 DEF vars, client, fs, share
  <2>2. TypeOK' /\ HistoryOK'
    BY ZenonT(30), SMTT(30), <2>1 DEF IInv, TypeOK, HistoryOK
  <2>3. Private' /\ Numbered' /\ Accounted'
    BY ZenonT(30), SMTT(30), <2>1 DEF IInv, Private, Active, Numbered, Accounted, IsOpen, Position
  <2>4. \A t \in Threads : ClientOK(t)' /\ Whole(t)'
    BY <2>1 DEF IInv, ClientOK, Whole, Active, IsOpen, Entry, Position
  <2> QED BY <2>2, <2>3, <2>4 DEF IInv
<1>2. CASE Next
  BY <1>2, OpenIInv, InsertIInv, SizeIInv, ReadIInv, CloseIInv, SharedReadIInv,
     SharedSeekIInv, SharedCloseIInv, Zenon DEF Next
<1> QED BY <1>1, <1>2

-----------------------------------------------------------------------------
(* Theorems *)

(* The invariant of the file system and its users: a number that open has  *)
(* taken belongs to one thread until that thread is done or shares it, and *)
(* leads to the file asked for; a shared handle is where its readers and   *)
(* the last seek have left it.                                             *)
THEOREM Invariance == Spec => []IInv
<1>1. Init => IInv
  BY InitIInv
<1>2. IInv /\ [Next]_vars => IInv'
  BY NextIInv
<1> QED BY <1>1, <1>2, PTL DEF Spec

(* read_from_file and play get the whole file, print_file its beginning,   *)
(* whatever others do with the file system between size and read.          *)
THEOREM FilesLoadWhole == Spec => []LoadsWhole
<1>1. IInv => LoadsWhole
  <2> SUFFICES ASSUME IInv, NEW t \in Threads
               PROVE  /\ pc[t] = <<"read", "load">> => size[t] = Size(file[t])
                      /\ result[t] \notin {Nothing, FileNotFound} =>
                           result[t] = IF Size(file[t]) = 0 THEN EndOfFile
                                       ELSE <<0, Min2(Size(file[t]), size[t])>>
    BY ZenonT(30) DEF LoadsWhole
  <2>1. pc[t] = <<"read", "load">> => size[t] = Size(file[t])
    BY DEF IInv, ClientOK
  <2>2. Whole(t)
    BY ZenonT(30), SMTT(30) DEF IInv
  <2> QED BY <2>1, <2>2, Zenon DEF Whole
<1> QED BY <1>1, Invariance, PTL

(* Threads that read from one handle share out its bytes: read and seek    *)
(* never return a byte twice, skip one or pass the end.                    *)
THEOREM BytesSharedOnce == Spec => []SharedOnce
<1>1. IInv => SharedOnce
  BY DEF IInv, Accounted, SharedOnce, IsOpen
<1> QED BY <1>1, Invariance, PTL

(* next_handle gives every number once: what close has removed from        *)
(* open_handles stays removed, and no handle changes its file.             *)
THEOREM HandlesStayClosed == Spec => ClosedForever
<1> DEFINE P == /\ \A h \in DOMAIN openHandles \cap DOMAIN openHandles' :
                     openHandles'[h].entry = openHandles[h].entry
                /\ \A h \in shared \ DOMAIN openHandles : h \notin DOMAIN openHandles'
<1>1. IInv /\ [Next]_vars => [P]_vars
  <2> SUFFICES ASSUME IInv, Next PROVE P
    BY ZenonT(30), SMTT(30)
  <2>0. TableOK
    BY DEF IInv, TypeOK, TableOK
  <2>1. ASSUME NEW h, Touches(h), h \in shared => (IsOpen(h) \/ h \notin DOMAIN openHandles')
        PROVE  P
    BY <2>1 DEF Touches, IsOpen
  <2>2. CASE openHandles' = openHandles
    BY <2>2
  <2> HIDE DEF P
  <2>3. ASSUME NEW t \in Threads, NEW name \in Names,
               OpenMissing(t, name) \/ \E k \in Kinds : NextHandle(t, name, k)
        PROVE  P
    BY <2>2, <2>3, Zenon DEF OpenMissing, NextHandle, fs
  <2>4. ASSUME NEW t \in Threads, Insert(t) PROVE P
    <3>1. /\ ~IsOpen(handle[t]) /\ handle[t] \notin shared /\ file[t] \in Entries
          /\ openHandles' = With(handle[t], file[t], 0)
      BY ZenonT(30), <2>4 DEF IInv, ClientOK, Active, Insert
    <3> QED BY ZenonT(30), <2>0, <2>1, <3>1, InsertTouches
  <2>5. ASSUME NEW t \in Threads, ClientSize(t) PROVE P
    BY <2>2, <2>5, Zenon DEF ClientSize, fs
  <2>6. ASSUME NEW h, NEW n \in Nat, Reads(h, n) PROVE P
    <3>1. Touches(h) /\ DOMAIN openHandles' = DOMAIN openHandles
      BY <2>0, <2>6, ReadsTouches, Zenon
    <3> QED BY <2>1, <3>1, Zenon DEF IsOpen
  <2>7. ASSUME NEW t \in Threads, ClientRead(t) PROVE P
    <3>1. size[t] \in Nat /\ Reads(handle[t], size[t])
      BY ZenonT(30), <2>7 DEF IInv, TypeOK, ClientRead
    <3> QED BY ZenonT(30), <2>6, <3>1
  <2>8. ASSUME NEW h, openHandles' = Closed(h) PROVE P
    <3>1. Touches(h) /\ DOMAIN openHandles' = DOMAIN openHandles \ {h}
      BY ZenonT(30), <2>0, <2>8, ClosedTouches, ClosedOK
    <3>2. h \notin DOMAIN openHandles'
      BY <3>1
    <3> QED BY <2>1, <3>1, <3>2, Zenon
  <2>9. ASSUME NEW t \in Threads, ClientClose(t) PROVE P
    BY <2>8, <2>9, Zenon DEF ClientClose
  <2>10. ASSUME NEW t \in Threads, NEW h \in shared, NEW n \in Chunks, SharedRead(t, h, n)
         PROVE  P
    <3>1. n \in Nat /\ Reads(h, n)
      BY <2>10, TarFsAssumption DEF SharedRead
    <3> QED BY <2>6, <3>1, Zenon
  <2>11. ASSUME NEW t \in Threads, NEW h \in shared, NEW o \in Offsets,
                NEW mode \in {"Start", "Current", "End"}, SharedSeek(t, h, o, mode)
         PROVE  P
    <3> DEFINE p == SeekTo(Entry(h), Position(h), o, mode)
    <3>1. IsOpen(h) /\ openHandles' = With(h, Entry(h), p) /\ o \in Int
      BY <2>11, TarFsAssumption DEF SharedSeek
    <3>2. Entry(h) \in Entries /\ Position(h) \in 0 .. Size(Entry(h))
      BY <2>0, <3>1 DEF TableOK, IsOpen, Entry, Position
    <3>3. p \in 0 .. Size(Entry(h))
      BY <3>1, <3>2, SeekToOK, Zenon
    <3> HIDE DEF p
    <3>4. Touches(h)
      BY <2>0, <3>1, <3>3, SeekTouches, Zenon
    <3> QED BY <2>1, <3>1, <3>4, Zenon
  <2>12. ASSUME NEW t \in Threads, NEW h \in shared, SharedClose(t, h) PROVE P
    BY <2>8, <2>12, Zenon DEF SharedClose
  <2> QED BY ZenonT(30), <2>3, <2>4, <2>5, <2>7, <2>9, <2>10, <2>11, <2>12 DEF Next
<1> HIDE DEF P
<1>2. Spec => [][P]_vars
  BY <1>1, Invariance, PTL DEF Spec
<1> QED BY <1>2 DEF ClosedForever, P
=============================================================================
