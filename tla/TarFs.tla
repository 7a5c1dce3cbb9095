------------------------------- MODULE TarFs --------------------------------
(***************************************************************************)
(* The file system in the initial ramdisk, and threads that use it: ones   *)
(* that load a whole file (Bitmap::read_from_file, peanut_gb::play), ones  *)
(* that show the beginning of a file (print_file), and ones that share a   *)
(* handle, which is Copy, and read, seek and close as they like.           *)
(*                                                                         *)
(* A byte is known by its place in its file, so a read returns an interval *)
(* <<from, to>>, without to.  Every operation locks open_handles for all   *)
(* its work, so it is one step; open takes a number first, and that is a   *)
(* step of its own.  got and start are history.                            *)
(*                                                                         *)
(* An operator Name_Defect is Name with a plausible mistake in the code;   *)
(* it is not part of the specification.                                    *)
(***************************************************************************)
EXTENDS Integers, Sequences, FiniteSets

CONSTANTS
  Threads,
  Archive,     \* the entries of the archive: records with name and size
  Names,       \* the paths asked for
  BufferSize,  \* the buffer of print_file
  Chunks,      \* the buffers of those who share a handle
  Offsets,     \* where they seek
  MaxOpens     \* bound on calls of open

Entries == DOMAIN Archive
Kinds == {"load", "show", "share"}
Free == -1

ASSUME TarFsAssumption ==
  /\ Archive \in Seq([name : Names, size : Nat])
  /\ BufferSize \in Nat \ {0} /\ Chunks \subseteq Nat /\ Offsets \subseteq Int
  /\ MaxOpens \in Nat

VARIABLES
  openHandles, \* TarFs::open_handles: by handle, the entry and the position
  nextHandle,  \* TarFs::next_handle
  pc,          \* where each thread is
  file,        \* the entry it has found
  handle,      \* its handle, or Free
  size,        \* the size of its buffer
  result,      \* what it has read, or the error
  shared,      \* the handles that threads share
  got,         \* of a shared handle: bytes read since the last seek
  start        \* of a shared handle: where that seek led

client == <<pc, file, handle, size, result>>
fs     == <<openHandles, nextHandle>>
share  == <<shared, got, start>>
vars   == <<client, fs, share>>

Handles == 0 .. MaxOpens - 1
Size(e) == Archive[e].size
FileNotFound == <<"FileNotFound">>
InvalidHandle == <<"InvalidHandle">>
EndOfFile == <<"EndOfFile">>
Nothing == <<"nothing">>

(* Types; a position is never beyond the end of its file.                  *)
TypeOK ==
  /\ DOMAIN openHandles \subseteq Handles /\ nextHandle \in 0 .. MaxOpens
  /\ \A h \in DOMAIN openHandles :
       openHandles[h].entry \in Entries
         /\ openHandles[h].position \in 0 .. Size(openHandles[h].entry)
  /\ pc \in [Threads -> {"idle", "insert", "size", "read", "close", "panic"} \X (Kinds \cup {"none"})]
  /\ file \in [Threads -> Entries \cup {0}]
  /\ handle \in [Threads -> Handles \cup {Free}] /\ size \in [Threads -> Nat]
  /\ shared \subseteq Handles

Idle == <<"idle", "none">>

Init ==
  /\ openHandles = <<>> /\ nextHandle = 0
  /\ pc = [t \in Threads |-> Idle] /\ file = [t \in Threads |-> 0]
  /\ handle = [t \in Threads |-> Free] /\ size = [t \in Threads |-> 0]
  /\ result = [t \in Threads |-> Nothing]
  /\ shared = {} /\ got = [h \in Handles |-> 0] /\ start = [h \in Handles |-> 0]

Goto(t, l, kind) == pc' = [pc EXCEPT ![t] = <<l, kind>>]
Return(t, r) ==
  /\ pc' = [pc EXCEPT ![t] = Idle]
  /\ result' = [result EXCEPT ![t] = r]
-----------------------------------------------------------------------------
(* open: the first entry of that name, a number, and the insertion *)

OpenMissing(t, name) ==
  /\ pc[t] = Idle
  /\ \A e \in Entries : Archive[e].name # name
  /\ Return(t, FileNotFound)
  /\ UNCHANGED <<file, handle, size, fs, share>>

NextHandle_CountsOpen(t, name, kind) ==
  /\ pc[t] = Idle /\ nextHandle < MaxOpens
  /\ \E e \in Entries :
       /\ Archive[e].name = name
       /\ \A d \in 1 .. e - 1 : Archive[d].name # name
       /\ file' = [file EXCEPT ![t] = e]
  /\ handle' = [handle EXCEPT ![t] = Cardinality(DOMAIN openHandles)]
  /\ nextHandle' = nextHandle + 1
  /\ Goto(t, "insert", kind)
  /\ result' = [result EXCEPT ![t] = Nothing]
  /\ UNCHANGED <<openHandles, size, share>>

NextHandle(t, name, kind) ==
  /\ pc[t] = Idle /\ nextHandle < MaxOpens
  /\ \E e \in Entries :
       /\ Archive[e].name = name
       /\ \A d \in 1 .. e - 1 : Archive[d].name # name
       /\ file' = [file EXCEPT ![t] = e]
  /\ handle' = [handle EXCEPT ![t] = nextHandle]
  /\ nextHandle' = nextHandle + 1
  /\ Goto(t, "insert", kind)
  /\ result' = [result EXCEPT ![t] = Nothing]
  /\ UNCHANGED <<openHandles, size, share>>

With(h, e, p) ==
  [k \in DOMAIN openHandles \cup {h} |->
     IF k = h THEN [entry |-> e, position |-> p] ELSE openHandles[k]]

Insert(t) ==
  /\ pc[t][1] = "insert"
  /\ openHandles' = With(handle[t], file[t], 0)
  /\ \/ pc[t][2] = "load" /\ Goto(t, "size", "load") /\ UNCHANGED <<size, shared>>
     \/ /\ pc[t][2] = "show" /\ Goto(t, "read", "show")
        /\ size' = [size EXCEPT ![t] = BufferSize] /\ UNCHANGED shared
     \/ /\ pc[t][2] = "share" /\ pc' = [pc EXCEPT ![t] = Idle]
        /\ shared' = shared \cup {handle[t]} /\ UNCHANGED size
  /\ UNCHANGED <<file, handle, result, nextHandle, got, start>>
-----------------------------------------------------------------------------
(* read and seek: where they leave the position, and what read returns *)

Min2(a, b) == IF a < b THEN a ELSE b
Max2(a, b) == IF a > b THEN a ELSE b

(* The position after a read into a buffer of n bytes *)
ReadTo(e, p, n) == p + Min2(Size(e) - p, n)

(* The position after a seek; the sum is taken in isize by the code, and   *)
(* is one of small numbers here, so that its overflow is left out.         *)
SeekTo(e, p, offset, mode) ==
  LET new == CASE mode = "Start" -> offset
               [] mode = "Current" -> p + offset
               [] mode = "End" -> Size(e) + offset
  IN  Max2(0, Min2(new, Size(e)))

IsOpen(h) == h \in DOMAIN openHandles
Entry(h) == openHandles[h].entry
Position(h) == openHandles[h].position
AtEnd(h) == Position(h) >= Size(Entry(h))

(* What read returns *)
ReadResult(h, n) ==
  IF ~IsOpen(h) THEN InvalidHandle
  ELSE IF AtEnd(h) THEN EndOfFile
  ELSE <<Position(h), ReadTo(Entry(h), Position(h), n)>>

Reads_FromStart(h, n) ==
  openHandles' = IF ~IsOpen(h) \/ AtEnd(h) THEN openHandles
                 ELSE With(h, Entry(h), Min2(Size(Entry(h)) - Position(h), n))

Reads(h, n) ==
  openHandles' = IF ~IsOpen(h) \/ AtEnd(h) THEN openHandles
                 ELSE With(h, Entry(h), ReadTo(Entry(h), Position(h), n))

Closed(h) == [k \in DOMAIN openHandles \ {h} |-> openHandles[k]]
-----------------------------------------------------------------------------
(* The clients *)

ClientSize(t) ==
  /\ pc[t] = <<"size", "load">>
  /\ IF IsOpen(handle[t])
     THEN /\ size' = [size EXCEPT ![t] = Size(Entry(handle[t]))]
          /\ Goto(t, "read", "load") /\ UNCHANGED result
     ELSE Return(t, InvalidHandle) /\ UNCHANGED size
  /\ UNCHANGED <<file, handle, fs, share>>

(* The loaders keep their handle open; print_file goes on to close it,     *)
(* unless read fails, when its unwrap panics.                              *)
ClientRead(t) ==
  /\ pc[t][1] = "read"
  /\ LET r == ReadResult(handle[t], size[t])
     IN  IF pc[t][2] = "load"
         THEN Return(t, r)
         ELSE Goto(t, IF Len(r) = 2 THEN "close" ELSE "panic", "show") /\ result' = [result EXCEPT ![t] = r]
  /\ Reads(handle[t], size[t])
  /\ UNCHANGED <<file, handle, size, nextHandle, share>>

ClientClose(t) ==
  /\ pc[t][1] = "close"
  /\ openHandles' = Closed(handle[t])
  /\ Return(t, result[t])
  /\ UNCHANGED <<file, handle, size, nextHandle, share>>

SharedRead(t, h, n) ==
  /\ pc[t] = Idle
  /\ Reads(h, n)
  /\ got' = [got EXCEPT ![h] =
       IF Len(ReadResult(h, n)) = 2 THEN @ + (ReadResult(h, n)[2] - ReadResult(h, n)[1]) ELSE @]
  /\ UNCHANGED <<client, nextHandle, shared, start>>

SharedSeek(t, h, offset, mode) ==
  /\ pc[t] = Idle /\ IsOpen(h)
  /\ LET p == SeekTo(Entry(h), Position(h), offset, mode)
     IN  openHandles' = With(h, Entry(h), p) /\ start' = [start EXCEPT ![h] = p]
  /\ got' = [got EXCEPT ![h] = 0]
  /\ UNCHANGED <<client, nextHandle, shared>>

SharedClose(t, h) ==
  /\ pc[t] = Idle
  /\ openHandles' = Closed(h)
  /\ UNCHANGED <<client, nextHandle, share>>

Next ==
  \E t \in Threads :
    \/ \E name \in Names : OpenMissing(t, name) \/ \E k \in Kinds : NextHandle(t, name, k)
    \/ Insert(t) \/ ClientSize(t) \/ ClientRead(t) \/ ClientClose(t)
    \/ \E h \in shared :
         \/ \E n \in Chunks : SharedRead(t, h, n)
         \/ \E o \in Offsets, mode \in {"Start", "Current", "End"} : SharedSeek(t, h, o, mode)
         \/ SharedClose(t, h)

Spec == Init /\ [][Next]_vars
-----------------------------------------------------------------------------
(* A thread that loads a file has a buffer for all of it, and gets it from *)
(* the first byte to the last; print_file gets as much of the beginning as *)
(* its buffer holds; whatever other threads open, read, seek and close     *)
(* between their steps.  Only for an empty file is there an error,         *)
(* EndOfFile, and never InvalidHandle.                                     *)
LoadsWhole ==
  \A t \in Threads :
    LET n == Size(file[t])
    IN  /\ pc[t] = <<"read", "load">> => size[t] = n
        /\ result[t] \notin {Nothing, FileNotFound} =>
             result[t] = IF n = 0 THEN EndOfFile ELSE <<0, Min2(n, size[t])>>

(* Threads that share a handle get every byte once, in the order of the    *)
(* file: since the last seek, what they were given makes up the interval   *)
(* from where it led to the position, and no byte is beyond the end.  (The *)
(* variables have their types.)                                            *)
SharedOnce ==
  /\ TypeOK
  /\ \A h \in shared \cap DOMAIN openHandles : start[h] + got[h] = Position(h)

(* A handle that was closed is never valid again: no later open returns it *)
(* or makes it lead to another file.                                       *)
ClosedForever ==
  [][/\ \A h \in DOMAIN openHandles \cap DOMAIN openHandles' :
          openHandles'[h].entry = openHandles[h].entry
     /\ \A h \in shared \ DOMAIN openHandles : h \notin DOMAIN openHandles']_vars

=============================================================================
