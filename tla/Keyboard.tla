------------------------------ MODULE Keyboard ------------------------------
(***************************************************************************)
(* The PS/2 keyboard: keys, their bytes, the interrupt handler with its    *)
(* decoder and the dialogue that sets the LEDs, the queue of key events    *)
(* and a thread that reads characters.                                     *)
(*                                                                         *)
(* The handler runs with interrupts off, so the reader stands still while  *)
(* pc is not "idle"; keyboard and controller go on.  An event in the queue *)
(* carries, as history, the code of the key that caused it.                *)
(*                                                                         *)
(* An operator Name_Defect is Name with a plausible mistake in the code;   *)
(* it is not part of the specification.                                    *)
(***************************************************************************)
EXTENDS Naturals, Sequences, KeyTables

CONSTANTS
  Keys,           \* keys of the keyboard: records of prefix and code
  QueueCapacity,  \* 128
  MaxStrokes,     \* bound on the keys pressed
  MaxMouse        \* bound on the bytes from the mouse

ASSUME KeyboardAssumption ==
  /\ Keys \subseteq [prefix : {0, PREFIX1, PREFIX2}, code : 1 .. 127]
  /\ \A k \in Keys : k.prefix = PREFIX2 => k.code = 69  \* Pause
  /\ QueueCapacity \in Nat \ {0} /\ {MaxStrokes, MaxMouse} \subseteq Nat

VARIABLES
  prefix, gather, leds,   \* Keyboard
  queue,                  \* KEYBOARD_BUFFER
  pc,                     \* the handler
  (* keyboard and controller *)
  held,      \* keys held down
  shifting,  \* those of them that sent a Shift code of their own
  buffer,    \* bytes the keyboard has yet to send
  out,       \* output buffer of the controller: nothing or one byte
  command,   \* command the keyboard is executing
  lamps,     \* LEDs that are lit
  (* history *)
  strokes, mouse,
  typed,     \* key presses and releases that ought to be events
  decoded,   \* events decoded
  chars      \* events whose character was returned by poll_char

driver   == <<prefix, gather, leds>>
hardware == <<held, shifting, buffer, command, lamps>>
history  == <<strokes, mouse, typed, decoded, chars>>
vars     == <<driver, queue, pc, hardware, out, history>>

Locks == {"CAPS_LOCK", "NUM_LOCK", "SCROLL_LOCK"}
KeyModifiers == Locks \cup
  {"SHIFT", "ALT_LEFT", "ALT_RIGHT", "CTRL_LEFT", "CTRL_RIGHT"}
KeyEvent == [ascii : 0 .. 255, scancode : 0 .. 127,
             modifiers : SUBSET KeyModifiers, pressed : BOOLEAN]
None == 0
Byte == [byte : 0 .. 255, aux : BOOLEAN]

TypeOK ==
  /\ prefix \in {0, PREFIX1, PREFIX2} /\ gather \in KeyEvent /\ leds \subseteq Locks
  /\ queue \in Seq([code : 1 .. 127, event : KeyEvent])
  /\ Len(queue) <= QueueCapacity
  /\ pc \in {"idle", "led_command", "ack_command", "led_data", "ack_data",
             "panic_index", "panic_answer"}
  /\ held \subseteq Keys /\ shifting \subseteq held /\ lamps \subseteq Locks
  /\ buffer \in Seq(0 .. 255) /\ out \in Seq(Byte) /\ Len(out) <= 1
  /\ command \in {"none", "set_led", "await_data", "data"}

Init ==
  /\ prefix = 0 /\ leds = {} /\ queue = <<>> /\ pc = "idle"
  /\ gather = [ascii |-> None, scancode |-> None, modifiers |-> {}, pressed |-> FALSE]
  /\ held = {} /\ shifting = {} /\ buffer = <<>>
  /\ out = <<>> /\ command = "none" /\ lamps = {}
  /\ strokes = 0 /\ mouse = 0 /\ typed = <<>> /\ decoded = <<>> /\ chars = <<>>
-----------------------------------------------------------------------------
(* parse_ascii_code: what the tables have for a code with prefix p while   *)
(* modifiers are active, and what becomes of the event gathered so far     *)

OnNumberBlock(code, p, modifiers) ==
  "NUM_LOCK" \in modifiers /\ p = 0 /\ code \in 71 .. 83
CapsApplies(code) == code \in (16 .. 26) \cup (30 .. 40) \cup (44 .. 50)
TableEntry(code, p, modifiers) ==
  IF OnNumberBlock(code, p, modifiers) THEN ASC_NUM_TAB[code - 70]
  ELSE IF "ALT_RIGHT" \in modifiers THEN ALT_TAB[code + 1]
  ELSE IF "SHIFT" \in modifiers \/ ("CAPS_LOCK" \in modifiers /\ CapsApplies(code))
       THEN SHIFT_TAB[code + 1]
  ELSE NORMAL_TAB[code + 1]
ToScancode(c) == IF c \in Scancodes THEN c ELSE None
ScanEntry(code, p, modifiers) ==
  ToScancode(IF OnNumberBlock(code, p, modifiers) THEN SCAN_NUM_TAB[code - 70] ELSE code)

Active(m) == m \in gather.modifiers
SetAscii(a) == IF a # 0 THEN a ELSE gather.ascii

ParsedEvent(code, pressed) ==
  [ascii |-> SetAscii(TableEntry(code, prefix, gather.modifiers)),
   scancode |-> ScanEntry(code, prefix, gather.modifiers),
   modifiers |-> gather.modifiers, pressed |-> pressed]
-----------------------------------------------------------------------------
(* KeyboardISR::trigger with decode_byte: out holds a byte, which is read. *)

Take == pc = "idle" /\ out # <<>> /\ out' = <<>>
Read(b) == Take /\ ~Head(out).aux /\ Head(out).byte = b
IsBreak(b) == b >= BREAK_BIT
Code(b) == b % BREAK_BIT
IsPrefixByte(b) == b \in {PREFIX1, PREFIX2}

IgnoreMouse ==
  /\ Take /\ Head(out).aux
  /\ UNCHANGED <<driver, queue, pc, hardware, history>>

DecodePrefix(b) ==
  /\ Read(b) /\ IsPrefixByte(b)
  /\ prefix' = b
  /\ UNCHANGED <<gather, leds, queue, pc, hardware, history>>

ModifierOf_NoPrefix(code) ==
  IF code \in {42, 54} THEN "SHIFT" ELSE IF code = 56 THEN "ALT_LEFT" ELSE "CTRL_LEFT"

ModifierOf(code) ==
  CASE code \in {42, 54} -> "SHIFT"
    [] code = 56 -> IF prefix = PREFIX1 THEN "ALT_RIGHT" ELSE "ALT_LEFT"
    [] code = 29 -> IF prefix = PREFIX1 THEN "CTRL_RIGHT" ELSE "CTRL_LEFT"

DecodeModifier(b) ==
  /\ Read(b) /\ ~IsPrefixByte(b) /\ Code(b) \in {42, 54, 56, 29}
  /\ gather' = [gather EXCEPT !.modifiers =
       IF IsBreak(b) THEN @ \ {ModifierOf(Code(b))} ELSE @ \cup {ModifierOf(Code(b))}]
  /\ prefix' = 0
  /\ UNCHANGED <<leds, queue, pc, hardware, history>>

(* NumLock with the left Ctrl key is Break, an ordinary key. *)
LockOf(code) == CASE code = 58 -> "CAPS_LOCK" [] code = 70 -> "SCROLL_LOCK"
                  [] code = 69 -> "NUM_LOCK"
IsLock_NoBreakKey(code) == code \in {58, 69, 70}

IsLock(code) == code \in {58, 70} \/ (code = 69 /\ ~Active("CTRL_LEFT"))

DecodeLock(b) ==
  /\ Read(b) /\ ~IsPrefixByte(b) /\ IsLock(Code(b))
  /\ prefix' = 0
  /\ LET l == LockOf(Code(b))
         mods == IF Active(l) THEN gather.modifiers \ {l} ELSE gather.modifiers \cup {l}
     IN  \/ IsBreak(b) /\ UNCHANGED <<gather, leds, pc>>
         \/ /\ ~IsBreak(b)
            /\ gather' = [gather EXCEPT !.modifiers = mods]
            /\ leds' = IF l \in mods THEN leds \cup {l} ELSE leds \ {l}
            /\ pc' = "led_command"
  /\ UNCHANGED <<queue, hardware, history>>

(* try_enqueue, its failure ignored *)
PushKeyEvent(e) == queue' = IF Len(queue) < QueueCapacity THEN Append(queue, e) ELSE queue

IsKey(code) == code \notin {42, 54, 56, 29} /\ ~IsLock(code)

DecodeKey(b) ==
  /\ Read(b) /\ ~IsPrefixByte(b) /\ IsKey(Code(b)) /\ Code(b) < TableSize
  /\ prefix' = 0
  /\ LET event == ParsedEvent(Code(b), ~IsBreak(b))
     IN  /\ gather' = event
         /\ PushKeyEvent([code |-> Code(b), event |-> event])
         /\ decoded' = Append(decoded, [code |-> Code(b), event |-> event])
  /\ UNCHANGED <<leds, pc, hardware, strokes, mouse, typed, chars>>

(* The index into the table is out of bounds. *)
DecodePanics(b) ==
  /\ Read(b) /\ ~IsPrefixByte(b) /\ IsKey(Code(b)) /\ Code(b) >= TableSize
  /\ prefix' = 0
  /\ pc' = "panic_index"
  /\ UNCHANGED <<gather, leds, queue, hardware, history>>
-----------------------------------------------------------------------------
(* set_led, in the handler *)

LedSend(from, cmd, to) ==
  /\ pc = from
  /\ command' = cmd
  /\ pc' = to
  /\ UNCHANGED <<driver, queue, held, shifting, buffer, lamps, out, history>>

SetLedCommand == LedSend("led_command", "set_led", "ack_command")
SetLedData == LedSend("led_data", "data", "ack_data")

SetLedAnswer_NoData ==
  /\ pc = "ack_command" /\ out # <<>>
  /\ out' = <<>>
  /\ pc' = IF Head(out).byte # ACK THEN "panic_answer" ELSE "idle"
  /\ UNCHANGED <<driver, queue, hardware, history>>

(* wait_for_read: whatever byte is there is the answer. *)
SetLedAnswer ==
  /\ pc \in {"ack_command", "ack_data"} /\ out # <<>>
  /\ out' = <<>>
  /\ pc' = IF Head(out).byte # ACK THEN "panic_answer"
           ELSE IF pc = "ack_command" THEN "led_data" ELSE "idle"
  /\ UNCHANGED <<driver, queue, hardware, history>>
-----------------------------------------------------------------------------
PollChar_AnyEvent ==
  /\ pc = "idle" /\ queue # <<>>
  /\ queue' = Tail(queue)
  /\ chars' = IF Head(queue).event.ascii # None THEN Append(chars, Head(queue)) ELSE chars
  /\ UNCHANGED <<driver, pc, hardware, out, strokes, mouse, typed, decoded>>

(* poll_char: one round of its loop, which takes one event *)
PollChar ==
  /\ pc = "idle" /\ queue # <<>>
  /\ queue' = Tail(queue)
  /\ LET e == Head(queue).event
     IN  chars' = IF e.pressed /\ e.ascii # None THEN Append(chars, Head(queue))
                  ELSE chars
  /\ UNCHANGED <<driver, pc, hardware, out, strokes, mouse, typed, decoded>>
-----------------------------------------------------------------------------
(* The keyboard and its controller *)

IsPause(k) == k.prefix = PREFIX2
Mods == {k \in Keys : k.code \in {42, 54, 56, 29} /\ ~IsPause(k)}
Shifts == {k \in Mods : k.code \in {42, 54}}
CtrlLeft == [prefix |-> 0, code |-> 29]
Bytes(k, code) == IF k.prefix = 0 THEN <<code>> ELSE <<k.prefix, code>>
Reported(k) == /\ k \notin Mods /\ k.code \notin {58, 70}
               /\ k.code = 69 => CtrlLeft \in held \/ IsPause(k)
Record(k, pressed) ==  \* the last code of Pause has no prefix
  typed' = IF Reported(k)
           THEN Append(typed, [code |-> k.code, pressed |-> pressed,
                               prefix |-> IF IsPause(k) THEN 0 ELSE k.prefix])
           ELSE typed

(* "By the way, they still send a shift" (keyboard.rs:402): while NumLock  *)
(* is on, a key of the cursor block is pressed with Shift around it.       *)
CursorBlock ==
  {k \in Keys : k.prefix = PREFIX1 /\ k.code \in (71 .. 73) \cup {75, 77} \cup (79 .. 83)}
SendsShift(k) == k \in CursorBlock /\ "NUM_LOCK" \in lamps /\ held \cap Shifts = {}
ShiftDown == <<PREFIX1, 42>>
ShiftUp == <<PREFIX1, 170>>

(* Pause sends its whole sequence at once and is not used with Ctrl. *)
Press(k) ==
  /\ k \notin held /\ strokes < MaxStrokes /\ (IsPause(k) => CtrlLeft \notin held)
  /\ strokes' = strokes + 1
  /\ held' = IF IsPause(k) THEN held ELSE held \cup {k}
  /\ shifting' = IF SendsShift(k) THEN shifting \cup {k} ELSE shifting
  /\ buffer' = (IF SendsShift(k) THEN buffer \o ShiftDown ELSE buffer)
               \o (IF IsPause(k) THEN <<225, 29, 69, 225, 157, 197>> ELSE Bytes(k, k.code))
  /\ Record(k, TRUE)
  /\ UNCHANGED <<driver, queue, pc, out, command, lamps, mouse, decoded, chars>>

Release(k) ==
  /\ k \in held
  /\ held' = held \ {k} /\ shifting' = shifting \ {k}
  /\ LET more == buffer \o Bytes(k, k.code + BREAK_BIT)
     IN  buffer' = IF k \in shifting THEN more \o ShiftUp ELSE more
  /\ Record(k, FALSE)
  /\ UNCHANGED <<driver, queue, pc, out, command, lamps, strokes, mouse, decoded, chars>>

(* No scan codes are sent while a command is being executed. *)
SendByte ==
  /\ buffer # <<>> /\ out = <<>> /\ command = "none"
  /\ out' = <<[byte |-> Head(buffer), aux |-> FALSE]>>
  /\ buffer' = Tail(buffer)
  /\ UNCHANGED <<driver, queue, pc, held, shifting, command, lamps, history>>

Acknowledge ==
  /\ command \in {"set_led", "data"} /\ out = <<>>
  /\ out' = <<[byte |-> ACK, aux |-> FALSE]>>
  /\ command' = IF command = "set_led" THEN "await_data" ELSE "none"
  /\ lamps' = IF command = "data" THEN leds ELSE lamps
  /\ UNCHANGED <<driver, queue, pc, held, shifting, buffer, history>>

MouseByte ==
  /\ mouse < MaxMouse /\ out = <<>>
  /\ mouse' = mouse + 1
  /\ out' = <<[byte |-> 8, aux |-> TRUE]>>
  /\ UNCHANGED <<driver, queue, pc, hardware, strokes, typed, decoded, chars>>
-----------------------------------------------------------------------------
Decode(b) == DecodePrefix(b) \/ DecodeModifier(b) \/ DecodeLock(b)
             \/ DecodeKey(b) \/ DecodePanics(b)
Trigger == IgnoreMouse \/ \E b \in {out[i].byte : i \in DOMAIN out} : Decode(b)
SetLed == SetLedCommand \/ SetLedAnswer \/ SetLedData
Hardware == SendByte \/ Acknowledge \/ MouseByte
            \/ \E k \in Keys : Press(k) \/ Release(k)

Next == Trigger \/ SetLed \/ PollChar \/ Hardware
Spec == Init /\ [][Next]_vars
-----------------------------------------------------------------------------
(* Properties *)

Settled == pc = "idle" /\ buffer = <<>> /\ out = <<>>

(* decode_byte turns the byte stream into exactly one event for every      *)
(* press and release of an ordinary key, in order, with that key's         *)
(* scancode (its digit's, on the number block under NumLock), whatever     *)
(* prefixes, modifiers, mouse bytes and LED commands come in between.      *)
(* (The variables have their types.)                                       *)
EventsMatchKeys ==
  /\ TypeOK
  /\ Len(decoded) <= Len(typed)
  /\ Settled => Len(decoded) = Len(typed)
  /\ \A i \in DOMAIN decoded :
       /\ typed[i].code = decoded[i].code /\ typed[i].pressed = decoded[i].event.pressed
       /\ decoded[i].event.scancode =
            ScanEntry(typed[i].code, typed[i].prefix, decoded[i].event.modifiers)

(* No modifier sticks: once the bytes are processed, Ctrl and Alt are      *)
(* active exactly while their keys are held, and no prefix is left over    *)
(* for the next key.  Shift is active only while a Shift key is held, or a *)
(* key of the cursor block that sent a Shift code of its own.              *)
NoStuckModifier ==
  Settled =>
    /\ prefix = 0
    /\ \A k \in Mods \ Shifts :
         LET right == k.prefix = PREFIX1
             m == IF k.code = 56 THEN IF right THEN "ALT_RIGHT" ELSE "ALT_LEFT"
                  ELSE IF right THEN "CTRL_RIGHT" ELSE "CTRL_LEFT"
         IN  k \in held <=> Active(m)
    /\ Active("SHIFT") => held \cap (Shifts \cup shifting) # {}

(* When the handler has returned, the lamps of the keyboard show the lock  *)
(* modifiers that the decoder uses.                                        *)
LedsShowLocks ==
  pc = "idle" => leds = gather.modifiers \cap Locks /\ lamps = leds

(* Every character read comes from a press of its own: what poll_char      *)
(* returns are decoded presses, in order, none twice, also when the queue  *)
(* was full in between; and a key that has a character under the modifiers *)
(* of its event is read as that character, whatever was decoded before.    *)
CharsFromPresses ==
  \E f \in [DOMAIN chars -> DOMAIN decoded] :
    /\ \A i, j \in DOMAIN chars : i < j => f[i] < f[j]
    /\ \A i \in DOMAIN chars :
         LET key == typed[f[i]]
             entry == TableEntry(key.code, key.prefix, chars[i].event.modifiers)
         IN  /\ chars[i] = decoded[f[i]] /\ chars[i].event.pressed
             /\ entry # 0 => chars[i].event.ascii = entry

(* "If the key pressed does not correspond to an ASCII character (e.g.,    *)
(* function keys), the function will continue to wait until a valid ASCII  *)
(* character is pressed." (input.rs:12)  set_ascii ignores an entry of 0,  *)
(* so such a key comes with the character of the key before it.            *)
WaitsForCharacter ==
  \A i \in DOMAIN chars : \E p \in {0, PREFIX1} :
    TableEntry(chars[i].code, p, chars[i].event.modifiers) # 0
=============================================================================
