----------------------------- MODULE KeyTables -----------------------------
(***************************************************************************)
(* The constants of the keyboard driver: special bytes, the translation    *)
(* tables (entry c + 1 is the one at index c) and the known scancodes.     *)
(***************************************************************************)
EXTENDS Naturals

PREFIX1 == 224
PREFIX2 == 225
BREAK_BIT == 128
ACK == 250
TableSize == 92

(* Values of the enum Scancode; try_from accepts these. *)
Scancodes ==
  (1 .. 11) \cup (14 .. 25) \cup {27, 28} \cup (30 .. 38) \cup (44 .. 50)
  \cup {53, 57} \cup (59 .. 68) \cup (71 .. 73) \cup {75, 77}
  \cup (79 .. 83) \cup {87, 88, 91}

NORMAL_TAB == <<
  0, 0, 49, 50, 51, 52, 53, 54, 55, 56, 57, 48, 225, 39, 8, 0, 113, 119,
  101, 114, 116, 122, 117, 105, 111, 112, 129, 43, 13, 0, 97, 115, 100,
  102, 103, 104, 106, 107, 108, 148, 132, 94, 0, 35, 121, 120, 99, 118,
  98, 110, 109, 44, 46, 45, 0, 42, 0, 32, 0, 0, 0, 0, 0, 0, 0, 0, 0, 0,
  0, 0, 0, 0, 0, 0, 45, 0, 0, 0, 43, 0, 0, 0, 0, 0, 0, 0, 60, 0, 0, 0, 0,
  0 >>

SHIFT_TAB == <<
  0, 0, 33, 34, 21, 36, 37, 38, 47, 40, 41, 61, 63, 96, 0, 0, 81, 87, 69,
  82, 84, 90, 85, 73, 79, 80, 154, 42, 0, 0, 65, 83, 68, 70, 71, 72, 74,
  75, 76, 153, 142, 248, 0, 39, 89, 88, 67, 86, 66, 78, 77, 59, 58, 95,
  0, 0, 0, 32, 0, 0, 0, 0, 0, 0, 0, 0, 0, 0, 0, 0, 0, 0, 0, 0, 0, 0, 0,
  0, 0, 0, 0, 0, 0, 0, 0, 0, 62, 0, 0, 0, 0, 0 >>

ALT_TAB == <<
  0, 0, 0, 253, 0, 0, 0, 0, 123, 91, 93, 125, 92, 0, 0, 0, 64, 0, 0, 0,
  0, 0, 0, 0, 0, 0, 0, 126, 0, 0, 0, 0, 0, 0, 0, 0, 0, 0, 0, 0, 0, 0, 0,
  0, 0, 0, 0, 0, 0, 0, 230, 0, 0, 0, 0, 0, 0, 0, 0, 0, 0, 0, 0, 0, 0, 0,
  0, 0, 0, 0, 0, 0, 0, 0, 0, 0, 0, 0, 0, 0, 0, 0, 0, 0, 0, 0, 124, 0, 0,
  0, 0, 0 >>

ASC_NUM_TAB == <<
  55, 56, 57, 45, 52, 53, 54, 43, 49, 50, 51, 48, 44 >>

SCAN_NUM_TAB == <<
  8, 9, 10, 53, 5, 6, 7, 27, 2, 3, 4, 11, 51 >>
=============================================================================
