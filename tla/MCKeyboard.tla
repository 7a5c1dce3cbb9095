----------------------------- MODULE MCKeyboard -----------------------------
(* Instances of Keyboard for TLC: a few keys of every kind. *)
EXTENDS Keyboard

Plain(c) == [prefix |-> 0, code |-> c]
Extended(c) == [prefix |-> PREFIX1, code |-> c]
Pause == [prefix |-> PREFIX2, code |-> 69]

(* A, both Shift keys, both Ctrl keys, AltGr, Del in the cursor block and  *)
(* on the number block, NumLock, CapsLock, Pause and the menu key          *)
MCKeys == {Plain(30), Plain(42), Plain(54), Plain(29), Extended(29),
           Extended(56), Extended(83), Plain(83), Plain(69), Plain(58), Pause,
           Extended(93)}
=============================================================================
