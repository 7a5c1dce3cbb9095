----------------------------- MODULE MCTerminal -----------------------------
(* Terminal on a screen of two columns and two rows. *)
EXTENDS Terminal

CONSTANTS t1, t2

MCThreads == {t1, t2}
MCTexts == {<<"x", "x">>, <<"x", "\n", "x">>}
MCSpinner == <<1, 0>>
MCPicture == {<<0, 1>>}
=============================================================================
