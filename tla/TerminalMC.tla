----------------------------- MODULE TerminalMC -----------------------------
(***************************************************************************)
(* The terminal with a few keys, for TLC.                                  *)
(***************************************************************************)
EXTENDS Terminal

(* Two letters that mean something with ctrl, the keys that edit and end a *)
(* line, and a key without a character.                                    *)
Typewriter ==
  {Down("c"), Down("d"), Down("enter"), Down("backspace"), Down("ctrl"), Up("ctrl"), Down("f1")}

(* A letter, ctrl-C, and an arrow: each press of it is two bytes.          *)
WithArrow == {Down("a"), Down("ctrl"), Down("c"), Up("ctrl"), E_KEYS, Down("eight")}
=============================================================================
