----------------------------- MODULE MCConsole -----------------------------
(***************************************************************************)
(* Instances of Console: a screen of 2 x 2 and strings that end a line,    *)
(* fill one, and overrun one.                                              *)
(***************************************************************************)
EXTENDS Console

Lines == {<<"x", "nl">>, <<"x", "x", "x">>}
Outside == {"run", "spin", "sti"}
Anywhere == {"run", "spin", "print", "sti"}
=============================================================================
