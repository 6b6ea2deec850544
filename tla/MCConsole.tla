------------------------------ MODULE MCConsole ------------------------------
(***************************************************************************)
(* Six columns and three rows: a tab stop inside a row, one past its end.  *)
(***************************************************************************)
EXTENDS Console

MCChars == {"glyph", "newline", "tab", "backspace"}

MCIrqMessage == << "glyph", "newline" >>

===============================================================================
