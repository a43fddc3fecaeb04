------------------------------- MODULE Tokens -------------------------------
(* What the lexer hands to the parser.                                       *)
EXTENDS Integers, Sequences

\* A token: its type t, the text v it stands for, and its line.  The type of a
\* keyword or an operator is its own text; the others are IDENT, NUMBER,
\* STRING, the START, MID and END of an interpolated string, and EOF.
Token(t, v, line) == [t |-> t, v |-> v, line |-> line]

Keywords ==
  {"let", "func", "if", "else", "elif", "match", "static", "while", "for", "in", "is", "return", "break", "continue",
   "try", "catch", "throw", "finally", "ensure", "defer", "async", "await", "yield", "enum", "class", "extends", "this",
   "super", "lam", "use", "export", "true", "false", "nil"}
=============================================================================
