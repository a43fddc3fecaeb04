------------------------------- MODULE Lexer --------------------------------
(* From characters to tokens.  The lexer is a record l: the characters, the  *)
(* place and line reached, the tokens so far, whether an error was reported. *)
(* An error ends the token, not the scan.  Escapes by number are left out.   *)
EXTENDS Tokens, SequencesExt

Digits == {"0", "1", "2", "3", "4", "5", "6", "7", "8", "9"}
HexLetters == {"a", "b", "c", "d", "e", "f", "A", "B", "C", "D", "E", "F"}
Letters ==
  HexLetters \union {"g", "h", "i", "j", "k", "l", "m", "n", "o", "p", "q", "r", "s", "t", "u", "v", "w", "x", "y", "z",
                     "G", "H", "I", "J", "K", "L", "M", "N", "O", "P", "Q", "R", "S", "T", "U", "V", "W", "X", "Y", "Z", "_"}

\* The character at a place; there is none behind the end.
CharAt(src, i) == IF i <= Len(src) THEN SubSeq(src, i, i) ELSE ""
StartsAt(src, i, word) == i + Len(word) - 1 <= Len(src) /\ SubSeq(src, i, i + Len(word) - 1) = word
RunEnd(src, i, set) == CHOOSE j \in i .. (Len(src) + 1) : CharAt(src, j) \notin set /\ \A k \in i .. (j - 1) : CharAt(src, k) \in set
LineEnd(src, i) == CHOOSE j \in i .. (Len(src) + 1) : CharAt(src, j) \in {"\n", ""} /\ \A k \in i .. (j - 1) : CharAt(src, k) # "\n"
Lines(src, i, j) == Cardinality({k \in i .. (j - 1) : CharAt(src, k) = "\n"})

Done(l) == l.at > Len(l.src)
Error(l) == [l EXCEPT !.bad = TRUE]
Emit(l, t, v) == [l EXCEPT !.toks = Append(@, Token(t, v, l.line))]
MoveTo(l, j) == [l EXCEPT !.at = j, !.line = @ + Lines(l.src, l.at, j)]
TakeTo(l, j, t) == [Emit(l, t, SubSeq(l.src, l.at, j - 1)) EXCEPT !.at = j]

\* What may follow the first character of an operator, in the order it is tried.
Longer ==
  ("." :> <<"..", ".">>) @@ ("?" :> <<".", "?">>) @@ ("+" :> <<"+", "=">>) @@ ("-" :> <<"-", "=">>) @@ ("<" :> <<"<", "=">>)
  @@ (">" :> <<">", "=">>) @@ ("|" :> <<"|", "?>", ">">>) @@ ("&" :> <<"&">>) @@ ("#" :> <<"{">>)
  @@ [c \in {"*", "%", "!", "=", "/"} |-> <<"=">>] @@ [c \in {"(", ")", "{", "}", "[", "]", ",", ":", "^", "~", ";", "@"} |-> <<>>]

Operator(l) ==
  LET more == SelectSeq(Longer[CharAt(l.src, l.at)], LAMBDA word : StartsAt(l.src, l.at + 1, word))
      j == l.at + 1 + (IF more = <<>> THEN 0 ELSE Len(Head(more)))
      v == SubSeq(l.src, l.at, j - 1)
  IN IF v = "#" THEN Error(MoveTo(l, j)) ELSE TakeTo(l, j, v)

Word(l) ==
  LET j == RunEnd(l.src, l.at, Letters \union Digits)
      v == SubSeq(l.src, l.at, j - 1)
  IN TakeTo(l, j, IF v \in Keywords THEN v ELSE "IDENT")

RadixDigits ==
  [c \in {"x", "X"} |-> Digits \union HexLetters] @@ [c \in {"b", "B"} |-> {"0", "1"}]
  @@ [c \in {"o", "O"} |-> {"0", "1", "2", "3", "4", "5", "6", "7"}]

RadixNumber(l) ==
  LET digits == RadixDigits[CharAt(l.src, l.at + 1)]
  IN IF CharAt(l.src, l.at + 2) \in digits THEN TakeTo(l, RunEnd(l.src, l.at + 2, digits \union {"_"}), "NUMBER")
     ELSE Error(MoveTo(l, l.at + 2))

\* An underscore stands between digits, not next to another one.
Misplaced(numeral) ==
  \E i \in 1 .. Len(numeral) : /\ CharAt(numeral, i) = "_"
                               /\ i = Len(numeral) \/ CharAt(numeral, i - 1) \in {"_", ".", "e", "E", "+", "-"}

DecimalNumber(l) ==
  LET c(i) == CharAt(l.src, i)
      Run(i) == RunEnd(l.src, i, Digits \union {"_"})
      int == Run(l.at)
      frac == IF c(int) = "." /\ c(int + 1) \in Digits THEN Run(int + 1) ELSE int
      exp == frac + (IF c(frac + 1) \in {"+", "-"} THEN 2 ELSE 1)
      end == IF c(frac) \in {"e", "E"} THEN Run(exp) ELSE frac
  IN IF c(frac) \in {"e", "E"} /\ c(exp) \notin Digits THEN Error(MoveTo(l, exp))
     ELSE IF Misplaced(SubSeq(l.src, l.at, end - 1)) THEN Error(MoveTo(l, end))
     ELSE TakeTo(l, end, "NUMBER")

Number(l) ==
  IF CharAt(l.src, l.at) = "0" /\ CharAt(l.src, l.at + 1) \in DOMAIN RadixDigits THEN RadixNumber(l) ELSE DecimalNumber(l)

RECURSIVE BlockComment(_, _)
BlockComment(l, depth) ==
  CASE depth = 0 -> l
    [] Done(l) -> Error(l)
    [] StartsAt(l.src, l.at, "/*") -> BlockComment(MoveTo(l, l.at + 2), depth + 1)
    [] StartsAt(l.src, l.at, "*/") -> BlockComment(MoveTo(l, l.at + 2), depth - 1)
    [] OTHER -> BlockComment(MoveTo(l, l.at + 1), depth)

-----------------------------------------------------------------------------
(* Strings, with the code in them. *)

Quotes == {"'", "\""}
Escapes == ("n" :> "\n") @@ ("t" :> "\t") @@ ("r" :> "\r") @@ ("0" :> "NUL") @@ [c \in Quotes \union {"\\", "%"} |-> c]

\* Where the code of an interpolation ends, by counting its braces: at its last
\* brace, at the end, or at an escaped quote, which is an error.  The mode is
\* code, a comment or the quote of a string: braces in those are not counted.
\* Mutant: braces in comments and strings count.
CodeEndByBraces(src, i, depth, mode) ==
  LET Open(j) == Cardinality({k \in i .. j : CharAt(src, k) = "{"}) + depth - Cardinality({k \in i .. j : CharAt(src, k) = "}"})
  IN [at |-> CHOOSE j \in i .. (Len(src) + 1) : (j > Len(src) \/ Open(j) = 0) /\ \A k \in i .. (j - 1) : Open(k) > 0, ok |-> TRUE]
RECURSIVE CodeEnd(_, _, _, _)
CodeEnd(src, i, depth, mode) ==
  LET c == CharAt(src, i)
      two == c \o CharAt(src, i + 1)
  IN CASE i > Len(src) -> [at |-> Len(src) + 1, ok |-> TRUE]
       [] mode = "//" -> CodeEnd(src, i + 1, depth, IF c = "\n" THEN "code" ELSE mode)
       [] mode = "/*" -> IF two = "*/" THEN CodeEnd(src, i + 2, depth, "code") ELSE CodeEnd(src, i + 1, depth, mode)
       [] mode \in Quotes -> IF c = "\\" THEN CodeEnd(src, i + 2, depth, mode)
                             ELSE CodeEnd(src, i + 1, depth, IF c = mode THEN "code" ELSE mode)
       [] two = "//" -> CodeEnd(src, i + 2, depth, "//")
       [] two = "/*" -> CodeEnd(src, i + 2, depth, "/*")
       [] c = "\\" /\ CharAt(src, i + 1) \in Quotes -> [at |-> i, ok |-> FALSE]
       [] c \in Quotes -> CodeEnd(src, i + 1, depth, c)
       [] c = "}" /\ depth = 1 -> [at |-> i, ok |-> TRUE]
       [] OTHER -> CodeEnd(src, i + 1, depth + (CASE c = "{" -> 1 [] c = "}" -> -1 [] OTHER -> 0), mode)

RECURSIVE Tokenize(_)

\* The tokens of the code are those a lexer of its own makes of it, all given
\* the line on which the code ends.
Interpolation(l, end) ==
  LET inner == Tokenize(SubSeq(l.src, l.at, end - 1))
      after == [MoveTo(l, end) EXCEPT !.at = Min({end + 1, Len(l.src) + 1})]
  IN [after EXCEPT !.toks = @ \o [i \in 1 .. (Len(inner.toks) - 1) |-> [inner.toks[i] EXCEPT !.line = after.line]] \o <<>>,
                   !.bad = @ \/ inner.bad]

\* The rest of a string: value is its text since its start or since the last
\* interpolation, kind the token to emit before the next one.  A string in
\* triple quotes takes unknown escapes and need not end.
RECURSIVE StringRest(_, _, _, _)
StringRest(l, quotes, value, kind) ==
  LET triple == Len(quotes) = 3
      Whole(m) == Emit(m, IF kind = "START" THEN "STRING" ELSE "END", value)
      next == CharAt(l.src, l.at + 1)
  IN CASE Done(l) -> IF triple THEN Whole(l) ELSE Error(l)
       [] StartsAt(l.src, l.at, quotes) -> Whole([l EXCEPT !.at = @ + Len(quotes)])
       [] StartsAt(l.src, l.at, "%{") ->
            LET m == [Emit(l, kind, value) EXCEPT !.at = @ + 2]
                code == CodeEnd(m.src, m.at, 1, "code")
            IN IF code.ok THEN StringRest(Interpolation(m, code.at), quotes, "", "MID") ELSE Error(MoveTo(m, code.at))
       [] CharAt(l.src, l.at) = "\\" ->
            IF next = "" THEN Error([l EXCEPT !.at = @ + 1])
            ELSE IF next \in DOMAIN Escapes THEN StringRest([l EXCEPT !.at = @ + 2], quotes, value \o Escapes[next], kind)
            ELSE StringRest([(IF triple THEN l ELSE Error(l)) EXCEPT !.at = @ + 2], quotes, value \o next, kind)
       [] OTHER -> StringRest(MoveTo(l, l.at + 1), quotes, value \o CharAt(l.src, l.at), kind)

String(l) ==
  LET q == CharAt(l.src, l.at)
      skip == IF CharAt(l.src, l.at + 3) = "\n" THEN 4 ELSE 3
  IN IF StartsAt(l.src, l.at, q \o q \o q) THEN StringRest(MoveTo(l, l.at + skip), q \o q \o q, "", "START")
     ELSE StringRest([l EXCEPT !.at = @ + 1], q, "", "START")

-----------------------------------------------------------------------------

ScanToken(l) ==
  LET c == CharAt(l.src, l.at)
  IN CASE c \in {" ", "\r", "\t", "\n"} -> MoveTo(l, l.at + 1)
       [] StartsAt(l.src, l.at, "//") ->
            [l EXCEPT !.at = LineEnd(l.src, l.at)]
       [] StartsAt(l.src, l.at, "/*") -> BlockComment(MoveTo(l, l.at + 2), 1)
       [] c \in Quotes -> String(l)
       [] c \in Digits -> Number(l)
       [] c \in Letters -> Word(l)
       [] c \in DOMAIN Longer -> Operator(l)
       [] OTHER -> Error(MoveTo(l, l.at + 1))

RECURSIVE Scan(_)
Scan(l) == IF Done(l) THEN Emit(l, "EOF", "") ELSE Scan(ScanToken(l))

\* A first line that starts with #! is skipped.
Tokenize(src) ==
  LET l == [src |-> src, at |-> 1, line |-> 1, toks |-> <<>>, bad |-> FALSE]
  IN Scan(IF StartsAt(src, 1, "#!") THEN MoveTo(l, Min({LineEnd(src, 1) + 1, Len(src) + 1})) ELSE l)

Lex(src) == LET l == Tokenize(src) IN [toks |-> l.toks, ok |-> ~l.bad]
=============================================================================
