------------------------------ MODULE Spelling ------------------------------
(* How a sequence of tokens is spelled, with something between two of them   *)
(* only where they would otherwise read as something else: what the lexer    *)
(* has to take apart again.  Nothing here looks at how it goes about it.     *)
EXTENDS Tokens, SequencesExt

\* Operators, and what starts a comment.
Vocabulary ==
  {"(", ")", "{", "}", "[", "]", ",", ".", "..", "...", ":", ";", "@", "#{", "?", "?.", "??", "+", "++", "+=", "-", "--",
   "-=", "*", "*=", "/", "/=", "%", "%=", "!", "!=", "=", "==", "<", "<<", "<=", ">", ">>", ">=", "&", "&&", "|", "||",
   "|>", "|?>", "^", "~", "//", "/*"}

Starts(a, b) == Len(a) <= Len(b) /\ SubSeq(b, 1, Len(a)) = a
IsWord(tok) == tok.t \in Keywords \union {"IDENT", "NUMBER"}

\* Whether b right after a would change what a is.
Merging ==
  {p \in Vocabulary \X Vocabulary : \E w \in Vocabulary :
     Len(w) > Len(p[1]) /\ Starts(p[1], w) /\ (Starts(w, p[1] \o p[2]) \/ Starts(p[1] \o p[2], w))}
Merge(a, b) ==
  \/ IsWord(a) /\ IsWord(b)
  \/ a.t = "NUMBER" /\ b.t = "."
  \/ a.t \in {"STRING", "END"} /\ b.t \in {"STRING", "START"}
  \/ <<a.t, b.t>> \in Merging

\* How many interpolations are open before place i; the quotes alternate.
Nesting(t, i) == Cardinality({j \in 1 .. (i - 1) : t[j].t = "START"}) - Cardinality({j \in 1 .. (i - 1) : t[j].t = "END"})
Quote(n) == IF n % 2 = 0 THEN "\"" ELSE "'"
Escaped(v) ==
  FoldLeft(LAMBDA s, i : LET c == SubSeq(v, i, i)
                         IN s \o (IF c = "\n" THEN "\\n" ELSE IF c \in {"'", "\"", "\\", "%"} THEN "\\" \o c ELSE c),
           "", [i \in 1 .. Len(v) |-> i])

SpellingOf(t, i) ==
  LET n == Nesting(t, i)
  IN CASE t[i].t = "STRING" -> Quote(n) \o Escaped(t[i].v) \o Quote(n)
       [] t[i].t = "START" -> Quote(n) \o Escaped(t[i].v) \o "%{"
       [] t[i].t = "MID" -> "}" \o Escaped(t[i].v) \o "%{"
       [] t[i].t = "END" -> "}" \o Escaped(t[i].v) \o Quote(n - 1)
       [] OTHER -> t[i].v

\* Comments hold what would mislead a count of braces or quotes.
Gap(t, i) ==
  CASE i = 1 -> ""
    [] t[i].line > t[i - 1].line -> " // }'\n"
    [] Merge(t[i - 1], t[i]) -> IF IsWord(t[i]) THEN "/* }\" */" ELSE " "
    [] OTHER -> ""

Spelled(t) == FoldLeft(LAMBDA s, i : s \o Gap(t, i) \o SpellingOf(t, i), "", [i \in DOMAIN t |-> i])

\* Whether the code of each interpolation closes the braces it opens, and no other.
Nested(open, tok) ==
  CASE tok.t = "START" -> Append(open, "text")
    [] tok.t \in {"{", "#{"} -> Append(open, "brace")
    [] tok.t = "}" -> IF open = <<>> THEN open ELSE IF Last(open) = "brace" THEN Front(open) ELSE <<"wrong">>
    [] tok.t \in {"MID", "END"} -> IF open = <<>> \/ Last(open) # "text" THEN <<"wrong">> ELSE IF tok.t = "MID" THEN open ELSE Front(open)
    [] OTHER -> open
WellNested(t) == LET open == FoldLeft(LAMBDA o, tok : IF o = <<"wrong">> THEN o ELSE Nested(o, tok), <<>>, t)
                 IN \A i \in DOMAIN open : open[i] = "brace"

\* Tokens with their lines, as far as those matter: the lexer gives all the code
\* of an interpolation the line it ends on.
WithLines(t) == [i \in DOMAIN t |-> IF Nesting(t, i) > 0 THEN [t[i] EXCEPT !.line = 0] ELSE t[i]] \o <<>>
=============================================================================
