------------------------------- MODULE Syntax -------------------------------
(* A programmer edits a text, one token or line break, and has it parsed.    *)
EXTENDS Ast, Tokens, SequencesExt

CONSTANTS Trees,        \* programs by their text, the sequence of their tokens
          Originals,    \* the texts that are edited
          Typed,        \* the tokens an edit may add
          Readings(_)   \* what the parser makes of each text

L == INSTANCE Lexer
S == INSTANCE Spelling
P == INSTANCE Parser
G == INSTANCE Grammar
F == INSTANCE WellFormed

\* Whether the lexer takes apart what the tokens are spelled as.
Respelled(t) ==
  LET lexed == L!Lex(S!Spelled(t)) IN lexed.ok /\ S!WithLines(lexed.toks) = S!WithLines(t)

\* What Readings holds for a text: the tree, whether the same tree is read when
\* it is written down again and whether it is legal, and whether the text is
\* read from its spelling.
Read(t) ==
  LET r == P!Parse(t)
      again == P!Parse(G!ProgramWritten(r.stmts))
  IN [stmts |-> r.stmts, ok |-> r.ok, stuck |-> r.stuck,
      again |-> r.ok => again.ok /\ again.stmts = r.stmts,
      legal |-> r.ok => F!LegalProgram(r.stmts),
      respelled |-> S!WellNested(t) => Respelled(t)]

VARIABLES source,   \* the tokens, up to EOF
          origin    \* the text that was edited, and where: nothing at first

vars == <<source, origin>>
Reading == Readings(source)

\* Puts what follows place i on a new line.
BreakLine(t, i) == [j \in DOMAIN t |-> IF j > i THEN [t[j] EXCEPT !.line = @ + 1] ELSE t[j]] \o <<>>
Edited(t, i) ==
  {RemoveAt(t, i), BreakLine(t, i)} \union {InsertAt(t, i, new) : new \in Typed}
  \union IF i = Len(t) - 1 THEN {} ELSE {[t EXCEPT ![i] = t[i + 1], ![i + 1] = t[i]]}

Unedited == [of |-> <<>>, at |-> 0]
Init == source \in DOMAIN Trees \union Originals /\ origin = Unedited
Edit(i) ==
  /\ origin = Unedited /\ source \in Originals
  /\ source' \in Edited(source, i)
  /\ origin' = [of |-> source, at |-> i]
Next == \E i \in 1 .. (Len(source) - 1) : Edit(i)
Spec == Init /\ [][Next]_vars

\* The complete statements of a text: those that a semicolon outside all braces ends.
Depth(t, i) == Cardinality({j \in 1 .. i : t[j].t \in {"{", "#{"}}) - Cardinality({j \in 1 .. i : t[j].t = "}"})
Cuts(t) == {i \in DOMAIN t : t[i].t = ";" /\ Depth(t, i) = 0}
UpTo(t, i) == SubSeq(t, 1, i) \o <<Last(t)>>

-----------------------------------------------------------------------------

\* Parsing is the inverse of writing: the tree of a text, written down with
\* only the parentheses that precedence asks for, reads as the same tree
\* (parser.cpp, assignment to primary).
ReadsBack == Reading.again /\ (source \in DOMAIN Trees => Reading.ok /\ Reading.stmts = Trees[source])

\* Lexing is the inverse of spelling: the characters of any sequence of tokens,
\* accepted by the parser or not, give back those tokens and their lines, each
\* the longest one there is, whatever is in strings, in comments and in the
\* code inside strings (scanToken, string).
SpellsBack == Reading.respelled

\* No program with a break outside a loop, a return or yield outside a
\* function, an ensure that falls through, a value that may be missing, or a
\* generator that is not marked as one gets past the parser.
AcceptedIsLegal == Reading.legal

\* After an error the parser goes on, consuming something each time
\* (synchronize), and an edit leaves what was complete before it as it was.
RecoversLocally ==
  [][/\ ~Readings(source').stuck
     /\ \A i \in Cuts(source) : i < origin'.at => IsPrefix(Readings(UpTo(source, i)).stmts, Readings(source').stmts)]_vars
=============================================================================
