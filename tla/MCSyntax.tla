------------------------------ MODULE MCSyntax ------------------------------
EXTENDS Syntax, LanguagePrograms

Names == {"a", "b", "c", "d", "e", "f", "g", "m", "n", "r", "x", "y", "_", "when", "A", "B", "it"}
Numbers == {"0", "1", "2", "3", "999", "0x1F", "1_0", "0b1_1", "0o17"}
Pieces == ("'a'" :> <<"STRING", "a\n'}">>) @@ ("'lib/a'" :> <<"STRING", "lib/a">>) @@ ("'a%{" :> <<"START", "{\"">>)
          @@ ("}b%{" :> <<"MID", "%">>) @@ ("}c'" :> <<"END", "\\">>)
TokenOf(w) ==
  CASE w \in Numbers -> Token("NUMBER", w, 1)
    [] w \in DOMAIN Pieces -> Token(Pieces[w][1], Pieces[w][2], 1)
    [] w \in Names -> Token("IDENT", w, 1)
    [] OTHER -> Token(w, w, 1)
EndOfText == <<Token("EOF", "", 1)>>
TextOf(ws) == ([i \in DOMAIN ws |-> TokenOf(ws[i])] \o <<>>) \o EndOfText

Scripts == {
  <<"a", "-=", "0x1F", "+", "1_0", "/", "0b1_1", "%", "0o17", ";">>,
  <<"let", "n", ";", "func", "f", "(", "a", ",", "b", "=", "1", ",", "...", "r", ")", "{", "return", "a", ";", "}", ";">>,
  <<"a", ";", "@", "b", "@", "c", "(", "1", ")", "func", "f", "(", ")", "{", "yield", ";", "}", ";">>,
  <<"a", "(", ")", ";", "while", "(", "a", ")", "{", "if", "(", "b", ")", "{", "break", ";", "}", "else", "{", "continue", "}", "}", ";">>,
  <<"f", "=", "lam", "{", "x", ",", "y", "=", "1", "in", "return", "yield", "x", ";", "a", "(", ")", "}", ";", "lam", "{", "it", "}", ";">>,
  <<"a", ";", "b", "=", "match", "(", "x", ")", "{", "1", "{", "2", "}", "is", "A", "{", "}", "when", "b", "{", "}", "_", "{", "}", "}", ";">>,
  <<"a", ";", "try", "{", "throw", "a", ";", "}", "catch", "(", "e", ")", "{", "}", "finally", "{", "b", ";", "}", ";">>,
  <<"let", "a", ";", "func", "f", "(", ")", "{", "ensure", "let", "a", "=", "b", "else", "{", "if", "(", "a", ")", "{", "return", "}", "else", "{", "throw", "a", "}", "}", "}">>,
  <<"class", "A", "extends", "B", "{", "@", "d", "static", "func", "m", "(", "a", ")", "{", "this", ".", "x", "=", "super", ".", "m", "(", "a", ")", "}", "}", ";">>,
  <<"let", "{", "a", ",", "b", ":", "c", ",", "...", "r", "}", "=", "{", "x", ":", "1", ",", "'a'", ":", "2", ",", "[", "y", "]", ":", "3", ",", "...", "m", "}">>,
  <<"let", "[", "a", ",", "...", "b", "]", "=", "[", "1", ",", "...", "c", ",", "]", ";", "#{", "1", "}", ";">>,
  <<"a", ";", "for", "(", "x", "in", "0", "..", "2", ")", "{", "defer", "a", ";", "}", "for", "(", "{", "a", ",", "b", "}", "in", "m", ")", "{", "}">>,
  <<"x", "=", "a", "?", "b", ":", "f", "(", "x", ",", "...", "y", ",", "n", ":", "999", ")", ";", "a", "?.", "b", "?", "[", "c", "]", "++", ";">>,
  <<"a", ";", "async", "f", "(", ")", "|>", "b", ";", "-", "await", "!", "g", "|?>", "c", ";", "a", "+=", "'a%{", "x", "}b%{", "y", "}c'", ";">>,
  <<"enum", "A", "{", "x", ",", "y", "=", "2", "}", "use", "'lib/a'", ";", "use", "'a'", "when", "m", ";", "export", "{", "a", ",", "b", "}">>,
  <<"a", ";", "a", "&", "b", "==", "c", "|", "d", "^", "e", "<<", "f", "is", "A", "??", "b", "||", "c", "&&", "d", "<", "1", "+", "2", "*", "x", "-", "~", "y", ";">>}

MCOriginals == {TextOf(ws) : ws \in Scripts}
MCTyped == {TokenOf(w) : w \in {";", "}", "in", "[", "yield"}}

\* Every pair of operators of different or the same precedence, one as an operand of the other on either side.
Operators2 == <<"??", "||", "&&", "|", "^", "&", "==", "!=", "is", "<", ">=", "<<", "+", "-", "*", "/">>
Joined(k, x, y) ==
  CASE k = "|>" -> PipeExpr(x, y)
    [] k = "=" -> IndexAssignExpr(x, N(0), y)
    [] k = "?" -> TernaryExpr(x, Array(<<1>>), y)
    [] k = "-x" -> Op2("+", UnaryExpr("-", x), AwaitExpr(y))
    [] k = "call" -> CallExpr(x, <<AsyncExpr(y)>>)
    [] OTHER -> Op2(k, x, y)
Joins == Operators2 \o <<"|>", "=", "?", "-x", "call">>
PairTrees ==
  [n \in 1 .. Len(Joins) * Len(Joins) |->
     LET outer == Joins[(n - 1) \div Len(Joins) + 1] inner == Joins[((n - 1) % Len(Joins)) + 1]
     IN <<Run1(Joined(outer, Joined(inner, Id("a"), Id("b")), Id("c"))), Run1(Joined(outer, Id("a"), Joined(inner, Id("b"), Id("c"))))>>] \o <<>>

OtherTrees ==
  <<<<Run1(Fn0(<<"it">>, Dot(Id("it"), "in"))), Run1(Fn0(<<"it">>, Op2("+", Id("it"), Fn0(<<"x">>, Id("it")))))>>,
    <<Func("f", <<>>, <<ForStmt("i", N(0), N(1), Block1(Run1(YieldExpr(Id("i"))))), ReturnStmt(YieldExpr(NoExpr))>>) @@ [generator |-> TRUE],
      UseStmt("a", "b"), ExportStmt(<<"f">>)>>,
    <<Run1(Fn0(<<>>, MatchExpr(Id("x"), <<ByPattern(N(1), <<>>)>>))), Run1(Op2("+", MatchExpr(Id("x"), <<Default(<<>>)>>), N(1)))>>>>

Kept ==
  <<"lambda", "upvalues", "pipes", "maps", "patterns", "forin", "values", "tags", "if", "ensure", "enum", "super", "decorators">>
AllTrees ==
  ([i \in DOMAIN Kept |-> AllPrograms[Kept[i]]] \o <<>>) \o PairTrees \o OtherTrees
TreesByText ==
  LET trees == AllTrees
      texts == [i \in DOMAIN trees |-> G!ProgramWritten(trees[i])] \o <<>>
  IN [t \in ToSet(texts) |-> trees[CHOOSE i \in DOMAIN trees : texts[i] = t]] @@ NoEntries
MCTrees == LET ts == TreesByText IN ts
MCTexts ==
  DOMAIN TreesByText \union MCOriginals
  \union UNION {UNION {Edited(t, i) : i \in 1 .. (Len(t) - 1)} : t \in MCOriginals}
  \union UNION {{UpTo(t, i) : i \in Cuts(t)} : t \in MCOriginals}
ReadingsOfTexts == [t \in MCTexts |-> Read(t)] @@ NoEntries
MCReadings(t) == LET rs == ReadingsOfTexts IN rs[t]
=============================================================================
