---------------------------- MODULE ExitPrograms ----------------------------
(* Programs that leave two nested constructs by any exit, and all programs   *)
(* of the language run, compiled and interpreted once.                       *)
EXTENDS Engines, NativePrograms

Thunk(params, x) == LambdaExpr(params, [i \in DOMAIN params |-> NoExpr], "", <<ReturnStmt(x)>>)

Exits == <<Mark(0), BreakStmt, ContinueStmt, ReturnStmt(N(7)), ThrowStmt(N(8)), ExprStmt(CallExpr(Ident("fail"), <<>>))>>
Throws(x) == x \in {Exits[5], Exits[6]}

Wraps == {"catch", "finally", "infinally", "for", "while", "forin", "block", "call"}
Loops == {"for", "while", "forin"}

\* get is a closure over y, or one that remembers only where it was made.
Remember(capture, k) == ExprStmt(AssignExpr("get", Thunk(<<>>, IF capture THEN Ident("y") ELSE N(k))))

InLoop(capture, k, body) == \* runs the body in the second round only
  <<LetStmt("y", Ident("i")), Remember(capture, k),
    IfStmt(<<Branch(BinaryExpr("==", Ident("i"), N(1)), BlockStmt(body))>>, NoStmt), Mark(k)>>

Wrap(w, capture, k, body) ==
  LET tail == <<Say(CallExpr(Ident("get"), <<>>))>>
      fail == ExprStmt(CallExpr(Ident("fail"), <<>>))
      rethrow == ThrowStmt(Ident("e"))
      finally == BlockStmt(<<LetStmt("z", N(k)), Say(Ident("z"))>>)
      items == ArrayExpr(<<N(0), N(1), N(2)>>)
      count == <<ExprStmt(PostfixExpr("++", "i"))>>
  IN tail \o
  CASE w = "catch" -> <<TryStmt(BlockStmt(body), "e", BlockStmt(<<Say(Ident("e")), Mark(k)>>), NoStmt), Mark(k + 1)>>
    [] w = "finally" -> <<TryStmt(BlockStmt(body), "e", BlockStmt(<<Mark(k), rethrow>>), finally), Mark(k + 1)>>
    [] w = "infinally" -> <<TryStmt(BlockStmt(<<Mark(k), fail>>), "e", BlockStmt(<<rethrow>>), BlockStmt(body)), Mark(k + 1)>>
    [] w = "for" -> <<ForStmt("i", N(0), N(3), BlockStmt(InLoop(capture, k, body)))>> \o tail
    [] w = "while" -> <<LetStmt("i", N(-1)), WhileStmt(BinaryExpr("<", Ident("i"), N(2)),
                          BlockStmt(count \o InLoop(capture, k, body)))>> \o tail
    [] w = "forin" -> <<ForInStmt("i", <<>>, items, BlockStmt(InLoop(capture, k, body)))>> \o tail
    [] w = "block" -> <<Scope(<<LetStmt("y", N(k)), Remember(capture, k)>> \o body)>> \o tail
    [] w = "call" -> <<FuncStmt("g", <<"a">>, <<NoExpr>>, "",
                                <<DeferStmt(CallExpr(Ident("print"), <<Ident("a")>>))>> \o body),
                       Say(CallExpr(Ident("g"), <<N(k)>>))>>

Between(ws, i, j, S) == \E k \in (i + 1) .. (j - 1) : ws[k] \in S

\* An exit from a loop is inside one of its own function.
Valid(ws, x) ==
  x \in {BreakStmt, ContinueStmt} => \E i \in DOMAIN ws : ws[i] \in Loops /\ ~Between(ws, i, Len(ws) + 1, {"call"})

\* Whether an error crosses level j and is caught in the same frame: the machine
\* then leaves the captured variables of level j open.
CaughtHere(ws, x, j) ==
  /\ Throws(x) \/ Between(ws, j, Len(ws) + 1, {"infinally"})
  /\ \E i \in 1 .. (j - 1) : ws[i] \in {"catch", "finally"} /\ ~Between(ws, i, j, {"call"})

RECURSIVE Nest(_, _, _)
Nest(ws, x, j) ==
  IF j > Len(ws) THEN <<x>> ELSE Wrap(ws[j], ~CaughtHere(ws, x, j), 10 * j, Nest(ws, x, j + 1))

LeavingProgram(ws, x) ==
  <<LetStmt("get", Thunk(<<>>, N(0))), FuncStmt("fail", <<>>, <<>>, "", <<ThrowStmt(N(9))>>),
    FuncStmt("main", <<>>, <<>>, "", Nest(ws, x, 1)),
    TryStmt(BlockStmt(<<Say(CallExpr(Ident("main"), <<>>))>>), "e", BlockStmt(<<Say(Ident("e"))>>), NoStmt),
    Say(CallExpr(Ident("get"), <<>>))>>

Nestings == {<<a, b>> : a, b \in Wraps}
ExitPrograms ==
  LET sel == {s \in Nestings \X DOMAIN Exits : Valid(s[1], Exits[s[2]])}
  IN [s \in {Append(t[1], ToString(t[2])) : t \in sel} |->
        LeavingProgram(Front(s), Exits[CHOOSE k \in DOMAIN Exits : ToString(k) = Last(s)])] @@ NoEntries

FeaturePrograms ==
  LET ps == AllPrograms @@ NativePrograms1 IN [s \in {<<n>> : n \in DOMAIN ps} |-> ps[s[1]]] @@ NoEntries
MCPrograms == FeaturePrograms @@ ExitPrograms
AllCompiled == LET ps == MCPrograms IN [p \in DOMAIN ps |-> CompiledCode(ps[p])] @@ NoEntries
AllVerified == LET cs == AllCompiled IN [p \in DOMAIN cs |-> HeightsOf(cs[p])] @@ NoEntries
AllExpected == LET ps == MCPrograms IN [p \in DOMAIN ps |-> Interpreted(ps[p])] @@ NoEntries

-----------------------------------------------------------------------------
(* Programs on which the two engines disagree. *)

MakeAndCall(class, method) ==
  <<ClassStmt("A", "", <<class>>), LetStmt("o", CallOf("A", <<>>)), Say(Send(Id("o"), method, <<>>))>>

\* A variable declared in the body of a method.
LocalInMethod ==
  <<"let">> :> (<<LetStmt("n", N(1))>> \o MakeAndCall(Public("get", <<>>, <<LetStmt("n", N(2)), ReturnStmt(Id("n"))>>), "get")
                \o <<Say(Id("n"))>>)
=============================================================================
