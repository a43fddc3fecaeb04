-------------------------- MODULE LanguagePrograms --------------------------
(* Small programs, by what they exercise.                                    *)
EXTENDS Ast, SequencesExt

Id(name) == Ident(name)
N(n) == IF n < 0 THEN UnaryExpr("-", Lit(Num(-n))) ELSE Lit(Num(n))
T(text) == Lit(Str(text))
CallOf(name, args) == CallExpr(Id(name), args)
Say(x) == ExprStmt(CallOf("print", <<x>>))
Mark(n) == Say(N(n))
Run1(x) == ExprStmt(x)
Block1(s) == BlockStmt(<<s>>)
Scope(stmts) == IfStmt(<<Branch(Lit(Bool(TRUE)), BlockStmt(stmts))>>, NoStmt)
NoDefaults(params) == [i \in DOMAIN params |-> NoExpr] \o <<>>
Func(name, params, body) == FuncStmt(name, params, NoDefaults(params), "", body)
Fn0(params, x) == LambdaExpr(params, NoDefaults(params), "", <<ReturnStmt(x)>>)
Try1(stmts) == TryStmt(BlockStmt(stmts), "e", Block1(Say(Id("e"))), NoStmt)
SayOrError(x) == Try1(<<Say(x)>>)
Op2(op, a, b) == BinaryExpr(op, a, b)
Array(ns) == ArrayExpr([i \in DOMAIN ns |-> N(ns[i])] \o <<>>)
MapOf(pairs) == MapExpr([i \in DOMAIN pairs |-> T(pairs[i][1])] \o <<>>, [i \in DOMAIN pairs |-> pairs[i][2]] \o <<>>)
Dot(x, field) == DotExpr(x, field, FALSE)
At1(x, i) == IndexExpr(x, i, FALSE)
Send(x, method, args) == CallExpr(Dot(x, method), args)
Public(name, params, body) == Method(name, params, NoDefaults(params), body, FALSE, <<>>)

-----------------------------------------------------------------------------
(* Operators: every operator on every pair of operands. *)

Operands == <<N(2), N(0), N(-3), N(100), T("a"), Lit(Nil), Lit(Bool(TRUE)), Array(<<1>>), MapOf(<<<<"k", N(1)>>>>),
              SetExpr(<<N(1), N(2)>>)>>
AllPairs(op, xs) ==
  FlattenSeq([i \in DOMAIN xs |-> [j \in DOMAIN xs |-> SayOrError(Op2(op, xs[i], xs[j]))] \o <<>>] \o <<>>)

OperatorPrograms ==
  [op \in {"+", "-", "*", "/", "%", "==", "!=", "??", "||", "&&"} |-> AllPairs(op, Operands)]
  @@ [op \in {"<", ">", "<=", ">="} |-> AllPairs(op, <<N(2), N(0), N(-3), Lit(Nil)>>)]
  @@ "is" :> [k \in DOMAIN Operands |->
                SayOrError(ArrayExpr([t \in 1 .. 4 |-> Op2("is", Operands[k], T(<<"int", "string", "map", "nil">>[t]))] \o <<>>))] \o <<>>
                \o <<SayOrError(Op2("is", N(1), N(2))), SayOrError(Op2("is", N(1), T("other")))>>
  @@ "unary" :> FlattenSeq([k \in DOMAIN Operands |-> <<SayOrError(UnaryExpr("-", Operands[k])), Say(UnaryExpr("!", Operands[k]))>>] \o <<>>)
                \o <<Say(UnaryExpr("-", Op2("-", N(-100), N(1))))>>
  @@ "ternary" :> [k \in DOMAIN Operands |-> Say(TernaryExpr(Operands[k], N(1), N(2)))] \o <<>>
  @@ "interp" :> <<Say(InterpExpr(<<T("a")>> \o FlattenSeq([k \in DOMAIN Operands |-> <<Operands[k], T("a")>>] \o <<>>)))>>

-----------------------------------------------------------------------------
(* Variables and closures. *)

\* Increments of each kind of variable, and of one that is not an integer.
Steps(name) == <<Say(PostfixExpr("++", name)), Say(PostfixExpr("--", name)), Say(PostfixExpr("++", name)), Say(Id(name))>>

VariablePrograms ==
  "globals" :> (<<LetStmt("a", N(1))>> \o Steps("a") \o
     <<SayOrError(Id("b")), SayOrError(AssignExpr("b", N(1))), SayOrError(PostfixExpr("++", "b")),
       LetStmt("b", T("x")), SayOrError(PostfixExpr("++", "b")), Run1(AssignExpr("a", N(100))),
       SayOrError(PostfixExpr("++", "a")), Say(AssignExpr("b", AssignExpr("a", N(5)))), Say(Id("a"))>>)
  @@ "locals" :> <<Scope(<<LetStmt("a", N(1)), LetStmt("c", NoExpr)>> \o Steps("a") \o
       <<Say(Id("c")), SayOrError(PostfixExpr("++", "c")), Scope(<<LetStmt("a", N(9)), Say(Id("a"))>>), Say(Id("a"))>>)>>
  @@ "upvalues" :> <<Func("make", <<"a">>,
         <<LetStmt("s", T("x")),
           ReturnStmt(ArrayExpr(<<LambdaExpr(<<>>, <<>>, "", Steps("a")),
                                  Fn0(<<"v">>, AssignExpr("a", Id("v"))),
                                  LambdaExpr(<<>>, <<>>, "", <<Say(PostfixExpr("++", "s")), Mark(0)>>)>>))>>),
       LetStmt("p", CallOf("make", <<N(1)>>)), LetStmt("q", CallOf("make", <<N(5)>>)),
       Run1(CallExpr(At1(Id("p"), N(0)), <<>>)), Run1(CallExpr(At1(Id("p"), N(1)), <<N(20)>>)),
       Run1(CallExpr(At1(Id("p"), N(0)), <<>>)), Run1(CallExpr(At1(Id("q"), N(0)), <<>>)),
       Try1(<<Run1(CallExpr(At1(Id("q"), N(2)), <<>>))>>)>>
  @@ "nested" :> <<Func("outer", <<"a">>,
         <<Func("middle", <<"b">>, <<Func("inner", <<"c">>,
             <<Run1(AssignExpr("a", Op2("+", Id("a"), Id("c")))), ReturnStmt(Op2("+", Id("a"), Id("b")))>>),
             ReturnStmt(Id("inner"))>>),
           LetStmt("f", CallOf("middle", <<N(10)>>)), Say(CallOf("f", <<N(1)>>)), Say(Id("a")),
           Run1(AssignExpr("a", N(0))), Say(CallOf("f", <<N(2)>>)), ReturnStmt(Id("f"))>>),
       LetStmt("g", CallOf("outer", <<N(1)>>)), Say(CallOf("g", <<N(3)>>)), Say(CallOf("g", <<N(3)>>))>>
  \* the innermost function captures a variable handed down and a local of the same index
  @@ "captures" :> <<Func("outer", <<"a", "b">>,
         <<ReturnStmt(LambdaExpr(<<"c">>, <<NoExpr>>, "",
             <<Say(Op2("-", Id("a"), Id("b"))), ReturnStmt(Fn0(<<>>, Op2("-", Id("b"), Id("c"))))>>))>>),
       Say(CallExpr(CallExpr(CallOf("outer", <<N(1), N(5)>>), <<N(7)>>), <<>>))>>
  @@ "counting" :> <<Func("main", <<>>,
         <<ForStmt("i", N(0), N(3), BlockStmt(<<IfStmt(<<Branch(Op2("==", Id("i"), N(1)), Block1(ContinueStmt))>>, NoStmt)>>)),
           ReturnStmt(N(1))>>), Say(CallOf("main", <<>>))>>
  @@ "recursive" :> <<Func("main", <<"n">>,
         <<Func("down", <<"k">>, <<ReturnStmt(TernaryExpr(Op2("==", Id("k"), N(0)), Id("n"), CallOf("down", <<Op2("-", Id("k"), N(1))>>)))>>),
           ReturnStmt(CallOf("down", <<Id("n")>>))>>), Say(CallOf("main", <<N(3)>>))>>
  @@ "depth" :> <<Func("dive", <<>>, <<ReturnStmt(CallOf("dive", <<>>))>>),
                  SayOrError(CallOf("dive", <<>>)), SayOrError(CallOf("dive", <<>>)),
                  Func("main", <<>>, <<Try1(<<Run1(CallOf("dive", <<>>))>>), ReturnStmt(N(1))>>), Say(CallOf("main", <<>>))>>

-----------------------------------------------------------------------------
(* Calls. *)

Show3 == <<Say(ArrayExpr(<<Id("a"), Id("b"), Id("c")>>))>>
Calls3(f) ==
  <<SayOrError(CallOf(f, <<>>)), SayOrError(CallOf(f, <<N(1)>>)), SayOrError(CallOf(f, <<N(1), N(2), N(3)>>)),
    SayOrError(CallOf(f, <<N(1), N(2), N(3), N(4)>>)),
    SayOrError(NamedCallExpr(Id(f), <<N(7), N(8)>>, <<"c", "a">>)),
    SayOrError(NamedCallExpr(Id(f), <<N(7), N(8)>>, <<"", "c">>)),
    SayOrError(NamedCallExpr(Id(f), <<N(7), N(8)>>, <<"", "a">>)),
    SayOrError(NamedCallExpr(Id(f), <<N(7)>>, <<"z">>)),
    SayOrError(CallOf(f, <<SpreadExpr(Array(<<5, 6>>)), N(9)>>)),
    TryStmt(Block1(Run1(CallOf(f, <<SpreadExpr(N(5))>>))), "e", Block1(Mark(97)), NoStmt)>>

CallPrograms ==
  "plain" :> (<<Func("f", <<"a", "b", "c">>, Show3)>> \o Calls3("f"))
  @@ "defaults" :> (<<LetStmt("n", N(0)), FuncStmt("f", <<"a", "b", "c">>, <<NoExpr, Op2("+", Id("a"), N(10)), PostfixExpr("++", "n")>>, "", Show3)>>
                    \o <<Run1(CallOf("f", <<N(1)>>)), Run1(CallOf("f", <<N(1), Lit(Nil)>>)), Run1(CallOf("f", <<N(1), N(2), N(3)>>)),
                         Run1(NamedCallExpr(Id("f"), <<N(1), N(5)>>, <<"", "c">>)), Say(Id("n"))>>)
  @@ "rest" :> (<<FuncStmt("f", <<"a">>, <<NoExpr>>, "r", <<Say(Id("a")), Say(Id("r"))>>)>>
                \o <<Run1(CallOf("f", <<>>)), Run1(CallOf("f", <<N(1)>>)), Run1(CallOf("f", <<N(1), N(2), N(3)>>)),
                     Run1(CallOf("f", <<SpreadExpr(Array(<<1, 2>>)), SpreadExpr(Array(<<3>>))>>))>>)
  @@ "lambda" :> (<<LetStmt("f", LambdaExpr(<<"a", "b", "c">>, <<NoExpr, N(4), Id("b")>>, "", Show3 \o <<Mark(0)>>))>>
                  \o <<Run1(CallOf("f", <<N(1)>>)), Run1(CallOf("f", <<N(1), N(2)>>)), SayOrError(CallOf("f", <<N(1), N(2), N(3), N(4)>>)),
                       LetStmt("g", LambdaExpr(<<>>, <<>>, "r", <<ReturnStmt(Id("r"))>>)), Say(CallOf("g", <<N(1), N(2)>>)), Say(CallOf("g", <<>>))>>)
  @@ "notcallable" :> <<SayOrError(CallExpr(N(1), <<N(2)>>)), SayOrError(CallExpr(T("x"), <<>>)),
                        SayOrError(NamedCallExpr(N(1), <<N(2)>>, <<"a">>)), SayOrError(NamedCallExpr(Id("len"), <<Array(<<1>>)>>, <<"a">>)),
                        SayOrError(CallOf("len", <<Array(<<1>>), N(1)>>)), Say(CallOf("len", <<Array(<<4, 5>>)>>))>>
  @@ "pipes" :> <<Func("add", <<"a", "b">>, <<ReturnStmt(Op2("+", Id("a"), Id("b")))>>), Func("fail", <<"a">>, <<ThrowStmt(Id("a"))>>),
                  Func("twice", <<"x">>, <<ReturnStmt(Op2("*", Id("x"), N(2)))>>),
                  Say(PipeExpr(N(3), CallOf("add", <<N(4)>>))), Say(PipeExpr(PipeExpr(N(3), Id("twice")), Id("twice"))),
                  Say(PipeExpr(N(3), NamedCallExpr(Id("add"), <<N(1)>>, <<"b">>))),
                  Say(PipeTryExpr(PipeExpr(N(3), Id("fail")), Id("twice"))), Say(PipeTryExpr(CallOf("fail", <<N(5)>>), CallOf("add", <<N(1)>>))),
                  Say(PipeTryExpr(N(6), Id("twice"))),
                  SayOrError(PipeTryExpr(CallOf("fail", <<N(5)>>), Id("fail"))), SayOrError(PipeExpr(N(1), N(2))),
                  Say(Op2("+", N(1), PipeTryExpr(CallOf("fail", <<N(5)>>), CallOf("add", <<PipeTryExpr(CallOf("fail", <<N(7)>>), Id("twice"))>>))))>>

-----------------------------------------------------------------------------
(* Containers and destructuring. *)

ContainerPrograms ==
  "arrays" :> <<LetStmt("a", Array(<<1, 2, 3>>)), Say(At1(Id("a"), N(0))), Say(At1(Id("a"), N(-1))), SayOrError(At1(Id("a"), N(3))),
                SayOrError(At1(Id("a"), N(-4))), SayOrError(At1(Id("a"), T("x"))), Say(IndexAssignExpr(Id("a"), N(1), N(9))), Say(Id("a")),
                SayOrError(IndexAssignExpr(Id("a"), N(3), N(9))), SayOrError(IndexAssignExpr(Id("a"), T("x"), N(9))),
                Say(IndexExpr(Id("a"), N(7), TRUE)), Say(IndexExpr(Lit(Nil), N(7), TRUE)), SayOrError(At1(Lit(Nil), N(0))),
                SayOrError(IndexAssignExpr(Lit(Nil), N(0), N(1))),
                Say(ArrayExpr(<<N(0), SpreadExpr(Id("a")), SpreadExpr(Array(<<>>)), N(8)>>)),
                Say(ArrayExpr(<<SpreadExpr(Id("a"))>>)), Say(Op2("==", Array(<<1, 2>>), Array(<<1, 2>>))), Say(Array(<<>>))>>
  @@ "maps" :> <<LetStmt("m", MapOf(<<<<"a", N(1)>>, <<"b", N(2)>>>>)), Say(Dot(Id("m"), "a")), Say(At1(Id("m"), T("b"))), Say(Dot(Id("m"), "z")),
                 Say(DotExpr(Lit(Nil), "z", TRUE)), SayOrError(Dot(Lit(Nil), "z")), Run1(DotAssignExpr(Id("m"), "a", N(7))),
                 Run1(IndexAssignExpr(Id("m"), N(4), N(8))), SayOrError(IndexAssignExpr(Id("m"), Array(<<>>), N(1))), Say(Id("m")),
                 Say(MapExpr(<<T("a"), NoExpr, T("c")>>, <<N(0), SpreadExpr(Id("m")), N(3)>>)), SayOrError(MapExpr(<<Array(<<1>>)>>, <<N(1)>>)),
                 SayOrError(DotAssignExpr(N(1), "a", N(7))), Say(MapExpr(<<>>, <<>>)), Say(DotExpr(Id("m"), "z", TRUE))>>
  @@ "sets" :> <<Say(SetExpr(<<N(1), N(2), N(1)>>)), SayOrError(SetExpr(<<Array(<<1>>)>>)), LetStmt("s", SetExpr(<<N(3)>>)),
                 Say(SetExpr(<<SpreadExpr(Id("s")), N(4), SpreadExpr(Array(<<5, 3>>))>>)), SayOrError(SetExpr(<<SpreadExpr(N(1))>>)),
                 SayOrError(SetExpr(<<SpreadExpr(Id("s")), Array(<<1>>)>>)), SayOrError(SetExpr(<<SpreadExpr(ArrayExpr(<<Array(<<1>>)>>))>>))>>
  @@ "patterns" :> <<PatternStmt(TRUE, <<Entry("", "a", FALSE), Entry("", "b", FALSE), Entry("", "r", TRUE)>>, Array(<<1, 2, 3, 4>>)),
                     Say(ArrayExpr(<<Id("a"), Id("b"), Id("r")>>)),
                     Func("main", <<"m">>, <<PatternStmt(FALSE, <<Entry("x", "x", FALSE), Entry("y", "z", FALSE), Entry("", "r", TRUE)>>, Id("m")),
                        ReturnStmt(ArrayExpr(<<Id("x"), Id("z"), Id("r"), Fn0(<<>>, Id("z"))>>))>>),
                     LetStmt("w", CallOf("main", <<MapOf(<<<<"x", N(1)>>, <<"y", N(2)>>, <<"q", N(3)>>>>)>>)), Say(Id("w")),
                     Say(CallExpr(At1(Id("w"), N(3)), <<>>)), Say(CallOf("main", <<MapOf(<<>>)>>)), 
                     TryStmt(BlockStmt(<<PatternStmt(TRUE, <<Entry("", "p", FALSE)>>, N(1))>>), "e", Block1(Mark(99)), NoStmt),
                     TryStmt(Block1(Run1(CallOf("main", <<N(1)>>))), "e", Block1(Mark(98)), NoStmt)>>
  @@ "forin" :> <<LetStmt("a", Array(<<1, 2>>)), ForInStmt("x", <<>>, Id("a"), BlockStmt(<<Run1(AssignExpr("a", Op2("+", Id("a"), Array(<<9>>)))), Run1(IndexAssignExpr(Id("a"), N(1), N(7))), Say(Id("x"))>>)), Say(Id("a")),
                  ForInStmt("", <<"key", "value">>, MapOf(<<<<"k", N(1)>>>>), BlockStmt(<<Say(Id("key")), Say(Id("value"))>>)),
                  ForInStmt("x", <<>>, MapOf(<<<<"k", N(1)>>>>), BlockStmt(<<Say(Id("x"))>>)),
                  ForInStmt("x", <<>>, SetExpr(<<N(1), N(2)>>), BlockStmt(<<Say(Id("x"))>>)),
                  ForInStmt("", <<"u", "v">>, ArrayExpr(<<MapOf(<<<<"u", N(1)>>>>)>>), BlockStmt(<<Say(Id("u")), Say(Id("v"))>>)),
                  Try1(<<ForStmt("i", N(0), T("x"), BlockStmt(<<>>))>>), ForStmt("i", N(2), N(1), Block1(Mark(1)))>>

-----------------------------------------------------------------------------
(* Matches, conditions, ends of functions. *)

MatchPrograms ==
  "values" :> <<Func("f", <<"x">>, <<ReturnStmt(MatchExpr(Id("x"), <<ByPattern(N(1), <<Run1(T("one"))>>), ByType(T("string"), <<Run1(Op2("+", Id("x"), T("!")))>>),
                   When(Op2("==", Id("x"), Lit(Nil)), <<Mark(0)>>), ByPattern(Array(<<1>>), <<Mark(5), Run1(T("array"))>>), When(Op2(">", Id("x"), N(5)), <<Run1(T("big"))>>), Default(<<>>)>>))>>)>>
               \o FlattenSeq([k \in 1 .. 6 |-> <<SayOrError(CallOf("f", <<(<<N(1), T("s"), Lit(Nil), Array(<<1>>), N(9), N(3)>>)[k]>>))>>])
  @@ "default" :> <<LetStmt("x", N(4)), LetStmt("v", MatchExpr(Id("x"), <<ByPattern(N(1), <<Run1(N(2))>>), Default(<<LetStmt("y", N(3)), Run1(Op2("+", Id("y"), Id("x")))>>)>>)), Say(Id("v")),
                    Say(MatchExpr(N(1), <<Default(<<>>)>>)), SayOrError(MatchExpr(N(1), <<ByType(N(1), <<Run1(N(1))>>), Default(<<>>)>>)),
                    Scope(<<LetStmt("z", N(1)), ExprStmt(MatchExpr(Id("z"), <<ByPattern(N(1), <<LetStmt("q", N(8)), LetStmt("f", Fn0(<<>>, Id("q"))), Say(CallOf("f", <<>>))>>)>>)), Say(Id("z"))>>)>>
  @@ "tags" :> <<Func("f", <<"r">>, <<LetStmt("k", N(2)), ExprStmt(MatchExpr(Id("r"), <<
                     ByPattern(CallOf("Ok", <<Id("v")>>), <<Say(Id("v")), Say(Id("k"))>>),
                     ByPattern(CallOf("Ok", <<Id("v"), Id("w")>>), <<Say(Id("w")), LetStmt("g", Fn0(<<>>, Op2("+", Id("v"), Id("k")))), Say(CallOf("g", <<>>))>>),
                     ByPattern(CallOf("Err", <<N(1)>>), <<Mark(11)>>),
                     ByPattern(CallOf("Err", <<Op2("+", Id("k"), N(1))>>), <<Mark(12)>>),
                     Default(<<Mark(13)>>)>>)), ReturnStmt(Id("k"))>>),
                 Say(CallOf("f", <<CallOf("Ok", <<N(4)>>)>>)), Say(CallOf("f", <<CallOf("Ok", <<N(4), N(5)>>)>>)), Say(CallOf("f", <<CallOf("Err", <<N(1)>>)>>)),
                 Say(CallOf("f", <<CallOf("Err", <<N(3)>>)>>)), Say(CallOf("f", <<CallOf("A", <<>>)>>)),
                 LetStmt("t", CallOf("Ok", <<N(1), N(2)>>)), Say(Dot(Id("t"), "tag")), Say(Dot(Id("t"), "values")), SayOrError(Dot(Id("t"), "other")),
                 Func("Ok", <<"x">>, <<ReturnStmt(Op2("+", Id("x"), N(1)))>>), Say(CallOf("Ok", <<N(1)>>)),
                 Func("g", <<"Ok">>, <<ReturnStmt(CallOf("Ok", <<N(5)>>))>>), Say(CallOf("g", <<Fn0(<<"x">>, Id("x"))>>))>>
  @@ "if" :> <<Func("f", <<"x">>, <<IfStmt(<<Branch(Op2("==", Id("x"), N(1)), BlockStmt(<<ReturnStmt(N(10))>>)), Branch(Op2("==", Id("x"), N(2)), BlockStmt(<<Mark(20)>>))>>,
                    BlockStmt(<<ReturnStmt(N(30))>>)), IfStmt(<<Branch(Id("x"), Block1(Mark(40)))>>, NoStmt)>>),
               Say(CallOf("f", <<N(1)>>)), Say(CallOf("f", <<N(2)>>)), Say(CallOf("f", <<N(3)>>))>>
  @@ "ensure" :> <<Func("f", <<"x">>, <<EnsureStmt("y", Id("x"), BlockStmt(<<ReturnStmt(N(1))>>)), EnsureStmt("", Op2(">", Id("y"), N(5)), BlockStmt(<<ReturnStmt(Id("y"))>>)),
                        ReturnStmt(N(2))>>), Say(CallOf("f", <<Lit(Nil)>>)), Say(CallOf("f", <<N(3)>>)), Say(CallOf("f", <<N(9)>>)),
                   EnsureStmt("z", N(4), BlockStmt(<<ThrowStmt(N(1))>>)), Say(Id("z"))>>
  @@ "enum" :> <<EnumStmt("A", <<"x", "y", "z">>, <<NoExpr, N(7), NoExpr>>), Say(Id("A")), Say(Dot(Id("A"), "z"))>>
  @@ "defer" :> <<Func("fail", <<>>, <<DeferStmt(CallOf("print", <<T("deferred in fail")>>)), ThrowStmt(N(9))>>),
                  Func("f", <<"x">>, <<DeferStmt(CallOf("print", <<Id("x")>>)), DeferStmt(CallOf("fail", <<>>)), DeferStmt(AssignExpr("x", N(4))),
                     Run1(AssignExpr("x", N(3))), IfStmt(<<Branch(Op2("==", Id("x"), N(3)), BlockStmt(<<DeferStmt(CallOf("print", <<T("second")>>)), ReturnStmt(Id("x"))>>))>>, NoStmt)>>),
                  Say(CallOf("f", <<N(1)>>)),
                  Func("g", <<>>, <<DeferStmt(CallOf("print", <<T("g")>>)), Run1(CallOf("fail", <<>>))>>), Try1(<<Run1(CallOf("g", <<>>))>>), Run1(CallOf("g", <<>>))>>

-----------------------------------------------------------------------------
(* Classes. *)

ThisDot(field) == Dot(ThisExpr, field)
SetThis(field, x) == ExprStmt(DotAssignExpr(ThisExpr, field, x))
Static(name, params, body, decorators) == Method(name, params, NoDefaults(params), body, TRUE, decorators)

Operators1 == <<"__add", "__sub", "__mul", "__div", "__mod", "__eq", "__lt", "__gt", "__le", "__ge">>

ClassPrograms ==
  "class" :> <<ClassStmt("A", "", <<Public("init", <<"x">>, <<SetThis("x", Id("x"))>>), Public("get", <<>>, <<ReturnStmt(ThisDot("x"))>>),
                    Public("later", <<>>, <<ReturnStmt(Fn0(<<"y">>, Op2("+", ThisDot("x"), Id("y"))))>>),
                    Method("opt", <<"a", "b">>, <<NoExpr, Op2("+", Id("a"), N(1))>>, <<ReturnStmt(Id("b"))>>, FALSE, <<>>)>>),
               LetStmt("a", CallOf("A", <<N(3)>>)), Say(Send(Id("a"), "get", <<>>)), Say(CallExpr(Send(Id("a"), "later", <<>>), <<N(4)>>)),
               Say(Send(Id("a"), "opt", <<N(1)>>)), Say(Send(Id("a"), "opt", <<N(1), N(9)>>)), SayOrError(Send(Id("a"), "get", <<N(1)>>)),
               SayOrError(Send(Id("a"), "none", <<>>)), Say(DotExpr(Id("a"), "none", TRUE)), SayOrError(CallOf("A", <<N(1), N(2)>>)),
               LetStmt("m", Dot(Id("a"), "get")), Run1(DotAssignExpr(Id("a"), "x", N(8))), Say(CallOf("m", <<>>)),
               Run1(DotAssignExpr(Id("a"), "get", N(1))), Say(Dot(Id("a"), "get")), Say(Op2("is", Id("a"), Id("A"))), Say(Op2("is", N(1), Id("A"))),
               Say(Op2("is", Id("a"), T("instance"))), Say(Op2("==", Id("a"), Id("a"))), Say(Send(CallOf("A", <<Lit(Nil)>>), "get", <<>>)),
               SayOrError(NamedCallExpr(Dot(Id("a"), "opt"), <<N(1), N(2)>>, <<"b", "a">>)), ClassStmt("B", "", <<>>), SayOrError(CallOf("B", <<N(1)>>)), Say(CallOf("B", <<>>)),
               LetStmt("make", Id("A")), Say(Dot(NamedCallExpr(Id("make"), <<N(6)>>, <<"x">>), "x"))>>
  @@ "super" :> <<ClassStmt("A", "", <<Public("init", <<"x">>, <<SetThis("x", Id("x"))>>), Public("who", <<>>, <<ReturnStmt(T("A"))>>), Public("base", <<>>, <<ReturnStmt(T("base"))>>)>>),
                  ClassStmt("B", "A", <<Public("who", <<>>, <<ReturnStmt(Op2("+", T("B"), CallExpr(SuperExpr("who"), <<>>)))>>)>>),
                  ClassStmt("P", "B", <<Public("init", <<"x">>, <<Run1(CallExpr(SuperExpr("init"), <<Op2("+", Id("x"), N(1))>>))>>),
                                        Public("who", <<>>, <<LetStmt("k", N(0)), ReturnStmt(CallExpr(Fn0(<<>>, Op2("+", T("P"), CallExpr(SuperExpr("who"), <<>>))), <<>>))>>),
                                        Public("up", <<>>, <<ReturnStmt(CallExpr(SuperExpr("base"), <<>>))>>), Public("bad", <<>>, <<ReturnStmt(SuperExpr("none"))>>)>>),
                  LetStmt("p", CallOf("P", <<N(1)>>)), Say(Dot(Id("p"), "x")), Say(Send(Id("p"), "who", <<>>)), Say(Send(Id("p"), "up", <<>>)), SayOrError(Send(Id("p"), "bad", <<>>)),
                  Say(Op2("is", Id("p"), Id("A"))), Say(Dot(CallOf("B", <<N(4)>>), "x")), LetStmt("w", Dot(Id("p"), "who")), Say(CallOf("w", <<>>)),
                  Try1(<<ClassStmt("Pair", "w", <<>>)>>), Try1(<<ClassStmt("Err", "nothing", <<>>)>>)>>
  @@ "operators" :> <<ClassStmt("A", "", <<Public("init", <<"n">>, <<SetThis("n", Id("n"))>>)>>
                        \o [k \in DOMAIN Operators1 |-> Public(Operators1[k], <<"o">>, <<Mark(k), ReturnStmt(Op2((<<"+", "-", "*", "+", "-", "==", "<", ">", "<=", ">=">>)[k], ThisDot("n"), Id("o")))>>)]
                        \o <<Public("__neg", <<>>, <<ReturnStmt(UnaryExpr("-", ThisDot("n")))>>), Public("__index", <<"i">>, <<ReturnStmt(Op2("*", Id("i"), N(2)))>>),
                             Public("__indexSet", <<"i", "v">>, <<SetThis("n", Id("v")), ReturnStmt(Id("v"))>>)>>),
                      LetStmt("a", CallOf("A", <<N(4)>>))>>
                     \o [k \in 1 .. 11 |-> Say(Op2((<<"+", "-", "*", "/", "%", "==", "!=", "<", ">", "<=", ">=">>)[k], Id("a"), N(3)))]
                     \o <<Say(UnaryExpr("-", Id("a"))), Say(At1(Id("a"), N(5))), Say(IndexAssignExpr(Id("a"), N(5), N(6))), Say(Dot(Id("a"), "n")),
                          Say(MatchExpr(Id("a"), <<ByPattern(N(1), <<Run1(T("no"))>>), ByPattern(N(6), <<Run1(T("yes"))>>), Default(<<>>)>>)), SayOrError(Op2("+", N(1), Id("a"))),
                          ClassStmt("B", "A", <<>>), Say(Op2("+", CallOf("B", <<N(1)>>), N(1)))>>
  @@ "fallback" :> <<ClassStmt("A", "", <<Public("__lt", <<"o">>, <<Mark(1), ReturnStmt(Id("o"))>>), Public("__gt", <<"o">>, <<Mark(2), ReturnStmt(Id("o"))>>)>>),
                     LetStmt("a", CallOf("A", <<>>)), Say(Op2("<=", Id("a"), Lit(Bool(TRUE)))), Say(Op2(">=", Id("a"), Lit(Bool(FALSE)))), SayOrError(Op2("+", Id("a"), N(1))),
                     SayOrError(At1(Id("a"), N(1))), SayOrError(UnaryExpr("-", Id("a"))), SayOrError(IndexAssignExpr(Id("a"), N(1), N(1)))>>
  @@ "throwing" :> <<ClassStmt("A", "", <<Public("__add", <<"o">>, <<DeferStmt(CallOf("print", <<T("bye")>>)), ThrowStmt(Id("o"))>>)>>), LetStmt("a", CallOf("A", <<>>)),
                     Func("f", <<>>, <<DeferStmt(CallOf("print", <<T("f")>>)), ReturnStmt(Op2("+", Id("a"), N(1)))>>), Mark(0), Say(CallOf("f", <<>>))>>
  @@ "decorators" :> <<Func("loud", <<"f">>, <<ReturnStmt(Fn0(<<"x">>, Op2("+", CallOf("f", <<Id("x")>>), T("!"))))>>),
                       Func("twice", <<"f">>, <<ReturnStmt(Fn0(<<"x">>, CallOf("f", <<Op2("*", Id("x"), N(2))>>)))>>),
                       ClassStmt("A", "", <<Method("m", <<"x">>, <<NoExpr>>, <<ReturnStmt(Op2("+", Id("x"), ThisDot("k")))>>, FALSE, <<Id("loud"), Id("twice")>>),
                                            Static("s", <<"x">>, <<ReturnStmt(Op2("+", Id("x"), N(1)))>>, <<Id("loud"), Id("twice")>>), Static("p", <<>>, <<ReturnStmt(N(3))>>, <<>>)>>),
                       LetStmt("a", CallOf("A", <<>>)), Run1(DotAssignExpr(Id("a"), "k", N(10))), Say(Send(Id("a"), "m", <<N(3)>>)), Say(Send(Id("A"), "s", <<N(5)>>)), Say(Send(Id("A"), "p", <<>>)),
                       ClassStmt("B", "A", <<>>), Say(Send(Id("B"), "s", <<N(6)>>)), SayOrError(Send(Id("A"), "none", <<>>))>>
  @@ "baddecorator" :> <<Func("fail", <<"f">>, <<ThrowStmt(N(1))>>), ClassStmt("A", "", <<Method("m", <<>>, <<>>, <<>>, FALSE, <<Id("fail")>>)>>),
                         LetStmt("a", CallOf("A", <<>>)), Mark(1), Say(Send(Id("a"), "m", <<>>))>>

AllPrograms == OperatorPrograms @@ VariablePrograms @@ CallPrograms @@ ContainerPrograms @@ MatchPrograms @@ ClassPrograms
=============================================================================
