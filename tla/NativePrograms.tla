---------------------------- MODULE NativePrograms ----------------------------
(* Small programs that use the built-in functions and methods, with legal    *)
(* and illegal arguments and with callbacks of every kind.                   *)
EXTENDS LanguagePrograms

Each1(f, xs) == [k \in DOMAIN xs |-> SayOrError(CallOf(f, <<xs[k]>>))] \o <<>>
SendEach(method, xs) == [k \in DOMAIN xs |-> SayOrError(Send(xs[k], method, <<>>))] \o <<>>
Tries(xs) == [k \in DOMAIN xs |-> SayOrError(xs[k])] \o <<>>
Two(f, x, y) == CallOf(f, <<x, y>>)
Half(n) == Op2("/", N(n), N(2))

MoreOperands == Operands \o <<T("42"), T("true"), Half(7), Half(-7), Op2("/", N(7), N(-2)), Id("print"), CallOf("Ok", <<N(1)>>)>>

ConversionPrograms ==
  [f \in {"type", "str", "num", "int", "len"} |-> Each1(f, MoreOperands)]
  @@ [m \in {"toString", "toNum"} |-> SendEach(m, MoreOperands)]
  @@ "assert" :> Tries(<<CallOf("assert", <<N(1)>>), CallOf("assert", <<Lit(Nil)>>), Two("assert", Lit(Bool(FALSE)), T("why")),
                         CallOf("assert", <<>>), Two("assert", N(0), T("why")), CallOf("type", <<>>), Two("type", N(1), N(2))>>)

-----------------------------------------------------------------------------
(* Arrays, maps, sets. *)

OnArrays == {"unique", "flatten", "enumerate", "keys", "values", "pop"}

ArrayPrograms ==
  [f \in OnArrays |->
     Each1(f, <<Array(<<>>), Array(<<3, 1, 3, 2>>), ArrayExpr(<<Array(<<1>>), N(7), Array(<<1>>), Array(<<>>)>>),
                MapOf(<<<<"a", N(1)>>>>), N(1)>>)]
  @@ "zip" :> Tries(<<Two("zip", Array(<<1, 2>>), Array(<<3, 4, 5>>)), Two("zip", Array(<<1>>), Array(<<>>)),
                      Two("zip", N(1), Array(<<1>>)), Two("zip", Array(<<1>>), N(1))>>)
  @@ "changes" :> (<<LetStmt("a", Array(<<3, 1, 2>>))>>
       \o Tries(<<Send(Id("a"), "push", <<N(1)>>), Id("a"), Send(Id("a"), "pop", <<>>), Send(Id("a"), "shift", <<>>), Id("a"),
                  Send(Id("a"), "unshift", <<T("x")>>), Send(Id("a"), "reverseInPlace", <<>>), Id("a"), Send(Id("a"), "reversed", <<>>),
                  Send(Id("a"), "reverse", <<>>), Id("a"), Send(Array(<<>>), "pop", <<>>), Send(Array(<<>>), "shift", <<>>),
                  Send(Id("a"), "push", <<>>), Send(Id("a"), "none", <<>>), DotExpr(Id("a"), "none", TRUE), Two("push", Id("a"), Id("a")),
                  Two("push", N(1), N(1)), CallOf("len", <<Id("a")>>), Send(Array(<<3, 1, 2>>), "sort", <<>>)>>))
  @@ "searches" :> (<<LetStmt("a", ArrayExpr(<<N(1), T("x"), Array(<<2>>), N(1)>>))>>
       \o Tries(<<Send(Id("a"), "contains", <<Array(<<2>>)>>), Send(Id("a"), "contains", <<N(2)>>), Send(Id("a"), "indexOf", <<N(1)>>),
                  Send(Id("a"), "lastIndexOf", <<N(1)>>), Send(Id("a"), "indexOf", <<Lit(Nil)>>), Send(Id("a"), "lastIndexOf", <<T("y")>>),
                  Send(Id("a"), "join", <<T("-")>>), Send(Id("a"), "join", <<N(1)>>), Send(Array(<<>>), "join", <<T("-")>>)>>))
  @@ "slice" :> (<<LetStmt("a", Array(<<1, 2, 3, 4>>))>>
       \o Tries(<<Send(Id("a"), "slice", <<N(1)>>), Send(Id("a"), "slice", <<N(1), N(3)>>), Send(Id("a"), "slice", <<N(-2)>>),
                  Send(Id("a"), "slice", <<N(-9), N(-1)>>), Send(Id("a"), "slice", <<N(3), N(1)>>), Send(Id("a"), "slice", <<N(2), N(9)>>),
                  Send(Id("a"), "slice", <<>>), Send(Id("a"), "slice", <<T("x")>>), Send(Id("a"), "slice", <<N(0), T("x")>>),
                  NamedCallExpr(Dot(Id("a"), "slice"), <<N(3), N(1)>>, <<"end", "start">>),
                  NamedCallExpr(Dot(Id("a"), "slice"), <<N(3)>>, <<"end">>), NamedCallExpr(Dot(Id("a"), "slice"), <<N(3)>>, <<"to">>),
                  NamedCallExpr(Dot(Id("a"), "push"), <<N(3)>>, <<"v">>)>>))

MapPrograms ==
  "mapmethods" :> (<<LetStmt("m", MapOf(<<<<"a", N(1)>>, <<"has", N(2)>>>>))>>
       \o Tries(<<Send(Id("m"), "get", <<T("a")>>), Send(Id("m"), "get", <<T("z")>>), Send(Id("m"), "get", <<T("z"), N(9)>>),
                  Send(Id("m"), "get", <<>>), Send(Id("m"), "delete", <<T("has")>>), Send(Id("m"), "has", <<T("a")>>),
                  Send(Id("m"), "has", <<T("has")>>), Send(Id("m"), "delete", <<T("has")>>),
                  Send(Id("m"), "merge", <<MapOf(<<<<"a", N(5)>>, <<"b", N(6)>>>>)>>), Id("m"),
                  Send(Id("m"), "mergeInPlace", <<MapOf(<<<<"a", N(5)>>, <<"b", N(6)>>>>)>>), Id("m"), Send(Id("m"), "merge", <<N(1)>>),
                  Send(Id("m"), "entries", <<>>), CallOf("keys", <<Id("m")>>), CallOf("values", <<Id("m")>>), CallOf("len", <<Id("m")>>),
                  Send(Id("m"), "clear", <<>>), Id("m"), Send(Id("m"), "none", <<>>)>>))
  @@ "hides" :> (<<LetStmt("m", MapOf(<<<<"get", N(1)>>, <<"toString", Fn0(<<>>, N(2))>>>>))>>
       \o Tries(<<Dot(Id("m"), "get"), Send(Id("m"), "toString", <<>>), Send(Id("m"), "get", <<T("get")>>)>>))
  @@ "setmethods" :> (<<LetStmt("s", SetExpr(<<N(1), N(2)>>)), LetStmt("t", SetExpr(<<N(2), N(3)>>)), LetStmt("u", Send(Id("s"), "clone", <<>>))>>
       \o Tries(<<Send(Id("s"), "add", <<N(5)>>), Send(Id("s"), "add", <<N(5)>>), Send(Id("s"), "add", <<Array(<<>>)>>), Send(Id("s"), "size", <<>>),
                  Send(Id("s"), "has", <<N(5)>>), Send(Id("s"), "remove", <<N(5)>>), Send(Id("s"), "remove", <<N(5)>>)>>)
       \o [k \in 1 .. 4 |-> SayOrError(Send(Id("s"), (<<"union", "intersection", "difference", "isSubset">>)[k], <<Id("t")>>))]
       \o Tries(<<Send(Id("s"), "union", <<N(1)>>), Send(Id("s"), "isSubset", <<Send(Id("s"), "union", <<Id("t")>>)>>),
                  Send(Send(Id("s"), "difference", <<Id("t")>>), "toArray", <<>>), Send(Id("s"), "none", <<>>),
                  Send(Id("s"), "unionInPlace", <<Id("t")>>), Id("s"), Send(Id("s"), "differenceInPlace", <<SetExpr(<<N(1)>>)>>), Id("s"),
                  Send(Id("s"), "intersectionInPlace", <<SetExpr(<<N(3), N(4)>>)>>), Id("s"), Send(Id("s"), "clear", <<>>), Id("s"), Id("u")>>))

-----------------------------------------------------------------------------
(* Strings. *)

SendAll(s, calls) == Tries([k \in DOMAIN calls |-> Send(T(s), calls[k][1], Tail(calls[k]))] \o <<>>)
Plain == {"upper", "lower", "strip", "title", "capitalize", "capitalizeFirst", "trimStart", "trimEnd", "reverse", "graphemes",
          "codepoints", "bytes", "isDigit", "isAlpha", "isAlnum", "isSpace", "isUpper", "isLower", "charCode"}
Texts == <<"", "a", "aZ9", " bc  dE ", "12", "HI", "a\tb\n", "  ">>

StringPrograms ==
  [m \in Plain |-> SendEach(m, [k \in DOMAIN Texts |-> T(Texts[k])])]
  @@ [m \in {"contains", "startsWith", "endsWith", "count", "split", "lastIndexOf"} |->
        SendAll("abcab", <<<<m, T("ab")>>, <<m, T("abcab")>>, <<m, T("x")>>, <<m, T("abcabc")>>, <<m, N(1)>>, <<m>>>>)
        \o SendAll("aaa", <<<<m, T("aa")>>, <<m, T("a")>>>>) \o SendAll("", <<<<m, T("a")>>>>)
        \o SendAll("ab", <<<<m, T("")>>>>)]
  @@ [m \in {"padStart", "padEnd", "center"} |->
        SendAll("ab", <<<<m, N(5)>>, <<m, N(2)>>, <<m, N(7), T("xyz")>>, <<m, N(4), T("")>>, <<m, N(3), N(1)>>, <<m, T("x")>>, <<m>>, <<m, N(-1)>>>>)
        \o Tries(<<NamedCallExpr(Dot(T("a"), m), <<T("-"), N(4)>>, <<"fillString", "width">>)>>)]
  @@ "cuts" :>
       (SendAll("hello", <<<<"slice", N(1)>>, <<"slice", N(1), N(3)>>, <<"slice", N(-3)>>, <<"slice", N(-9), N(-1)>>, <<"slice", N(3), N(1)>>,
                           <<"slice", N(9)>>, <<"slice", N(2), N(9)>>, <<"slice">>, <<"slice", T("x")>>, <<"slice", N(1), Lit(Nil)>>,
                           <<"indexOf", T("l")>>, <<"indexOf", T("l"), N(3)>>, <<"indexOf", T("l"), N(-1)>>, <<"indexOf", T("l"), N(5)>>, <<"indexOf", T("z")>>,
                           <<"indexOf">>, <<"charCode", N(-1)>>, <<"charCode", N(5)>>, <<"charCode", T("x")>>, <<"repeat", N(2)>>, <<"repeat", N(0)>>, <<"repeat", N(-1)>>,
                           <<"replace", T("l"), T("ll")>>, <<"replace", T("lo"), T("")>>, <<"replace", T(""), T("x")>>, <<"replace", T("x"), N(1)>>,
                           <<"toString">>, <<"none">>>>)
        \o Tries(<<NamedCallExpr(Dot(T("hello"), "slice"), <<N(2)>>, <<"end">>), NamedCallExpr(Dot(T("hello"), "replace"), <<T("y"), T("h")>>, <<"replacement", "pattern">>),
                   NamedCallExpr(Dot(T("a"), "split"), <<T("a")>>, <<"sep">>), DotExpr(T("a"), "none", TRUE), Dot(T("a"), "upper")>>))
  @@ [op \in {"less than", "at least"} |->
        AllPairs(IF op = "less than" THEN "<" ELSE ">=", <<T(""), T("a"), T("ab"), T("b"), T("B"), N(1)>>)]
  @@ "characters" :>
       (<<LetStmt("s", T("abc")), ForInStmt("c", <<>>, Id("s"), BlockStmt(<<IfStmt(<<Branch(Op2("==", Id("c"), T("b")), Block1(ContinueStmt))>>, NoStmt), Say(Id("c"))>>))>>
        \o Tries(<<At1(Id("s"), N(0)), At1(Id("s"), N(-1)), At1(Id("s"), N(3)), IndexExpr(Id("s"), N(3), TRUE), At1(Id("s"), T("x")), At1(T(""), N(0)),
                   IndexAssignExpr(Id("s"), N(0), T("x")), Two("map", Send(Id("s"), "split", <<T("")>>), Id("str")),
                   CallOf("sort", <<ArrayExpr(<<T("b"), T("ab"), T("a"), T("B"), T("")>>)>>),
                   Send(ArrayExpr(<<T("xx"), T("y"), T("x")>>), "sorted", <<>>)>>))

-----------------------------------------------------------------------------
(* Callbacks. *)

Odd == Fn0(<<"x">>, Op2("==", Op2("%", Id("x"), N(2)), N(1)))
Walkers == {"filter", "map", "each", "any", "all", "flatMap", "groupBy", "findIndex"}
Loud(params, x) == LambdaExpr(params, NoDefaults(params), "", <<Say(Id(Head(params))), ReturnStmt(x)>>)

\* The callback fails on its second element.
Failing == LambdaExpr(<<"x">>, <<NoExpr>>, "",
  <<DeferStmt(CallOf("print", <<T("bye"), Id("x")>>)), LetStmt("y", Op2("-", N(4), Id("x"))),
    IfStmt(<<Branch(Op2("==", Id("y"), N(2)), Block1(ReturnStmt(Op2("/", Id("x"), N(0)))))>>, NoStmt), ReturnStmt(Id("y"))>>)

WalkPrograms ==
  [f \in Walkers |->
     <<LetStmt("n", N(0)), LetStmt("a", Array(<<1, 2, 3, 1>>))>>
     \o Tries(<<Two(f, Id("a"), Odd), Two(f, Id("a"), Loud(<<"x">>, Op2(">", Id("x"), N(1)))), Two(f, Array(<<>>), Odd),
                Two(f, Id("a"), Fn0(<<"x", "y">>, Id("y"))), Two(f, Id("a"), LambdaExpr(<<>>, <<>>, "r", <<ReturnStmt(CallOf("len", <<Id("r")>>))>>)),
                Two(f, Id("a"), Failing), Two(f, Id("a"), Fn0(<<>>, N(1))), Two(f, N(1), Odd), Two(f, Id("a"), N(1)), CallOf(f, <<Id("a")>>),
                Two(f, Id("a"), Fn0(<<"x">>, PostfixExpr("++", "n"))), Id("n"), Two(f, Id("a"), Dot(Array(<<9, 2>>), "contains"))>>)]
  @@ "reduce" :> (<<Func("add", <<"x", "y">>, <<ReturnStmt(Op2("+", Id("x"), Id("y")))>>)>>
       \o Tries(<<Two("reduce", Array(<<1, 2, 3>>), Id("add")), CallOf("reduce", <<Array(<<1, 2>>), Id("add"), T("x")>>),
                  Two("reduce", Array(<<>>), Id("add")), CallOf("reduce", <<Array(<<>>), Id("add"), N(7)>>), Two("reduce", Array(<<7>>), Id("add")),
                  Two("reduce", N(1), Id("add")), Two("reduce", Array(<<1>>), N(1)), CallOf("reduce", <<>>), CallOf("reduce", <<Array(<<1>>)>>),
                  Two("reduce", Array(<<1, 2, 0>>), Loud(<<"x", "y">>, Op2("%", Id("x"), Id("y"))))>>))
  @@ "find" :> Tries(<<Send(Array(<<2, 3, 4>>), "find", <<Odd>>), Send(Array(<<2>>), "find", <<Odd>>), Send(Array(<<2>>), "find", <<N(1)>>)>>)
  \* one native inside another, and an error that crosses both
  @@ "within" :>
       <<LetStmt("a", ArrayExpr(<<Array(<<1, 2>>), Array(<<3>>), Array(<<>>)>>)), LetStmt("b", ArrayExpr(<<>>)),
         Func("f", <<"k">>, <<LetStmt("s", N(0)), Run1(Two("each", Id("a"), Fn0(<<"xs">>, Two("each", Id("xs"), Fn0(<<"x">>,
            AssignExpr("s", Op2("+", Id("s"), Op2("*", Id("x"), Id("k"))))))))), ReturnStmt(Id("s"))>>),
         Say(CallOf("f", <<N(2)>>)), SayOrError(CallOf("f", <<Lit(Nil)>>)), Say(Two("map", Id("a"), Id("len"))),
         Say(Two("map", Id("a"), Fn0(<<"xs">>, Two("map", Id("xs"), Id("str"))))), SayOrError(Two("map", Array(<<1>>), Id("len"))),
         Say(Two("each", Array(<<4, 5>>), Dot(Id("b"), "push"))), Say(Id("b")), SayOrError(Two("each", Array(<<1, 2>>), Dot(Array(<<>>), "join"))),
         Say(Two("filter", Id("a"), Loud(<<"xs">>, Two("any", Id("xs"), Odd)))), Say(Two("map", ArrayExpr(<<Id("b")>>), Id("pop"))), Say(Id("b"))>>
  \* an element that the callback replaces while the array is walked
  @@ "replaces" :>
       <<LetStmt("a", Array(<<1, 2, 3>>)), Say(Two("filter", Id("a"), Fn0(<<"x">>, IndexAssignExpr(Id("a"), N(-1), Op2("+", Id("x"), N(4)))))), Say(Id("a")),
         Say(Two("findIndex", Id("a"), LambdaExpr(<<"x">>, <<NoExpr>>, "", <<Run1(IndexAssignExpr(Id("a"), N(0), N(9))), ReturnStmt(Op2(">", Id("x"), N(5)))>>))),
         Say(Send(Id("a"), "find", <<LambdaExpr(<<"x">>, <<NoExpr>>, "", <<Run1(IndexAssignExpr(Id("a"), N(0), N(8))), ReturnStmt(Lit(Bool(TRUE)))>>)>>))>>
  @@ "deep" :>
       <<Func("dive", <<"n">>, <<Mark(1), ReturnStmt(Two("map", ArrayExpr(<<Op2("+", Id("n"), N(1))>>), Id("dive")))>>), LetStmt("r", Lit(Nil)),
         TryStmt(Block1(Run1(CallOf("dive", <<N(0)>>))), "e", Block1(Mark(99)), NoStmt),
         Func("count", <<"n">>, <<ReturnStmt(TernaryExpr(Op2("==", Id("n"), N(0)), N(0),
            CallOf("reduce", <<Array(<<1, 1>>), Fn0(<<"x", "y">>, Op2("+", Op2("+", Id("x"), Id("y")), CallOf("count", <<Op2("-", Id("n"), N(1))>>))), N(0)>>)))>>),
         Say(CallOf("count", <<N(2)>>))>>

SortPrograms ==
  "comparators" :> (<<LetStmt("a", Array(<<3, 1, 2>>)), LetStmt("d", Fn0(<<"x", "y">>, Op2("-", Id("y"), Id("x"))))>>
       \o Tries(<<Two("sort", Id("a"), Id("d")), Two("sort", Id("a"), Fn0(<<"x", "y">>, Op2("<", Id("x"), Id("y")))), Two("sort", Id("a"), N(1)),
                  CallOf("sort", <<>>), Two("sort", Array(<<>>), Id("d")), Two("sort", Array(<<5>>), Id("d")),
                  Two("sort", Id("a"), Fn0(<<"x", "y">>, Op2("+", Id("x"), Lit(Nil)))), Two("sort", Id("a"), Fn0(<<"x">>, N(1))), Id("a"),
                  Send(Id("a"), "sorted", <<>>), Send(Id("a"), "sorted", <<Id("d")>>), NamedCallExpr(Dot(Id("a"), "sorted"), <<Id("d")>>, <<"comparator">>),
                  Id("a"), Send(Id("a"), "sortInPlace", <<Id("d")>>), Id("a"), Send(Id("a"), "sortInPlace", <<>>), Id("a"),
                  Two("sort", Id("a"), Fn0(<<"x", "y">>, Op2("/", Op2("-", Id("y"), Id("x")), N(2))))>>))

-----------------------------------------------------------------------------
(* Instances: their texts and sizes, and their methods as callbacks. *)

TextPrograms ==
  "texts" :>
       (<<ClassStmt("A", "", <<Public("init", <<"x">>, <<SetThis("x", Id("x"))>>), Public("__str", <<>>, <<Mark(0), ReturnStmt(ThisDot("x"))>>)>>),
          ClassStmt("B", "A", <<Public("toString", <<>>, <<ReturnStmt(T("never"))>>), Public("__len", <<>>, <<ReturnStmt(Op2("+", ThisDot("x"), N(1)))>>)>>),
          ClassStmt("P", "", <<Public("toString", <<>>, <<ReturnStmt(T("p"))>>)>>), ClassStmt("Pair", "", <<>>),
          ClassStmt("Err", "", <<Public("__str", <<>>, <<ReturnStmt(Op2("/", N(1), N(0)))>>)>>)>>
        \o Tries(<<CallOf("print", <<N(1), CallOf("A", <<N(2)>>), CallOf("P", <<>>), CallOf("Pair", <<>>), CallOf("B", <<Array(<<3>>)>>), N(4)>>),
                   CallOf("str", <<CallOf("A", <<N(2)>>)>>), CallOf("str", <<CallOf("B", <<N(2)>>)>>), CallOf("str", <<CallOf("P", <<>>)>>),
                   CallOf("str", <<CallOf("Pair", <<>>)>>), CallOf("len", <<CallOf("B", <<N(2)>>)>>), CallOf("len", <<CallOf("A", <<N(2)>>)>>),
                   CallOf("len", <<CallOf("B", <<T("a")>>)>>), CallOf("len", <<CallOf("B", <<Lit(Nil)>>)>>), CallOf("print", <<N(1), CallOf("Err", <<>>), N(2)>>),
                   CallOf("str", <<CallOf("Err", <<>>)>>), CallOf("print", <<CallOf("A", <<CallOf("A", <<N(1)>>)>>)>>), CallOf("print", <<>>),
                   Two("map", ArrayExpr(<<CallOf("A", <<N(7)>>), CallOf("B", <<N(8)>>), N(9)>>), Id("str")), Op2("+", T("x"), CallOf("A", <<N(7)>>)),
                   Send(CallOf("Pair", <<>>), "toString", <<>>), Send(CallOf("P", <<>>), "toString", <<>>), Send(CallOf("Pair", <<>>), "toNum", <<>>),
                   Send(CallOf("A", <<N(1)>>), "toString", <<>>), DotExpr(CallOf("Pair", <<>>), "none", TRUE), Send(CallOf("Pair", <<>>), "toNum", <<N(1)>>)>>))
  @@ "bound" :>
       <<ClassStmt("A", "", <<Public("init", <<>>, <<SetThis("n", N(0))>>), Public("add", <<"x">>, <<SetThis("n", Op2("+", ThisDot("n"), Id("x"))), ReturnStmt(ThisDot("n"))>>),
                              Public("all", <<"xs">>, <<ReturnStmt(Two("map", Id("xs"), Fn0(<<"x">>, Send(ThisExpr, "add", <<Id("x")>>))))>>)>>),
         ClassStmt("B", "A", <<Public("add", <<"x">>, <<ReturnStmt(CallExpr(SuperExpr("add"), <<Op2("*", Id("x"), N(2))>>))>>)>>),
         LetStmt("a", CallOf("A", <<>>)), LetStmt("b", CallOf("B", <<>>)), Say(Two("map", Array(<<1, 2>>), Dot(Id("a"), "add"))),
         Say(Send(Id("b"), "all", <<Array(<<1, 2>>)>>)), Say(Two("map", Array(<<5>>), Dot(Id("b"), "add"))), Say(Dot(Id("a"), "n")),
         SayOrError(Two("map", ArrayExpr(<<T("a"), Lit(Nil)>>), Dot(Id("a"), "add")))>>

NativePrograms1 == ConversionPrograms @@ ArrayPrograms @@ MapPrograms @@ WalkPrograms @@ SortPrograms @@ TextPrograms @@ StringPrograms
=============================================================================
