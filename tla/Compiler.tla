------------------------------ MODULE Compiler ------------------------------
(* From the syntax tree to bytecode.  A node is compiled by the template of  *)
(* its kind: a sequence of instructions, subexpressions, jumps, labels and   *)
(* changes of the compiler's own state (scopes, locals, try handlers,        *)
(* finally bodies, loops).  Compile walks a template and emits the code.     *)
(* The state c keeps the functions being compiled, the innermost last, and   *)
(* the finished ones; bad is hadError.                                       *)
EXTENDS Ast, SequencesExt

-----------------------------------------------------------------------------
(* CompilerState, scopes, variables. *)

Local(name, depth) == [name |-> name, depth |-> depth, captured |-> FALSE]

\* A function about to be compiled.  Slot 0 is the callee or this, then come the
\* parameters; the thunk of a defer has no locals at all.
NewFunction(kind, name, params, rest, depth) ==
  LET names == (IF kind = "defer" THEN <<>> ELSE <<name>> \o params) \o (IF rest = "" THEN <<>> ELSE <<rest>>)
  IN [name |-> name, params |-> params, rest |-> rest # "", code |-> <<>>,
      locals |-> FoldLeft(LAMBDA acc, n : Append(acc, Local(n, depth)), <<>>, names),
      ups |-> <<>>, depth |-> depth, tries |-> 0, loops |-> <<>>, finals |-> <<>>]

Cur(c) == c.fs[Len(c.fs)]
SetCur(c, f) == [c EXCEPT !.fs[Len(c.fs)] = f]
Emit(c, ins) == [c EXCEPT !.fs[Len(c.fs)].code = Append(@, ins)]
Op(o) == [op |-> o]
Times1(n, ins) == [i \in 1 .. n |-> ins]
Here(c) == Len(Cur(c).code) + 1
Bad(c) == [c EXCEPT !.bad = TRUE]

\* Every jump at one of these places goes to the next instruction.
Patch(c, places) ==
  FoldSet(LAMBDA at, acc : SetCur(acc, [Cur(acc) EXCEPT !.code[at].to = Here(c)]), c, places)

AddLocal(c, name) == SetCur(c, [Cur(c) EXCEPT !.locals = Append(@, Local(name, Cur(c).depth))])

\* The slot of the nearest local of that name, -1 if there is none.
ResolveLocal(f, name) ==
  LET named == {i \in DOMAIN f.locals : f.locals[i].name = name}
  IN IF named = {} THEN -1 ELSE (CHOOSE i \in named : \A j \in named : j <= i) - 1

\* mutant: a local and an upvalue of the same index are taken for one
AddUpvalueByIndex(fs, k, up) ==
  LET same == {i \in DOMAIN fs[k].ups : fs[k].ups[i].index = up.index}
  IN IF same # {} THEN [fs |-> fs, i |-> (CHOOSE i \in same : TRUE) - 1]
     ELSE [fs |-> [fs EXCEPT ![k].ups = Append(@, up)], i |-> Len(fs[k].ups)]

AddUpvalue(fs, k, up) ==
  LET same == {i \in DOMAIN fs[k].ups : fs[k].ups[i] = up}
  IN IF same # {} THEN [fs |-> fs, i |-> (CHOOSE i \in same : TRUE) - 1]
     ELSE [fs |-> [fs EXCEPT ![k].ups = Append(@, up)], i |-> Len(fs[k].ups)]

\* A local of an enclosing function, captured there and handed down to function k; i = -1 if none.
RECURSIVE ResolveUpvalue(_, _, _)
ResolveUpvalue(fs, k, name) ==
  IF k = 1 THEN [fs |-> fs, i |-> -1]
  ELSE LET slot == ResolveLocal(fs[k - 1], name)
           outer == ResolveUpvalue(fs, k - 1, name)
       IN IF slot # -1
          THEN AddUpvalue([fs EXCEPT ![k - 1].locals[slot + 1].captured = TRUE], k, [local |-> TRUE, index |-> slot])
          ELSE IF outer.i = -1 THEN outer
          ELSE AddUpvalue(outer.fs, k, [local |-> FALSE, index |-> outer.i])

IsVariable(c, name) == \E k \in DOMAIN c.fs : ResolveLocal(c.fs[k], name) # -1

\* One instruction on a variable, by what it resolves to.  verb is GET, SET or POST.
EmitVariable(c, verb, name, by) ==
  LET slot == ResolveLocal(Cur(c), name)
      up == ResolveUpvalue(c.fs, Len(c.fs), name)
  IN IF slot # -1 THEN Emit(c, [op |-> verb \o "_LOCAL", slot |-> slot, by |-> by])
     ELSE IF up.i # -1 THEN Emit([c EXCEPT !.fs = up.fs], [op |-> verb \o "_UPVALUE", slot |-> up.i, by |-> by])
     ELSE Emit(c, [op |-> verb \o "_GLOBAL", name |-> name, by |-> by])

\* this, in a method or a closure of one.
EmitThis(c) == IF IsVariable(c, "this") THEN EmitVariable(c, "GET", "this", 0) ELSE Bad(c)

\* A declared name: a local inside a scope, a global outside any.
Define(c, name) ==
  IF Cur(c).depth > 0 THEN AddLocal(c, name) ELSE Emit(c, [op |-> "DEFINE_GLOBAL", name |-> name])

BeginScope(c) == SetCur(c, [Cur(c) EXCEPT !.depth = @ + 1])

NeverClosed(local) == Op("POP")       \* mutant: a captured local is only popped
PopOf(local) == Op(IF local.captured THEN "CLOSE_UPVALUE" ELSE "POP")

\* The locals deeper than a depth: how many they are, and the code that drops them.
Deeper(f, depth) == Cardinality({i \in DOMAIN f.locals : f.locals[i].depth > depth})
Drops(f, n) == [i \in 1 .. n |-> PopOf(f.locals[Len(f.locals) + 1 - i])]

EndScope(c) ==
  LET f == Cur(c)
      n == Deeper(f, f.depth - 1)
  IN SetCur(c, [f EXCEPT !.depth = @ - 1, !.code = @ \o Drops(f, n), !.locals = SubSeq(@, 1, Len(@) - n)])

\* Forget the innermost locals of a scope without code for it.
DropScope(c) ==
  LET f == Cur(c)
  IN SetCur(c, [f EXCEPT !.depth = @ - 1, !.locals = SubSeq(@, 1, Len(@) - Deeper(f, f.depth - 1))])

-----------------------------------------------------------------------------
(* Templates: what an item of one can be. *)

X(x) == [i |-> "expr", x |-> x]
S(s) == [i |-> "stmt", s |-> s]
I(ins) == [i |-> "ins", ins |-> ins]
O(op) == I(Op(op))
K(v) == I([op |-> "CONSTANT", v |-> v])
J(op, label) == [i |-> "jump", op |-> op, label |-> label]
L(label) == [i |-> "label", label |-> label]
Get(name) == [i |-> "var", verb |-> "GET", name |-> name, by |-> 0]
Set(name) == [i |-> "var", verb |-> "SET", name |-> name, by |-> 0]
Post(name, by) == [i |-> "var", verb |-> "POST", name |-> name, by |-> by]
Hide(name) == [i |-> "local", name |-> name]
Declare(name) == [i |-> "define", name |-> name]
Do(what) == [i |-> what]
Fun(kind, name, params, rest, body) ==
  [i |-> "fun", kind |-> kind, name |-> name, params |-> params, rest |-> rest, body |-> body]
PushFinally(body) == [i |-> "pushfinally", body |-> body]

CallOp(n) == I([op |-> "CALL", argc |-> n])
BuildOp(what, n) == I([op |-> "BUILD_" \o what, count |-> n])
GlobalOp(name) == I([op |-> "GET_GLOBAL", name |-> name])
Property(name) == I([op |-> "GET_PROPERTY", name |-> name, opt |-> FALSE])
IndexOp == I([op |-> "INDEX_GET", opt |-> FALSE])

Xs(exprs) == [k \in DOMAIN exprs |-> X(exprs[k])]
Ss(stmts) == [k \in DOMAIN stmts |-> S(stmts[k])]
Flat(seqs) == FlattenSeq(seqs)
Some(seq, P(_)) == \E k \in DOMAIN seq : P(seq[k])
IsSpread(x) == x.e = "spread"

-----------------------------------------------------------------------------
(* Templates of expressions. *)

ShortCircuit == ("&&" :> "JUMP_IF_FALSE") @@ ("||" :> "JUMP_IF_TRUE") @@ ("??" :> "JUMP_IF_NOT_NIL")

BinaryOps ==
  ("+" :> "ADD") @@ ("-" :> "SUBTRACT") @@ ("*" :> "MULTIPLY") @@ ("/" :> "DIVIDE") @@ ("%" :> "MODULO")
  @@ ("<" :> "LESS") @@ (">" :> "GREATER") @@ ("<=" :> "LESS_EQUAL") @@ (">=" :> "GREATER_EQUAL")
  @@ ("==" :> "EQUAL") @@ ("!=" :> "NOT_EQUAL") @@ ("is" :> "IS")

BinaryCode(x) ==
  IF x.op \in DOMAIN ShortCircuit
  THEN <<X(x.left), J(ShortCircuit[x.op], "end"), O("POP"), X(x.right), L("end")>>
  ELSE <<X(x.left), X(x.right), O(BinaryOps[x.op])>>

IsNamed(names) == Some(names, LAMBDA n : n # "")

CallOrNamed(argc, names) == IF IsNamed(names) THEN I([op |-> "CALL_NAMED", argc |-> argc, names |-> names]) ELSE CallOp(argc)

\* A capitalised name that no local or upvalue holds is a tag or a global.
CallCode(c, x) ==
  IF x.callee.e = "ident" /\ x.callee.name \in Capitalised /\ ~IsVariable(c, x.callee.name)
  THEN Xs(x.args) \o <<I([op |-> "TAG_OR_CALL", name |-> x.callee.name, argc |-> Len(x.args)])>>
  ELSE IF Some(x.args, IsSpread)
  THEN <<X(x.callee), BuildOp("ARRAY", 0)>>
       \o Flat([k \in DOMAIN x.args |->
                  IF IsSpread(x.args[k]) THEN <<X(x.args[k].value), O("ADD")>>
                  ELSE <<X(x.args[k]), BuildOp("ARRAY", 1), O("ADD")>>])
       \o <<O("CALL_SPREAD")>>
  ELSE <<X(x.callee)>> \o Xs(x.args) \o <<CallOrNamed(Len(x.args), x.names)>>

TernaryCode(x) ==
  <<X(x.cond), J("POP_JUMP_IF_FALSE", "else"), X(x.left), J("JUMP", "end"),
    L("else"), X(x.right), L("end")>>

PipeCode(x) ==
  IF x.right.e = "call"
  THEN <<X(x.right.callee), X(x.left)>> \o Xs(x.right.args)
       \o <<CallOrNamed(Len(x.right.args) + 1, <<"">> \o x.right.names)>>
  ELSE <<X(x.right), X(x.left), CallOp(1)>>

\* The handler is entered with the error where the left side's value would be.
PipeTryCode(x) ==
  <<J("TRY_BEGIN", "catch"), Do("try"), X(x.left), O("TRY_END"), Do("endtry"), J("JUMP", "end"), L("catch")>>
  \o (IF x.right.e = "call"
      THEN <<X(x.right.callee), O("SWAP")>> \o Xs(x.right.args) \o <<CallOp(Len(x.right.args) + 1)>>
      ELSE <<X(x.right), O("SWAP"), CallOp(1)>>)
  \o <<L("end")>>

\* Elements gathered into a container until a spread is added to it.
RECURSIVE Gathered(_, _, _)
Gathered(what, items, pending) ==
  LET flush == IF pending = <<>> THEN <<>> ELSE pending \o <<BuildOp(what, Len(pending)), O("ADD")>>
      item == Head(items)
  IN IF items = <<>> THEN flush
     ELSE IF item.e = "spread" THEN flush \o <<X(item.value), O("ADD")>> \o Gathered(what, Tail(items), <<>>)
     ELSE IF item.e = "pair" THEN Gathered(what, Tail(items), pending \o <<X(item.key), X(item.value)>>)
     ELSE Gathered(what, Tail(items), pending \o <<X(item)>>)

ContainerCode(what, items) ==
  IF Some(items, IsSpread) THEN <<BuildOp(what, 0)>> \o Gathered(what, items, <<>>)
  ELSE LET all == Gathered(what, items, <<>>)
       IN IF items = <<>> THEN <<BuildOp(what, 0)>> ELSE Front(all)

ArrayCode(x) == ContainerCode("ARRAY", x.elems)

MapCode(x) ==
  ContainerCode("MAP", [k \in DOMAIN x.keys |-> IF Given(x.keys[k]) THEN [e |-> "pair", key |-> x.keys[k], value |-> x.values[k]]
                                                ELSE x.values[k]])

SetCode(x) ==
  IF ~Some(x.elems, IsSpread) THEN ContainerCode("SET", x.elems)
  ELSE <<BuildOp("SET", 0)>>
       \o Flat([k \in DOMAIN x.elems |->
                  IF IsSpread(x.elems[k]) THEN <<X(x.elems[k].value), O("SET_SPREAD")>>
                  ELSE <<X(x.elems[k]), O("SET_INSERT")>>])

-----------------------------------------------------------------------------
(* Functions and match. *)

\* A parameter that the call leaves out takes its default.  A named function
\* asks the call; a lambda and a method look whether the argument is nil.
Defaults(defaults, asksCall) ==
  Flat([k \in DOMAIN defaults |->
          IF ~Given(defaults[k]) THEN <<>>
          ELSE (IF asksCall THEN <<I([op |-> "IS_MISSING_ARG", slot |-> k])>>
                ELSE <<I([op |-> "GET_LOCAL", slot |-> k]), K(Nil), O("EQUAL")>>)
               \o <<J("POP_JUMP_IF_FALSE", "given" \o ToString(k)), X(defaults[k]), I([op |-> "SET_LOCAL", slot |-> k]),
                    O("POP"), L("given" \o ToString(k))>>])

NilReturn == <<K(Nil), O("RETURN")>>

LambdaCode(x) ==
  <<Fun("lambda", "", x.params, x.rest, Defaults(x.defaults, FALSE) \o Ss(x.body) \o NilReturn)>>

\* The value of an arm is its last expression; an arm that declares names
\* keeps it in a slot below them.
Declares(s) == s.s \in {"let", "pattern", "func", "class", "enum"}

ArmCode(body) ==
  LET last == body[Len(body)]
      code == Ss(Front(body)) \o (IF last.s = "expr" THEN <<X(last.x)>> ELSE <<S(last), K(Nil)>>)
  IN IF body = <<>> THEN <<K(Nil)>>
     ELSE IF ~Some(body, Declares) THEN code
     ELSE <<K(Nil), Hide("__arm_result__"), Do("begin")>> \o code
          \o <<Set("__arm_result__"), O("POP"), Do("end"), Do("unhide")>>

IsTagPattern(x) == x.e = "call" /\ x.callee.e = "ident" /\ x.callee.name \in Capitalised
IsBinding(x) == IsTagPattern(x) /\ \A k \in DOMAIN x.args : x.args[k].e = "ident"

TagTests(x, notTagged, otherTag) ==
  <<O("DUP"), K(Str("tagged")), O("IS"), J("POP_JUMP_IF_FALSE", notTagged),
    O("DUP"), Property("tag"), K(Str(x.callee.name)), O("EQUAL"), J("POP_JUMP_IF_FALSE", otherTag)>>

BindingArm(arm, skip) ==
  LET n == Len(arm.x.args) IN
  TagTests(arm.x, skip, skip)
  \o <<O("DUP"), Property("values"), GlobalOp("len"), O("SWAP"), CallOp(1), K(Num(n)), O("EQUAL"),
       J("POP_JUMP_IF_FALSE", skip), Do("begin"), Hide("")>>
  \o Flat([k \in 1 .. n |->
             <<Get(""), Property("values"), K(Num(k - 1)), IndexOp, Hide(arm.x.args[k].name)>>])
  \o ArmCode(arm.body)
  \o <<Set(""), O("POP"), Do("dropbindings"), J("JUMP", "end"), L(skip)>>

\* Compare, skip the arm, or drop the subject and run it.
PlainArm(arm, test, skip) ==
  test \o <<J("POP_JUMP_IF_FALSE", skip), O("POP")>> \o ArmCode(arm.body) \o <<J("JUMP", "end"), L(skip)>>

ArmTemplate(arm, skip) ==
  CASE arm.arm = "is" -> PlainArm(arm, <<O("DUP"), X(arm.x), O("IS")>>, skip)
    [] arm.arm = "when" -> PlainArm(arm, <<X(arm.x)>>, skip)
    [] arm.arm = "default" -> <<O("POP")>> \o ArmCode(arm.body)
    [] arm.arm = "pattern" /\ IsBinding(arm.x) -> BindingArm(arm, skip)
    [] arm.arm = "pattern" /\ IsTagPattern(arm.x) /\ ~IsBinding(arm.x) ->
         TagTests(arm.x, "compare" \o skip, skip) \o <<L("compare" \o skip)>>
         \o PlainArm(arm, <<O("DUP"), X(arm.x), O("EQUAL")>>, skip)
    [] OTHER -> PlainArm(arm, <<O("DUP"), X(arm.x), O("EQUAL")>>, skip)

IsDefault(arm) == arm.arm = "default"

MatchCode(x) ==
  <<X(x.subject)>>
  \o Flat([k \in DOMAIN x.cases |-> ArmTemplate(x.cases[k], "skip" \o ToString(k))])
  \o (IF Some(x.cases, IsDefault) THEN <<>> ELSE <<O("POP"), K(Nil)>>)
  \o <<L("end")>>

ExprCode(c, x) ==
  CASE x.e = "literal" -> <<K(x.v)>>
    [] x.e = "ident" -> <<Get(x.name)>>
    [] x.e = "assign" -> <<X(x.value), Set(x.name)>>
    [] x.e = "unary" -> <<X(x.operand), O(IF x.op = "-" THEN "NEGATE" ELSE "NOT")>>
    [] x.e = "postfix" -> <<Post(x.name, IF x.op = "++" THEN 1 ELSE -1)>>
    [] x.e = "binary" -> BinaryCode(x)
    [] x.e = "call" -> CallCode(c, x)
    [] x.e = "ternary" -> TernaryCode(x)
    [] x.e = "match" -> MatchCode(x)
    [] x.e = "pipe" -> PipeCode(x)
    [] x.e = "pipetry" -> PipeTryCode(x)
    [] x.e = "lambda" -> LambdaCode(x)
    [] x.e = "array" -> ArrayCode(x)
    [] x.e = "set" -> SetCode(x)
    [] x.e = "map" -> MapCode(x)
    [] x.e = "index" -> <<X(x.object), X(x.index), I([op |-> "INDEX_GET", opt |-> x.opt])>>
    [] x.e = "indexassign" -> <<X(x.object), X(x.index), X(x.value), O("INDEX_SET")>>
    [] x.e = "dot" -> <<X(x.object), I([op |-> "GET_PROPERTY", name |-> x.field, opt |-> x.opt])>>
    [] x.e = "dotassign" -> <<X(x.object), X(x.value), I([op |-> "SET_PROPERTY", name |-> x.field])>>
    [] x.e = "interp" -> Xs(x.parts) \o <<BuildOp("STRING", Len(x.parts))>>
    [] x.e = "this" -> <<Do("this")>>
    [] x.e = "super" -> <<Do("this"), I([op |-> "GET_SUPER", name |-> x.method])>>
    [] OTHER -> <<Do("error")>>

-----------------------------------------------------------------------------
(* Templates of statements. *)

\* The destructured value stays in a local of its own.
PatternCode(s) ==
  LET keys == SelectSeq(s.pattern, LAMBDA p : ~p.rest)
      Taken(k) ==
        LET p == s.pattern[k] IN
        CASE p.rest /\ s.array -> <<GlobalOp("__arraySlice"), Get("__destr__"), K(Num(k - 1)), CallOp(2)>>
          [] p.rest /\ ~s.array ->
               <<GlobalOp("__mapRest"), Get("__destr__")>> \o [i \in DOMAIN keys |-> K(Str(keys[i].key))]
               \o <<BuildOp("ARRAY", Len(keys)), CallOp(2)>>
          [] OTHER -> <<Get("__destr__"), K(IF s.array THEN Num(k - 1) ELSE Str(p.key)), IndexOp>>
  IN <<X(s.x), Hide("__destr__")>>
     \o Flat([k \in DOMAIN s.pattern |-> Taken(k) \o <<Declare(s.pattern[k].name)>>])

IfCode(s) ==
  Flat([k \in DOMAIN s.branches |->
          LET next == "else" \o ToString(k) IN
          <<X(s.branches[k].cond), J("POP_JUMP_IF_FALSE", next), S(s.branches[k].body), J("JUMP", "end"), L(next)>>])
  \o (IF s.orelse = NoStmt THEN <<>> ELSE <<S(s.orelse)>>) \o <<L("end")>>

\* mutant: continue goes to the test and skips the step
LoopSkippingStep(test, body, step) ==
  <<Do("loop"), L("start")>> \o test \o <<J("POP_JUMP_IF_FALSE", "exit")>> \o body
  \o step \o <<Do("continues"), J("JUMP", "start"), L("exit"), Do("breaks")>>

\* A loop: its test leaves a Boolean, step runs after the body and after continue.
LoopCode(test, body, step) ==
  <<Do("loop"), L("start")>> \o test \o <<J("POP_JUMP_IF_FALSE", "exit")>> \o body
  \o <<Do("continues")>> \o step \o <<J("JUMP", "start"), L("exit"), Do("breaks")>>

Increment(slot) == <<Get(slot), K(Num(1)), O("ADD"), Set(slot), O("POP")>>
Scoped(items) == <<Do("begin")>> \o items \o <<Do("end")>>

WhileCode(s) == LoopCode(<<X(s.cond)>>, <<S(s.body)>>, <<>>)

ForCode(s) ==
  LET Bound(slot) == <<GlobalOp("__rangeBound"), Get(slot), CallOp(1), Set(slot), O("POP")>> IN
  Scoped(<<X(s.from), Hide("__i__"), X(s.to), Hide("__end__")>> \o Bound("__i__") \o Bound("__end__")
         \o LoopCode(<<Get("__i__"), Get("__end__"), O("LESS")>>,
                     Scoped(<<Get("__i__"), Hide(s.name), S(s.body)>>), Increment("__i__")))

ForInCode(s) ==
  LET Field(slot, name) == <<Get(slot), K(Str(name)), IndexOp>>
      bind == IF s.keys = <<>> THEN <<Hide(s.name)>>
              ELSE <<Hide("__entry__")>>
                   \o Flat([k \in DOMAIN s.keys |-> Field("__entry__", s.keys[k]) \o <<Hide(s.keys[k])>>])
  IN Scoped(<<GlobalOp("__iterEntries"), X(s.x), CallOp(1), Hide("__iter__"), K(Num(0)), Hide("__idx__"),
              K(Nil), Hide("__result__")>>
            \o LoopCode(<<GlobalOp("__iterNext"), Get("__iter__"), Get("__idx__"), CallOp(2), Set("__result__"), O("POP")>>
                        \o Field("__result__", "done") \o <<O("NOT")>>,
                        Scoped(Field("__result__", "value") \o bind \o <<S(s.body)>>), Increment("__idx__")))

FuncCode(s) ==
  <<Fun("func", s.name, s.params, s.rest, Defaults(s.defaults, TRUE) \o Ss(s.body) \o NilReturn),
    Declare(s.name)>>

\* With a finally to run first, the value waits in a slot of its own.
ReturnCode(c, s) ==
  <<IF Given(s.x) THEN X(s.x) ELSE K(Nil)>>
  \o (IF Cur(c).finals = <<>> THEN <<Do("unwindall"), O("RETURN")>>
      ELSE <<Do("begin"), Hide("__ret__"), Do("unwindall"), Get("__ret__"), O("RETURN"), Do("unhide"), Do("unscope")>>)

\* The class is reached as a local, or else as a global.
ClassCode(c, s) ==
  LET self == IF Cur(c).depth > 0 THEN Get(s.name) ELSE GlobalOp(s.name)
      Member(m) ==
        LET body == Defaults(m.defaults, FALSE) \o Ss(m.body)
                    \o <<IF m.name = "init" THEN Get("this") ELSE K(Nil), O("RETURN")>>
            code == <<Fun("method", "this", m.params, m.rest, body)>>
            decorators == Reverse(m.decorators)
            Named(op) == I([op |-> op, name |-> m.name])
        IN IF m.static
           THEN code \o Flat([k \in DOMAIN decorators |-> <<X(decorators[k]), O("SWAP"), CallOp(1)>>])
                \o <<Named("STATIC_METHOD")>>
           ELSE code \o <<Named("METHOD")>>
                \o Flat([k \in DOMAIN decorators |-> <<X(decorators[k]), Named("METHOD_DECORATOR")>>])
  IN <<I([op |-> "CLASS", name |-> s.name]), Declare(s.name)>>
     \o (IF s.super = "" THEN <<>> ELSE <<Get(s.super), self, O("INHERIT")>>)
     \o <<self>> \o Flat([k \in DOMAIN s.methods |-> Member(s.methods[k])]) \o <<O("POP")>>

\* A member without a value counts on from the literal before it.
EnumCode(s) ==
  LET RECURSIVE Members(_, _)
      Members(k, next) ==
        LET v == s.values[k] IN
        IF k > Len(s.members) THEN <<>>
        ELSE <<K(Str(s.members[k])), IF Given(v) THEN X(v) ELSE K(Num(next))>>
             \o Members(k + 1, IF Given(v) /\ v.e = "literal" /\ Is("int", v.v) THEN v.v.int + 1 ELSE next + 1)
  IN Members(1, 0) \o <<BuildOp("MAP", 2 * Len(s.members)), Declare(s.name)>>

TryCode(s) ==
  <<J("TRY_BEGIN", "catch"), Do("try"), S(s.body), Do("endtry"), O("TRY_END"), J("JUMP", "caught"), L("catch")>>
  \o Scoped(<<Hide(s.name), S(s.handler)>>) \o <<L("caught")>>

\* The finally body is compiled on the normal path and on the path of an error,
\* and once more for each return, break or continue that leaves the try.
TryFinallyCode(s) ==
  <<PushFinally(s.finally), J("TRY_BEGIN", "error"), Do("try")>> \o TryCode(s)
  \o <<Do("endtry"), O("TRY_END"), Do("popfinally"), S(s.finally), J("JUMP", "end"), L("error")>>
  \o Scoped(<<Hide("__err__"), S(s.finally), Get("__err__"), O("THROW")>>) \o <<L("end")>>

EnsureCode(s) ==
  IF s.name # ""
  THEN <<X(s.cond), J("JUMP_IF_NOT_NIL", "bind"), O("POP"), S(s.orelse), L("bind"), Declare(s.name)>>
  ELSE <<X(s.cond), J("POP_JUMP_IF_FALSE", "else"), J("JUMP", "end"), L("else"), S(s.orelse), L("end")>>

DeferCode(s) ==
  <<Fun("defer", "", <<>>, "", <<X(s.x), O("POP")>> \o NilReturn), O("DEFER")>>

StmtCode(c, s) ==
  CASE s.s = "expr" -> <<X(s.x), O("POP")>>
    [] s.s = "let" -> <<IF Given(s.x) THEN X(s.x) ELSE K(Nil), Declare(s.name)>>
    [] s.s = "pattern" -> PatternCode(s)
    [] s.s = "block" -> Scoped(Ss(s.body))
    [] s.s = "if" -> IfCode(s)
    [] s.s = "while" -> WhileCode(s)
    [] s.s = "for" -> ForCode(s)
    [] s.s = "forin" -> ForInCode(s)
    [] s.s = "func" -> FuncCode(s)
    [] s.s = "return" -> ReturnCode(c, s)
    [] s.s \in {"break", "continue"} -> <<Do(s.s)>>
    [] s.s = "class" -> ClassCode(c, s)
    [] s.s = "enum" -> EnumCode(s)
    [] s.s = "throw" -> <<X(s.x), O("THROW")>>
    [] s.s = "try" -> IF s.finally = NoStmt THEN TryCode(s) ELSE TryFinallyCode(s)
    [] s.s = "ensure" -> EnsureCode(s)
    [] s.s = "defer" -> DeferCode(s)

-----------------------------------------------------------------------------
(* Compiling a template. *)

RECURSIVE Compile(_, _)

CompileExpr(c, x) == Compile(c, ExprCode(c, x))
CompileStmt(c, s) == Compile(c, StmtCode(c, s))

\* A nested function, then the closure over it.
CompileFunction(c, item) ==
  LET depth == CASE item.kind = "method" -> 0
                 [] item.kind = "defer" -> 1
                 [] OTHER -> Cur(c).depth + 1
      f == NewFunction(item.kind, item.name, item.params, item.rest, depth)
      done == Compile([c EXCEPT !.fs = Append(@, f)], item.body)
      g == Cur(done)
  IN Emit([done EXCEPT !.fs = Front(@),
                       !.fns = Append(@, [name |-> g.name, arity |-> Len(g.params), params |-> g.params,
                                          rest |-> g.rest, code |-> g.code])],
          [op |-> "CLOSURE", fn |-> Len(done.fns) + 1, ups |-> g.ups])

EmitTryEnds(c, n) == SetCur(c, [Cur(c) EXCEPT !.code = @ \o Times1(n, Op("TRY_END"))])

\* Leave the tries above a floor, running each finally with only the handlers
\* and finally bodies outside it active.
EmitFinallyUnwind(c, finallyFloor, tryFloor) ==
  LET saved == Cur(c).finals
      tries == Cur(c).tries
      Leave(acc, k) ==
        LET ended == EmitTryEnds(acc.c, acc.depth - saved[k].tries)
            inner == SetCur(ended, [Cur(ended) EXCEPT !.finals = SubSeq(saved, 1, k - 1), !.tries = saved[k].tries])
        IN [c |-> CompileStmt(inner, saved[k].body), depth |-> saved[k].tries]
      left == FoldLeft(Leave, [c |-> c, depth |-> tries],
                       [k \in 1 .. (Len(saved) - finallyFloor) |-> Len(saved) + 1 - k])
      back == SetCur(left.c, [Cur(left.c) EXCEPT !.finals = saved, !.tries = tries])
  IN EmitTryEnds(back, left.depth - tryFloor)

EmitTooFewPops(c, depth) ==       \* mutant: the outermost scope of the body is kept
  SetCur(c, [Cur(c) EXCEPT !.code = @ \o Drops(Cur(c), Deeper(Cur(c), depth + 1))])
\* The code that drops the locals of the loop's body; they stay declared.
EmitLoopExitPops(c, depth) ==
  SetCur(c, [Cur(c) EXCEPT !.code = @ \o Drops(Cur(c), Deeper(Cur(c), depth))])

\* break and continue: out of the tries, then of the scopes, then a jump to be patched.
EmitLoopExit(c, kind) ==
  LET loop == Last(Cur(c).loops)
      left == EmitLoopExitPops(EmitFinallyUnwind(c, loop.finals, loop.tries), loop.depth)
      at == Here(left)
      n == Len(Cur(left).loops)
      jumped == Emit(left, [op |-> "JUMP", to |-> 0])
  IN IF Cur(c).loops = <<>> THEN Bad(c)
     ELSE SetCur(jumped, IF kind = "break" THEN [Cur(jumped) EXCEPT !.loops[n].breaks = @ \cup {at}]
                         ELSE [Cur(jumped) EXCEPT !.loops[n].continues = @ \cup {at}])

\* A change of the compiler's state, or code that depends on it.
Change(c, what) ==
  LET f == Cur(c) IN
  CASE what = "begin" -> BeginScope(c)
    [] what = "end" -> EndScope(c)
    [] what = "unhide" -> SetCur(c, [f EXCEPT !.locals = Front(@)])
    [] what = "unscope" -> SetCur(c, [f EXCEPT !.depth = @ - 1])
    [] what = "dropbindings" ->
         DropScope(SetCur(c, [f EXCEPT !.code = @ \o Drops(f, Deeper(f, f.depth - 1) - 1)]))
    [] what = "try" -> SetCur(c, [f EXCEPT !.tries = @ + 1])
    [] what = "endtry" -> SetCur(c, [f EXCEPT !.tries = @ - 1])
    [] what = "popfinally" -> SetCur(c, [f EXCEPT !.finals = Front(@)])
    [] what = "unwindall" -> EmitFinallyUnwind(c, 0, 0)
    [] what = "loop" ->
         SetCur(c, [f EXCEPT !.loops = Append(@, [depth |-> f.depth, tries |-> f.tries, finals |-> Len(f.finals),
                                                  breaks |-> {}, continues |-> {}])])
    [] what = "continues" -> Patch(c, Last(f.loops).continues)
    [] what = "breaks" -> LET p == Patch(c, Last(f.loops).breaks) IN SetCur(p, [Cur(p) EXCEPT !.loops = Front(@)])
    [] what \in {"break", "continue"} -> EmitLoopExit(c, what)
    [] what = "this" -> EmitThis(c)
    [] what = "error" -> Bad(c)

\* One item, apart from jumps and labels.
CompileItem(c, item) ==
  CASE item.i = "expr" -> CompileExpr(c, item.x)
    [] item.i = "stmt" -> CompileStmt(c, item.s)
    [] item.i = "ins" -> Emit(c, item.ins)
    [] item.i = "var" -> EmitVariable(c, item.verb, item.name, item.by)
    [] item.i = "local" -> AddLocal(c, item.name)
    [] item.i = "define" -> Define(c, item.name)
    [] item.i = "fun" -> CompileFunction(c, item)
    [] item.i = "pushfinally" ->
         SetCur(c, [Cur(c) EXCEPT !.finals = Append(@, [body |-> item.body, tries |-> Cur(c).tries])])
    [] OTHER -> Change(c, item.i)

\* What is known while a template is compiled: its jumps and labels are its own.
CompileStep(acc, item) ==
  CASE item.i = "jump" ->
         [acc EXCEPT !.c = Emit(acc.c, [op |-> item.op, to |-> 0]),
                     !.jumps = Append(@, [at |-> Here(acc.c), label |-> item.label])]
    [] item.i = "label" -> [acc EXCEPT !.marks = (item.label :> Here(acc.c)) @@ @]
    [] OTHER -> [acc EXCEPT !.c = CompileItem(acc.c, item)]

\* The items in order, half by half, so that the evaluation does not nest deeply.
RECURSIVE CompileItems(_, _)
CompileItems(acc, items) ==
  LET half == Len(items) \div 2
      first == CompileItems(acc, SubSeq(items, 1, half))
  IN CASE items = <<>> -> acc
       [] Len(items) = 1 -> CompileStep(acc, items[1])
       [] OTHER -> IF DOMAIN first.c = {} THEN first ELSE CompileItems(first, SubSeq(items, half + 1, Len(items)))

Compile(c, items) ==
  LET done == CompileItems([c |-> c, jumps |-> <<>>, marks |-> [l \in {} |-> 0]], items)
      Link(acc, j) == SetCur(acc, [Cur(acc) EXCEPT !.code[j.at].to = done.marks[j.label]])
  IN FoldLeft(Link, done.c, done.jumps)

\* The functions of a program, the script last, and whether the compiler accepts it.
CompileProgram(program) ==
  LET script == NewFunction("script", "", <<>>, "", 0)
      done == Compile([fs |-> <<script>>, fns |-> <<>>, bad |-> FALSE], Ss(program) \o NilReturn)
  IN [fns |-> Append(done.fns, [name |-> "<script>", arity |-> 0, params |-> <<>>, rest |-> FALSE,
                                code |-> Cur(done).code]),
      bad |-> done.bad]
=============================================================================
