----------------------------- MODULE TreeWalker -----------------------------
(* The tree-walking engine: Interpreter::execute and evaluate.  C++          *)
(* exceptions carry break, continue, return and throw; here they are the     *)
(* signal of a result.  A result is [st, sig, v]: the state of the           *)
(* interpreter, how the evaluation ended, and its value.  The environment is *)
(* part of the state, as in the code, which puts the old one back by hand.   *)
EXTENDS Ast, Natives

CONSTANT MaxDepth       \* the deepest call stack

-----------------------------------------------------------------------------
(* Results. *)

Signal(st, sig, v) == [st |-> st, sig |-> sig, v |-> v]
Ok(st, v) == Signal(st, "ok", v)
Done(st) == Ok(st, Nil)
Throw(st, kind) == Signal(st, "throw", Error(kind))
Then(r, F(_, _)) == IF r.sig = "ok" THEN F(r.st, r.v) ELSE r
With(st, r) == IF Failed(r) THEN Throw(st, r.fail) ELSE Ok([st EXCEPT !.h = r.h], r.v)
New(st, obj) == With(st, Alloc(st.h, obj))

-----------------------------------------------------------------------------
(* Environments, each with its variables and its parent; 0 is no parent. *)

EnterScope(st, parent, vars) ==
  [st EXCEPT !.envs = Append(@, [vars |-> vars, parent |-> parent]), !.env = Len(st.envs) + 1]

NoVars == [n \in {} |-> Nil]
Let(st, name, v) == [st EXCEPT !.envs[st.env].vars = (name :> v) @@ @]
LetAll(st, vars) == [st EXCEPT !.envs[st.env].vars = vars @@ @]

RECURSIVE Holder(_, _, _)
Holder(envs, e, name) ==
  IF e = 0 \/ name \in DOMAIN envs[e].vars THEN e ELSE Holder(envs, envs[e].parent, name)

GetVar(st, name) ==
  LET e == Holder(st.envs, st.env, name)
  IN IF e = 0 THEN Throw(st, "undefined") ELSE Ok(st, st.envs[e].vars[name])

SetVar(st, name, v) ==
  LET e == Holder(st.envs, st.env, name)
  IN IF e = 0 THEN Throw(st, "undefined") ELSE Ok([st EXCEPT !.envs[e].vars[name] = v], v)

-----------------------------------------------------------------------------
(* Callables.  A method bound to its receiver knows the class that defines   *)
(* it, and the environment its body starts from.                             *)

FuncObj(params, defaults, rest, body, env) ==
  [kind |-> "closure", params |-> params, defaults |-> defaults, rest |-> rest, body |-> body, env |-> env]

MethodObj(recv, decl, env, owner) == [kind |-> "bound", recv |-> recv, decl |-> decl, env |-> env, owner |-> owner]

HasMethod(h, class, name) == Owner(h, class, "methods", name) # 0

\* A method of an instance, in the environment of the class that defines it.
MethodOf(h, obj, name) ==
  LET owner == Owner(h, h[obj.ref].class, "methods", name)
  IN MethodObj(obj, h[owner].methods[name], h[owner].env, owner)

\* The parameters of a callable; -1 is any number of arguments.
Arity(params, rest) == IF rest = "" THEN Len(params) ELSE -1
InitOf(h, class) == h[Owner(h, class, "methods", "init")].methods["init"]

ArityOf(h, f) ==
  LET o == h[f.ref] IN
  IF IsNative(f) THEN NativeArity(h, f)
  ELSE
  CASE o.kind = "closure" -> Arity(o.params, o.rest)
    [] o.kind = "bound" -> Arity(o.decl.params, o.decl.rest)
    [] o.kind = "class" -> IF HasMethod(h, f.ref, "init")
                           THEN Arity(InitOf(h, f.ref).params, InitOf(h, f.ref).rest) ELSE 0

HasParamNames(h, f) ==
  IF IsNative(f) THEN NativeParams(f) # <<>> ELSE IsKind(h, f, "class") => HasMethod(h, f.ref, "init")

ParamNames(h, f) ==
  LET o == h[f.ref] IN
  IF IsNative(f) THEN NativeParams(f)
  ELSE
  CASE o.kind = "closure" -> o.params
    [] o.kind = "bound" -> o.decl.params
    [] o.kind = "class" -> InitOf(h, f.ref).params

Overloads(h, v, name) == IsKind(h, v, "instance") /\ h[h[v.ref].class].dunder /\ HasMethod(h, h[v.ref].class, name)

BinaryDunder ==
  ("+" :> "__add") @@ ("-" :> "__sub") @@ ("*" :> "__mul") @@ ("/" :> "__div") @@ ("%" :> "__mod")
  @@ ("==" :> "__eq") @@ ("!=" :> "__eq") @@ ("<" :> "__lt") @@ (">" :> "__gt") @@ ("<=" :> "__le") @@ (">=" :> "__ge")

ArithmeticOf == ("+" :> "ADD") @@ ("-" :> "SUBTRACT") @@ ("*" :> "MULTIPLY") @@ ("/" :> "DIVIDE") @@ ("%" :> "MODULO")
CompareOf ==
  ("==" :> "EQUAL") @@ ("!=" :> "NOT_EQUAL") @@ ("<" :> "LESS") @@ (">" :> "GREATER")
  @@ ("<=" :> "LESS_EQUAL") @@ (">=" :> "GREATER_EQUAL")

BinaryValue(h, op, a, b) ==
  CASE op = "is" -> IsResult(h, a, b)
    [] op \in DOMAIN ArithmeticOf -> Arithmetic(h, ArithmeticOf[op], a, b)
    [] op \in DOMAIN CompareOf -> Compare(h, CompareOf[op], a, b)

-----------------------------------------------------------------------------

RECURSIVE Eval(_, _), Exec(_, _), EvalAll(_, _), ExecAll(_, _)

\* Expressions from left to right; a spread gives the elements of its array.
EvalAll(st, xs) ==
  IF xs = <<>> THEN Ok(st, <<>>)
  ELSE LET x == Head(xs)
           Rest(s, first) == Then(EvalAll(s, Tail(xs)), LAMBDA s2, others : Ok(s2, first \o others))
       IN IF x.e # "spread" THEN Then(Eval(st, x), LAMBDA s, v : Rest(s, <<v>>))
          ELSE Then(Eval(st, x.value), LAMBDA s, v :
                 IF IsKind(s.h, v, "array") THEN Rest(s, s.h[v.ref].elems) ELSE Throw(s, "spread"))

ExecAll(st, stmts) ==
  IF stmts = <<>> THEN Done(st) ELSE Then(Exec(st, Head(stmts)), LAMBDA s, v : ExecAll(s, Tail(stmts)))

\* executeBlock: whatever happens, the environment is put back.
InScope(st, vars, stmts) ==
  LET r == ExecAll(EnterScope(st, st.env, vars), stmts) IN [r EXCEPT !.st.env = st.env]

-----------------------------------------------------------------------------
(* Calls. *)

\* Arguments that were given, then defaults, which see the parameters before them.
RECURSIVE BindParams(_, _, _, _, _, _)
BindParams(st, params, defaults, args, filled, i) ==
  LET Bind(s, v) == BindParams(Let(s, params[i], v), params, defaults, args, filled, i + 1)
  IN IF i > Len(params) THEN Done(st)
     ELSE IF i \in filled THEN Bind(st, args[i])
     ELSE IF Given(defaults[i]) THEN Then(Eval(st, defaults[i]), Bind)
     ELSE Bind(st, Nil)

BindAll(st, params, defaults, rest, args, filled) ==
  Then(BindParams(st, params, defaults, args, filled, 1), LAMBDA s, v :
    IF rest = "" THEN Done(s)
    ELSE Then(New(s, ArrayObj(SubSeq(args, Len(params) + 1, Len(args)))), LAMBDA s2, r : Done(Let(s2, rest, r))))

\* The deferred expressions of the innermost function, the last first; errors are dropped.
RunDefers(st) ==
  FoldLeft(LAMBDA s, x : Eval(s, x).st, [st EXCEPT !.defers = Front(@)], Reverse(Last(st.defers)))

\* What a body that ended with r gives its caller, whose environment it was.
Returned(r, env) ==
  LET back == [r.st EXCEPT !.env = env]
  IN CASE r.sig = "ok" -> Done(back)
       [] r.sig = "return" -> Ok(back, r.v)
       [] OTHER -> [r EXCEPT !.st = back]

\* A default that throws leaves the callee's environment in place.
CallFunction(st, f, args, filled) ==
  Then(BindAll(EnterScope(st, f.env, NoVars), f.params, f.defaults, f.rest, args, filled), LAMBDA s, v :
    LET r == ExecAll([s EXCEPT !.defers = Append(@, <<>>)], f.body)
    IN Returned([r EXCEPT !.st = RunDefers(r.st)], st.env))

\* A method has no list of deferred expressions of its own.
CallMethod(st, m, args, filled) ==
  LET super == st.h[m.owner].super
      vars == ("this" :> m.recv) @@ (IF super = 0 THEN NoVars ELSE "__super__" :> Ref(super))
  IN Then(BindAll(EnterScope(st, m.env, vars), m.decl.params, m.decl.defaults, m.decl.rest, args, filled), LAMBDA s, v :
       Returned(ExecAll(s, m.decl.body), st.env))

\* init runs in the environment of the class that is instantiated; its result is dropped.
Construct(st, class, args, filled) ==
  Then(New(st, [kind |-> "instance", class |-> class, fields |-> NoEntries]), LAMBDA s, inst :
    IF ~HasMethod(s.h, class, "init") THEN Ok(s, inst)
    ELSE Then(CallMethod(s, [MethodOf(s.h, inst, "init") EXCEPT !.env = s.h[class].env], args, filled),
              LAMBDA s2, v : Ok(s2, inst)))

\* A native's outcome; where it asks for a call, callSafe pads its arguments with nil.
RECURSIVE Invoke(_, _, _, _), RunNative(_, _)
CallSafe(st, f, args) ==
  LET arity == ArityOf(st.h, f)
      padded == args \o [i \in 1 .. (arity - Len(args)) |-> Nil]
      all == IF arity = -1 THEN args ELSE padded
  IN IF arity # -1 /\ Len(args) > arity THEN Throw(st, "arity") ELSE Invoke(st, f, all, DOMAIN all)

RunNative(st, r) ==
  LET s == [st EXCEPT !.out = @ \o SaidBy(r), !.h = IF Failed(r) THEN @ ELSE r.h]
      Resume(t, v) == RunNative(t, Continue(t.h, r.w, v))
  IN IF ~Failed(r) /\ Asking(r)
     THEN Then(IF r.method = "" THEN CallSafe(s, r.ask, r.with) ELSE CallMethod(s, MethodOf(s.h, r.ask, r.method), <<>>, {}), Resume)
     ELSE With(s, r)

Invoke(st, f, args, filled) ==
  IF IsNative(f) THEN RunNative(st, Begin(st.h, f, args))
  ELSE LET o == st.h[f.ref] IN
       CASE o.kind = "closure" -> CallFunction(st, o, args, filled)
         [] o.kind = "bound" -> CallMethod(st, o, args, filled)
         [] o.kind = "class" -> Construct(st, f.ref, args, filled)

\* callWithContext: a call that fails leaves its frame on the call stack.
CallWithContext(st, f, args, filled) ==
  LET arity == ArityOf(st.h, f)
      r == Invoke([st EXCEPT !.depth = @ + 1], f, args, filled)
  IN IF arity # -1 /\ (IF IsNative(f) THEN Len(args) # arity ELSE Len(args) > arity) THEN Throw(st, "arity")
     ELSE IF st.depth >= MaxDepth THEN Throw(st, "depth")
     ELSE IF r.sig = "ok" THEN [r EXCEPT !.st.depth = @ - 1] ELSE r

CallPlain(st, f, args) == CallWithContext(st, f, args, DOMAIN args)

\* reorderNamedArgs, when some argument has a name.
CallNamed(st, f, args, names) ==
  LET params == ParamNames(st.h, f)
      bound == Bound(names, params, <<>>)
      Arg(p) == LET i == {k \in DOMAIN args : bound.slots[k] = p}
                IN IF i = {} THEN Nil ELSE args[CHOOSE k \in i : TRUE]
  IN IF \A i \in DOMAIN names : names[i] = "" THEN CallPlain(st, f, args)
     ELSE IF ~HasParamNames(st.h, f) THEN Throw(st, "named")
     ELSE IF Failed(bound) THEN Throw(st, bound.fail)
     ELSE CallWithContext(st, f, FoldLeft(LAMBDA acc, p : Append(acc, Arg(p)), <<>>, [p \in DOMAIN params |-> p]),
                          ToSet(bound.slots))

\* Call f with the values first and then those of the argument expressions.
CallOn(st, callee, first, args, names) ==
  Then(Eval(st, callee), LAMBDA s, f :
    IF ~IsCallable(s.h, f) THEN Throw(s, "call")
    ELSE Then(EvalAll(s, args), LAMBDA s2, vs : CallNamed(s2, f, first \o vs, names)))

CallDunder(st, obj, name, args) == CallMethod(st, MethodOf(st.h, obj, name), args, DOMAIN args)

-----------------------------------------------------------------------------
(* Expressions. *)

\* A capitalised name that resolves to nothing callable makes a tagged value.
IsTag(st, callee) ==
  /\ callee.e = "ident" /\ callee.name \in Capitalised
  /\ LET r == GetVar(st, callee.name) IN r.sig = "ok" => ~IsCallable(st.h, r.v)

EvalCall(st, x) ==
  IF IsTag(st, x.callee)
  THEN Then(EvalAll(st, x.args), LAMBDA s, vs : New(s, TaggedObj(x.callee.name, vs)))
  ELSE CallOn(st, x.callee, <<>>, x.args, x.names)

Not(r) == Then(r, LAMBDA s, v : Ok(s, Bool(~Truthy(v))))

\* An operator method of the left one, or the operator.
Operate(st, op, a, b) ==
  LET Apply(name) == CallDunder(st, a, name, <<b>>)
      Has(name) == Overloads(st.h, a, name)
  IN IF op \in DOMAIN BinaryDunder /\ Has(BinaryDunder[op])
     THEN IF op = "!=" THEN Not(Apply("__eq")) ELSE Apply(BinaryDunder[op])
     ELSE IF op = "<=" /\ Has("__gt") THEN Not(Apply("__gt"))
     ELSE IF op = ">=" /\ Has("__lt") THEN Not(Apply("__lt"))
     ELSE With(st, BinaryValue(st.h, op, a, b))

EvalBinary(st, x) ==
  Then(Eval(st, x.left), LAMBDA s, a :
    CASE x.op = "??" -> IF Is("nil", a) THEN Eval(s, x.right) ELSE Ok(s, a)
      [] x.op = "||" -> IF Truthy(a) THEN Ok(s, a) ELSE Eval(s, x.right)
      [] x.op = "&&" -> IF Truthy(a) THEN Eval(s, x.right) ELSE Ok(s, a)
      [] OTHER -> Then(Eval(s, x.right), LAMBDA s2, b : Operate(s2, x.op, a, b)))

EvalUnary(st, x) ==
  Then(Eval(st, x.operand), LAMBDA s, v :
    CASE x.op = "!" -> Ok(s, Bool(~Truthy(v)))
      [] Overloads(s.h, v, "__neg") -> CallDunder(s, v, "__neg", <<>>)
      [] OTHER -> With(s, Negative(s.h, v)))

EvalPostfix(st, x) ==
  Then(GetVar(st, x.name), LAMBDA s, v :
    LET next == IntResult(s.h, v.int + (IF x.op = "++" THEN 1 ELSE -1)) IN
    IF ~Is("int", v) THEN Throw(s, "operands")
    ELSE IF Failed(next) THEN Throw(s, next.fail)
    ELSE Then(SetVar(s, x.name, next.v), LAMBDA s2, w : Ok(s2, v)))

\* The left value, then the callee and the other arguments.
PipeInto(st, x, v) ==
  IF x.right.e = "call" THEN CallOn(st, x.right.callee, <<v>>, x.right.args, <<"">> \o x.right.names)
  ELSE CallOn(st, x.right, <<v>>, <<>>, <<"">>)

\* The call stack keeps the frames of the failed left side.
EvalPipeTry(st, x) ==
  LET r == Eval(st, x.left) IN
  IF r.sig # "throw" THEN r
  ELSE IF x.right.e = "call" THEN CallOn(r.st, x.right.callee, <<r.v>>, x.right.args, <<>>)
  ELSE CallOn(r.st, x.right, <<r.v>>, <<>>, <<>>)

\* The elements of a set literal; one that is not hashable ends the evaluation.
EvalSet(st, x) ==
  Then(New(st, SetObj({})), LAMBDA s0, set :
    LET Insert(r, elem) ==
          Then(r, LAMBDA s, u :
            Then(Eval(s, IF elem.e = "spread" THEN elem.value ELSE elem), LAMBDA s2, v :
              LET added == Added(s2.h, elem.e = "spread", v) IN
              IF Failed(added) THEN Throw(s2, added.fail)
              ELSE Ok([s2 EXCEPT !.h[set.ref].elems = @ \cup added.set], set)))
    IN FoldLeft(Insert, Ok(s0, set), x.elems))

EvalMap(st, x) ==
  Then(New(st, MapObj(NoEntries)), LAMBDA s0, map :
    LET Into(s, entries) == Ok([s EXCEPT !.h[map.ref].entries = entries @@ @], map)
        Insert(r, i) ==
          Then(r, LAMBDA s, u :
            IF ~Given(x.keys[i])
            THEN Then(Eval(s, x.values[i].value), LAMBDA s2, v :
                   IF IsKind(s2.h, v, "map") THEN Into(s2, s2.h[v.ref].entries) ELSE Throw(s2, "operands"))
            ELSE Then(Eval(s, x.keys[i]), LAMBDA s2, k :
                   IF ~Hashable(k) THEN Throw(s2, "key")
                   ELSE Then(Eval(s2, x.values[i]), LAMBDA s3, v : Into(s3, k :> v))))
    IN FoldLeft(Insert, Ok(s0, map), [i \in DOMAIN x.keys |-> i]))

EvalIndex(st, x) ==
  Then(Eval(st, x.object), LAMBDA s, obj :
    IF x.opt /\ Is("nil", obj) THEN Ok(s, Nil)
    ELSE Then(Eval(s, x.index), LAMBDA s2, idx :
      IF Overloads(s2.h, obj, "__index") THEN CallDunder(s2, obj, "__index", <<idx>>)
      ELSE With(s2, Element(s2.h, obj, idx, x.opt))))

EvalIndexAssign(st, x) ==
  Then(EvalAll(st, <<x.object, x.index, x.value>>), LAMBDA s, vs :
    IF Overloads(s.h, vs[1], "__indexSet") THEN CallDunder(s, vs[1], "__indexSet", <<vs[2], vs[3]>>)
    ELSE With(s, SetElement(s.h, vs[1], vs[2], vs[3])))

\* The last decorator is applied first.
Decorated(st, decorators, method) ==
  FoldLeft(LAMBDA r, d : Then(r, LAMBDA s, v : Then(Eval(s, d), LAMBDA s2, f : CallPlain(s2, f, <<v>>))),
           New(st, method), Reverse(decorators))

PropertyOf(st, obj, x) ==
  LET o == st.h[obj.ref]
      owner == Owner(st.h, obj.ref, "statics", x.field)
      universal == Universal(st.h, obj, x.field)
  IN CASE IsKind(st.h, obj, "instance") ->
            IF x.field \in DOMAIN o.fields THEN Ok(st, o.fields[x.field])
            ELSE IF HasMethod(st.h, o.class, x.field)
            THEN LET m == MethodOf(st.h, obj, x.field) IN Decorated(st, m.decl.decorators, m)
            ELSE IF Failed(universal) /\ x.opt THEN Ok(st, Nil) ELSE With(st, universal)
       [] IsKind(st.h, obj, "class") /\ owner # 0 /\ Failed(universal) ->
            LET decl == st.h[owner].statics[x.field]
            IN Decorated(st, decl.decorators, MethodObj(Nil, decl, st.h[owner].env, owner))
       [] OTHER -> With(st, OtherProperty(st.h, obj, x.field))

EvalDot(st, x) ==
  Then(Eval(st, x.object), LAMBDA s, obj :
    IF x.opt /\ Is("nil", obj) THEN Ok(s, Nil) ELSE PropertyOf(s, obj, x))

EvalDotAssign(st, x) ==
  Then(EvalAll(st, <<x.object, x.value>>), LAMBDA s, vs :
    CASE IsKind(s.h, vs[1], "instance") -> Ok([s EXCEPT !.h[vs[1].ref].fields = (x.field :> vs[2]) @@ @], vs[2])
      [] IsKind(s.h, vs[1], "map") -> Ok([s EXCEPT !.h[vs[1].ref].entries = (Str(x.field) :> vs[2]) @@ @], vs[2])
      [] OTHER -> Throw(s, "property"))

\* The method of the nearest class above the one that defines the running method.
EvalSuper(st, x) ==
  Then(GetVar(st, "this"), LAMBDA s, this :
    LET super == GetVar(s, "__super__") IN
    IF ~IsKind(s.h, this, "instance") THEN Throw(s, "super")
    ELSE Then(super, LAMBDA s2, c :
      LET owner == Owner(s2.h, c.ref, "methods", x.method) IN
      IF owner = 0 THEN Throw(s2, "super")
      ELSE New(s2, MethodObj(this, s2.h[owner].methods[x.method], s2.h[c.ref].env, owner))))

\* The value of an arm is its last expression.
EvalArm(st, vars, body) ==
  LET s == EnterScope(st, st.env, vars)
      last == body[Len(body)]
      r == IF body = <<>> THEN Done(s)
           ELSE Then(ExecAll(s, Front(body)), LAMBDA t, v :
                  IF last.s = "expr" THEN Eval(t, last.x) ELSE Then(Exec(t, last), LAMBDA u, w : Done(u)))
  IN [r EXCEPT !.st.env = st.env]

IsTagPattern(x) == x.e = "call" /\ x.callee.e = "ident" /\ x.callee.name \in Capitalised

\* The first arm that matches the value v.
RECURSIVE EvalArms(_, _, _)
EvalArms(st, v, cases) ==
  LET arm == Head(cases)
      Next(s) == EvalArms(s, v, Tail(cases))
      If(s, b) == IF b THEN EvalArm(s, NoVars, arm.body) ELSE Next(s)
      Equals == Then(Eval(st, arm.x), LAMBDA s, p :
                  IF Overloads(s.h, v, "__eq")
                  THEN Then(CallDunder(s, v, "__eq", <<p>>), LAMBDA s2, b : If(s2, Truthy(b)))
                  ELSE If(s, ValuesEqual(s.h, v, p)))
      o == st.h[v.ref]
      args == arm.x.args
  IN IF cases = <<>> THEN Done(st)
     ELSE CASE arm.arm = "default" -> EvalArm(st, NoVars, arm.body)
            [] arm.arm = "is" ->
                 Then(Eval(st, arm.x), LAMBDA s, t :
                   LET r == IsResult(s.h, v, t) IN IF Failed(r) THEN Throw(s, r.fail) ELSE If(s, r.v.bool))
            [] arm.arm = "when" -> Then(Eval(st, arm.x), LAMBDA s, b : If(s, Truthy(b)))
            [] arm.arm = "pattern" /\ IsTagPattern(arm.x) /\ IsKind(st.h, v, "tagged") ->
                 IF o.tag # arm.x.callee.name \/ Len(o.elems) # Len(args) THEN Next(st)
                 ELSE IF \A i \in DOMAIN args : args[i].e = "ident"
                 THEN EvalArm(st, FoldLeft(LAMBDA m, i : (args[i].name :> o.elems[i]) @@ m, NoVars,
                                           [i \in DOMAIN args |-> i]), arm.body)
                 ELSE Then(Eval(st, arm.x), LAMBDA s, p : If(s, ValuesEqual(s.h, v, p)))
            [] OTHER -> Equals

EvalLambda(st, x) == New(st, FuncObj(x.params, x.defaults, x.rest, x.body, st.env))

EvalInterp(st, x) ==
  Then(EvalAll(st, x.parts), LAMBDA s, vs :
    Ok(s, Str(FoldLeft(LAMBDA acc, v : acc \o Text(s.h, v), "", vs))))

Eval(st, x) ==
  CASE x.e = "literal" -> Ok(st, x.v)
    [] x.e = "ident" -> GetVar(st, x.name)
    [] x.e = "this" -> GetVar(st, "this")
    [] x.e = "super" -> EvalSuper(st, x)
    [] x.e = "assign" -> Then(Eval(st, x.value), LAMBDA s, v : SetVar(s, x.name, v))
    [] x.e = "unary" -> EvalUnary(st, x)
    [] x.e = "postfix" -> EvalPostfix(st, x)
    [] x.e = "binary" -> EvalBinary(st, x)
    [] x.e = "call" -> EvalCall(st, x)
    [] x.e = "array" -> Then(EvalAll(st, x.elems), LAMBDA s, vs : New(s, ArrayObj(vs)))
    [] x.e = "set" -> EvalSet(st, x)
    [] x.e = "map" -> EvalMap(st, x)
    [] x.e = "ternary" -> Then(Eval(st, x.cond), LAMBDA s, c : Eval(s, IF Truthy(c) THEN x.left ELSE x.right))
    [] x.e = "pipe" -> Then(Eval(st, x.left), LAMBDA s, v : PipeInto(s, x, v))
    [] x.e = "pipetry" -> EvalPipeTry(st, x)
    [] x.e = "lambda" -> EvalLambda(st, x)
    [] x.e = "index" -> EvalIndex(st, x)
    [] x.e = "indexassign" -> EvalIndexAssign(st, x)
    [] x.e = "dot" -> EvalDot(st, x)
    [] x.e = "dotassign" -> EvalDotAssign(st, x)
    [] x.e = "interp" -> EvalInterp(st, x)
    [] x.e = "match" -> Then(Eval(st, x.subject), LAMBDA s, v : EvalArms(s, v, x.cases))
    [] x.e = "spread" -> Throw(st, "spread")

-----------------------------------------------------------------------------
(* Statements. *)

\* A pattern takes elements by position or by key; what is not there is nil.
ExecPattern(st, s) ==
  Then(Eval(st, s.x), LAMBDA t, v :
    LET o == t.h[v.ref]
        given == {s.pattern[k].key : k \in {j \in DOMAIN s.pattern : ~s.pattern[j].rest}}
        Taken(k) ==
          LET key == Str(s.pattern[k].key) IN
          IF s.array THEN IF k \in DOMAIN o.elems THEN o.elems[k] ELSE Nil
          ELSE IF key \in DOMAIN o.entries THEN o.entries[key] ELSE Nil
        rest == IF s.array THEN ArrayObj(SubSeq(o.elems, Len(s.pattern), Len(o.elems)))
                ELSE MapObj([k \in DOMAIN o.entries \ {Str(n) : n \in given} |-> o.entries[k]])
        Bind(r, k) ==
          Then(r, LAMBDA u, w :
            IF s.pattern[k].rest THEN Then(New(u, rest), LAMBDA u2, q : Done(Let(u2, s.pattern[k].name, q)))
            ELSE Done(Let(u, s.pattern[k].name, Taken(k))))
    IN IF ~IsKind(t.h, v, IF s.array THEN "array" ELSE "map") THEN Throw(t, "operands")
       ELSE FoldLeft(Bind, Done(t), [k \in DOMAIN s.pattern |-> k]))

RECURSIVE ExecIf(_, _, _)
ExecIf(st, s, k) ==
  IF k > Len(s.branches) THEN IF s.orelse = NoStmt THEN Done(st) ELSE Exec(st, s.orelse)
  ELSE Then(Eval(st, s.branches[k].cond), LAMBDA t, c :
         IF Truthy(c) THEN Exec(t, s.branches[k].body) ELSE ExecIf(t, s, k + 1))

\* After the body of a loop: the next round, or what ended the loop.
AfterBody(r, Next(_)) ==
  CASE r.sig \in {"ok", "continue"} -> Next(r.st)
    [] r.sig = "break" -> Done(r.st)
    [] OTHER -> r

RECURSIVE ExecWhile(_, _), ExecFor(_, _, _, _), ExecForIn(_, _, _)
ExecWhile(st, s) ==
  LET c == Eval(st, s.cond) IN
  CASE c.sig = "break" -> Done(c.st)
    [] c.sig = "ok" /\ Truthy(c.v) -> AfterBody(Exec(c.st, s.body), LAMBDA t : ExecWhile(t, s))
    [] c.sig = "ok" /\ ~Truthy(c.v) -> Done(c.st)
    [] OTHER -> c

\* Every round has a variable of its own.
ExecFor(st, s, i, to) ==
  IF i >= to THEN Done(st)
  ELSE AfterBody(InScope(st, s.name :> Num(i), s.body.body), LAMBDA t : ExecFor(t, s, i + 1, to))

StartFor(st, s) ==
  Then(Eval(st, s.from), LAMBDA t, from :
    Then(Eval(t, s.to), LAMBDA u, to :
      IF Is("int", from) /\ Is("int", to) THEN ExecFor(u, s, from.int, to.int) ELSE Throw(u, "range")))

\* items is a copy of what the loop walks.
ExecForIn(st, s, items) ==
  LET v == Head(items)
      m == st.h[v.ref].entries
      vars == IF s.keys # <<>> /\ IsKind(st.h, v, "map")
              THEN [n \in ToSet(s.keys) |-> IF Str(n) \in DOMAIN m THEN m[Str(n)] ELSE Nil]
              ELSE s.name :> v
  IN IF items = <<>> THEN Done(st)
     ELSE AfterBody(InScope(st, vars, s.body.body), LAMBDA t : ExecForIn(t, s, Tail(items)))

StartForIn(st, s) ==
  Then(Eval(st, s.x), LAMBDA t, v :
    LET iter == IterEntries(t.h, v) IN
    IF iter.v = Nil THEN Throw(t, "iterable")
    ELSE ExecForIn([t EXCEPT !.h = iter.h], s, iter.h[iter.v.ref].elems))

ExecEnum(st, s) ==
  LET Add(r, k) ==
        Then(r, LAMBDA t, acc :
          Then(IF Given(s.values[k]) THEN Eval(t, s.values[k]) ELSE Ok(t, Num(acc.next)), LAMBDA u, v :
            IF ~Is("int", v) THEN Throw(u, "enum")
            ELSE Ok(u, [next |-> v.int + 1, entries |-> (Str(s.members[k]) :> v) @@ acc.entries])))
  IN Then(FoldLeft(Add, Ok(st, [next |-> 0, entries |-> NoEntries]), [k \in DOMAIN s.members |-> k]),
          LAMBDA t, acc : Then(New(t, MapObj(acc.entries)), LAMBDA u, v : Done(Let(u, s.name, v))))

ExecClass(st, s) ==
  LET Decls(static) ==
        FoldLeft(LAMBDA m, decl : IF decl.static = static THEN (decl.name :> decl) @@ m ELSE m,
                 [n \in {} |-> 0], s.methods)
      operators == \E k \in DOMAIN s.methods : ~s.methods[k].static /\ s.methods[k].name \in OperatorNames
      Make(t, super) ==
        Then(New(t, [kind |-> "class", name |-> s.name, super |-> super, methods |-> Decls(FALSE),
                     statics |-> Decls(TRUE), env |-> t.env,
                     dunder |-> operators \/ (super # 0 /\ t.h[super].dunder)]),
             LAMBDA u, v : Done(Let(u, s.name, v)))
  IN IF s.super = "" THEN Make(st, 0)
     ELSE Then(GetVar(st, s.super), LAMBDA t, v :
            IF IsKind(t.h, v, "class") THEN Make(t, v.ref) ELSE Throw(t, "superclass"))

\* finally runs after the try and its handler, however they ended; a signal of its own replaces theirs.
ExecTry(st, s) ==
  LET tried == Exec(st, s.body)
      pending == IF tried.sig # "throw" THEN tried
                 ELSE InScope([tried.st EXCEPT !.depth = st.depth], s.name :> tried.v, s.handler.body)
      final == Exec(pending.st, s.finally)
  IN IF s.finally = NoStmt THEN pending
     ELSE IF final.sig # "ok" THEN final
     ELSE [pending EXCEPT !.st = final.st]

ExecEnsure(st, s) ==
  Then(Eval(st, s.cond), LAMBDA t, v :
    IF s.name = "" THEN IF Truthy(v) THEN Done(t) ELSE Exec(t, s.orelse)
    ELSE IF Is("nil", v) THEN Exec(t, s.orelse) ELSE Done(Let(t, s.name, v)))

Exec(st, s) ==
  CASE s.s = "expr" -> Then(Eval(st, s.x), LAMBDA t, v : Done(t))
    [] s.s = "let" -> IF Given(s.x) THEN Then(Eval(st, s.x), LAMBDA t, v : Done(Let(t, s.name, v)))
                      ELSE Done(Let(st, s.name, Nil))
    [] s.s = "pattern" -> ExecPattern(st, s)
    [] s.s = "block" -> InScope(st, NoVars, s.body)
    [] s.s = "if" -> ExecIf(st, s, 1)
    [] s.s = "while" -> ExecWhile(st, s)
    [] s.s = "for" -> StartFor(st, s)
    [] s.s = "forin" -> StartForIn(st, s)
    [] s.s = "func" -> Then(New(st, FuncObj(s.params, s.defaults, s.rest, s.body, st.env)),
                            LAMBDA t, v : Done(Let(t, s.name, v)))
    [] s.s = "class" -> ExecClass(st, s)
    [] s.s = "enum" -> ExecEnum(st, s)
    [] s.s = "return" -> Then(IF Given(s.x) THEN Eval(st, s.x) ELSE Done(st), LAMBDA t, v : Signal(t, "return", v))
    [] s.s \in {"break", "continue"} -> Signal(st, s.s, Nil)
    [] s.s = "throw" -> Then(Eval(st, s.x), LAMBDA t, v : Signal(t, "throw", v))
    [] s.s = "try" -> ExecTry(st, s)
    [] s.s = "ensure" -> ExecEnsure(st, s)
    [] s.s = "defer" -> Done([st EXCEPT !.defers = Append(Front(@), Append(Last(@), s.x))])

\* What a program prints, and whether it ends with an error.
Interpret(program, natives) ==
  LET start == [h |-> <<>>, envs |-> <<[vars |-> [n \in natives |-> Native(n)], parent |-> 0]>>, env |-> 1,
                defers |-> << <<>> >>, out |-> <<>>, depth |-> 0]
      r == ExecAll(start, program)
  IN [out |-> RunDefers(r.st).out, failed |-> r.sig # "ok"]
=============================================================================
