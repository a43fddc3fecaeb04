------------------------------- MODULE Parser -------------------------------
(* Recursive descent from tokens to the syntax tree, with the recovery from  *)
(* errors.  The parser is a record p: the tokens and the place reached, the  *)
(* depths the checks of break, return and yield look at, what a decorator    *)
(* left to emit, whether an error was reported and whether one is in flight. *)
(* Each operator gives the parser after it with what it has built.           *)
EXTENDS Ast, Tokens, SequencesExt

Start(toks) ==
  [toks |-> toks, at |-> 1, loops |-> 0, fns |-> 0, yields |-> 0, pending |-> <<>>,
   bad |-> FALSE, thrown |-> FALSE, stuck |-> FALSE]

Peek(p) == p.toks[p.at].t
PeekNext(p) == IF p.at < Len(p.toks) THEN p.toks[p.at + 1].t ELSE "EOF"
Previous(p) == p.toks[p.at - 1]
AtEnd(p) == Peek(p) = "EOF"
Advance(p) == IF AtEnd(p) THEN p ELSE [p EXCEPT !.at = @ + 1]
IsWord(p, word) == Peek(p) = "IDENT" /\ p.toks[p.at].v = word       \* a contextual keyword

Give(p, x) == [p |-> p, x |-> x]
Report(p) == [p EXCEPT !.bad = TRUE]
Refuse(p) == Give([Report(p) EXCEPT !.thrown = TRUE], NoExpr)
Then(r, F(_, _)) == IF r.p.thrown THEN r ELSE F(r.p, r.x)

IsNameToken(t) == t = "IDENT" \/ t \in Keywords \ {"defer"}

\* What return and yield take for the first token of a value.
StartsValue ==
  {"NUMBER", "STRING", "START", "true", "false", "nil", "IDENT", "(", "[", "{", "#{", "lam", "match", "async",
   "await", "yield", "this", "super", "!", "-", "~"}

-----------------------------------------------------------------------------
(* Phrases: tokens and nonterminals one after another. *)

RECURSIVE Expression(_), Level(_, _), Ternary(_), Unary(_), CallSuffixes(_, _), Statements(_, _, _), Phrase(_, _),
          Items(_, _, _), Decorators(_, _), Methods(_, _), Branches(_, _), Arms(_, _), Parts(_, _)

Consume(p, t) == IF Peek(p) = t THEN Give(Advance(p), p.toks[p.at].v) ELSE Refuse(p)

\* The phrase after t, if t is next; what it gives is its last part.
IfNext(p, t, phrase, otherwise) ==
  IF Peek(p) = t THEN Then(Phrase(Advance(p), phrase), LAMBDA q, x : Give(q, Last(x))) ELSE Give(p, otherwise)

\* Comma-separated lists, with the token that ends them; some allow a last comma.
Closing ==
  [params |-> ")", lamparams |-> "in", arraypattern |-> "]", mappattern |-> "}", members |-> "}", names |-> "}",
   args |-> ")", elements |-> "]", setelements |-> "}", entries |-> "}"]
TrailingComma == {"elements", "setelements", "entries"}

NameAfterSpread(p) == Then(Phrase(p, <<"...", "IDENT">>), LAMBDA q, x : Give(q, [rest |-> x[2]]))
IsRest(x) == "rest" \in DOMAIN x

Param(p, before) ==
  IF Peek(p) = "..." THEN NameAfterSpread(p)
  ELSE Then(Phrase(p, <<"IDENT", "Initializer">>), LAMBDA q, x :
         IF ~Given(x[2]) /\ \E i \in DOMAIN before : Given(before[i].default) THEN Refuse(q)
         ELSE Give(q, [name |-> x[1], default |-> x[2]]))

PatternItem(p, isArray) ==
  IF Peek(p) = "..." THEN Then(NameAfterSpread(p), LAMBDA q, x : Give(q, Entry("", x.rest, TRUE)))
  ELSE IF isArray THEN Then(Consume(p, "IDENT"), LAMBDA q, x : Give(q, Entry("", x, FALSE)))
  ELSE Then(Phrase(p, <<"Name">>), LAMBDA q, x :
         Then(IfNext(q, ":", <<"IDENT">>, x[1]), LAMBDA r, y : Give(r, Entry(x[1], y, FALSE))))

Element(p) ==
  IF Peek(p) = "..." THEN Then(Expression(Advance(p)), LAMBDA q, x : Give(q, SpreadExpr(x))) ELSE Expression(p)

Argument(p, before) ==
  LET names == {before[i].name : i \in DOMAIN before}
      named == names \ {""} # {}
  IN IF Peek(p) = "IDENT" /\ PeekNext(p) = ":" THEN
       IF p.toks[p.at].v \in names THEN Refuse(Advance(Advance(p)))
       ELSE Then(Phrase(p, <<"IDENT", ":", "Expression">>), LAMBDA q, x : Give(q, [name |-> x[1], value |-> x[3]]))
     ELSE IF named THEN Refuse(IF Peek(p) = "..." THEN Advance(p) ELSE p)
     ELSE Then(Element(p), LAMBDA q, x : Give(q, [name |-> "", value |-> x]))

MapEntry(p) ==
  LET Of(q, k, v) == Give(q, [key |-> k, value |-> v])
  IN CASE Peek(p) = "..." -> Then(Element(p), LAMBDA q, x : Of(q, NoExpr, x))
       [] Peek(p) = "[" -> Then(Phrase(Advance(p), <<"Expression", "]", ":", "Expression">>), LAMBDA q, x : Of(q, x[1], x[4]))
       [] OTHER -> Then(Phrase(p, <<IF Peek(p) = "STRING" THEN "STRING" ELSE "Name", ":", "Expression">>),
                        LAMBDA q, x : Of(q, Lit(Str(x[1])), x[3]))

Item(p, kind, before) ==
  CASE kind \in {"params", "lamparams"} -> Param(p, before)
    [] kind \in {"arraypattern", "mappattern"} -> PatternItem(p, kind = "arraypattern")
    [] kind = "members" -> Then(Phrase(p, <<"Name", "Initializer">>), LAMBDA q, x : Give(q, x))
    [] kind = "names" -> Consume(p, "IDENT")
    [] kind = "args" -> Argument(p, before)
    [] kind \in {"elements", "setelements"} -> Element(p)
    [] kind = "entries" -> MapEntry(p)

\* A rest parameter ends the parameters.
Items(p, kind, before) ==
  IF kind \in TrailingComma /\ Peek(p) = Closing[kind] THEN Give(p, before)
  ELSE Then(Item(p, kind, before), LAMBDA q, x :
         IF Peek(q) # "," \/ (kind \in {"params", "lamparams"} /\ IsRest(x)) THEN Give(q, Append(before, x))
         ELSE Items(Advance(q), kind, Append(before, x)))

List(p, kind) == IF Peek(p) = Closing[kind] THEN Give(p, <<>>) ELSE Items(p, kind, <<>>)

Positional(params) == SelectSeq(params, LAMBDA x : ~IsRest(x))
ParamNames(params) == [i \in DOMAIN Positional(params) |-> Positional(params)[i].name] \o <<>>
ParamDefaults(params) == [i \in DOMAIN Positional(params) |-> Positional(params)[i].default] \o <<>>
RestParam(params) == IF params # <<>> /\ IsRest(Last(params)) THEN Last(params).rest ELSE ""

-----------------------------------------------------------------------------
(* Statements, one after another. *)

RECURSIVE SkipSemicolons(_)
SkipSemicolons(p) == IF Peek(p) = ";" THEN SkipSemicolons(Advance(p)) ELSE p

ConsumeStatementSeparator(p) ==
  LET last == Previous(p)
  IN IF Peek(p) \in {";", "EOF", "}"} \/ p.toks[p.at].line # last.line \/ last.t = "}" THEN Give(SkipSemicolons(p), NoStmt)
     ELSE Refuse(p)

\* Skips to a place where a statement may start.
StatementKeywords ==
  {"let", "func", "class", "enum", "if", "while", "for", "return", "break", "continue", "try", "ensure", "use", "export"}
Resumes(toks, i) == toks[i].t \in StatementKeywords \union {"EOF"} \/ (i > 1 /\ toks[i - 1].t \in {"}", ";"})
SkipTo(p, from) ==
  [p EXCEPT !.at = CHOOSE i \in from .. Len(p.toks) : Resumes(p.toks, i) /\ \A j \in from .. (i - 1) : ~Resumes(p.toks, j)]
SynchronizeInPlace(p) == SkipTo(p, p.at)        \* mutant: the token where the error was may be the place
Synchronize(p) == SkipTo(p, Advance(p).at)

Decorated(d, f) == FoldRight(LAMBDA x, inner : CallExpr(x, <<inner>>), d, f)

Decorators(p, before) ==
  IF Peek(p) # "@" THEN Give(p, before)
  ELSE Then(Phrase(Advance(p), <<"Call">>), LAMBDA q, x : Decorators(q, Append(before, x[1])))

\* Mutant: the yields of an inner function count for the outer one.
InFunctionCounting(p, kind) ==
  Then(Statements([p EXCEPT !.fns = @ + 1], kind, <<>>), LAMBDA q, body :
    Give([q EXCEPT !.fns = @ - 1], [body |-> body, generator |-> q.yields > 0]))
InFunction(p, kind) ==
  Then(Statements([p EXCEPT !.fns = @ + 1, !.yields = 0], kind, <<>>), LAMBDA q, body :
    Give([q EXCEPT !.fns = @ - 1, !.yields = p.yields], [body |-> body, generator |-> q.yields > 0]))

InLoop(p) ==
  Then(Statements([p EXCEPT !.loops = @ + 1], "block", <<>>), LAMBDA q, body :
    Give([q EXCEPT !.loops = @ - 1], BlockStmt(body)))

LetStatement(p) ==
  IF Peek(p) \in {"[", "{"} THEN
    LET isArray == Peek(p) = "["
    IN Then(Phrase(Advance(p), IF isArray THEN <<"arraypattern", "]", "=", "Expression">>
                               ELSE <<"mappattern", "}", "=", "Expression">>),
            LAMBDA q, x : Give(q, PatternStmt(isArray, x[1], x[4])))
  ELSE Then(Phrase(p, <<"IDENT", "Initializer">>), LAMBDA q, x : Give(q, LetStmt(x[1], x[2])))

FuncStatement(p) ==
  Then(Phrase(p, <<"IDENT", "(", "params", ")", "{">>), LAMBDA q, x :
    Then(InFunction(q, "block"), LAMBDA r, f :
      Give(r, GeneratorIf(f.generator,
                FuncStmt(x[1], ParamNames(x[3]), ParamDefaults(x[3]), RestParam(x[3]), f.body)))))

DecoratedFunc(p) ==
  Then(Phrase(p, <<"Decorators", "func">>), LAMBDA q, x :
    Then(FuncStatement(q), LAMBDA r, f :
      Give([r EXCEPT !.pending = Append(@, ExprStmt(AssignExpr(f.name, Decorated(x[1], Ident(f.name)))))], f)))

ClassMethod(p) ==
  Then(Phrase(p, <<"Decorators", "Static", "func", "IDENT", "(", "params", ")", "{">>), LAMBDA q, x :
    Then(InFunction(q, "method"), LAMBDA r, f :
      Then(Consume(r, "}"), LAMBDA s, y :
        Give(s, GeneratorIf(f.generator,
                  [Method(x[4], ParamNames(x[6]), ParamDefaults(x[6]), f.body, x[2], x[1])
                     EXCEPT !.rest = RestParam(x[6])])))))

Methods(p, before) ==
  IF Peek(p) \in {"}", "EOF"} THEN Give(p, before)
  ELSE Then(ClassMethod(p), LAMBDA q, m : Methods(q, Append(before, m)))

ClassStatement(p) ==
  Then(Phrase(p, <<"IDENT", "Extends", "{", "Methods", "}">>), LAMBDA q, x : Give(q, ClassStmt(x[1], x[2], x[4])))

EnumStatement(p) ==
  Then(Phrase(p, <<"IDENT", "{", "members", "}">>), LAMBDA q, x :
    LET Part(k) == [i \in DOMAIN x[3] |-> x[3][i][k]] \o <<>>
    IN Give(q, EnumStmt(x[1], Part(1), Part(2))))

Branches(p, before) ==
  IF Peek(p) # "elif" THEN Give(p, before)
  ELSE Then(Phrase(Advance(p), <<"(", "Expression", ")", "{", "Block">>), LAMBDA q, x :
         Branches(q, Append(before, Branch(x[2], x[5]))))

IfStatement(p) ==
  Then(Phrase(p, <<"(", "Expression", ")", "{", "Block", "Branches", "Else">>), LAMBDA q, x :
    Give(q, IfStmt(<<Branch(x[2], x[5])>> \o x[6], x[7])))

\* An arm up to its body; a default arm is the last one.
ArmHead(p) ==
  CASE IsWord(p, "_") -> Give(Advance(p), Default(<<>>))
    [] Peek(p) = "is" -> Then(Expression(Advance(p)), LAMBDA q, x : Give(q, ByType(x, <<>>)))
    [] IsWord(p, "when") -> Then(Expression(Advance(p)), LAMBDA q, x : Give(q, When(x, <<>>)))
    [] OTHER -> Then(Expression(p), LAMBDA q, x : Give(q, ByPattern(x, <<>>)))

Arms(p, before) ==
  IF Peek(p) \in {"}", "EOF"} THEN Give(p, before)
  ELSE Then(ArmHead(p), LAMBDA q, arm :
         Then(Phrase(q, <<"{", "Block">>), LAMBDA r, x :
           LET arms == Append(before, [arm EXCEPT !.body = x[2].body])
           IN IF arm.arm = "default" THEN Give(r, arms) ELSE Arms(r, arms)))

EndsInDefault(arms) == arms # <<>> /\ Last(arms).arm = "default"

Match(p, requireDefault) ==
  Then(Phrase(p, <<"(", "Expression", ")", "{", "Arms">>), LAMBDA q, x :
    IF requireDefault /\ ~EndsInDefault(x[5]) THEN Refuse(q)
    ELSE Then(Consume(q, "}"), LAMBDA r, y : Give(r, MatchExpr(x[2], x[5]))))

WhileStatement(p) ==
  Then(Phrase(p, <<"(", "Expression", ")", "{", "LoopBody">>), LAMBDA q, x : Give(q, WhileStmt(x[2], x[5])))

ForStatement(p) ==
  Then(Phrase(p, <<"(", "LoopVariables", "in", "Expression">>), LAMBDA q, x :
    LET name == IF Len(x[2]) = 1 THEN Head(x[2]) ELSE ""
        keys == IF Len(x[2]) = 1 THEN <<>> ELSE Tail(x[2])
    IN IF keys = <<>> /\ Peek(q) = ".." THEN
         Then(Phrase(q, <<"..", "Expression", ")", "{", "LoopBody">>), LAMBDA r, y :
           Give(r, ForStmt(name, x[4], y[2], y[5])))
       ELSE Then(Phrase(q, <<")", "{", "LoopBody">>), LAMBDA r, y : Give(r, ForInStmt(name, keys, x[4], y[3]))))

\* One variable, or an empty name followed by the keys taken from each item.
LoopVariables(p) ==
  IF Peek(p) = "{" THEN
    Then(Items(Advance(p), "names", <<>>), LAMBDA q, x :
      Then(Consume(q, "}"), LAMBDA r, y : Give(r, <<"">> \o x)))
  ELSE Then(Consume(p, "IDENT"), LAMBDA q, x : Give(q, <<x>>))

ReturnStatement(p) ==
  IF p.fns = 0 THEN Refuse(p)
  ELSE IF Peek(p) \in StartsValue THEN Then(Expression(p), LAMBDA q, x : Give(q, ReturnStmt(x)))
  ELSE Give(p, ReturnStmt(NoExpr))

LoopExit(p, stmt) == IF p.loops = 0 THEN Refuse(p) ELSE Give(p, stmt)

TryCatchStatement(p) ==
  Then(Phrase(p, <<"{", "Block", "catch", "(", "IDENT", ")", "{", "Block", "Finally">>), LAMBDA q, x :
    Give(q, TryStmt(x[2], x[5], x[8], x[9])))

\* Whether a statement leaves its block on every path.
RECURSIVE StmtTerminates(_)
StmtTerminates(s) ==
  CASE s.s \in {"return", "throw", "break", "continue"} -> TRUE
    [] s.s = "block" -> s.body # <<>> /\ StmtTerminates(Last(s.body))
    [] s.s = "if" -> /\ StmtTerminates(s.orelse)
                     /\ \A i \in DOMAIN s.branches : StmtTerminates(s.branches[i].body)
    [] OTHER -> FALSE

EnsureStatement(p) ==
  IF Peek(p) = "let"
  THEN Then(Phrase(Advance(p), <<"IDENT", "=", "Expression", "else", "{", "Block">>), LAMBDA q, x :
            IF StmtTerminates(x[6]) THEN Give(q, EnsureStmt(x[1], x[3], x[6])) ELSE Refuse(q))
  ELSE Then(Phrase(p, <<"(", "Expression", ")", "else", "{", "Block">>), LAMBDA q, x :
            IF StmtTerminates(x[6]) THEN Give(q, EnsureStmt("", x[2], x[6])) ELSE Refuse(q))

LastSegment(path) == IF path \in DOMAIN PathSegments THEN Last(PathSegments[path]) ELSE path

UseStatement(p) ==
  Then(Consume(p, "STRING"), LAMBDA q, path :
    IF IsWord(q, "as") THEN Then(Consume(Advance(q), "IDENT"), LAMBDA r, alias : Give(r, UseStmt(path, alias)))
    ELSE Give(q, UseStmt(path, LastSegment(path))))

OfExpression(p, Stmt(_)) == Then(Expression(p), LAMBDA q, x : Give(q, Stmt(x)))

Statement(p) ==
  LET q == Advance(p) t == Peek(p)
  IN CASE t = "@" -> DecoratedFunc(p)
       [] t = "let" -> LetStatement(q)
       [] t = "func" -> FuncStatement(q)
       [] t = "class" -> ClassStatement(q)
       [] t = "enum" -> EnumStatement(q)
       [] t = "if" -> IfStatement(q)
       [] t = "match" -> Then(Match(q, FALSE), LAMBDA r, x : Give(r, ExprStmt(x)))
       [] t = "while" -> WhileStatement(q)
       [] t = "for" -> ForStatement(q)
       [] t = "return" -> ReturnStatement(q)
       [] t = "break" -> LoopExit(q, BreakStmt)
       [] t = "continue" -> LoopExit(q, ContinueStmt)
       [] t = "throw" -> OfExpression(q, ThrowStmt)
       [] t = "try" -> TryCatchStatement(q)
       [] t = "ensure" -> EnsureStatement(q)
       [] t = "defer" -> OfExpression(q, DeferStmt)
       [] t = "use" -> UseStatement(q)
       [] t = "export" -> Then(Phrase(q, <<"{", "names", "}">>), LAMBDA r, x : Give(r, ExportStmt(x[2])))
       [] OTHER -> OfExpression(p, ExprStmt)

\* The script and blocks go on after an error; the bodies of methods and
\* lambdas do not, and those of methods do not emit what decorators left.
\* A round of the loop that consumes nothing would repeat for ever: stuck.
Statements(p, kind, before) ==
  IF AtEnd(p) \/ (kind # "script" /\ Peek(p) = "}") THEN
    IF kind = "block" THEN Then(Consume(p, "}"), LAMBDA q, x : Give(q, before)) ELSE Give(p, before)
  ELSE
    LET r == Statement(p)
        drain == kind # "method"
        stmts == IF r.p.thrown THEN before
                 ELSE Append(before, r.x) \o (IF drain THEN r.p.pending ELSE <<>>)
        s == IF r.p.thrown THEN r
             ELSE ConsumeStatementSeparator(IF drain THEN [r.p EXCEPT !.pending = <<>>] ELSE r.p)
        next == IF s.p.thrown /\ kind \in {"script", "block"} THEN [Synchronize(s.p) EXCEPT !.thrown = FALSE] ELSE s.p
    IN IF next.thrown THEN Give(next, NoStmt)
       ELSE IF next.at = p.at THEN Give([next EXCEPT !.stuck = TRUE], stmts)
       ELSE Statements(next, kind, stmts)

-----------------------------------------------------------------------------
(* Expressions, from the loosest operators to the tightest. *)

CompoundOps == ("+=" :> "+") @@ ("-=" :> "-") @@ ("*=" :> "*") @@ ("/=" :> "/") @@ ("%=" :> "%")

Pipes == {"|>", "|?>"}
RECURSIVE MorePipes(_, _)
MorePipes(p, left) ==
  IF Peek(p) \notin Pipes THEN Give(p, left)
  ELSE Then(Ternary(Advance(p)), LAMBDA q, right :
         MorePipes(q, IF Peek(p) = "|>" THEN PipeExpr(left, right) ELSE PipeTryExpr(left, right)))

Expression(p) ==
  Then(Then(Ternary(p), MorePipes), LAMBDA q, x :
    IF Peek(q) \notin DOMAIN CompoundOps \union {"="} THEN Give(q, x)
    ELSE Then(Expression(Advance(q)), LAMBDA r, v :
           CASE x.e = "ident" -> Give(r, AssignExpr(x.name, IF Peek(q) = "=" THEN v ELSE BinaryExpr(CompoundOps[Peek(q)], x, v)))
             [] x.e = "index" /\ Peek(q) = "=" -> Give(r, IndexAssignExpr(x.object, x.index, v))
             [] x.e = "dot" /\ Peek(q) = "=" -> Give(r, DotAssignExpr(x.object, x.field, v))
             [] OTHER -> Refuse(r)))

Ternary(p) ==
  Then(Level(p, 1), LAMBDA q, c :
    IF Peek(q) # "?" THEN Give(q, c)
    ELSE Then(Phrase(Advance(q), <<"Expression", ":", "Ternary">>), LAMBDA r, x : Give(r, TernaryExpr(c, x[1], x[3]))))

Levels ==
  <<{"??"}, {"||"}, {"&&"}, {"|"}, {"^"}, {"&"}, {"==", "!=", "is"}, {"<", ">", "<=", ">="}, {"<<", ">>"}, {"+", "-"},
    {"*", "/", "%"}>>
LevelOf == [op \in UNION Range(Levels) |-> CHOOSE i \in DOMAIN Levels : op \in Levels[i]]

\* Operands joined by operators of level i and tighter, to the left: the right
\* operand of one holds tighter ones only.
RECURSIVE MoreOperands(_, _, _)
MoreOperands(p, i, left) ==
  IF Peek(p) \notin DOMAIN LevelOf \/ LevelOf[Peek(p)] < i THEN Give(p, left)
  ELSE Then(Level(Advance(p), LevelOf[Peek(p)] + 1), LAMBDA q, right : MoreOperands(q, i, BinaryExpr(Peek(p), left, right)))

\* Mutant: an operand takes looser operators too.
LevelLoose(p, i) == Then(Unary(p), LAMBDA q, x : MoreOperands(q, 1, x))
Level(p, i) == Then(Unary(p), LAMBDA q, x : MoreOperands(q, i, x))

Interpolated(p) == Parts(p, <<Lit(Str(Previous(p).v))>>)
Parts(p, before) ==
  Then(Expression(p), LAMBDA q, x :
    Then(Consume(q, IF Peek(q) = "MID" THEN "MID" ELSE "END"), LAMBDA r, text :
      LET parts == before \o <<x, Lit(Str(text))>>
      IN IF Peek(q) = "MID" THEN Parts(r, parts) ELSE Give(r, InterpExpr(parts))))

\* Whether a lambda names its parameters: an `in` of its own comes before its end.
HasIn(toks, at) ==
  LET Count(ts, j) == Cardinality({k \in at .. (j - 1) : toks[k].t \in ts})
      Depth(open, close, j) == Count(open, j) - Count(close, j)
      Inside(j) == \A k \in at .. j : Depth({"{", "#{"}, {"}"}, k) >= 0
  IN \E j \in at .. Len(toks) :
       /\ toks[j].t = "in" /\ Inside(j)
       /\ Depth({"{", "#{"}, {"}"}, j) = 0 /\ Depth({"("}, {")"}, j) = 0 /\ Depth({"["}, {"]"}, j) = 0

LambdaParams(p) ==
  IF HasIn(p.toks, p.at) THEN Then(Phrase(p, <<"lamparams", "in">>), LAMBDA q, x : Give(q, x[1]))
  ELSE Give(p, <<[name |-> "it", default |-> NoExpr]>>)

AutoReturn(body) == IF Len(body) = 1 /\ body[1].s = "expr" THEN <<ReturnStmt(body[1].x)>> ELSE body

Lambda(p) ==
  Then(Then(Consume(p, "{"), LAMBDA q, x : LambdaParams(q)), LAMBDA q, params :
    Then(InFunction(q, "lambda"), LAMBDA r, f :
      Then(Consume(r, "}"), LAMBDA s, y :
        Give(s, GeneratorIf(f.generator,
                  LambdaExpr(ParamNames(params), ParamDefaults(params), RestParam(params), AutoReturn(f.body)))))))

Yield(p) ==
  LET q == [p EXCEPT !.yields = @ + 1]
  IN IF p.fns = 0 THEN Refuse(p)
     ELSE IF Peek(q) \in StartsValue THEN OfExpression(q, YieldExpr) ELSE Give(q, YieldExpr(NoExpr))

\* The value of an integer numeral: a leading 0 makes it octal, up to the first
\* digit that is not (stoll with base 0).  One too large is reported, and is 0.
DigitValue(c) == ((CHOOSE k \in 1 .. 32 : SubSeq("0123456789abcdef0123456789ABCDEF", k, k) = c) - 1) % 16
ValueIn(base, digits) ==
  LET clean == SelectSeq([i \in 1 .. Len(digits) |-> SubSeq(digits, i, i)] \o <<>>, LAMBDA c : c # "_")
      end == CHOOSE n \in 0 .. Len(clean) : /\ \A i \in 1 .. n : DigitValue(clean[i]) < base
                                           /\ n < Len(clean) => DigitValue(clean[n + 1]) >= base
  IN FoldLeft(LAMBDA n, c : n * base + DigitValue(c), 0, SubSeq(clean, 1, end))
Bases == [prefix \in {"0x", "0X"} |-> 16] @@ [prefix \in {"0b", "0B"} |-> 2] @@ [prefix \in {"0o", "0O"} |-> 8]
IntOf(numeral) ==
  LET prefix == IF Len(numeral) > 1 THEN SubSeq(numeral, 1, 2) ELSE ""
  IN IF prefix \in DOMAIN Bases THEN ValueIn(Bases[prefix], SubSeq(numeral, 3, Len(numeral)))
     ELSE ValueIn(IF Len(numeral) > 1 /\ SubSeq(numeral, 1, 1) = "0" THEN 8 ELSE 10, numeral)
Number(p, numeral) ==
  IF IntOf(numeral) <= MaxInt THEN Give(p, Lit(Num(IntOf(numeral)))) ELSE Give(Report(p), Lit(Num(0)))

Fields(records, f) == [i \in DOMAIN records |-> records[i][f]] \o <<>>

Primary(p) ==
  LET q == Advance(p) t == Peek(p) v == p.toks[p.at].v
  IN CASE t = "NUMBER" -> Number(q, v)
       [] t = "STRING" -> Give(q, Lit(Str(v)))
       [] t = "START" -> Interpolated(q)
       [] t \in {"true", "false"} -> Give(q, Lit(Bool(t = "true")))
       [] t = "nil" -> Give(q, Lit(Nil))
       [] t = "IDENT" -> Give(q, Ident(v))
       [] t = "async" -> OfExpression(q, AsyncExpr)
       [] t = "await" -> Then(Unary(q), LAMBDA r, x : Give(r, AwaitExpr(x)))
       [] t = "yield" -> Yield(q)
       [] t = "this" -> Give(q, ThisExpr)
       [] t = "super" -> Then(Phrase(q, <<".", "IDENT">>), LAMBDA r, x : Give(r, SuperExpr(x[2])))
       [] t = "(" -> Then(Phrase(q, <<"Expression", ")">>), LAMBDA r, x : Give(r, x[1]))
       [] t = "[" -> Then(Phrase(q, <<"elements", "]">>), LAMBDA r, x : Give(r, ArrayExpr(x[1])))
       [] t = "#{" -> Then(Phrase(q, <<"setelements", "}">>), LAMBDA r, x : Give(r, SetExpr(x[1])))
       [] t = "match" -> Match(q, TRUE)
       [] t = "lam" -> Lambda(q)
       [] t = "{" -> Then(Phrase(q, <<"entries", "}">>), LAMBDA r, x :
                          Give(r, MapExpr(Fields(x[1], "key"), Fields(x[1], "value"))))
       [] OTHER -> Refuse(p)

CallSuffixes(p, x) ==
  CASE Peek(p) = "(" ->
         Then(Phrase(Advance(p), <<"args", ")">>), LAMBDA q, y :
           CallSuffixes(q, NamedCallExpr(x, Fields(y[1], "value"), Fields(y[1], "name"))))
    [] Peek(p) = "[" \/ (Peek(p) = "?" /\ PeekNext(p) = "[") ->
         LET opt == Peek(p) = "?"
         IN Then(Phrase(IF opt THEN Advance(Advance(p)) ELSE Advance(p), <<"Expression", "]">>), LAMBDA q, y :
              CallSuffixes(q, IndexExpr(x, y[1], opt)))
    [] Peek(p) \in {".", "?."} ->
         Then(Phrase(Advance(p), <<"Name">>), LAMBDA q, y : CallSuffixes(q, DotExpr(x, y[1], Peek(p) = "?.")))
    [] OTHER -> Give(p, x)

Call(p) == Then(Primary(p), CallSuffixes)

Postfix(p) ==
  Then(Call(p), LAMBDA q, x : IF Peek(q) \in {"++", "--"} THEN Give(Advance(q), PostfixOf(Peek(q), x)) ELSE Give(q, x))

Unary(p) ==
  IF Peek(p) \in {"!", "-", "~"} THEN Then(Unary(Advance(p)), LAMBDA q, x : Give(q, UnaryExpr(Peek(p), x))) ELSE Postfix(p)

-----------------------------------------------------------------------------

Part(p, symbol) ==
  CASE symbol = "Expression" -> Expression(p)
    [] symbol = "Ternary" -> Ternary(p)
    [] symbol = "Call" -> Call(p)
    [] symbol = "Name" -> IF IsNameToken(Peek(p)) THEN Give(Advance(p), p.toks[p.at].v) ELSE Refuse(p)
    [] symbol = "Initializer" -> IfNext(p, "=", <<"Expression">>, NoExpr)
    [] symbol = "Block" -> Then(Statements(p, "block", <<>>), LAMBDA q, x : Give(q, BlockStmt(x)))
    [] symbol = "LoopBody" -> InLoop(p)
    [] symbol = "LoopVariables" -> LoopVariables(p)
    [] symbol = "Branches" -> Branches(p, <<>>)
    [] symbol = "Else" -> IfNext(p, "else", <<"{", "Block">>, NoStmt)
    [] symbol = "Finally" -> IfNext(p, "finally", <<"{", "Block">>, NoStmt)
    [] symbol = "Extends" -> IfNext(p, "extends", <<"IDENT">>, "")
    [] symbol = "Static" -> Give(IF Peek(p) = "static" THEN Advance(p) ELSE p, Peek(p) = "static")
    [] symbol = "Decorators" -> Decorators(p, <<>>)
    [] symbol = "Methods" -> Methods(p, <<>>)
    [] symbol = "Arms" -> Arms(p, <<>>)
    [] symbol \in DOMAIN Closing -> List(p, symbol)
    [] OTHER -> Consume(p, symbol)

Phrase(p, symbols) ==
  IF symbols = <<>> THEN Give(p, <<>>)
  ELSE Then(Part(p, Head(symbols)), LAMBDA q, x :
         Then(Phrase(q, Tail(symbols)), LAMBDA r, xs : Give(r, <<x>> \o xs)))

Parse(toks) ==
  LET r == Statements(Start(toks), "script", <<>>)
  IN [stmts |-> r.x, ok |-> ~r.p.bad, stuck |-> r.p.stuck]
=============================================================================
