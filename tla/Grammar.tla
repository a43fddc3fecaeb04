------------------------------ MODULE Grammar -------------------------------
(* How a program is written: the tokens of a syntax tree, with parentheses   *)
(* only where the precedence of the operators or the grammar needs them.     *)
(* Reading is the inverse of writing; nothing here looks at how the parser   *)
(* goes about it.                                                            *)
EXTENDS Ast, Tokens, SequencesExt

Word(t) == <<Token(t, t, 1)>>
Lexeme(kind, text) == <<Token(kind, text, 1)>>
Named(name) == Lexeme("IDENT", name)
Field(name) == IF name \in Keywords THEN Word(name) ELSE Named(name)
Words(ts) == [i \in DOMAIN ts |-> Word(ts[i])[1]] \o <<>>
Comma(parts) == \* parts separated by commas
  FlattenSeq([i \in DOMAIN parts |-> IF i = 1 THEN parts[1] ELSE Word(",") \o parts[i]] \o <<>>)
Parens(ts) == Word("(") \o ts \o Word(")")
Braces(ts) == Word("{") \o ts \o Word("}")
Brackets(ts) == Word("[") \o ts \o Word("]")

\* The operators by how tightly they bind, the loosest first.
Tightness ==
  <<{"??"}, {"||"}, {"&&"}, {"|"}, {"^"}, {"&"}, {"==", "!=", "is"}, {"<", ">", "<=", ">="}, {"<<", ">>"}, {"+", "-"},
    {"*", "/", "%"}>>
Binary(op) == 3 + CHOOSE i \in DOMAIN Tightness : op \in Tightness[i]
Assignment == 0
Piped == 1
Conditional == 2
Prefix == 4 + Len(Tightness)
Suffix == Prefix + 1
Simple == Suffix + 1

\* How tightly an expression holds together.
Binding(x) ==
  CASE x.e \in {"assign", "indexassign", "dotassign", "async", "yield"} -> Assignment
    [] x.e \in {"pipe", "pipetry"} -> Piped
    [] x.e = "ternary" -> Conditional
    [] x.e = "binary" -> Binary(x.op)
    [] x.e \in {"unary", "await"} -> Prefix
    [] x.e = "postfix" -> Suffix
    [] OTHER -> Simple

RECURSIVE Written(_), StmtWritten(_), LambdaWritten(_)

\* An expression where only one that binds at least as tightly may stand.
Within(x, tightness) == IF Binding(x) < tightness THEN Parens(Written(x)) ELSE Written(x)
Whole(x) == Within(x, Assignment)
List1(xs) == Comma([i \in DOMAIN xs |-> Whole(xs[i])] \o <<>>)
Body(stmts) == Braces(FlattenSeq([i \in DOMAIN stmts |-> StmtWritten(stmts[i]) \o Word(";")] \o <<>>))
IfGiven(x, ts) == IF Given(x) THEN ts ELSE <<>>

ParamWritten(params, defaults, rest) ==
  Comma(([i \in DOMAIN params |-> Named(params[i]) \o IfGiven(defaults[i], Word("=") \o Whole(defaults[i]))] \o <<>>)
        \o IF rest = "" THEN <<>> ELSE <<Word("...") \o Named(rest)>>)

Key(x) == \* of a map: a name or a computed key
  IF x.e = "literal" /\ Is("str", x.v) THEN Lexeme("STRING", x.v.str) ELSE Brackets(Whole(x))

ArmWritten(arm) ==
  CASE arm.arm = "pattern" -> Whole(arm.x)
    [] arm.arm = "is" -> Word("is") \o Whole(arm.x)
    [] arm.arm = "when" -> Named("when") \o Whole(arm.x)
    [] arm.arm = "default" -> Named("_")

LitWritten(v) ==
  CASE Is("nil", v) -> Word("nil")
    [] Is("bool", v) -> Word(IF v.bool THEN "true" ELSE "false")
    [] Is("int", v) -> Lexeme("NUMBER", ToString(v.int))
    [] Is("str", v) -> Lexeme("STRING", v.str)

\* `? [` would read as an optional index.
ThenPart(x) == LET ts == Whole(x) IN IF Head(ts).t = "[" THEN Parens(ts) ELSE ts

Written(x) ==
  CASE x.e = "literal" -> LitWritten(x.v)
    [] x.e = "ident" -> Named(x.name)
    [] x.e = "this" -> Word("this")
    [] x.e = "super" -> Words(<<"super", ".">>) \o Named(x.method)
    [] x.e = "assign" -> Named(x.name) \o Word("=") \o Whole(x.value)
    [] x.e = "indexassign" -> Within(x.object, Simple) \o Brackets(Whole(x.index)) \o Word("=") \o Whole(x.value)
    [] x.e = "dotassign" -> Within(x.object, Simple) \o Word(".") \o Field(x.field) \o Word("=") \o Whole(x.value)
    [] x.e = "async" -> Word("async") \o Whole(x.value)
    [] x.e = "yield" -> Word("yield") \o IfGiven(x.value, Whole(x.value))
    [] x.e = "await" -> Word("await") \o Within(x.value, Prefix)
    [] x.e = "pipe" -> Within(x.left, Piped) \o Word("|>") \o Within(x.right, Piped + 1)
    [] x.e = "pipetry" -> Within(x.left, Piped) \o Word("|?>") \o Within(x.right, Piped + 1)
    [] x.e = "ternary" -> Within(x.cond, Conditional + 1) \o Word("?") \o ThenPart(x.left) \o Word(":") \o Within(x.right, Conditional)
    [] x.e = "binary" -> Within(x.left, Binary(x.op)) \o Word(x.op) \o Within(x.right, Binary(x.op) + 1)
    [] x.e = "unary" -> Word(x.op) \o Within(x.operand, Prefix)
    [] x.e = "postfix" -> (IF "name" \in DOMAIN x THEN Named(x.name) ELSE Within(x.operand, Simple)) \o Word(x.op)
    [] x.e = "call" -> Within(x.callee, Simple) \o Parens(Comma([i \in DOMAIN x.args |->
                         (IF x.names[i] = "" THEN <<>> ELSE Named(x.names[i]) \o Word(":")) \o Whole(x.args[i])] \o <<>>))
    [] x.e = "index" -> Within(x.object, Simple) \o (IF x.opt THEN Word("?") ELSE <<>>) \o Brackets(Whole(x.index))
    [] x.e = "dot" -> Within(x.object, Simple) \o Word(IF x.opt THEN "?." ELSE ".") \o Field(x.field)
    [] x.e = "spread" -> Word("...") \o Whole(x.value)
    [] x.e = "array" -> Brackets(List1(x.elems))
    [] x.e = "set" -> Word("#{") \o List1(x.elems) \o Word("}")
    [] x.e = "map" -> Braces(Comma([i \in DOMAIN x.keys |->
                        IfGiven(x.keys[i], Key(x.keys[i]) \o Word(":")) \o Whole(x.values[i])] \o <<>>))
    [] x.e = "interp" -> FlattenSeq([i \in DOMAIN x.parts |->
                           IF i % 2 = 0 THEN Whole(x.parts[i])
                           ELSE Lexeme(IF i = 1 THEN "START" ELSE IF i = Len(x.parts) THEN "END" ELSE "MID", x.parts[i].v.str)] \o <<>>)
    [] x.e = "match" -> Word("match") \o Parens(Whole(x.subject)) \o Braces(FlattenSeq(
                          [i \in DOMAIN x.cases |-> ArmWritten(x.cases[i]) \o Body(x.cases[i].body)] \o <<>>))
    [] x.e = "lambda" -> Words(<<"lam", "{">>) \o LambdaWritten(x) \o Word("}")

\* A statement that starts with match is a statement of its own, with no
\* default needed, so that a match used as a value there is put in parentheses.
ExprWritten(x) == LET ts == Whole(x) IN IF Head(ts).t = "match" /\ x.e # "match" THEN Parens(ts) ELSE ts

\* A lambda of `it` may leave its parameter out, unless an `in` of its body, as
\* the name of a field, would be taken for the end of the parameters; a body
\* that is one return may be written as its value.
LambdaWritten(x) ==
  LET body == IF Len(x.body) = 1 /\ x.body[1].s = "return" /\ Given(x.body[1].x) THEN ExprWritten(x.body[1].x)
              ELSE Tail(Front(Body(x.body)))
      implicit == x.params = <<"it">> /\ ~Given(x.defaults[1]) /\ x.rest = "" /\ \A i \in DOMAIN body : body[i].t # "in"
  IN (IF implicit THEN <<>> ELSE ParamWritten(x.params, x.defaults, x.rest) \o Word("in")) \o body

FunctionWritten(f) == Named(f.name) \o Parens(ParamWritten(f.params, f.defaults, f.rest)) \o Body(f.body)

ClassWritten(s) ==
  LET MethodWritten(m) ==
        FlattenSeq([i \in DOMAIN m.decorators |-> Word("@") \o Within(m.decorators[i], Simple)] \o <<>>)
        \o (IF m.static THEN Word("static") ELSE <<>>) \o Word("func") \o FunctionWritten(m)
  IN Word("class") \o Named(s.name) \o (IF s.super = "" THEN <<>> ELSE Word("extends") \o Named(s.super))
     \o Braces(FlattenSeq([i \in DOMAIN s.methods |-> MethodWritten(s.methods[i])] \o <<>>))

PatternWritten(s) ==
  LET Part(x) == IF x.rest THEN Word("...") \o Named(x.name)
                 ELSE IF s.array THEN Named(x.name)
                 ELSE Named(x.key) \o (IF x.key = x.name THEN <<>> ELSE Word(":") \o Named(x.name))
      parts == Comma([i \in DOMAIN s.pattern |-> Part(s.pattern[i])] \o <<>>)
  IN Word("let") \o (IF s.array THEN Brackets(parts) ELSE Braces(parts)) \o Word("=") \o Whole(s.x)

StmtWritten(s) ==
  CASE s.s = "expr" -> ExprWritten(s.x)
    [] s.s = "let" -> Word("let") \o Named(s.name) \o IfGiven(s.x, Word("=") \o Whole(s.x))
    [] s.s = "pattern" -> PatternWritten(s)
    [] s.s = "block" -> Body(s.body)
    [] s.s = "if" -> FlattenSeq([i \in DOMAIN s.branches |->
                       Word(IF i = 1 THEN "if" ELSE "elif") \o Parens(Whole(s.branches[i].cond)) \o StmtWritten(s.branches[i].body)] \o <<>>)
                     \o (IF s.orelse = NoStmt THEN <<>> ELSE Word("else") \o StmtWritten(s.orelse))
    [] s.s = "while" -> Word("while") \o Parens(Whole(s.cond)) \o StmtWritten(s.body)
    [] s.s = "for" -> Word("for") \o Parens(Named(s.name) \o Word("in") \o Whole(s.from) \o Word("..") \o Whole(s.to)) \o StmtWritten(s.body)
    [] s.s = "forin" -> Word("for") \o Parens((IF s.keys = <<>> THEN Named(s.name)
                                               ELSE Braces(Comma([i \in DOMAIN s.keys |-> Named(s.keys[i])] \o <<>>)))
                                              \o Word("in") \o Whole(s.x)) \o StmtWritten(s.body)
    [] s.s = "func" -> Word("func") \o FunctionWritten(s)
    [] s.s = "return" -> Word("return") \o IfGiven(s.x, Whole(s.x))
    [] s.s \in {"break", "continue"} -> Word(s.s)
    [] s.s = "class" -> ClassWritten(s)
    [] s.s = "enum" -> Word("enum") \o Named(s.name) \o Braces(Comma([i \in DOMAIN s.members |->
                         Field(s.members[i]) \o IfGiven(s.values[i], Word("=") \o Whole(s.values[i]))] \o <<>>))
    [] s.s = "throw" -> Word("throw") \o Whole(s.x)
    [] s.s = "try" -> Word("try") \o StmtWritten(s.body) \o Word("catch") \o Parens(Named(s.name)) \o StmtWritten(s.handler)
                      \o (IF s.finally = NoStmt THEN <<>> ELSE Word("finally") \o StmtWritten(s.finally))
    [] s.s = "ensure" -> Word("ensure") \o (IF s.name = "" THEN Parens(Whole(s.cond))
                                            ELSE Word("let") \o Named(s.name) \o Word("=") \o Whole(s.cond))
                         \o Word("else") \o StmtWritten(s.orelse)
    [] s.s = "defer" -> Word("defer") \o Whole(s.x)
    [] s.s = "use" -> Word("use") \o Lexeme("STRING", s.path) \o Named("as") \o Named(s.alias)
    [] s.s = "export" -> Word("export") \o Braces(Comma([i \in DOMAIN s.names |-> Named(s.names[i])] \o <<>>))

EndOfFile == Lexeme("EOF", "")
ProgramWritten(stmts) ==
  FlattenSeq([i \in DOMAIN stmts |-> StmtWritten(stmts[i]) \o Word(";")] \o <<>>) \o EndOfFile
=============================================================================
