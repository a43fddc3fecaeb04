----------------------------- MODULE WellFormed -----------------------------
(* What holds of the syntax tree of any program the parser accepts, said of  *)
(* the tree alone: where break, return and yield may stand, which functions  *)
(* are generators, which blocks cannot be left through their end.            *)
EXTENDS Ast, SequencesExt

Bodies(parts) == FlattenSeq([i \in DOMAIN parts |-> parts[i].body] \o <<>>)
FieldOf(parts, f) == [i \in DOMAIN parts |-> parts[i][f]] \o <<>>

\* The parts of an expression or statement that run where it runs.
Inner(x) ==
  IF "e" \in DOMAIN x THEN
    CASE x.e \in {"assign", "async", "await", "yield", "spread"} -> <<x.value>>
      [] x.e = "indexassign" -> <<x.object, x.index, x.value>>
      [] x.e = "dotassign" -> <<x.object, x.value>>
      [] x.e \in {"pipe", "pipetry", "binary"} -> <<x.left, x.right>>
      [] x.e = "ternary" -> <<x.cond, x.left, x.right>>
      [] x.e = "unary" \/ (x.e = "postfix" /\ "operand" \in DOMAIN x) -> <<x.operand>>
      [] x.e = "call" -> <<x.callee>> \o x.args
      [] x.e = "index" -> <<x.object, x.index>>
      [] x.e = "dot" -> <<x.object>>
      [] x.e \in {"array", "set"} -> x.elems
      [] x.e = "map" -> x.keys \o x.values
      [] x.e = "interp" -> x.parts
      [] x.e = "match" -> <<x.subject>> \o FieldOf(x.cases, "x") \o Bodies(x.cases)
      [] x.e = "lambda" -> x.defaults
      [] OTHER -> <<>>
  ELSE
    CASE x.s \in {"expr", "let", "pattern", "throw", "return", "defer"} -> <<x.x>>
      [] x.s = "block" -> x.body
      [] x.s = "if" -> FieldOf(x.branches, "cond") \o FieldOf(x.branches, "body") \o <<x.orelse>>
      [] x.s = "while" -> <<x.cond>>
      [] x.s = "for" -> <<x.from, x.to>>
      [] x.s = "forin" -> <<x.x>>
      [] x.s = "func" -> x.defaults
      [] x.s = "class" -> FlattenSeq(FieldOf(x.methods, "decorators")) \o FlattenSeq(FieldOf(x.methods, "defaults"))
      [] x.s = "enum" -> x.values
      [] x.s = "try" -> <<x.body, x.handler, x.finally>>
      [] x.s = "ensure" -> <<x.cond, x.orelse>>
      [] OTHER -> <<>>

LoopBody(x) == IF "s" \in DOMAIN x /\ x.s \in {"while", "for", "forin"} THEN <<x.body>> ELSE <<>>

\* The functions that x declares itself.
Functions1(x) ==
  IF "e" \in DOMAIN x THEN (IF x.e = "lambda" THEN <<x>> ELSE <<>>)
  ELSE CASE x.s = "func" -> <<x>> [] x.s = "class" -> x.methods [] OTHER -> <<>>

Every(xs, P(_)) == \A i \in DOMAIN xs : P(xs[i])
Some(xs, P(_)) == \E i \in DOMAIN xs : P(xs[i])
IsExpr(x, e) == "e" \in DOMAIN x /\ x.e = e

RECURSIVE Yields(_)
Yields(x) == IsExpr(x, "yield") \/ Some(Inner(x) \o LoopBody(x), Yields)

\* Whether control may reach the end of a statement.
RECURSIVE Finishes(_)
Finishes(s) ==
  CASE s.s \in {"return", "throw", "break", "continue"} -> FALSE
    [] s.s = "block" -> Every(s.body, Finishes)
    [] s.s = "if" -> s.orelse = NoStmt \/ Some(FieldOf(s.branches, "body") \o <<s.orelse>>, Finishes)
    [] OTHER -> TRUE

Params(f) == \A i, j \in DOMAIN f.defaults : i < j /\ Given(f.defaults[i]) => Given(f.defaults[j])
Arguments(x) ==
  \A i, j \in DOMAIN x.names : i < j /\ x.names[i] # "" => x.names[j] \notin {"", x.names[i]}
DefaultLast(x) == \A i \in DOMAIN x.cases : x.cases[i].arm = "default" => i = Len(x.cases)
HasDefault(x) == x.cases # <<>> /\ Last(x.cases).arm = "default"

\* A match without a default is a statement of its own, or all a lambda does.
ValueOf(x) == IF "s" \in DOMAIN x /\ x.s \in {"expr", "return"} THEN <<>> ELSE Inner(x)

Allowed(x, inLoop, inFunction) ==
  /\ "s" \in DOMAIN x =>
       /\ x.s \in {"break", "continue"} => inLoop
       /\ x.s = "return" => inFunction
       /\ x.s = "ensure" => ~Finishes(x.orelse)
  /\ IsExpr(x, "yield") => inFunction
  /\ IsExpr(x, "call") => Arguments(x)
  /\ IsExpr(x, "match") => DefaultLast(x)
  /\ Every(ValueOf(x), LAMBDA y : IsExpr(y, "match") => HasDefault(y))
  /\ Every(Functions1(x), LAMBDA f : Params(f) /\ (("generator" \in DOMAIN f) <=> Some(f.body, Yields)))

\* A loop holds what is inside a function inside it, as for the parser.
RECURSIVE Legal(_, _, _)
Legal(x, inLoop, inFunction) ==
  /\ Allowed(x, inLoop, inFunction)
  /\ Every(Inner(x), LAMBDA y : Legal(y, inLoop, inFunction))
  /\ Every(LoopBody(x), LAMBDA y : Legal(y, TRUE, inFunction))
  /\ Every(Bodies(Functions1(x)), LAMBDA y : Legal(y, inLoop, TRUE))

LegalProgram(stmts) == Every(stmts, LAMBDA s : Legal(s, FALSE, FALSE))
=============================================================================
