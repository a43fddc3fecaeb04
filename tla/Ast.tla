-------------------------------- MODULE Ast ---------------------------------
(* The syntax tree that the parser builds and both engines read: one         *)
(* constructor for each kind of expression (tag e) and statement (tag s).    *)
(* Positions in the source are left out.  Async, await, yield, use, export   *)
(* and generators are only parsed here: other modules model what they do.    *)
EXTENDS Values

Lit(v) == [e |-> "literal", v |-> v]
Ident(name) == [e |-> "ident", name |-> name]
AssignExpr(name, x) == [e |-> "assign", name |-> name, value |-> x]
UnaryExpr(op, x) == [e |-> "unary", op |-> op, operand |-> x]
AsyncExpr(x) == [e |-> "async", value |-> x]
AwaitExpr(x) == [e |-> "await", value |-> x]
YieldExpr(x) == [e |-> "yield", value |-> x]
PostfixExpr(op, name) == [e |-> "postfix", op |-> op, name |-> name]
PostfixOf(op, x) == IF x.e = "ident" THEN PostfixExpr(op, x.name) ELSE [e |-> "postfix", op |-> op, operand |-> x]
BinaryExpr(op, a, b) == [e |-> "binary", op |-> op, left |-> a, right |-> b]
NamedCallExpr(f, args, names) == [e |-> "call", callee |-> f, args |-> args, names |-> names]
CallExpr(f, args) == NamedCallExpr(f, args, [i \in DOMAIN args |-> ""])
TernaryExpr(c, a, b) == [e |-> "ternary", cond |-> c, left |-> a, right |-> b]
MatchExpr(x, cases) == [e |-> "match", subject |-> x, cases |-> cases]
PipeExpr(a, b) == [e |-> "pipe", left |-> a, right |-> b]
PipeTryExpr(a, b) == [e |-> "pipetry", left |-> a, right |-> b]
LambdaExpr(params, defaults, rest, body) ==
  [e |-> "lambda", params |-> params, defaults |-> defaults, rest |-> rest, body |-> body]
ArrayExpr(elems) == [e |-> "array", elems |-> elems]
SetExpr(elems) == [e |-> "set", elems |-> elems]
MapExpr(keys, values) == [e |-> "map", keys |-> keys, values |-> values]
IndexExpr(x, i, opt) == [e |-> "index", object |-> x, index |-> i, opt |-> opt]
IndexAssignExpr(x, i, v) == [e |-> "indexassign", object |-> x, index |-> i, value |-> v]
DotExpr(x, field, opt) == [e |-> "dot", object |-> x, field |-> field, opt |-> opt]
DotAssignExpr(x, field, v) == [e |-> "dotassign", object |-> x, field |-> field, value |-> v]
InterpExpr(parts) == [e |-> "interp", parts |-> parts]
ThisExpr == [e |-> "this"]
SuperExpr(method) == [e |-> "super", method |-> method]
SpreadExpr(x) == [e |-> "spread", value |-> x]
NoExpr == [e |-> "none"]              \* an expression that is left out
Given(x) == x.e # "none"

\* An arm of a match: by value or tagged pattern, by type, by guard, or the default.
Arm(kind, x, body) == [arm |-> kind, x |-> x, body |-> body]
ByPattern(x, body) == Arm("pattern", x, body)
ByType(x, body) == Arm("is", x, body)
When(x, body) == Arm("when", x, body)
Default(body) == Arm("default", NoExpr, body)

-----------------------------------------------------------------------------

ExprStmt(x) == [s |-> "expr", x |-> x]
LetStmt(name, x) == [s |-> "let", name |-> name, x |-> x]
\* An entry of a destructuring pattern: the key it takes, or the rest.
Entry(key, name, rest) == [key |-> key, name |-> name, rest |-> rest]
PatternStmt(isArray, pattern, x) == [s |-> "pattern", array |-> isArray, pattern |-> pattern, x |-> x]
BlockStmt(stmts) == [s |-> "block", body |-> stmts]
IfStmt(branches, orelse) == [s |-> "if", branches |-> branches, orelse |-> orelse]
Branch(c, body) == [cond |-> c, body |-> body]
WhileStmt(c, body) == [s |-> "while", cond |-> c, body |-> body]
ForStmt(name, from, to, body) == [s |-> "for", name |-> name, from |-> from, to |-> to, body |-> body]
ForInStmt(name, keys, x, body) == [s |-> "forin", name |-> name, keys |-> keys, x |-> x, body |-> body]
FuncStmt(name, params, defaults, rest, body) ==
  [s |-> "func", name |-> name, params |-> params, defaults |-> defaults, rest |-> rest, body |-> body]
ReturnStmt(x) == [s |-> "return", x |-> x]
BreakStmt == [s |-> "break"]
ContinueStmt == [s |-> "continue"]
ClassStmt(name, super, methods) == [s |-> "class", name |-> name, super |-> super, methods |-> methods]
Method(name, params, defaults, body, static, decorators) ==
  [name |-> name, params |-> params, defaults |-> defaults, rest |-> "", body |-> body,
   static |-> static, decorators |-> decorators]
EnumStmt(name, members, values) == [s |-> "enum", name |-> name, members |-> members, values |-> values]
ThrowStmt(x) == [s |-> "throw", x |-> x]
TryStmt(body, name, handler, finally) ==
  [s |-> "try", body |-> body, name |-> name, handler |-> handler, finally |-> finally]
EnsureStmt(name, c, orelse) == [s |-> "ensure", name |-> name, cond |-> c, orelse |-> orelse]
DeferStmt(x) == [s |-> "defer", x |-> x]
UseStmt(path, alias) == [s |-> "use", path |-> path, alias |-> alias]
ExportStmt(names) == [s |-> "export", names |-> names]
NoStmt == [s |-> "nothing"]        \* a statement that is left out

\* A function whose body yields.
GeneratorIf(b, f) == IF b THEN f @@ [generator |-> TRUE] ELSE f

\* The paths of grains that have more than one segment.
PathSegments == "lib/a" :> <<"lib", "a">>

\* A name that starts with a capital: a class, or the tag of a tagged value.
Capitalised == {"Ok", "Err", "A", "B", "P", "Pair"}
=============================================================================
