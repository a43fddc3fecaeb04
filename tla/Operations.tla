----------------------------- MODULE Operations -----------------------------
(* What an operator, an index, a property or one of the natives behind a     *)
(* loop makes of its operands: the part of the language that both engines    *)
(* have in common.  h is the heap; a result is a value with the heap it left *)
(* or Fail.                                                                   *)
EXTENDS Strings

-----------------------------------------------------------------------------
(* Arithmetic, comparison, tests. *)

Remainder(a, b) ==      \* C++ truncates towards zero
  LET n == IF b < 0 THEN -b ELSE b IN IF a < 0 THEN -((-a) % n) ELSE a % n

IntResult(h, n) == IF Fits(n) THEN [h |-> h, v |-> Num(n)] ELSE Fail("overflow")

Plus(h, a, b) ==
  CASE Is("int", a) /\ Is("int", b) -> IntResult(h, a.int + b.int)
    [] IsKind(h, a, "array") /\ IsKind(h, b, "array") -> Alloc(h, ArrayObj(h[a.ref].elems \o h[b.ref].elems))
    [] IsKind(h, a, "map") /\ IsKind(h, b, "map") -> Alloc(h, MapObj(h[b.ref].entries @@ h[a.ref].entries))
    [] IsKind(h, a, "set") /\ IsKind(h, b, "set") -> Alloc(h, SetObj(h[a.ref].elems \cup h[b.ref].elems))
    [] Is("str", a) \/ Is("str", b) -> [h |-> h, v |-> Str(Text(h, a) \o Text(h, b))]
    [] OTHER -> Fail("operands")

Times(h, a, b) ==
  CASE Is("int", a) /\ Is("int", b) -> IntResult(h, a.int * b.int)
    [] Is("str", a) /\ Is("int", b) ->
         IF b.int < 0 THEN Fail("repeat") ELSE [h |-> h, v |-> Str(Repeat(a.str, b.int))]
    [] Is("int", a) /\ Is("str", b) ->
         IF a.int < 0 THEN Fail("repeat") ELSE [h |-> h, v |-> Str(Repeat(b.str, a.int))]
    [] OTHER -> Fail("operands")

Arithmetic(h, op, a, b) ==
  IF op = "ADD" THEN Plus(h, a, b)
  ELSE IF op = "MULTIPLY" THEN Times(h, a, b)
  ELSE IF ~(Is("int", a) /\ Is("int", b)) THEN Fail("operands")
  ELSE IF op = "SUBTRACT" THEN IntResult(h, a.int - b.int)
  ELSE IF b.int = 0 THEN Fail("zero")
  ELSE [h |-> h, v |-> IF op = "DIVIDE" THEN Dbl(a.int, b.int) ELSE Num(Remainder(a.int, b.int))]

LessThan(a, b) == IF Is("str", a) THEN Precedes(a.str, b.str) ELSE a.int < b.int

Compare(h, op, a, b) ==
  IF op \in {"EQUAL", "NOT_EQUAL"}
  THEN [h |-> h, v |-> Bool(ValuesEqual(h, a, b) <=> op = "EQUAL")]
  ELSE IF ~(Is("int", a) /\ Is("int", b)) /\ ~(Is("str", a) /\ Is("str", b)) THEN Fail("operands")
  ELSE [h |-> h, v |-> Bool(CASE op = "LESS" -> LessThan(a, b)
                              [] op = "GREATER" -> LessThan(b, a)
                              [] op = "LESS_EQUAL" -> ~LessThan(b, a)
                              [] op = "GREATER_EQUAL" -> ~LessThan(a, b))]

\* OP_IS: a type name, or a class of the instance's chain.
IsResult(h, left, right) ==
  CASE Is("str", right) /\ right.str \in TypeNames -> [h |-> h, v |-> Bool(TypeName(h, left) = right.str)]
    [] Is("str", right) -> Fail("typename")
    [] IsKind(h, right, "class") -> [h |-> h, v |-> Bool(InstanceOf(h, left, right.ref))]
    [] OTHER -> Fail("is")

\* The smallest integer has no opposite and becomes a double.
Negative(h, v) ==
  IF ~Is("int", v) THEN Fail("operands")
  ELSE [h |-> h, v |-> IF Fits(-v.int) THEN Num(-v.int) ELSE Dbl(-v.int, 1)]

-----------------------------------------------------------------------------
(* Containers. *)

Pairs(args) ==
  FoldLeft(LAMBDA m, i : (args[2 * i - 1] :> args[2 * i]) @@ m, NoEntries, [i \in 1 .. (Len(args) \div 2) |-> i])

\* What a value, or a spread of it, adds to a set.
Added(h, spread, v) ==
  CASE ~spread -> IF Hashable(v) THEN [set |-> {v}] ELSE Fail("key")
    [] spread /\ IsKind(h, v, "set") -> [set |-> h[v.ref].elems]
    [] spread /\ IsKind(h, v, "array") ->
         IF \A i \in DOMAIN h[v.ref].elems : Hashable(h[v.ref].elems[i])
         THEN [set |-> ToSet(h[v.ref].elems)] ELSE Fail("key")
    [] OTHER -> Fail("spread")

\* An element; Nil when it is absent from a map or, with ?[, out of bounds.
Element(h, obj, idx, opt) ==
  CASE IsKind(h, obj, "array") ->
         LET elems == h[obj.ref].elems IN
         IF ~Is("int", idx) THEN Fail("index")
         ELSE IF Position(idx.int, Len(elems)) # 0 THEN [h |-> h, v |-> elems[Position(idx.int, Len(elems))]]
         ELSE IF opt THEN [h |-> h, v |-> Nil] ELSE Fail("bounds")
    [] Is("str", obj) ->
         IF ~Is("int", idx) THEN Fail("index")
         ELSE IF Position(idx.int, Len(obj.str)) # 0 THEN [h |-> h, v |-> Str(CharAt(obj.str, Position(idx.int, Len(obj.str))))]
         ELSE IF opt THEN [h |-> h, v |-> Nil] ELSE Fail("bounds")
    [] IsKind(h, obj, "map") ->
         LET m == h[obj.ref].entries IN [h |-> h, v |-> IF idx \in DOMAIN m THEN m[idx] ELSE Nil]
    [] OTHER -> Fail("index")

SetElement(h, obj, idx, v) ==
  CASE IsKind(h, obj, "array") ->
         LET p == IF Is("int", idx) THEN Position(idx.int, Len(h[obj.ref].elems)) ELSE 0 IN
         IF ~Is("int", idx) THEN Fail("index")
         ELSE IF p = 0 THEN Fail("bounds") ELSE [h |-> [h EXCEPT ![obj.ref].elems[p] = v], v |-> v]
    [] IsKind(h, obj, "map") ->
         IF Hashable(idx) THEN [h |-> [h EXCEPT ![obj.ref].entries = (idx :> v) @@ @], v |-> v] ELSE Fail("key")
    [] OTHER -> Fail("index")

-----------------------------------------------------------------------------
(* Loops and destructuring. *)

EntryObj(k, v) == MapObj(Str("key") :> k @@ Str("value") :> v)

\* What a for-in loop walks: a copy of an array, the entries of a map, the elements of a set,
\* the characters of a string.
IterEntries(h, v) ==
  CASE IsKind(h, v, "array") -> Alloc(h, h[v.ref])
    [] IsKind(h, v, "set") -> Alloc(h, ArrayObj(SetToSeq(h[v.ref].elems)))
    [] IsKind(h, v, "map") ->
         LET keys == SetToSeq(DOMAIN h[v.ref].entries)
             entries == [i \in DOMAIN keys |-> EntryObj(keys[i], h[v.ref].entries[keys[i]])]
         IN Alloc(h \o entries, ArrayObj([i \in DOMAIN keys |-> Ref(Len(h) + i)]))
    [] Is("str", v) -> Alloc(h, ArrayObj([i \in 1 .. Len(v.str) |-> Str(CharAt(v.str, i))] \o <<>>))
    [] OTHER -> [h |-> h, v |-> Nil]

IterNext(h, iter, i) ==
  LET more == IsKind(h, iter, "array") /\ i < Len(h[iter.ref].elems)
  IN Alloc(h, MapObj(Str("value") :> (IF more THEN h[iter.ref].elems[i + 1] ELSE Nil)
                     @@ Str("done") :> Bool(~more)))

ArraySlice(h, v, from) ==
  IF IsKind(h, v, "array") /\ Is("int", from)
  THEN Alloc(h, ArrayObj(SubSeq(h[v.ref].elems, from.int + 1, Len(h[v.ref].elems))))
  ELSE [h |-> h, v |-> Nil]

MapRest(h, v, names) ==
  IF IsKind(h, v, "map") /\ IsKind(h, names, "array")
  THEN LET m == h[v.ref].entries
       IN Alloc(h, MapObj([k \in DOMAIN m \ ToSet(h[names.ref].elems) |-> m[k]]))
  ELSE [h |-> h, v |-> Nil]

-----------------------------------------------------------------------------
(* Operator methods and named arguments. *)

OperatorNames == {"__add", "__sub", "__mul", "__div", "__mod", "__neg", "__eq", "__lt", "__gt", "__le",
                  "__ge", "__index", "__indexSet", "__str"}

\* The parameter each argument goes to; "" names a positional argument.
RECURSIVE Bound(_, _, _)
Bound(names, params, slots) ==
  LET i == Len(slots) + 1
      taken == ToSet(slots)
      free == {p \in 1 .. Len(params) : p \notin taken}
      target == IF names[i] = "" THEN free ELSE {p \in DOMAIN params : params[p] = names[i]}
  IN IF i > Len(names) THEN [slots |-> slots]
     ELSE IF target = {} THEN Fail(IF names[i] = "" THEN "arity" ELSE "parameter")
     ELSE LET p == CHOOSE x \in target : \A y \in target : x <= y
          IN IF p \in taken THEN Fail("twice") ELSE Bound(names, params, Append(slots, p))
=============================================================================
