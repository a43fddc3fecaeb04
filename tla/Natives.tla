------------------------------ MODULE Natives -------------------------------
(* The built-in functions and the methods of built-in values.  Those that    *)
(* call back into the program are resumable: an outcome is a value, a        *)
(* failure, or a call to make (ask) with the native's own state w, and       *)
(* Continue goes on with the result of that call.  Each engine makes the     *)
(* call its own way.  say is what an outcome has printed.  A callback that   *)
(* changes the length of the array that is being walked is undefined and not *)
(* modelled.                                                                  *)
EXTENDS Operations

\* A method of a built-in value, a native that holds its receiver.
BoundNative(name, recv) == [member |-> [name |-> name, of |-> recv]]
NativeName(f) == IF Is("native", f) THEN f.native ELSE f.member.name

GlobalArity ==
  [print |-> -1, len |-> 1, assert |-> -1, push |-> 2, pop |-> 1, type |-> 1, str |-> 1, num |-> 1, int |-> 1,
   sort |-> -1, filter |-> 2, map |-> 2, each |-> 2, reduce |-> -1, any |-> 2, all |-> 2, flatMap |-> 2,
   unique |-> 1, zip |-> 2, enumerate |-> 1, groupBy |-> 2, findIndex |-> 2, flatten |-> 1, keys |-> 1, values |-> 1]

\* The natives that only compiled code calls.
HelperArity ==
  [__rangeBound |-> 1, __iterEntries |-> 1, __iterNext |-> 2, __arraySlice |-> 2, __mapRest |-> 2]

ArrayArity ==
  [push |-> 1, pop |-> 0, contains |-> 1, join |-> 1, reverseInPlace |-> 0, reversed |-> 0, shift |-> 0, unshift |-> 1,
   slice |-> -1, indexOf |-> 1, lastIndexOf |-> 1, find |-> 1, sorted |-> -1, sortInPlace |-> -1]
MapArity == [has |-> 1, get |-> -1, delete |-> 1, merge |-> 1, mergeInPlace |-> 1, entries |-> 0, clear |-> 0]
SetArity ==
  [add |-> 1, remove |-> 1, has |-> 1, size |-> 0, clear |-> 0, toArray |-> 0, clone |-> 0, union |-> 1,
   intersection |-> 1, difference |-> 1, unionInPlace |-> 1, intersectionInPlace |-> 1, differenceInPlace |-> 1,
   isSubset |-> 1]
UniversalArity == [toString |-> 0, toNum |-> 0]

\* The old names of two methods: one changes the array, the other does not.
Deprecated == [reverse |-> "reverseInPlace", sort |-> "sorted"]

MembersOf(h, v) ==
  CASE IsKind(h, v, "array") -> ArrayArity
    [] IsKind(h, v, "map") -> MapArity
    [] IsKind(h, v, "set") -> SetArity
    [] Is("str", v) -> StringArity
    [] OTHER -> NoEntries

NativeArity(h, f) ==
  IF Is("native", f) THEN (GlobalArity @@ HelperArity)[f.native] ELSE (MembersOf(h, f.member.of) @@ UniversalArity)[f.member.name]

\* The natives whose parameters have names.
NativeParams(f) ==
  IF ~Is("member", f) THEN <<>>
  ELSE CASE Is("str", f.member.of) ->
              IF f.member.name \in DOMAIN StringParams THEN StringParams[f.member.name] ELSE <<>>
         [] f.member.name = "slice" -> <<"start", "end">>
         [] f.member.name \in {"sorted", "sortInPlace"} -> <<"comparator">>
         [] OTHER -> <<>>

-----------------------------------------------------------------------------
(* Properties of values that are not instances; Fail("property") where there *)
(* is none, Fail("method") where ?. does not help.                            *)

Universal(h, obj, name) ==
  IF name \in DOMAIN UniversalArity THEN [h |-> h, v |-> BoundNative(name, obj)] ELSE Fail("property")

OtherProperty(h, obj, name) ==
  LET method == IF IsKind(h, obj, "array") /\ name \in DOMAIN Deprecated THEN Deprecated[name] ELSE name
      bound == [h |-> h, v |-> BoundNative(method, obj)]
      entries == IF IsKind(h, obj, "map") THEN h[obj.ref].entries ELSE NoEntries
  IN CASE IsKind(h, obj, "tagged") ->
            IF name = "tag" THEN [h |-> h, v |-> Str(h[obj.ref].tag)]
            ELSE IF name = "values" THEN Alloc(h, ArrayObj(h[obj.ref].elems)) ELSE Fail("method")
       [] Str(name) \in DOMAIN entries -> [h |-> h, v |-> entries[Str(name)]]
       [] method \in DOMAIN MembersOf(h, obj) \cup DOMAIN UniversalArity -> bound
       [] IsKind(h, obj, "map") -> [h |-> h, v |-> Nil]
       [] IsKind(h, obj, "array") \/ IsKind(h, obj, "set") \/ Is("str", obj) -> Fail("method")
       [] IsKind(h, obj, "class") /\ Owner(h, obj.ref, "statics", name) # 0 ->
            [h |-> h, v |-> h[Owner(h, obj.ref, "statics", name)].statics[name]]
       [] OTHER -> Fail("property")

-----------------------------------------------------------------------------
(* Conversions and tests.  The text of a number is that of an integer.       *)

Parsed(s) == {n \in (-MaxInt - 1) .. MaxInt : ToString(n) = s}
Parse(h, s) == IF Parsed(s) = {} THEN Fail("number") ELSE [h |-> h, v |-> Dbl(CHOOSE n \in Parsed(s) : TRUE, 1)]

NumOf(h, v) ==
  CASE Is("int", v) \/ Is("dbl", v) -> [h |-> h, v |-> v]
    [] Is("str", v) -> Parse(h, v.str)
    [] OTHER -> Fail("number")

\* Truncation towards zero.
Truncated(a, b) ==
  LET q == (IF a < 0 THEN -a ELSE a) \div (IF b < 0 THEN -b ELSE b) IN IF (a < 0) = (b < 0) THEN q ELSE -q

IntOf(h, v) ==
  CASE Is("int", v) -> [h |-> h, v |-> v]
    [] Is("bool", v) -> [h |-> h, v |-> Num(IF v.bool THEN 1 ELSE 0)]
    [] Is("dbl", v) -> IntResult(h, Truncated(v.dbl[1], v.dbl[2]))
    [] Is("str", v) /\ Parsed(v.str) # {} -> [h |-> h, v |-> Num(CHOOSE n \in Parsed(v.str) : TRUE)]
    [] OTHER -> Fail("number")

ToNum(h, v) ==
  CASE Is("bool", v) -> [h |-> h, v |-> Dbl(IF v.bool THEN 1 ELSE 0, 1)]
    [] Is("str", v) /\ v.str \in {"true", "false"} -> [h |-> h, v |-> Dbl(IF v.str = "true" THEN 1 ELSE 0, 1)]
    [] OTHER -> NumOf(h, v)

Asserted(h, args) ==
  CASE Len(args) \notin {1, 2} -> Fail("assert")
    [] Truthy(args[1]) -> [h |-> h, v |-> Nil]
    [] OTHER -> Fail("assertion failed" \o (IF Len(args) = 2 THEN ": " \o Text(h, args[2]) ELSE ""))

\* The size of a value, where its class has no __len.
Size(h, v) ==
  CASE IsKind(h, v, "array") -> [h |-> h, v |-> Num(Len(h[v.ref].elems))]
    [] IsKind(h, v, "map") -> [h |-> h, v |-> Num(Cardinality(DOMAIN h[v.ref].entries))]
    [] IsKind(h, v, "set") -> [h |-> h, v |-> Num(Cardinality(h[v.ref].elems))]
    [] Is("str", v) -> [h |-> h, v |-> Num(Len(v.str))]
    [] OTHER -> Fail("len")

-----------------------------------------------------------------------------
(* Arrays. *)

Elems(h, v) == h[v.ref].elems
Replace(h, v, elems) == [h EXCEPT ![v.ref].elems = elems]

PushTo(h, arr, v) == [h |-> Replace(h, arr, Append(Elems(h, arr), v)), v |-> Nil]

PopFrom(h, arr) ==
  LET elems == Elems(h, arr)
  IN IF elems = <<>> THEN Fail("empty") ELSE [h |-> Replace(h, arr, Front(elems)), v |-> Last(elems)]

\* The new arrays of pairs that come with an array of them.
PairsOf(h, pairs) ==
  Alloc(h \o [i \in DOMAIN pairs |-> ArrayObj(pairs[i])], ArrayObj([i \in DOMAIN pairs |-> Ref(Len(h) + i)] \o <<>>))

Unique(h, elems) ==
  FoldLeft(LAMBDA acc, v : IF \E i \in DOMAIN acc : ValuesEqual(h, acc[i], v) THEN acc ELSE Append(acc, v), <<>>, elems)

Zipped(h, a, b) == [i \in 1 .. (IF Len(a) < Len(b) THEN Len(a) ELSE Len(b)) |-> <<a[i], b[i]>>] \o <<>>

Enumerated(elems) == [i \in DOMAIN elems |-> <<Num(i - 1), elems[i]>>] \o <<>>

\* An array in place of an element gives its elements.
Spread(h, v) == IF IsKind(h, v, "array") THEN Elems(h, v) ELSE <<v>>
Flattened(h, elems) == FoldLeft(LAMBDA acc, v : acc \o Spread(h, v), <<>>, elems)

Slice(h, arr, args) ==
  LET len == Len(Elems(h, arr)) IN
  IF args = <<>> \/ ~Is("int", args[1]) THEN Fail("slice")
  ELSE Alloc(h, ArrayObj(SubSeq(Elems(h, arr), SliceStart(args[1].int, len) + 1, SliceEnd(args, len))))

Places(h, elems, v) == {i \in DOMAIN elems : ValuesEqual(h, elems[i], v)}

\* Numbers by size, other values by their text.
Ordered(h, elems) ==
  SortSeq(elems, LAMBDA a, b : IF Is("int", a) /\ Is("int", b) THEN a.int < b.int ELSE Precedes(Text(h, a), Text(h, b)))

Joined(h, elems, sep) ==
  FoldLeft(LAMBDA acc, i : acc \o (IF i = 1 THEN "" ELSE sep) \o Text(h, elems[i]), "", [i \in DOMAIN elems |-> i])

ArrayMember(h, arr, name, args) ==
  LET elems == Elems(h, arr)
      at == Places(h, elems, args[1])
      Value(v) == [h |-> h, v |-> v]
      Changed(new) == [h |-> Replace(h, arr, new), v |-> Nil]
  IN CASE name = "push" -> PushTo(h, arr, args[1])
       [] name = "pop" -> PopFrom(h, arr)
       [] name = "contains" -> Value(Bool(at # {}))
       [] name = "join" -> IF Is("str", args[1]) THEN Value(Str(Joined(h, elems, args[1].str))) ELSE Fail("separator")
       [] name = "reverseInPlace" -> Changed(Reverse(elems))
       [] name = "reversed" -> Alloc(h, ArrayObj(Reverse(elems)))
       [] name = "shift" -> IF elems = <<>> THEN Fail("empty") ELSE [h |-> Replace(h, arr, Tail(elems)), v |-> Head(elems)]
       [] name = "unshift" -> Changed(<<args[1]>> \o elems)
       [] name = "slice" -> Slice(h, arr, args)
       [] name = "indexOf" -> Value(Num(IF at = {} THEN -1 ELSE Min(at) - 1))
       [] name = "lastIndexOf" -> Value(Num(IF at = {} THEN -1 ELSE Max(at) - 1))

-----------------------------------------------------------------------------
(* Maps and sets. *)

\* The key of a map that equals a value.
KeysLike(h, entries, v) == {k \in DOMAIN entries : ValuesEqual(h, k, v)}

MapMember(h, map, name, args) ==
  LET entries == h[map.ref].entries
      found == KeysLike(h, entries, args[1])
      keys == SetToSeq(DOMAIN entries)
      Value(v) == [h |-> h, v |-> v]
      Changed(new, v) == [h |-> [h EXCEPT ![map.ref].entries = new], v |-> v]
  IN CASE name = "has" -> Value(Bool(found # {}))
       [] name = "get" ->
            IF args = <<>> THEN Fail("get")
            ELSE Value(IF found # {} THEN entries[CHOOSE k \in found : TRUE] ELSE IF Len(args) > 1 THEN args[2] ELSE Nil)
       [] name = "delete" -> Changed([k \in DOMAIN entries \ found |-> entries[k]] @@ NoEntries, Bool(found # {}))
       [] name \in {"merge", "mergeInPlace"} /\ ~IsKind(h, args[1], "map") -> Fail("map")
       [] name = "merge" -> Alloc(h, MapObj(h[args[1].ref].entries @@ entries))
       [] name = "mergeInPlace" -> Changed(h[args[1].ref].entries @@ entries, Nil)
       [] name = "entries" -> PairsOf(h, [i \in DOMAIN keys |-> <<keys[i], entries[keys[i]]>>] \o <<>>)
       [] name = "clear" -> Changed(NoEntries, Nil)

SetMember(h, set, name, args) ==
  LET elems == h[set.ref].elems
      other == h[args[1].ref].elems
      Value(v) == [h |-> h, v |-> v]
      Changed(new, v) == [h |-> Replace(h, set, new), v |-> v]
  IN CASE name = "add" -> IF Hashable(args[1]) THEN Changed(elems \cup {args[1]}, Bool(args[1] \notin elems)) ELSE Fail("key")
       [] name = "remove" -> Changed(elems \ {args[1]}, Bool(args[1] \in elems))
       [] name = "has" -> Value(Bool(args[1] \in elems))
       [] name = "size" -> Value(Num(Cardinality(elems)))
       [] name = "clear" -> Changed({}, Nil)
       [] name = "toArray" -> Alloc(h, ArrayObj(SetToSeq(elems)))
       [] name = "clone" -> Alloc(h, SetObj(elems))
       [] ~IsKind(h, args[1], "set") -> Fail("set")
       [] name = "union" -> Alloc(h, SetObj(elems \cup other))
       [] name = "intersection" -> Alloc(h, SetObj(elems \cap other))
       [] name = "difference" -> Alloc(h, SetObj(elems \ other))
       [] name = "unionInPlace" -> Changed(elems \cup other, Nil)
       [] name = "intersectionInPlace" -> Changed(elems \cap other, Nil)
       [] name = "differenceInPlace" -> Changed(elems \ other, Nil)
       [] name = "isSubset" -> Value(Bool(elems \subseteq other))

-----------------------------------------------------------------------------
(* Natives that call nothing back. *)

MemberResult(h, recv, name, args) ==
  CASE name = "toString" -> [h |-> h, v |-> Str(Text(h, recv))]
    [] name = "toNum" -> ToNum(h, recv)
    [] IsKind(h, recv, "array") -> ArrayMember(h, recv, name, args)
    [] IsKind(h, recv, "map") -> MapMember(h, recv, name, args)
    [] IsKind(h, recv, "set") -> SetMember(h, recv, name, args)
    [] Is("str", recv) -> StringMember(h, recv.str, name, args)

OfArrays == {"push", "pop", "unique", "zip", "enumerate", "flatten"}

GlobalResult(h, name, args) ==
  CASE name = "assert" -> Asserted(h, args)
    [] name = "type" -> [h |-> h, v |-> Str(TypeName(h, args[1]))]
    [] name = "num" -> NumOf(h, args[1])
    [] name = "int" -> IntOf(h, args[1])
    [] name \in OfArrays /\ ~IsKind(h, args[1], "array") -> Fail("array")
    [] name = "push" -> PushTo(h, args[1], args[2])
    [] name = "pop" -> PopFrom(h, args[1])
    [] name = "unique" -> Alloc(h, ArrayObj(Unique(h, Elems(h, args[1]))))
    [] name = "zip" -> IF IsKind(h, args[2], "array") THEN PairsOf(h, Zipped(h, Elems(h, args[1]), Elems(h, args[2]))) ELSE Fail("array")
    [] name = "enumerate" -> PairsOf(h, Enumerated(Elems(h, args[1])))
    [] name = "flatten" -> Alloc(h, ArrayObj(Flattened(h, Elems(h, args[1]))))
    [] name \in {"keys", "values"} /\ ~IsKind(h, args[1], "map") -> Fail("map")
    [] name \in {"keys", "values"} ->
         LET m == h[args[1].ref].entries  ks == SetToSeq(DOMAIN m)
         IN Alloc(h, ArrayObj(IF name = "keys" THEN ks ELSE [i \in DOMAIN ks |-> m[ks[i]]] \o <<>>))
    [] name = "__rangeBound" -> IF Is("int", args[1]) THEN [h |-> h, v |-> args[1]] ELSE Fail("range")
    [] name = "__iterEntries" -> IterEntries(h, args[1])
    [] name = "__iterNext" -> IterNext(h, args[1], args[2].int)
    [] name = "__arraySlice" -> ArraySlice(h, args[1], args[2])
    [] name = "__mapRest" -> MapRest(h, args[1], args[2])

-----------------------------------------------------------------------------
(* Natives that call back.  An outcome asks for a call of a callable, or of  *)
(* a method of an instance.                                                   *)

Asks(h, f, args, w) == [h |-> h, ask |-> f, method |-> "", with |-> args, w |-> w]
AsksMethod(h, obj, name, w) == [h |-> h, ask |-> obj, method |-> name, with |-> <<>>, w |-> w]
Asking(r) == "ask" \in DOMAIN r
Saying(r, shown) == r @@ [say |-> shown]
SaidBy(r) == IF "say" \in DOMAIN r THEN r.say ELSE <<>>

\* The first of the methods that the class of an instance has, "" if it has none.
MethodAmong(h, v, names) ==
  LET found == IF IsKind(h, v, "instance") THEN SelectSeq(names, LAMBDA n : Owner(h, h[v.ref].class, "methods", n) # 0) ELSE <<>>
  IN IF found = <<>> THEN "" ELSE Head(found)

TextMethod(h, v) == MethodAmong(h, v, <<"__str", "toString">>)
NewLine == [newline |-> 0]

\* print goes through its arguments from the i-th on, up to one whose class has a method for its text.
PrintFrom(h, args, i) ==
  LET custom == {j \in i .. Len(args) : TextMethod(h, args[j]) # ""}
      upto == IF custom = {} THEN Len(args) ELSE Min(custom) - 1
      shown == [j \in 1 .. (upto - i + 1) |-> Shown(h, args[i + j - 1], 2)] \o <<>>
  IN IF custom = {} THEN Saying([h |-> h, v |-> Nil], Append(shown, NewLine))
     ELSE Saying(AsksMethod(h, args[upto + 1], TextMethod(h, args[upto + 1]), [name |-> "print", args |-> args, i |-> upto + 1]), shown)

\* The method for the text or the size of an instance, or the plain result.
OwnOr(h, v, method, name, plain) ==
  IF method # "" THEN AsksMethod(h, v, method, [name |-> name]) ELSE plain

Walks == {"filter", "map", "each", "any", "all", "flatMap", "groupBy", "findIndex", "find", "reduce"}

\* The groups of groupBy, in the order of their first elements.
Grouped(h, groups, key, elem) ==
  LET like == {i \in DOMAIN groups : ValuesEqual(h, groups[i].key, key)}
  IN IF like = {} THEN Append(groups, [key |-> key, elems |-> <<elem>>])
     ELSE [groups EXCEPT ![CHOOSE i \in like : TRUE].elems = Append(@, elem)]

GroupsMap(h, groups) ==
  Alloc(h \o [i \in DOMAIN groups |-> ArrayObj(groups[i].elems)],
        MapObj(FoldLeft(LAMBDA m, i : (groups[i].key :> Ref(Len(h) + i)) @@ m, NoEntries, [i \in DOMAIN groups |-> i])))

Finished(h, w) ==
  CASE w.name = "each" -> [h |-> h, v |-> w.self]
    [] w.name = "any" -> [h |-> h, v |-> Bool(FALSE)]
    [] w.name = "all" -> [h |-> h, v |-> Bool(TRUE)]
    [] w.name = "findIndex" -> [h |-> h, v |-> Num(-1)]
    [] w.name = "find" -> [h |-> h, v |-> Nil]
    [] w.name = "reduce" -> [h |-> h, v |-> w.acc]
    [] w.name = "groupBy" -> GroupsMap(h, w.acc)
    [] OTHER -> Alloc(h, ArrayObj(w.acc))

\* The array is read anew for every element.
Walk(h, w) ==
  IF w.i > Len(Elems(h, w.self)) THEN Finished(h, w)
  ELSE LET elem == Elems(h, w.self)[w.i] IN Asks(h, w.f, IF w.name = "reduce" THEN <<w.acc, elem>> ELSE <<elem>>, w)

\* What the callback's result does with the element, as it is after the call.
Gathered(h, w, elem, v) ==
  CASE w.name = "filter" -> IF Truthy(v) THEN Append(w.acc, elem) ELSE w.acc
    [] w.name = "map" -> Append(w.acc, v)
    [] w.name = "flatMap" -> w.acc \o Spread(h, v)
    [] w.name = "groupBy" -> Grouped(h, w.acc, v, elem)
    [] w.name = "reduce" -> v
    [] OTHER -> w.acc

WalkOn(h, w, v) ==
  LET elem == Elems(h, w.self)[w.i] IN
  CASE w.name = "any" /\ Truthy(v) -> [h |-> h, v |-> Bool(TRUE)]
    [] w.name = "all" /\ ~Truthy(v) -> [h |-> h, v |-> Bool(FALSE)]
    [] w.name = "find" /\ Truthy(v) -> [h |-> h, v |-> elem]
    [] w.name = "findIndex" /\ Truthy(v) -> [h |-> h, v |-> Num(w.i - 1)]
    [] OTHER -> Walk(h, [w EXCEPT !.i = @ + 1, !.acc = Gathered(h, w, elem, v)])

StartWalk(h, name, self, f) ==
  IF ~IsKind(h, self, "array") THEN Fail("array")
  ELSE IF ~IsCallable(h, f) THEN Fail("function")
  ELSE Walk(h, [name |-> name, self |-> self, f |-> f, i |-> 1, acc |-> <<>>])

\* Without a first value, reduce starts with the first element.
StartReduce(h, args) ==
  IF args = <<>> \/ ~IsKind(h, args[1], "array") THEN Fail("array")
  ELSE IF Len(args) < 2 \/ ~IsCallable(h, args[2]) THEN Fail("function")
  ELSE IF Len(args) = 2 /\ Elems(h, args[1]) = <<>> THEN Fail("reduce")
  ELSE LET w == [name |-> "reduce", self |-> args[1], f |-> args[2]]
       IN Walk(h, w @@ IF Len(args) > 2 THEN [i |-> 1, acc |-> args[3]] ELSE [i |-> 2, acc |-> Elems(h, args[1])[1]])

-----------------------------------------------------------------------------
(* Sorting: std::sort, here by insertion.  An order that is none, and one    *)
(* that looks at the array, are undefined.                                    *)

Before(v) == CASE Is("int", v) -> v.int < 0
               [] Is("dbl", v) -> (v.dbl[1] < 0) # (v.dbl[2] < 0) /\ v.dbl[1] # 0
               [] OTHER -> Truthy(v)

SortedResult(h, name, self, elems) ==
  IF name = "sortInPlace" THEN [h |-> Replace(h, self, elems), v |-> Nil] ELSE Alloc(h, ArrayObj(elems))

\* The first of todo goes into done, compared with the k-th of it.
Sort(h, w) ==
  IF w.todo = <<>> THEN SortedResult(h, w.name, w.self, w.done) ELSE Asks(h, w.f, <<Head(w.todo), w.done[w.k]>>, w)

SortOn(h, w, v) ==
  LET at == IF Before(v) THEN 0 ELSE w.k
      done == SubSeq(w.done, 1, at) \o <<Head(w.todo)>> \o SubSeq(w.done, at + 1, Len(w.done))
  IN IF Before(v) /\ w.k > 1 THEN Sort(h, [w EXCEPT !.k = @ - 1])
     ELSE Sort(h, [w EXCEPT !.done = done, !.todo = Tail(@), !.k = Len(done)])

StartSort(h, name, self, rest) ==
  LET elems == Elems(h, self) IN
  IF rest = <<>> \/ ~IsCallable(h, rest[1]) THEN SortedResult(h, name, self, Ordered(h, elems))
  ELSE IF elems = <<>> THEN SortedResult(h, name, self, elems)
  ELSE Sort(h, [name |-> name, self |-> self, f |-> rest[1], done |-> <<Head(elems)>>, k |-> 1, todo |-> Tail(elems)])

-----------------------------------------------------------------------------

Begin(h, f, args) ==
  LET name == NativeName(f)
      global == Is("native", f)
  IN CASE global /\ name = "print" -> PrintFrom(h, args, 1)
       [] global /\ name = "str" -> OwnOr(h, args[1], TextMethod(h, args[1]), name, [h |-> h, v |-> Str(Text(h, args[1]))])
       [] global /\ name = "len" -> OwnOr(h, args[1], MethodAmong(h, args[1], <<"__len">>), name, Size(h, args[1]))
       [] global /\ name = "reduce" -> StartReduce(h, args)
       [] global /\ name \in Walks \ {"reduce"} -> StartWalk(h, name, args[1], args[2])
       [] global /\ name = "sort" ->
            IF args = <<>> \/ ~IsKind(h, args[1], "array") THEN Fail("array") ELSE StartSort(h, name, args[1], Tail(args))
       [] ~global /\ name = "find" -> StartWalk(h, name, f.member.of, args[1])
       [] ~global /\ name \in {"sorted", "sortInPlace"} -> StartSort(h, name, f.member.of, args)
       [] OTHER -> IF global THEN GlobalResult(h, name, args) ELSE MemberResult(h, f.member.of, name, args)

\* The call that the native asked for has returned v.
Continue(h, w, v) ==
  CASE w.name = "print" ->
         LET r == PrintFrom(h, w.args, w.i + 1) IN [r EXCEPT !.say = <<Shown(h, v, 2)>> \o @]
    [] w.name \in {"str", "len"} -> [h |-> h, v |-> v]
    [] w.name \in Walks -> WalkOn(h, w, v)
    [] OTHER -> SortOn(h, w, v)
=============================================================================
