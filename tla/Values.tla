------------------------------- MODULE Values -------------------------------
(* Values of the language and the operations on them that both engines       *)
(* share.  A value is a record whose only field is its tag, so that values   *)
(* of different kinds are unequal; a container, an instance, a class or a    *)
(* closure is a reference into a heap, the sequence h.  Doubles appear only  *)
(* as the result of a division, as the pair of its operands.                 *)
EXTENDS Integers, Sequences, FiniteSets, TLC

CONSTANT MaxInt     \* the largest integer; the smallest is -MaxInt - 1

ASSUME MaxIntAssumption == MaxInt \in Nat \ {0}

Nil == [nil |-> 0]
Bool(b) == [bool |-> b]
Num(n) == [int |-> n]
Str(s) == [str |-> s]
Dbl(a, b) == [dbl |-> <<a, b>>]
Ref(i) == [ref |-> i]
Native(name) == [native |-> name]
Error(kind) == [err |-> kind]
Fail(kind) == [fail |-> kind]       \* no value: the operation raised an error

Is(tag, v) == tag \in DOMAIN v
Failed(r) == Is("fail", r)
Fits(n) == n \in (-MaxInt - 1) .. MaxInt

IsKind(h, v, kind) == Is("ref", v) /\ h[v.ref].kind = kind
IsNative(v) == Is("native", v) \/ Is("member", v)
IsCallable(h, v) == IsNative(v) \/ (Is("ref", v) /\ h[v.ref].kind \in {"closure", "bound", "class"})

Truthy(v) ==
  IF Is("bool", v) THEN v.bool ELSE ~Is("nil", v)

Hashable(v) == ~Is("ref", v) /\ ~IsNative(v)

RECURSIVE ValuesEqual(_, _, _)
ValuesEqual(h, a, b) ==
  \/ /\ a = b
     /\ ~IsCallable(h, a)
  \/ /\ Is("ref", a) /\ Is("ref", b)
     /\ h[a.ref].kind = h[b.ref].kind
     /\ LET p == h[a.ref]  q == h[b.ref] IN
          CASE p.kind = "array" ->
                 /\ Len(p.elems) = Len(q.elems)
                 /\ \A i \in 1 .. Len(p.elems) : ValuesEqual(h, p.elems[i], q.elems[i])
            [] p.kind = "map" ->
                 /\ DOMAIN p.entries = DOMAIN q.entries
                 /\ \A k \in DOMAIN p.entries : ValuesEqual(h, p.entries[k], q.entries[k])
            [] p.kind = "set" -> p.elems = q.elems
            [] p.kind = "tagged" ->
                 /\ p.tag = q.tag /\ Len(p.elems) = Len(q.elems)
                 /\ \A i \in 1 .. Len(p.elems) : ValuesEqual(h, p.elems[i], q.elems[i])
            [] OTHER -> FALSE

TypeName(h, v) ==
  CASE Is("nil", v) -> "nil"
    [] Is("bool", v) -> "bool"
    [] Is("int", v) -> "int"
    [] Is("dbl", v) -> "float"
    [] Is("str", v) -> "string"
    [] IsCallable(h, v) -> "function"
    [] Is("err", v) -> "instance"
    [] OTHER -> h[v.ref].kind

TypeNames == {"nil", "bool", "int", "float", "string", "array", "map", "set",
              "function", "instance", "tagged", "future", "generator"}

\* The text of a value; that of a container is abstracted to its kind.
Text(h, v) ==
  CASE Is("nil", v) -> "nil"
    [] Is("bool", v) -> IF v.bool THEN "true" ELSE "false"
    [] Is("int", v) -> ToString(v.int)
    [] Is("str", v) -> v.str
    [] OTHER -> TypeName(h, v)

\* What print shows: a container by its contents, to a given depth.
RECURSIVE Shown(_, _, _)
Shown(h, v, depth) ==
  IF Is("member", v) THEN [shown |-> "function"]
  ELSE IF ~Is("ref", v) THEN v
  ELSE LET o == h[v.ref] IN
       CASE o.kind \in {"array", "tagged"} /\ depth > 0 ->
              [shown |-> o.kind, elems |-> [i \in DOMAIN o.elems |-> Shown(h, o.elems[i], depth - 1)]]
         [] o.kind = "map" /\ depth > 0 ->
              [shown |-> o.kind, entries |-> [k \in DOMAIN o.entries |-> Shown(h, o.entries[k], depth - 1)]]
         [] o.kind = "set" -> [shown |-> o.kind, set |-> o.elems]
         [] OTHER -> [shown |-> TypeName(h, v)]

ArrayObj(elems) == [kind |-> "array", elems |-> elems]
MapObj(entries) == [kind |-> "map", entries |-> entries]
SetObj(elems) == [kind |-> "set", elems |-> elems]
TaggedObj(tag, elems) == [kind |-> "tagged", tag |-> tag, elems |-> elems]

\* The object a fresh reference points to, and the reference.
Alloc(h, obj) == [h |-> Append(h, obj), v |-> Ref(Len(h) + 1)]

NoEntries == [k \in {} |-> Nil]

\* The index a program writes, counted from the end when negative; 0 if out of bounds.
Position(i, size) ==
  LET j == IF i < 0 THEN i + size ELSE i
  IN IF j \in 0 .. (size - 1) THEN j + 1 ELSE 0

\* The classes from a class up to the root, nearest first; 0 is no class.
RECURSIVE ClassChain(_, _)
ClassChain(h, c) == IF c = 0 THEN <<>> ELSE <<c>> \o ClassChain(h, h[c].super)

\* The first class of a chain that defines a method, 0 if none does.
Owner(h, c, field, name) ==
  LET chain == ClassChain(h, c)
      owners == {i \in DOMAIN chain : name \in DOMAIN h[chain[i]][field]}
  IN IF owners = {} THEN 0 ELSE chain[CHOOSE i \in owners : \A j \in owners : i <= j]

\* Whether i names a class of the chain of an instance's class.
InstanceOf(h, v, c) ==
  /\ IsKind(h, v, "instance")
  /\ \E i \in DOMAIN ClassChain(h, h[v.ref].class) : ClassChain(h, h[v.ref].class)[i] = c
=============================================================================
