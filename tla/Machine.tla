------------------------------ MODULE Machine -------------------------------
(* The bytecode engine: VM::execute, one step per instruction, with its      *)
(* value stack, call frames, exception handlers, upvalues and the nested     *)
(* execute() calls that operator methods, decorators and deferred calls make *)
(* from inside an instruction.                                               *)
(* A compiled program is a sequence of functions, the last of them the       *)
(* script; an instruction is a record with its operands, and a jump holds    *)
(* the index it goes to.  Generators, tasks and imports are the subject of   *)
(* VmUnwind, TaskGlobals and GrainLoader.                                    *)
EXTENDS Natives

CONSTANTS Compiled,     \* the compiled programs
          MaxFrames     \* FRAMES_MAX, the deepest nesting of calls

VARIABLES prog,         \* which program runs
          stack,        \* stack[1 .. stackTop]
          frames,       \* CallFrame with the frame's deferred calls
          handlers,     \* exceptionHandlers
          execs,        \* the active execute() calls and what each returns to
          ctl,          \* what the innermost execute() is doing
          heap, cells,  \* objects; ObjUpvalue, open when its slot is not 0
          globals, out, lastErr

vars == <<prog, stack, frames, handlers, execs, ctl, heap, cells, globals, out, lastErr>>

-----------------------------------------------------------------------------
(* Reading the state. *)

Top == frames[Len(frames)]
Exec == execs[Len(execs)]
Code == Compiled          \* evaluated once
Fn(i) == Code[prog][i]
Running == ctl.c = "run"
Slot(i) == Top.base + i
Instr == Fn(Top.fn).code[Top.ip]
At(op) == Running /\ Instr.op = op
Peek(n) == stack[Len(stack) - n]
Pop(n) == SubSeq(stack, 1, Len(stack) - n)
TopN(stk, n) == SubSeq(stk, Len(stk) - n + 1, Len(stk))

Run == [c |-> "run"]
Advance(fs, ip) == [fs EXCEPT ![Len(fs)].ip = ip]

\* ObjUpvalue::location, the slot or the cell's own copy.
CellValue(i) == IF cells[i].slot = 0 THEN cells[i].val ELSE stack[cells[i].slot]

\* closeUpvalues: every cell open at or above a slot takes the slot's value.
CloseFrom(cs, stk, slot) ==
  [i \in DOMAIN cs |->
     IF cs[i].slot >= slot
     THEN [slot |-> 0, val |-> IF cs[i].slot <= Len(stk) THEN stk[cs[i].slot] ELSE Nil]
     ELSE cs[i]]

\* captureUpvalue: one cell for a slot, however many closures capture it.
OpenCell(cs, slot) ==
  LET open == {i \in DOMAIN cs : cs[i].slot = slot}
  IN IF open = {} THEN [cs |-> Append(cs, [slot |-> slot, val |-> Nil]), i |-> Len(cs) + 1]
     ELSE [cs |-> cs, i |-> CHOOSE i \in open : TRUE]

-----------------------------------------------------------------------------
(* The outcomes of an instruction. *)

\* Go on with the next instruction and this stack.
Next1(stk) ==
  /\ stack' = stk
  /\ frames' = Advance(frames, Top.ip + 1)

Go(stk) ==
  /\ Next1(stk)
  /\ UNCHANGED <<prog, handlers, execs, ctl, heap, cells, globals, out, lastErr>>

GoHeap(r, below) ==
  /\ Next1(Append(below, r.v))
  /\ heap' = r.h
  /\ UNCHANGED <<prog, handlers, execs, ctl, cells, globals, out, lastErr>>

\* tryHandleError finds a handler of the innermost of the execute() calls exs, or
\* the error is recorded and that execute() drains its frames.
RaiseIn(stk, e, fs, exs) ==
  /\ stack' = stk
  /\ frames' = fs
  /\ execs' = exs
  /\ IF Len(handlers) > Last(exs).floor
     THEN /\ ctl' = [c |-> "raise", v |-> e, handler |-> handlers[Len(handlers)]]
          /\ handlers' = Front(handlers)
          /\ UNCHANGED lastErr
     ELSE /\ ctl' = [c |-> "drain"]
          /\ lastErr' = e
          /\ UNCHANGED handlers
  /\ UNCHANGED <<prog, cells, globals>>

Raise(stk, e) == RaiseIn(stk, e, Advance(frames, Top.ip + 1), execs) /\ UNCHANGED <<heap, out>>

\* A RuntimeError that leaves an instruction as a C++ exception ends its execute().
Fatal(e, exs) ==
  /\ ctl' = [c |-> "drain"]
  /\ lastErr' = e
  /\ execs' = exs
  /\ UNCHANGED <<prog, stack, frames, handlers, heap, cells, globals, out>>

GoOrRaise(r, below) ==
  IF Failed(r) THEN Raise(below, Error(r.fail)) ELSE GoHeap(r, below)

-----------------------------------------------------------------------------
(* Calls. *)

\* callClosure: the arguments padded with nil, the extra ones in the rest array.
Padded(stk, h, fn, argc) ==
  LET padded == stk \o [i \in 1 .. (fn.arity - argc) |-> Nil]
      extra == IF argc > fn.arity THEN argc - fn.arity ELSE 0
      rest == Alloc(h, ArrayObj(TopN(padded, extra)))
  IN IF fn.rest
     THEN [h |-> rest.h, stk |-> Append(SubSeq(padded, 1, Len(padded) - extra), rest.v)]
     ELSE [h |-> h, stk |-> padded]

\* The frame of a closure called with argc arguments on top of stk.
Entered(fs, stk, clo, argc, missing, def) ==
  Append(fs, [fn |-> heap[clo].fn, clo |-> clo, ip |-> 1, base |-> Len(stk) - argc,
              missing |-> missing, def |-> def, defers |-> <<>>])

ArgsFit(fn, argc) == fn.rest \/ argc <= fn.arity

FramesFullLate(fs) == Len(fs) > MaxFrames       \* mutant: one frame too many
FramesFull(fs) == Len(fs) >= MaxFrames

CallClosure(stk, h, clo, argc, missing, def) ==
  LET fn == Fn(heap[clo].fn)
      padded == Padded(stk, h, fn, argc)
  IN IF ~ArgsFit(fn, argc) THEN Raise(stk, Error("arity"))
     ELSE IF FramesFull(frames) THEN Raise(stk, Error("depth"))
     ELSE /\ stack' = padded.stk
          /\ heap' = padded.h
          /\ frames' = Entered(Advance(frames, Top.ip + 1), stk, clo, argc, missing, def)
          /\ UNCHANGED <<prog, handlers, execs, ctl, cells, globals, out, lastErr>>

\* The parameters that a call with argc arguments leaves out.
Omitted(clo, argc) == (argc + 1) .. Fn(heap[clo].fn).arity

WithCallee(stk, argc, v) == [stk EXCEPT ![Len(stk) - argc] = v]

\* callWithVM: an execute() of its own, beside those of exs, whose result goes
\* where cont says.  Where there is no room for it, an error leaves the caller's
\* instruction, or is caught by the call of the native.
Nested(stk, h, fs, exs, clo, argc, def, cont) ==
  LET fn == Fn(h[clo].fn)
      padded == Padded(stk, h, fn, argc)
      Refused(kind) == IF cont.k = "native" THEN RaiseIn(stk, Error(kind), fs, exs) /\ heap' = h ELSE Fatal(Error(kind), exs)
  IN IF ~ArgsFit(fn, argc) THEN Refused("arity")
     ELSE IF FramesFull(fs) THEN Refused("depth")
     ELSE /\ stack' = padded.stk
          /\ heap' = padded.h
          /\ frames' = Append(fs, [fn |-> h[clo].fn, clo |-> clo, ip |-> 1, base |-> Len(stk) - argc,
                                   missing |-> (argc + 1) .. fn.arity, def |-> def, defers |-> <<>>])
          /\ execs' = Append(exs, [base |-> Len(fs), floor |-> Len(handlers), cont |-> cont])
          /\ ctl' = Run
          /\ UNCHANGED <<prog, handlers, cells, globals, lastErr>>

\* What the outcome r of a native does; ups are the natives that wait for it, the
\* nearest first.  callWithVM runs a native at once, and makes an instance of a
\* class without its init.
NativeGoesOn(r, ups, below, fs, exs) ==
  LET o == r.h[r.ask.ref]
      owner == Owner(r.h, r.h[r.ask.ref].class, "methods", r.method)
      inst == Alloc(r.h, [kind |-> "instance", class |-> r.ask.ref, fields |-> NoEntries])
      In(stk, ctl1) ==
        /\ stack' = stk
        /\ heap' = r.h
        /\ frames' = fs
        /\ execs' = exs
        /\ ctl' = ctl1
        /\ UNCHANGED <<prog, handlers, cells, globals, lastErr>>
      Pending(next, waiting) == In(below, [c |-> "native", r |-> next, ups |-> waiting])
      Calls(slot0, clo, def) ==
        Nested(below \o <<slot0>> \o r.with, r.h, fs, exs, clo, Len(r.with), def, [k |-> "native", w |-> <<r.w>> \o ups])
  IN /\ out' = out \o SaidBy(r)
     /\ IF Failed(r) THEN RaiseIn(below, Error(r.fail), fs, exs) /\ UNCHANGED heap
        ELSE IF ~Asking(r)
        THEN IF ups = <<>> THEN In(Append(below, r.v), Run) ELSE Pending(Continue(r.h, Head(ups), r.v), Tail(ups))
        ELSE IF IsNative(r.ask) THEN Pending(Begin(r.h, r.ask, r.with), <<r.w>> \o ups)
        ELSE IF r.method # "" THEN Calls(r.ask, r.h[owner].methods[r.method].ref, owner)
        ELSE CASE o.kind = "bound" -> Calls(o.recv, o.clo, o.owner)
               [] o.kind = "closure" -> Calls(r.ask, r.ask.ref, 0)
               [] o.kind = "class" -> Pending(Continue(inst.h, r.w, inst.v), ups)

CallNative(stk, argc, f) ==
  IF NativeArity(heap, f) \notin {-1, argc} THEN Raise(stk, Error("arity"))
  ELSE \E r \in {Begin(heap, f, TopN(stk, argc))} :
         NativeGoesOn(r, <<>>, SubSeq(stk, 1, Len(stk) - argc - 1), Advance(frames, Top.ip + 1), execs)

\* A class makes an instance and runs its init, or takes no arguments.
Instantiate(stk, argc, class) ==
  LET inst == Alloc(heap, [kind |-> "instance", class |-> class, fields |-> NoEntries])
      owner == Owner(heap, class, "methods", "init")
      stk2 == WithCallee(stk, argc, inst.v)
  IN IF owner # 0
     THEN LET init == heap[owner].methods["init"].ref
          IN CallClosure(stk2, inst.h, init, argc, Omitted(init, argc), owner)
     ELSE IF argc > 0 THEN Raise(stk2, Error("arity"))
     ELSE /\ Next1(stk2)
          /\ heap' = inst.h
          /\ UNCHANGED <<prog, handlers, execs, ctl, cells, globals, out, lastErr>>

\* callValue; missing is the set of parameters left out by name, or all of Omitted.
CallWith(stk, argc, named, missing) ==
  LET callee == stk[Len(stk) - argc]
      Missing(clo) == IF named THEN missing ELSE Omitted(clo, argc)
  IN IF ~IsCallable(heap, callee) THEN Raise(stk, Error("call"))
     ELSE IF IsNative(callee) THEN CallNative(stk, argc, callee)
     ELSE LET o == heap[callee.ref] IN
          CASE o.kind = "closure" -> CallClosure(stk, heap, callee.ref, argc, Missing(callee.ref), 0)
            [] o.kind = "bound" ->
                 CallClosure(WithCallee(stk, argc, o.recv), heap, o.clo, argc, Missing(o.clo), o.owner)
            [] o.kind = "class" -> Instantiate(stk, argc, callee.ref)

CallValue(stk, argc) == CallWith(stk, argc, FALSE, {})

-----------------------------------------------------------------------------
(* Operators of instances: vmCallDunder.  choices lists the methods to look  *)
(* for, each with what is done with its result.                              *)

DunderChoice(h, a, choices) ==
  LET found == {i \in DOMAIN choices :
                  /\ h[h[a.ref].class].dunder
                  /\ Owner(h, h[a.ref].class, "methods", choices[i].name) # 0}
  IN IF found = {} THEN 0 ELSE CHOOSE i \in found : \A j \in found : i <= j

Overloaded(a, choices) == IsKind(heap, a, "instance") /\ DunderChoice(heap, a, choices) # 0

CallDunder(below, a, args, choices) ==
  LET choice == choices[DunderChoice(heap, a, choices)]
      owner == Owner(heap, heap[a.ref].class, "methods", choice.name)
  IN /\ Nested(below \o <<a>> \o args, heap, Advance(frames, Top.ip + 1), execs, heap[owner].methods[choice.name].ref,
               Len(args), owner, [k |-> "value", then |-> choice.then, keep |-> IF args = <<>> THEN Nil ELSE Last(args)])
     /\ UNCHANGED out

AsIs(name) == [name |-> name, then |-> "value"]
Negated(name) == [name |-> name, then |-> "not"]

BinaryDunders ==
  [ADD |-> <<AsIs("__add")>>, SUBTRACT |-> <<AsIs("__sub")>>, MULTIPLY |-> <<AsIs("__mul")>>,
   DIVIDE |-> <<AsIs("__div")>>, MODULO |-> <<AsIs("__mod")>>,
   EQUAL |-> <<AsIs("__eq")>>, NOT_EQUAL |-> <<Negated("__eq")>>,
   LESS |-> <<AsIs("__lt")>>, GREATER |-> <<AsIs("__gt")>>,
   LESS_EQUAL |-> <<AsIs("__le"), Negated("__gt")>>, GREATER_EQUAL |-> <<AsIs("__ge"), Negated("__lt")>>]

-----------------------------------------------------------------------------
(* Instructions: constants, operators, tests. *)

ArithOps == {"ADD", "SUBTRACT", "MULTIPLY", "DIVIDE", "MODULO"}

Constant == At("CONSTANT") /\ Go(Append(stack, Instr.v))

Shuffle ==
  \/ At("POP") /\ Go(Pop(1))
  \/ At("DUP") /\ Go(Append(stack, Peek(0)))
  \/ At("SWAP") /\ Go(Pop(2) \o <<Peek(0), Peek(1)>>)

Operator ==
  /\ Running /\ Instr.op \in DOMAIN BinaryDunders
  /\ LET a == Peek(1)  b == Peek(0)  op == Instr.op IN
     IF Overloaded(a, BinaryDunders[op]) THEN CallDunder(Pop(2), a, <<b>>, BinaryDunders[op])
     ELSE GoOrRaise(IF op \in ArithOps THEN Arithmetic(heap, op, a, b) ELSE Compare(heap, op, a, b), Pop(2))

IsTest == At("IS") /\ GoOrRaise(IsResult(heap, Peek(1), Peek(0)), Pop(2))

Negate ==
  /\ At("NEGATE")
  /\ IF Overloaded(Peek(0), <<AsIs("__neg")>>) THEN CallDunder(Pop(1), Peek(0), <<>>, <<AsIs("__neg")>>)
     ELSE GoOrRaise(Negative(heap, Peek(0)), Pop(1))

Not == At("NOT") /\ Go(Append(Pop(1), Bool(~Truthy(Peek(0)))))

\* Jumps, taken or not; all but the last of them leave the value they test.
Taken ==
  CASE Instr.op = "JUMP" -> TRUE
    [] Instr.op \in {"JUMP_IF_FALSE", "POP_JUMP_IF_FALSE"} -> ~Truthy(Peek(0))
    [] Instr.op = "JUMP_IF_TRUE" -> Truthy(Peek(0))
    [] Instr.op = "JUMP_IF_NOT_NIL" -> ~Is("nil", Peek(0))

Jump ==
  /\ Running /\ Instr.op \in {"JUMP", "JUMP_IF_FALSE", "JUMP_IF_TRUE", "JUMP_IF_NOT_NIL", "POP_JUMP_IF_FALSE"}
  /\ frames' = Advance(frames, IF Taken THEN Instr.to ELSE Top.ip + 1)
  /\ stack' = IF Instr.op = "POP_JUMP_IF_FALSE" THEN Pop(1) ELSE stack
  /\ UNCHANGED <<prog, handlers, execs, ctl, heap, cells, globals, out, lastErr>>

-----------------------------------------------------------------------------
(* Instructions: variables. *)

DefineGlobal ==
  /\ At("DEFINE_GLOBAL")
  /\ Next1(Pop(1))
  /\ globals' = (Instr.name :> Peek(0)) @@ globals
  /\ UNCHANGED <<prog, handlers, execs, ctl, heap, cells, out, lastErr>>

GetGlobal ==
  /\ At("GET_GLOBAL")
  /\ IF Instr.name \in DOMAIN globals THEN Go(Append(stack, globals[Instr.name]))
     ELSE Raise(stack, Error("undefined"))

SetGlobal ==
  /\ At("SET_GLOBAL")
  /\ IF Instr.name \in DOMAIN globals
     THEN /\ Next1(stack)
          /\ globals' = [globals EXCEPT ![Instr.name] = Peek(0)]
          /\ UNCHANGED <<prog, handlers, execs, ctl, heap, cells, out, lastErr>>
     ELSE Raise(stack, Error("undefined"))

LocalOfExec ==       \* mutant: stores in the frame that execute() began with
  \/ At("GET_LOCAL") /\ Go(Append(stack, stack[Slot(Instr.slot)]))
  \/ At("SET_LOCAL") /\ Go([stack EXCEPT ![frames[Exec.base + 1].base + Instr.slot] = Peek(0)])

Local ==
  \/ At("GET_LOCAL") /\ Go(Append(stack, stack[Slot(Instr.slot)]))
  \/ At("SET_LOCAL") /\ Go([stack EXCEPT ![Slot(Instr.slot)] = Peek(0)])

IsMissingArg == At("IS_MISSING_ARG") /\ Go(Append(stack, Bool(Instr.slot \in Top.missing)))

\* Store through an upvalue: into the slot while it is open, else into the cell.
StoreCell(i, v, stk) ==
  IF cells[i].slot = 0
  THEN cells' = [cells EXCEPT ![i].val = v] /\ Next1(stk)
  ELSE Next1([stk EXCEPT ![cells[i].slot] = v]) /\ UNCHANGED cells

Upvalue ==
  LET cell == heap[Top.clo].ups[Instr.slot + 1] IN
  \/ At("GET_UPVALUE") /\ Go(Append(stack, CellValue(cell)))
  \/ /\ At("SET_UPVALUE")
     /\ StoreCell(cell, Peek(0), stack)
     /\ UNCHANGED <<prog, handlers, execs, ctl, heap, globals, out, lastErr>>

\* x++ and x--: the old value is pushed, then the variable is set.
Stepped(v) == IF ~Is("int", v) THEN Fail("operands") ELSE IntResult(heap, v.int + Instr.by)

PostGlobal ==
  /\ At("POST_GLOBAL")
  /\ IF Instr.name \notin DOMAIN globals THEN Raise(stack, Error("undefined"))
     ELSE LET old == globals[Instr.name]  r == Stepped(old) IN
          IF Failed(r) THEN Raise(stack, Error(r.fail))
          ELSE /\ Next1(Append(stack, old))
               /\ globals' = [globals EXCEPT ![Instr.name] = r.v]
               /\ UNCHANGED <<prog, handlers, execs, ctl, heap, cells, out, lastErr>>

PostLocal ==
  /\ At("POST_LOCAL")
  /\ LET old == stack[Slot(Instr.slot)]  r == Stepped(old) IN
     IF Failed(r) THEN Raise(stack, Error(r.fail))
     ELSE Go(Append([stack EXCEPT ![Slot(Instr.slot)] = r.v], old))

PostUpvalue ==
  /\ At("POST_UPVALUE")
  /\ LET cell == heap[Top.clo].ups[Instr.slot + 1]
         old == CellValue(cell)
         r == Stepped(old)
     IN IF Failed(r) THEN Raise(stack, Error(r.fail))
        ELSE /\ StoreCell(cell, r.v, Append(stack, old))
             /\ UNCHANGED <<prog, handlers, execs, ctl, heap, globals, out, lastErr>>

-----------------------------------------------------------------------------
(* Instructions: calls and closures. *)

Call == At("CALL") /\ CallValue(stack, Instr.argc)

CallSpread ==
  /\ At("CALL_SPREAD")
  /\ IF ~IsKind(heap, Peek(0), "array") THEN Raise(Pop(1), Error("spread"))
     ELSE LET args == heap[Peek(0).ref].elems IN CallValue(Pop(1) \o args, Len(args))

\* paramNames(): most natives have none, nor has a class that defines no init itself.
HasParams(callee) ==
  IF IsNative(callee) THEN NativeParams(callee) # <<>>
  ELSE IsKind(heap, callee, "class") => "init" \in DOMAIN heap[callee.ref].methods

Params(callee) ==
  LET o == heap[callee.ref] IN
  IF IsNative(callee) THEN NativeParams(callee) ELSE Fn(heap[CASE o.kind = "closure" -> callee.ref
            [] o.kind = "bound" -> o.clo
            [] o.kind = "class" -> o.methods["init"].ref].fn).params

CallNamed ==
  /\ At("CALL_NAMED")
  /\ LET argc == Instr.argc
         callee == Peek(argc)
         params == Params(callee)
         bound == Bound(Instr.names, params, <<>>)
         args == TopN(stack, argc)
         ordered == [p \in 1 .. Len(params) |->
                       IF \E i \in 1 .. argc : bound.slots[i] = p
                       THEN args[CHOOSE i \in 1 .. argc : bound.slots[i] = p] ELSE Nil]
     IN IF ~IsCallable(heap, callee) THEN Raise(stack, Error("call"))
        ELSE IF ~HasParams(callee) THEN Raise(stack, Error("named"))
        ELSE IF Failed(bound) THEN Raise(stack, Error(bound.fail))
        ELSE \E stk \in {Pop(argc) \o ordered} :
               CallWith(stk, Len(params), TRUE, DOMAIN params \ ToSet(bound.slots))

\* A capitalised name that no variable holds: a global to call, or a tagged value.
TagOrCall ==
  /\ At("TAG_OR_CALL")
  /\ LET argc == Instr.argc
         name == Instr.name
         args == TopN(stack, argc)
     IN IF name \in DOMAIN globals /\ IsCallable(heap, globals[name])
        THEN CallValue(Append(Pop(argc), globals[name]) \o args, argc)
        ELSE GoHeap(Alloc(heap, TaggedObj(name, args)), Pop(argc))

\* Each captured local gets its cell; the others are taken from the running closure.
Captured(cs, ups) ==
  FoldLeft(LAMBDA acc, u :
             IF u.local
             THEN LET c == OpenCell(acc.cs, Slot(u.index)) IN [cs |-> c.cs, ups |-> Append(acc.ups, c.i)]
             ELSE [acc EXCEPT !.ups = Append(@, heap[Top.clo].ups[u.index + 1])],
           [cs |-> cs, ups |-> <<>>], ups)

Closure ==
  /\ At("CLOSURE")
  /\ LET captured == Captured(cells, Instr.ups)
         r == Alloc(heap, [kind |-> "closure", fn |-> Instr.fn, ups |-> captured.ups])
     IN /\ Next1(Append(stack, r.v))
        /\ heap' = r.h
        /\ cells' = captured.cs
  /\ UNCHANGED <<prog, handlers, execs, ctl, globals, out, lastErr>>

CloseUpvalue ==
  /\ At("CLOSE_UPVALUE")
  /\ Next1(Pop(1))
  /\ cells' = CloseFrom(cells, stack, Len(stack))
  /\ UNCHANGED <<prog, handlers, execs, ctl, heap, globals, out, lastErr>>

-----------------------------------------------------------------------------
(* Instructions: classes and properties. *)

Class ==
  /\ At("CLASS")
  /\ GoHeap(Alloc(heap, [kind |-> "class", name |-> Instr.name, super |-> 0, methods |-> NoEntries,
                         statics |-> NoEntries, decorators |-> NoEntries, dunder |-> FALSE]), stack)

\* METHOD, STATIC_METHOD and METHOD_DECORATOR store the value on top in the class below it.
Member ==
  /\ Running /\ Instr.op \in {"METHOD", "STATIC_METHOD", "METHOD_DECORATOR"}
  /\ Next1(Pop(1))
  /\ LET c == Peek(1).ref  n == Instr.name IN
     heap' = CASE Instr.op = "METHOD" ->
                    [heap EXCEPT ![c].methods = (n :> Peek(0)) @@ @, ![c].dunder = @ \/ n \in OperatorNames]
               [] Instr.op = "STATIC_METHOD" -> [heap EXCEPT ![c].statics = (n :> Peek(0)) @@ @]
               [] Instr.op = "METHOD_DECORATOR" ->
                    [heap EXCEPT ![c].decorators =
                       (n :> Append(IF n \in DOMAIN @ THEN @[n] ELSE <<>>, Peek(0))) @@ @]
  /\ UNCHANGED <<prog, handlers, execs, ctl, cells, globals, out, lastErr>>

Inherit ==
  /\ At("INHERIT")
  /\ IF ~IsKind(heap, Peek(1), "class") THEN Raise(Pop(1), Error("superclass"))
     ELSE /\ Next1(Pop(2))
          /\ heap' = [heap EXCEPT ![Peek(0).ref].super = Peek(1).ref,
                                  ![Peek(0).ref].dunder = @ \/ heap[Peek(1).ref].dunder]
          /\ UNCHANGED <<prog, handlers, execs, ctl, cells, globals, out, lastErr>>

BoundObj(recv, clo, owner) == [kind |-> "bound", recv |-> recv, clo |-> clo, owner |-> owner]

\* A method read from an instance: bound to it and to the class that defines it.
BindMethod(obj, owner, name) == Alloc(heap, BoundObj(obj, heap[owner].methods[name].ref, owner))

Decorators(owner, name) ==
  IF name \in DOMAIN heap[owner].decorators THEN heap[owner].decorators[name] ELSE <<>>

\* Each decorator is called with what the one before it returned.
Decorate(h, below, fs, exs, v, decos) ==
  /\ Nested(below \o <<Head(decos), v>>, h, fs, exs, Head(decos).ref, 1, 0, [k |-> "decorate", todo |-> Tail(decos)])
  /\ UNCHANGED out

GetProperty ==
  /\ At("GET_PROPERTY")
  /\ LET obj == Peek(0)
         name == Instr.name
         owner == Owner(heap, heap[obj.ref].class, "methods", name)
         r == IF IsKind(heap, obj, "instance") THEN Universal(heap, obj, name) ELSE OtherProperty(heap, obj, name)
         Other == IF Failed(r) /\ Instr.opt /\ r.fail = "property" THEN Go(Append(Pop(1), Nil)) ELSE GoOrRaise(r, Pop(1))
     IN IF Instr.opt /\ Is("nil", obj) THEN Go(stack)
        ELSE IF ~IsKind(heap, obj, "instance") THEN Other
        ELSE IF name \in DOMAIN heap[obj.ref].fields THEN Go(Append(Pop(1), heap[obj.ref].fields[name]))
        ELSE IF owner = 0 THEN Other
        ELSE LET bound == BindMethod(obj, owner, name) IN
             IF Decorators(owner, name) = <<>> THEN GoHeap(bound, Pop(1))
             ELSE Decorate(bound.h, Pop(1), Advance(frames, Top.ip + 1), execs, bound.v, Decorators(owner, name))

SetProperty ==
  /\ At("SET_PROPERTY")
  /\ LET obj == Peek(1)  v == Peek(0) IN
     CASE IsKind(heap, obj, "instance") ->
            GoHeap([h |-> [heap EXCEPT ![obj.ref].fields = (Instr.name :> v) @@ @], v |-> v], Pop(2))
       [] IsKind(heap, obj, "map") ->
            GoHeap([h |-> [heap EXCEPT ![obj.ref].entries = (Str(Instr.name) :> v) @@ @], v |-> v], Pop(2))
       [] OTHER -> Raise(Pop(2), Error("property"))

\* super.name starts above the class that defines the running method.
GetSuper ==
  /\ At("GET_SUPER")
  /\ LET obj == Peek(0)
         def == IF Top.def # 0 THEN Top.def ELSE heap[obj.ref].class
         super == heap[def].super
         owner == Owner(heap, super, "methods", Instr.name)
     IN IF ~IsKind(heap, obj, "instance") THEN Raise(Pop(1), Error("super"))
        ELSE IF super = 0 \/ owner = 0 THEN Raise(Pop(1), Error("super"))
        ELSE GoHeap(BindMethod(obj, owner, Instr.name), Pop(1))

-----------------------------------------------------------------------------
(* Instructions: containers and strings. *)

Built(op, args) ==
  CASE op = "BUILD_ARRAY" -> Alloc(heap, ArrayObj(args))
    [] op = "BUILD_SET" ->
         IF \A i \in DOMAIN args : Hashable(args[i]) THEN Alloc(heap, SetObj(ToSet(args))) ELSE Fail("key")
    [] op = "BUILD_MAP" ->
         IF \A i \in 1 .. (Len(args) \div 2) : Hashable(args[2 * i - 1]) THEN Alloc(heap, MapObj(Pairs(args)))
         ELSE Fail("key")
    [] op = "BUILD_STRING" ->
         [h |-> heap, v |-> Str(FoldLeft(LAMBDA acc, v : acc \o Text(heap, v), "", args))]

Build ==
  /\ Running /\ Instr.op \in {"BUILD_ARRAY", "BUILD_SET", "BUILD_MAP", "BUILD_STRING"}
  /\ GoOrRaise(Built(Instr.op, TopN(stack, Instr.count)), Pop(Instr.count))

\* SET_INSERT and SET_SPREAD: into the set below, in place.
SetAdd ==
  /\ Running /\ Instr.op \in {"SET_INSERT", "SET_SPREAD"}
  /\ LET r == Added(heap, Instr.op = "SET_SPREAD", Peek(0)) IN
     IF Failed(r) THEN Raise(Pop(2), Error(r.fail))
     ELSE GoHeap([h |-> [heap EXCEPT ![Peek(1).ref].elems = @ \cup r.set], v |-> Peek(1)], Pop(2))

GetIndex ==
  /\ At("INDEX_GET")
  /\ IF Instr.opt /\ Is("nil", Peek(1)) THEN Go(Append(Pop(2), Nil))
     ELSE IF Overloaded(Peek(1), <<AsIs("__index")>>)
     THEN CallDunder(Pop(2), Peek(1), <<Peek(0)>>, <<AsIs("__index")>>)
     ELSE GoOrRaise(Element(heap, Peek(1), Peek(0), Instr.opt), Pop(2))

Stored == <<[name |-> "__indexSet", then |-> "keep"]>>

SetIndex ==
  /\ At("INDEX_SET")
  /\ IF Overloaded(Peek(2), Stored) THEN CallDunder(Pop(3), Peek(2), <<Peek(1), Peek(0)>>, Stored)
     ELSE GoOrRaise(SetElement(heap, Peek(2), Peek(1), Peek(0)), Pop(3))

-----------------------------------------------------------------------------
(* Instructions: exceptions, deferred calls, return. *)

TryBegin ==
  /\ At("TRY_BEGIN")
  /\ Next1(stack)
  /\ handlers' = Append(handlers, [ip |-> Instr.to, frame |-> Len(frames), top |-> Len(stack)])
  /\ UNCHANGED <<prog, execs, ctl, heap, cells, globals, out, lastErr>>

TryEnd ==
  /\ At("TRY_END")
  /\ Next1(stack)
  /\ handlers' = IF handlers = <<>> THEN handlers ELSE Front(handlers)
  /\ UNCHANGED <<prog, execs, ctl, heap, cells, globals, out, lastErr>>

Throw == At("THROW") /\ Raise(Pop(1), Peek(0))

Defer ==
  /\ At("DEFER")
  /\ stack' = Pop(1)
  /\ frames' = [Advance(frames, Top.ip + 1) EXCEPT ![Len(frames)].defers = Append(@, Peek(0))]
  /\ UNCHANGED <<prog, handlers, execs, ctl, heap, cells, globals, out, lastErr>>

Return ==
  /\ At("RETURN")
  /\ stack' = Pop(1)
  /\ ctl' = [c |-> "return", v |-> Peek(0)]
  /\ UNCHANGED <<prog, frames, handlers, execs, heap, cells, globals, out, lastErr>>

-----------------------------------------------------------------------------
(* Leaving frames. *)

\* A frame is being left: by a return, by an error, or because its execute() failed.
Leaving ==
  \/ ctl.c = "return"
  \/ ctl.c = "raise" /\ Len(frames) > ctl.handler.frame
  \/ ctl.c = "drain" /\ Len(frames) > Exec.base

\* runDefers: the frame's deferred calls, the last first, each in an execute() of its
\* own; one that finds no room for its frame fails, and is reported but not raised.
StartDefer ==
  /\ Leaving
  /\ Top.defers # <<>>
  /\ LET d == Last(Top.defers).ref
         kept == [frames EXCEPT ![Len(frames)].defers = Front(@)]
     IN IF FramesFull(frames) THEN frames' = kept /\ UNCHANGED <<stack, execs, ctl>>
        ELSE /\ stack' = Append(stack, Last(Top.defers))
             /\ frames' = Append(kept, [fn |-> heap[d].fn, clo |-> d, ip |-> 1, base |-> Len(stack) + 1,
                                        missing |-> {}, def |-> 0, defers |-> <<>>])
             /\ execs' = Append(execs, [base |-> Len(frames) + 1, floor |-> Len(handlers),
                                        cont |-> [k |-> "defer", ctl |-> ctl, top |-> Len(stack),
                                                  depth |-> Len(frames), err |-> lastErr]])
             /\ ctl' = Run
  /\ UNCHANGED <<prog, handlers, heap, cells, globals, out, lastErr>>

\* The frame's upvalues are closed and it is popped.
Left == Leaving /\ Top.defers = <<>>

DropHandlers(hs, depth) == SelectSeq(hs, LAMBDA h : h.frame < depth)

FinishReturn ==
  /\ Left /\ ctl.c = "return"
  /\ cells' = CloseFrom(cells, stack, Top.base)
  /\ handlers' = DropHandlers(handlers, Len(frames))
  /\ frames' = Front(frames)
  /\ stack' = Append(SubSeq(stack, 1, Top.base - 1), ctl.v)
  /\ ctl' = IF Len(frames) - 1 <= Exec.base THEN [c |-> "ok"] ELSE Run
  /\ UNCHANGED <<prog, execs, heap, globals, out, lastErr>>

DropFrame ==
  /\ Left /\ ctl.c \in {"raise", "drain"}
  /\ cells' = CloseFrom(cells, stack, Top.base)
  /\ frames' = Front(frames)
  /\ UNCHANGED <<prog, stack, handlers, execs, ctl, heap, globals, out, lastErr>>

\* The handler's frame is reached: its stack, the error on top, its code.
Catch ==
  /\ ctl.c = "raise" /\ ~Leaving
  /\ stack' = Append(SubSeq(stack, 1, ctl.handler.top), ctl.v)
  /\ frames' = Advance(frames, ctl.handler.ip)
  /\ ctl' = Run
  /\ UNCHANGED <<prog, handlers, execs, heap, cells, globals, out, lastErr>>

\* After a deferred call, whatever its outcome, the frame goes on leaving.
Restored(k) ==
  /\ stack' = SubSeq(stack, 1, k.top)
  /\ frames' = SubSeq(frames, 1, k.depth)
  /\ execs' = Front(execs)
  /\ ctl' = k.ctl
  /\ lastErr' = k.err

\* A native's callback failed: what it threw reaches the native as the text of an error.
Wrapped(e) == IF Is("err", e) THEN e ELSE Error(Text(heap, e))

\* The execute() has failed: what its caller does.
ExecFails ==
  /\ ctl.c = "drain" /\ ~Leaving
  /\ LET k == Exec.cont IN
     CASE k.k = "main" -> /\ ctl' = [c |-> "halt", failed |-> TRUE]
                          /\ UNCHANGED <<stack, frames, handlers, execs, lastErr>>
       [] k.k = "defer" -> Restored(k) /\ UNCHANGED handlers
       [] k.k \in {"value", "decorate"} -> /\ execs' = Front(execs)
                                           /\ UNCHANGED <<stack, frames, handlers, ctl, lastErr>>
       [] k.k = "native" -> RaiseIn(stack, Wrapped(lastErr), frames, Front(execs))
  /\ UNCHANGED <<prog, heap, cells, globals, out>>

\* The execute() has returned: its result is on top of the stack.
ExecReturns ==
  /\ ctl.c = "ok"
  /\ LET k == Exec.cont
         below == Front(stack)
         v == Last(stack)
         Result(x) == /\ stack' = Append(below, x)
                      /\ execs' = Front(execs)
                      /\ ctl' = Run
                      /\ UNCHANGED <<prog, frames, handlers, heap, cells, globals, out, lastErr>>
     IN CASE k.k = "main" -> /\ ctl' = [c |-> "halt", failed |-> FALSE]
                             /\ UNCHANGED <<prog, stack, frames, handlers, execs, heap, cells, globals, out, lastErr>>
          [] k.k = "defer" -> Restored(k) /\ UNCHANGED <<prog, handlers, heap, cells, globals, out>>
          [] k.k = "decorate" -> IF k.todo = <<>> THEN Result(v)
                                 ELSE Decorate(heap, below, frames, Front(execs), v, k.todo)
          [] k.k = "native" -> \E r \in {Continue(heap, Head(k.w), v)} :
                                 NativeGoesOn(r, Tail(k.w), below, frames, Front(execs))
          [] k.k = "value" -> Result(CASE k.then = "value" -> v
                                       [] k.then = "not" -> Bool(~Truthy(v))
                                       [] k.then = "keep" -> k.keep)

\* A native goes on with what another has made of its callback.
NativeOn == ctl.c = "native" /\ NativeGoesOn(ctl.r, ctl.ups, stack, frames, execs)

\* The program has ended.
Halted == ctl.c = "halt" /\ UNCHANGED vars

-----------------------------------------------------------------------------

Init ==
  /\ prog \in DOMAIN Code
  /\ heap = <<[kind |-> "closure", fn |-> Len(Code[prog]), ups |-> <<>>]>>
  /\ stack = <<Ref(1)>>
  /\ frames = <<[fn |-> Len(Code[prog]), clo |-> 1, ip |-> 1, base |-> 1, missing |-> {}, def |-> 0,
                 defers |-> <<>>]>>
  /\ handlers = <<>>
  /\ execs = <<[base |-> 0, floor |-> 0, cont |-> [k |-> "main"]]>>
  /\ ctl = Run
  /\ cells = <<>>
  /\ globals = [name \in DOMAIN GlobalArity \cup DOMAIN HelperArity |-> Native(name)]
  /\ out = <<>>
  /\ lastErr = Nil

Next ==
  \/ Constant \/ Shuffle \/ Operator \/ IsTest \/ Negate \/ Not \/ Jump
  \/ DefineGlobal \/ GetGlobal \/ SetGlobal \/ PostGlobal
  \/ Local \/ IsMissingArg \/ PostLocal
  \/ Upvalue \/ PostUpvalue \/ Closure \/ CloseUpvalue
  \/ Call \/ CallSpread \/ CallNamed \/ TagOrCall
  \/ Class \/ Member \/ Inherit \/ GetProperty \/ SetProperty \/ GetSuper
  \/ Build \/ SetAdd \/ GetIndex \/ SetIndex
  \/ TryBegin \/ TryEnd \/ Throw \/ Defer \/ Return
  \/ StartDefer \/ FinishReturn \/ DropFrame \/ Catch \/ ExecFails \/ ExecReturns \/ NativeOn
  \/ Halted

Spec == Init /\ [][Next]_vars

\* The dispatch loop goes on by itself.
FairSpec == Spec /\ WF_vars(Next)

-----------------------------------------------------------------------------
(* Properties. *)

\* Every part of the state has the shape the machine relies on: frames lie one
\* above the other, each at an instruction of its function.
TypeOK ==
  /\ prog \in DOMAIN Code
  /\ \A i \in DOMAIN frames :
       /\ frames[i].fn \in DOMAIN Code[prog] /\ frames[i].clo \in DOMAIN heap
       /\ frames[i].ip \in 1 .. (Len(Fn(frames[i].fn).code) + 1)
       /\ i > 1 => frames[i - 1].base < frames[i].base
  /\ \A i \in DOMAIN cells : cells[i].slot >= 0
  /\ \A i \in DOMAIN handlers : handlers[i].ip \in Nat /\ handlers[i].top \in Nat /\ handlers[i].frame \in Nat \ {0}
  /\ Len(frames) <= MaxFrames
  /\ ctl.c \in {"run", "raise", "drain", "return", "ok", "native", "halt"}

\* Handlers are those of the active frames, innermost last; a nested execute()
\* never takes one from the execute() that started it, and a function that
\* returns has ended all its own (emitFinallyUnwind, OP_TRY_END).
HandlersNested ==
  /\ \A i, j \in DOMAIN handlers : i <= j => handlers[i].frame <= handlers[j].frame /\ handlers[i].top <= handlers[j].top
  /\ \A i \in DOMAIN execs :
       /\ execs[i].floor <= Len(handlers)
       /\ \A j \in DOMAIN handlers : handlers[j].frame <= execs[i].base <=> j <= execs[i].floor
  /\ At("RETURN") => \A i \in DOMAIN handlers : handlers[i].frame < Len(frames)

\* An open upvalue is on the stack, and two of them are never the same variable:
\* closures of one variable share it (captureUpvalue, closeUpvalues).
OpenCellsLive ==
  /\ Running => \A i \in DOMAIN cells : cells[i].slot <= Len(stack)
  /\ \A i, j \in DOMAIN cells : i # j /\ cells[i].slot = cells[j].slot => cells[i].slot = 0

\* Handlers and open upvalues are those of the code that still runs.
OwnersLive == HandlersNested /\ OpenCellsLive

\* A step of a function changes no variable of its callers but the captured ones.
Below == SubSeq(stack, 1, Top.base - 1)

CallersKept ==
  [][Running => \A i \in DOMAIN Below :
       (i \in DOMAIN stack' /\ stack'[i] = stack[i]) \/ \E c \in DOMAIN cells : cells[c].slot = i]_vars

\* Every program ends (its loops are bounded): no jump is lost.
Terminates == ctl.c # "halt" ~> ctl.c = "halt"
=============================================================================
