---------------------------- MODULE StackHeights ----------------------------
(* What the code of a function does to the stack, whatever the values: the   *)
(* number of values in its frame before each of its instructions.            *)
EXTENDS Integers, Sequences, SequencesExt

\* How many more values an instruction leaves than it takes.
Effect(ins) ==
  CASE ins.op \in {"CONSTANT", "DUP", "GET_GLOBAL", "GET_LOCAL", "GET_UPVALUE", "IS_MISSING_ARG", "POST_GLOBAL",
                   "POST_LOCAL", "POST_UPVALUE", "CLOSURE", "CLASS"} -> 1
    [] ins.op \in {"ADD", "SUBTRACT", "MULTIPLY", "DIVIDE", "MODULO", "EQUAL", "NOT_EQUAL", "LESS", "GREATER", "LESS_EQUAL",
                   "GREATER_EQUAL", "POP", "IS", "POP_JUMP_IF_FALSE", "DEFINE_GLOBAL", "CALL_SPREAD", "CLOSE_UPVALUE", "METHOD",
                   "STATIC_METHOD", "METHOD_DECORATOR", "SET_PROPERTY", "SET_INSERT", "SET_SPREAD", "INDEX_GET",
                   "DEFER", "RETURN", "THROW"} -> -1
    [] ins.op \in {"INHERIT", "INDEX_SET"} -> -2
    [] ins.op \in {"CALL", "CALL_NAMED"} -> -ins.argc
    [] ins.op = "TAG_OR_CALL" -> 1 - ins.argc
    [] ins.op \in {"BUILD_ARRAY", "BUILD_SET", "BUILD_MAP", "BUILD_STRING"} -> 1 - ins.count
    [] OTHER -> 0

\* Where an instruction goes on, and with how many values when there are n before it.
Successors(code, ip, n) ==
  LET ins == code[ip]
      next == IF ins.op \in {"JUMP", "RETURN", "THROW"} THEN {} ELSE {<<ip + 1, n + Effect(ins)>>}
      jump == IF ins.op = "TRY_BEGIN" THEN {<<ins.to, n + 1>>}
              ELSE IF "to" \in DOMAIN ins THEN {<<ins.to, n + Effect(ins)>>} ELSE {}
  IN next \cup jump

Unknown == -1       \* no way to the instruction has been found
Conflict == -2      \* two ways to it differ

Meet(old, n) == IF old \in {Unknown, n} THEN n ELSE Conflict

\* The heights of the instructions from first to last, from those known before them.
RECURSIVE HeightsFrom(_, _, _, _)
HeightsFrom(code, heights, first, last) ==
  LET half == (first + last) \div 2
      before == HeightsFrom(code, heights, first, half)
  IN IF first = last
     THEN IF heights[first] < 0 THEN heights
          ELSE FoldSet(LAMBDA s, hs : [hs EXCEPT ![s[1]] = Meet(@, s[2])], heights,
                       Successors(code, first, heights[first]))
     ELSE IF Len(before) = 0 THEN before ELSE HeightsFrom(code, before, half + 1, last)

Heights(fn) ==
  LET n == Len(fn.code)
      start == 1 + fn.arity + (IF fn.rest THEN 1 ELSE 0)
  IN HeightsFrom(fn.code, <<start>> \o [i \in 1 .. (n - 1) |-> Unknown], 1, n)

=============================================================================
