------------------------------- MODULE Engines ------------------------------
(* The two ways to run a program: compiled, or by the tree-walker.           *)
EXTENDS Natives, Ast

CONSTANT MaxDepth     \* the deepest call stack of the tree-walker

C == INSTANCE Compiler
W == INSTANCE TreeWalker
H == INSTANCE StackHeights

CompiledCode(program) == C!CompileProgram(program).fns
Interpreted(program) == W!Interpret(program, DOMAIN GlobalArity)

\* How high the stack is at each instruction of each function.
HeightsOf(fns) == [i \in DOMAIN fns |-> H!Heights(fns[i])] \o <<>>
=============================================================================
