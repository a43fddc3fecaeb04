------------------------------ MODULE Language ------------------------------
(* The two engines side by side: each program is compiled and run by the     *)
(* machine, and what it prints is compared with what the tree-walker prints. *)
EXTENDS Machine, Engines

CONSTANTS Expected,     \* what the tree-walker makes of each program
          Verified      \* how high the stack is at each instruction of it

Reference == Expected       \* each is evaluated once
FrameHeights == Verified

\* The machine prints what the tree-walker prints, in the same order, and ends
\* in an error exactly when it does ("Both engines support the full language").
SameAsTreeWalker ==
  /\ IsPrefix(out, Reference[prog].out)
  /\ ctl.c = "halt" => /\ out = Reference[prog].out
                       /\ ctl.failed = Reference[prog].failed

\* On every path to an instruction its frame holds the same number of values:
\* no break, continue, return, error or match arm leaves one too many or takes
\* one from below (emitLoopExitPops, emitFinallyUnwind, endScope).
StackBalanced ==
  /\ ctl.c = "halt" => \A i \in DOMAIN FrameHeights[prog] : H!Conflict \notin ToSet(FrameHeights[prog][i])
  /\ Running => Len(stack) - Top.base + 1 = FrameHeights[prog][Top.fn][Top.ip]
=============================================================================
