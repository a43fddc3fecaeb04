------------------------------ MODULE VmUnwind ------------------------------
(***************************************************************************)
(* Control flow of the bytecode VM (vm/vm.cpp) when functions return,      *)
(* throw, defer, yield or exit: call frames, the exception-handler stack,  *)
(* the per-frame lists of deferred calls, and the nesting of execute()     *)
(* inside natives, deferred calls, generators and posted callbacks.        *)
(*                                                                         *)
(* The program is arbitrary: whenever execute() is on top it may perform   *)
(* any instruction the compiler can emit at that point.  `cpp` is the C++  *)
(* stack: execute() activations and the runtime functions that are waiting *)
(* for one to finish; `ret` is what the activation just popped reported.   *)
(***************************************************************************)
EXTENDS Sequences, Naturals, SequencesExt

CONSTANTS FramesMax,   \* FRAMES_MAX
          Features,    \* which constructs the program uses
          MaxActs, MaxTrys, MaxDefers, MaxYields   \* bounds on the program

ASSUME FeatureAssumption ==
  Features \subseteq {"native", "posted", "operatorTry", "overflow",
                       "exit", "exitTry", "exitGen", "deferExit", "deferCall", "deferLimit",
                       "gen", "genTry", "genDefer"}
ASSUME BoundAssumption ==
  FramesMax \in Nat \ {0} /\ {MaxActs, MaxTrys, MaxDefers, MaxYields} \subseteq Nat

VARIABLES frames, frameCount,  \* frames[i]: the activation in slot i
          handlers,            \* exceptionHandlers
          deferStack,          \* deferStack[i]: pending defers of slot i
          cpp, ret,
          generator,           \* one generator object
          currentGen,          \* currentGenerator_ # nullptr, genBaseFrame_
          kind,                \* kind[a]: what activation a runs
          trys,                \* trys[a]: try blocks open at a's instruction pointer
          defers,              \* every defer ever registered: owner, times started
          gone,                \* history: activations that have exited
          used                 \* try blocks entered and values yielded (bounds)

vars == <<frames, frameCount, handlers, deferStack, cpp, ret, generator,
          currentGen, kind, trys, defers, gone, used>>

frameVars == <<frames, frameCount, kind, trys, gone>>
genVars   == <<generator, currentGen>>

Exec(base) == [fn |-> "execute", base |-> base, floor |-> Len(handlers)]

Init ==
  /\ frames = [i \in 1 .. FramesMax |-> IF i = 1 THEN 1 ELSE 0]
  /\ frameCount = 1
  /\ handlers = <<>>
  /\ deferStack = [i \in 1 .. FramesMax |-> <<>>]
  /\ cpp = <<[fn |-> "execute", base |-> 0, floor |-> 0]>> /\ ret = "none"
  /\ generator = [state |-> "none", act |-> 0]
  /\ currentGen = [set |-> FALSE, base |-> 0]
  /\ kind = <<"script">> /\ trys = <<0>>
  /\ defers = <<>> /\ gone = {} /\ used = [trys |-> 0, yields |-> 0]

Top     == Last(cpp)
Below   == Front(cpp)
Current == frames[frameCount]

\* execute() is running an instruction.
Running == cpp # <<>> /\ Top.fn = "execute" /\ ret = "none"

\* A runtime function is on top and what it waited for has reported r.
Resumed(fn, r) == cpp # <<>> /\ Top.fn = fn /\ ret = r

\* A new activation in the next slot.
PushFrame(what) ==
  /\ frameCount < FramesMax
  /\ frames' = [frames EXCEPT ![frameCount + 1] = Len(kind) + 1]
  /\ frameCount' = frameCount + 1
  /\ kind' = Append(kind, what) /\ trys' = Append(trys, 0)
  /\ UNCHANGED gone

\* Without "deferLimit" a frame takes the last slot only outside every try
\* block, and opens none there (see StartDeferAtLimit).
LastSlotFree ==
  frameCount + 1 = FramesMax => handlers = <<>> \/ "deferLimit" \in Features

MayCall == Len(kind) < MaxActs /\ LastSlotFree

\* Frames above slot n are given up.
DropTo(n) ==
  /\ frameCount' = n
  /\ gone' = gone \cup {frames[i] : i \in n + 1 .. frameCount}
  /\ UNCHANGED <<frames, kind, trys>>

-----------------------------------------------------------------------------
(* Instructions.                                                           *)

\* OP_CALL of a function.  Without "deferCall" a deferred expression calls
\* functions only where ending early cannot leave a try open (see DeferBack).
Call ==
  /\ Running /\ MayCall
  /\ kind[Current] = "defer" /\ trys[Current] > 0 => "deferCall" \in Features
  /\ PushFrame("func")
  /\ UNCHANGED <<handlers, deferStack, cpp, ret, genVars, defers, used>>

\* What the callee of a native, a posted callback or a generator must leave alone.
Caller == [n |-> frameCount, frames |-> [i \in 1 .. frameCount |-> frames[i]],
           handlers |-> handlers]

\* A native calls back (callWithVM, VMClosureCallable::call), or drainPosted
\* runs a callback another thread posted.
Reenter(fn) ==
  /\ Running /\ MayCall /\ fn \in Features
  /\ PushFrame("func")
  /\ cpp' = cpp \o <<[fn |-> fn, caller |-> Caller], Exec(frameCount)>>
  /\ UNCHANGED <<handlers, deferStack, ret, genVars, defers, used>>

TryBegin ==
  /\ Running /\ used.trys < MaxTrys
  /\ frameCount = FramesMax => "deferLimit" \in Features
  /\ kind[Current] = "gen" => "genTry" \in Features
  /\ handlers' = Append(handlers,
                        [frame |-> frameCount, act |-> Current, depth |-> trys[Current]])
  /\ trys' = [trys EXCEPT ![Current] = @ + 1]
  /\ used' = [used EXCEPT !.trys = @ + 1]
  /\ UNCHANGED <<frames, frameCount, deferStack, cpp, ret, genVars, kind, defers, gone>>

TryEnd ==
  /\ Running /\ trys[Current] > 0
  /\ handlers' = IF handlers = <<>> THEN handlers ELSE Front(handlers)
  /\ trys' = [trys EXCEPT ![Current] = @ - 1]
  /\ UNCHANGED <<frames, frameCount, deferStack, cpp, ret, genVars, kind, defers, gone, used>>

\* A <defer> closure holds one expression, so it never registers a defer itself.
Defer ==
  /\ Running /\ Len(defers) < MaxDefers
  /\ kind[Current] # "defer"
  /\ kind[Current] = "gen" => "genDefer" \in Features
  /\ deferStack' = [deferStack EXCEPT ![frameCount] = Append(@, Len(defers) + 1)]
  /\ defers' = Append(defers, [owner |-> Current, started |-> 0])
  /\ UNCHANGED <<frameVars, handlers, cpp, ret, genVars, used>>

\* Every frame of the execute() on top of `stack` is to be unwound.
UnwindAll(stack) ==
  /\ UNCHANGED handlers
  /\ cpp' = Append(stack, [fn |-> "unwind", target |-> Last(stack).base, how |-> "error"])

\* Mutant: a throw may be caught by a try of an outer execute().
Raise_NoFloor(stack) ==
  IF handlers # <<>>
    THEN /\ handlers' = Front(handlers)
         /\ cpp' = Append(stack, [fn |-> "catch", handler |-> Last(handlers)])
    ELSE UnwindAll(stack)

\* An error in the execute() on top of `stack`: caught by the innermost try of
\* this execute(), or every frame of this execute() is unwound.
Raise(stack) ==
  IF Len(handlers) > Last(stack).floor
    THEN /\ handlers' = Front(handlers)
         /\ cpp' = Append(stack, [fn |-> "catch", handler |-> Last(handlers)])
    ELSE UnwindAll(stack)

\* A RuntimeError leaves the instruction as a C++ exception: execute() catches
\* it outside its loop and asks no try block.  Those open in this execute() are
\* unwound and their handlers stay behind; without "operatorTry" there are none.
Escapes(stack) ==
  /\ Len(handlers) > Last(stack).floor => "operatorTry" \in Features
  /\ UnwindAll(stack)

\* OP_THROW, an error an instruction reports itself (RUNTIME_ERR), one that
\* callValue catches for it, or a call beyond FRAMES_MAX.
Throw ==
  /\ Running
  /\ Raise(cpp)
  /\ UNCHANGED <<frameVars, deferStack, ret, genVars, defers, used>>

\* push() on a full value stack gives up every frame first (resetStack).
FrameCounts == IF "overflow" \in Features THEN {0, frameCount} ELSE {frameCount}

\* An operator method or a method's decorator that is native fails, or push()
\* overflows.
Escape ==
  /\ Running
  /\ Escapes(cpp)
  /\ \E n \in FrameCounts : DropTo(n)
  /\ UNCHANGED <<deferStack, ret, genVars, defers, used>>

\* What the execute() on top of `stack` called has failed: callValue called it,
\* or an operator or a decorator did (vmCallDunder, callWithVM).
CalleeFails(stack) == Raise(stack) \/ Escapes(stack)

\* The innermost activation of fn.
Topmost(fn) == CHOOSE i \in DOMAIN cpp : /\ cpp[i].fn = fn
                                        /\ \A j \in DOMAIN cpp : cpp[j].fn = fn => j <= i

\* Where an exit ends: at the callback drainPosted runs, or with the script.
ExitEnd ==
  IF \E i \in DOMAIN cpp : cpp[i].fn = "posted"
    THEN cpp[Topmost("posted")].caller
    ELSE [n |-> 0, handlers |-> <<>>]

\* sys.exit() throws ExitSignal through the native that implements it.  What it
\* ends keeps its handlers and stays the current generator (see ExitPasses).
Exit ==
  /\ Running /\ "exit" \in Features
  /\ (\E i \in DOMAIN cpp : cpp[i].fn = "defers") => "deferExit" \in Features
  /\ Len(handlers) > Len(ExitEnd.handlers) => "exitTry" \in Features
  /\ currentGen.set /\ currentGen.base >= ExitEnd.n => "exitGen" \in Features
  /\ ret' = "exit"
  /\ UNCHANGED <<frameVars, handlers, deferStack, cpp, genVars, defers, used>>

\* OP_RETURN: the compiler has ended the function's try blocks before it.
Return ==
  /\ Running /\ trys[Current] = 0
  /\ cpp' = Append(cpp, [fn |-> "return"])
  /\ UNCHANGED <<frameVars, handlers, deferStack, ret, genVars, defers, used>>

-----------------------------------------------------------------------------
(* Generators.                                                             *)

\* Calling a generator function only creates the object.
NewGenerator ==
  /\ Running /\ Len(kind) < MaxActs /\ "gen" \in Features /\ generator.state = "none"
  /\ generator' = [state |-> "created", act |-> Len(kind) + 1]
  /\ kind' = Append(kind, "gen") /\ trys' = Append(trys, 0)
  /\ UNCHANGED <<frames, frameCount, gone, handlers, deferStack, cpp, ret, currentGen, defers, used>>

\* resumeGenerator (a generator that resumes itself is not modelled).
NextValue ==
  /\ Running /\ generator.state \in {"created", "suspended"}
  /\ frameCount < FramesMax /\ LastSlotFree
  /\ frames' = [frames EXCEPT ![frameCount + 1] = generator.act]
  /\ frameCount' = frameCount + 1
  /\ generator' = [generator EXCEPT !.state = "running"]
  /\ currentGen' = [set |-> TRUE, base |-> frameCount]
  /\ cpp' = cpp \o <<[fn |-> "resume", caller |-> Caller, previous |-> currentGen],
                     Exec(frameCount)>>
  /\ UNCHANGED <<kind, trys, gone, handlers, deferStack, ret, defers, used>>

\* OP_YIELD leaves handlers and deferStack as they are.
Yield ==
  /\ Running /\ kind[Current] = "gen" /\ used.yields < MaxYields
  /\ generator' = [generator EXCEPT !.state = "suspended"]
  /\ frameCount' = currentGen.base
  /\ cpp' = Below /\ ret' = "ok"
  /\ used' = [used EXCEPT !.yields = @ + 1]
  /\ UNCHANGED <<frames, kind, trys, gone, handlers, deferStack, currentGen, defers>>

\* resumeGenerator after its execute().
GeneratorBack ==
  /\ \E r \in {"ok", "error"} : Resumed("resume", r)
  /\ currentGen' = Top.previous
  /\ ret' = "none"
  /\ IF ret = "ok"
       THEN cpp' = Below /\ UNCHANGED <<generator, handlers>>
       ELSE generator' = [generator EXCEPT !.state = "completed"] /\ CalleeFails(Below)
  /\ UNCHANGED <<frameVars, deferStack, defers, used>>

-----------------------------------------------------------------------------
(* The runtime functions.                                                  *)

\* Mutant: an unwind loop drops a frame without running its defers.
UnwindFrame_SkipDefers ==
  IF Top.fn = "return"
    THEN /\ cpp' = Append(cpp, [fn |-> "defers", todo |-> deferStack[frameCount],
                                act |-> Current, saved |-> frameCount])
         /\ deferStack' = [deferStack EXCEPT ![frameCount] = <<>>]
         /\ UNCHANGED frameVars
    ELSE DropTo(frameCount - 1) /\ UNCHANGED <<cpp, deferStack>>

\* One round of an unwind loop: the frame's defers run, then it is dropped.
UnwindFrame ==
  IF deferStack[frameCount] # <<>>
    THEN /\ cpp' = Append(cpp, [fn |-> "defers", todo |-> deferStack[frameCount],
                                act |-> Current, saved |-> frameCount])
         /\ deferStack' = [deferStack EXCEPT ![frameCount] = <<>>]
         /\ UNCHANGED frameVars
    ELSE DropTo(frameCount - 1) /\ UNCHANGED <<cpp, deferStack>>

\* Mutant: the frame that holds the try is unwound too.
CatchUnwinds_TooFar(h) == frameCount >= h.frame
CatchUnwinds(h) == frameCount > h.frame

\* tryHandleError: frames above the handler's are unwound, then its catch runs
\* (in a nested execute() when runDefers was the caller, see StartDeferAtLimit).
Catch ==
  /\ Resumed("catch", "none")
  /\ UNCHANGED <<handlers, genVars, defers, used>>
  /\ LET h == Top.handler IN
     IF CatchUnwinds(h)
       THEN UnwindFrame /\ UNCHANGED ret
       ELSE /\ trys' = [trys EXCEPT ![Current] = h.depth]
            /\ cpp' = IF Last(Below).fn = "defers" THEN Append(Below, Exec(frameCount))
                                                   ELSE Below
            /\ UNCHANGED <<frames, frameCount, kind, gone, deferStack, ret>>

\* unwindFramesAndRunDefers; then execute() reports the error, or lets the
\* exit through.
Unwind ==
  /\ Resumed("unwind", "none")
  /\ UNCHANGED <<handlers, genVars, defers, used>>
  /\ IF frameCount > Top.target
       THEN UnwindFrame /\ UNCHANGED ret
       ELSE /\ cpp' = Front(Below) /\ ret' = Top.how
            /\ UNCHANGED <<frameVars, deferStack>>

\* Handlers of slot n and above are popped, the safety net of OP_RETURN.
WithoutFrame(hs, n) ==
  LET kept == CHOOSE m \in 0 .. Len(hs) :
                /\ \A i \in m + 1 .. Len(hs) : hs[i].frame >= n
                /\ m > 0 => hs[m].frame < n
  IN  SubSeq(hs, 1, kept)

\* OP_RETURN: the defers run first; the base frame of an execute() ends it.
Returning ==
  /\ Resumed("return", "none")
  /\ UNCHANGED <<defers, used>>
  /\ LET isGen == currentGen.set /\ frameCount - 1 = currentGen.base
     IN IF deferStack[frameCount] # <<>>
          THEN UnwindFrame /\ UNCHANGED <<handlers, ret, genVars>>
          ELSE /\ DropTo(frameCount - 1)
               /\ handlers' = IF isGen THEN handlers ELSE WithoutFrame(handlers, frameCount)
               /\ generator' = IF isGen THEN [generator EXCEPT !.state = "completed"]
                                        ELSE generator
               /\ IF isGen \/ frameCount - 1 <= Last(Below).base
                    THEN cpp' = Front(Below) /\ ret' = "ok"
                    ELSE cpp' = Below /\ UNCHANGED ret
               /\ UNCHANGED <<deferStack, currentGen>>

\* callWithVM throws when the callback has failed, and the native with it.
NativeBack ==
  /\ \E r \in {"ok", "error"} : Resumed("native", r)
  /\ ret' = "none"
  /\ IF ret = "ok" THEN cpp' = Below /\ UNCHANGED handlers ELSE CalleeFails(Below)
  /\ UNCHANGED <<frameVars, deferStack, genVars, defers, used>>

\* drainPosted logs whatever a callback throws, ExitSignal included, and
\* restores the frames and the handlers.
PostedBack ==
  /\ \E r \in {"ok", "error", "exit"} : Resumed("posted", r)
  /\ IF ret = "ok" THEN UNCHANGED <<frameVars, handlers>>
     ELSE /\ DropTo(Top.caller.n)
          /\ handlers' = IF Len(handlers) > Len(Top.caller.handlers)
                           THEN SubSeq(handlers, 1, Len(Top.caller.handlers)) ELSE handlers
  /\ cpp' = Below /\ ret' = "none"
  /\ UNCHANGED <<deferStack, genVars, defers, used>>

-----------------------------------------------------------------------------
(* runDefers.                                                              *)

NextDefer(todo) == <<Last(todo), Front(todo)>>

Started(d) == defers' = [defers EXCEPT ![d].started = @ + 1]

\* The next defer is called and a nested execute() runs it.
StartDefer ==
  /\ Resumed("defers", "none") /\ Top.todo # <<>>
  /\ PushFrame("defer")
  /\ LET d == NextDefer(Top.todo) IN
     /\ Started(d[1])
     /\ cpp' = Below \o <<[Top EXCEPT !.todo = d[2]], Exec(frameCount + 1)>>
  /\ UNCHANGED <<handlers, deferStack, ret, genVars, used>>

\* At FRAMES_MAX callValue raises before the nested execute() begins, so a try
\* of the *enclosing* execute() handles the error; runDefers takes callValue's
\* TRUE for a started call.  Without such a try the defer counts as failed.
StartDeferAtLimit ==
  /\ Resumed("defers", "none") /\ Top.todo # <<>> /\ frameCount = FramesMax
  /\ LET d     == NextDefer(Top.todo)
         stack == Append(Below, [Top EXCEPT !.todo = d[2]])
         floor == cpp[Topmost("execute")].floor
     IN /\ Started(d[1])
        /\ IF Len(handlers) > floor
             THEN /\ handlers' = Front(handlers)
                  /\ cpp' = Append(stack, [fn |-> "catch", handler |-> Last(handlers)])
             ELSE cpp' = stack /\ UNCHANGED handlers
  /\ UNCHANGED <<frameVars, deferStack, ret, genVars, used>>

\* The nested execute() has ended or failed: the frame count is restored.  Its
\* base includes the deferred closure's own frame, so it ends as soon as any
\* function called by the deferred expression returns.
DeferBack ==
  /\ \E r \in {"ok", "error"} : Resumed("defers", r)
  /\ DropTo(Top.saved) /\ ret' = "none"
  /\ UNCHANGED <<handlers, deferStack, cpp, genVars, defers, used>>

DefersDone ==
  /\ Resumed("defers", "none") /\ Top.todo = <<>>
  /\ cpp' = Below
  /\ UNCHANGED <<frameVars, handlers, deferStack, ret, genVars, defers, used>>

-----------------------------------------------------------------------------
(* ExitSignal on its way up.                                               *)

\* execute() catches it, unwinds its own frames and rethrows; an exit during
\* that unwinding is not caught again.
ExitPasses ==
  /\ ret = "exit" /\ cpp # <<>> /\ Top.fn # "posted"
  /\ UNCHANGED <<handlers, deferStack, genVars, defers, used>>
  /\ \/ /\ Top.fn = "execute"
        /\ cpp' = Append(cpp, [fn |-> "unwind", target |-> Top.base, how |-> "exit"])
        /\ ret' = "none" /\ UNCHANGED frameVars
     \/ /\ Top.fn = "unwind" /\ Top.how = "error"
        /\ cpp' = Append(Below, [Top EXCEPT !.how = "exit"])
        /\ ret' = "none" /\ UNCHANGED frameVars
     \/ /\ Top.fn = "unwind" /\ Top.how = "exit"
        /\ cpp' = Front(Below) /\ UNCHANGED <<ret, frameVars>>
     \/ /\ Top.fn = "defers"
        /\ DropTo(Top.saved) /\ cpp' = Below /\ UNCHANGED ret
     \/ /\ Top.fn \in {"return", "catch", "native", "resume"}
        /\ cpp' = Below /\ UNCHANGED <<ret, frameVars>>

\* The script is over.
Finished == cpp = <<>> /\ UNCHANGED vars

Next ==
  \/ Call \/ Reenter("native") \/ Reenter("posted")
  \/ TryBegin \/ TryEnd \/ Defer \/ Throw \/ Escape \/ Exit \/ Return
  \/ NewGenerator \/ NextValue \/ Yield \/ GeneratorBack
  \/ Catch \/ Unwind \/ Returning \/ NativeBack \/ PostedBack
  \/ StartDefer \/ StartDeferAtLimit \/ DeferBack \/ DefersDone
  \/ ExitPasses \/ Finished

Spec == Init /\ [][Next]_vars

-----------------------------------------------------------------------------
Waiting == {cpp[i] : i \in DOMAIN cpp}

\* An error is caught only by a try block that is still open, in the function
\* that entered it, and that function is still on the stack.
CatchOpen ==
  \A r \in Waiting : r.fn = "catch" =>
    /\ r.handler.frame <= frameCount
    /\ frames[r.handler.frame] = r.handler.act
    /\ trys[r.handler.act] > r.handler.depth

\* No try block is open in the functions that an error ends, and none inside
\* the try block that catches it.
ErrorPast(n) == \A i \in n + 1 .. frameCount : trys[frames[i]] = 0
CatchInnermost ==
  cpp # <<>> /\ ret = "none" =>
    /\ Top.fn = "unwind" /\ Top.how = "error" => ErrorPast(Top.target)
    /\ Top.fn = "catch" => ErrorPast(Top.handler.frame)
                            /\ trys[Top.handler.act] = Top.handler.depth + 1

\* Together: an error that an instruction raises, or that a callback's caller
\* raises again, reaches the innermost open try block, whatever callbacks,
\* generators and deferred calls ran in between.  Not one that leaves the
\* instruction inside a try ("operatorTry"): it passes every open try block.
CatchInOwner == CatchOpen /\ CatchInnermost

\* "defer registers an expression to run when the enclosing function exits"
\* (DOCUMENTATION.md): the defers that run are those of the function that is
\* exiting.
DefersOwned ==
  \A r \in Waiting : r.fn = "defers" =>
    \A i \in DOMAIN r.todo : defers[r.todo[i]].owner = r.act

\* ... all of them have started when it is gone, none twice, the last
\* registered first.
DefersRunOnce ==
  /\ \A d \in DOMAIN defers : defers[d].started <= 1
  /\ \A d \in DOMAIN defers : defers[d].owner \in gone => defers[d].started = 1

DefersLifo ==
  \A d, e \in DOMAIN defers :
    d < e /\ defers[d].owner = defers[e].owner /\ defers[d].started = 1 => defers[e].started = 1

\* The three together: the function's own defers are started, each once, in
\* reverse order.  A value stack that overflows loses them ("overflow").
DefersExact == DefersOwned /\ DefersRunOnce /\ DefersLifo

\* A deferred expression that does not fail is evaluated to its end: its closure
\* executes its own OP_RETURN.
DefersComplete == Resumed("defers", "ok") => frameCount = Top.saved

\* A function that has returned or was unwound never runs again.
NoResurrection == \A i \in 1 .. frameCount : frames[i] \notin gone

\* Whatever a callback does, the frames and handlers of the code that is
\* waiting for it stay as they were.  The code does not keep this when an error
\* leaves an instruction inside a try ("operatorTry"), an exit leaves one
\* ("exitTry"), or a generator yields inside one ("genTry").
CallerUntouched ==
  \A r \in Waiting : r.fn \in {"native", "posted", "resume"} =>
    /\ r.caller.n <= frameCount
    /\ \A i \in 1 .. r.caller.n : frames[i] = r.caller.frames[i]
    /\ IsPrefix(r.caller.handlers, handlers)
    /\ r = Top /\ ret # "exit" => handlers = r.caller.handlers
=============================================================================
