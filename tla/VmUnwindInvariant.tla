------------------------- MODULE VmUnwindInvariant -------------------------
(* The inductive invariant of VmUnwind.  What the module promises (errors    *)
(* are caught where they belong, deferred calls run once, callers stay as    *)
(* they were) relates the frames, the handlers and the C++ stack; so does    *)
(* this, for every instruction that may come next.                           *)
EXTENDS VmUnwind

-----------------------------------------------------------------------------
(* Types.                                                                    *)

Handler == [frame : Nat, act : Nat, depth : Nat]
CallerRec == [n : Nat, frames : Seq(Nat), handlers : Seq(Handler)]
GenRec == [set : BOOLEAN, base : Nat]

Record ==
  [fn : {"execute"}, base : Nat, floor : Nat]
    \cup [fn : {"return"}]
    \cup [fn : {"catch"}, handler : Handler]
    \cup [fn : {"unwind"}, target : Nat, how : {"error", "exit"}]
    \cup [fn : {"defers"}, todo : Seq(Nat), act : Nat, saved : Nat]
    \cup [fn : {"native", "posted"}, caller : CallerRec]
    \cup [fn : {"resume"}, caller : CallerRec, previous : GenRec]

TypeOK ==
  /\ frames \in [1 .. FramesMax -> Nat] /\ frameCount \in 0 .. FramesMax
  /\ handlers \in Seq(Handler)
  /\ deferStack \in [1 .. FramesMax -> Seq(Nat)]
  /\ cpp \in Seq(Record) /\ ret \in {"none", "ok", "error", "exit"}
  /\ generator \in [state : {"none", "created", "running", "suspended", "completed"}, act : Nat]
  /\ currentGen \in GenRec
  /\ kind \in Seq({"script", "func", "gen", "defer"})
  /\ trys \in Seq(Nat) /\ Len(trys) = Len(kind)
  /\ defers \in Seq([owner : Nat, started : Nat])
  /\ gone \subseteq 1 .. Len(kind)
  /\ used \in [trys : Nat, yields : Nat]

-----------------------------------------------------------------------------
(* The C++ stack.                                                            *)

Calls(r) == r.fn \in {"native", "posted", "resume"}
Waits(r) == r.fn = "defers" \/ Calls(r)
Ends(r)  == r.fn \in {"return", "catch", "unwind"}

\* The frames that were there when r began to wait.
Mark(r) == IF r.fn = "defers" THEN r.saved ELSE r.caller.n

\* The frames below those of the execute() at k.
Floor(k) == IF k = 1 THEN 0 ELSE Mark(cpp[k - 1])

\* The frame that the return, catch or unwinding at k is about to end.
Lim(k) == IF k = Len(cpp) THEN frameCount ELSE Mark(cpp[k + 1])

\* Where it stops.
Stop(r) == IF r.fn = "catch" THEN r.handler.frame ELSE r.target

\* What the frame in slot i runs, and how many try blocks are open in it.
runs == [i \in 1 .. frameCount |-> kind[frames[i]]]
open == [i \in 1 .. frameCount |-> trys[frames[i]]]

\* execute() runs under what waits for it, the rest under execute(), and
\* deferred calls under what ends their function.
NestedAt(k) ==
  /\ k = 1 => cpp[k].fn = "execute" /\ cpp[k].base = 0
  /\ k > 1 =>
       /\ cpp[k].fn = "execute" => Waits(cpp[k - 1])
       /\ cpp[k].fn = "execute" /\ cpp[k - 1].fn = "defers" => cpp[k].base = cpp[k - 1].saved + 1
       /\ cpp[k].fn = "execute" /\ Calls(cpp[k - 1]) => cpp[k].base = cpp[k - 1].caller.n
       /\ Ends(cpp[k]) \/ Calls(cpp[k]) => cpp[k - 1].fn = "execute"
       /\ cpp[k].fn = "unwind" => cpp[k].target = cpp[k - 1].base
       /\ cpp[k].fn = "defers" => Ends(cpp[k - 1])
Nested == \A k \in DOMAIN cpp : NestedAt(k)

\* What has just been reported, and to whom.
Reported ==
  /\ cpp # <<>> =>
       /\ Top.fn = "execute" => ret \in {"none", "exit"}
       /\ Ends(Top) => ret = "none"
       /\ Calls(Top) => ret # "none"
  /\ ret = "exit" => \A k \in DOMAIN cpp : cpp[k].fn # "defers"

\* Marks rise from the bottom to the top, and the frames below them are there.
MarksRise ==
  \A j, k \in DOMAIN cpp : j < k /\ Waits(cpp[j]) /\ Waits(cpp[k]) => Mark(cpp[j]) < Mark(cpp[k])
MarkAt(k) == Waits(cpp[k]) => 0 < Mark(cpp[k]) /\ Mark(cpp[k]) <= frameCount
MarksHold == \A k \in DOMAIN cpp : MarkAt(k)

\* What is on top has a frame of its own, or none any more.
TopFrames ==
  cpp # <<>> => /\ Top.fn = "execute" => Floor(Len(cpp)) < frameCount
                /\ Calls(Top) => frameCount = Top.caller.n
                /\ Top.fn = "defers" => frameCount <= Top.saved + 1
                /\ Top.fn = "defers" /\ ret = "none" => frameCount = Top.saved

\* What ends functions stops at its handler or target.
StopAt(k) ==
  /\ cpp[k].fn = "return" => Floor(k - 1) < Lim(k)
  /\ cpp[k].fn = "catch" => Floor(k - 1) < cpp[k].handler.frame
  /\ cpp[k].fn \in {"catch", "unwind"} => /\ Stop(cpp[k]) <= Lim(k)
                                          /\ k < Len(cpp) => Stop(cpp[k]) < Lim(k)
EndsStop == \A k \in DOMAIN cpp : StopAt(k)

-----------------------------------------------------------------------------
(* Frames and generators.                                                    *)

\* A live frame is an activation of its own that has not ended.
Live ==
  /\ \A i \in 1 .. frameCount : frames[i] \in 1 .. Len(kind) /\ frames[i] \notin gone
  /\ \A i, j \in 1 .. frameCount : i # j => frames[i] # frames[j]

\* Deferred calls have frames of their own.
DeferFrameAt(k) ==
  cpp[k].fn = "defers" =>
    /\ frameCount > cpp[k].saved => runs[cpp[k].saved + 1] = "defer"
    /\ k < Len(cpp) => frameCount > cpp[k].saved
DeferFrames == \A k \in DOMAIN cpp : DeferFrameAt(k)

\* The generator's activation.
OneGenerator ==
  /\ \A a \in 1 .. Len(kind) : kind[a] = "gen" => a = generator.act /\ trys[a] = 0
  /\ generator.state = "none" => /\ \A a \in 1 .. Len(kind) : kind[a] # "gen"
                                 /\ \A k \in DOMAIN cpp : cpp[k].fn # "resume"
  /\ generator.state \in {"created", "suspended"} =>
       /\ generator.act \in 1 .. Len(kind) /\ kind[generator.act] = "gen"
       /\ generator.act \notin gone
       /\ \A i \in 1 .. frameCount : frames[i] # generator.act
       /\ \A k \in DOMAIN cpp : cpp[k].fn = "resume" => k = Len(cpp)

\* It runs in the frame above the mark of its resumeGenerator.
resumed == {cpp[k].caller.n + 1 : k \in {x \in DOMAIN cpp : cpp[x].fn = "resume"}}
ResumeAt(k) ==
  cpp[k].fn = "resume" =>
    currentGen.set /\ currentGen.base = cpp[k].caller.n /\ ~cpp[k].previous.set
Resumes ==
  /\ \A k \in DOMAIN cpp : ResumeAt(k)
  /\ currentGen.set => resumed # {}
  /\ \A i \in 1 .. frameCount : runs[i] = "gen" => i \in resumed

-----------------------------------------------------------------------------
(* Handlers.                                                                 *)

\* A handler belongs to an open try block of a live frame.
HandlersLive ==
  \A j \in DOMAIN handlers :
    /\ handlers[j].frame \in 1 .. frameCount
    /\ handlers[j].act = frames[handlers[j].frame]
    /\ handlers[j].depth < open[handlers[j].frame]

\* Inner ones come later.
HandlersRise ==
  \A i, j \in DOMAIN handlers : i < j =>
    \/ handlers[i].frame < handlers[j].frame
    \/ handlers[i].frame = handlers[j].frame /\ handlers[i].depth < handlers[j].depth

\* Every open try block has its handler, unless an error has taken it.
handled == {<<handlers[j].frame, handlers[j].depth>> : j \in DOMAIN handlers}
caught  == {<<cpp[k].handler.frame, cpp[k].handler.depth>> :
              k \in {x \in DOMAIN cpp : cpp[x].fn = "catch"}}
OpenHandled ==
  \A i \in 1 .. frameCount : \A d \in Nat : d < open[i] => <<i, d>> \in handled \cup caught

\* The handlers an execute() found are those of the frames it found.
FloorAt(k) ==
  cpp[k].fn = "execute" =>
    /\ cpp[k].floor <= Len(handlers)
    /\ \A j \in DOMAIN handlers : j <= cpp[k].floor <=> handlers[j].frame <= Floor(k)
FloorsExact == \A k \in DOMAIN cpp : FloorAt(k)

\* Who waits for a call finds its frames and handlers as they were.
CallerAt(k) ==
  Calls(cpp[k]) =>
    /\ \A i \in 1 .. cpp[k].caller.n : frames[i] = cpp[k].caller.frames[i]
    /\ Len(cpp[k].caller.handlers) <= Len(handlers)
    /\ \A j \in 1 .. Len(cpp[k].caller.handlers) : handlers[j] = cpp[k].caller.handlers[j]
    /\ k = Len(cpp) => Len(handlers) = Len(cpp[k].caller.handlers)
    /\ k < Len(cpp) => cpp[k + 1].floor = Len(cpp[k].caller.handlers)
CallersKept == \A k \in DOMAIN cpp : CallerAt(k)

\* No try block is open in what ends, and the one that catches is the innermost
\* left.
ClosedAt(k) ==
  /\ cpp[k].fn = "return" => open[Lim(k)] = 0
  /\ cpp[k].fn = "unwind" => \A i \in Floor(k - 1) + 1 .. Lim(k) : open[i] = 0
  /\ cpp[k].fn = "catch" => \A i \in cpp[k].handler.frame + 1 .. Lim(k) : open[i] = 0
  /\ cpp[k].fn = "catch" =>
       LET h == cpp[k].handler IN
       /\ h.act = frames[h.frame] /\ open[h.frame] = h.depth + 1
       /\ \A j \in DOMAIN handlers : handlers[j].frame = h.frame => handlers[j].depth < h.depth
EndsClosed == \A k \in DOMAIN cpp : ClosedAt(k)

\* A deferred call that is over has closed its own.
OverClosed ==
  cpp # <<>> /\ Top.fn = "defers" /\ ret # "none" =>
    \A i \in Top.saved + 1 .. frameCount : open[i] = 0

\* A deferred expression calls functions outside its own try blocks, others
\* inside them through a native only.
marks == {Mark(cpp[k]) : k \in {x \in DOMAIN cpp : Waits(cpp[x])}}
DeferOpens ==
  \A i \in 1 .. frameCount : runs[i] = "defer" /\ open[i] > 0 /\ i < frameCount => i \in marks

\* An exit on its way through the records below k and frames up to n meets no
\* open try block, no generator and no deferred call, up to a posted callback.
ExitFree(k, n) ==
  /\ \A j \in 1 .. k - 1 : cpp[j].fn # "defers"
  /\ \A j \in 1 .. k - 1 : cpp[j].fn = "resume" => \E p \in j .. k - 1 : cpp[p].fn = "posted"
  /\ \A i \in 1 .. n : open[i] # 0 =>
       \E p \in 1 .. k - 1 : cpp[p].fn = "posted" /\ i <= cpp[p].caller.n
ExitAt(k) == cpp[k].fn = "unwind" /\ cpp[k].how = "exit" => ExitFree(k, Lim(k))
ExitsFree ==
  /\ ret = "exit" => ExitFree(Len(cpp) + 1, frameCount)
  /\ \A k \in DOMAIN cpp : ExitAt(k)

\* The last slot is taken outside every try block or by a deferred call.
LastSlot == frameCount = FramesMax /\ runs[FramesMax] # "defer" => handlers = <<>>

-----------------------------------------------------------------------------
(* Deferred calls.                                                           *)

Rising(s) == \A i, j \in DOMAIN s : i < j => s[i] < s[j]

\* A pending list holds defers of activation a that have not started.
Pends(s, a) ==
  /\ Rising(s)
  /\ \A i \in DOMAIN s : /\ s[i] \in 1 .. Len(defers)
                         /\ defers[s[i]].owner = a /\ defers[s[i]].started = 0

\* Each slot's list is its frame's; deferred calls and generators have none.
ListAt(i) ==
  /\ i <= frameCount => Pends(deferStack[i], frames[i])
  /\ i > frameCount => deferStack[i] = <<>>
  /\ i <= frameCount /\ deferStack[i] # <<>> => runs[i] \notin {"defer", "gen"}
ListsExact == \A i \in 1 .. FramesMax : ListAt(i)

\* So is a list being run.
TodoAt(k) ==
  cpp[k].fn = "defers" =>
    /\ cpp[k].saved > 0
    /\ cpp[k].act = frames[cpp[k].saved] /\ Pends(cpp[k].todo, cpp[k].act)
    /\ deferStack[cpp[k].saved] = <<>> /\ runs[cpp[k].saved] \notin {"defer", "gen"}
TodosExact == \A k \in DOMAIN cpp : TodoAt(k)

\* A defer that has not started is in the list of a frame that has not ended.
Pending(d, i) == \/ \E x \in DOMAIN deferStack[i] : deferStack[i][x] = d
                 \/ \E k \in DOMAIN cpp : /\ cpp[k].fn = "defers" /\ cpp[k].saved = i
                                          /\ \E x \in DOMAIN cpp[k].todo : cpp[k].todo[x] = d
NoneLost ==
  \A d \in 1 .. Len(defers) :
    /\ defers[d].owner \in 1 .. Len(kind) /\ kind[defers[d].owner] \notin {"defer", "gen"}
    /\ defers[d].started \in {0, 1}
    /\ defers[d].started = 0 =>
         \E i \in 1 .. frameCount : frames[i] = defers[d].owner /\ Pending(d, i)

\* A live frame with a defer that has started is about to end.
ending == {Lim(k) : k \in {x \in DOMAIN cpp : \/ cpp[x].fn = "return"
                                              \/ /\ cpp[x].fn \in {"catch", "unwind"}
                                                 /\ Stop(cpp[x]) < Lim(x)}}
StartedEnds ==
  \A d \in 1 .. Len(defers) : defers[d].started = 1 =>
    \A i \in 1 .. frameCount : frames[i] = defers[d].owner => i \in ending

IInv ==
  /\ TypeOK /\ Nested /\ Reported /\ MarksRise /\ MarksHold /\ TopFrames /\ EndsStop
  /\ Live /\ DeferFrames /\ OneGenerator /\ Resumes
  /\ HandlersLive /\ HandlersRise /\ OpenHandled /\ FloorsExact /\ CallersKept
  /\ EndsClosed /\ OverClosed /\ DeferOpens /\ ExitsFree /\ LastSlot
  /\ ListsExact /\ TodosExact /\ NoneLost /\ StartedEnds /\ DefersLifo
=============================================================================
