------------------------------- MODULE GcHeap -------------------------------
(***************************************************************************)
(* The cycle collector of one thread (src/gc_heap.h, src/gc_heap.cpp) on   *)
(* top of shared_ptr reference counting.                                   *)
(*                                                                         *)
(* Memory is a set of nodes (objects) and a set of slots (places that can  *)
(* hold one shared_ptr or one raw pointer).  A slot belongs to a node or   *)
(* to a holder outside the heap; an object with k references to the same   *)
(* target has k slots, so multiplicities are the ones use_count() sees.    *)
(*                                                                         *)
(*   Tracked      objects made by gcNew (arrays, maps, environments, ...)  *)
(*   Untracked    nodes gcNew never sees: callables and the VM's upvalue   *)
(*                cells (Upvalues)                                         *)
(*                                                                         *)
(*   OwnSlots     references forEachChild reports as owning                *)
(*   BorrowSlots  references it reports as not owning (closure -> upvalue) *)
(*   OpaqueSlots  captures of a NativeFunction: owning, never enumerated   *)
(*   RootSlots    VM stack and globals: owning, marked by gcMarkRoots      *)
(*   UpvalueSlots VM::allUpvalues: owning, marked, only ever appended to   *)
(*   PinSlots     GcHeap::pinned_                                          *)
(*   TaskSlots    references of other threads and of C++ locals: owning,   *)
(*                known to nobody but use_count()                          *)
(*                                                                         *)
(* Destruction by a reference count that reaches zero is a step of its     *)
(* own (Destroy), because the thread that drops the last reference may be  *)
(* another one than the collecting thread.                                 *)
(***************************************************************************)
EXTENDS Integers, FiniteSets

CONSTANTS Tracked, Untracked, Upvalues, Null,
          OwnSlots, BorrowSlots, OpaqueSlots,
          RootSlots, UpvalueSlots, PinSlots, TaskSlots,
          Owner,          \* the node a node slot belongs to
          ThresholdMin,   \* 500 in the code
          ThresholdMax,   \* 10000 in the code
          MaxAllocs       \* bound on allocsSinceGc_ (model only)

Nodes       == Tracked \cup Untracked
NodeSlots   == OwnSlots \cup BorrowSlots \cup OpaqueSlots
HolderSlots == RootSlots \cup UpvalueSlots \cup PinSlots \cup TaskSlots
Slots       == NodeSlots \cup HolderSlots

\* Mutant: the pin registry keeps raw pointers.
OwningSlots_RawPins == Slots \ (BorrowSlots \cup PinSlots)

\* References that are shared_ptr's, hence part of use_count().
OwningSlots == Slots \ BorrowSlots

\* References the edge enumerator reports.
EnumSlots == OwnSlots \cup BorrowSlots

ASSUME NodeAssumption ==
  /\ IsFiniteSet(Tracked) /\ IsFiniteSet(Untracked)
  /\ Tracked \cap Untracked = {}
  /\ Upvalues \subseteq Untracked
  /\ Null \notin Nodes

ASSUME SlotAssumption ==
  /\ IsFiniteSet(Slots)
  /\ OwnSlots \cap BorrowSlots = {}
  /\ OwnSlots \cap OpaqueSlots = {}
  /\ BorrowSlots \cap OpaqueSlots = {}
  /\ NodeSlots \cap HolderSlots = {}
  /\ RootSlots \cap UpvalueSlots = {}
  /\ RootSlots \cap PinSlots = {}
  /\ RootSlots \cap TaskSlots = {}
  /\ UpvalueSlots \cap PinSlots = {}
  /\ UpvalueSlots \cap TaskSlots = {}
  /\ PinSlots \cap TaskSlots = {}
  /\ Owner \in [NodeSlots -> Nodes]
  /\ \A s \in BorrowSlots \cup OpaqueSlots : Owner[s] \in Untracked \ Upvalues

ASSUME ThresholdAssumption ==
  /\ ThresholdMin \in Nat \ {0}
  /\ ThresholdMax \in Nat /\ ThresholdMin <= ThresholdMax
  /\ MaxAllocs \in Nat

VARIABLES
  alive,      \* nodes whose destructor has not run
  ptr,        \* what each slot points at
  allocs,     \* allocsSinceGc_
  threshold,  \* threshold_
  phase,      \* where collect() is; "run" when collecting_ is false
  held,       \* held_: strong references taken by findExternallyHeld
  known,      \* keys of the node table
  refs,       \* Slot::refs of the node table
  work,       \* the scan's worklist
  marked,     \* Slot::marked
  markStack,  \* markStack_
  toCollect,  \* sweep's strong references to what it clears
  lastCollected,
  doomed,     \* history: nodes some sweep judged unreachable, until they die
  garbage     \* history: nodes no program or thread could reach when the
              \* current collection began

heapVars    == <<alive, ptr>>
tableVars   == <<held, known, refs, work, marked, markStack, toCollect>>
historyVars == <<doomed, garbage>>
vars == <<alive, ptr, allocs, threshold, phase, held, known, refs, work,
          marked, markStack, toCollect, lastCollected, doomed, garbage>>

Phases == {"run", "hold", "scan", "mark", "release", "prune"}

SlotsOf(n)  == {s \in NodeSlots : Owner[s] = n}
RefsTo(n)   == {s \in OwningSlots : ptr[s] = n}

\* shared_ptr::use_count(): the owning slots, and the collector's own.
UseCount(n) == Cardinality(RefsTo(n))
                 + (IF n \in held THEN 1 ELSE 0)
                 + (IF n \in toCollect THEN 1 ELSE 0)

\* forEachChild.
Children(n) == {ptr[s] : s \in SlotsOf(n) \cap EnumSlots} \ {Null}

\* The edges forEachChild reports with owning = true.
OwningEdges(n, c) == {s \in SlotsOf(n) \cap OwnSlots : ptr[s] = c}

Pointees(S) == {ptr[s] : s \in S} \ {Null}

\* What a program instruction can touch: the nodes on its stack and in its
\* globals, and the upvalue cells of the closures among them.
Accessible ==
  LET A == Pointees(RootSlots)
  IN  A \cup Pointees({b \in BorrowSlots : Owner[b] \in A})

\* Reachability from a set of holders, without recursion: n is unreachable
\* iff some set closed under references and containing every node they hold
\* omits it.  An object whose destructor is due (perhaps on another thread)
\* still counts.
UnreachableFrom(H) ==
  {n \in alive : \E S \in SUBSET alive :
      /\ n \notin S
      /\ \A m \in alive : UseCount(m) = 0 => m \in S
      /\ Pointees(H) \subseteq S
      /\ \A m \in S : Pointees(SlotsOf(m)) \subseteq S}

\* What neither the program nor another thread can reach.
Unreachable == UnreachableFrom(HolderSlots \ UpvalueSlots)

Init ==
  /\ alive = {}
  /\ ptr = [s \in Slots |-> Null]
  /\ allocs = 0
  /\ threshold = ThresholdMin
  /\ phase = "run"
  /\ held = {} /\ known = {} /\ work = {}
  /\ refs = [n \in Nodes |-> 0]
  /\ marked = {} /\ markStack = {} /\ toCollect = {}
  /\ lastCollected = 0
  /\ doomed = {} /\ garbage = {}

-----------------------------------------------------------------------------
(* The program, on the collector's thread.  It runs only between           *)
(* collections: collect() returns before the next instruction.             *)

NotCollecting == phase = "run"

GcUnchanged == UNCHANGED <<threshold, phase, tableVars, lastCollected, garbage>>

\* gcNew + track: a fresh container in a stack slot.
New(n, r) ==
  /\ NotCollecting
  /\ n \in Tracked \ alive
  /\ allocs < MaxAllocs
  /\ alive' = alive \cup {n}
  /\ ptr' = [ptr EXCEPT ![r] = n]
  /\ allocs' = allocs + 1
  /\ UNCHANGED doomed
  /\ GcUnchanged

\* What a callable can capture when it is built: program values through
\* owning or opaque slots, live upvalue cells through borrowed ones.
Captures(n) ==
  {c \in [SlotsOf(n) -> Pointees(RootSlots) \cup (alive \cap Upvalues) \cup {Null}] :
     \A s \in SlotsOf(n) :
        c[s] \in {Null} \cup (IF s \in BorrowSlots THEN alive \cap Upvalues
                                                   ELSE Pointees(RootSlots))}

\* make_shared of a function, lambda, bound method or native; its captures
\* never change afterwards.
NewCallable(n, r, c) ==
  /\ NotCollecting
  /\ n \in (Untracked \ Upvalues) \ alive
  /\ alive' = alive \cup {n}
  /\ ptr' = [s \in Slots |-> IF s = r THEN n
                             ELSE IF s \in SlotsOf(n) THEN c[s] ELSE ptr[s]]
  /\ UNCHANGED <<allocs, doomed>>
  /\ GcUnchanged

\* VM::captureUpvalue: a cell owned by allUpvalues, holding a program value.
CaptureUpvalue(u, a, r) ==
  /\ NotCollecting
  /\ u \in Upvalues \ alive
  /\ ptr[a] = Null
  /\ alive' = alive \cup {u}
  /\ ptr' = [s \in Slots |-> IF s = a THEN u
                             ELSE IF s \in SlotsOf(u) THEN ptr[r] ELSE ptr[s]]
  /\ UNCHANGED <<allocs, doomed>>
  /\ GcUnchanged

\* An instruction copies the value v into slot s.
Assign(s, v) ==
  /\ NotCollecting
  /\ ptr' = [ptr EXCEPT ![s] = v]
  /\ UNCHANGED <<alive, allocs, doomed>>
  /\ GcUnchanged

\* Element, field or captured variable read onto the stack; a pop or an
\* overwritten local is the read of Null.
Load(r, s) == Owner[s] \in Accessible /\ s \notin BorrowSlots /\ Assign(r, ptr[s])
Drop(r)    == ptr[r] # Null /\ Assign(r, Null)

\* Element, field or captured variable written from the stack.
Store(s, r) == /\ Owner[s] \in Accessible \cap (Tracked \cup Upvalues)
               /\ Assign(s, ptr[r])

\* GcHeap::pinValue / unpinValue: nil and the like are never registered.
PinValue(p, r) == ptr[p] = Null /\ ptr[r] # Null /\ Assign(p, ptr[r])
UnpinValue(p)  == ptr[p] # Null /\ Assign(p, Null)

\* A reference handed to another thread or kept in a C++ local, and taken back.
HandOut(t, r)  == ptr[t] = Null /\ ptr[r] # Null /\ Assign(t, ptr[r])
TakeBack(r, t) == ptr[t] # Null /\ Assign(r, ptr[t])

-----------------------------------------------------------------------------
(* Other threads: at any moment, in particular between any two steps of a  *)
(* collection.                                                             *)

TaskAssign(t, v) ==
  /\ ptr' = [ptr EXCEPT ![t] = v]
  /\ UNCHANGED <<alive, allocs, doomed>>
  /\ GcUnchanged

TaskCopy(t, u) == ptr[u] # Null /\ ptr[t] # ptr[u] /\ TaskAssign(t, ptr[u])
TaskDrop(t)    == ptr[t] # Null /\ TaskAssign(t, Null)

\* A task reads a reference out of an object it holds.
TaskLoad(t, s) == /\ s \in OwnSlots
                  /\ Owner[s] \in Pointees(TaskSlots)
                  /\ ptr[s] # Null
                  /\ TaskAssign(t, ptr[s])

\* The destructor of an object whose last reference is gone.
Destroy(n) ==
  /\ n \in alive
  /\ UseCount(n) = 0
  /\ alive' = alive \ {n}
  /\ ptr' = [s \in Slots |-> IF s \in SlotsOf(n) THEN Null ELSE ptr[s]]
  /\ doomed' = doomed \ {n}
  /\ UNCHANGED allocs
  /\ GcUnchanged

-----------------------------------------------------------------------------
(* collect(), on the collector's thread.                                   *)

\* collectIfNeeded at a safepoint, and the head of collect().
CollectIfNeeded ==
  /\ NotCollecting
  /\ allocs >= threshold
  /\ phase' = "hold"
  /\ allocs' = 0
  /\ known' = {} /\ work' = {} /\ marked' = {}
  /\ refs' = [n \in Nodes |-> 0]
  /\ garbage' = Unreachable
  /\ UNCHANGED <<heapVars, threshold, held, markStack, toCollect, lastCollected, doomed>>

\* weak_ptr::lock succeeds until the count has reached zero.
Lockable(n) == n \in alive /\ UseCount(n) > 0

\* findExternallyHeld, first loop: one entry locked and its count read.
HoldEntry(n) ==
  /\ phase = "hold"
  /\ n \in Tracked \ held
  /\ Lockable(n)
  /\ held' = held \cup {n}
  /\ known' = known \cup {n}
  /\ work' = work \cup {n}
  /\ refs' = [refs EXCEPT ![n] = UseCount(n)]
  /\ UNCHANGED <<heapVars, allocs, threshold, phase, marked, markStack,
                 toCollect, lastCollected, historyVars>>

HoldDone ==
  /\ phase = "hold"
  /\ \A n \in Tracked \ held : ~Lockable(n)
  /\ phase' = "scan"
  /\ UNCHANGED <<heapVars, allocs, threshold, tableVars, lastCollected, historyVars>>

\* Mutant: an untracked node found on the way starts from 0, not its count.
ScanNode_ZeroBase(m) ==
  /\ phase = "scan"
  /\ m \in work
  /\ work' = (work \ {m}) \cup (Children(m) \ known)
  /\ known' = known \cup Children(m)
  /\ refs' = [c \in Nodes |->
       IF c \in Children(m) THEN refs[c] - Cardinality(OwningEdges(m, c)) ELSE refs[c]]
  /\ UNCHANGED <<heapVars, allocs, threshold, phase, held, marked, markStack,
                 toCollect, lastCollected, historyVars>>

\* Mutant: untracked nodes do not join the graph.
ScanNode_TrackedOnly(m) ==
  /\ phase = "scan"
  /\ m \in work
  /\ work' = work \ {m}
  /\ refs' = [c \in Nodes |->
       IF c \in known THEN refs[c] - Cardinality(OwningEdges(m, c)) ELSE refs[c]]
  /\ UNCHANGED <<heapVars, allocs, threshold, phase, held, known, marked, markStack,
                 toCollect, lastCollected, historyVars>>

\* Second loop: the owning edges of one node are subtracted.
ScanNode(m) ==
  /\ phase = "scan"
  /\ m \in work
  /\ work' = (work \ {m}) \cup (Children(m) \ known)
  /\ known' = known \cup Children(m)
  /\ refs' = [c \in Nodes |->
       IF c \in Children(m)
       THEN (IF c \in known THEN refs[c] ELSE UseCount(c)) - Cardinality(OwningEdges(m, c))
       ELSE refs[c]]
  /\ UNCHANGED <<heapVars, allocs, threshold, phase, held, marked, markStack,
                 toCollect, lastCollected, historyVars>>

\* Mutant: a comparison that is off by one.
ExternallyHeld_AboveOne == {n \in known : refs[n] > 1}

\* A count that is not exactly zero makes a root.
ExternallyHeld == {n \in known : refs[n] # 0}

\* VM::gcMarkRoots: stack, globals, frames and every upvalue cell.
VmRoots == Pointees(RootSlots \cup UpvalueSlots)

\* mark(): the VM's roots, the pinned values, what is held from outside.
MarkRoots ==
  /\ phase = "scan"
  /\ work = {}
  /\ phase' = "mark"
  /\ marked' = VmRoots \cup Pointees(PinSlots) \cup ExternallyHeld
  /\ markStack' = marked'
  /\ UNCHANGED <<heapVars, allocs, threshold, held, known, refs, work,
                 toCollect, lastCollected, historyVars>>

\* Mutant: children are pushed whether or not they are marked already.
MarkNode_Repush(m) ==
  /\ phase = "mark"
  /\ m \in markStack
  /\ marked' = marked \cup Children(m)
  /\ markStack' = (markStack \ {m}) \cup Children(m)
  /\ UNCHANGED <<heapVars, allocs, threshold, phase, held, known, refs, work,
                 toCollect, lastCollected, historyVars>>

\* drainMarkStack: one item, its unmarked children pushed.
MarkNode(m) ==
  /\ phase = "mark"
  /\ m \in markStack
  /\ marked' = marked \cup Children(m)
  /\ markStack' = (markStack \ {m}) \cup (Children(m) \ marked)
  /\ UNCHANGED <<heapVars, allocs, threshold, phase, held, known, refs, work,
                 toCollect, lastCollected, historyVars>>

\* sweep(), phases 1 and 2: what is alive and unmarked is locked and its
\* references are cleared.
Unmarked == {n \in Tracked \ marked : Lockable(n)}

Sweep ==
  /\ phase = "mark"
  /\ markStack = {}
  /\ phase' = "release"
  /\ toCollect' = Unmarked
  /\ ptr' = [s \in Slots |-> IF s \in OwnSlots /\ Owner[s] \in Unmarked
                             THEN Null ELSE ptr[s]]
  /\ lastCollected' = Cardinality(Unmarked)
  /\ doomed' = doomed \cup (known \ marked)
  /\ UNCHANGED <<alive, allocs, threshold, held, known, refs, work, marked,
                 markStack, garbage>>

\* Phase 3: the strong references are dropped; Destroy does the rest.
Release ==
  /\ phase = "release"
  /\ phase' = "prune"
  /\ toCollect' = {} /\ held' = {}
  /\ UNCHANGED <<heapVars, allocs, threshold, known, refs, work, marked,
                 markStack, lastCollected, historyVars>>

Settled == \A n \in alive : UseCount(n) > 0

\* The interval of collections is doubled when nothing was found and halved
\* when something was.
Tuned(t, n) ==
  IF n = 0 /\ t < ThresholdMax
    THEN IF t * 2 < ThresholdMax THEN t * 2 ELSE ThresholdMax
  ELSE IF n > 0 /\ t > ThresholdMin
    THEN IF t \div 2 > ThresholdMin THEN t \div 2 ELSE ThresholdMin
  ELSE t

\* collect() returns once every destructor has run.  The node table is garbage
\* between collections; the model empties it here.
CollectDone ==
  /\ phase = "prune"
  /\ Settled
  /\ phase' = "run"
  /\ threshold' = Tuned(threshold, lastCollected)
  /\ known' = {} /\ work' = {} /\ marked' = {}
  /\ refs' = [n \in Nodes |-> 0]
  /\ garbage' = {}
  /\ UNCHANGED <<heapVars, allocs, held, markStack, toCollect, lastCollected, doomed>>

-----------------------------------------------------------------------------
Mutator ==
  \E r \in RootSlots :
    \/ \E n \in Tracked : New(n, r)
    \/ \E n \in Untracked : \E c \in Captures(n) : NewCallable(n, r, c)
    \/ \E u \in Upvalues, a \in UpvalueSlots : CaptureUpvalue(u, a, r)
    \/ \E s \in NodeSlots : Load(r, s)
    \/ \E s \in OwnSlots : Store(s, r)
    \/ Drop(r)
    \/ \E p \in PinSlots : PinValue(p, r) \/ UnpinValue(p)
    \/ \E t \in TaskSlots : HandOut(t, r) \/ TakeBack(r, t)

Tasks == \E t \in TaskSlots : TaskDrop(t) \/ \E u \in TaskSlots : TaskCopy(t, u)

Collector ==
  \/ CollectIfNeeded
  \/ \E n \in Tracked : HoldEntry(n)
  \/ HoldDone
  \/ \E m \in Nodes : ScanNode(m)
  \/ MarkRoots
  \/ \E m \in Nodes : MarkNode(m)
  \/ Sweep
  \/ Release
  \/ CollectDone

DestroyAny == \E n \in Nodes : Destroy(n)

Next == Mutator \/ Tasks \/ DestroyAny \/ Collector

\* Other threads hold references and pass them on, but look into no object
\* of this heap.
Spec == Init /\ [][Next]_vars

\* Other threads also read references out of the objects they hold, as a
\* task does with a value that deepCopyForTask shares (a set, a tagged value).
TaskReads == \E t \in TaskSlots, s \in OwnSlots : TaskLoad(t, s)
ReadingSpec == Init /\ [][Next \/ TaskReads]_vars

-----------------------------------------------------------------------------
TypeOK ==
  /\ alive \subseteq Nodes
  /\ ptr \in [Slots -> Nodes \cup {Null}]
  /\ allocs \in 0 .. MaxAllocs
  /\ threshold \in ThresholdMin .. ThresholdMax
  /\ phase \in Phases
  /\ held \subseteq Tracked
  /\ known \subseteq Nodes
  /\ refs \in [Nodes -> Int]
  /\ work \subseteq known
  /\ marked \subseteq Nodes
  /\ markStack \subseteq marked
  /\ toCollect \subseteq Tracked
  /\ lastCollected \in Nat
  /\ doomed \subseteq Nodes
  /\ garbage \subseteq Nodes

\* Memory safety of counting plus collecting: no shared_ptr and no raw upvalue
\* pointer of a closure ever refers to a destroyed object.
NoDangling == \A s \in Slots : ptr[s] # Null => ptr[s] \in alive

\* The collector's promise: an object that sweep() has hollowed out (or an
\* untracked one that dies with it) is referenced by other such objects only,
\* never by a stack slot, a global, a pin, a native's capture, another thread
\* or an object that any of these can reach.  gc_heap.cpp's sweep() clears
\* elements in place, so a holder would see its data vanish.
SweptUnreachable ==
  /\ toCollect \subseteq doomed
  /\ \A s \in Slots : ptr[s] \in doomed => s \in EnumSlots /\ Owner[s] \in doomed

\* The assertion of stress mode in findExternallyHeld (std::abort on a negative
\* count): no edge is subtracted that was not counted, although other threads
\* drop references while the counts are being read.
NoMiscount == phase \in {"scan", "mark"} => \A n \in known : refs[n] >= 0

\* DOCUMENTATION.md "Cycle collection": what nobody could reach when a
\* collection began is gone when it ends, unless an upvalue cell keeps it.
CyclesReclaimed ==
  phase = "prune" /\ Settled => garbage \cap UnreachableFrom(HolderSlots) = {}

\* The same promise for containers, without that exception.
\* DOCUMENTATION.md lists "Instance capturing this in a closure" among the "Common
\* cycle patterns (all handled)".
CapturedReclaimed == phase = "prune" /\ Settled => garbage \cap alive \cap Tracked = {}

Later == [run |-> "hold", hold |-> "scan", scan |-> "mark", mark |-> "release",
          release |-> "prune", prune |-> "run"]

Progress == <<held, known \ work, marked \ markStack>>

Advances ==
  IF phase' = phase
  THEN tableVars' # tableVars =>
         Progress' # Progress /\ \A i \in 1..3 : Progress[i] \subseteq Progress'[i]
  ELSE phase' = Later[phase]

\* A collection makes progress: within a phase every step of the collector
\* adds to the entries held, the nodes scanned or the nodes traced, none of
\* which loses a member, and phases follow each other in one order.  Other
\* threads change none of it, so a collection ends.
CollectionAdvances == [][Advances]_vars

-----------------------------------------------------------------------------
(* The inductive invariant behind NoDangling, SweptUnreachable and         *)
(* NoMiscount.                                                             *)

\* A destroyed node holds nothing.
DeadEmpty == \A s \in NodeSlots : Owner[s] \notin alive => ptr[s] = Null

\* Closures borrow upvalue cells only, and allUpvalues owns every cell.
CellsOwned ==
  /\ \A c \in BorrowSlots : ptr[c] # Null => ptr[c] \in Upvalues
  /\ \A c \in alive \cap Upvalues : \E k \in UpvalueSlots : ptr[k] = c

\* Which of collect()'s locals are in use in which phase.
PhaseLocals ==
  /\ held \subseteq alive /\ toCollect \subseteq alive /\ doomed \subseteq alive
  /\ phase \in {"run", "prune"} => held = {}
  /\ phase # "release" => toCollect = {}
  /\ phase # "mark" => markStack = {}
  /\ phase = "hold" => known = held /\ work = held
  /\ phase \in {"scan", "mark"} => held \subseteq known
  /\ phase = "mark" => work = {}

\* Nothing in the node table can die before the sweep.
KnownKept ==
  phase \in {"hold", "scan", "mark"} =>
    \A n \in known : \/ n \in held
                      \/ n \in alive \cap Upvalues
                      \/ \E s \in OwnSlots : Owner[s] \in known /\ ptr[s] = n

\* The references to n that the scan has still to subtract, and those it
\* never will.
Pending(n) == {s \in OwnSlots : ptr[s] = n /\ Owner[s] \notin known \ work}
Outside(n) == {s \in OwningSlots \ OwnSlots : ptr[s] = n}

\* A count covers what is pending and, while n is held from outside, more.
CountsCover ==
  phase \in {"hold", "scan", "mark"} =>
    \A n \in known :
       /\ refs[n] >= Cardinality(Pending(n))
       /\ Outside(n) # {} => refs[n] > Cardinality(Pending(n))

\* An entry the first loop skipped has no reference left, for good.
SkippedDead ==
  phase \in {"scan", "mark"} => \A n \in Tracked \ held : n \in alive => RefsTo(n) = {}

\* Tri-colour invariant, and every externally held node has been marked.
MarkClosed ==
  phase = "mark" =>
    /\ \A m \in marked \ markStack : Children(m) \subseteq marked
    /\ ExternallyHeld \subseteq marked

IInv == /\ TypeOK /\ NoDangling /\ DeadEmpty /\ CellsOwned /\ PhaseLocals
        /\ KnownKept /\ CountsCover /\ SkippedDead /\ MarkClosed
        /\ SweptUnreachable
=============================================================================
