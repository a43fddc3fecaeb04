----------------------------- MODULE TaskGlobals -----------------------------
(***************************************************************************)
(* Global variables across async tasks (vm.cpp, vm.h).                     *)
(*                                                                         *)
(* Every VM keeps its globals in a vector, a map from names to slots of    *)
(* that vector, and every function's chunk caches the slots it has         *)
(* resolved.  The cache belongs to the chunk, so all VMs that run the      *)
(* function share it.  A grain's functions resolve their globals in the    *)
(* grain's own VM.  async starts a task VM with a copy of the slot map and *)
(* a shallow snapshot of the globals of the VM the function belongs to; a  *)
(* task deep-copies a slot when it first reads it.  Slots are created by   *)
(* the top level, and by let, func and class in the body of a method, which*)
(* the compiler takes for top-level code, in whatever VM runs the method.  *)
(*                                                                         *)
(* A value is an object with a content; var is the variable it was made    *)
(* for.  A thread holds the objects it has had on its stack and mutates    *)
(* only those.  Main is the thread of the script, Grain a VM without one.  *)
(***************************************************************************)
EXTENDS Naturals, Sequences, FiniteSets

CONSTANTS
  Tasks,         \* async tasks that may be spawned
  MainNames,     \* the globals of the script's VM, in the order they are created
  GrainNames,    \* the same for the grain's VM
  GrainTop,      \* how many of these the grain's top level has created
  LocalNames,    \* names that methods run by tasks define, whatever the task's VM has
  SharedNames,   \* variables of a kind deepCopyForTask returns as it is
  Calls,         \* <<h, k>>: a task of a function of h calls functions of k
  Awaiters,      \* threads that await futures
  SpawnEarly,    \* async is used before the script's and the grain's VM have
                 \* created all their globals
  MaxObj,        \* bound: objects ever made
  MaxContent     \* bound: mutations of one object

Main == "main"
Grain == "grain"
Homes == {Main, Grain}
Threads == {Main} \cup Tasks
VMs == Homes \cup Tasks
Layout == [h \in Homes |-> IF h = Main THEN MainNames ELSE GrainNames]
NamesOf(h) == {Layout[h][i] : i \in DOMAIN Layout[h]} \cup LocalNames
Names == NamesOf(Main) \cup NamesOf(Grain)
Nil == 0

ASSUME ProgramAssumption ==
  /\ Calls \subseteq Homes \X Homes
  /\ Awaiters \subseteq Threads
  /\ SpawnEarly \in BOOLEAN
  /\ Tasks \cap Homes = {}
  /\ MainNames \in Seq(STRING)
  /\ GrainNames \in Seq(STRING)
  /\ GrainTop \in 0 .. Len(GrainNames)
  /\ LocalNames \subseteq STRING

VARIABLES
  status,     \* thread |-> "idle", "running", "done"
  home,       \* thread |-> whose function it runs
  index,      \* VM |-> globalIndices, 0 for no entry
  globals,    \* VM |-> globals
  snapshot,   \* task |-> globalsSnapshot_
  loaded,     \* task |-> loadedMask_
  cache,      \* chunk (by home) |-> globalSlotCache, 0 for unresolved
  heap,       \* objects ever made
  held,       \* thread |-> objects on its stack
  result,     \* task |-> value of its future
  crashed,    \* a slot outside the vector was used: undefined behaviour
  access,     \* history: what the last step, an OP_GET_GLOBAL, read
  atSpawn,    \* history: task |-> contents of its globals when it was spawned
  wrote       \* history: task |-> name |-> object it last assigned

vars == <<status, home, index, globals, snapshot, loaded, cache, heap, held,
          result, crashed, access, atSpawn, wrote>>
layout == <<status, home, index, result, atSpawn>>

Objects == 1..Len(heap)
None == [thread |-> Main, chunk |-> Main, name |-> "none", object |-> Nil]

TypeOK ==
  /\ status \in [Threads -> {"idle", "running", "done"}]
  /\ home \in [Threads -> Homes]
  /\ \A v \in VMs :
       /\ \A s \in DOMAIN globals[v] : globals[v][s] \in {Nil} \cup Objects
       /\ \A n \in Names : index[v][n] \in 0..Len(globals[v])
  /\ \A t \in Tasks :
       /\ Len(loaded[t]) = Len(globals[t])
       /\ \A s \in DOMAIN snapshot[t] : snapshot[t][s] \in {Nil} \cup Objects
       /\ result[t] \in {Nil} \cup Objects
  /\ \A v \in Threads : held[v] \subseteq Objects
  /\ \A o \in Objects : heap[o].content \in 0..MaxContent
  /\ crashed \in BOOLEAN

\* The grain has been loaded; the script has defined nothing yet.
Init ==
  /\ status = [v \in Threads |-> IF v = Main THEN "running" ELSE "idle"]
  /\ home = [v \in Threads |-> Main]
  /\ index = [v \in VMs |-> [n \in Names |->
       IF v = Grain /\ \E i \in 1 .. GrainTop : GrainNames[i] = n
       THEN CHOOSE i \in 1 .. GrainTop : GrainNames[i] = n ELSE 0]]
  /\ globals = [v \in VMs |-> IF v = Grain THEN [i \in 1 .. GrainTop |-> i]
                              ELSE <<>>]
  /\ snapshot = [t \in Tasks |-> <<>>]
  /\ loaded = [t \in Tasks |-> <<>>]
  /\ cache = [h \in Homes |-> [n \in Names |-> 0]]
  /\ heap = [i \in 1 .. GrainTop |->
               [content |-> 0, var |-> <<Grain, GrainNames[i]>>]]
  /\ held = [v \in Threads |-> {}]
  /\ result = [t \in Tasks |-> Nil]
  /\ crashed = FALSE
  /\ access = None
  /\ atSpawn = [t \in Tasks |-> <<>>]
  /\ wrote = [t \in Tasks |-> [n \in Names |-> Nil]]

Running(v) == status[v] = "running" /\ ~crashed

-----------------------------------------------------------------------------
(* Resolution of a global by a chunk of home h that thread v executes.     *)

\* The VM whose globals are used: a task always uses its own.
Gvm(v, h) == IF h = Grain /\ v \notin Tasks THEN Grain ELSE v

Slot(v, h, n) == IF cache[h][n] # 0 THEN cache[h][n] ELSE index[Gvm(v, h)][n]

\* Slot n is found, and lies in the vector.
Resolves(v, h, n) == Slot(v, h, n) \in DOMAIN globals[Gvm(v, h)]

MayRun(v, h) == Running(v) /\ (v = Main \/ <<home[v], h>> \in Calls)

\* deepCopyForTask of one object: arrays, maps and instances are copied,
\* anything else is the same object.
IsShared(o) == heap[o].var[2] \in SharedNames

\* The object reading slot s of VM g yields without loading it.
View(g, s) == IF g \in Tasks /\ ~loaded[g][s] THEN snapshot[g][s] ELSE globals[g][s]

-----------------------------------------------------------------------------
(* OP_DEFINE_GLOBAL and OP_SET_GLOBAL.                                     *)

\* The object a task has last assigned to a name.
Wrote(v, n, o) == wrote' = IF v \in Tasks THEN [wrote EXCEPT ![v][n] = o] ELSE wrote

NewValue(h, n) ==
  /\ Len(heap) < MaxObj
  /\ heap' = Append(heap, [content |-> 0, var |-> <<h, n>>])
  /\ access' = None

\* A mutant: the slot stays unloaded.
MarkLoaded_No(g, s) == UNCHANGED loaded

\* In a task the stored value wins over the snapshot.
MarkLoaded(g, s) ==
  loaded' = IF g \in Tasks THEN [loaded EXCEPT ![g][s] = TRUE] ELSE loaded

\* A new value replaces that of slot s.
Store(v, h, n, s) ==
  LET g == Gvm(v, h)
  IN /\ NewValue(h, n)
     /\ globals' = [globals EXCEPT ![g][s] = Len(heap')]
     /\ MarkLoaded(g, s)
     /\ Wrote(v, n, Len(heap'))
     /\ UNCHANGED <<layout, snapshot, crashed>>

\* The script's and the grain's VM create slots in some order, whoever asks for
\* them: MainNames and GrainNames are that order.  A task's VM creates what it
\* does not find.
MayCreate(g, n) ==
  IF g \in Tasks THEN n \in LocalNames
  ELSE Len(globals[g]) < Len(Layout[g]) /\ n = Layout[g][Len(globals[g]) + 1]

\* A task's vector t grows along with its globals.
Grown(t, g, x) == IF g \in Tasks THEN [t EXCEPT ![g] = Append(@, x)] ELSE t

\* ensureGlobalSlot does not find the name: a new slot, loaded if it is a task's
\* (whose snapshot entry, absent in the code, is then never read).
Create(v, h, n) ==
  LET g == Gvm(v, h)
  IN /\ index[g][n] = 0
     /\ MayCreate(g, n)
     /\ NewValue(h, n)
     /\ globals' = [globals EXCEPT ![g] = Append(@, Len(heap'))]
     /\ index' = [index EXCEPT ![g][n] = Len(globals[g]) + 1]
     /\ loaded' = Grown(loaded, g, TRUE)
     /\ snapshot' = Grown(snapshot, g, Nil)
     /\ Wrote(v, n, Len(heap'))
     /\ UNCHANGED <<status, home, result, atSpawn, crashed>>

\* At the top level of the script, whose chunk no other thread runs.
Define(n) ==
  /\ Running(Main)
  /\ \/ Create(Main, Main, n)
     \/ index[Main][n] \in DOMAIN globals[Main] /\ Store(Main, Main, n, index[Main][n])
  /\ UNCHANGED <<cache, held>>

\* In the body of a method of h, run by any thread: the chunk caches the slot.
DefineIn(v, h, n) ==
  LET s == Slot(v, h, n)
  IN /\ MayRun(v, h)
     /\ \/ Resolves(v, h, n) /\ Store(v, h, n, s) /\ cache' = [cache EXCEPT ![h][n] = s]
        \/ /\ cache[h][n] = 0 /\ Create(v, h, n)
           /\ cache' = [cache EXCEPT ![h][n] = Len(globals[Gvm(v, h)]) + 1]
     /\ UNCHANGED held

\* The value assigned stays on the thread's stack.
Set(v, h, n) ==
  /\ MayRun(v, h)
  /\ Resolves(v, h, n)
  /\ Store(v, h, n, Slot(v, h, n))
  /\ cache' = [cache EXCEPT ![h][n] = Slot(v, h, n)]
  /\ held' = [held EXCEPT ![v] = @ \cup {Len(heap')}]

-----------------------------------------------------------------------------
(* OP_GET_GLOBAL.  A task that has not loaded the slot copies it first     *)
(* (lazyLoadGlobal).                                                       *)

\* A mutant: the snapshot's object is used as it is.
Load_Shallow(g, s) ==
  /\ globals' = [globals EXCEPT ![g][s] = snapshot[g][s]]
  /\ loaded' = [loaded EXCEPT ![g][s] = TRUE]
  /\ snapshot' = [snapshot EXCEPT ![g][s] = Nil]
  /\ UNCHANGED heap

Load(g, s) ==
  LET o == snapshot[g][s]
      copies == o # Nil /\ ~IsShared(o)
  IN /\ copies => Len(heap) < MaxObj
     /\ heap' = IF copies THEN Append(heap, heap[o]) ELSE heap
     /\ globals' = [globals EXCEPT ![g][s] = IF copies THEN Len(heap') ELSE o]
     /\ loaded' = [loaded EXCEPT ![g][s] = TRUE]
     /\ snapshot' = [snapshot EXCEPT ![g][s] = Nil]

Get(v, h, n) ==
  LET g == Gvm(v, h)
      s == Slot(v, h, n)
      o == globals'[g][s]
  IN /\ MayRun(v, h)
     /\ Resolves(v, h, n)
     /\ cache' = [cache EXCEPT ![h][n] = s]
     /\ IF g \in Tasks /\ ~loaded[g][s] THEN Load(g, s)
        ELSE UNCHANGED <<heap, globals, loaded, snapshot>>
     /\ held' = [held EXCEPT ![v] = @ \cup ({o} \ {Nil})]
     /\ access' = [thread |-> v, chunk |-> h, name |-> n, object |-> o]
     /\ UNCHANGED <<layout, crashed, wrote>>

\* The slot the chunk has cached lies outside this VM's vectors: loadedMask_
\* and globals are indexed without a check, by every opcode of globals.
OutOfRange(v, h, n) ==
  /\ MayRun(v, h)
  /\ Slot(v, h, n) > Len(globals[Gvm(v, h)])
  /\ crashed' = TRUE
  /\ UNCHANGED <<layout, globals, snapshot, loaded, cache, heap, held, wrote>>
  /\ access' = None

\* A name neither cached nor in the VM's index is a runtime error, which
\* changes nothing.

\* The thread mutates an object it holds in place.
Mutate(v, o) ==
  /\ Running(v)
  /\ o \in held[v]
  /\ heap[o].content < MaxContent
  /\ heap' = [heap EXCEPT ![o].content = @ + 1]
  /\ UNCHANGED <<layout, globals, snapshot, loaded, cache, held, crashed, wrote>>
  /\ access' = None

-----------------------------------------------------------------------------
(* OP_ASYNC.  The snapshot is taken from the VM that owns the function: a  *)
(* grain's own VM, otherwise the VM of the spawning thread, whose unloaded *)
(* slots fall through to its own snapshot.  The argument is deep-copied.   *)

\* A mutant: always the spawning VM.
SnapVm_Parent(p, h) == p

SnapVm(p, h) == IF h = Grain THEN Grain ELSE p

SnapshotOf(g) == [s \in DOMAIN globals[g] |-> View(g, s)]

Content(o) == IF o = Nil THEN 0 ELSE heap[o].content

CopyArg(o) == IF IsShared(o) THEN o ELSE Len(heap) + 1

\* arg is an object the spawning thread holds, or none.
Spawn(p, t, h, arg) ==
  LET g == SnapVm(p, h)
      a == IF arg = Nil THEN Nil ELSE CopyArg(arg)
  IN /\ MayRun(p, h)
     /\ status[t] = "idle"
     /\ SpawnEarly \/ \A k \in Homes : Len(globals[k]) = Len(Layout[k])
     /\ a <= MaxObj
     /\ heap' = IF a > Len(heap) THEN Append(heap, heap[arg]) ELSE heap
     /\ held' = [held EXCEPT ![t] = {a} \ {Nil}]
     /\ status' = [status EXCEPT ![t] = "running"]
     /\ home' = [home EXCEPT ![t] = h]
     /\ index' = [index EXCEPT ![t] = index[g]]
     /\ globals' = [globals EXCEPT ![t] = [s \in DOMAIN globals[g] |-> Nil]]
     /\ snapshot' = [snapshot EXCEPT ![t] = SnapshotOf(g)]
     /\ loaded' = [loaded EXCEPT ![t] = [s \in DOMAIN globals[g] |-> FALSE]]
     /\ atSpawn' = [atSpawn EXCEPT ![t] =
                      [s \in DOMAIN globals[g] |-> Content(View(g, s))]]
     /\ access' = None
     /\ UNCHANGED <<cache, result, crashed, wrote>>

\* The task returns an object it holds, or nil; its VM goes away.
Finish(t, o) ==
  /\ Running(t)
  /\ o \in held[t] \cup {Nil}
  /\ result' = [result EXCEPT ![t] = o]
  /\ status' = [status EXCEPT ![t] = "done"]
  /\ held' = [held EXCEPT ![t] = {}]
  /\ globals' = [globals EXCEPT ![t] = <<>>]
  /\ snapshot' = [snapshot EXCEPT ![t] = <<>>]
  /\ loaded' = [loaded EXCEPT ![t] = <<>>]
  /\ index' = [index EXCEPT ![t] = [n \in Names |-> 0]]
  /\ atSpawn' = [atSpawn EXCEPT ![t] = <<>>]
  /\ wrote' = [wrote EXCEPT ![t] = [n \in Names |-> Nil]]
  /\ access' = None
  /\ UNCHANGED <<home, cache, heap, crashed>>

\* OP_AWAIT: the future's value as it is.
Await(v, t) ==
  /\ Running(v)
  /\ v \in Awaiters
  /\ v # t
  /\ status[t] = "done"
  /\ result[t] # Nil
  /\ held' = [held EXCEPT ![v] = @ \cup {result[t]}]
  /\ UNCHANGED <<layout, globals, snapshot, loaded, cache, heap, crashed, wrote>>
  /\ access' = None

Next ==
  \/ \E n \in NamesOf(Main) : Define(n)
  \/ \E v \in Threads :
       \/ \E h \in Homes : \E n \in NamesOf(h) :
            Get(v, h, n) \/ Set(v, h, n) \/ DefineIn(v, h, n) \/ OutOfRange(v, h, n)
       \/ \E o \in held[v] : Mutate(v, o)
       \/ \E t \in Tasks, h \in Homes : \E a \in held[v] \cup {Nil} : Spawn(v, t, h, a)
       \/ \E t \in Tasks : Await(v, t)
  \/ \E t \in Tasks : \E o \in held[t] \cup {Nil} : Finish(t, o)

Spec == Init /\ [][Next]_vars

-----------------------------------------------------------------------------
(* Properties.                                                             *)

\* No object is in the hands of two threads: what a task reads, is passed or
\* returns is its own copy, or has been handed over for good.
NoSharedMutable ==
  \A v, w \in Threads : v # w => held[v] \cap held[w] = {}

\* A function that reads a global gets that variable's value, in whichever
\* VM it runs: neither another variable of that VM nor an empty slot.  The code
\* does not keep this when a task calls another module's functions (Calls), or
\* creates a slot by a let in a method (LocalNames): the cache is shared.
ReadsItsVariable ==
  access # None => /\ access.object # Nil
                   /\ heap[access.object].var = <<access.chunk, access.name>>

\* A task that has assigned a global reads its own value from then on: no
\* later load brings the parent's value back.  Nor does another assignment,
\* unless tasks create slots of the same number (LocalNames).
ReadYourWrites ==
  \A t \in Tasks, n \in Names :
    wrote[t][n] # Nil /\ status[t] = "running" =>
      LET s == index[t][n] IN s # 0 => View(t, s) = wrote[t][n]

\* Every slot a chunk has cached is a slot of every VM that can run the
\* chunk: no thread leaves the bounds of its vectors.
InRange == ~crashed

\* What a task reads of a global when it first loads it is what the global
\* held when the task was spawned.
SnapshotIsolated ==
  [][\A t \in Tasks : \A s \in DOMAIN loaded[t] :
       (status'[t] = "running" /\ ~loaded[t][s] /\ loaded'[t][s] /\ wrote' = wrote)
         => Content(globals[t][s])' = atSpawn[t][s]]_vars
=============================================================================
