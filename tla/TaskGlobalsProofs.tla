-------------------------- MODULE TaskGlobalsProofs --------------------------
(***************************************************************************)
(* Three results about globals in tasks.                                   *)
(*                                                                         *)
(* No object is held by two threads when deepCopyForTask copies every      *)
(* value and only the script awaits.  An object is owned by the thread     *)
(* whose stack, globals or grain holds it; the values of finished tasks    *)
(* are the script's, who alone can await them.  A snapshot owns nothing:   *)
(* its objects are copied before the task gets them.                       *)
(*                                                                         *)
(* A function reads the globals it names, and a task its own assignments,  *)
(* when tasks call only functions of their own module and create no slots: *)
(* every slot a VM or a chunk has stored for a name is then the slot of    *)
(* that module's layout.  A method that a task runs and that defines a     *)
(* name the task's VM does not have would create one (LocalNames).         *)
(*                                                                         *)
(* No VM uses a slot outside its vectors when, in addition, tasks are      *)
(* spawned only after the script's and the grain's VM have created all     *)
(* their globals.                                                          *)
(***************************************************************************)
EXTENDS TaskGlobals, SequenceTheorems, TLAPS

Object == [content : Nat, var : Homes \X STRING]

Values(g) == {globals[g][s] : s \in DOMAIN globals[g]} \ {Nil}
Results == {result[t] : t \in Tasks} \ {Nil}

Owned(v) ==
  held[v] \cup Values(v) \cup (IF v = Main THEN Values(Grain) \cup Results ELSE {})

HeapOK == heap \in Seq(Object)
TablesOK ==
  /\ globals \in [VMs -> Seq(Nat)]
  /\ snapshot \in [Tasks -> Seq(Nat)]
  /\ held \in [Threads -> SUBSET Nat]
  /\ result \in [Tasks -> Nat]
SnapshotsOK ==
  \A t \in Tasks :
    /\ Len(snapshot[t]) = Len(globals[t])
    /\ \A s \in DOMAIN snapshot[t] : snapshot[t][s] <= Len(heap)
OwnedExist == \A v \in Threads : Owned(v) \subseteq 1..Len(heap)
OwnedApart == \A v, w \in Threads : v # w => Owned(v) \cap Owned(w) = {}

IInv == HeapOK /\ TablesOK /\ SnapshotsOK /\ OwnedExist /\ OwnedApart

\* Every action but Finish gives at most one thread a new object, the last
\* of the heap, and no thread another thread's.
GivesNew(u) ==
  /\ Len(heap') \in {Len(heap), Len(heap) + 1}
  /\ \A v \in Threads : v # u => Owned(v)' \subseteq Owned(v)
  /\ Owned(u)' \subseteq Owned(u) \cup ({Len(heap) + 1} \cap (1..Len(heap')))

\* Finish hands objects of its task to the script.
HandsOver(t) ==
  /\ heap' = heap
  /\ Owned(t)' = {}
  /\ Owned(Main)' \subseteq Owned(Main) \cup Owned(t)
  /\ \A v \in Threads \ {Main, t} : Owned(v)' \subseteq Owned(v)

LEMMA Distinct == Main # Grain /\ Main \in Threads /\ Main \in VMs /\ Grain \in VMs
                  /\ Threads \subseteq VMs /\ Tasks \subseteq Threads
                  /\ Main \notin Tasks /\ Grain \notin Threads
  BY ProgramAssumption DEF Main, Grain, Threads, VMs, Homes

\* A copied function is a sequence of the same length.
LEMMA SameLength ==
  ASSUME NEW s \in Seq(Nat), NEW f, f = [i \in DOMAIN s |-> f[i]],
         \A i \in DOMAIN s : f[i] \in Nat
  PROVE  f \in Seq(Nat) /\ Len(f) = Len(s) /\ DOMAIN f = DOMAIN s
  OBVIOUS

\* Overwriting one slot of one VM.
LEMMA SlotWritten ==
  ASSUME globals \in [VMs -> Seq(Nat)], NEW g \in VMs, NEW s \in DOMAIN globals[g],
         NEW x \in Nat, globals' = [globals EXCEPT ![g][s] = x]
  PROVE  /\ globals' \in [VMs -> Seq(Nat)]
         /\ \A v \in VMs : Len(globals'[v]) = Len(globals[v])
         /\ \A v \in VMs : v # g => Values(v)' = Values(v)
         /\ Values(g)' \subseteq Values(g) \cup ({x} \ {Nil})
         /\ globals'[g][s] = x
<1>1. globals'[g] = [globals[g] EXCEPT ![s] = x] /\ \A v \in VMs : v # g => globals'[v] = globals[v]
  OBVIOUS
<1>2. globals'[g] \in Seq(Nat) /\ Len(globals'[g]) = Len(globals[g])
      /\ DOMAIN globals'[g] = DOMAIN globals[g]
  BY <1>1, SameLength
<1>3. globals' \in [VMs -> Seq(Nat)]
  BY <1>1, <1>2
<1>4. Values(g)' \subseteq Values(g) \cup ({x} \ {Nil}) /\ globals'[g][s] = x
  BY <1>1, <1>2 DEF Values
<1>5. \A v \in VMs : v # g => Values(v)' = Values(v)
  BY <1>1 DEF Values
<1> QED BY <1>1, <1>2, <1>3, <1>4, <1>5

LEMMA InitIInv == Init => IInv
<1> SUFFICES ASSUME Init PROVE IInv
  OBVIOUS
<1> USE Distinct, ProgramAssumption
<1>1. HeapOK
  <2>1. \A i \in 1 .. GrainTop :
          [content |-> 0, var |-> <<Grain, GrainNames[i]>>] \in Object
    BY DEF Object, Homes
  <2>2. /\ heap = [i \in 1 .. GrainTop |->
                    [content |-> 0, var |-> <<Grain, GrainNames[i]>>]]
        /\ GrainTop \in Nat
    BY DEF Init
  <2> QED BY <2>1, <2>2 DEF HeapOK
<1>2. globals[Grain] = [i \in 1 .. GrainTop |-> i] /\ globals[Grain] \in Seq(Nat)
      /\ \A v \in VMs \ {Grain} : globals[v] = <<>>
  BY DEF Init
<1>3. Values(Grain) \subseteq 1..Len(heap) /\ \A v \in VMs \ {Grain} : Values(v) = {}
  BY <1>2 DEF Init, Values
<1>4. TablesOK
  BY <1>2 DEF Init, TablesOK, Nil
<1>5. SnapshotsOK
  BY <1>2 DEF Init, SnapshotsOK
<1>6. Results = {}
  BY DEF Init, Results
<1>7. OwnedExist /\ OwnedApart
  BY <1>3, <1>6 DEF Init, OwnedExist, OwnedApart, Owned, Threads
<1> QED BY <1>1, <1>4, <1>5, <1>7 DEF IInv

\* Either kind of step keeps the owners apart.
LEMMA ApartKept ==
  ASSUME HeapOK, HeapOK', OwnedExist, OwnedApart,
         \/ \E u \in Threads : GivesNew(u)
         \/ \E t \in Tasks : HandsOver(t)
  PROVE  OwnedExist' /\ OwnedApart'
<1>0. Len(heap) \in Nat /\ Len(heap') \in Nat
  BY DEF HeapOK
<1>1. CASE \E u \in Threads : GivesNew(u)
  <2>1. PICK u \in Threads : GivesNew(u)
    BY <1>1
  <2>2. OwnedExist'
    BY <2>1, <1>0 DEF GivesNew, OwnedExist
  <2>3. \A v \in Threads : Len(heap) + 1 \notin Owned(v)
    BY <1>0 DEF OwnedExist
  <2>4. OwnedApart'
    BY <2>1, <2>3 DEF GivesNew, OwnedApart
  <2> QED BY <2>2, <2>4
<1>2. CASE \E t \in Tasks : HandsOver(t)
  <2>1. PICK t \in Tasks : HandsOver(t)
    BY <1>2
  <2>2. t \in Threads /\ t # Main /\ Main \in Threads
    BY Distinct
  <2>3. OwnedExist'
    BY <2>1, <2>2 DEF HandsOver, OwnedExist
  <2>4. OwnedApart'
    BY <2>1, <2>2 DEF HandsOver, OwnedApart
  <2> QED BY <2>3, <2>4
<1> QED BY <1>1, <1>2

(***************************************************************************)
(* The actions.  Each keeps the tables well formed and is of one of the    *)
(* two kinds.                                                              *)
(***************************************************************************)
Tables == HeapOK /\ TablesOK /\ SnapshotsOK

\* What is owned depends on these variables only.
LEMMA SameOwners ==
  ASSUME UNCHANGED <<globals, held, result>>
  PROVE  \A v : Owned(v)' = Owned(v)
  BY DEF Owned, Values, Results

\* A new object at the end of the heap.
LEMMA Allocated ==
  ASSUME HeapOK, NEW x \in Object, heap' = Append(heap, x)
  PROVE  HeapOK' /\ Len(heap') = Len(heap) + 1 /\ Len(heap) \in Nat
  BY DEF HeapOK

\* The VM a chunk resolves in belongs to the thread that runs it.
LEMMA GvmOwn ==
  ASSUME NEW v \in Threads, NEW h \in Homes
  PROVE  Gvm(v, h) \in VMs /\ (Gvm(v, h) = v \/ (v = Main /\ Gvm(v, h) = Grain))
<1>1. v = Main \/ v \in Tasks
  BY DEF Threads
<1> QED BY <1>1, Distinct DEF Gvm

\* A step that touches the stack of v and the globals of g, which is v's,
\* and adds there at most a new object.
LEMMA OnlyOwner ==
  ASSUME NEW v \in Threads, NEW g \in VMs, g = v \/ (v = Main /\ g = Grain),
         Len(heap) \in Nat, Len(heap') \in {Len(heap), Len(heap) + 1},
         Results' = Results,
         \A w \in VMs : w # g => Values(w)' = Values(w),
         \A w \in Threads : w # v => held'[w] = held[w],
         Values(g)' \subseteq Values(g) \cup ({Len(heap) + 1} \cap (1..Len(heap'))),
         held'[v] \subseteq held[v] \cup Values(g) \cup ({Len(heap) + 1} \cap (1..Len(heap')))
  PROVE  GivesNew(v)
<1>1. \A w \in Threads : w # v => Owned(w)' \subseteq Owned(w)
  BY Distinct DEF Owned
<1>2. Values(v)' \cup (IF v = Main THEN Values(Grain)' ELSE {})
      \subseteq Values(v) \cup (IF v = Main THEN Values(Grain) ELSE {})
                \cup ({Len(heap) + 1} \cap (1..Len(heap')))
  BY Distinct
<1>3. Values(g) \subseteq Owned(v)
  BY DEF Owned
<1>4. Owned(v)' \subseteq Owned(v) \cup ({Len(heap) + 1} \cap (1..Len(heap')))
  BY <1>2, <1>3 DEF Owned
<1> QED BY <1>1, <1>4 DEF GivesNew

\* Snapshots stay well formed while the heap grows and slots are cleared.
LEMMA SnapshotsKept ==
  ASSUME SnapshotsOK, Len(heap) \in Nat, Len(heap') \in Nat, Len(heap) <= Len(heap'),
         snapshot \in [Tasks -> Seq(Nat)], snapshot' \in [Tasks -> Seq(Nat)],
         \A w \in VMs : Len(globals'[w]) = Len(globals[w]),
         \A t \in Tasks : /\ Len(snapshot'[t]) = Len(snapshot[t])
                          /\ \A i \in DOMAIN snapshot'[t] :
                               snapshot'[t][i] \in {Nil, snapshot[t][i]}
  PROVE  SnapshotsOK'
<1> SUFFICES ASSUME NEW t \in Tasks
             PROVE  /\ Len(snapshot'[t]) = Len(globals'[t])
                    /\ \A i \in DOMAIN snapshot'[t] : snapshot'[t][i] <= Len(heap')
  BY DEF SnapshotsOK
<1>1. t \in VMs
  BY Distinct
<1>2. Len(snapshot'[t]) = Len(globals'[t])
  BY <1>1 DEF SnapshotsOK
<1>3. \A i \in DOMAIN snapshot'[t] : i \in DOMAIN snapshot[t]
  OBVIOUS
<1>4. \A i \in DOMAIN snapshot[t] : snapshot[t][i] <= Len(heap) /\ snapshot[t][i] \in Nat
  BY DEF SnapshotsOK
<1>5. \A i \in DOMAIN snapshot'[t] : snapshot'[t][i] <= Len(heap')
  <2> SUFFICES ASSUME NEW i \in DOMAIN snapshot'[t] PROVE snapshot'[t][i] <= Len(heap')
    OBVIOUS
  <2>1. snapshot'[t][i] = Nil \/ snapshot'[t][i] = snapshot[t][i]
    OBVIOUS
  <2> QED BY <1>3, <1>4, <2>1 DEF Nil
<1> QED BY <1>2, <1>5

\* The stack of v stays, or gets the new object too.
Keeps(v) == held' = held \/ held' = [held EXCEPT ![v] = @ \cup {Len(heap')}]

LEMMA NamesAreStrings == \A h \in Homes : NamesOf(h) \subseteq STRING
<1> SUFFICES ASSUME NEW h \in Homes PROVE NamesOf(h) \subseteq STRING
  OBVIOUS
<1>1. Layout[h] \in Seq(STRING)
  BY ProgramAssumption DEF Layout
<1>2. \A i \in DOMAIN Layout[h] : Layout[h][i] \in STRING
  BY <1>1
<1> QED BY <1>2, ProgramAssumption DEF NamesOf

\* OP_SET_GLOBAL, and OP_DEFINE_GLOBAL of a name that has a slot.
LEMMA StoreStep ==
  ASSUME IInv, NEW v \in Threads, NEW h \in Homes, NEW n \in NamesOf(h),
         NEW s \in DOMAIN globals[Gvm(v, h)], Store(v, h, n, s), Keeps(v)
  PROVE  Tables' /\ GivesNew(v)
<1> DEFINE g == Gvm(v, h)
<1>1. HeapOK /\ TablesOK /\ SnapshotsOK
  BY DEF IInv
<1>2. g \in VMs /\ s \in DOMAIN globals[g] /\ (g = v \/ (v = Main /\ g = Grain))
  BY GvmOwn
<1>3. [content |-> 0, var |-> <<h, n>>] \in Object
  BY NamesAreStrings DEF Object
<1>4. heap' = Append(heap, [content |-> 0, var |-> <<h, n>>])
      /\ globals' = [globals EXCEPT ![g][s] = Len(heap')]
      /\ result' = result /\ snapshot' = snapshot
  BY DEF Store, NewValue, layout
<1>5. HeapOK' /\ Len(heap') = Len(heap) + 1 /\ Len(heap) \in Nat
  BY <1>1, <1>3, <1>4, Allocated
<1> HIDE DEF g
<1>6. /\ globals' \in [VMs -> Seq(Nat)]
      /\ \A w \in VMs : Len(globals'[w]) = Len(globals[w])
      /\ \A w \in VMs : w # g => Values(w)' = Values(w)
      /\ Values(g)' \subseteq Values(g) \cup ({Len(heap')} \ {Nil})
  <2>1. globals \in [VMs -> Seq(Nat)] /\ Len(heap') \in Nat
        /\ globals' = [globals EXCEPT ![g][s] = Len(heap')]
    BY <1>1, <1>4, <1>5 DEF TablesOK
  <2> QED BY <1>2, <2>1, SlotWritten
<1>7. /\ held' \in [Threads -> SUBSET Nat]
      /\ held'[v] \subseteq held[v] \cup {Len(heap')}
      /\ \A w \in Threads : w # v => held'[w] = held[w]
  <2>1. held \in [Threads -> SUBSET Nat] /\ Len(heap') \in Nat
    BY <1>1, <1>5 DEF TablesOK
  <2>2. CASE held' = held
    BY <2>1, <2>2
  <2>3. CASE held' = [held EXCEPT ![v] = @ \cup {Len(heap')}]
    BY <2>1, <2>3
  <2> QED BY <2>2, <2>3 DEF Keeps
<1>8. TablesOK'
  BY <1>1, <1>4, <1>6, <1>7 DEF TablesOK
<1>9. SnapshotsOK'
  BY <1>1, <1>4, <1>5, <1>6, SnapshotsKept DEF TablesOK
<1>10. Results' = Results
  BY <1>4 DEF Results
<1>11. GivesNew(v)
  <2>1. {Len(heap')} = {Len(heap) + 1} \cap (1..Len(heap'))
    BY <1>5
  <2> QED BY <1>2, <1>5, <1>6, <1>7, <1>10, <2>1, OnlyOwner
<1> QED BY <1>5, <1>8, <1>9, <1>11 DEF Tables

\* A vector that gets one more element.
LEMMA Longer ==
  ASSUME NEW s \in Seq(Nat), NEW x \in Nat
  PROVE  /\ Append(s, x) \in Seq(Nat) /\ Len(Append(s, x)) = Len(s) + 1 /\ Len(s) \in Nat
         /\ DOMAIN s = 1 .. Len(s) /\ DOMAIN Append(s, x) = 1 .. Len(s) + 1
         /\ \A i \in 1 .. Len(s) : Append(s, x)[i] = s[i]
         /\ Append(s, x)[Len(s) + 1] = x
  OBVIOUS

\* OP_DEFINE_GLOBAL of a name that has none.
LEMMA CreateStep ==
  ASSUME IInv, NEW v \in Threads, NEW h \in Homes, NEW n \in NamesOf(h), Create(v, h, n),
         UNCHANGED held
  PROVE  Tables' /\ GivesNew(v)
<1> SUFFICES ASSUME NEW g, g = Gvm(v, h), NEW x, x = Len(heap')
             PROVE  Tables' /\ GivesNew(v)
  OBVIOUS
<1>1. HeapOK /\ TablesOK /\ SnapshotsOK
  BY DEF IInv
<1>2. g \in VMs /\ (g = v \/ (v = Main /\ g = Grain))
  BY GvmOwn
<1>3. [content |-> 0, var |-> <<h, n>>] \in Object
  BY NamesAreStrings DEF Object
<1>4. heap' = Append(heap, [content |-> 0, var |-> <<h, n>>])
      /\ globals' = [globals EXCEPT ![g] = Append(@, x)]
      /\ snapshot' = (IF g \in Tasks THEN [snapshot EXCEPT ![g] = Append(@, Nil)] ELSE snapshot)
      /\ result' = result
  BY DEF Create, NewValue, Grown
<1>5. HeapOK' /\ x = Len(heap) + 1 /\ Len(heap) \in Nat /\ x \in Nat
  BY <1>1, <1>3, <1>4, Allocated
<1>6. /\ globals[g] \in Seq(Nat) /\ globals'[g] = Append(globals[g], x)
      /\ \A w \in VMs : w # g => globals'[w] = globals[w]
      /\ globals' \in [VMs -> Seq(Nat)]
  BY <1>1, <1>2, <1>4, <1>5 DEF TablesOK
<1>7. /\ snapshot' \in [Tasks -> Seq(Nat)]
      /\ g \in Tasks => snapshot'[g] = Append(snapshot[g], Nil)
      /\ \A t \in Tasks : t # g => snapshot'[t] = snapshot[t]
  BY <1>1, <1>4 DEF TablesOK, Nil
<1>8. TablesOK'
  BY <1>1, <1>4, <1>6, <1>7 DEF TablesOK
<1>9. SnapshotsOK'
  <2> SUFFICES ASSUME NEW t \in Tasks
               PROVE  /\ Len(snapshot'[t]) = Len(globals'[t])
                      /\ \A s \in DOMAIN snapshot'[t] : snapshot'[t][s] <= x
    BY DEF SnapshotsOK
  <2>1. t \in VMs /\ snapshot[t] \in Seq(Nat) /\ Len(snapshot[t]) = Len(globals[t])
        /\ \A s \in DOMAIN snapshot[t] : snapshot[t][s] <= Len(heap)
    BY <1>1, Distinct DEF TablesOK, SnapshotsOK
  <2>2. \A s \in DOMAIN snapshot[t] : snapshot[t][s] <= x
    <3>1. \A s \in DOMAIN snapshot[t] : snapshot[t][s] \in Nat
      BY <2>1
    <3> QED BY <1>5, <2>1, <3>1
  <2>3. CASE t = g
    <3>1. snapshot'[t] = Append(snapshot[t], Nil) /\ Nil <= x /\ Nil \in Nat
      BY <1>5, <1>7, <2>3 DEF Nil
    <3>2. Len(snapshot'[t]) = Len(globals'[t])
      <4>1. Len(snapshot'[t]) = Len(snapshot[t]) + 1
        BY <2>1, <3>1, Longer
      <4>2. Len(globals'[t]) = Len(globals[t]) + 1
        BY <1>5, <1>6, <2>3, Longer
      <4> QED BY <2>1, <4>1, <4>2
    <3>3. \A s \in DOMAIN snapshot'[t] : s \in 1 .. Len(snapshot[t]) \/ s = Len(snapshot[t]) + 1
      <4>1. DOMAIN snapshot'[t] = 1 .. Len(snapshot[t]) + 1 /\ Len(snapshot[t]) \in Nat
        BY <2>1, <3>1, Longer
      <4> QED BY <4>1
    <3>4. \A s \in DOMAIN snapshot'[t] : snapshot'[t][s] <= x
      BY <2>1, <2>2, <3>1, <3>3, Longer
    <3> QED BY <3>2, <3>4
  <2>4. CASE t # g
    BY <1>6, <1>7, <2>1, <2>2, <2>4
  <2> QED BY <2>3, <2>4
<1>10. Values(g)' \subseteq Values(g) \cup {x}
  <2>1. \A s \in DOMAIN globals'[g] :
          \/ s \in DOMAIN globals[g] /\ globals'[g][s] = globals[g][s]
          \/ globals'[g][s] = x
    BY <1>5, <1>6
  <2> QED BY <2>1 DEF Values
<1>11. \A w \in VMs : w # g => Values(w)' = Values(w)
  BY <1>6 DEF Values
<1>12. Results' = Results
  BY <1>4 DEF Results
<1>13. GivesNew(v)
  <2>1. {x} = {Len(heap) + 1} \cap (1..Len(heap'))
    BY <1>5
  <2> QED BY <1>2, <1>5, <1>10, <1>11, <1>12, <2>1, OnlyOwner
<1> QED BY <1>5, <1>8, <1>9, <1>13 DEF Tables

LEMMA SetStep ==
  ASSUME IInv, NEW v \in Threads, NEW h \in Homes, NEW n \in NamesOf(h),
         Set(v, h, n) \/ DefineIn(v, h, n)
  PROVE  Tables' /\ GivesNew(v)
<1>1. CASE Resolves(v, h, n) /\ Store(v, h, n, Slot(v, h, n)) /\ Keeps(v)
  BY <1>1, StoreStep DEF Resolves
<1>2. CASE Create(v, h, n) /\ UNCHANGED held
  BY <1>2, CreateStep
<1> QED BY <1>1, <1>2 DEF Set, DefineIn, Keeps

LEMMA DefineStep ==
  ASSUME IInv, NEW n \in NamesOf(Main), Define(n)
  PROVE  Tables' /\ GivesNew(Main)
<1>1. CASE Create(Main, Main, n) /\ UNCHANGED held
  BY <1>1, CreateStep, Distinct DEF Homes
<1>2. CASE /\ index[Main][n] \in DOMAIN globals[Main]
           /\ Store(Main, Main, n, index[Main][n]) /\ UNCHANGED held
  <2>1. Gvm(Main, Main) = Main /\ Main \in Homes
    BY Distinct DEF Gvm, Homes
  <2> QED BY <1>2, <2>1, StoreStep, Distinct DEF Keeps
<1> QED BY <1>1, <1>2 DEF Define

\* OP_GET_GLOBAL: a loaded slot is the thread's already, an unloaded one
\* becomes a fresh copy.
LEMMA GetStep ==
  ASSUME IInv, SharedNames = {},
         NEW v \in Threads, NEW h \in Homes, NEW n \in NamesOf(h), Get(v, h, n)
  PROVE  Tables' /\ GivesNew(v)
<1> DEFINE g == Gvm(v, h)
           s == Slot(v, h, n)
           o == globals'[g][s]
<1>1. HeapOK /\ TablesOK /\ SnapshotsOK
  BY DEF IInv
<1>2. g \in VMs /\ s \in DOMAIN globals[g] /\ (g = v \/ (v = Main /\ g = Grain))
  <2>1. Resolves(v, h, n)
    BY DEF Get
  <2>2. s \in DOMAIN globals[g]
    BY <2>1 DEF Resolves
  <2>3. g \in VMs /\ (g = v \/ (v = Main /\ g = Grain))
    BY GvmOwn
  <2> QED BY <2>2, <2>3
<1>3. /\ held' = [held EXCEPT ![v] = @ \cup ({o} \ {Nil})]
      /\ result' = result
      /\ IF g \in Tasks /\ ~loaded[g][s] THEN Load(g, s)
         ELSE UNCHANGED <<heap, globals, loaded, snapshot>>
  BY DEF Get, layout
<1>4. Results' = Results
  BY <1>3 DEF Results
<1> HIDE DEF g, s
<1>5. /\ held'[v] = held[v] \cup ({o} \ {Nil})
      /\ \A w \in Threads : w # v => held'[w] = held[w]
  BY <1>1, <1>3 DEF TablesOK
<1>6. CASE UNCHANGED <<heap, globals, loaded, snapshot>>
  <2>1. o \in Nat /\ {o} \ {Nil} \subseteq Values(g)
    BY <1>1, <1>2, <1>6 DEF Values, TablesOK
  <2>2. \A w : Values(w)' = Values(w)
    BY <1>6 DEF Values
  <2>3. Tables'
    BY <1>1, <1>3, <1>6, <2>1 DEF Tables, HeapOK, TablesOK, SnapshotsOK
  <2>4. GivesNew(v)
    BY <1>1, <1>2, <1>4, <1>5, <1>6, <2>1, <2>2, OnlyOwner DEF HeapOK
  <2> QED BY <2>3, <2>4
<1>7. CASE g \in Tasks /\ Load(g, s)
  <2> DEFINE x == snapshot[g][s]
             c == x # Nil /\ ~IsShared(x)
             y == IF c THEN Len(heap') ELSE x
  <2>0. g = v
    BY <1>2, <1>7, Distinct
  <2>1. /\ heap' = IF c THEN Append(heap, heap[x]) ELSE heap
        /\ globals' = [globals EXCEPT ![g][s] = y]
        /\ snapshot' = [snapshot EXCEPT ![g][s] = Nil]
    BY <1>7 DEF Load
  <2>2. s \in DOMAIN snapshot[g] /\ x \in Nat /\ x <= Len(heap)
    BY <1>1, <1>2, <1>7 DEF TablesOK, SnapshotsOK
  <2>3. x # Nil => c
    BY DEF IsShared
  <2>4. x # Nil => heap[x] \in Object
    BY <1>1, <2>2 DEF HeapOK, Nil
  <2>5. HeapOK' /\ Len(heap) \in Nat /\ (c => Len(heap') = Len(heap) + 1)
        /\ (~c => heap' = heap)
    BY <1>1, <2>1, <2>4, Allocated DEF HeapOK
  <2>6. y \in Nat /\ {y} \ {Nil} \subseteq {Len(heap) + 1} \cap (1..Len(heap'))
    BY <2>2, <2>3, <2>5 DEF Nil
  <2> HIDE DEF x, c, y
  <2>7. /\ globals' \in [VMs -> Seq(Nat)]
        /\ \A w \in VMs : Len(globals'[w]) = Len(globals[w])
        /\ \A w \in VMs : w # g => Values(w)' = Values(w)
        /\ Values(g)' \subseteq Values(g) \cup ({y} \ {Nil})
        /\ o = y
    <3>1. globals \in [VMs -> Seq(Nat)]
      BY <1>1 DEF TablesOK
    <3> QED BY <1>2, <2>1, <2>6, <3>1, SlotWritten
  <2>8. /\ snapshot' \in [Tasks -> Seq(Nat)]
        /\ \A t \in Tasks : Len(snapshot'[t]) = Len(snapshot[t])
        /\ \A t \in Tasks : \A i \in DOMAIN snapshot'[t] :
             i \in DOMAIN snapshot[t] /\ snapshot'[t][i] \in {Nil, snapshot[t][i]}
    <3>1. /\ snapshot'[g] = [snapshot[g] EXCEPT ![s] = Nil]
          /\ \A t \in Tasks : t # g => snapshot'[t] = snapshot[t]
          /\ snapshot' = [t \in Tasks |-> snapshot'[t]]
      BY <1>1, <1>7, <2>1 DEF TablesOK
    <3>2. snapshot'[g] \in Seq(Nat) /\ Len(snapshot'[g]) = Len(snapshot[g])
          /\ DOMAIN snapshot'[g] = DOMAIN snapshot[g]
      <4>1. snapshot[g] \in Seq(Nat) /\ \A i \in DOMAIN snapshot[g] : snapshot'[g][i] \in Nat
        BY <1>1, <1>7, <3>1 DEF TablesOK, Nil
      <4>2. snapshot'[g] = [i \in DOMAIN snapshot[g] |-> snapshot'[g][i]]
        BY <3>1
      <4> QED BY <4>1, <4>2, SameLength
    <3> QED BY <1>1, <1>7, <3>1, <3>2 DEF TablesOK
  <2>9. TablesOK'
    BY <1>1, <1>3, <2>6, <2>7, <2>8 DEF TablesOK
  <2>10. SnapshotsOK'
    BY <1>1, <2>5, <2>7, <2>8, SnapshotsKept DEF TablesOK
  <2>11. GivesNew(v)
    BY <1>2, <1>4, <1>5, <2>5, <2>6, <2>7, OnlyOwner
  <2> QED BY <2>5, <2>9, <2>10, <2>11 DEF Tables
<1> QED BY <1>3, <1>6, <1>7

LEMMA SpawnStep ==
  ASSUME IInv, SharedNames = {}, NEW p \in Threads, NEW t \in Tasks, NEW h \in Homes,
         NEW arg \in held[p] \cup {Nil}, Spawn(p, t, h, arg)
  PROVE  Tables' /\ GivesNew(t)
<1> DEFINE g == SnapVm(p, h)
           a == IF arg = Nil THEN Nil ELSE CopyArg(arg)
<1>1. HeapOK /\ TablesOK /\ SnapshotsOK /\ OwnedExist
  BY DEF IInv
<1>2. Len(heap) \in Nat
  BY <1>1 DEF HeapOK
<1>3. arg # Nil => arg \in 1..Len(heap)
  BY <1>1 DEF OwnedExist, Owned
<1>4. arg # Nil => heap[arg] \in Object
  BY <1>1, <1>3 DEF HeapOK
<1>5. a = IF arg = Nil THEN Nil ELSE Len(heap) + 1
  BY DEF CopyArg, IsShared
<1>6. /\ heap' = IF a > Len(heap) THEN Append(heap, heap[arg]) ELSE heap
      /\ held' = [held EXCEPT ![t] = {a} \ {Nil}]
      /\ globals' = [globals EXCEPT ![t] = [s \in DOMAIN globals[g] |-> Nil]]
      /\ snapshot' = [snapshot EXCEPT ![t] = SnapshotOf(g)]
      /\ result' = result
  BY DEF Spawn
<1>7. g \in VMs /\ (g = p \/ g = Grain)
  BY Distinct DEF SnapVm
<1> HIDE DEF g, a
<1>8. HeapOK' /\ (arg = Nil => heap' = heap) /\ (arg # Nil => Len(heap') = Len(heap) + 1)
  <2>1. CASE arg = Nil
    BY <1>1, <1>2, <1>5, <1>6, <2>1 DEF HeapOK, Nil
  <2>2. CASE arg # Nil
    <3>1. heap' = Append(heap, heap[arg])
      BY <1>2, <1>5, <1>6, <2>2
    <3> QED BY <1>1, <1>4, <2>2, <3>1, Allocated
  <2> QED BY <2>1, <2>2
<1>9. globals[g] \in Seq(Nat)
  BY <1>1, <1>7 DEF TablesOK
<1>10. \A s \in DOMAIN globals[g] :
         View(g, s) \in Nat /\ View(g, s) <= Len(heap)
  <2> SUFFICES ASSUME NEW s \in DOMAIN globals[g]
               PROVE  View(g, s) \in Nat /\ View(g, s) <= Len(heap)
    OBVIOUS
  <2>1. CASE g \in Tasks /\ ~loaded[g][s]
    <3>1. s \in DOMAIN snapshot[g]
      BY <1>1, <1>9, <2>1 DEF TablesOK, SnapshotsOK
    <3> QED BY <1>1, <2>1, <3>1 DEF View, TablesOK, SnapshotsOK
  <2>2. CASE ~(g \in Tasks /\ ~loaded[g][s])
    <3>1. globals[g][s] \in Nat
      BY <1>9
    <3>2. Values(g) \subseteq 1..Len(heap)
      BY <1>1, <1>7, Distinct DEF OwnedExist, Owned
    <3>3. globals[g][s] = Nil \/ globals[g][s] \in Values(g)
      BY DEF Values
    <3> QED BY <1>2, <2>2, <3>1, <3>2, <3>3 DEF View, Nil
  <2> QED BY <2>1, <2>2
<1>11. /\ globals'[t] = [s \in DOMAIN globals[g] |-> Nil]
       /\ \A w \in VMs \ {t} : globals'[w] = globals[w]
       /\ globals' = [w \in VMs |-> globals'[w]]
  BY <1>1, <1>6, Distinct DEF TablesOK
<1>12. globals'[t] \in Seq(Nat) /\ Len(globals'[t]) = Len(globals[g])
       /\ DOMAIN globals'[t] = DOMAIN globals[g]
  BY <1>9, <1>11, SameLength DEF Nil
<1>13. globals' \in [VMs -> Seq(Nat)]
  BY <1>1, <1>11, <1>12 DEF TablesOK
<1>14. /\ snapshot'[t] = [s \in DOMAIN globals[g] |-> View(g, s)]
       /\ \A u \in Tasks \ {t} : snapshot'[u] = snapshot[u]
       /\ snapshot' = [u \in Tasks |-> snapshot'[u]]
  BY <1>1, <1>6 DEF TablesOK, SnapshotOf
<1>15. snapshot'[t] \in Seq(Nat) /\ Len(snapshot'[t]) = Len(globals[g])
       /\ DOMAIN snapshot'[t] = DOMAIN globals[g]
  <2>1. \A s \in DOMAIN globals[g] : snapshot'[t][s] \in Nat
    BY <1>10, <1>14
  <2>2. snapshot'[t] = [s \in DOMAIN globals[g] |-> snapshot'[t][s]]
    BY <1>14
  <2> QED BY <1>9, <2>1, <2>2, SameLength
<1>16. snapshot' \in [Tasks -> Seq(Nat)]
  BY <1>1, <1>14, <1>15 DEF TablesOK
<1>17. {a} \ {Nil} \subseteq {Len(heap) + 1} \cap (1..Len(heap')) /\ a \in Nat
  BY <1>2, <1>5, <1>8 DEF Nil
<1>18. TablesOK'
  BY <1>1, <1>6, <1>13, <1>16, <1>17 DEF TablesOK
<1>19. SnapshotsOK'
  <2> SUFFICES ASSUME NEW u \in Tasks
               PROVE  /\ Len(snapshot'[u]) = Len(globals'[u])
                      /\ \A s \in DOMAIN snapshot'[u] : snapshot'[u][s] <= Len(heap')
    BY DEF SnapshotsOK
  <2>0. Len(heap) <= Len(heap') /\ Len(heap') \in Nat
    BY <1>2, <1>8
  <2>1. CASE u = t
    BY <1>2, <1>10, <1>12, <1>14, <1>15, <2>0, <2>1
  <2>2. CASE u # t
    <3>1. Len(snapshot'[u]) = Len(globals'[u])
      BY <1>1, <1>11, <1>14, <2>2, Distinct DEF SnapshotsOK
    <3>2. \A s \in DOMAIN snapshot[u] : snapshot[u][s] <= Len(heap) /\ snapshot[u][s] \in Nat
      BY <1>1 DEF SnapshotsOK, TablesOK
    <3> QED BY <1>2, <1>14, <2>0, <2>2, <3>1, <3>2
  <2> QED BY <2>1, <2>2
<1>20. Values(t)' = {} /\ \A w \in VMs \ {t} : Values(w)' = Values(w)
  BY <1>11 DEF Values
<1>21. held'[t] = {a} \ {Nil} /\ \A w \in Threads \ {t} : held'[w] = held[w]
  BY <1>1, <1>6, Distinct DEF TablesOK
<1>22. Results' = Results
  BY <1>6 DEF Results
<1>23. Owned(t)' = {a} \ {Nil} /\ \A w \in Threads \ {t} : Owned(w)' = Owned(w)
  BY <1>20, <1>21, <1>22, Distinct DEF Owned
<1>24. GivesNew(t)
  BY <1>8, <1>17, <1>23 DEF GivesNew
<1> QED BY <1>8, <1>18, <1>19, <1>24 DEF Tables

LEMMA MutateStep ==
  ASSUME IInv, NEW v \in Threads, NEW o \in held[v], Mutate(v, o)
  PROVE  Tables' /\ GivesNew(Main)
<1>1. HeapOK /\ TablesOK /\ SnapshotsOK /\ OwnedExist
  BY DEF IInv
<1>2. o \in 1..Len(heap)
  BY <1>1 DEF OwnedExist, Owned
<1>3. heap[o] \in Object /\ [heap[o] EXCEPT !.content = @ + 1] \in Object
  <2>1. heap[o] \in Object
    BY <1>1, <1>2 DEF HeapOK
  <2>2. heap[o].content \in Nat /\ heap[o].content + 1 \in Nat
    BY <2>1 DEF Object
  <2> QED BY <2>1, <2>2 DEF Object
<1>4. heap' = [heap EXCEPT ![o] = [heap[o] EXCEPT !.content = @ + 1]]
  BY DEF Mutate
<1>5. HeapOK' /\ Len(heap') = Len(heap)
  BY <1>1, <1>2, <1>3, <1>4 DEF HeapOK
<1>6. UNCHANGED <<globals, held, result, snapshot>>
  BY DEF Mutate, layout
<1>7. TablesOK' /\ SnapshotsOK'
  BY <1>1, <1>5, <1>6 DEF TablesOK, SnapshotsOK
<1>8. \A w : Owned(w)' = Owned(w)
  BY <1>6, SameOwners
<1> QED BY <1>5, <1>7, <1>8 DEF Tables, GivesNew

LEMMA OutOfRangeStep ==
  ASSUME IInv, NEW v \in Threads, NEW h \in Homes, NEW n \in NamesOf(h),
         OutOfRange(v, h, n)
  PROVE  Tables' /\ GivesNew(Main)
<1>1. UNCHANGED <<globals, held, result, snapshot, heap>>
  BY DEF OutOfRange, layout
<1>2. Tables'
  BY <1>1 DEF IInv, Tables, HeapOK, TablesOK, SnapshotsOK
<1>3. \A w : Owned(w)' = Owned(w)
  BY <1>1, SameOwners
<1> QED BY <1>1, <1>2, <1>3 DEF GivesNew

\* The awaited value is the script's already.
LEMMA AwaitStep ==
  ASSUME IInv, Awaiters \subseteq {Main}, NEW v \in Threads, NEW t \in Tasks, Await(v, t)
  PROVE  Tables' /\ GivesNew(Main)
<1>1. HeapOK /\ TablesOK /\ SnapshotsOK /\ v = Main
  BY DEF IInv, Await
<1>2. /\ UNCHANGED <<globals, result, snapshot, heap>>
      /\ held' = [held EXCEPT ![Main] = @ \cup {result[t]}]
      /\ result[t] # Nil
  BY <1>1 DEF Await, layout
<1>3. Tables'
  BY <1>1, <1>2, Distinct DEF Tables, HeapOK, TablesOK, SnapshotsOK
<1>4. result[t] \in Results /\ Results' = Results /\ \A w : Values(w)' = Values(w)
  BY <1>2 DEF Results, Values
<1>5. /\ held'[Main] = held[Main] \cup {result[t]}
      /\ \A w \in Threads : w # Main => held'[w] = held[w]
  BY <1>1, <1>2, Distinct DEF TablesOK
<1>6. \A w \in Threads : Owned(w)' \subseteq Owned(w)
  BY <1>4, <1>5 DEF Owned
<1> QED BY <1>2, <1>3, <1>6, Distinct DEF GivesNew

LEMMA FinishStep ==
  ASSUME IInv, NEW t \in Tasks, NEW o \in held[t] \cup {Nil}, Finish(t, o)
  PROVE  Tables' /\ HandsOver(t)
<1>1. HeapOK /\ TablesOK /\ SnapshotsOK
  BY DEF IInv
<1>2. /\ result' = [result EXCEPT ![t] = o]
      /\ held' = [held EXCEPT ![t] = {}]
      /\ globals' = [globals EXCEPT ![t] = <<>>]
      /\ snapshot' = [snapshot EXCEPT ![t] = <<>>]
      /\ heap' = heap
  BY DEF Finish
<1>3. o \in Nat
  BY <1>1, Distinct DEF TablesOK, Nil
<1>4. /\ held'[t] = {} /\ globals'[t] = <<>> /\ snapshot'[t] = <<>> /\ result'[t] = o
      /\ \A w \in Threads \ {t} : held'[w] = held[w]
      /\ \A w \in VMs \ {t} : globals'[w] = globals[w]
      /\ \A u \in Tasks \ {t} : snapshot'[u] = snapshot[u] /\ result'[u] = result[u]
  BY <1>1, <1>2, Distinct DEF TablesOK
<1>5. TablesOK'
  <2>1. globals' \in [VMs -> Seq(Nat)] /\ snapshot' \in [Tasks -> Seq(Nat)]
    BY <1>1, <1>2, EmptySeq DEF TablesOK
  <2>2. held' \in [Threads -> SUBSET Nat] /\ result' \in [Tasks -> Nat]
    BY <1>1, <1>2, <1>3 DEF TablesOK
  <2> QED BY <2>1, <2>2 DEF TablesOK
<1>6. SnapshotsOK'
  BY <1>1, <1>2, <1>4, Distinct DEF SnapshotsOK
<1>7. Values(t)' = {} /\ \A w \in VMs \ {t} : Values(w)' = Values(w)
  BY <1>4 DEF Values
<1>8. Results' \subseteq Results \cup ({o} \ {Nil})
  BY <1>4 DEF Results
<1>9. {o} \ {Nil} \subseteq Owned(t)
  BY DEF Owned
<1>10. Owned(t)' = {}
  BY <1>4, <1>7, Distinct DEF Owned
<1>11. Owned(Main)' \subseteq Owned(Main) \cup Owned(t)
  <2>1. Main \in Threads \ {t} /\ Main \in VMs \ {t} /\ Grain \in VMs \ {t}
    BY Distinct
  <2> QED BY <1>4, <1>7, <1>8, <1>9, <2>1 DEF Owned
<1>12. \A v \in Threads \ {Main, t} : Owned(v)' \subseteq Owned(v)
  BY <1>4, <1>7, Distinct DEF Owned
<1>13. HandsOver(t)
  BY <1>2, <1>10, <1>11, <1>12 DEF HandsOver
<1> QED BY <1>1, <1>2, <1>5, <1>6, <1>13 DEF Tables, HeapOK

LEMMA NextIInv ==
  ASSUME IInv, SharedNames = {}, Awaiters \subseteq {Main}, [Next]_vars
  PROVE  IInv'
<1>1. SUFFICES ASSUME Next PROVE IInv'
  <2>1. CASE UNCHANGED vars
    <3>1. UNCHANGED <<globals, held, result, snapshot, heap>>
      BY <2>1 DEF vars
    <3>2. \A w : Owned(w)' = Owned(w)
      BY <3>1, SameOwners
    <3>3. HeapOK' /\ TablesOK' /\ SnapshotsOK'
      BY <3>1 DEF IInv, HeapOK, TablesOK, SnapshotsOK
    <3>4. OwnedExist' /\ OwnedApart'
      BY <3>1, <3>2 DEF IInv, OwnedExist, OwnedApart
    <3> QED BY <3>3, <3>4 DEF IInv
  <2> QED BY <2>1
<1>2. SUFFICES /\ Tables'
               /\ (\E u \in Threads : GivesNew(u)) \/ (\E t \in Tasks : HandsOver(t))
  BY ApartKept DEF IInv, Tables
<1>3. CASE \E n \in NamesOf(Main) : Define(n)
  BY <1>3, DefineStep, Distinct
<1>4. CASE \E v \in Threads, h \in Homes : \E n \in NamesOf(h) :
             Get(v, h, n) \/ Set(v, h, n) \/ DefineIn(v, h, n) \/ OutOfRange(v, h, n)
  BY <1>4, GetStep, SetStep, OutOfRangeStep, Distinct
<1>5. CASE \E v \in Threads : \E o \in held[v] : Mutate(v, o)
  BY <1>5, MutateStep, Distinct
<1>6. CASE \E v \in Threads, t \in Tasks, h \in Homes : \E a \in held[v] \cup {Nil} :
             Spawn(v, t, h, a)
  BY <1>6, SpawnStep, Distinct
<1>7. CASE \E v \in Threads, t \in Tasks : Await(v, t)
  BY <1>7, AwaitStep, Distinct
<1>8. CASE \E t \in Tasks : \E o \in held[t] \cup {Nil} : Finish(t, o)
  BY <1>8, FinishStep
<1> QED BY <1>1, <1>3, <1>4, <1>5, <1>6, <1>7, <1>8 DEF Next

(***************************************************************************)
(* Isolation of tasks: when every value is of a kind deepCopyForTask       *)
(* copies, and only the script awaits futures, no object is ever held by   *)
(* two threads, whichever module's functions the tasks call and whenever   *)
(* globals are defined.                                                    *)
(***************************************************************************)
THEOREM NothingShared ==
  ASSUME SharedNames = {}, Awaiters \subseteq {Main}
  PROVE  Spec => []NoSharedMutable
<1>1. Init => IInv
  BY InitIInv
<1>2. IInv /\ [Next]_vars => IInv'
  BY NextIInv
<1>3. IInv => NoSharedMutable
  BY DEF IInv, OwnedApart, Owned, NoSharedMutable
<1> QED BY <1>1, <1>2, <1>3, PTL DEF Spec

-----------------------------------------------------------------------------
(***************************************************************************)
(* What a global resolves to, when tasks call only functions of the module *)
(* they were spawned for.  Every VM then keeps the layout of one module,   *)
(* and all that is stored about a slot agrees with that layout: the VM's   *)
(* index, the cache every chunk of the module shares, and the object that  *)
(* reading the slot yields, whether it is still in the snapshot or loaded. *)
(***************************************************************************)
HomeOf(v) == IF v \in Threads THEN home[v] ELSE Grain
Variable(v, s) == <<HomeOf(v), Layout[HomeOf(v)][s]>>

Shapes ==
  /\ heap \in Seq(Object)
  /\ home \in [Threads -> Homes] /\ home[Main] = Main
  /\ status \in [Threads -> {"idle", "running", "done"}]
  /\ globals \in [VMs -> Seq(Nat)]
  /\ snapshot \in [Tasks -> Seq(Nat)]
  /\ loaded \in [Tasks -> Seq(BOOLEAN)]
  /\ cache \in [Homes -> [Names -> Nat]]
  /\ index \in [VMs -> [Names -> Nat]]
  /\ wrote \in [Tasks -> [Names -> Nat]]
  /\ held \in [Threads -> SUBSET (1..Len(heap))]
  /\ result \in [Tasks -> {Nil} \cup (1..Len(heap))]
SameSlots ==
  \A t \in Tasks : DOMAIN snapshot[t] = DOMAIN globals[t] /\ DOMAIN loaded[t] = DOMAIN globals[t]
SlotsInLayout == \A v \in VMs : Len(globals[v]) <= Len(Layout[HomeOf(v)])
CacheExact ==
  \A h \in Homes, n \in Names : cache[h][n] # 0 => Layout[h][cache[h][n]] = n
IndexExact ==
  \A v \in VMs, n \in Names :
    index[v][n] # 0 => index[v][n] \in DOMAIN globals[v] /\ Layout[HomeOf(v)][index[v][n]] = n
Holds(o, x) == o \in 1..Len(heap) /\ heap[o].var = x
ViewsExact == \A v \in VMs : \A s \in DOMAIN globals[v] : Holds(View(v, s), Variable(v, s))
WroteExact ==
  \A t \in Tasks, n \in Names : wrote[t][n] # Nil =>
    /\ status[t] = "running"
    /\ \E s \in DOMAIN globals[t] :
         Layout[home[t]][s] = n /\ loaded[t][s] /\ globals[t][s] = wrote[t][n]
AccessExact == access # None => Holds(access.object, <<access.chunk, access.name>>)

Slots == SlotsInLayout /\ CacheExact /\ IndexExact /\ ViewsExact
Resolved == Shapes /\ SameSlots /\ Slots /\ WroteExact /\ AccessExact

LEMMA Layouts ==
  /\ Layout \in [Homes -> Seq(STRING)]
  /\ \A h \in Homes : \A i \in DOMAIN Layout[h] : Layout[h][i] \in Names
  /\ \A h \in Homes : NamesOf(h) \subseteq Names
<1>1. Layout \in [Homes -> Seq(STRING)]
  BY ProgramAssumption DEF Layout
<1>2. \A h \in Homes : NamesOf(h) \subseteq Names
  BY DEF Homes, Names
<1>3. \A h \in Homes : \A i \in DOMAIN Layout[h] : Layout[h][i] \in NamesOf(h)
  BY DEF NamesOf
<1> QED BY <1>1, <1>2, <1>3

LEMMA Reshaped ==
  ASSUME NEW S, NEW T, NEW s \in Seq(S), NEW f, f = [i \in DOMAIN s |-> f[i]],
         \A i \in DOMAIN s : f[i] \in T
  PROVE  f \in Seq(T) /\ DOMAIN f = DOMAIN s /\ Len(f) = Len(s)
  OBVIOUS

\* Every VM of a thread or a grain has a module, and a chunk resolves its
\* names in a VM of its own module.
LEMMA HomesOK ==
  ASSUME Shapes
  PROVE  /\ \A v \in VMs : HomeOf(v) \in Homes
         /\ HomeOf(Main) = Main /\ HomeOf(Grain) = Grain
         /\ \A t \in Tasks : HomeOf(t) = home[t]
  BY Distinct DEF Shapes, HomeOf, Homes

LEMMA ResolvesAtHome ==
  ASSUME Shapes, \A h, k : <<h, k>> \in Calls => h = k,
         NEW v \in Threads, NEW h \in Homes, MayRun(v, h)
  PROVE  /\ HomeOf(Gvm(v, h)) = h
         /\ HomeOf(SnapVm(v, h)) = h
<1>1. CASE v = Main
  <2>1. h = Main \/ h = Grain
    BY DEF Homes
  <2> QED BY <1>1, <2>1, Distinct, HomesOK DEF Gvm, SnapVm
<1>2. CASE v # Main
  <2>1. v \in Tasks /\ home[v] = h
    BY <1>2 DEF Threads, MayRun
  <2>2. HomeOf(v) = h
    BY <2>1, HomesOK
  <2>3. HomeOf(Grain) = Grain
    BY HomesOK
  <2> QED BY <2>1, <2>2, <2>3 DEF Gvm, SnapVm
<1> QED BY <1>1, <1>2

\* The slot a name resolves to is that name's in the layout.
LEMMA SlotExact ==
  ASSUME Shapes, CacheExact, IndexExact, NEW v \in Threads, NEW h \in Homes,
         NEW n \in NamesOf(h), Slot(v, h, n) # 0, HomeOf(Gvm(v, h)) = h
  PROVE  Layout[h][Slot(v, h, n)] = n
<1>1. n \in Names
  BY Layouts
<1>2. Gvm(v, h) \in VMs
  BY GvmOwn
<1>3. CASE cache[h][n] # 0
  BY <1>1, <1>3 DEF Slot, CacheExact
<1>4. CASE cache[h][n] = 0
  BY <1>1, <1>2, <1>4 DEF Slot, IndexExact
<1> QED BY <1>3, <1>4

\* The heap grows, and objects keep their variables.
HeapGrows ==
  /\ heap' \in Seq(Object)
  /\ Len(heap) \in Nat /\ Len(heap) <= Len(heap')
  /\ \A o \in 1..Len(heap) : heap'[o].var = heap[o].var

LEMMA SameHeap ==
  ASSUME Shapes, heap' = heap
  PROVE  HeapGrows
  BY DEF Shapes, HeapGrows

LEMMA NewObject ==
  ASSUME Shapes, NEW x \in Object, heap' = Append(heap, x)
  PROVE  HeapGrows /\ Len(heap') = Len(heap) + 1 /\ heap'[Len(heap')] = x
  BY DEF Shapes, HeapGrows

LEMMA StillHolds ==
  ASSUME HeapGrows, NEW o, NEW x, Holds(o, x)
  PROVE  Holds(o, x)'
<1>1. o \in 1..Len(heap') /\ heap'[o].var = x
  BY DEF HeapGrows, Holds
<1> QED BY <1>1 DEF Holds

\* An action that stores nothing about slots.
LEMMA QuietStep ==
  ASSUME Resolved, HeapGrows, result' = result, access' = None,
         UNCHANGED <<status, home, index, globals, snapshot, loaded, cache, wrote>>,
         held' \in [Threads -> SUBSET (1..Len(heap'))]
  PROVE  Resolved'
<1>1. Shapes'
  BY DEF Resolved, Shapes, HeapGrows
<1>2. \A v : HomeOf(v)' = HomeOf(v)
  BY DEF HomeOf
<1>3. SameSlots' /\ WroteExact' /\ AccessExact'
  BY DEF Resolved, SameSlots, WroteExact, AccessExact
<1>4. SlotsInLayout' /\ CacheExact' /\ IndexExact'
  BY <1>2 DEF Resolved, Slots, SlotsInLayout, CacheExact, IndexExact
<1>5. ViewsExact'
  <2> SUFFICES ASSUME NEW v \in VMs, NEW s \in DOMAIN globals[v]
               PROVE  Holds(View(v, s), Variable(v, s))'
    BY DEF ViewsExact
  <2>1. View(v, s)' = View(v, s) /\ Variable(v, s)' = Variable(v, s)
    BY <1>2 DEF View, Variable
  <2>2. Holds(View(v, s), Variable(v, s))
    BY DEF Resolved, Slots, ViewsExact
  <2> QED BY <2>1, <2>2 DEF Holds, HeapGrows
<1> QED BY <1>1, <1>3, <1>4, <1>5 DEF Resolved, Slots

\* One slot of one VM gets an object and counts as loaded.
Writes(g, s, x) ==
  /\ g \in VMs /\ s \in DOMAIN globals[g] /\ x \in Nat
  /\ globals' = [globals EXCEPT ![g][s] = x]
  /\ MarkLoaded(g, s)
  /\ snapshot' = snapshot \/ snapshot' = [snapshot EXCEPT ![g][s] = Nil]

LEMMA SlotOnly ==
  ASSUME Shapes, SameSlots, NEW g, NEW s, NEW x, Writes(g, s, x)
  PROVE  /\ globals' \in [VMs -> Seq(Nat)] /\ globals'[g][s] = x
         /\ \A v \in VMs : DOMAIN globals'[v] = DOMAIN globals[v] /\ Len(globals'[v]) = Len(globals[v])
         /\ \A v \in VMs : \A i \in DOMAIN globals[v] :
              v # g \/ i # s => globals'[v][i] = globals[v][i]
<1>1. globals \in [VMs -> Seq(Nat)] /\ g \in VMs /\ s \in DOMAIN globals[g] /\ x \in Nat
      /\ globals' = [globals EXCEPT ![g][s] = x]
  BY DEF Shapes, Writes
<1>2. globals'[g] = [globals[g] EXCEPT ![s] = x] /\ \A v \in VMs : v # g => globals'[v] = globals[v]
  BY <1>1
<1>3. globals'[g] \in Seq(Nat) /\ DOMAIN globals'[g] = DOMAIN globals[g]
      /\ Len(globals'[g]) = Len(globals[g])
  BY <1>1, <1>2, SameLength
<1>4. globals' \in [VMs -> Seq(Nat)]
  BY <1>1, <1>2, <1>3
<1> QED BY <1>1, <1>2, <1>3, <1>4

LEMMA MarkOnly ==
  ASSUME Shapes, SameSlots, NEW g, NEW s, NEW x, Writes(g, s, x)
  PROVE  /\ loaded' \in [Tasks -> Seq(BOOLEAN)]
         /\ \A t \in Tasks : DOMAIN loaded'[t] = DOMAIN loaded[t]
         /\ g \in Tasks => loaded'[g][s]
         /\ \A t \in Tasks : \A i \in DOMAIN loaded[t] :
              t # g \/ i # s => loaded'[t][i] = loaded[t][i]
<1>1. CASE g \in Tasks
  <2>1. loaded' = [loaded EXCEPT ![g][s] = TRUE] /\ loaded \in [Tasks -> Seq(BOOLEAN)]
        /\ s \in DOMAIN loaded[g]
    BY <1>1 DEF Writes, MarkLoaded, Shapes, SameSlots
  <2>2. loaded'[g] = [loaded[g] EXCEPT ![s] = TRUE] /\ \A v \in Tasks : v # g => loaded'[v] = loaded[v]
    BY <1>1, <2>1
  <2>3. loaded'[g] \in Seq(BOOLEAN) /\ DOMAIN loaded'[g] = DOMAIN loaded[g]
    <3>1. loaded[g] \in Seq(BOOLEAN)
      BY <1>1, <2>1
    <3>2. loaded'[g] = [i \in DOMAIN loaded[g] |-> loaded'[g][i]]
      BY <2>2
    <3>3. \A i \in DOMAIN loaded[g] : loaded'[g][i] \in BOOLEAN
      <4> SUFFICES ASSUME NEW i \in DOMAIN loaded[g] PROVE loaded'[g][i] \in BOOLEAN
        OBVIOUS
      <4>1. CASE i = s
        <5>1. loaded'[g][i] = TRUE
          BY <2>2, <4>1
        <5> QED BY <5>1
      <4>2. CASE i # s
        <5>1. loaded'[g][i] = loaded[g][i]
          BY <2>2, <4>2
        <5>2. loaded[g][i] \in BOOLEAN
          BY <3>1
        <5> QED BY <5>1, <5>2
      <4> QED BY <4>1, <4>2
    <3> QED BY <3>1, <3>2, <3>3, Reshaped
  <2>4. loaded' \in [Tasks -> Seq(BOOLEAN)]
    BY <1>1, <2>1, <2>2, <2>3
  <2>5. loaded'[g][s] = TRUE
    BY <2>1, <2>2
  <2>6. \A t \in Tasks : DOMAIN loaded'[t] = DOMAIN loaded[t]
    BY <2>2, <2>3
  <2>7. ASSUME NEW t \in Tasks, NEW i \in DOMAIN loaded[t], t # g \/ i # s
        PROVE  loaded'[t][i] = loaded[t][i]
    <3>1. CASE t # g
      BY <2>2, <3>1
    <3>2. CASE t = g /\ i # s
      BY <2>2, <3>2
    <3> QED BY <2>7, <3>1, <3>2
  <2> QED BY <2>4, <2>5, <2>6, <2>7
<1>2. CASE g \notin Tasks
  BY <1>2 DEF Writes, MarkLoaded, Shapes
<1> QED BY <1>1, <1>2

LEMMA SnapshotOnly ==
  ASSUME Shapes, SameSlots, NEW g, NEW s, NEW x, Writes(g, s, x)
  PROVE  /\ snapshot' \in [Tasks -> Seq(Nat)]
         /\ \A t \in Tasks : DOMAIN snapshot'[t] = DOMAIN snapshot[t]
         /\ \A t \in Tasks : \A i \in DOMAIN snapshot[t] :
              t # g \/ i # s => snapshot'[t][i] = snapshot[t][i]
<1>1. CASE g \in Tasks /\ snapshot' = [snapshot EXCEPT ![g][s] = Nil]
  <2>1. snapshot'[g] = [snapshot[g] EXCEPT ![s] = Nil]
        /\ \A v \in Tasks : v # g => snapshot'[v] = snapshot[v]
    BY <1>1 DEF Shapes
  <2>2. snapshot'[g] \in Seq(Nat) /\ DOMAIN snapshot'[g] = DOMAIN snapshot[g]
    <3>1. snapshot[g] \in Seq(Nat)
      BY <1>1 DEF Shapes
    <3>2. snapshot'[g] = [i \in DOMAIN snapshot[g] |-> snapshot'[g][i]]
      BY <2>1
    <3>3. \A i \in DOMAIN snapshot[g] : snapshot'[g][i] \in Nat
      BY <2>1, <3>1 DEF Nil
    <3> QED BY <3>1, <3>2, <3>3, SameLength
  <2>3. snapshot' \in [Tasks -> Seq(Nat)]
    BY <1>1, <2>1, <2>2 DEF Shapes
  <2> QED BY <1>1, <2>1, <2>2, <2>3
<1>2. CASE g \notin Tasks \/ snapshot' = snapshot
  <2>1. snapshot' = snapshot
    BY <1>2 DEF Writes, Shapes
  <2> QED BY <2>1 DEF Shapes
<1> QED BY <1>1, <1>2 DEF Writes

\* What other slots yield stays; this one yields the object.
LEMMA ViewsOnly ==
  ASSUME Shapes, SameSlots, NEW g, NEW s, NEW x, Writes(g, s, x)
  PROVE  /\ View(g, s)' = x
         /\ \A v \in VMs : \A i \in DOMAIN globals[v] :
              v # g \/ i # s => View(v, i)' = View(v, i)
<1>1. globals'[g][s] = x /\ (g \in Tasks => loaded'[g][s])
  BY SlotOnly, MarkOnly
<1>2. View(g, s)' = x
  BY <1>1 DEF View
<1>3. ASSUME NEW v \in VMs, NEW i \in DOMAIN globals[v], v # g \/ i # s
      PROVE  View(v, i)' = View(v, i)
  <2>1. globals'[v][i] = globals[v][i]
    BY <1>3, SlotOnly
  <2>2. ASSUME v \in Tasks
        PROVE  snapshot'[v][i] = snapshot[v][i] /\ loaded'[v][i] = loaded[v][i]
    <3>1. i \in DOMAIN snapshot[v] /\ i \in DOMAIN loaded[v]
      BY <2>2 DEF SameSlots
    <3> QED BY <1>3, <2>2, <3>1, MarkOnly, SnapshotOnly
  <2> QED BY <2>1, <2>2 DEF View
<1> QED BY <1>2, <1>3

\* One chunk caches a slot for one name, or none does.
LEMMA CacheOnly ==
  ASSUME Shapes, NEW h \in Homes, NEW n \in Names, NEW s \in Nat,
         cache' = cache \/ cache' = [cache EXCEPT ![h][n] = s]
  PROVE  /\ cache' \in [Homes -> [Names -> Nat]]
         /\ \A k \in Homes, m \in Names :
              cache'[k][m] = cache[k][m] \/ (k = h /\ m = n /\ cache'[k][m] = s)
<1>1. CASE cache' = cache
  BY <1>1 DEF Shapes
<1>2. CASE cache' = [cache EXCEPT ![h][n] = s]
  BY <1>2 DEF Shapes
<1> QED BY <1>1, <1>2

LEMMA WriteStep ==
  ASSUME Resolved, HeapGrows, NEW g, NEW s, NEW x, Writes(g, s, x),
         Holds(x, Variable(g, s))', NEW h \in Homes, NEW n \in NamesOf(h),
         cache' = cache \/ cache' = [cache EXCEPT ![h][n] = s], Layout[h][s] = n,
         UNCHANGED <<status, home, index, result>>,
         held' \in [Threads -> SUBSET (1..Len(heap'))],
         wrote' \in [Tasks -> [Names -> Nat]]
  PROVE  Shapes' /\ SameSlots' /\ Slots'
<1>1. Shapes /\ SameSlots /\ Slots /\ n \in Names
  BY Layouts DEF Resolved
<1>2. s \in Nat /\ g \in VMs /\ s \in DOMAIN globals[g]
  BY <1>1 DEF Writes, Shapes
<1>3. cache' \in [Homes -> [Names -> Nat]] /\ CacheExact'
  BY <1>1, <1>2, CacheOnly DEF Slots, CacheExact
<1>4. /\ globals' \in [VMs -> Seq(Nat)]
      /\ loaded' \in [Tasks -> Seq(BOOLEAN)]
      /\ snapshot' \in [Tasks -> Seq(Nat)]
  BY <1>1, SlotOnly, MarkOnly, SnapshotOnly
<1>5. Shapes'
  BY <1>1, <1>3, <1>4 DEF Shapes, HeapGrows
<1>6. \A v \in VMs : DOMAIN globals'[v] = DOMAIN globals[v] /\ Len(globals'[v]) = Len(globals[v])
  BY <1>1, SlotOnly
<1>7. SameSlots'
  BY <1>1, <1>6, Distinct, MarkOnly, SnapshotOnly DEF SameSlots
<1>8. \A v : HomeOf(v)' = HomeOf(v)
  BY DEF HomeOf
<1>9. SlotsInLayout' /\ IndexExact'
  BY <1>1, <1>6, <1>8 DEF Slots, SlotsInLayout, IndexExact
<1>10. ViewsExact'
  <2> SUFFICES ASSUME NEW v \in VMs, NEW i \in DOMAIN globals[v]
               PROVE  Holds(View(v, i), Variable(v, i))'
    BY <1>6 DEF ViewsExact
  <2>1. Variable(v, i)' = Variable(v, i)
    BY <1>8 DEF Variable
  <2>2. CASE v = g /\ i = s
    BY <1>1, <2>2, ViewsOnly DEF Holds
  <2>3. CASE v # g \/ i # s
    <3>1. View(v, i)' = View(v, i)
      BY <1>1, <2>3, ViewsOnly
    <3>2. Holds(View(v, i), Variable(v, i))
      BY <1>1 DEF Slots, ViewsExact
    <3> QED BY <2>1, <3>1, <3>2 DEF Holds, HeapGrows
  <2> QED BY <2>2, <2>3
<1> QED BY <1>3, <1>5, <1>7, <1>9, <1>10 DEF Slots

\* A loaded slot that holds what the task assigned goes on doing so.
LEMMA WroteKept ==
  ASSUME Resolved, NEW g, NEW s, NEW x, Writes(g, s, x),
         UNCHANGED <<status, home>>, NEW t \in Tasks, NEW n \in Names, wrote[t][n] # Nil,
         wrote'[t][n] = wrote[t][n], g = t => ~loaded[t][s] \/ Layout[home[t]][s] # n
  PROVE  /\ status'[t] = "running"
         /\ \E i \in DOMAIN globals'[t] :
              Layout[home'[t]][i] = n /\ loaded'[t][i] /\ globals'[t][i] = wrote'[t][n]
<1>1. Shapes /\ SameSlots
  BY DEF Resolved
<1>2. status[t] = "running"
  BY DEF Resolved, WroteExact
<1>3. PICK i \in DOMAIN globals[t] :
        Layout[home[t]][i] = n /\ loaded[t][i] /\ globals[t][i] = wrote[t][n]
  BY DEF Resolved, WroteExact
<1>4. t # g \/ i # s
  BY <1>3
<1>5. i \in DOMAIN globals'[t] /\ globals'[t][i] = globals[t][i]
  BY <1>1, <1>4, Distinct, SlotOnly
<1>6. i \in DOMAIN loaded[t]
  BY <1>1 DEF SameSlots
<1>7. loaded'[t][i] = loaded[t][i]
  BY <1>1, <1>4, <1>6, MarkOnly
<1>8. loaded'[t][i]
  BY <1>3, <1>7
<1> QED BY <1>2, <1>3, <1>5, <1>8

SelfCalls == \A h, k : <<h, k>> \in Calls => h = k

\* OP_SET_GLOBAL, and OP_DEFINE_GLOBAL of a name that has a slot.
LEMMA StoreResolved ==
  ASSUME Resolved, SelfCalls, NEW v \in Threads, NEW h \in Homes, NEW n \in NamesOf(h),
         MayRun(v, h), NEW s \in DOMAIN globals[Gvm(v, h)], Layout[h][s] = n,
         Store(v, h, n, s), Keeps(v), cache' = cache \/ cache' = [cache EXCEPT ![h][n] = s]
  PROVE  Resolved'
<1> SUFFICES ASSUME NEW x, x = Len(heap') PROVE Resolved'
  OBVIOUS
<1> DEFINE g == Gvm(v, h)
<1>1. Shapes /\ SameSlots /\ Slots /\ WroteExact /\ n \in Names
  BY Layouts DEF Resolved
<1>2. HomeOf(g) = h /\ g \in VMs /\ (g \in Tasks => v = g)
  <2>1. HomeOf(g) = h
    BY <1>1, ResolvesAtHome DEF SelfCalls
  <2> QED BY <2>1, GvmOwn, Distinct
<1>3. s \in DOMAIN globals[g]
  OBVIOUS
<1>4. Layout[h][s] = n
  OBVIOUS
<1>5. [content |-> 0, var |-> <<h, n>>] \in Object
  BY NamesAreStrings DEF Object
<1>6. HeapGrows /\ x = Len(heap) + 1 /\ heap'[x] = [content |-> 0, var |-> <<h, n>>]
  BY <1>1, <1>5, NewObject DEF Store, NewValue
<1>7. x \in Nat /\ x \in 1..Len(heap')
  BY <1>6 DEF HeapGrows
<1>8. Holds(x, Variable(g, s))'
  <2>1. Variable(g, s)' = <<h, n>>
    BY <1>2, <1>4 DEF Variable, HomeOf, Store, layout
  <2> QED BY <1>6, <1>7, <2>1 DEF Holds
<1>9. /\ UNCHANGED <<status, home, index, result>>
      /\ held' = held \/ held' = [held EXCEPT ![v] = @ \cup {x}]
      /\ wrote' = IF v \in Tasks THEN [wrote EXCEPT ![v][n] = x] ELSE wrote
      /\ access' = None
  BY DEF Store, NewValue, Wrote, Keeps, layout
<1>10. Writes(g, s, x)
  BY <1>2, <1>3, <1>7 DEF Store, Writes
<1> HIDE DEF g
<1>11. held' \in [Threads -> SUBSET (1..Len(heap'))]
  <2>1. held \in [Threads -> SUBSET (1..Len(heap'))]
    BY <1>1, <1>6 DEF Shapes, HeapGrows
  <2>2. CASE held' = held
    BY <2>1, <2>2
  <2>3. CASE held' = [held EXCEPT ![v] = @ \cup {x}]
    BY <1>7, <2>1, <2>3
  <2> QED BY <1>9, <2>2, <2>3
<1>12. wrote' \in [Tasks -> [Names -> Nat]]
  BY <1>1, <1>7, <1>9 DEF Shapes
<1>13. Shapes' /\ SameSlots' /\ Slots'
  BY <1>4, <1>6, <1>8, <1>9, <1>10, <1>11, <1>12, WriteStep
<1>14. WroteExact'
  <2> SUFFICES ASSUME NEW t \in Tasks, NEW m \in Names, wrote'[t][m] # Nil
               PROVE  /\ status'[t] = "running"
                      /\ \E i \in DOMAIN globals'[t] :
                           Layout[home'[t]][i] = m /\ loaded'[t][i] /\ globals'[t][i] = wrote'[t][m]
    BY DEF WroteExact
  <2>1. CASE t = v /\ m = n
    <3>1. g = v /\ v \in Tasks
      BY <2>1 DEF g, Gvm
    <3>2. wrote'[t][m] = x
      BY <1>1, <1>9, <2>1, <3>1 DEF Shapes
    <3>3. s \in DOMAIN globals'[g] /\ globals'[g][s] = x /\ loaded'[g][s]
      BY <1>1, <1>2, <1>3, <1>10, <3>1, SlotOnly, MarkOnly
    <3>4. home'[t] = h
      BY <1>1, <1>2, <1>9, <2>1, <3>1, HomesOK
    <3>5. status'[t] = "running"
      BY <1>9, <2>1 DEF MayRun, Running
    <3> QED BY <1>4, <2>1, <3>1, <3>2, <3>3, <3>4, <3>5
  <2>2. CASE ~(t = v /\ m = n)
    <3>1. wrote'[t][m] = wrote[t][m]
      BY <1>1, <1>9, <2>2 DEF Shapes
    <3>2. g = t => Layout[home[t]][s] # m
      BY <1>1, <1>2, <1>4, <2>2, HomesOK
    <3> QED BY <1>9, <1>10, <3>1, <3>2, WroteKept
  <2> QED BY <2>1, <2>2
<1>15. AccessExact'
  BY <1>9 DEF AccessExact
<1> QED BY <1>13, <1>14, <1>15 DEF Resolved

\* lazyLoadGlobal of slot s puts the object x there.
LEMMA LoadWrites ==
  ASSUME Shapes, SameSlots, ViewsExact, NEW g \in Tasks, NEW s \in DOMAIN globals[g],
         ~loaded[g][s], Load(g, s), UNCHANGED home
  PROVE  HeapGrows /\ \E x : /\ x = globals'[g][s]
                              /\ Writes(g, s, x)
                              /\ Holds(x, Variable(g, s))'
<1> DEFINE o == snapshot[g][s]
           copies == o # Nil /\ ~IsShared(o)
<1> SUFFICES ASSUME NEW x, x = IF copies THEN Len(heap') ELSE o
             PROVE  HeapGrows /\ x = globals'[g][s] /\ Writes(g, s, x) /\ Holds(x, Variable(g, s))'
  OBVIOUS
<1>1. /\ heap' = IF copies THEN Append(heap, heap[o]) ELSE heap
      /\ globals' = [globals EXCEPT ![g][s] = x]
      /\ loaded' = [loaded EXCEPT ![g][s] = TRUE]
      /\ snapshot' = [snapshot EXCEPT ![g][s] = Nil]
  BY DEF Load
<1>2. g \in VMs /\ View(g, s) = o
  BY Distinct DEF View
<1>3. o \in 1..Len(heap) /\ heap[o].var = Variable(g, s)
  BY <1>2 DEF ViewsExact, Holds
<1>4. heap[o] \in Object /\ Len(heap) \in Nat
  BY <1>3 DEF Shapes
<1>5. HeapGrows /\ (copies => Len(heap') = Len(heap) + 1 /\ heap'[Len(heap')] = heap[o])
  BY <1>1, <1>4, NewObject, SameHeap
<1>6. x \in 1..Len(heap') /\ heap'[x].var = Variable(g, s)
  <2>1. CASE copies
    BY <1>3, <1>4, <1>5, <2>1
  <2>2. CASE ~copies
    <3>1. heap' = heap /\ x = o
      BY <1>1, <2>2
    <3> QED BY <1>3, <3>1
  <2> QED BY <2>1, <2>2
<1>7. x \in Nat
  BY <1>4, <1>5, <1>6 DEF HeapGrows
<1>8. Writes(g, s, x)
  BY <1>1, <1>2, <1>7 DEF Writes, MarkLoaded
<1>9. globals'[g][s] = x
  BY <1>8, SlotOnly
<1>10. Variable(g, s)' = Variable(g, s)
  BY DEF Variable, HomeOf
<1> QED BY <1>5, <1>6, <1>8, <1>9, <1>10 DEF Holds

\* A slot that needs no loading yields what it holds.
LEMMA ReadWrites ==
  ASSUME Shapes, SameSlots, ViewsExact, NEW g \in VMs, NEW s \in DOMAIN globals[g],
         ~(g \in Tasks /\ ~loaded[g][s]), UNCHANGED <<heap, globals, loaded, snapshot, home>>
  PROVE  HeapGrows /\ \E x : /\ x = globals'[g][s]
                              /\ Writes(g, s, x)
                              /\ Holds(x, Variable(g, s))'
<1> SUFFICES ASSUME NEW x, x = globals[g][s]
             PROVE  HeapGrows /\ x = globals'[g][s] /\ Writes(g, s, x) /\ Holds(x, Variable(g, s))'
  OBVIOUS
<1>1. HeapGrows
  BY SameHeap
<1>2. View(g, s) = x
  BY DEF View
<1>3. Holds(x, Variable(g, s))
  BY <1>2 DEF ViewsExact
<1>4. Variable(g, s)' = Variable(g, s)
  BY DEF Variable, HomeOf
<1>5. x \in Nat /\ globals' = [globals EXCEPT ![g][s] = x]
  BY DEF Shapes
<1>6. ASSUME g \in Tasks
      PROVE  loaded' = [loaded EXCEPT ![g][s] = TRUE]
  <2>1. loaded \in [Tasks -> Seq(BOOLEAN)] /\ loaded[g][s] = TRUE
    <3>1. s \in DOMAIN loaded[g]
      BY <1>6 DEF SameSlots
    <3>2. loaded[g] \in Seq(BOOLEAN)
      BY <1>6 DEF Shapes
    <3>3. loaded[g][s] \in BOOLEAN
      BY <3>1, <3>2
    <3> QED BY <1>6, <3>3 DEF Shapes
  <2>2. [loaded[g] EXCEPT ![s] = TRUE] = loaded[g]
    BY <1>6, <2>1
  <2> QED BY <1>6, <2>1, <2>2
<1>7. Writes(g, s, x)
  BY <1>5, <1>6 DEF Writes, MarkLoaded
<1> QED BY <1>1, <1>3, <1>4, <1>7 DEF Holds

LEMMA GetResolved ==
  ASSUME Resolved, SelfCalls, NEW v \in Threads, NEW h \in Homes, NEW n \in NamesOf(h),
         Get(v, h, n)
  PROVE  Resolved'
<1> SUFFICES ASSUME NEW s, s = Slot(v, h, n) PROVE Resolved'
  OBVIOUS
<1> DEFINE g == Gvm(v, h)
<1>1. Shapes /\ SameSlots /\ Slots /\ WroteExact /\ n \in Names /\ ViewsExact
  BY Layouts DEF Resolved, Slots
<1>2. HomeOf(g) = h /\ g \in VMs
  <2>1. MayRun(v, h)
    BY DEF Get
  <2> QED BY <1>1, <2>1, ResolvesAtHome, GvmOwn DEF SelfCalls
<1>3. s \in DOMAIN globals[g]
  BY DEF Get, Resolves
<1>4. Layout[h][s] = n
  <2>1. s # 0
    BY <1>1, <1>2, <1>3 DEF Shapes
  <2> QED BY <1>1, <1>2, <2>1, SlotExact DEF Slots
<1>5. /\ UNCHANGED <<status, home, index, result, wrote>>
      /\ cache' = [cache EXCEPT ![h][n] = s]
      /\ held' = [held EXCEPT ![v] = @ \cup ({globals'[g][s]} \ {Nil})]
      /\ access' = [thread |-> v, chunk |-> h, name |-> n, object |-> globals'[g][s]]
      /\ IF g \in Tasks /\ ~loaded[g][s] THEN Load(g, s)
         ELSE UNCHANGED <<heap, globals, loaded, snapshot>>
  BY DEF Get, layout
<1> HIDE DEF g
<1>6. HeapGrows /\ \E x : x = globals'[g][s] /\ Writes(g, s, x) /\ Holds(x, Variable(g, s))'
  <2>1. CASE g \in Tasks /\ ~loaded[g][s]
    BY <1>1, <1>3, <1>5, <2>1, LoadWrites
  <2>2. CASE ~(g \in Tasks /\ ~loaded[g][s])
    BY <1>1, <1>2, <1>3, <1>5, <2>2, ReadWrites
  <2> QED BY <2>1, <2>2
<1>7. PICK x : x = globals'[g][s] /\ Writes(g, s, x) /\ Holds(x, Variable(g, s))'
  BY <1>6
<1>8. Variable(g, s)' = <<h, n>>
  <2>1. HomeOf(g)' = h
    BY <1>2, <1>5 DEF HomeOf
  <2> QED BY <1>4, <2>1 DEF Variable
<1>9. x \in 1..Len(heap') /\ Holds(x, <<h, n>>)'
  BY <1>7, <1>8 DEF Holds
<1>10. held' \in [Threads -> SUBSET (1..Len(heap'))]
  BY <1>1, <1>5, <1>6, <1>7, <1>9 DEF Shapes, HeapGrows
<1>11. wrote' \in [Tasks -> [Names -> Nat]]
  BY <1>1, <1>5 DEF Shapes
<1>12. Shapes' /\ SameSlots' /\ Slots'
  BY <1>4, <1>5, <1>6, <1>7, <1>10, <1>11, WriteStep
<1>13. WroteExact'
  <2>1. CASE g \in Tasks /\ ~loaded[g][s]
    BY <1>5, <1>7, <2>1, WroteKept DEF WroteExact
  <2>2. CASE ~(g \in Tasks /\ ~loaded[g][s])
    <3>1. UNCHANGED <<globals, loaded, status, home, wrote>>
      BY <1>5, <2>2
    <3> QED BY <1>1, <3>1 DEF WroteExact
  <2> QED BY <2>1, <2>2
<1>14. AccessExact'
  <2>1. access'.object = x /\ access'.chunk = h /\ access'.name = n
    BY <1>5, <1>7
  <2> QED BY <1>9, <2>1 DEF AccessExact, Holds
<1> QED BY <1>12, <1>13, <1>14 DEF Resolved

\* The slots of a home's VM are created in the order of its layout; tasks
\* create none.
LEMMA CreateResolved ==
  ASSUME Resolved, LocalNames = {}, NEW v \in Threads, NEW h \in Homes,
         NEW n \in NamesOf(h), Create(v, h, n), UNCHANGED held,
         \/ cache' = cache
         \/ cache' = [cache EXCEPT ![h][n] = Len(globals[Gvm(v, h)]) + 1]
  PROVE  Resolved'
<1> SUFFICES ASSUME NEW k, k = Len(globals[h]) + 1, NEW x, x = Len(heap')
             PROVE  Resolved'
  OBVIOUS
<1> USE Distinct
<1>1. Shapes /\ SameSlots /\ Slots /\ WroteExact
  BY DEF Resolved
<1>0. Gvm(v, h) = h /\ v = Main /\ h \in VMs /\ h \notin Tasks
  <2>1. Gvm(v, h) \notin Tasks
    BY DEF Create, MayCreate
  <2>2. v = Main
    BY <2>1, GvmOwn DEF Threads
  <2> QED BY <2>2 DEF Gvm, Homes, VMs
<1>2. globals[h] \in Seq(Nat) /\ Len(globals[h]) < Len(Layout[h]) /\ n = Layout[h][k]
      /\ k \in 1..Len(Layout[h]) /\ k \in Nat
  <2>1. globals[h] \in Seq(Nat) /\ Layout[h] \in Seq(STRING)
    BY <1>0, <1>1, Layouts DEF Shapes
  <2>2. Len(globals[h]) < Len(Layout[h]) /\ n = Layout[h][k]
    BY <1>0 DEF Create, MayCreate
  <2> QED BY <2>1, <2>2
<1>4. n \in Names /\ n \in STRING
  BY Layouts, NamesAreStrings
<1>5. HeapGrows /\ x = Len(heap) + 1 /\ heap'[x] = [content |-> 0, var |-> <<h, n>>]
  <2>1. [content |-> 0, var |-> <<h, n>>] \in Object
    BY <1>4 DEF Object
  <2> QED BY <1>1, <2>1, NewObject DEF Create, NewValue
<1>6. /\ globals' = [globals EXCEPT ![h] = Append(@, x)]
      /\ index' = [index EXCEPT ![h][n] = k]
      /\ UNCHANGED <<status, home, snapshot, loaded, held, result, wrote>>
      /\ access' = None
      /\ cache' = cache \/ cache' = [cache EXCEPT ![h][n] = k]
  BY <1>0 DEF Create, NewValue, Grown, Wrote
<1>7. x \in Nat /\ x \in 1..Len(heap')
  BY <1>5 DEF HeapGrows
<1>8. /\ globals'[h] = Append(globals[h], x)
      /\ \A w \in VMs : w # h => globals'[w] = globals[w]
      /\ globals' \in [VMs -> Seq(Nat)]
      /\ DOMAIN globals'[h] = 1..k /\ globals'[h][k] = x
      /\ DOMAIN globals[h] = 1..(k - 1)
      /\ \A i \in 1..(k - 1) : globals'[h][i] = globals[h][i]
  <2>1. /\ globals'[h] = Append(globals[h], x)
        /\ \A w \in VMs : w # h => globals'[w] = globals[w]
        /\ globals' \in [VMs -> Seq(Nat)]
    BY <1>0, <1>1, <1>6, <1>7 DEF Shapes
  <2>2. /\ DOMAIN globals'[h] = 1..k /\ globals'[h][k] = x
        /\ DOMAIN globals[h] = 1..(k - 1)
        /\ \A i \in 1..(k - 1) : globals'[h][i] = globals[h][i]
    BY <1>2, <1>7, <2>1
  <2> QED BY <2>1, <2>2
<1>9. index' \in [VMs -> [Names -> Nat]] /\ cache' \in [Homes -> [Names -> Nat]]
  <2>1. index' \in [VMs -> [Names -> Nat]]
    BY <1>1, <1>2, <1>4, <1>6 DEF Shapes
  <2> QED BY <1>1, <1>2, <1>4, <1>6, <2>1, CacheOnly
<1>10. Shapes'
  <2>1. 1..Len(heap) \subseteq 1..Len(heap')
    BY <1>5 DEF HeapGrows
  <2>2. /\ held' \in [Threads -> SUBSET (1..Len(heap'))]
        /\ result' \in [Tasks -> {Nil} \cup (1..Len(heap'))]
    BY <1>1, <1>6, <2>1 DEF Shapes
  <2>3. heap' \in Seq(Object)
    BY <1>5 DEF HeapGrows
  <2> QED BY <1>1, <1>6, <1>8, <1>9, <2>2, <2>3 DEF Shapes
<1>11. \A w : HomeOf(w)' = HomeOf(w)
  BY <1>6 DEF HomeOf
<1>12. HomeOf(h) = h
  BY <1>1, HomesOK DEF Homes
<1>13. SameSlots' /\ WroteExact'
  <2>1. \A t \in Tasks : globals'[t] = globals[t]
    BY <1>0, <1>8
  <2>2. SameSlots'
    BY <1>1, <1>6, <2>1 DEF SameSlots
  <2>3. WroteExact'
    BY <1>1, <1>6, <2>1 DEF WroteExact
  <2> QED BY <2>2, <2>3
<1>14. SlotsInLayout'
  <2>1. Len(globals'[h]) = k
    BY <1>2, <1>8
  <2>2. k <= Len(Layout[h])
    BY <1>2
  <2> QED BY <1>1, <1>8, <1>11, <1>12, <2>1, <2>2 DEF Slots, SlotsInLayout
<1>15. CacheExact'
  <2>1. \A l \in Homes, m \in Names :
          cache'[l][m] = cache[l][m] \/ (l = h /\ m = n /\ cache'[l][m] = k)
    BY <1>1, <1>2, <1>4, <1>6, CacheOnly
  <2> QED BY <1>1, <1>2, <2>1 DEF Slots, CacheExact
<1>16. IndexExact'
  <2> SUFFICES ASSUME NEW u \in VMs, NEW m \in Names, index'[u][m] # 0
               PROVE  index'[u][m] \in DOMAIN globals'[u] /\ Layout[HomeOf(u)'][index'[u][m]] = m
    BY DEF IndexExact
  <2>1. CASE u = h /\ m = n
    <3>1. index'[u][m] = k
      BY <1>1, <1>6, <2>1 DEF Shapes
    <3>2. k \in DOMAIN globals'[h]
      BY <1>2, <1>8
    <3> QED BY <1>2, <1>11, <1>12, <2>1, <3>1, <3>2
  <2>2. CASE ~(u = h /\ m = n)
    <3>1. index'[u][m] = index[u][m]
      BY <1>1, <1>6, <2>2 DEF Shapes
    <3>2. index[u][m] \in DOMAIN globals[u] /\ Layout[HomeOf(u)][index[u][m]] = m
      BY <1>1, <3>1 DEF Slots, IndexExact
    <3>3. index[u][m] \in DOMAIN globals'[u]
      <4>1. CASE u = h
        <5>1. index[u][m] \in 1..(k - 1)
          BY <1>8, <3>2, <4>1
        <5>2. index[u][m] \in 1..k
          BY <1>2, <5>1
        <5> QED BY <1>8, <4>1, <5>2
      <4>2. CASE u # h
        BY <1>8, <3>2, <4>2
      <4> QED BY <4>1, <4>2
    <3> QED BY <1>11, <3>1, <3>2, <3>3
  <2> QED BY <2>1, <2>2
<1>17. ViewsExact'
  <2> SUFFICES ASSUME NEW u \in VMs, NEW i \in DOMAIN globals'[u]
               PROVE  Holds(View(u, i), Variable(u, i))'
    BY DEF ViewsExact
  <2>1. CASE u = h /\ i = k
    <3>1. View(u, i)' = x
      BY <1>0, <1>2, <1>8, <2>1 DEF View
    <3>2. Variable(u, i)' = <<h, n>>
      BY <1>2, <1>11, <1>12, <2>1 DEF Variable
    <3> QED BY <1>5, <1>7, <3>1, <3>2 DEF Holds
  <2>2. CASE ~(u = h /\ i = k)
    <3>1. i \in DOMAIN globals[u] /\ globals'[u][i] = globals[u][i]
      <4>1. CASE u = h
        <5>1. i \in 1..k /\ i # k
          BY <1>8, <2>2, <4>1
        <5>2. i \in 1..(k - 1)
          BY <1>2, <5>1
        <5> QED BY <1>8, <4>1, <5>2
      <4>2. CASE u # h
        BY <1>8, <4>2
      <4> QED BY <4>1, <4>2
    <3>2. View(u, i)' = View(u, i) /\ Variable(u, i)' = Variable(u, i)
      BY <1>6, <1>11, <3>1 DEF View, Variable
    <3>3. Holds(View(u, i), Variable(u, i))
      BY <1>1, <3>1 DEF Slots, ViewsExact
    <3> QED BY <1>5, <3>2, <3>3 DEF Holds, HeapGrows
  <2> QED BY <2>1, <2>2
<1> QED BY <1>6, <1>10, <1>13, <1>14, <1>15, <1>16, <1>17 DEF Resolved, Slots, AccessExact

LEMMA SetResolved ==
  ASSUME Resolved, SelfCalls, LocalNames = {},
         NEW v \in Threads, NEW h \in Homes, NEW n \in NamesOf(h),
         Set(v, h, n) \/ DefineIn(v, h, n)
  PROVE  Resolved'
<1>1. MayRun(v, h) /\ Shapes /\ Slots
  BY DEF Set, DefineIn, Resolved
<1>2. CASE /\ Resolves(v, h, n) /\ Store(v, h, n, Slot(v, h, n)) /\ Keeps(v)
           /\ cache' = [cache EXCEPT ![h][n] = Slot(v, h, n)]
  <2>1. HomeOf(Gvm(v, h)) = h /\ Gvm(v, h) \in VMs
    BY <1>1, ResolvesAtHome, GvmOwn DEF SelfCalls
  <2>2. Slot(v, h, n) \in DOMAIN globals[Gvm(v, h)] /\ Slot(v, h, n) # 0
    BY <1>1, <1>2, <2>1 DEF Resolves, Shapes
  <2>3. Layout[h][Slot(v, h, n)] = n
    BY <1>1, <2>1, <2>2, SlotExact DEF Slots
  <2> QED BY <1>1, <1>2, <2>2, <2>3, StoreResolved
<1>3. CASE /\ Create(v, h, n) /\ UNCHANGED held
           /\ cache' = [cache EXCEPT ![h][n] = Len(globals[Gvm(v, h)]) + 1]
  BY <1>3, CreateResolved
<1> QED BY <1>2, <1>3 DEF Set, DefineIn, Keeps

LEMMA DefineResolved ==
  ASSUME Resolved, SelfCalls, LocalNames = {}, NEW n \in NamesOf(Main), Define(n)
  PROVE  Resolved'
<1>1. Shapes /\ Slots /\ n \in Names /\ Main \in Homes /\ Gvm(Main, Main) = Main
  BY Layouts, Distinct DEF Resolved, Gvm, Homes
<1>2. CASE Create(Main, Main, n) /\ UNCHANGED <<cache, held>>
  BY <1>1, <1>2, CreateResolved, Distinct
<1>3. CASE /\ index[Main][n] \in DOMAIN globals[Main]
           /\ Store(Main, Main, n, index[Main][n]) /\ UNCHANGED <<cache, held>>
  <2>1. index[Main][n] # 0
    BY <1>1, <1>3, Distinct DEF Shapes
  <2>2. Layout[Main][index[Main][n]] = n
    BY <1>1, <2>1, HomesOK, Distinct DEF Slots, IndexExact
  <2>3. MayRun(Main, Main)
    BY DEF Define, MayRun
  <2> QED BY <1>1, <1>3, <2>2, <2>3, StoreResolved, Distinct DEF Keeps
<1> QED BY <1>2, <1>3 DEF Define

\* The argument: none, the object itself, or a copy.
LEMMA ArgumentCopied ==
  ASSUME Shapes, NEW p \in Threads, NEW arg \in held[p] \cup {Nil}, NEW a,
         a = IF arg = Nil THEN Nil ELSE CopyArg(arg),
         heap' = IF a > Len(heap) THEN Append(heap, heap[arg]) ELSE heap
  PROVE  HeapGrows /\ {a} \ {Nil} \subseteq 1..Len(heap')
<1>1. arg # Nil => arg \in 1..Len(heap)
  BY DEF Shapes
<1>2. Len(heap) \in Nat
  BY DEF Shapes
<1>3. CASE a = Len(heap) + 1
  <2>1. arg # Nil
    BY <1>2, <1>3 DEF Nil
  <2>2. heap[arg] \in Object
    BY <1>1, <2>1 DEF Shapes
  <2>3. heap' = Append(heap, heap[arg])
    BY <1>2, <1>3
  <2> QED BY <1>2, <1>3, <2>2, <2>3, NewObject
<1>4. CASE a = Nil \/ a = arg
  <2>1. heap' = heap
    BY <1>1, <1>2, <1>4 DEF Nil
  <2> QED BY <1>1, <1>4, <2>1, SameHeap
<1> QED BY <1>3, <1>4 DEF CopyArg

LEMMA SpawnResolved ==
  ASSUME Resolved, SelfCalls, NEW p \in Threads, NEW t \in Tasks, NEW h \in Homes,
         NEW arg \in held[p] \cup {Nil}, Spawn(p, t, h, arg)
  PROVE  Resolved'
<1> DEFINE g == SnapVm(p, h)
<1> SUFFICES ASSUME NEW a, a = IF arg = Nil THEN Nil ELSE CopyArg(arg) PROVE Resolved'
  OBVIOUS
<1> USE Distinct
<1>1. Shapes /\ SameSlots /\ Slots /\ WroteExact
  BY DEF Resolved
<1>2. g \in VMs /\ HomeOf(g) = h
  <2>1. MayRun(p, h)
    BY DEF Spawn
  <2> QED BY <1>1, <2>1, ResolvesAtHome DEF SelfCalls, SnapVm
<1>3. /\ status[t] = "idle"
      /\ heap' = IF a > Len(heap) THEN Append(heap, heap[arg]) ELSE heap
      /\ held' = [held EXCEPT ![t] = {a} \ {Nil}]
      /\ status' = [status EXCEPT ![t] = "running"]
      /\ home' = [home EXCEPT ![t] = h]
      /\ index' = [index EXCEPT ![t] = index[g]]
      /\ globals' = [globals EXCEPT ![t] = [s \in DOMAIN globals[g] |-> Nil]]
      /\ snapshot' = [snapshot EXCEPT ![t] = SnapshotOf(g)]
      /\ loaded' = [loaded EXCEPT ![t] = [s \in DOMAIN globals[g] |-> FALSE]]
      /\ access' = None
      /\ UNCHANGED <<cache, result, wrote>>
  BY DEF Spawn
<1> HIDE DEF g
<1>4. HeapGrows /\ {a} \ {Nil} \subseteq 1..Len(heap')
  BY <1>1, <1>3, ArgumentCopied
<1>5. \A s \in DOMAIN globals[g] : Holds(View(g, s), Variable(g, s)) /\ View(g, s) \in Nat
  <2>1. \A s \in DOMAIN globals[g] : Holds(View(g, s), Variable(g, s))
    BY <1>1, <1>2 DEF Slots, ViewsExact
  <2> QED BY <2>1 DEF Holds
<1>6. globals[g] \in Seq(Nat)
  BY <1>1, <1>2 DEF Shapes
<1>7. /\ globals'[t] = [s \in DOMAIN globals[g] |-> Nil]
      /\ snapshot'[t] = [s \in DOMAIN globals[g] |-> View(g, s)]
      /\ loaded'[t] = [s \in DOMAIN globals[g] |-> FALSE]
      /\ \A v \in VMs : v # t => globals'[v] = globals[v]
      /\ \A u \in Tasks : u # t => snapshot'[u] = snapshot[u] /\ loaded'[u] = loaded[u]
  BY <1>1, <1>3 DEF Shapes, SnapshotOf
<1>8. globals'[t] \in Seq(Nat) /\ DOMAIN globals'[t] = DOMAIN globals[g]
      /\ Len(globals'[t]) = Len(globals[g])
  BY <1>6, <1>7, SameLength DEF Nil
<1>9. snapshot'[t] \in Seq(Nat) /\ DOMAIN snapshot'[t] = DOMAIN globals[g]
  <2>1. \A s \in DOMAIN globals[g] : snapshot'[t][s] \in Nat
    BY <1>5, <1>7
  <2>2. snapshot'[t] = [s \in DOMAIN globals[g] |-> snapshot'[t][s]]
    BY <1>7
  <2> QED BY <1>6, <2>1, <2>2, SameLength
<1>10. loaded'[t] \in Seq(BOOLEAN) /\ DOMAIN loaded'[t] = DOMAIN globals[g]
  <2>1. \A s \in DOMAIN globals[g] : loaded'[t][s] \in BOOLEAN
    BY <1>7
  <2>2. loaded'[t] = [s \in DOMAIN globals[g] |-> loaded'[t][s]]
    BY <1>7
  <2> QED BY <1>6, <2>1, <2>2, Reshaped
<1>11. Shapes'
  <2>1. /\ globals' \in [VMs -> Seq(Nat)]
        /\ snapshot' \in [Tasks -> Seq(Nat)]
        /\ loaded' \in [Tasks -> Seq(BOOLEAN)]
    BY <1>1, <1>3, <1>8, <1>9, <1>10, <1>7 DEF Shapes
  <2>2. /\ home' \in [Threads -> Homes] /\ home'[Main] = Main
        /\ status' \in [Threads -> {"idle", "running", "done"}]
        /\ index' \in [VMs -> [Names -> Nat]]
    <3>1. home' \in [Threads -> Homes] /\ home'[Main] = Main
      BY <1>1, <1>3 DEF Shapes
    <3>2. status' \in [Threads -> {"idle", "running", "done"}]
      BY <1>1, <1>3 DEF Shapes
    <3>3. index' \in [VMs -> [Names -> Nat]]
      BY <1>1, <1>2, <1>3 DEF Shapes
    <3> QED BY <3>1, <3>2, <3>3
  <2>3. held' \in [Threads -> SUBSET (1..Len(heap'))]
    BY <1>1, <1>3, <1>4 DEF Shapes, HeapGrows
  <2>4. result' \in [Tasks -> {Nil} \cup (1..Len(heap'))]
    <3>1. 1..Len(heap) \subseteq 1..Len(heap')
      BY <1>4 DEF HeapGrows
    <3>2. result' = result /\ result \in [Tasks -> {Nil} \cup (1..Len(heap))]
      BY <1>1, <1>3 DEF Shapes
    <3> QED BY <3>1, <3>2
  <2>5. heap' \in Seq(Object) /\ cache' = cache /\ wrote' = wrote
    BY <1>3, <1>4 DEF HeapGrows
  <2> QED BY <1>1, <2>1, <2>2, <2>3, <2>4, <2>5 DEF Shapes
<1>12. HomeOf(t)' = h /\ \A v : v # t => HomeOf(v)' = HomeOf(v)
  BY <1>1, <1>3 DEF HomeOf, Shapes
<1>13. SameSlots'
  BY <1>1, <1>7, <1>8, <1>9, <1>10 DEF SameSlots
<1>14. SlotsInLayout' /\ CacheExact'
  BY <1>1, <1>2, <1>3, <1>7, <1>8, <1>12 DEF Slots, SlotsInLayout, CacheExact
<1>15. IndexExact'
  <2>1. index'[t] = index[g] /\ \A v \in VMs : v # t => index'[v] = index[v]
    BY <1>1, <1>3 DEF Shapes
  <2> QED BY <1>1, <1>2, <1>7, <1>8, <1>12, <2>1 DEF Slots, IndexExact
<1>16. ViewsExact'
  <2> SUFFICES ASSUME NEW v \in VMs, NEW i \in DOMAIN globals'[v]
               PROVE  Holds(View(v, i), Variable(v, i))'
    BY DEF ViewsExact
  <2>1. CASE v = t
    <3>1. i \in DOMAIN globals[g]
      BY <1>8, <2>1
    <3>2. View(v, i)' = View(g, i)
      <4>1. ~loaded'[t][i] /\ snapshot'[t][i] = View(g, i)
        BY <1>7, <3>1
      <4> QED BY <2>1, <4>1 DEF View
    <3>3. Variable(v, i)' = Variable(g, i)
      BY <1>2, <1>12, <2>1 DEF Variable
    <3>4. Holds(View(g, i), Variable(g, i))
      BY <1>5, <3>1
    <3> QED BY <1>4, <3>2, <3>3, <3>4 DEF Holds, HeapGrows
  <2>2. CASE v # t
    <3>1. i \in DOMAIN globals[v]
      BY <1>7, <2>2
    <3>2. View(v, i)' = View(v, i)
      BY <1>7, <2>2 DEF View
    <3>3. Variable(v, i)' = Variable(v, i)
      BY <1>12, <2>2 DEF Variable
    <3>4. Holds(View(v, i), Variable(v, i))
      BY <1>1, <3>1 DEF Slots, ViewsExact
    <3> QED BY <1>4, <3>2, <3>3, <3>4 DEF Holds, HeapGrows
  <2> QED BY <2>1, <2>2
<1>17. WroteExact'
  <2>0. wrote' = wrote
    BY <1>3
  <2> SUFFICES ASSUME NEW u \in Tasks, NEW n \in Names, wrote[u][n] # Nil
               PROVE  /\ status'[u] = "running"
                      /\ \E i \in DOMAIN globals'[u] :
                           Layout[home'[u]][i] = n /\ loaded'[u][i] /\ globals'[u][i] = wrote[u][n]
    BY <2>0 DEF WroteExact
  <2>1. status[u] = "running"
    BY <1>1 DEF WroteExact
  <2>2. u # t
    BY <1>3, <2>1
  <2>3. status'[u] = status[u] /\ home'[u] = home[u] /\ globals'[u] = globals[u]
        /\ loaded'[u] = loaded[u]
    BY <1>1, <1>3, <1>7, <2>2 DEF Shapes
  <2> QED BY <1>1, <2>1, <2>3 DEF WroteExact
<1> QED BY <1>3, <1>11, <1>13, <1>14, <1>15, <1>16, <1>17 DEF Resolved, Slots, AccessExact

LEMMA FinishResolved ==
  ASSUME Resolved, NEW t \in Tasks, NEW o \in held[t] \cup {Nil}, Finish(t, o)
  PROVE  Resolved'
<1> USE Distinct
<1>1. Shapes /\ SameSlots /\ Slots /\ WroteExact
  BY DEF Resolved
<1>2. /\ result' = [result EXCEPT ![t] = o]
      /\ status' = [status EXCEPT ![t] = "done"]
      /\ held' = [held EXCEPT ![t] = {}]
      /\ globals' = [globals EXCEPT ![t] = <<>>]
      /\ snapshot' = [snapshot EXCEPT ![t] = <<>>]
      /\ loaded' = [loaded EXCEPT ![t] = <<>>]
      /\ index' = [index EXCEPT ![t] = [n \in Names |-> 0]]
      /\ wrote' = [wrote EXCEPT ![t] = [n \in Names |-> Nil]]
      /\ access' = None
      /\ UNCHANGED <<home, cache, heap>>
  BY DEF Finish
<1>3. HeapGrows
  BY <1>1, <1>2, SameHeap
<1>4. /\ globals'[t] = <<>> /\ snapshot'[t] = <<>> /\ loaded'[t] = <<>>
      /\ \A v \in VMs : v # t => globals'[v] = globals[v] /\ index'[v] = index[v]
      /\ \A u \in Tasks : u # t => /\ snapshot'[u] = snapshot[u] /\ loaded'[u] = loaded[u]
                                   /\ wrote'[u] = wrote[u] /\ status'[u] = status[u]
      /\ \A n \in Names : index'[t][n] = 0 /\ wrote'[t][n] = Nil
  BY <1>1, <1>2 DEF Shapes
<1>5. Shapes'
  <2>1. /\ globals' \in [VMs -> Seq(Nat)]
        /\ snapshot' \in [Tasks -> Seq(Nat)]
        /\ loaded' \in [Tasks -> Seq(BOOLEAN)]
    BY <1>1, <1>2, EmptySeq DEF Shapes
  <2>2. /\ status' \in [Threads -> {"idle", "running", "done"}]
        /\ index' \in [VMs -> [Names -> Nat]]
        /\ wrote' \in [Tasks -> [Names -> Nat]]
    BY <1>1, <1>2 DEF Shapes, Nil
  <2>3. /\ held' \in [Threads -> SUBSET (1..Len(heap'))]
        /\ result' \in [Tasks -> {Nil} \cup (1..Len(heap'))]
    <3>1. held[t] \subseteq 1..Len(heap)
      BY <1>1 DEF Shapes
    <3> QED BY <1>1, <1>2, <3>1 DEF Shapes
  <2> QED BY <1>1, <1>2, <2>1, <2>2, <2>3 DEF Shapes
<1>6. \A v : HomeOf(v)' = HomeOf(v)
  BY <1>2 DEF HomeOf
<1>7. SameSlots'
  BY <1>1, <1>4 DEF SameSlots
<1>8. SlotsInLayout'
  <2> SUFFICES ASSUME NEW v \in VMs PROVE Len(globals'[v]) <= Len(Layout[HomeOf(v)])
    BY <1>6 DEF SlotsInLayout
  <2>1. CASE v = t
    <3>1. Layout[HomeOf(v)] \in Seq(STRING)
      BY <1>1, HomesOK, Layouts
    <3> QED BY <1>4, <2>1, <3>1
  <2>2. CASE v # t
    BY <1>1, <1>4, <2>2 DEF Slots, SlotsInLayout
  <2> QED BY <2>1, <2>2
<1>9. CacheExact' /\ IndexExact'
  BY <1>1, <1>2, <1>4, <1>6 DEF Slots, CacheExact, IndexExact
<1>10. ViewsExact'
  <2> SUFFICES ASSUME NEW v \in VMs, NEW i \in DOMAIN globals'[v]
               PROVE  Holds(View(v, i), Variable(v, i))'
    BY DEF ViewsExact
  <2>1. v # t
    BY <1>4
  <2>2. View(v, i)' = View(v, i) /\ i \in DOMAIN globals[v]
    BY <1>4, <2>1 DEF View
  <2>3. Variable(v, i)' = Variable(v, i)
    BY <1>6 DEF Variable
  <2>4. Holds(View(v, i), Variable(v, i))
    BY <1>1, <2>2 DEF Slots, ViewsExact
  <2> QED BY <1>2, <2>2, <2>3, <2>4 DEF Holds
<1>11. WroteExact'
  <2> SUFFICES ASSUME NEW u \in Tasks, NEW n \in Names, wrote'[u][n] # Nil
               PROVE  /\ status'[u] = "running"
                      /\ \E i \in DOMAIN globals'[u] :
                           Layout[home'[u]][i] = n /\ loaded'[u][i] /\ globals'[u][i] = wrote'[u][n]
    BY DEF WroteExact
  <2>1. u # t
    BY <1>4
  <2>2. globals'[u] = globals[u] /\ loaded'[u] = loaded[u] /\ wrote'[u] = wrote[u]
        /\ status'[u] = status[u] /\ home'[u] = home[u]
    BY <1>2, <1>4, <2>1
  <2> QED BY <1>1, <2>2 DEF WroteExact
<1> QED BY <1>2, <1>5, <1>7, <1>8, <1>9, <1>10, <1>11 DEF Resolved, Slots, AccessExact

LEMMA MutateResolved ==
  ASSUME Resolved, NEW v \in Threads, NEW o \in held[v], Mutate(v, o)
  PROVE  Resolved'
<1>1. Shapes /\ o \in 1..Len(heap)
  BY DEF Resolved, Shapes
<1>2. heap[o] \in Object /\ [heap[o] EXCEPT !.content = @ + 1] \in Object
      /\ [heap[o] EXCEPT !.content = @ + 1].var = heap[o].var
  <2>1. heap[o] \in Object
    BY <1>1 DEF Shapes
  <2>2. heap[o].content \in Nat /\ heap[o].content + 1 \in Nat
    BY <2>1 DEF Object
  <2> QED BY <2>1, <2>2 DEF Object
<1>3. heap' = [heap EXCEPT ![o] = [heap[o] EXCEPT !.content = @ + 1]]
  BY DEF Mutate
<1>4. HeapGrows /\ Len(heap') = Len(heap)
  BY <1>1, <1>2, <1>3 DEF Shapes, HeapGrows
<1> QED BY <1>1, <1>4, QuietStep DEF Mutate, layout, Shapes

LEMMA OutOfRangeResolved ==
  ASSUME Resolved, NEW v \in Threads, NEW h \in Homes, NEW n \in NamesOf(h),
         OutOfRange(v, h, n)
  PROVE  Resolved'
<1>1. Shapes /\ heap' = heap /\ held' = held
  BY DEF Resolved, OutOfRange
<1>2. HeapGrows /\ held' \in [Threads -> SUBSET (1..Len(heap'))]
  BY <1>1, SameHeap DEF Shapes
<1> QED BY <1>2, QuietStep DEF OutOfRange, layout

LEMMA AwaitResolved ==
  ASSUME Resolved, NEW v \in Threads, NEW t \in Tasks, Await(v, t)
  PROVE  Resolved'
<1>1. Shapes /\ heap' = heap /\ held' = [held EXCEPT ![v] = @ \cup {result[t]}]
      /\ result[t] # Nil
  BY DEF Resolved, Await
<1>2. HeapGrows /\ held' \in [Threads -> SUBSET (1..Len(heap'))]
  BY <1>1, SameHeap DEF Shapes
<1> QED BY <1>2, QuietStep DEF Await, layout

LEMMA InitResolved == Init => Resolved
<1> SUFFICES ASSUME Init PROVE Resolved
  OBVIOUS
<1> USE Distinct, ProgramAssumption
<1> DEFINE Top == 1 .. GrainTop
<1>0. Top \subseteq DOMAIN GrainNames /\ Top \subseteq Nat /\ GrainTop \in Nat
      /\ GrainTop <= Len(GrainNames)
  OBVIOUS
<1>1. heap \in Seq(Object) /\ Len(heap) = GrainTop
      /\ \A i \in Top : heap[i].var = <<Grain, GrainNames[i]>>
  <2>1. heap = [i \in Top |-> [content |-> 0, var |-> <<Grain, GrainNames[i]>>]]
    BY DEF Init
  <2>2. \A i \in Top : heap[i] \in Object /\ heap[i].var = <<Grain, GrainNames[i]>>
    BY <1>0, <2>1 DEF Object, Homes
  <2> QED BY <1>0, <2>1, <2>2
<1>2. /\ globals[Grain] = [i \in Top |-> i]
      /\ \A v \in VMs \ {Grain} : globals[v] = <<>>
      /\ globals \in [VMs -> Seq(Nat)]
  BY <1>0 DEF Init
<1>3. DOMAIN globals[Grain] = Top /\ Len(globals[Grain]) = GrainTop
  BY <1>0, <1>2
<1>4. /\ \A v \in VMs, n \in Names : index[v][n] # 0 =>
           v = Grain /\ index[v][n] \in Top /\ GrainNames[index[v][n]] = n
      /\ index \in [VMs -> [Names -> Nat]]
  <2>1. \A v \in VMs, n \in Names : index[v][n] =
          IF v = Grain /\ \E i \in Top : GrainNames[i] = n
          THEN CHOOSE i \in Top : GrainNames[i] = n ELSE 0
    BY DEF Init
  <2>2. \A n : (\E i \in Top : GrainNames[i] = n) =>
          /\ (CHOOSE i \in Top : GrainNames[i] = n) \in Top
          /\ GrainNames[CHOOSE i \in Top : GrainNames[i] = n] = n
    OBVIOUS
  <2>3. \A v \in VMs, n \in Names : index[v][n] # 0 =>
          v = Grain /\ index[v][n] \in Top /\ GrainNames[index[v][n]] = n
    <3> SUFFICES ASSUME NEW v \in VMs, NEW n \in Names, index[v][n] # 0
                 PROVE  v = Grain /\ index[v][n] \in Top /\ GrainNames[index[v][n]] = n
      OBVIOUS
    <3>1. v = Grain /\ \E i \in Top : GrainNames[i] = n
      BY <2>1
    <3>2. index[v][n] = CHOOSE i \in Top : GrainNames[i] = n
      BY <2>1, <3>1
    <3> HIDE DEF Top
    <3> QED BY <2>2, <3>1, <3>2
  <2>4. index = [v \in VMs |-> [n \in Names |-> index[v][n]]]
    BY DEF Init
  <2> QED BY <1>0, <2>3, <2>4
<1>5. Shapes
  <2>1. home \in [Threads -> Homes] /\ home[Main] = Main
        /\ status \in [Threads -> {"idle", "running", "done"}]
    BY DEF Init, Homes
  <2>2. /\ snapshot \in [Tasks -> Seq(Nat)]
        /\ loaded \in [Tasks -> Seq(BOOLEAN)]
        /\ cache \in [Homes -> [Names -> Nat]]
        /\ wrote \in [Tasks -> [Names -> Nat]]
        /\ held \in [Threads -> SUBSET (1..Len(heap))]
        /\ result \in [Tasks -> {Nil} \cup (1..Len(heap))]
    BY DEF Init, Nil
  <2> QED BY <1>1, <1>2, <1>4, <2>1, <2>2 DEF Shapes
<1>6. SameSlots
  BY <1>2 DEF Init, SameSlots
<1>7. HomeOf(Grain) = Grain /\ Layout[Grain] = GrainNames
  BY <1>5, HomesOK DEF Layout, Homes
<1>8. SlotsInLayout
  <2> SUFFICES ASSUME NEW v \in VMs PROVE Len(globals[v]) <= Len(Layout[HomeOf(v)])
    BY DEF SlotsInLayout
  <2>1. CASE v = Grain
    BY <1>0, <1>3, <1>7, <2>1
  <2>2. CASE v # Grain
    <3>1. Layout[HomeOf(v)] \in Seq(STRING)
      BY <1>5, HomesOK, Layouts
    <3> QED BY <1>2, <2>2, <3>1
  <2> QED BY <2>1, <2>2
<1>9. CacheExact
  BY DEF Init, CacheExact
<1>10. IndexExact
  BY <1>3, <1>4, <1>7 DEF IndexExact
<1>11. ViewsExact
  <2> SUFFICES ASSUME NEW v \in VMs, NEW i \in DOMAIN globals[v]
               PROVE  Holds(View(v, i), Variable(v, i))
    BY DEF ViewsExact
  <2>1. v = Grain /\ i \in Top
    BY <1>2
  <2>2. View(v, i) = i /\ i \in 1..Len(heap)
    BY <1>1, <1>2, <2>1 DEF View
  <2>3. Variable(v, i) = <<Grain, GrainNames[i]>>
    BY <1>7, <2>1 DEF Variable
  <2> QED BY <1>1, <2>1, <2>2, <2>3 DEF Holds
<1>12. WroteExact /\ AccessExact
  BY DEF Init, WroteExact, AccessExact
<1> QED BY <1>5, <1>6, <1>8, <1>9, <1>10, <1>11, <1>12 DEF Resolved, Slots

LEMMA NextResolved == SelfCalls /\ LocalNames = {} /\ Resolved /\ [Next]_vars => Resolved'
<1> SUFFICES ASSUME SelfCalls, LocalNames = {}, Resolved, [Next]_vars PROVE Resolved'
  OBVIOUS
<1>1. CASE UNCHANGED vars
  BY <1>1 DEF vars, Resolved, Shapes, SameSlots, Slots, SlotsInLayout, CacheExact, IndexExact,
       ViewsExact, WroteExact, AccessExact, Holds, View, Variable, HomeOf
<1>2. CASE \E n \in NamesOf(Main) : Define(n)
  BY <1>2, DefineResolved
<1>3. CASE \E v \in Threads, h \in Homes : \E n \in NamesOf(h) :
             Get(v, h, n) \/ Set(v, h, n) \/ DefineIn(v, h, n) \/ OutOfRange(v, h, n)
  BY <1>3, GetResolved, SetResolved, OutOfRangeResolved
<1>4. CASE \E v \in Threads : \E o \in held[v] : Mutate(v, o)
  BY <1>4, MutateResolved
<1>5. CASE \E v \in Threads, t \in Tasks, h \in Homes : \E a \in held[v] \cup {Nil} :
             Spawn(v, t, h, a)
  BY <1>5, SpawnResolved
<1>6. CASE \E v \in Threads, t \in Tasks : Await(v, t)
  BY <1>6, AwaitResolved
<1>7. CASE \E t \in Tasks : \E o \in held[t] \cup {Nil} : Finish(t, o)
  BY <1>7, FinishResolved
<1> QED BY <1>1, <1>2, <1>3, <1>4, <1>5, <1>6, <1>7 DEF Next

(***************************************************************************)
(* OP_GET_GLOBAL yields the variable its function names, in whichever VM   *)
(* the function runs: script or task, loaded or still in the snapshot,     *)
(* with the slot from the VM's index or from the chunk's cache that all    *)
(* VMs share.  It needs tasks that call only their own module's functions: *)
(* a grain's function called in a script's task resolves in the wrong VM.  *)
(* It needs tasks that create no slot: one that runs a method with a let   *)
(* of a name its VM does not have caches a slot that other VMs use for     *)
(* another variable.  The README gives both behaviours.                    *)
(***************************************************************************)
THEOREM FunctionsReadTheirGlobals ==
  ASSUME SelfCalls, LocalNames = {}
  PROVE  Spec => []ReadsItsVariable
<1>1. Resolved => ReadsItsVariable
  <2> SUFFICES ASSUME Resolved, access # None
               PROVE  /\ access.object # Nil
                      /\ heap[access.object].var = <<access.chunk, access.name>>
    BY DEF ReadsItsVariable
  <2>1. Holds(access.object, <<access.chunk, access.name>>)
    BY DEF Resolved, AccessExact
  <2> QED BY <2>1 DEF Holds, Nil
<1> QED BY <1>1, InitResolved, NextResolved, PTL DEF Spec

(***************************************************************************)
(* What a task assigned to a global (OP_SET_GLOBAL, or OP_DEFINE_GLOBAL    *)
(* in a method) is what it reads from then on: lazyLoadGlobal never brings *)
(* the spawning VM's value back over it.  The layouts list each global     *)
(* once, as ensureGlobalSlot gives it one slot.  Tasks create no slot: the *)
(* slots two tasks create have the same numbers, and the chunks' cache     *)
(* makes one task store a variable in the slot of another one.             *)
(***************************************************************************)
THEOREM AssignmentsStick ==
  ASSUME SelfCalls, LocalNames = {},
         \A h \in Homes : \A i, j \in DOMAIN Layout[h] : Layout[h][i] = Layout[h][j] => i = j
  PROVE  Spec => []ReadYourWrites
<1>1. Resolved => ReadYourWrites
  <2> SUFFICES ASSUME Resolved, NEW t \in Tasks, NEW n \in Names, wrote[t][n] # Nil,
                      index[t][n] # 0
               PROVE  View(t, index[t][n]) = wrote[t][n]
    BY DEF ReadYourWrites
  <2>1. t \in VMs /\ HomeOf(t) = home[t] /\ home[t] \in Homes
    BY Distinct, HomesOK DEF Resolved, Shapes
  <2>2. PICK s \in DOMAIN globals[t] :
          Layout[home[t]][s] = n /\ loaded[t][s] /\ globals[t][s] = wrote[t][n]
    BY DEF Resolved, WroteExact
  <2>3. index[t][n] \in DOMAIN globals[t] /\ Layout[home[t]][index[t][n]] = n
    BY <2>1 DEF Resolved, Slots, IndexExact
  <2>4. DOMAIN globals[t] \subseteq DOMAIN Layout[home[t]]
    <3>1. globals[t] \in Seq(Nat) /\ Layout[home[t]] \in Seq(STRING)
      BY <2>1, Layouts DEF Resolved, Shapes
    <3>2. Len(globals[t]) <= Len(Layout[home[t]])
      BY <2>1 DEF Resolved, Slots, SlotsInLayout
    <3> QED BY <3>1, <3>2
  <2>5. index[t][n] = s
    BY <2>1, <2>2, <2>3, <2>4
  <2> QED BY <2>2, <2>5 DEF View
<1> QED BY <1>1, InitResolved, NextResolved, PTL DEF Spec

-----------------------------------------------------------------------------
(* When tasks are spawned only once the script's and the grain's VM have   *)
(* created all their globals, and create none themselves, the vectors of   *)
(* all VMs of a module have the same length once a task runs, so a slot    *)
(* that one of them has cached is a slot of each.                          *)

AllCreated == \A h \in Homes : Len(globals[h]) = Len(Layout[h])

SameLengths ==
  /\ \A h \in Homes, n \in Names : cache[h][n] <= Len(globals[h])
  /\ \A t \in Tasks : status[t] = "running" =>
       Len(globals[t]) = Len(globals[home[t]]) /\ AllCreated
  /\ ~crashed

LEMMA HomesAreVMs == Homes \subseteq VMs /\ Homes \cap Tasks = {}
  BY ProgramAssumption DEF VMs

\* A slot resolves in a vector as long as the one of the module's own VM.
LEMMA LengthAtHome ==
  ASSUME Shapes, SelfCalls, SameLengths, NEW v \in Threads, NEW h \in Homes, MayRun(v, h)
  PROVE  Len(globals[Gvm(v, h)]) = Len(globals[h]) /\ Len(globals[SnapVm(v, h)]) = Len(globals[h])
<1>1. CASE v = Main
  <2>1. Gvm(v, h) = h /\ SnapVm(v, h) = h
    BY <1>1, Distinct DEF Gvm, SnapVm, Homes
  <2> QED BY <2>1
<1>2. CASE v # Main
  <2>1. v \in Tasks /\ home[v] = h /\ status[v] = "running"
    BY <1>2 DEF Threads, MayRun, Running, SelfCalls
  <2>2. Gvm(v, h) = v /\ (SnapVm(v, h) = v \/ SnapVm(v, h) = h)
    BY <2>1 DEF Gvm, SnapVm
  <2> QED BY <2>1, <2>2 DEF SameLengths
<1> QED BY <1>1, <1>2

LEMMA InitSameLengths == Init => SameLengths
<1> SUFFICES ASSUME Init PROVE SameLengths
  OBVIOUS
<1>1. Resolved
  BY InitResolved
<1>2. \A h \in Homes : Len(globals[h]) \in Nat
  BY <1>1, HomesAreVMs DEF Resolved, Shapes
<1>3. \A h \in Homes, n \in Names : cache[h][n] = 0
  BY DEF Init
<1>4. \A t \in Tasks : status[t] # "running"
  BY Distinct DEF Init
<1>5. ~crashed
  BY DEF Init
<1> QED BY <1>2, <1>3, <1>4, <1>5 DEF SameLengths

\* A slot of the vector that was used is cached, or none; no vector changes
\* length.
LEMMA CacheStep ==
  ASSUME Shapes, SelfCalls, SameLengths, NEW v \in Threads, NEW h \in Homes,
         NEW n \in NamesOf(h), MayRun(v, h), NEW s \in DOMAIN globals[Gvm(v, h)],
         cache' = cache \/ cache' = [cache EXCEPT ![h][n] = s],
         \A w \in VMs : Len(globals'[w]) = Len(globals[w]),
         UNCHANGED <<status, home, crashed>>
  PROVE  SameLengths'
<1>1. Gvm(v, h) \in VMs
  BY GvmOwn
<1>2. s <= Len(globals[h])
  <2>1. globals[Gvm(v, h)] \in Seq(Nat)
    BY <1>1 DEF Shapes
  <2>2. s <= Len(globals[Gvm(v, h)])
    BY <2>1
  <2> QED BY <2>2, LengthAtHome
<1>3. \A k \in Homes, m \in Names : cache'[k][m] <= Len(globals[k])
  <2>1. n \in Names /\ s \in Nat
    BY <1>1, Layouts DEF Shapes
  <2> QED BY <1>2, <2>1, CacheOnly DEF SameLengths
<1>4. \A k \in Homes, m \in Names : cache'[k][m] <= Len(globals'[k])
  BY <1>3, HomesAreVMs
<1>5. /\ \A t \in Tasks : t \in VMs /\ home[t] \in VMs
      /\ \A k \in Homes : k \in VMs
  BY Distinct, HomesAreVMs DEF Shapes
<1>6. ASSUME NEW t \in Tasks, status'[t] = "running"
      PROVE  Len(globals'[t]) = Len(globals'[home'[t]]) /\ AllCreated'
  BY <1>5, <1>6 DEF SameLengths, AllCreated
<1> QED BY <1>4, <1>6 DEF SameLengths

\* Steps that leave the vectors, the caches and the threads' states alone.
LEMMA LengthsKept ==
  ASSUME SameLengths, UNCHANGED <<status, home, globals, cache, crashed>>
  PROVE  SameLengths'
  BY DEF SameLengths, AllCreated

LEMMA GetLengths ==
  ASSUME Resolved, NEW v \in Threads, NEW h \in Homes, NEW n \in NamesOf(h), Get(v, h, n)
  PROVE  \A w \in VMs : Len(globals'[w]) = Len(globals[w])
<1> DEFINE g == Gvm(v, h)
           s == Slot(v, h, n)
<1>1. Shapes /\ SameSlots /\ ViewsExact /\ g \in VMs /\ s \in DOMAIN globals[g]
  BY GvmOwn DEF Resolved, Slots, Get, Resolves
<1>2. UNCHANGED home /\ IF g \in Tasks /\ ~loaded[g][s] THEN Load(g, s)
                        ELSE UNCHANGED <<heap, globals, loaded, snapshot>>
  BY DEF Get, layout
<1> HIDE DEF g, s
<1>3. CASE g \in Tasks /\ ~loaded[g][s]
  <2>1. PICK x : Writes(g, s, x)
    BY <1>1, <1>2, <1>3, LoadWrites
  <2> QED BY <1>1, <2>1, SlotOnly
<1>4. CASE ~(g \in Tasks /\ ~loaded[g][s])
  BY <1>2, <1>4
<1> QED BY <1>3, <1>4

LEMMA StoreLengths ==
  ASSUME Resolved, NEW v \in Threads, NEW h \in Homes, NEW n,
         NEW s \in DOMAIN globals[Gvm(v, h)], Store(v, h, n, s)
  PROVE  \A w \in VMs : Len(globals'[w]) = Len(globals[w])
<1> DEFINE g == Gvm(v, h)
<1>1. Shapes /\ SameSlots /\ g \in VMs /\ s \in DOMAIN globals[g]
  BY GvmOwn DEF Resolved
<1>2. Len(heap') \in Nat
  BY <1>1 DEF Store, NewValue, Shapes
<1>3. globals' = [globals EXCEPT ![g][s] = Len(heap')] /\ MarkLoaded(g, s) /\ snapshot' = snapshot
  BY DEF Store
<1>4. Writes(g, s, Len(heap'))
  BY <1>1, <1>2, <1>3 DEF Writes
<1> QED BY <1>1, <1>4, SlotOnly

\* A slot is created only while no task runs.
LEMMA CreateLengths ==
  ASSUME Shapes, SameLengths, LocalNames = {}, NEW v \in Threads, NEW h \in Homes,
         NEW n \in Names, Create(v, h, n),
         \/ cache' = cache
         \/ cache' = [cache EXCEPT ![h][n] = Len(globals[Gvm(v, h)]) + 1]
  PROVE  SameLengths'
<1> USE HomesAreVMs
<1>1. Gvm(v, h) = h /\ h \in VMs
  <2>1. Gvm(v, h) \notin Tasks
    BY DEF Create, MayCreate
  <2>2. v = Main
    BY <2>1, GvmOwn DEF Threads
  <2> QED BY <2>2 DEF Gvm, Homes
<1>2. globals[h] \in Seq(Nat) /\ Len(globals[h]) < Len(Layout[h])
  BY <1>1 DEF Shapes, Create, MayCreate
<1>3. \A t \in Tasks : status[t] # "running"
  <2>1. Len(globals[h]) \in Nat /\ Len(Layout[h]) \in Nat
    BY <1>2, Layouts
  <2>2. Len(globals[h]) # Len(Layout[h])
    BY <1>2, <2>1
  <2> QED BY <2>2 DEF SameLengths, AllCreated
<1>4. /\ UNCHANGED <<status, home, crashed>>
      /\ globals' = [globals EXCEPT ![h] = Append(@, Len(heap'))]
      /\ cache' = cache \/ cache' = [cache EXCEPT ![h][n] = Len(globals[h]) + 1]
  BY <1>1 DEF Create
<1>5. /\ Len(globals'[h]) = Len(globals[h]) + 1 /\ Len(globals[h]) \in Nat
      /\ \A w \in VMs : w # h => globals'[w] = globals[w]
  BY <1>1, <1>2, <1>4 DEF Shapes
<1>6. \A k \in Homes, m \in Names : cache'[k][m] <= Len(globals'[k])
  <2> SUFFICES ASSUME NEW k \in Homes, NEW m \in Names
               PROVE  cache'[k][m] <= Len(globals'[k])
    OBVIOUS
  <2>1. cache[k][m] \in Nat /\ Len(globals[k]) \in Nat /\ cache[k][m] <= Len(globals[k])
    BY DEF Shapes, SameLengths
  <2>2. cache'[k][m] = cache[k][m] \/ (k = h /\ cache'[k][m] = Len(globals[h]) + 1)
    <3>1. Len(globals[h]) + 1 \in Nat
      BY <1>5
    <3> QED BY <1>4, <3>1, CacheOnly
  <2>3. CASE k = h
    BY <1>5, <2>1, <2>2, <2>3
  <2>4. CASE k # h
    BY <1>5, <2>1, <2>2, <2>4
  <2> QED BY <2>3, <2>4
<1> QED BY <1>3, <1>4, <1>6 DEF SameLengths

LEMMA SetLengths ==
  ASSUME Resolved, SelfCalls, SameLengths, LocalNames = {},
         NEW v \in Threads, NEW h \in Homes, NEW n \in NamesOf(h),
         Set(v, h, n) \/ DefineIn(v, h, n)
  PROVE  SameLengths'
<1>1. MayRun(v, h) /\ Shapes /\ n \in Names
  BY Layouts DEF Set, DefineIn, Resolved
<1>2. CASE /\ Resolves(v, h, n) /\ Store(v, h, n, Slot(v, h, n))
           /\ cache' = [cache EXCEPT ![h][n] = Slot(v, h, n)]
  <2>1. Slot(v, h, n) \in DOMAIN globals[Gvm(v, h)]
    BY <1>2 DEF Resolves
  <2>2. \A w \in VMs : Len(globals'[w]) = Len(globals[w])
    BY <1>2, <2>1, StoreLengths
  <2>3. UNCHANGED <<status, home, crashed>>
    BY <1>2 DEF Store, layout
  <2> QED BY <1>1, <1>2, <2>1, <2>2, <2>3, CacheStep
<1>3. CASE /\ Create(v, h, n)
           /\ cache' = [cache EXCEPT ![h][n] = Len(globals[Gvm(v, h)]) + 1]
  BY <1>1, <1>3, CreateLengths
<1> QED BY <1>2, <1>3 DEF Set, DefineIn

LEMMA DefineLengths ==
  ASSUME Resolved, SelfCalls, SameLengths, LocalNames = {}, NEW n \in NamesOf(Main), Define(n)
  PROVE  SameLengths'
<1>1. Shapes /\ n \in Names /\ Main \in Homes /\ Main \in Threads
      /\ Gvm(Main, Main) = Main /\ MayRun(Main, Main)
  BY Layouts, Distinct DEF Resolved, Gvm, Homes, Define, MayRun
<1>2. CASE Create(Main, Main, n) /\ cache' = cache
  BY <1>1, <1>2, CreateLengths
<1>3. CASE /\ index[Main][n] \in DOMAIN globals[Main]
           /\ Store(Main, Main, n, index[Main][n]) /\ cache' = cache
  <2>1. \A w \in VMs : Len(globals'[w]) = Len(globals[w])
    BY <1>1, <1>3, StoreLengths
  <2>2. UNCHANGED <<status, home, crashed>>
    BY <1>3 DEF Store, layout
  <2> QED BY <1>1, <1>3, <2>1, <2>2, CacheStep
<1> QED BY <1>2, <1>3 DEF Define

LEMMA SpawnLengths ==
  ASSUME Shapes, SelfCalls, SameLengths, ~SpawnEarly, NEW p \in Threads, NEW t \in Tasks,
         NEW h \in Homes, NEW arg, Spawn(p, t, h, arg)
  PROVE  SameLengths'
<1> DEFINE g == SnapVm(p, h)
<1> USE Distinct, HomesAreVMs
<1>1. Len(globals[g]) = Len(globals[h]) /\ g \in VMs
  <2>1. MayRun(p, h)
    BY DEF Spawn
  <2> QED BY <2>1, LengthAtHome DEF SnapVm
<1>2. /\ AllCreated
      /\ status' = [status EXCEPT ![t] = "running"]
      /\ home' = [home EXCEPT ![t] = h]
      /\ globals' = [globals EXCEPT ![t] = [s \in DOMAIN globals[g] |-> Nil]]
      /\ UNCHANGED <<cache, crashed>>
  BY DEF Spawn, AllCreated
<1> HIDE DEF g
<1>3. globals'[t] = [s \in DOMAIN globals[g] |-> Nil]
      /\ \A v \in VMs : v # t => globals'[v] = globals[v]
  BY <1>2 DEF Shapes
<1>4. Len(globals'[t]) = Len(globals[h])
  <2>1. globals[g] \in Seq(Nat)
    BY <1>1 DEF Shapes
  <2> QED BY <1>1, <1>3, <2>1, SameLength DEF Nil
<1>5. /\ home'[t] = h
      /\ \A u \in Tasks : u # t => home'[u] = home[u] /\ status'[u] = status[u]
  BY <1>2 DEF Shapes
<1>6. \A k \in Homes : globals'[k] = globals[k]
  BY <1>3
<1>7. ASSUME NEW u \in Tasks, status'[u] = "running"
      PROVE  Len(globals'[u]) = Len(globals'[home'[u]]) /\ AllCreated'
  <2>1. AllCreated'
    BY <1>2, <1>6 DEF AllCreated
  <2>2. CASE u = t
    BY <1>4, <1>5, <1>6, <2>1, <2>2
  <2>3. CASE u # t
    <3>1. home[u] \in Homes
      BY DEF Shapes
    <3> QED BY <1>3, <1>5, <1>6, <1>7, <2>1, <2>3, <3>1 DEF SameLengths
  <2> QED BY <2>2, <2>3
<1> QED BY <1>2, <1>6, <1>7 DEF SameLengths

LEMMA FinishLengths ==
  ASSUME Shapes, SameLengths, NEW t \in Tasks, NEW o, Finish(t, o)
  PROVE  SameLengths'
<1> USE Distinct, HomesAreVMs
<1>1. /\ status' = [status EXCEPT ![t] = "done"]
      /\ globals' = [globals EXCEPT ![t] = <<>>]
      /\ UNCHANGED <<home, cache, crashed>>
  BY DEF Finish
<1>2. status'[t] = "done" /\ \A u \in Tasks : u # t => status'[u] = status[u]
  BY <1>1 DEF Shapes
<1>3. \A v \in VMs : v # t => globals'[v] = globals[v]
  BY <1>1 DEF Shapes
<1>4. \A k \in Homes : globals'[k] = globals[k]
  BY <1>3
<1>5. ASSUME NEW u \in Tasks, status'[u] = "running"
      PROVE  Len(globals'[u]) = Len(globals'[home'[u]]) /\ AllCreated'
  <2>1. u # t /\ status[u] = "running"
    BY <1>2, <1>5
  <2>2. home[u] \in Homes
    BY DEF Shapes
  <2> QED BY <1>1, <1>3, <1>4, <2>1, <2>2 DEF SameLengths, AllCreated
<1> QED BY <1>1, <1>4, <1>5 DEF SameLengths

LEMMA NoneOutOfRange ==
  ASSUME Resolved, SelfCalls, SameLengths, NEW v \in Threads, NEW h \in Homes,
         NEW n \in NamesOf(h)
  PROVE  ~OutOfRange(v, h, n)
<1> SUFFICES ASSUME OutOfRange(v, h, n) PROVE FALSE
  OBVIOUS
<1>1. MayRun(v, h) /\ Slot(v, h, n) > Len(globals[Gvm(v, h)]) /\ n \in Names
      /\ Gvm(v, h) \in VMs /\ Shapes
  BY GvmOwn, Layouts DEF OutOfRange, Resolved
<1>2. globals[Gvm(v, h)] \in Seq(Nat) /\ Len(globals[Gvm(v, h)]) \in Nat
  BY <1>1 DEF Shapes
<1>3. cache[h][n] <= Len(globals[Gvm(v, h)])
  BY <1>1, LengthAtHome DEF SameLengths
<1>4. index[Gvm(v, h)][n] = 0 \/ index[Gvm(v, h)][n] \in DOMAIN globals[Gvm(v, h)]
  BY <1>1 DEF Resolved, Slots, IndexExact
<1>5. index[Gvm(v, h)][n] <= Len(globals[Gvm(v, h)])
  BY <1>2, <1>4
<1>6. cache[h][n] \in Nat /\ index[Gvm(v, h)][n] \in Nat
  BY <1>1 DEF Shapes
<1> QED BY <1>1, <1>2, <1>3, <1>5, <1>6 DEF Slot

LEMMA NextSameLengths ==
  SelfCalls /\ LocalNames = {} /\ ~SpawnEarly /\ Resolved /\ SameLengths /\ [Next]_vars
    => SameLengths'
<1> SUFFICES ASSUME SelfCalls, LocalNames = {}, ~SpawnEarly, Resolved, SameLengths, [Next]_vars
             PROVE  SameLengths'
  OBVIOUS
<1>0. Shapes
  BY DEF Resolved
<1>1. CASE UNCHANGED vars
  BY <1>1, LengthsKept DEF vars
<1>2. CASE \E n \in NamesOf(Main) : Define(n)
  BY <1>2, DefineLengths
<1>3. ASSUME NEW v \in Threads, NEW h \in Homes, NEW n \in NamesOf(h), Get(v, h, n)
      PROVE  SameLengths'
  BY <1>0, <1>3, GetLengths, CacheStep DEF Get, Resolves, layout
<1>4. ASSUME NEW v \in Threads, NEW h \in Homes, NEW n \in NamesOf(h),
             Set(v, h, n) \/ DefineIn(v, h, n)
      PROVE  SameLengths'
  BY <1>4, SetLengths
<1>5. ASSUME NEW v \in Threads, NEW o, Mutate(v, o)
      PROVE  SameLengths'
  BY <1>5, LengthsKept DEF Mutate, layout
<1>6. ASSUME NEW v \in Threads, NEW t \in Tasks, Await(v, t)
      PROVE  SameLengths'
  BY <1>6, LengthsKept DEF Await, layout
<1>7. CASE \E v \in Threads, t \in Tasks, h \in Homes : \E a \in held[v] \cup {Nil} :
             Spawn(v, t, h, a)
  BY <1>0, <1>7, SpawnLengths
<1>8. CASE \E t \in Tasks : \E o \in held[t] \cup {Nil} : Finish(t, o)
  BY <1>0, <1>8, FinishLengths
<1> QED BY <1>1, <1>2, <1>3, <1>4, <1>5, <1>6, <1>7, <1>8, NoneOutOfRange DEF Next

(***************************************************************************)
(* No VM indexes loadedMask_ or globals outside its vectors (OP_GET_GLOBAL *)
(* and the other opcodes that take a slot from the chunk's cache), if      *)
(* tasks call only functions of their own module, create no slots, and are *)
(* spawned only once the script's and the grain's VM have created all      *)
(* their globals.  The run task_late_global shows that the last condition  *)
(* is needed: a slot that any VM creates while a task runs is cached where *)
(* the others find it.                                                     *)
(***************************************************************************)
THEOREM SlotsInRange ==
  ASSUME SelfCalls, LocalNames = {}, ~SpawnEarly
  PROVE  Spec => []InRange
<1>1. SameLengths => InRange
  BY DEF SameLengths, InRange
<1> QED BY <1>1, InitResolved, NextResolved, InitSameLengths, NextSameLengths, PTL DEF Spec

=============================================================================
