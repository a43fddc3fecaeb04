---------------------------- MODULE GcHeapProofs ----------------------------
(* Proofs about GcHeap: memory safety of counting plus collecting, that a   *)
(* sweep hollows only what nothing outside the garbage can reach, and that  *)
(* a collection leaves nothing of the garbage it found.                     *)
EXTENDS GcHeap, FiniteSetTheorems, TLAPS

USE NodeAssumption, SlotAssumption, ThresholdAssumption

\* The tuned interval stays between its two limits.
LEMMA TunedType ==
  ASSUME NEW t \in ThresholdMin .. ThresholdMax, NEW n \in Nat
  PROVE  Tuned(t, n) \in ThresholdMin .. ThresholdMax
  BY DEF Tuned

\* The slots of a node are node slots, hence no holder's.
LEMMA SlotFacts ==
  /\ \A n : SlotsOf(n) \subseteq NodeSlots
  /\ OwnSlots \subseteq Slots /\ BorrowSlots \subseteq Slots
  /\ NodeSlots \subseteq Slots /\ HolderSlots \subseteq Slots
  /\ RootSlots \subseteq HolderSlots /\ UpvalueSlots \subseteq HolderSlots
  /\ PinSlots \subseteq HolderSlots /\ TaskSlots \subseteq HolderSlots
  /\ HolderSlots \subseteq OwningSlots \ OwnSlots
  /\ OpaqueSlots \subseteq OwningSlots \ OwnSlots
  /\ OwnSlots \subseteq OwningSlots
  BY DEF SlotsOf, NodeSlots, HolderSlots, Slots, OwningSlots

\* Everything counted is finite, so counts are natural numbers.
LEMMA FiniteCounts ==
  /\ \A S : S \subseteq Slots => IsFiniteSet(S) /\ Cardinality(S) \in Nat
  /\ \A S : S \subseteq Tracked => IsFiniteSet(S) /\ Cardinality(S) \in Nat
  <1>1. \A S : S \subseteq Slots => IsFiniteSet(S)
    BY FS_Subset
  <1>2. \A S : S \subseteq Tracked => IsFiniteSet(S)
    BY FS_Subset
  <1> QED BY <1>1, <1>2, FS_CardinalityType

\* use_count() is a natural number, zero exactly when nothing owns the node.
LEMMA UseCountFacts ==
  ASSUME NEW n
  PROVE  /\ UseCount(n) \in Nat
         /\ UseCount(n) = 0 <=> RefsTo(n) = {} /\ n \notin held /\ n \notin toCollect
         /\ n \notin held /\ n \notin toCollect => UseCount(n) = Cardinality(RefsTo(n))
  <1>1. RefsTo(n) \subseteq Slots
    BY DEF RefsTo, OwningSlots
  <1>2. IsFiniteSet(RefsTo(n)) /\ Cardinality(RefsTo(n)) \in Nat
    BY <1>1, FiniteCounts
  <1>3. Cardinality(RefsTo(n)) = 0 <=> RefsTo(n) = {}
    BY <1>2, FS_EmptySet
  <1> QED BY <1>2, <1>3 DEF UseCount

LEMMA InitInv == Init => IInv
  <1> SUFFICES ASSUME Init PROVE IInv
    OBVIOUS
  <1> USE DEF Init
  <1>1. TypeOK
    BY DEF TypeOK, Phases, NodeSlots
  <1>2. NoDangling /\ DeadEmpty /\ CellsOwned /\ SweptUnreachable
    BY SlotFacts DEF NoDangling, DeadEmpty, CellsOwned, SweptUnreachable
  <1>3. PhaseLocals /\ KnownKept /\ CountsCover /\ SkippedDead /\ MarkClosed
    BY DEF PhaseLocals, KnownKept, CountsCover, SkippedDead, MarkClosed
  <1> QED BY <1>1, <1>2, <1>3 DEF IInv

-----------------------------------------------------------------------------
(* Steps of the program, between collections.                              *)

\* What a program holds is alive and was never swept.
LEMMA HolderFacts ==
  ASSUME IInv
  PROVE  /\ \A s \in HolderSlots : ptr[s] \in (alive \cup {Null}) \ doomed
         /\ Accessible \subseteq alive \ doomed
         /\ \A s \in NodeSlots : Owner[s] \in Accessible
                => ptr[s] \in (alive \cup {Null}) \ doomed
         /\ Null \notin doomed
  <1> USE DEF IInv
  <1>1. \A s \in Slots : ptr[s] \in alive \cup {Null}
    BY DEF NoDangling
  <1>2. Null \notin doomed
    BY DEF TypeOK
  <1>3. \A s \in HolderSlots : ptr[s] \notin doomed
    BY SlotFacts DEF SweptUnreachable, EnumSlots, NodeSlots
  <1>4. \A s \in NodeSlots : Owner[s] \notin doomed => ptr[s] \notin doomed
    BY SlotFacts DEF SweptUnreachable
  <1>5. Accessible \subseteq alive \ doomed
    BY <1>1, <1>3, <1>4, SlotFacts DEF Accessible, Pointees, NodeSlots
  <1> QED BY <1>1, <1>2, <1>3, <1>4, <1>5, SlotFacts

\* Outside a collection only the parts of the invariant about the heap matter.
LEMMA RunInv ==
  ASSUME phase' = "run", TypeOK', NoDangling', DeadEmpty', CellsOwned',
         PhaseLocals', SweptUnreachable'
  PROVE  IInv'
  BY DEF IInv, KnownKept, CountsCover, SkippedDead, MarkClosed

\* Any assignment of an unswept value to a program slot.
LEMMA AssignInv ==
  ASSUME IInv,
         NEW s \in Slots \ (UpvalueSlots \cup BorrowSlots),
         NEW v \in (alive \cup {Null}) \ doomed,
         s \in NodeSlots => Owner[s] \in alive,
         Assign(s, v)
  PROVE  IInv'
  <1> USE DEF IInv, Assign, GcUnchanged, NotCollecting, tableVars
  <1>1. TypeOK'
    BY DEF TypeOK
  <1>a. ptr \in [Slots -> Nodes \cup {Null}] /\ ptr' = [ptr EXCEPT ![s] = v]
    BY DEF TypeOK
  <1>2. NoDangling'
    BY <1>a DEF NoDangling
  <1>3. DeadEmpty'
    BY <1>a, SlotFacts DEF DeadEmpty
  <1>4. CellsOwned'
    BY <1>a, SlotFacts DEF CellsOwned
  <1>5. PhaseLocals'
    BY DEF PhaseLocals
  <1>6. SweptUnreachable'
    BY <1>a DEF SweptUnreachable
  <1> QED BY <1>1, <1>2, <1>3, <1>4, <1>5, <1>6, RunInv

\* gcNew.
LEMMA NewInv ==
  ASSUME IInv, NEW n \in Tracked, NEW r \in RootSlots, New(n, r)
  PROVE  IInv'
  <1> USE DEF IInv, New, GcUnchanged, NotCollecting, tableVars
  <1>a. ptr \in [Slots -> Nodes \cup {Null}] /\ ptr' = [ptr EXCEPT ![r] = n]
    BY DEF TypeOK
  <1>1. TypeOK'
    <2>1. ptr' \in [Slots -> Nodes \cup {Null}]
      BY <1>a DEF Nodes
    <2>2. allocs' \in 0 .. MaxAllocs /\ alive' \subseteq Nodes
      BY DEF TypeOK, Nodes
    <2> QED BY <2>1, <2>2 DEF TypeOK
  <1>b. n \notin alive /\ n \notin doomed /\ n \notin Upvalues
    BY DEF PhaseLocals
  <1>2. NoDangling'
    BY <1>a DEF NoDangling
  <1>3. DeadEmpty'
    BY <1>a, SlotFacts DEF DeadEmpty
  <1>4. CellsOwned'
    <2>1. \A k \in UpvalueSlots \cup BorrowSlots : ptr'[k] = ptr[k]
      BY <1>a, SlotFacts DEF NodeSlots
    <2> QED BY <2>1, <1>b DEF CellsOwned
  <1>5. PhaseLocals'
    BY DEF PhaseLocals
  <1>6. SweptUnreachable'
    BY <1>a, <1>b DEF SweptUnreachable
  <1> QED BY <1>1, <1>2, <1>3, <1>4, <1>5, <1>6, RunInv

\* A callable and its captures.
LEMMA NewCallableInv ==
  ASSUME IInv, NEW n \in Untracked, NEW r \in RootSlots, NEW c \in Captures(n),
         NewCallable(n, r, c)
  PROVE  IInv'
  <1> USE DEF IInv, NewCallable, GcUnchanged, NotCollecting, tableVars
  <1>a. /\ ptr \in [Slots -> Nodes \cup {Null}]
        /\ ptr' = [s \in Slots |-> IF s = r THEN n
                                   ELSE IF s \in SlotsOf(n) THEN c[s] ELSE ptr[s]]
    BY DEF TypeOK
  <1>b. n \notin alive /\ n \notin doomed /\ n \notin Upvalues
    BY DEF PhaseLocals
  <1>c. /\ \A s \in SlotsOf(n) : c[s] \in (alive \cup {Null}) \ doomed
        /\ \A s \in SlotsOf(n) \cap BorrowSlots : c[s] \in Upvalues \cup {Null}
    <2>1. Pointees(RootSlots) \subseteq alive \ doomed
      BY HolderFacts, SlotFacts DEF Pointees
    <2>2. \A u \in alive \cap Upvalues : u \notin doomed
      BY HolderFacts, SlotFacts DEF CellsOwned
    <2> QED BY <2>1, <2>2, HolderFacts DEF Captures
  <1>d. r \notin NodeSlots /\ r \in Slots /\ r \notin UpvalueSlots
    BY SlotFacts
  <1>1. TypeOK'
    <2>1. ptr' \in [Slots -> Nodes \cup {Null}]
      BY <1>a, <1>c DEF TypeOK, Nodes
    <2> QED BY <2>1 DEF TypeOK, Nodes
  <1>2. NoDangling'
    BY <1>a, <1>c DEF NoDangling
  <1>3. DeadEmpty'
    BY <1>a, <1>d, SlotFacts DEF DeadEmpty, SlotsOf
  <1>4. CellsOwned'
    <2>1. \A k \in UpvalueSlots : ptr'[k] = ptr[k]
      BY <1>a, <1>d, SlotFacts
    <2>2. \A s \in BorrowSlots : ptr'[s] # Null => ptr'[s] \in Upvalues
      BY <1>a, <1>c, <1>d, SlotFacts DEF CellsOwned, NodeSlots
    <2> QED BY <2>1, <2>2, <1>b DEF CellsOwned
  <1>5. PhaseLocals'
    BY DEF PhaseLocals
  <1>6. SweptUnreachable'
    BY <1>a, <1>b, <1>c DEF SweptUnreachable
  <1> QED BY <1>1, <1>2, <1>3, <1>4, <1>5, <1>6, RunInv

\* An upvalue cell.
LEMMA CaptureInv ==
  ASSUME IInv, NEW u \in Upvalues, NEW a \in UpvalueSlots, NEW r \in RootSlots,
         CaptureUpvalue(u, a, r)
  PROVE  IInv'
  <1> USE DEF IInv, CaptureUpvalue, GcUnchanged, NotCollecting, tableVars
  <1>a. /\ ptr \in [Slots -> Nodes \cup {Null}]
        /\ ptr' = [s \in Slots |-> IF s = a THEN u
                                   ELSE IF s \in SlotsOf(u) THEN ptr[r] ELSE ptr[s]]
    BY DEF TypeOK
  <1>b. u \notin alive /\ u \notin doomed /\ u \in Nodes
    BY DEF PhaseLocals, Nodes
  <1>c. ptr[r] \in (alive \cup {Null}) \ doomed
    BY HolderFacts, SlotFacts
  <1>d. a \notin NodeSlots /\ a \in Slots /\ r \in Slots
    BY SlotFacts
  <1>e. \A s \in SlotsOf(u) : s \notin BorrowSlots
    BY DEF SlotsOf
  <1>1. TypeOK'
    <2>1. ptr' \in [Slots -> Nodes \cup {Null}]
      BY <1>a, <1>b, <1>d DEF TypeOK
    <2> QED BY <2>1, <1>b DEF TypeOK
  <1>2. NoDangling'
    BY <1>a, <1>c DEF NoDangling
  <1>3. DeadEmpty'
    BY <1>a, <1>d, SlotFacts DEF DeadEmpty, SlotsOf
  <1>4. CellsOwned'
    <2>1. \A k \in UpvalueSlots : k # a => ptr'[k] = ptr[k]
      BY <1>a, SlotFacts
    <2>2. ptr'[a] = u /\ ptr[a] = Null
      BY <1>a, <1>d
    <2>3. \A s \in BorrowSlots : ptr'[s] = ptr[s]
      BY <1>a, <1>d, <1>e, SlotFacts DEF NodeSlots
    <2>4. Null \notin alive
      BY DEF TypeOK
    <2>5. \A c \in alive' \cap Upvalues : \E k \in UpvalueSlots : ptr'[k] = c
      <3> SUFFICES ASSUME NEW c \in alive' \cap Upvalues
                   PROVE  \E k \in UpvalueSlots : ptr'[k] = c
        OBVIOUS
      <3>1. CASE c = u
        BY <3>1, <2>2
      <3>2. CASE c \in alive
        <4> PICK k \in UpvalueSlots : ptr[k] = c
          BY <3>2 DEF CellsOwned
        <4> QED BY <3>2, <2>1, <2>2, <2>4
      <3> QED BY <3>1, <3>2
    <2> QED BY <2>3, <2>5 DEF CellsOwned
  <1>5. PhaseLocals'
    BY DEF PhaseLocals
  <1>6. SweptUnreachable'
    BY <1>a, <1>b, <1>c DEF SweptUnreachable
  <1> QED BY <1>1, <1>2, <1>3, <1>4, <1>5, <1>6, RunInv

\* Every step of the program.
LEMMA MutatorInv == IInv /\ Mutator => IInv'
  <1> SUFFICES ASSUME IInv, NEW r \in RootSlots,
                      \/ \E n \in Tracked : New(n, r)
                      \/ \E n \in Untracked : \E c \in Captures(n) : NewCallable(n, r, c)
                      \/ \E u \in Upvalues, a \in UpvalueSlots : CaptureUpvalue(u, a, r)
                      \/ \E s \in NodeSlots : Load(r, s)
                      \/ \E s \in OwnSlots : Store(s, r)
                      \/ Drop(r)
                      \/ \E p \in PinSlots : PinValue(p, r) \/ UnpinValue(p)
                      \/ \E t \in TaskSlots : HandOut(t, r) \/ TakeBack(r, t)
               PROVE  IInv'
    BY DEF Mutator
  <1>h. /\ r \in Slots \ (UpvalueSlots \cup BorrowSlots) /\ r \notin NodeSlots
        /\ ptr[r] \in (alive \cup {Null}) \ doomed
        /\ Null \in (alive \cup {Null}) \ doomed
    BY HolderFacts, SlotFacts DEF NodeSlots
  <1>1. CASE \E n \in Tracked : New(n, r)
    BY <1>1, NewInv
  <1>2. CASE \E n \in Untracked : \E c \in Captures(n) : NewCallable(n, r, c)
    BY <1>2, NewCallableInv
  <1>3. CASE \E u \in Upvalues, a \in UpvalueSlots : CaptureUpvalue(u, a, r)
    BY <1>3, CaptureInv
  <1>4. CASE \E s \in NodeSlots : Load(r, s)
    <2> PICK s \in NodeSlots : Load(r, s)
      BY <1>4
    <2>1. ptr[s] \in (alive \cup {Null}) \ doomed
      BY HolderFacts DEF Load
    <2> QED BY <2>1, <1>h, AssignInv DEF Load
  <1>5. CASE \E s \in OwnSlots : Store(s, r)
    <2> PICK s \in OwnSlots : Store(s, r)
      BY <1>5
    <2>1. /\ s \in Slots \ (UpvalueSlots \cup BorrowSlots)
          /\ Owner[s] \in alive
      BY HolderFacts, SlotFacts DEF Store, NodeSlots
    <2> QED BY <2>1, <1>h, AssignInv DEF Store
  <1>6. CASE Drop(r)
    BY <1>6, <1>h, AssignInv DEF Drop
  <1>7. CASE \E p \in PinSlots : PinValue(p, r) \/ UnpinValue(p)
    <2> PICK p \in PinSlots : PinValue(p, r) \/ UnpinValue(p)
      BY <1>7
    <2>1. p \in Slots \ (UpvalueSlots \cup BorrowSlots) /\ p \notin NodeSlots
      BY SlotFacts DEF NodeSlots
    <2> QED BY <2>1, <1>h, AssignInv DEF PinValue, UnpinValue
  <1>8. CASE \E t \in TaskSlots : HandOut(t, r) \/ TakeBack(r, t)
    <2> PICK t \in TaskSlots : HandOut(t, r) \/ TakeBack(r, t)
      BY <1>8
    <2>1. /\ t \in Slots \ (UpvalueSlots \cup BorrowSlots) /\ t \notin NodeSlots
          /\ ptr[t] \in (alive \cup {Null}) \ doomed
      BY HolderFacts, SlotFacts DEF NodeSlots
    <2> QED BY <2>1, <1>h, AssignInv DEF HandOut, TakeBack
  <1> QED BY <1>1, <1>2, <1>3, <1>4, <1>5, <1>6, <1>7, <1>8

-----------------------------------------------------------------------------
(* Steps of other threads, at any moment of a collection.                  *)

\* A reference copied or dropped by another thread.
LEMMA TaskAssignInv ==
  ASSUME IInv, NEW t \in TaskSlots, NEW v \in Pointees(TaskSlots) \cup {Null},
         TaskAssign(t, v)
  PROVE  IInv'
  <1> USE DEF IInv, TaskAssign, GcUnchanged, tableVars
  <1>a. /\ ptr \in [Slots -> Nodes \cup {Null}] /\ ptr' = [ptr EXCEPT ![t] = v]
        /\ t \in Slots /\ t \in HolderSlots
    BY SlotFacts DEF TypeOK
  <1>b. v \in (alive \cup {Null}) \ doomed
    BY HolderFacts, SlotFacts DEF Pointees
  <1>c. \A s \in Slots : s # t => ptr'[s] = ptr[s]
    BY <1>a
  <1>d. t \notin NodeSlots /\ t \notin OwnSlots /\ t \notin UpvalueSlots
    BY SlotFacts
  <1>e. \A s \in NodeSlots \cup UpvalueSlots : ptr'[s] = ptr[s]
    BY <1>c, <1>d, SlotFacts
  <1>f. \A n \in Nodes : RefsTo(n)' # {} => RefsTo(n) # {}
    BY <1>a, <1>c, SlotFacts DEF RefsTo, Pointees
  <1>g. \A n \in Nodes : Outside(n)' # {} => Outside(n) # {}
    BY <1>a, <1>c, SlotFacts DEF Outside, Pointees
  <1>1. TypeOK'
    <2>1. ptr' \in [Slots -> Nodes \cup {Null}]
      BY <1>a, <1>b DEF TypeOK
    <2> QED BY <2>1 DEF TypeOK
  <1>2. NoDangling'
    BY <1>a, <1>b DEF NoDangling
  <1>3. DeadEmpty'
    BY <1>e DEF DeadEmpty
  <1>4. CellsOwned'
    BY <1>e DEF CellsOwned, NodeSlots
  <1>5. PhaseLocals'
    BY DEF PhaseLocals
  <1>6. KnownKept'
    BY <1>e DEF KnownKept, NodeSlots
  <1>7. CountsCover'
    <2>1. \A n : Pending(n)' = Pending(n)
      BY <1>e DEF Pending, NodeSlots
    <2>2. known \subseteq Nodes
      BY DEF TypeOK
    <2> QED BY <2>1, <2>2, <1>g DEF CountsCover
  <1>8. SkippedDead'
    BY <1>f DEF SkippedDead, Nodes
  <1>9. MarkClosed'
    <2>1. \A m : Children(m)' = Children(m)
      BY <1>e DEF Children, SlotsOf
    <2> QED BY <2>1 DEF MarkClosed, ExternallyHeld
  <1>10. SweptUnreachable'
    BY <1>a, <1>b DEF SweptUnreachable
  <1> QED BY <1>1, <1>2, <1>3, <1>4, <1>5, <1>6, <1>7, <1>8, <1>9, <1>10

LEMMA TasksInv == IInv /\ Tasks => IInv'
  <1> SUFFICES ASSUME IInv, NEW t \in TaskSlots,
                      TaskDrop(t) \/ \E u \in TaskSlots : TaskCopy(t, u)
               PROVE  IInv'
    BY DEF Tasks
  <1>1. CASE TaskDrop(t)
    BY <1>1, TaskAssignInv DEF TaskDrop
  <1>2. CASE \E u \in TaskSlots : TaskCopy(t, u)
    <2> PICK u \in TaskSlots : TaskCopy(t, u)
      BY <1>2
    <2>1. ptr[u] \in Pointees(TaskSlots)
      BY DEF TaskCopy, Pointees
    <2> QED BY <2>1, TaskAssignInv DEF TaskCopy
  <1> QED BY <1>1, <1>2

\* A destructor, on whichever thread dropped the last reference.
LEMMA DestroyInv ==
  ASSUME IInv, NEW d \in Nodes, Destroy(d)
  PROVE  IInv'
  <1> USE DEF IInv, Destroy, GcUnchanged, tableVars
  <1>a. /\ ptr \in [Slots -> Nodes \cup {Null}]
        /\ ptr' = [s \in Slots |-> IF s \in SlotsOf(d) THEN Null ELSE ptr[s]]
    BY DEF TypeOK
  <1>b. RefsTo(d) = {} /\ d \notin held /\ d \notin toCollect /\ d \in alive
    BY UseCountFacts
  <1>c. d \notin Upvalues
    BY <1>b, SlotFacts DEF CellsOwned, RefsTo
  <1>d. \A s \in Slots : ptr[s] # d
    BY <1>b, <1>c, SlotFacts DEF RefsTo, CellsOwned, OwningSlots, TypeOK
  <1>e. phase \in {"hold", "scan", "mark"} => d \notin known
    BY <1>b, <1>c, <1>d, SlotFacts DEF KnownKept
  <1>f. \A s \in NodeSlots : Owner[s] # d => ptr'[s] = ptr[s]
    BY <1>a, SlotFacts DEF SlotsOf
  <1>g. \A s \in HolderSlots : ptr'[s] = ptr[s]
    BY <1>a, SlotFacts
  <1>h. \A s \in Slots : ptr'[s] = Null \/ ptr'[s] = ptr[s]
    BY <1>a
  <1>n. Null \notin Nodes
    OBVIOUS
  <1>1. TypeOK'
    <2>1. ptr' \in [Slots -> Nodes \cup {Null}]
      BY <1>a DEF TypeOK
    <2> QED BY <2>1 DEF TypeOK
  <1>2. NoDangling'
    BY <1>d, <1>h DEF NoDangling
  <1>3. DeadEmpty'
    BY <1>a, <1>f, SlotFacts DEF DeadEmpty, SlotsOf
  <1>4. CellsOwned'
    <2>1. \A c \in BorrowSlots : ptr'[c] # Null => ptr'[c] \in Upvalues
      BY <1>h, SlotFacts DEF CellsOwned
    <2>2. \A k \in UpvalueSlots : ptr'[k] = ptr[k]
      BY <1>g, SlotFacts
    <2> QED BY <2>1, <2>2 DEF CellsOwned
  <1>5. PhaseLocals'
    BY <1>b DEF PhaseLocals
  <1>6. KnownKept'
    BY <1>e, <1>f, <1>c DEF KnownKept, NodeSlots
  <1>7. CountsCover'
    <2> SUFFICES ASSUME phase \in {"hold", "scan", "mark"}, NEW n \in known
                 PROVE  /\ refs[n] >= Cardinality(Pending(n)')
                        /\ Outside(n)' # {} => refs[n] > Cardinality(Pending(n)')
      BY DEF CountsCover
    <2>1. n # Null /\ refs[n] \in Int
      BY <1>n DEF TypeOK
    <2>2. Pending(n)' \subseteq Pending(n) /\ Outside(n)' \subseteq Outside(n)
      BY <2>1, <1>h, SlotFacts DEF Pending, Outside, OwningSlots
    <2>3. IsFiniteSet(Pending(n))
      BY FiniteCounts, SlotFacts DEF Pending
    <2>4. Cardinality(Pending(n)') <= Cardinality(Pending(n))
      BY <2>2, <2>3, FS_Subset
    <2>5. Cardinality(Pending(n)') \in Nat /\ Cardinality(Pending(n)) \in Nat
      BY <2>2, FiniteCounts, SlotFacts DEF Pending
    <2>6. /\ refs[n] >= Cardinality(Pending(n))
          /\ Outside(n) # {} => refs[n] > Cardinality(Pending(n))
      BY DEF CountsCover
    <2> QED BY <2>1, <2>2, <2>4, <2>5, <2>6
  <1>8. SkippedDead'
    <2>1. \A n \in Nodes : RefsTo(n)' \subseteq RefsTo(n)
      BY <1>h, <1>n, SlotFacts DEF RefsTo, OwningSlots
    <2> QED BY <2>1 DEF SkippedDead, Nodes
  <1>9. MarkClosed'
    <2>1. \A m : Children(m)' \subseteq Children(m)
      BY <1>h, SlotFacts DEF Children, SlotsOf
    <2> QED BY <2>1 DEF MarkClosed, ExternallyHeld
  <1>10. SweptUnreachable'
    <2>1. \A s \in Slots : ptr'[s] \in doomed' => s \in EnumSlots /\ Owner[s] \in doomed'
      <3> SUFFICES ASSUME NEW s \in Slots, ptr'[s] \in doomed'
                   PROVE  s \in EnumSlots /\ Owner[s] \in doomed'
        OBVIOUS
      <3>1. ptr'[s] # Null
        BY <1>n DEF TypeOK
      <3>2. s \notin SlotsOf(d) /\ ptr[s] \in doomed
        BY <3>1, <1>a
      <3>3. s \in EnumSlots /\ Owner[s] \in doomed
        BY <3>2 DEF SweptUnreachable
      <3>4. Owner[s] # d
        BY <3>2, <3>3 DEF SlotsOf, EnumSlots, NodeSlots
      <3> QED BY <3>3, <3>4
    <2> QED BY <2>1, <1>b DEF SweptUnreachable
  <1> QED BY <1>1, <1>2, <1>3, <1>4, <1>5, <1>6, <1>7, <1>8, <1>9, <1>10

-----------------------------------------------------------------------------
(* Steps of collect().                                                     *)

\* The size of a difference.
LEMMA CardDiff ==
  ASSUME NEW S, NEW T, IsFiniteSet(S), T \subseteq S
  PROVE  /\ Cardinality(S \ T) = Cardinality(S) - Cardinality(T)
         /\ Cardinality(S) \in Nat /\ Cardinality(T) \in Nat /\ Cardinality(S \ T) \in Nat
  <1>1. IsFiniteSet(T) /\ IsFiniteSet(S \ T)
    BY FS_Subset
  <1>2. Cardinality((S \ T) \cup T)
          = Cardinality(S \ T) + Cardinality(T) - Cardinality((S \ T) \cap T)
    BY <1>1, FS_Union
  <1>3. (S \ T) \cup T = S /\ (S \ T) \cap T = {}
    OBVIOUS
  <1>4. Cardinality({}) = 0
    BY FS_EmptySet
  <1>5. Cardinality(S) \in Nat /\ Cardinality(T) \in Nat /\ Cardinality(S \ T) \in Nat
    BY <1>1, FS_CardinalityType
  <1>6. Cardinality((S \ T) \cup T) = Cardinality(S)
    BY <1>3
  <1>7. Cardinality((S \ T) \cap T) = 0
    BY <1>3, <1>4
  <1> QED BY <1>2, <1>5, <1>6, <1>7

\* The count read for a node covers its pending and outside references.
LEMMA UseCountCovers ==
  ASSUME NEW n, NEW P, P \subseteq RefsTo(n), P \subseteq OwnSlots
  PROVE  /\ Cardinality(P) \in Nat /\ Cardinality(RefsTo(n)) \in Nat
         /\ Cardinality(RefsTo(n)) >= Cardinality(P)
         /\ Outside(n) # {} => Cardinality(RefsTo(n)) > Cardinality(P)
  <1>1. RefsTo(n) \subseteq Slots /\ P \subseteq Slots
    BY SlotFacts DEF RefsTo, OwningSlots
  <1>2. /\ IsFiniteSet(RefsTo(n)) /\ Cardinality(RefsTo(n)) \in Nat
        /\ Cardinality(P) \in Nat
    BY <1>1, FiniteCounts
  <1>3. /\ Cardinality(P) <= Cardinality(RefsTo(n))
        /\ Cardinality(RefsTo(n)) = Cardinality(P) => RefsTo(n) = P
    BY <1>2, FS_Subset
  <1>4. Outside(n) # {} => RefsTo(n) # P
    BY DEF Outside, RefsTo
  <1> QED BY <1>2, <1>3, <1>4

LEMMA CollectIfNeededInv == IInv /\ CollectIfNeeded => IInv'
  <1> SUFFICES ASSUME IInv, CollectIfNeeded PROVE IInv'
    OBVIOUS
  <1> USE DEF IInv, CollectIfNeeded, heapVars, NotCollecting
  <1>1. TypeOK'
    <2>1. Unreachable \subseteq Nodes
      BY DEF Unreachable, UnreachableFrom, TypeOK
    <2>2. refs' \in [Nodes -> Int] /\ 0 \in 0 .. MaxAllocs
      OBVIOUS
    <2>3. markStack' = {}
      BY DEF PhaseLocals
    <2> QED BY <2>1, <2>2, <2>3 DEF TypeOK, Phases
  <1>2. NoDangling' /\ DeadEmpty' /\ CellsOwned' /\ SweptUnreachable'
    BY DEF NoDangling, DeadEmpty, CellsOwned, SweptUnreachable
  <1>3. PhaseLocals' /\ KnownKept' /\ CountsCover' /\ SkippedDead' /\ MarkClosed'
    BY DEF PhaseLocals, KnownKept, CountsCover, SkippedDead, MarkClosed
  <1> QED BY <1>1, <1>2, <1>3

LEMMA HoldEntryInv ==
  ASSUME IInv, NEW n \in Tracked, HoldEntry(n)
  PROVE  IInv'
  <1> USE DEF IInv, HoldEntry, heapVars, historyVars
  <1>a. n \in alive /\ n \notin held /\ toCollect = {} /\ n \in Nodes
    BY DEF Lockable, PhaseLocals, Nodes
  <1>b. UseCount(n) = Cardinality(RefsTo(n)) /\ UseCount(n) \in Nat
    BY <1>a, UseCountFacts
  <1>c. refs \in [Nodes -> Int] /\ refs' = [refs EXCEPT ![n] = UseCount(n)]
    BY DEF TypeOK
  <1>d. known = held /\ work = held /\ known' = work'
    BY DEF PhaseLocals
  <1>1. TypeOK'
    <2>0. UseCount(n) \in Int
      BY <1>b
    <2>1. refs' \in [Nodes -> Int]
      BY <2>0, <1>a, <1>c
    <2>2. known' \subseteq Nodes /\ work' \subseteq known' /\ held' \subseteq Tracked
      BY <1>a, <1>d DEF TypeOK
    <2> QED BY <2>1, <2>2 DEF TypeOK
  <1>2. NoDangling' /\ DeadEmpty' /\ CellsOwned' /\ SweptUnreachable'
    BY DEF NoDangling, DeadEmpty, CellsOwned, SweptUnreachable
  <1>3. PhaseLocals'
    BY <1>a DEF PhaseLocals
  <1>4. KnownKept'
    BY <1>d DEF KnownKept
  <1>5. CountsCover'
    <2> SUFFICES ASSUME NEW m \in known'
                 PROVE  /\ refs'[m] >= Cardinality(Pending(m)')
                        /\ Outside(m)' # {} => refs'[m] > Cardinality(Pending(m)')
      BY DEF CountsCover
    <2>1. Pending(m)' = {s \in OwnSlots : ptr[s] = m} /\ Outside(m)' = Outside(m)
      BY <1>d DEF Pending, Outside
    <2>2. CASE m = n
      <3>1. Pending(m)' \subseteq RefsTo(n) /\ Pending(m)' \subseteq OwnSlots
        BY <2>1, <2>2, SlotFacts DEF RefsTo
      <3>2. refs'[m] = Cardinality(RefsTo(n))
        BY <2>2, <1>a, <1>b, <1>c
      <3> QED BY <2>1, <2>2, <3>1, <3>2, UseCountCovers
    <2>3. CASE m # n
      <3>1. m \in known /\ refs'[m] = refs[m]
        BY <2>3, <1>c DEF TypeOK
      <3>2. Pending(m) = Pending(m)'
        BY <2>1, <1>d DEF Pending
      <3> QED BY <3>1, <3>2, <2>1 DEF CountsCover
    <2> QED BY <2>2, <2>3
  <1>6. SkippedDead' /\ MarkClosed'
    BY DEF SkippedDead, MarkClosed
  <1> QED BY <1>1, <1>2, <1>3, <1>4, <1>5, <1>6

LEMMA HoldDoneInv == IInv /\ HoldDone => IInv'
  <1> SUFFICES ASSUME IInv, HoldDone PROVE IInv'
    OBVIOUS
  <1> USE DEF IInv, HoldDone, heapVars, historyVars, tableVars
  <1>1. TypeOK'
    BY DEF TypeOK, Phases
  <1>2. NoDangling' /\ DeadEmpty' /\ CellsOwned' /\ SweptUnreachable'
    BY DEF NoDangling, DeadEmpty, CellsOwned, SweptUnreachable
  <1>3. PhaseLocals' /\ KnownKept' /\ MarkClosed'
    BY DEF PhaseLocals, KnownKept, MarkClosed
  <1>4. CountsCover'
    BY DEF CountsCover, Pending, Outside
  <1>5. SkippedDead'
    <2> SUFFICES ASSUME NEW n \in Tracked \ held, n \in alive PROVE RefsTo(n) = {}
      BY DEF SkippedDead, RefsTo
    <2>1. UseCount(n) \in Nat /\ ~(UseCount(n) > 0)
      BY UseCountFacts DEF Lockable
    <2>2. UseCount(n) = 0
      BY <2>1
    <2> QED BY <2>2, UseCountFacts
  <1> QED BY <1>1, <1>2, <1>3, <1>4, <1>5

\* Subtracting one node's edges keeps every count above what is pending.
LEMMA ScanNodeInv ==
  ASSUME IInv, NEW m \in Nodes, ScanNode(m)
  PROVE  IInv'
  <1> USE DEF IInv, ScanNode, heapVars, historyVars
  <1>a. /\ m \in work /\ m \in known /\ phase = "scan" /\ phase' = "scan"
        /\ held \subseteq known /\ toCollect = {} /\ refs \in [Nodes -> Int]
    BY DEF TypeOK, PhaseLocals
  <1>b. Children(m) \subseteq Nodes
    BY SlotFacts DEF Children, TypeOK, SlotsOf
  <1>c. \A c : /\ OwningEdges(m, c) \subseteq RefsTo(c)
               /\ OwningEdges(m, c) \subseteq OwnSlots
               /\ Cardinality(OwningEdges(m, c)) \in Nat
    <2>1. \A c : /\ OwningEdges(m, c) \subseteq RefsTo(c)
                 /\ OwningEdges(m, c) \subseteq OwnSlots
      BY SlotFacts DEF OwningEdges, RefsTo
    <2> QED BY <2>1, FiniteCounts, SlotFacts
  <1>d. \A c : UseCount(c) \in Nat
    BY UseCountFacts
  <1>e. known' \ work' = (known \ work) \cup {m}
    BY <1>a DEF TypeOK
  <1>1. TypeOK'
    <2>1. refs' \in [Nodes -> Int]
      BY <1>a, <1>c, <1>d
    <2> QED BY <2>1, <1>b DEF TypeOK
  <1>2. NoDangling' /\ DeadEmpty' /\ CellsOwned' /\ SweptUnreachable'
    BY DEF NoDangling, DeadEmpty, CellsOwned, SweptUnreachable
  <1>3. PhaseLocals'
    BY <1>a DEF PhaseLocals
  <1>4. KnownKept'
    <2> SUFFICES ASSUME NEW n \in known'
                 PROVE  \/ n \in held
                        \/ n \in alive \cap Upvalues
                        \/ \E s \in OwnSlots : Owner[s] \in known' /\ ptr[s] = n
      BY <1>a DEF KnownKept
    <2>1. CASE n \in known
      BY <2>1, <1>a DEF KnownKept
    <2>2. CASE n \in Children(m)
      <3> PICK s \in SlotsOf(m) \cap EnumSlots : ptr[s] = n /\ n # Null
        BY <2>2 DEF Children
      <3>1. CASE s \in OwnSlots
        BY <3>1, <1>a DEF SlotsOf
      <3>2. CASE s \in BorrowSlots
        BY <3>2, SlotFacts DEF CellsOwned, NoDangling
      <3> QED BY <3>1, <3>2 DEF EnumSlots
    <2> QED BY <2>1, <2>2
  <1>5. CountsCover'
    <2> SUFFICES ASSUME NEW n \in known'
                 PROVE  /\ refs'[n] >= Cardinality(Pending(n)')
                        /\ Outside(n)' # {} => refs'[n] > Cardinality(Pending(n)')
      BY DEF CountsCover
    <2>n. n \in Nodes /\ n # Null
      BY <1>b DEF TypeOK
    <2>1. Outside(n)' = Outside(n)
      BY DEF Outside
    <2>2. Pending(n)' = {s \in OwnSlots : ptr[s] = n
                                  /\ Owner[s] \notin (known \ work) \cup {m}}
      BY <1>e DEF Pending
    <2>3. /\ Pending(n)' = Pending(n) \ OwningEdges(m, n)
          /\ OwningEdges(m, n) \subseteq Pending(n)
      BY <2>2, <1>a, SlotFacts DEF Pending, OwningEdges, SlotsOf, NodeSlots
    <2>4. IsFiniteSet(Pending(n))
      BY FiniteCounts, SlotFacts DEF Pending
    <2>5. /\ Cardinality(Pending(n)') = Cardinality(Pending(n)) - Cardinality(OwningEdges(m, n))
          /\ Cardinality(Pending(n)) \in Nat
          /\ Cardinality(OwningEdges(m, n)) \in Nat
      BY <2>3, <2>4, CardDiff
    <2>6. CASE n \notin Children(m)
      <3>1. n \in known /\ refs'[n] = refs[n] /\ refs[n] \in Int
        BY <2>6, <2>n, <1>a
      <3>2. OwningEdges(m, n) = {}
        BY <2>6, <2>n DEF OwningEdges, Children, EnumSlots
      <3>3. Pending(n)' = Pending(n)
        BY <3>2, <2>3
      <3> QED BY <3>1, <3>3, <2>1, <1>a DEF CountsCover
    <2>7. CASE n \in Children(m) /\ n \in known
      <3>1. refs'[n] = refs[n] - Cardinality(OwningEdges(m, n)) /\ refs[n] \in Int
        BY <2>7, <2>n, <1>a
      <3>2. /\ refs[n] >= Cardinality(Pending(n))
            /\ Outside(n) # {} => refs[n] > Cardinality(Pending(n))
        BY <2>7, <1>a DEF CountsCover
      <3> QED BY <3>1, <3>2, <2>1, <2>5
    <2>8. CASE n \in Children(m) /\ n \notin known
      <3>1. refs'[n] = UseCount(n) - Cardinality(OwningEdges(m, n))
        BY <2>8, <2>n, <1>a
      <3>2. n \notin held /\ n \notin toCollect
        BY <2>8, <1>a
      <3>3. UseCount(n) = Cardinality(RefsTo(n))
        BY <3>2, UseCountFacts
      <3>4. Pending(n) \subseteq RefsTo(n) /\ Pending(n) \subseteq OwnSlots
        BY SlotFacts DEF Pending, RefsTo
      <3>5. /\ Cardinality(RefsTo(n)) \in Nat
            /\ Cardinality(RefsTo(n)) >= Cardinality(Pending(n))
            /\ Outside(n) # {} => Cardinality(RefsTo(n)) > Cardinality(Pending(n))
        BY <3>4, UseCountCovers
      <3> QED BY <3>1, <3>3, <3>5, <2>1, <2>5
    <2> QED BY <2>6, <2>7, <2>8
  <1>6. SkippedDead'
    BY <1>a DEF SkippedDead, RefsTo
  <1>7. MarkClosed'
    BY <1>a DEF MarkClosed
  <1> QED BY <1>1, <1>2, <1>3, <1>4, <1>5, <1>6, <1>7

LEMMA MarkRootsInv == IInv /\ MarkRoots => IInv'
  <1> SUFFICES ASSUME IInv, MarkRoots PROVE IInv'
    OBVIOUS
  <1> USE DEF IInv, MarkRoots, heapVars, historyVars
  <1>1. TypeOK'
    <2>1. VmRoots \cup Pointees(PinSlots) \subseteq Nodes
      BY SlotFacts DEF VmRoots, Pointees, TypeOK
    <2>2. ExternallyHeld \subseteq Nodes
      BY DEF ExternallyHeld, TypeOK
    <2> QED BY <2>1, <2>2 DEF TypeOK, Phases
  <1>2. NoDangling' /\ DeadEmpty' /\ CellsOwned' /\ SweptUnreachable'
    BY DEF NoDangling, DeadEmpty, CellsOwned, SweptUnreachable
  <1>3. PhaseLocals' /\ KnownKept'
    BY DEF PhaseLocals, KnownKept
  <1>4. CountsCover'
    BY DEF CountsCover, Pending, Outside
  <1>5. SkippedDead'
    BY DEF SkippedDead, RefsTo
  <1>6. MarkClosed'
    BY DEF MarkClosed, ExternallyHeld
  <1> QED BY <1>1, <1>2, <1>3, <1>4, <1>5, <1>6

LEMMA MarkNodeInv ==
  ASSUME IInv, NEW m \in Nodes, MarkNode(m)
  PROVE  IInv'
  <1> USE DEF IInv, MarkNode, heapVars, historyVars
  <1>1. TypeOK'
    <2>1. Children(m) \subseteq Nodes
      BY SlotFacts DEF Children, TypeOK, SlotsOf
    <2> QED BY <2>1 DEF TypeOK
  <1>2. NoDangling' /\ DeadEmpty' /\ CellsOwned' /\ SweptUnreachable'
    BY DEF NoDangling, DeadEmpty, CellsOwned, SweptUnreachable
  <1>3. PhaseLocals' /\ KnownKept'
    BY DEF PhaseLocals, KnownKept
  <1>4. CountsCover'
    BY DEF CountsCover, Pending, Outside
  <1>5. SkippedDead'
    BY DEF SkippedDead, RefsTo
  <1>6. MarkClosed'
    <2>1. \A n : Children(n)' = Children(n)
      BY DEF Children, SlotsOf
    <2>2. ExternallyHeld' = ExternallyHeld
      BY DEF ExternallyHeld
    <2> QED BY <2>1, <2>2 DEF MarkClosed
  <1> QED BY <1>1, <1>2, <1>3, <1>4, <1>5, <1>6

\* When marking is over, every reference to an unmarked node of the table
\* is an enumerated one of another such node.
LEMMA UnmarkedClosed ==
  ASSUME IInv, phase = "mark", markStack = {},
         NEW s \in Slots, ptr[s] \in known \ marked
  PROVE  s \in EnumSlots /\ Owner[s] \in known \ marked
  <1> USE DEF IInv
  <1> DEFINE n == ptr[s]
  <1>n. n \in Nodes /\ n # Null /\ refs[n] \in Int
    BY DEF TypeOK
  <1>1. refs[n] = 0 /\ work = {}
    BY DEF MarkClosed, ExternallyHeld, PhaseLocals
  <1>2. Cardinality(Pending(n)) \in Nat /\ IsFiniteSet(Pending(n))
    BY FiniteCounts, SlotFacts DEF Pending
  <1>3. Cardinality(Pending(n)) = 0 /\ Outside(n) = {}
    BY <1>1, <1>2 DEF CountsCover
  <1>4. Pending(n) = {}
    BY <1>2, <1>3, FS_EmptySet
  <1>5. s \notin BorrowSlots
    <2> SUFFICES ASSUME s \in BorrowSlots PROVE FALSE
      OBVIOUS
    <2>1. n \in alive \cap Upvalues
      BY <1>n DEF CellsOwned, NoDangling
    <2>2. \E k \in UpvalueSlots : ptr[k] = n
      BY <2>1 DEF CellsOwned
    <2> QED BY <2>2, <1>3, SlotFacts DEF Outside
  <1>6. s \in OwnSlots
    BY <1>3, <1>5 DEF Outside, OwningSlots
  <1>7. Owner[s] \in known
    BY <1>1, <1>4, <1>6 DEF Pending
  <1>8. Owner[s] \notin marked
    <2>1. n \in Children(Owner[s])
      BY <1>6, <1>n DEF Children, SlotsOf, EnumSlots, NodeSlots
    <2> QED BY <2>1 DEF MarkClosed
  <1> QED BY <1>6, <1>7, <1>8 DEF EnumSlots

LEMMA SweepInv == IInv /\ Sweep => IInv'
  <1> SUFFICES ASSUME IInv, Sweep PROVE IInv'
    OBVIOUS
  <1> USE DEF IInv, Sweep
  <1>a. /\ ptr \in [Slots -> Nodes \cup {Null}]
        /\ ptr' = [s \in Slots |-> IF s \in OwnSlots /\ Owner[s] \in Unmarked
                                   THEN Null ELSE ptr[s]]
    BY DEF TypeOK
  <1>b. Unmarked \subseteq known \ marked
    <2> SUFFICES ASSUME NEW n \in Unmarked PROVE n \in known
      BY DEF Unmarked
    <2>1. n \in Tracked /\ n \in alive /\ UseCount(n) > 0
      BY DEF Unmarked, Lockable
    <2>2. n \in held
      <3>1. UseCount(n) # 0 /\ toCollect = {}
        BY <2>1, UseCountFacts DEF PhaseLocals
      <3> QED BY <2>1, <3>1, UseCountFacts DEF SkippedDead
    <2> QED BY <2>2 DEF PhaseLocals
  <1>c. \A s \in Slots : ptr'[s] = Null \/ ptr'[s] = ptr[s]
    BY <1>a
  <1>d. \A s \in HolderSlots \cup BorrowSlots : ptr'[s] = ptr[s]
    BY <1>a, SlotFacts DEF NodeSlots
  <1>e. known \subseteq alive
    <2> SUFFICES ASSUME NEW n \in known PROVE n \in alive
      OBVIOUS
    <2>1. n # Null
      BY DEF TypeOK
    <2> QED BY <2>1, SlotFacts DEF KnownKept, PhaseLocals, NoDangling
  <1>1. TypeOK'
    <2>1. ptr' \in [Slots -> Nodes \cup {Null}]
      BY <1>a DEF TypeOK
    <2>2. Unmarked \subseteq Tracked
      BY DEF Unmarked
    <2>3. Cardinality(Unmarked) \in Nat
      BY <2>2, FiniteCounts
    <2> QED BY <2>1, <2>2, <2>3 DEF TypeOK, Phases
  <1>2. NoDangling'
    BY <1>c DEF NoDangling
  <1>3. DeadEmpty'
    BY <1>c, SlotFacts DEF DeadEmpty
  <1>4. CellsOwned'
    BY <1>d, SlotFacts DEF CellsOwned
  <1>5. PhaseLocals'
    BY <1>b, <1>e DEF PhaseLocals
  <1>6. KnownKept' /\ CountsCover' /\ SkippedDead' /\ MarkClosed'
    BY DEF KnownKept, CountsCover, SkippedDead, MarkClosed
  <1>7. SweptUnreachable'
    <2>1. toCollect' \subseteq doomed'
      BY <1>b
    <2>2. ASSUME NEW s \in Slots, ptr'[s] \in doomed'
          PROVE  s \in EnumSlots /\ Owner[s] \in doomed'
      <3>1. ptr'[s] # Null /\ ptr[s] = ptr'[s]
        BY <2>2, <1>c DEF TypeOK
      <3>2. CASE ptr[s] \in doomed
        BY <3>2 DEF SweptUnreachable
      <3>3. CASE ptr[s] \in known \ marked
        BY <3>3, UnmarkedClosed
      <3> QED BY <2>2, <3>1, <3>2, <3>3
    <2> QED BY <2>1, <2>2 DEF SweptUnreachable
  <1> QED BY <1>1, <1>2, <1>3, <1>4, <1>5, <1>6, <1>7

LEMMA ReleaseInv == IInv /\ Release => IInv'
  <1> SUFFICES ASSUME IInv, Release PROVE IInv'
    OBVIOUS
  <1> USE DEF IInv, Release, heapVars, historyVars
  <1>1. TypeOK'
    BY DEF TypeOK, Phases
  <1>2. NoDangling' /\ DeadEmpty' /\ CellsOwned' /\ SweptUnreachable'
    BY DEF NoDangling, DeadEmpty, CellsOwned, SweptUnreachable
  <1>3. PhaseLocals' /\ KnownKept' /\ CountsCover' /\ SkippedDead' /\ MarkClosed'
    BY DEF PhaseLocals, KnownKept, CountsCover, SkippedDead, MarkClosed
  <1> QED BY <1>1, <1>2, <1>3

LEMMA CollectDoneInv == IInv /\ CollectDone => IInv'
  <1> SUFFICES ASSUME IInv, CollectDone PROVE IInv'
    OBVIOUS
  <1> USE DEF IInv, CollectDone, heapVars
  <1>1. TypeOK'
    <2>1. threshold' \in ThresholdMin .. ThresholdMax
      BY TunedType DEF TypeOK
    <2>2. refs' \in [Nodes -> Int] /\ markStack' = {}
      BY DEF PhaseLocals
    <2> QED BY <2>1, <2>2 DEF TypeOK, Phases
  <1>2. NoDangling' /\ DeadEmpty' /\ CellsOwned' /\ SweptUnreachable'
    BY DEF NoDangling, DeadEmpty, CellsOwned, SweptUnreachable
  <1>3. PhaseLocals'
    BY DEF PhaseLocals
  <1> QED BY <1>1, <1>2, <1>3, RunInv

LEMMA CollectorInv == IInv /\ Collector => IInv'
  BY CollectIfNeededInv, HoldEntryInv, HoldDoneInv, ScanNodeInv, MarkRootsInv,
     MarkNodeInv, SweepInv, ReleaseInv, CollectDoneInv
  DEF Collector

LEMMA StutterInv == IInv /\ UNCHANGED vars => IInv'
  <1> SUFFICES ASSUME IInv, UNCHANGED vars PROVE IInv'
    OBVIOUS
  <1> USE DEF IInv, vars
  <1>1. TypeOK' /\ NoDangling' /\ DeadEmpty' /\ CellsOwned' /\ PhaseLocals'
    BY DEF TypeOK, NoDangling, DeadEmpty, CellsOwned, PhaseLocals
  <1>2. KnownKept' /\ SweptUnreachable'
    BY DEF KnownKept, SweptUnreachable
  <1>3. CountsCover' /\ SkippedDead'
    BY DEF CountsCover, SkippedDead, Pending, Outside, RefsTo
  <1>4. MarkClosed'
    BY DEF MarkClosed, ExternallyHeld, Children, SlotsOf
  <1> QED BY <1>1, <1>2, <1>3, <1>4

-----------------------------------------------------------------------------
\* The invariant holds in every behaviour of the heap: any number of objects,
\* slots and threads, any shape of the object graph.
THEOREM Invariance == Spec => []IInv
  <1>1. IInv /\ [Next]_vars => IInv'
    BY MutatorInv, TasksInv, DestroyInv, CollectorInv, StutterInv DEF Next, DestroyAny
  <1> QED BY InitInv, <1>1, PTL DEF Spec

\* The collector keeps its variables in their types; in particular the
\* collection interval stays between its limits.
THEOREM TypeCorrect == Spec => []TypeOK
  <1>1. IInv => TypeOK
    BY DEF IInv
  <1> QED BY <1>1, Invariance, PTL

\* No shared_ptr and no borrowed upvalue pointer ever dangles.
THEOREM MemorySafe == Spec => []NoDangling
  <1>1. IInv => NoDangling
    BY DEF IInv
  <1> QED BY <1>1, Invariance, PTL

\* sweep() hollows out only objects that nothing outside the garbage refers
\* to, while other threads copy and drop references at any moment.
THEOREM SweepSafe == Spec => []SweptUnreachable
  <1>1. IInv => SweptUnreachable
    BY DEF IInv
  <1> QED BY <1>1, Invariance, PTL

\* The stress-mode assertion never fires: no external count is negative.
THEOREM CountsNeverNegative == Spec => []NoMiscount
  <1>1. IInv => NoMiscount
    <2> SUFFICES ASSUME IInv, phase \in {"scan", "mark"}, NEW n \in known
                 PROVE  refs[n] >= 0
      BY DEF NoMiscount
    <2>1. Cardinality(Pending(n)) \in Nat /\ refs[n] \in Int
      BY FiniteCounts, SlotFacts DEF Pending, IInv, TypeOK
    <2>2. refs[n] >= Cardinality(Pending(n))
      BY DEF IInv, CountsCover
    <2> QED BY <2>1, <2>2
  <1> QED BY <1>1, Invariance, PTL

-----------------------------------------------------------------------------
\* A step that leaves the phase and the node table alone advances nothing.
LEMMA Aside == phase' = phase /\ UNCHANGED tableVars => Advances
  BY DEF Advances

LEMMA MutatorAside == Mutator => phase' = phase /\ UNCHANGED tableVars
  BY DEF Mutator, New, NewCallable, CaptureUpvalue, Load, Store, Drop, PinValue,
         UnpinValue, HandOut, TakeBack, Assign, GcUnchanged

LEMMA OthersAside == Tasks \/ DestroyAny => phase' = phase /\ UNCHANGED tableVars
  BY DEF Tasks, TaskDrop, TaskCopy, TaskAssign, DestroyAny, Destroy, GcUnchanged

\* A step that extends one of the three sets and keeps the others.
LEMMA Grows ==
  ASSUME phase' = phase,
         held \subseteq held',
         known \ work \subseteq known' \ work',
         marked \ markStack \subseteq marked' \ markStack',
         \/ held' # held
         \/ known' \ work' # known \ work
         \/ marked' \ markStack' # marked \ markStack
  PROVE  Advances
  <1>1. \A i \in 1..3 : Progress[i] \subseteq Progress'[i]
    <2> SUFFICES ASSUME NEW i \in 1..3 PROVE Progress[i] \subseteq Progress'[i]
      OBVIOUS
    <2>1. i = 1 \/ i = 2 \/ i = 3
      OBVIOUS
    <2> QED BY <2>1 DEF Progress
  <1>2. Progress' # Progress
    BY DEF Progress
  <1> QED BY <1>1, <1>2 DEF Advances

LEMMA CollectorAdvances == IInv /\ Collector => Advances
  <1> SUFFICES ASSUME IInv, Collector PROVE Advances
    OBVIOUS
  <1>1. CASE CollectIfNeeded
    BY <1>1 DEF CollectIfNeeded, NotCollecting, Advances, Later
  <1>2. CASE HoldDone
    BY <1>2 DEF HoldDone, Advances, Later
  <1>3. CASE MarkRoots
    BY <1>3 DEF MarkRoots, Advances, Later
  <1>4. CASE Sweep
    BY <1>4 DEF Sweep, Advances, Later
  <1>5. CASE Release
    BY <1>5 DEF Release, Advances, Later
  <1>6. CASE CollectDone
    BY <1>6 DEF CollectDone, Advances, Later
  <1>7. ASSUME NEW n \in Tracked, HoldEntry(n) PROVE Advances
    <2>1. known \ work = {}
      BY <1>7 DEF HoldEntry, IInv, PhaseLocals
    <2> QED BY <1>7, <2>1, Grows DEF HoldEntry
  <1>8. ASSUME NEW m \in Nodes, ScanNode(m) PROVE Advances
    <2>1. m \in known /\ m \in work /\ work \subseteq known
      BY <1>8 DEF ScanNode, IInv, TypeOK
    <2>2. m \in known' \ work' /\ m \notin known \ work
      BY <1>8, <2>1 DEF ScanNode
    <2>3. known \ work \subseteq known' \ work'
      BY <1>8, <2>1 DEF ScanNode
    <2> QED BY <1>8, <2>2, <2>3, Grows DEF ScanNode
  <1>9. ASSUME NEW m \in Nodes, MarkNode(m) PROVE Advances
    <2>1. m \in markStack /\ markStack \subseteq marked
      BY <1>9 DEF MarkNode, IInv, TypeOK
    <2>2. m \in marked' \ markStack' /\ m \notin marked \ markStack
      BY <1>9, <2>1 DEF MarkNode
    <2>3. marked \ markStack \subseteq marked' \ markStack'
      BY <1>9, <2>1 DEF MarkNode
    <2> QED BY <1>9, <2>2, <2>3, Grows DEF MarkNode
  <1> QED BY <1>1, <1>2, <1>3, <1>4, <1>5, <1>6, <1>7, <1>8, <1>9 DEF Collector

\* collect() cannot go round in circles, whatever other threads do to the
\* reference counts meanwhile: every step adds to what was held, scanned or
\* traced, and the phases follow each other in one order.
THEOREM Advancing == Spec => CollectionAdvances
  <1>1. IInv /\ [Next]_vars => [Advances]_vars
    BY Aside, MutatorAside, OthersAside, CollectorAdvances DEF Next
  <1> QED BY <1>1, Invariance, PTL DEF Spec, CollectionAdvances

-----------------------------------------------------------------------------
(* Completeness: a collection ends with nothing of the garbage it found at *)
(* its beginning left, but what an upvalue cell keeps.  The references to  *)
(* garbage come from garbage and from the list of all upvalue cells, and   *)
(* no other thread can add one; so the counts of the scan are exact for    *)
(* garbage, and marking reaches of it only what the cells reach.  The      *)
(* sweep empties the containers among the rest, and callables, whose       *)
(* captures are older than they are, cannot keep each other alive.         *)

\* Garbage is referenced by garbage and by the list of upvalue cells.
GarbageApart ==
  /\ phase = "run" => garbage = {}
  /\ \A s \in Slots : ptr[s] \in garbage =>
       s \in UpvalueSlots \/ (s \in NodeSlots /\ Owner[s] \in garbage)

\* Until the sweep none of it dies.
GarbageKept ==
  phase \in {"hold", "scan", "mark"} => \A n \in garbage : n \in alive /\ RefsTo(n) # {}

\* Of any callables, one is captured by none of them.
NoCallableCycle ==
  \A X \in SUBSET (alive \cap (Untracked \ Upvalues)) : X # {} =>
    \E m \in X : \A s \in NodeSlots : Owner[s] \in X => ptr[s] # m

\* What scanned nodes reference has joined the node table.
ScanClosed == phase = "scan" => \A m \in known \ work : Children(m) \subseteq known

\* A count is what is still pending plus what nobody enumerates.
CountsExact ==
  phase \in {"hold", "scan"} => \A n \in known \cap garbage :
    refs[n] = Cardinality(Pending(n)) + Cardinality(Outside(n))

\* S contains what upvalue cells reach.
CellClosed(S) ==
  Pointees(UpvalueSlots) \subseteq S /\ \A m \in S : Pointees(SlotsOf(m)) \subseteq S

\* Marked garbage is reached by upvalue cells.
MarkedFromCells ==
  phase \in {"mark", "release", "prune"} =>
    \A S \in SUBSET alive : CellClosed(S) => marked \cap garbage \subseteq S

\* The cells are roots of the marking.
CellsMarked == phase = "mark" => Pointees(UpvalueSlots) \subseteq marked

\* A swept container holds nothing.
SweptEmpty ==
  phase \in {"release", "prune"} =>
    \A s \in OwnSlots : Owner[s] \in (garbage \cap Tracked) \ marked => ptr[s] = Null

Reclaims == GarbageApart /\ GarbageKept /\ NoCallableCycle /\ ScanClosed /\ CountsExact
              /\ MarkedFromCells /\ CellsMarked /\ SweptEmpty

\* Steps that give no callable a capture keep the captures free of cycles.
LEMMA SameCallables ==
  ASSUME NoCallableCycle, alive' \cap (Untracked \ Upvalues) \subseteq alive,
         \A s \in NodeSlots : Owner[s] \in Untracked \ Upvalues => ptr'[s] \in {ptr[s], Null}
  PROVE  NoCallableCycle'
  <1> SUFFICES ASSUME NEW X \in SUBSET (alive' \cap (Untracked \ Upvalues)), X # {}
               PROVE  \E m \in X : \A s \in NodeSlots : Owner[s] \in X => ptr'[s] # m
    BY DEF NoCallableCycle
  <1>1. X \in SUBSET (alive \cap (Untracked \ Upvalues))
    OBVIOUS
  <1>2. PICK m \in X : \A s \in NodeSlots : Owner[s] \in X => ptr[s] # m
    BY <1>1 DEF NoCallableCycle
  <1>3. m # Null
    BY DEF Nodes
  <1> QED BY <1>2, <1>3

\* Between collections there is nothing else to show.
LEMMA RunReclaims ==
  ASSUME phase' = "run", garbage' = {}, NoCallableCycle'
  PROVE  Reclaims'
  BY DEF Reclaims, GarbageApart, GarbageKept, ScanClosed, CountsExact, MarkedFromCells,
         CellsMarked, SweptEmpty

\* An instruction that writes anything but a callable's captures.
LEMMA AssignReclaims ==
  ASSUME IInv, Reclaims, NEW s \in Slots, NEW v, Assign(s, v),
         s \in NodeSlots => Owner[s] \in Tracked \cup Upvalues
  PROVE  Reclaims'
  <1>1. phase' = "run" /\ garbage' = {} /\ alive' = alive /\ ptr' = [ptr EXCEPT ![s] = v]
    BY DEF Assign, NotCollecting, GcUnchanged, Reclaims, GarbageApart
  <1>2. ptr \in [Slots -> Nodes \cup {Null}]
    BY DEF IInv, TypeOK
  <1>3. \A q \in NodeSlots : Owner[q] \in Untracked \ Upvalues => ptr'[q] = ptr[q]
    BY <1>1, <1>2, SlotFacts
  <1>4. NoCallableCycle'
    BY <1>1, <1>3, SameCallables DEF Reclaims
  <1> QED BY <1>1, <1>4, RunReclaims

\* A callable is captured by none that is older.
LEMMA NewCallableReclaims ==
  ASSUME IInv, Reclaims, NEW n \in Untracked, NEW r \in RootSlots, NEW c \in Captures(n),
         NewCallable(n, r, c)
  PROVE  Reclaims'
  <1>1. /\ phase' = "run" /\ garbage' = {} /\ alive' = alive \cup {n} /\ n \notin alive
        /\ ptr' = [s \in Slots |-> IF s = r THEN n
                                   ELSE IF s \in SlotsOf(n) THEN c[s] ELSE ptr[s]]
    BY DEF NewCallable, NotCollecting, GcUnchanged, Reclaims, GarbageApart
  <1>2. \A s \in NodeSlots : s # r /\ s \in Slots
    BY SlotFacts
  <1>3. \A s \in NodeSlots : Owner[s] # n => ptr'[s] = ptr[s]
    BY <1>1, <1>2 DEF SlotsOf
  <1>4. \A s \in NodeSlots : Owner[s] = n => ptr'[s] \in alive \cup {Null}
    <2>1. Pointees(RootSlots) \subseteq alive
      BY SlotFacts DEF IInv, NoDangling, Pointees
    <2>2. \A s \in SlotsOf(n) : c[s] \in alive \cup {Null}
      BY <2>1 DEF Captures
    <2> QED BY <1>1, <1>2, <2>2 DEF SlotsOf
  <1>5. \A s \in NodeSlots : ptr'[s] # n
    <2>1. \A s \in NodeSlots : ptr[s] # n
      BY <1>1, <1>2 DEF IInv, NoDangling, Nodes
    <2>2. n # Null
      BY DEF Nodes
    <2> QED BY <1>1, <1>3, <1>4, <2>1, <2>2
  <1>6. NoCallableCycle'
    <2> SUFFICES ASSUME NEW X \in SUBSET (alive' \cap (Untracked \ Upvalues)), X # {}
                 PROVE  \E m \in X : \A s \in NodeSlots : Owner[s] \in X => ptr'[s] # m
      BY DEF NoCallableCycle
    <2>1. CASE n \in X
      BY <1>5, <2>1
    <2>2. CASE n \notin X
      <3>1. X \in SUBSET (alive \cap (Untracked \ Upvalues))
        BY <1>1, <2>2
      <3>2. PICK m \in X : \A s \in NodeSlots : Owner[s] \in X => ptr[s] # m
        BY <3>1 DEF Reclaims, NoCallableCycle
      <3> QED BY <1>3, <2>2, <3>2
    <2> QED BY <2>1, <2>2
  <1> QED BY <1>1, <1>6, RunReclaims

LEMMA NewReclaims ==
  ASSUME IInv, Reclaims, NEW n \in Tracked, NEW r \in RootSlots, New(n, r)
  PROVE  Reclaims'
  <1>1. /\ phase' = "run" /\ garbage' = {} /\ alive' = alive \cup {n}
        /\ ptr' = [ptr EXCEPT ![r] = n] /\ r \notin NodeSlots
    BY SlotFacts DEF New, NotCollecting, GcUnchanged, Reclaims, GarbageApart
  <1>2. ptr \in [Slots -> Nodes \cup {Null}]
    BY DEF IInv, TypeOK
  <1>3. \A q \in NodeSlots : ptr'[q] = ptr[q]
    BY <1>1, <1>2, SlotFacts
  <1>4. alive' \cap (Untracked \ Upvalues) \subseteq alive
    BY <1>1
  <1>5. NoCallableCycle'
    BY <1>3, <1>4, SameCallables DEF Reclaims
  <1> QED BY <1>1, <1>5, RunReclaims

LEMMA CaptureReclaims ==
  ASSUME IInv, Reclaims, NEW u \in Upvalues, NEW a \in UpvalueSlots, NEW r \in RootSlots,
         CaptureUpvalue(u, a, r)
  PROVE  Reclaims'
  <1>1. /\ phase' = "run" /\ garbage' = {} /\ alive' = alive \cup {u}
        /\ ptr' = [s \in Slots |-> IF s = a THEN u
                                   ELSE IF s \in SlotsOf(u) THEN ptr[r] ELSE ptr[s]]
        /\ a \notin NodeSlots
    BY SlotFacts DEF CaptureUpvalue, NotCollecting, GcUnchanged, Reclaims, GarbageApart
  <1>2. \A q \in NodeSlots : Owner[q] \in Untracked \ Upvalues => ptr'[q] = ptr[q]
    BY <1>1, SlotFacts DEF SlotsOf
  <1>3. alive' \cap (Untracked \ Upvalues) \subseteq alive
    BY <1>1
  <1>4. NoCallableCycle'
    BY <1>2, <1>3, SameCallables DEF Reclaims
  <1> QED BY <1>1, <1>4, RunReclaims

LEMMA MutatorReclaims == IInv /\ Reclaims /\ Mutator => Reclaims'
  <1> SUFFICES ASSUME IInv, Reclaims, NEW r \in RootSlots,
                      \/ \E n \in Tracked : New(n, r)
                      \/ \E n \in Untracked : \E c \in Captures(n) : NewCallable(n, r, c)
                      \/ \E u \in Upvalues, a \in UpvalueSlots : CaptureUpvalue(u, a, r)
                      \/ \E s \in NodeSlots : Load(r, s)
                      \/ \E s \in OwnSlots : Store(s, r)
                      \/ Drop(r)
                      \/ \E p \in PinSlots : PinValue(p, r) \/ UnpinValue(p)
                      \/ \E t \in TaskSlots : HandOut(t, r) \/ TakeBack(r, t)
               PROVE  Reclaims'
    BY DEF Mutator
  <1>h. r \in Slots /\ r \notin NodeSlots
    BY SlotFacts
  <1>1. CASE \E n \in Tracked : New(n, r)
    BY <1>1, NewReclaims
  <1>2. CASE \E n \in Untracked : \E c \in Captures(n) : NewCallable(n, r, c)
    BY <1>2, NewCallableReclaims
  <1>3. CASE \E u \in Upvalues, a \in UpvalueSlots : CaptureUpvalue(u, a, r)
    BY <1>3, CaptureReclaims
  <1>4. CASE \E s \in NodeSlots : Load(r, s)
    BY <1>4, <1>h, AssignReclaims DEF Load
  <1>5. CASE \E s \in OwnSlots : Store(s, r)
    <2> PICK s \in OwnSlots : Store(s, r)
      BY <1>5
    <2>1. s \in Slots /\ Owner[s] \in Tracked \cup Upvalues /\ Assign(s, ptr[r])
      BY SlotFacts DEF Store
    <2> QED BY <2>1, AssignReclaims
  <1>6. CASE Drop(r)
    BY <1>6, <1>h, AssignReclaims DEF Drop
  <1>7. CASE \E p \in PinSlots : PinValue(p, r) \/ UnpinValue(p)
    <2> PICK p \in PinSlots : PinValue(p, r) \/ UnpinValue(p)
      BY <1>7
    <2>1. p \in Slots /\ p \notin NodeSlots
      BY SlotFacts
    <2> QED BY <2>1, AssignReclaims DEF PinValue, UnpinValue
  <1>8. CASE \E t \in TaskSlots : HandOut(t, r) \/ TakeBack(r, t)
    <2> PICK t \in TaskSlots : HandOut(t, r) \/ TakeBack(r, t)
      BY <1>8
    <2>1. t \in Slots /\ t \notin NodeSlots
      BY SlotFacts
    <2> QED BY <2>1, <1>h, AssignReclaims DEF HandOut, TakeBack
  <1> QED BY <1>1, <1>2, <1>3, <1>4, <1>5, <1>6, <1>7, <1>8

\* Another thread has no reference to garbage, hence none to copy or drop.
LEMMA TaskReclaims ==
  ASSUME IInv, Reclaims, NEW t \in TaskSlots, NEW v \in Pointees(TaskSlots) \cup {Null},
         TaskAssign(t, v)
  PROVE  Reclaims'
  <1>1. /\ ptr \in [Slots -> Nodes \cup {Null}] /\ ptr' = [ptr EXCEPT ![t] = v]
        /\ t \in Slots /\ t \notin NodeSlots \cup UpvalueSlots
        /\ alive' = alive /\ phase' = phase /\ UNCHANGED tableVars /\ garbage' = garbage
    BY SlotFacts DEF IInv, TypeOK, TaskAssign, GcUnchanged
  <1>2. \A s \in Slots : s # t => ptr'[s] = ptr[s]
    BY <1>1
  <1>3. \A s \in NodeSlots \cup UpvalueSlots : ptr'[s] = ptr[s]
    BY <1>1, <1>2, SlotFacts
  <1>4. ptr[t] \notin garbage
    BY <1>1 DEF Reclaims, GarbageApart
  <1>5. v \notin garbage
    <2>1. v = Null \/ \E u \in TaskSlots : v = ptr[u]
      BY DEF Pointees
    <2>2. \A u \in TaskSlots : ptr[u] \notin garbage
      BY SlotFacts DEF Reclaims, GarbageApart
    <2>3. Null \notin garbage
      BY DEF IInv, TypeOK
    <2> QED BY <2>1, <2>2, <2>3
  <1>6. \A n \in garbage, s \in Slots : ptr'[s] = n <=> ptr[s] = n
    BY <1>1, <1>2, <1>4, <1>5
  <1>7. GarbageApart'
    BY <1>1, <1>6 DEF Reclaims, GarbageApart
  <1>8. GarbageKept'
    <2>1. \A n \in garbage : RefsTo(n)' = RefsTo(n)
      BY <1>6 DEF RefsTo, OwningSlots
    <2> QED BY <1>1, <2>1 DEF Reclaims, GarbageKept
  <1>9. NoCallableCycle'
    BY <1>1, <1>3, SameCallables DEF Reclaims
  <1>10. \A m : Children(m)' = Children(m) /\ Pointees(SlotsOf(m))' = Pointees(SlotsOf(m))
    BY <1>3 DEF Children, SlotsOf, Pointees
  <1>11. ScanClosed'
    BY <1>1, <1>10 DEF Reclaims, ScanClosed, tableVars
  <1>12. CountsExact'
    <2>1. \A n : Pending(n)' = Pending(n)
      BY <1>1, <1>3 DEF Pending, NodeSlots, tableVars
    <2>2. \A n \in garbage : Outside(n)' = Outside(n)
      BY <1>6 DEF Outside, OwningSlots
    <2> QED BY <1>1, <2>1, <2>2 DEF Reclaims, CountsExact, tableVars
  <1>13. MarkedFromCells'
    <2>1. Pointees(UpvalueSlots)' = Pointees(UpvalueSlots)
      BY <1>3 DEF Pointees
    <2>2. \A S : CellClosed(S)' <=> CellClosed(S)
      BY <2>1, <1>10 DEF CellClosed
    <2> QED BY <1>1, <2>2 DEF Reclaims, MarkedFromCells, tableVars
  <1>14. CellsMarked'
    BY <1>1, <1>3 DEF Reclaims, CellsMarked, tableVars, Pointees
  <1>15. SweptEmpty'
    BY <1>1, <1>3 DEF Reclaims, SweptEmpty, tableVars, NodeSlots
  <1> QED BY <1>7, <1>8, <1>9, <1>11, <1>12, <1>13, <1>14, <1>15 DEF Reclaims

LEMMA TasksReclaim == IInv /\ Reclaims /\ Tasks => Reclaims'
  <1> SUFFICES ASSUME IInv, Reclaims, NEW t \in TaskSlots,
                      TaskDrop(t) \/ \E u \in TaskSlots : TaskCopy(t, u)
               PROVE  Reclaims'
    BY DEF Tasks
  <1>1. CASE TaskDrop(t)
    BY <1>1, TaskReclaims DEF TaskDrop
  <1>2. CASE \E u \in TaskSlots : TaskCopy(t, u)
    <2> PICK u \in TaskSlots : TaskCopy(t, u)
      BY <1>2
    <2>1. ptr[u] \in Pointees(TaskSlots)
      BY DEF TaskCopy, Pointees
    <2> QED BY <2>1, TaskReclaims DEF TaskCopy
  <1> QED BY <1>1, <1>2

\* Only a destructor of something else can run before the sweep; what it
\* held was no garbage.
LEMMA DestroyReclaims ==
  ASSUME IInv, Reclaims, NEW d \in Nodes, Destroy(d)
  PROVE  Reclaims'
  <1>1. /\ ptr \in [Slots -> Nodes \cup {Null}]
        /\ ptr' = [s \in Slots |-> IF s \in SlotsOf(d) THEN Null ELSE ptr[s]]
        /\ alive' = alive \ {d} /\ phase' = phase /\ UNCHANGED tableVars /\ garbage' = garbage
    BY DEF IInv, TypeOK, Destroy, GcUnchanged
  <1>2. RefsTo(d) = {} /\ Null \notin garbage
    BY UseCountFacts DEF Destroy, IInv, TypeOK
  <1>3. \A s \in Slots : ptr'[s] \in {ptr[s], Null}
    BY <1>1
  <1>4. \A s \in HolderSlots : ptr'[s] = ptr[s]
    BY <1>1, SlotFacts
  <1>5. \A s \in NodeSlots : Owner[s] # d => ptr'[s] = ptr[s]
    BY <1>1, SlotFacts DEF SlotsOf
  <1>6. phase \in {"hold", "scan", "mark"} => d \notin garbage
    BY <1>2 DEF Reclaims, GarbageKept
  <1>7. phase \in {"hold", "scan", "mark"} =>
          \A n \in garbage, s \in Slots : ptr'[s] = n <=> ptr[s] = n
    <2> SUFFICES ASSUME phase \in {"hold", "scan", "mark"}, NEW n \in garbage, NEW s \in Slots
                 PROVE  ptr'[s] = n <=> ptr[s] = n
      OBVIOUS
    <2>1. ptr[s] = n => s \notin SlotsOf(d)
      BY <1>6, SlotFacts DEF Reclaims, GarbageApart, SlotsOf
    <2> QED BY <1>1, <1>2, <2>1
  <1>8. GarbageApart'
    BY <1>1, <1>2, <1>3 DEF Reclaims, GarbageApart
  <1>9. GarbageKept'
    <2>1. phase \in {"hold", "scan", "mark"} => \A n \in garbage : RefsTo(n)' = RefsTo(n)
      BY <1>7 DEF RefsTo, OwningSlots
    <2> QED BY <1>1, <1>6, <2>1 DEF Reclaims, GarbageKept
  <1>10. NoCallableCycle'
    BY <1>1, <1>3, SlotFacts, SameCallables DEF Reclaims
  <1>11. ScanClosed'
    <2>1. \A m : Children(m)' \subseteq Children(m)
      BY <1>3, SlotFacts DEF Children, SlotsOf
    <2> QED BY <1>1, <2>1 DEF Reclaims, ScanClosed, tableVars
  <1>12. CountsExact'
    <2> SUFFICES ASSUME phase \in {"hold", "scan"}, NEW n \in known \cap garbage
                 PROVE  refs[n] = Cardinality(Pending(n)') + Cardinality(Outside(n)')
      BY <1>1 DEF CountsExact, tableVars
    <2>1. Pending(n)' = Pending(n) /\ Outside(n)' = Outside(n)
      BY <1>1, <1>7, SlotFacts DEF Pending, Outside, tableVars, OwningSlots
    <2> QED BY <2>1 DEF Reclaims, CountsExact
  <1>13. MarkedFromCells'
    <2> SUFFICES ASSUME phase \in {"mark", "release", "prune"}, NEW S \in SUBSET alive',
                        CellClosed(S)'
                 PROVE  marked \cap garbage \subseteq S
      BY <1>1 DEF MarkedFromCells, tableVars
    <2>1. S \in SUBSET alive /\ d \notin S
      BY <1>1
    <2>2. Pointees(UpvalueSlots)' = Pointees(UpvalueSlots)
      BY <1>4, SlotFacts DEF Pointees
    <2>3. \A m \in S : Pointees(SlotsOf(m))' = Pointees(SlotsOf(m))
      BY <1>5, <2>1 DEF Pointees, SlotsOf
    <2>4. CellClosed(S)
      BY <2>2, <2>3 DEF CellClosed
    <2> QED BY <2>1, <2>4 DEF Reclaims, MarkedFromCells
  <1>14. CellsMarked'
    BY <1>1, <1>4, SlotFacts DEF Reclaims, CellsMarked, tableVars, Pointees
  <1>15. SweptEmpty'
    BY <1>1, <1>3, SlotFacts DEF Reclaims, SweptEmpty, tableVars
  <1> QED BY <1>8, <1>9, <1>10, <1>11, <1>12, <1>13, <1>14, <1>15 DEF Reclaims

\* The garbage of a collection is what no holder but a cell reaches.
LEMMA CollectIfNeededReclaims == IInv /\ Reclaims /\ CollectIfNeeded => Reclaims'
  <1> SUFFICES ASSUME IInv, Reclaims, CollectIfNeeded PROVE Reclaims'
    OBVIOUS
  <1>1. /\ phase' = "hold" /\ alive' = alive /\ ptr' = ptr /\ garbage' = Unreachable
        /\ known' = {} /\ held = {} /\ toCollect = {}
    BY DEF CollectIfNeeded, heapVars, NotCollecting, IInv, PhaseLocals
  <1>2. ASSUME NEW n \in Unreachable
        PROVE  /\ n \in alive /\ RefsTo(n) # {}
               /\ \A s \in Slots : ptr[s] = n =>
                    s \in UpvalueSlots \/ (s \in NodeSlots /\ Owner[s] \in Unreachable)
    <2>1. PICK S \in SUBSET alive :
            /\ n \notin S
            /\ \A m \in alive : UseCount(m) = 0 => m \in S
            /\ Pointees(HolderSlots \ UpvalueSlots) \subseteq S
            /\ \A m \in S : Pointees(SlotsOf(m)) \subseteq S
      BY DEF Unreachable, UnreachableFrom
    <2>2. n \in alive /\ n # Null
      BY DEF Unreachable, UnreachableFrom, IInv, TypeOK
    <2>3. RefsTo(n) # {}
      BY <1>1, <2>1, <2>2, UseCountFacts
    <2>4. ASSUME NEW s \in Slots, ptr[s] = n, s \notin UpvalueSlots
          PROVE  s \in NodeSlots /\ Owner[s] \in Unreachable
      <3>1. s \notin HolderSlots
        BY <2>1, <2>2, <2>4 DEF Pointees
      <3>2. s \in NodeSlots /\ Owner[s] \in alive
        BY <2>2, <2>4, <3>1 DEF Slots, IInv, DeadEmpty
      <3>3. Owner[s] \notin S
        BY <2>1, <2>2, <2>4, <3>2 DEF Pointees, SlotsOf
      <3> QED BY <2>1, <3>2, <3>3 DEF Unreachable, UnreachableFrom
    <2> QED BY <2>2, <2>3, <2>4
  <1>3. GarbageApart'
    BY <1>1, <1>2 DEF GarbageApart
  <1>4. GarbageKept'
    <2>1. \A n : RefsTo(n)' = RefsTo(n)
      BY <1>1 DEF RefsTo
    <2> QED BY <1>1, <1>2, <2>1 DEF GarbageKept
  <1>5. NoCallableCycle'
    BY <1>1, SameCallables DEF Reclaims
  <1> QED BY <1>1, <1>3, <1>4, <1>5
          DEF Reclaims, ScanClosed, CountsExact, MarkedFromCells, CellsMarked, SweptEmpty

\* What use_count() returns: the enumerable owning references and the rest.
LEMMA CountSplit ==
  ASSUME NEW n, NEW P, P = {s \in OwnSlots : ptr[s] = n}
  PROVE  /\ Cardinality(RefsTo(n)) = Cardinality(P) + Cardinality(Outside(n))
         /\ Cardinality(P) \in Nat /\ Cardinality(Outside(n)) \in Nat
  <1>1. P \subseteq RefsTo(n) /\ RefsTo(n) \subseteq Slots /\ Outside(n) = RefsTo(n) \ P
    BY SlotFacts DEF RefsTo, Outside, OwningSlots
  <1>2. IsFiniteSet(RefsTo(n))
    BY <1>1, FiniteCounts
  <1>3. /\ Cardinality(RefsTo(n) \ P) = Cardinality(RefsTo(n)) - Cardinality(P)
        /\ Cardinality(RefsTo(n)) \in Nat /\ Cardinality(P) \in Nat
        /\ Cardinality(RefsTo(n) \ P) \in Nat
    BY <1>1, <1>2, CardDiff
  <1> QED BY <1>1, <1>3

\* A step of the collector that leaves the heap alone.
LEMMA HeapSame ==
  ASSUME Reclaims, alive' = alive, ptr' = ptr, garbage' = garbage,
         phase # "run", phase' # "run",
         phase' \in {"hold", "scan", "mark"} => phase \in {"hold", "scan", "mark"}
  PROVE  GarbageApart' /\ GarbageKept' /\ NoCallableCycle'
  <1>1. \A n : RefsTo(n)' = RefsTo(n)
    BY DEF RefsTo
  <1>2. NoCallableCycle'
    BY SameCallables DEF Reclaims
  <1> QED BY <1>1, <1>2 DEF Reclaims, GarbageApart, GarbageKept

LEMMA HoldEntryReclaims ==
  ASSUME IInv, Reclaims, NEW n \in Tracked, HoldEntry(n)
  PROVE  Reclaims'
  <1>1. /\ phase = "hold" /\ phase' = "hold" /\ alive' = alive /\ ptr' = ptr
        /\ garbage' = garbage /\ n \notin held /\ toCollect = {} /\ n \in Nodes
        /\ known = held /\ work = held /\ known' = held \cup {n} /\ work' = held \cup {n}
        /\ refs \in [Nodes -> Int] /\ refs' = [refs EXCEPT ![n] = UseCount(n)]
    BY DEF HoldEntry, heapVars, historyVars, IInv, PhaseLocals, TypeOK, Nodes
  <1>2. CountsExact'
    <2> SUFFICES ASSUME NEW m \in known' \cap garbage
                 PROVE  refs'[m] = Cardinality(Pending(m)') + Cardinality(Outside(m)')
      BY <1>1 DEF CountsExact
    <2>1. /\ Pending(m)' = {s \in OwnSlots : ptr[s] = m}
          /\ Outside(m)' = Outside(m)
      BY <1>1 DEF Pending, Outside
    <2>2. CASE m = n
      <3>1. refs'[m] = Cardinality(RefsTo(n))
        BY <1>1, <2>2, UseCountFacts
      <3> QED BY <2>1, <2>2, <3>1, CountSplit
    <2>3. CASE m # n
      <3>1. m \in known \cap garbage /\ refs'[m] = refs[m]
        BY <1>1, <2>3 DEF IInv, TypeOK
      <3>2. Pending(m) = Pending(m)'
        BY <1>1, <2>1 DEF Pending
      <3> QED BY <1>1, <2>1, <3>1, <3>2 DEF Reclaims, CountsExact
    <2> QED BY <2>2, <2>3
  <1>3. GarbageApart' /\ GarbageKept' /\ NoCallableCycle'
    BY <1>1, HeapSame
  <1> QED BY <1>1, <1>2, <1>3
          DEF Reclaims, ScanClosed, MarkedFromCells, CellsMarked, SweptEmpty

LEMMA HoldDoneReclaims == IInv /\ Reclaims /\ HoldDone => Reclaims'
  <1> SUFFICES ASSUME IInv, Reclaims, HoldDone PROVE Reclaims'
    OBVIOUS
  <1>1. /\ phase = "hold" /\ phase' = "scan" /\ UNCHANGED <<alive, ptr, garbage, tableVars>>
        /\ known \ work = {}
    BY DEF HoldDone, heapVars, historyVars, IInv, PhaseLocals
  <1>2. CountsExact'
    BY <1>1 DEF Reclaims, CountsExact, Pending, Outside, tableVars
  <1>3. GarbageApart' /\ GarbageKept' /\ NoCallableCycle'
    BY <1>1, HeapSame
  <1> QED BY <1>1, <1>2, <1>3
          DEF Reclaims, ScanClosed, MarkedFromCells, CellsMarked, SweptEmpty, tableVars

LEMMA ScanNodeReclaims ==
  ASSUME IInv, Reclaims, NEW m \in Nodes, ScanNode(m)
  PROVE  Reclaims'
  <1>1. /\ phase = "scan" /\ phase' = "scan" /\ alive' = alive /\ ptr' = ptr
        /\ garbage' = garbage /\ held \subseteq known /\ toCollect = {}
        /\ m \in work /\ work \subseteq known /\ known \subseteq Nodes
        /\ known' = known \cup Children(m)
        /\ work' = (work \ {m}) \cup (Children(m) \ known)
        /\ refs \in [Nodes -> Int] /\ Null \notin Nodes
    BY DEF ScanNode, heapVars, historyVars, IInv, PhaseLocals, TypeOK
  <1>2. known' \ work' = (known \ work) \cup {m}
    BY <1>1
  <1>3. Children(m) \subseteq Nodes
    BY SlotFacts DEF Children, IInv, TypeOK, SlotsOf
  <1>4. ScanClosed'
    <2>1. \A c : Children(c)' = Children(c)
      BY <1>1 DEF Children, SlotsOf
    <2> QED BY <1>1, <1>2, <2>1 DEF Reclaims, ScanClosed
  <1>5. CountsExact'
    <2> SUFFICES ASSUME NEW n \in known' \cap garbage
                 PROVE  refs'[n] = Cardinality(Pending(n)') + Cardinality(Outside(n)')
      BY <1>1 DEF CountsExact
    <2>0. n \in Nodes /\ n # Null
      BY <1>1, <1>3
    <2>1. Outside(n)' = Outside(n) /\ Cardinality(Outside(n)) \in Nat
      <3>1. Outside(n) \subseteq Slots
        BY DEF Outside, OwningSlots
      <3> QED BY <1>1, <3>1, FiniteCounts DEF Outside
    <2>2. Pending(n)' = {s \in OwnSlots : ptr[s] = n
                                  /\ Owner[s] \notin (known \ work) \cup {m}}
      BY <1>1, <1>2 DEF Pending
    <2>3. /\ Pending(n)' = Pending(n) \ OwningEdges(m, n)
          /\ OwningEdges(m, n) \subseteq Pending(n)
      BY <2>2, <1>1, SlotFacts DEF Pending, OwningEdges, SlotsOf, NodeSlots
    <2>4. IsFiniteSet(Pending(n))
      BY FiniteCounts, SlotFacts DEF Pending
    <2>5. /\ Cardinality(Pending(n)') = Cardinality(Pending(n)) - Cardinality(OwningEdges(m, n))
          /\ Cardinality(Pending(n)) \in Nat
          /\ Cardinality(OwningEdges(m, n)) \in Nat
      BY <2>3, <2>4, CardDiff
    <2>6. CASE n \notin Children(m)
      <3>1. n \in known /\ refs'[n] = refs[n]
        BY <2>6, <2>0, <1>1 DEF ScanNode
      <3>2. OwningEdges(m, n) = {}
        BY <2>6, <2>0 DEF OwningEdges, Children, EnumSlots
      <3>3. Pending(n)' = Pending(n)
        BY <3>2, <2>3
      <3> QED BY <3>1, <3>3, <2>1, <1>1 DEF Reclaims, CountsExact
    <2>7. CASE n \in Children(m) /\ n \in known
      <3>1. refs'[n] = refs[n] - Cardinality(OwningEdges(m, n))
        BY <2>7, <2>0, <1>1 DEF ScanNode
      <3>2. refs[n] = Cardinality(Pending(n)) + Cardinality(Outside(n))
        BY <2>7, <1>1 DEF Reclaims, CountsExact
      <3> QED BY <3>1, <3>2, <2>1, <2>5
    <2>8. CASE n \in Children(m) /\ n \notin known
      <3>1. refs'[n] = UseCount(n) - Cardinality(OwningEdges(m, n))
        BY <2>8, <2>0, <1>1 DEF ScanNode
      <3>2. UseCount(n) = Cardinality(RefsTo(n))
        BY <2>8, <1>1, UseCountFacts
      <3>3. Pending(n) = {s \in OwnSlots : ptr[s] = n}
        <4> SUFFICES ASSUME NEW s \in OwnSlots, ptr[s] = n, Owner[s] \in known \ work
                     PROVE  FALSE
          BY DEF Pending
        <4>1. n \in Children(Owner[s])
          BY <2>0 DEF Children, SlotsOf, EnumSlots, NodeSlots
        <4> QED BY <4>1, <2>8, <1>1 DEF Reclaims, ScanClosed
      <3>4. Cardinality(RefsTo(n)) = Cardinality(Pending(n)) + Cardinality(Outside(n))
        BY <3>3, CountSplit
      <3> QED BY <3>1, <3>2, <3>4, <2>1, <2>5
    <2> QED BY <2>6, <2>7, <2>8
  <1>6. GarbageApart' /\ GarbageKept' /\ NoCallableCycle'
    BY <1>1, HeapSame
  <1> QED BY <1>1, <1>4, <1>5, <1>6 DEF Reclaims, MarkedFromCells, CellsMarked, SweptEmpty

\* When the scan is over the table has all garbage but what the cells reach.
LEMMA TableComplete ==
  ASSUME OpaqueSlots = {}, IInv, Reclaims, phase = "scan", work = {},
         NEW S \in SUBSET alive, CellClosed(S)
  PROVE  (garbage \ known) \subseteq S
  <1> DEFINE W == (garbage \ known) \ S
  <1>1. W \subseteq alive \cap (Untracked \ Upvalues)
    <2> SUFFICES ASSUME NEW w \in W PROVE w \in alive \cap (Untracked \ Upvalues)
      OBVIOUS
    <2>1. w \in alive /\ RefsTo(w) # {} /\ w \in Nodes /\ w # Null
      BY DEF Reclaims, GarbageKept, IInv, TypeOK
    <2>2. w \notin Tracked
      BY <2>1 DEF IInv, SkippedDead, PhaseLocals
    <2>3. w \notin Upvalues
      <3> SUFFICES ASSUME w \in Upvalues PROVE w \in S
        OBVIOUS
      <3>1. \E k \in UpvalueSlots : ptr[k] = w
        BY <2>1 DEF IInv, CellsOwned
      <3> QED BY <2>1, <3>1 DEF CellClosed, Pointees
    <2> QED BY <2>1, <2>2, <2>3 DEF Nodes
  <1>2. ASSUME NEW w \in W PROVE \E s \in NodeSlots : Owner[s] \in W /\ ptr[s] = w
    <2>1. w \in Nodes /\ w # Null /\ RefsTo(w) # {}
      BY DEF Reclaims, GarbageKept, IInv, TypeOK
    <2>2. PICK s \in OwningSlots : ptr[s] = w
      BY <2>1 DEF RefsTo
    <2>3. s \notin UpvalueSlots
      BY <2>1, <2>2 DEF CellClosed, Pointees
    <2>4. s \in NodeSlots /\ Owner[s] \in garbage
      BY <2>2, <2>3 DEF OwningSlots, Reclaims, GarbageApart
    <2>5. s \in OwnSlots
      BY <2>2, <2>4 DEF OwningSlots, NodeSlots
    <2>6. Owner[s] \notin S
      BY <2>1, <2>2, <2>4 DEF CellClosed, Pointees, SlotsOf
    <2>7. w \in Children(Owner[s])
      BY <2>1, <2>2, <2>4, <2>5 DEF Children, SlotsOf, EnumSlots
    <2>8. Owner[s] \notin known
      BY <2>7 DEF Reclaims, ScanClosed
    <2> QED BY <2>2, <2>4, <2>6, <2>8
  <1>3. W = {}
    <2> HIDE DEF W
    <2> QED BY <1>1, <1>2 DEF Reclaims, NoCallableCycle
  <1> QED BY <1>3

LEMMA MarkRootsReclaims == OpaqueSlots = {} /\ IInv /\ Reclaims /\ MarkRoots => Reclaims'
  <1> SUFFICES ASSUME OpaqueSlots = {}, IInv, Reclaims, MarkRoots PROVE Reclaims'
    OBVIOUS
  <1>1. /\ phase = "scan" /\ phase' = "mark" /\ alive' = alive /\ ptr' = ptr
        /\ garbage' = garbage /\ work = {}
        /\ marked' = VmRoots \cup Pointees(PinSlots) \cup ExternallyHeld
    BY DEF MarkRoots, heapVars, historyVars
  <1>2. MarkedFromCells'
    <2> SUFFICES ASSUME NEW S \in SUBSET alive', CellClosed(S)', NEW n \in marked' \cap garbage
                 PROVE  n \in S
      BY <1>1 DEF MarkedFromCells
    <2>1. S \in SUBSET alive /\ CellClosed(S)
      BY <1>1 DEF CellClosed, Pointees, SlotsOf
    <2>2. CASE n \in Pointees(UpvalueSlots)
      BY <2>1, <2>2 DEF CellClosed
    <2>3. CASE n \in Pointees(RootSlots) \/ n \in Pointees(PinSlots)
      BY <2>3, SlotFacts DEF Pointees, Reclaims, GarbageApart
    <2>4. CASE n \in ExternallyHeld
      <3> SUFFICES ASSUME n \notin S PROVE FALSE
        OBVIOUS
      <3>0. n \in known /\ refs[n] # 0 /\ n # Null
        BY <2>4 DEF ExternallyHeld, IInv, TypeOK
      <3>1. \A s \in Slots : ptr[s] = n =>
              s \in NodeSlots /\ Owner[s] \in garbage /\ Owner[s] \notin S
        <4>1. \A s \in UpvalueSlots : ptr[s] # n
          BY <2>1, <3>0 DEF CellClosed, Pointees
        <4> QED BY <2>1, <3>0, <4>1 DEF Reclaims, GarbageApart, CellClosed, Pointees, SlotsOf
      <3>2. Outside(n) = {}
        BY <3>1 DEF Outside, OwningSlots, NodeSlots
      <3>3. Pending(n) = {}
        <4> SUFFICES ASSUME NEW s \in OwnSlots, ptr[s] = n, Owner[s] \notin known
                     PROVE  FALSE
          BY <1>1 DEF Pending
        <4>1. Owner[s] \in garbage \ known /\ Owner[s] \notin S
          BY <3>1, SlotFacts
        <4> QED BY <4>1, <1>1, <2>1, TableComplete
      <3>4. Cardinality(Pending(n)) = 0 /\ Cardinality(Outside(n)) = 0
        BY <3>2, <3>3, FS_EmptySet
      <3>5. refs[n] = Cardinality(Pending(n)) + Cardinality(Outside(n))
        BY <3>0, <1>1 DEF Reclaims, CountsExact
      <3> QED BY <3>0, <3>4, <3>5
    <2>5. VmRoots \subseteq Pointees(RootSlots) \cup Pointees(UpvalueSlots)
      BY DEF VmRoots, Pointees
    <2> QED BY <1>1, <2>2, <2>3, <2>4, <2>5
  <1>3. CellsMarked'
    BY <1>1 DEF CellsMarked, VmRoots, Pointees
  <1>4. GarbageApart' /\ GarbageKept' /\ NoCallableCycle'
    BY <1>1, HeapSame
  <1> QED BY <1>1, <1>2, <1>3, <1>4 DEF Reclaims, ScanClosed, CountsExact, SweptEmpty

\* Garbage is marked through garbage only.
LEMMA MarkNodeReclaims ==
  ASSUME IInv, Reclaims, NEW m \in Nodes, MarkNode(m)
  PROVE  Reclaims'
  <1>1. /\ phase = "mark" /\ phase' = "mark" /\ alive' = alive /\ ptr' = ptr
        /\ garbage' = garbage /\ m \in marked /\ marked' = marked \cup Children(m)
    BY DEF MarkNode, heapVars, historyVars, IInv, TypeOK
  <1>2. MarkedFromCells'
    <2> SUFFICES ASSUME NEW S \in SUBSET alive', CellClosed(S)', NEW n \in marked' \cap garbage
                 PROVE  n \in S
      BY <1>1 DEF MarkedFromCells
    <2>1. S \in SUBSET alive /\ CellClosed(S)
      BY <1>1 DEF CellClosed, Pointees, SlotsOf
    <2>2. marked \cap garbage \subseteq S
      BY <1>1, <2>1 DEF Reclaims, MarkedFromCells
    <2>3. CASE n \in Children(m)
      <3>1. PICK s \in SlotsOf(m) : ptr[s] = n /\ n # Null
        BY <2>3 DEF Children
      <3>2. CASE s \in UpvalueSlots
        BY <2>1, <3>1, <3>2 DEF CellClosed, Pointees
      <3>3. CASE s \notin UpvalueSlots
        <4>1. m \in garbage
          BY <3>1, <3>3, SlotFacts DEF SlotsOf, Reclaims, GarbageApart
        <4> QED BY <1>1, <2>1, <2>2, <3>1, <4>1 DEF CellClosed, Pointees
      <3> QED BY <3>2, <3>3
    <2> QED BY <1>1, <2>2, <2>3
  <1>3. CellsMarked'
    BY <1>1 DEF Reclaims, CellsMarked, Pointees
  <1>4. GarbageApart' /\ GarbageKept' /\ NoCallableCycle'
    BY <1>1, HeapSame
  <1> QED BY <1>1, <1>2, <1>3, <1>4 DEF Reclaims, ScanClosed, CountsExact, SweptEmpty

\* What the sweep leaves standing is what the cells reached before it.
LEMMA SweepReclaims == OpaqueSlots = {} /\ IInv /\ Reclaims /\ Sweep => Reclaims'
  <1> SUFFICES ASSUME OpaqueSlots = {}, IInv, Reclaims, Sweep PROVE Reclaims'
    OBVIOUS
  <1>1. /\ phase = "mark" /\ phase' = "release" /\ alive' = alive /\ marked' = marked
        /\ garbage' = garbage /\ markStack = {}
        /\ ptr' = [s \in Slots |-> IF s \in OwnSlots /\ Owner[s] \in Unmarked
                                   THEN Null ELSE ptr[s]]
        /\ Null \notin garbage
    BY DEF Sweep, IInv, TypeOK
  <1>2. \A s \in Slots : ptr'[s] \in {ptr[s], Null}
    BY <1>1
  <1>3. GarbageApart'
    BY <1>1, <1>2 DEF Reclaims, GarbageApart
  <1>4. NoCallableCycle'
    BY <1>1, <1>2, SlotFacts, SameCallables DEF Reclaims
  <1>5. MarkedFromCells'
    <2> SUFFICES ASSUME NEW S \in SUBSET alive, CellClosed(S)'
                 PROVE  marked \cap garbage \subseteq S
      BY <1>1 DEF MarkedFromCells
    <2> DEFINE T == S \cap marked
    <2>1. \A s \in UpvalueSlots : ptr'[s] = ptr[s]
      BY <1>1, SlotFacts
    <2>2. Pointees(UpvalueSlots) \subseteq T
      BY <1>1, <2>1 DEF Pointees, CellClosed, Reclaims, CellsMarked
    <2>3. ASSUME NEW m \in T PROVE Pointees(SlotsOf(m)) \subseteq T
      <3>1. \A s \in SlotsOf(m) : ptr'[s] = ptr[s] /\ s \in EnumSlots
        BY <1>1, SlotFacts DEF SlotsOf, Unmarked, EnumSlots, NodeSlots
      <3>2. Pointees(SlotsOf(m)) \subseteq S
        BY <3>1 DEF Pointees, CellClosed, SlotsOf
      <3>3. Pointees(SlotsOf(m)) \subseteq Children(m)
        BY <3>1 DEF Pointees, Children
      <3>4. Children(m) \subseteq marked
        BY <1>1 DEF IInv, MarkClosed
      <3> QED BY <3>2, <3>3, <3>4
    <2>4. T \in SUBSET alive /\ CellClosed(T)
      BY <2>2, <2>3 DEF CellClosed
    <2> QED BY <1>1, <2>4 DEF Reclaims, MarkedFromCells
  <1>6. SweptEmpty'
    <2> SUFFICES ASSUME NEW s \in OwnSlots, Owner[s] \in (garbage \cap Tracked) \ marked
                 PROVE  ptr'[s] = Null
      BY <1>1 DEF SweptEmpty
    <2>1. Owner[s] \in alive /\ RefsTo(Owner[s]) # {}
      BY <1>1 DEF Reclaims, GarbageKept
    <2>2. UseCount(Owner[s]) \in Nat /\ UseCount(Owner[s]) # 0
      BY <2>1, UseCountFacts
    <2>3. Owner[s] \in Unmarked
      BY <2>1, <2>2 DEF Unmarked, Lockable
    <2> QED BY <1>1, <2>3, SlotFacts
  <1> QED BY <1>1, <1>3, <1>4, <1>5, <1>6
          DEF Reclaims, GarbageKept, ScanClosed, CountsExact, CellsMarked

LEMMA ReleaseReclaims == IInv /\ Reclaims /\ Release => Reclaims'
  <1> SUFFICES ASSUME IInv, Reclaims, Release PROVE Reclaims'
    OBVIOUS
  <1>1. /\ phase = "release" /\ phase' = "prune" /\ alive' = alive /\ ptr' = ptr
        /\ garbage' = garbage /\ marked' = marked
    BY DEF Release, heapVars, historyVars
  <1>2. MarkedFromCells'
    BY <1>1 DEF Reclaims, MarkedFromCells, CellClosed, Pointees, SlotsOf
  <1>3. GarbageApart' /\ GarbageKept' /\ NoCallableCycle'
    BY <1>1, HeapSame
  <1> QED BY <1>1, <1>2, <1>3 DEF Reclaims, ScanClosed, CountsExact, CellsMarked, SweptEmpty

LEMMA CollectDoneReclaims == IInv /\ Reclaims /\ CollectDone => Reclaims'
  <1> SUFFICES ASSUME IInv, Reclaims, CollectDone PROVE Reclaims'
    OBVIOUS
  <1>1. phase' = "run" /\ garbage' = {} /\ alive' = alive /\ ptr' = ptr
    BY DEF CollectDone, heapVars
  <1>2. NoCallableCycle'
    BY <1>1, SameCallables DEF Reclaims
  <1> QED BY <1>1, <1>2, RunReclaims

LEMMA StutterReclaims == Reclaims /\ UNCHANGED vars => Reclaims'
  <1> SUFFICES ASSUME Reclaims, UNCHANGED vars PROVE Reclaims'
    OBVIOUS
  <1> USE DEF Reclaims, vars
  <1>1. GarbageApart' /\ NoCallableCycle' /\ CellsMarked' /\ SweptEmpty'
    BY DEF GarbageApart, NoCallableCycle, CellsMarked, SweptEmpty, Pointees
  <1>2. GarbageKept' /\ ScanClosed'
    BY DEF GarbageKept, RefsTo, ScanClosed, Children, SlotsOf
  <1>3. CountsExact' /\ MarkedFromCells'
    BY DEF CountsExact, Pending, Outside, MarkedFromCells, CellClosed, Pointees, SlotsOf
  <1> QED BY <1>1, <1>2, <1>3

LEMMA NextReclaims == OpaqueSlots = {} /\ IInv /\ Reclaims /\ [Next]_vars => Reclaims'
  BY MutatorReclaims, TasksReclaim, DestroyReclaims, CollectIfNeededReclaims,
     HoldEntryReclaims, HoldDoneReclaims, ScanNodeReclaims, MarkRootsReclaims,
     MarkNodeReclaims, SweepReclaims, ReleaseReclaims, CollectDoneReclaims, StutterReclaims
  DEF Next, DestroyAny, Collector

\* When a collection is over, unmarked garbage has lost every container, and
\* of the callables among it one is referenced by no other.
LEMMA NothingLeft == OpaqueSlots = {} /\ IInv /\ Reclaims => CyclesReclaimed
  <1> SUFFICES ASSUME OpaqueSlots = {}, IInv, Reclaims, phase = "prune", Settled,
                      NEW n \in garbage, n \in UnreachableFrom(HolderSlots)
               PROVE  FALSE
    BY DEF CyclesReclaimed
  <1>1. PICK S \in SUBSET alive :
          /\ n \notin S
          /\ Pointees(HolderSlots) \subseteq S
          /\ \A m \in S : Pointees(SlotsOf(m)) \subseteq S
    BY DEF UnreachableFrom
  <1>2. CellClosed(S) /\ held = {} /\ toCollect = {} /\ n \in alive
    BY <1>1, SlotFacts DEF CellClosed, Pointees, IInv, PhaseLocals, UnreachableFrom
  <1>3. marked \cap garbage \subseteq S
    BY <1>2 DEF Reclaims, MarkedFromCells
  <1> DEFINE Z == (alive \cap garbage) \ S
             Y == Z \cap (Untracked \ Upvalues)
  <1>4. ASSUME NEW w \in Z PROVE \E s \in NodeSlots : Owner[s] \in Y /\ ptr[s] = w
    <2>1. w # Null /\ w \in alive
      BY DEF IInv, TypeOK
    <2>2. UseCount(w) \in Nat /\ UseCount(w) > 0
      BY <2>1, UseCountFacts DEF Settled
    <2>3. RefsTo(w) # {}
      BY <1>2, <2>2, UseCountFacts
    <2>4. PICK s \in OwningSlots : ptr[s] = w
      BY <2>3 DEF RefsTo
    <2>5. s \in NodeSlots /\ Owner[s] \in garbage
      BY <1>2, <2>1, <2>4 DEF OwningSlots, Reclaims, GarbageApart, CellClosed, Pointees
    <2>6. s \in OwnSlots
      BY <2>4, <2>5 DEF OwningSlots, NodeSlots
    <2>7. Owner[s] \notin S
      BY <1>1, <2>1, <2>4, <2>5 DEF Pointees, SlotsOf
    <2>8. Owner[s] \in alive
      BY <2>1, <2>4, <2>5 DEF IInv, DeadEmpty
    <2>9. Owner[s] \notin Tracked
      BY <1>3, <2>1, <2>4, <2>5, <2>6, <2>7 DEF Reclaims, SweptEmpty
    <2>10. Owner[s] \notin Upvalues
      BY <1>2, <2>7, <2>8 DEF CellClosed, Pointees, IInv, CellsOwned, TypeOK
    <2> QED BY <2>4, <2>5, <2>7, <2>8, <2>9, <2>10 DEF Nodes, IInv, TypeOK
  <1>5. n \in Z
    BY <1>1, <1>2
  <1>6. Y # {} /\ Y \subseteq Z /\ Y \subseteq alive \cap (Untracked \ Upvalues)
    BY <1>4, <1>5
  <1>7. PICK y \in Y : \A s \in NodeSlots : Owner[s] \in Y => ptr[s] # y
    <2> HIDE DEF Y
    <2> QED BY <1>6 DEF Reclaims, NoCallableCycle
  <1>8. \E s \in NodeSlots : Owner[s] \in Y /\ ptr[s] = y
    BY <1>4
  <1> QED BY <1>7, <1>8

\* A collection reclaims all of the garbage it started with, cycles through
\* closures and their captures included, but what an upvalue cell keeps.  The
\* captures of a NativeFunction, which the collector cannot enumerate, would
\* keep a cycle too: the hypothesis excludes them.
THEOREM GarbageReclaimed ==
  ASSUME OpaqueSlots = {}
  PROVE  Spec => []CyclesReclaimed
  <1>1. Init => Reclaims
    BY DEF Init, Reclaims, GarbageApart, GarbageKept, NoCallableCycle, ScanClosed,
           CountsExact, MarkedFromCells, CellsMarked, SweptEmpty
  <1>2. IInv /\ Reclaims /\ [Next]_vars => Reclaims'
    BY NextReclaims
  <1>3. IInv /\ Reclaims => CyclesReclaimed
    BY NothingLeft
  <1> QED BY <1>1, <1>2, <1>3, Invariance, PTL DEF Spec
=============================================================================
