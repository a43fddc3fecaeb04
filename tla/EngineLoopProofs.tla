--------------------------- MODULE EngineLoopProofs ----------------------------
(* Proofs about EngineLoop: mutexes and cancellation scopes balance, no posted  *)
(* call is lost or run twice, and a SharedMap whose posted calls leave it alone *)
(* implements AtomicMap.                                                        *)
EXTENDS EngineLoop, SequenceTheorems, FiniteSetTheorems, WellFoundedInduction, TLAPS

--------------------------------------------------------------------------------
(* The inductive invariant.                                                     *)

Values == 0..MaxVal \cup {Absent}

\* What a frame holds, as far as it matters when its callback ends.
Frame(f) ==
    /\ f.kind \in {"withLock", "update", "withCancel", "posted", "signals"}
    /\ f.kind = "withLock" => f.mutex \in Locks
    /\ f.kind = "update" => f.key \in Keys /\ f.seen \in Values
    /\ f.kind = "withCancel" => f.prev \in Tokens \cup {NoToken} /\ f.token \in Tokens
    /\ f.kind = "posted" => f.calls \in Seq(Nat)

\* Every thread's natives are a sequence of frames.
StackShape ==
    /\ DOMAIN stack = Threads
    /\ \A t \in Threads : /\ stack[t] \in Seq(ToSet(stack[t]))
                          /\ \A i \in DOMAIN stack[t] : Frame(stack[t][i])

ListsOK ==
    /\ acquired \in [Threads -> Seq(Locks \X Nat)]
    /\ postedQueue \in Seq(Nat) /\ ran \in Seq(Nat) /\ posts \in Nat

\* A mutex that nobody holds is not locked.
FreeIsZero == \A m \in Mutexes : owner[m] = None => depth[m] = 0

\* Each scope restores the token that was in force when it began.
Restores ==
    \A t \in Threads : \A i \in DOMAIN stack[t] :
        IsScope(stack[t][i]) => InForce(stack[t], i - 1, stack[t][i].prev)

\* Only the engine runs posted calls.
PostedHere ==
    \A t \in Threads \ {Engine} : \A i \in DOMAIN stack[t] : stack[t][i].kind # "posted"

IInv ==
    /\ TypeOK /\ StackShape /\ ListsOK
    /\ FreeIsZero /\ ScopesExact /\ Restores
    /\ PostedHere /\ PostedExact

--------------------------------------------------------------------------------
(* A SharedMap while its function runs.                                         *)

Writers == {"set", "delete", "clear", "update"}

Updates(t) == {i \in DOMAIN stack[t] : stack[t][i].kind = "update"}

\* A thread runs one update() at a time, nobody changes the value in between, and
\* no thread waits for the map inside one in order to change it.
Alone(t) ==
    /\ \A i, j \in Updates(t) : i = j
    /\ \A i \in Updates(t) : entries[stack[t][i].key] = stack[t][i].seen
    /\ want[t] # None /\ want[t].name \in Writers => Updates(t) = {}

UpdateAlone == \A t \in Threads : Alone(t)

--------------------------------------------------------------------------------
(* Stacks.                                                                      *)

LEMMA AppendFacts ==
    ASSUME NEW s, s \in Seq(ToSet(s)), NEW e
    PROVE  LET l == Append(s, e) IN
           /\ l \in Seq(ToSet(l)) /\ Len(l) = Len(s) + 1
           /\ Len(s) \in Nat /\ DOMAIN s = 1..Len(s) /\ DOMAIN l = 1..(Len(s) + 1)
           /\ \A i \in 1..Len(s) : l[i] = s[i]
           /\ l[Len(s) + 1] = e
    <1> DEFINE S == ToSet(s) \cup {e}
               l == Append(s, e)
    <1>1. s \in Seq(S) /\ e \in S
        OBVIOUS
    <1>2. Len(s) \in Nat /\ DOMAIN s = 1..Len(s)
        BY <1>1, LenProperties
    <1> HIDE DEF S
    <1>3. /\ l \in Seq(S) /\ Len(l) = Len(s) + 1
          /\ \A i \in 1..Len(s) : l[i] = s[i]
          /\ l[Len(s) + 1] = e
        BY <1>1, AppendProperties
    <1> HIDE DEF l
    <1>4. DOMAIN l = 1..(Len(s) + 1)
        BY <1>3, LenProperties
    <1>5. l \in Seq(ToSet(l))
        <2>1. \A i \in 1..Len(l) : l[i] \in ToSet(l)
            BY <1>3, <1>4 DEF ToSet
        <2> QED BY <1>3, <2>1
    <1> QED BY <1>2, <1>3, <1>4, <1>5 DEF l

LEMMA FrontFacts ==
    ASSUME NEW s, s \in Seq(ToSet(s)), s # <<>>
    PROVE  LET l == SubSeq(s, 1, Len(s) - 1) IN
           /\ l \in Seq(ToSet(l)) /\ Len(l) = Len(s) - 1
           /\ Len(s) \in Nat \ {0} /\ DOMAIN s = 1..Len(s) /\ DOMAIN l = 1..(Len(s) - 1)
           /\ \A i \in 1..(Len(s) - 1) : l[i] = s[i]
    <1> DEFINE S == ToSet(s)
               l == SubSeq(s, 1, Len(s) - 1)
    <1>1. Len(s) \in Nat \ {0} /\ DOMAIN s = 1..Len(s) /\ s \in Seq(S)
        BY LenProperties, EmptySeq
    <1> HIDE DEF S
    <1>2. /\ l \in Seq(S) /\ Len(l) = Len(s) - 1
          /\ \A i \in 1..(Len(s) - 1) : l[i] = s[i]
        BY <1>1
    <1> HIDE DEF l
    <1>3. DOMAIN l = 1..(Len(s) - 1)
        BY <1>2, LenProperties
    <1>4. l \in Seq(ToSet(l))
        <2>1. \A i \in 1..Len(l) : l[i] \in ToSet(l)
            BY <1>1, <1>2, <1>3 DEF ToSet
        <2> QED BY <1>2, <2>1
    <1> QED BY <1>1, <1>2, <1>3, <1>4 DEF l

LEMMA TopFacts ==
    ASSUME NEW s, s \in Seq(ToSet(s)), s # <<>>, NEW e
    PROVE  LET l == [s EXCEPT ![Len(s)] = e] IN
           /\ l \in Seq(ToSet(l)) /\ Len(l) = Len(s)
           /\ Len(s) \in Nat \ {0} /\ DOMAIN s = 1..Len(s) /\ DOMAIN l = 1..Len(s)
           /\ \A i \in 1..(Len(s) - 1) : l[i] = s[i]
           /\ l[Len(s)] = e
    <1> DEFINE S == ToSet(s) \cup {e}
               l == [s EXCEPT ![Len(s)] = e]
    <1>1. Len(s) \in Nat \ {0} /\ DOMAIN s = 1..Len(s) /\ s \in Seq(S) /\ e \in S
        BY LenProperties, EmptySeq
    <1> HIDE DEF S
    <1>2. l \in Seq(S) /\ Len(l) = Len(s)
        BY <1>1, ExceptSeq
    <1>3. DOMAIN l = 1..Len(s) /\ l[Len(s)] = e /\ \A i \in 1..(Len(s) - 1) : l[i] = s[i]
        BY <1>1
    <1> HIDE DEF l
    <1>4. l \in Seq(ToSet(l))
        <2>1. \A i \in 1..Len(l) : l[i] \in ToSet(l)
            BY <1>2, <1>3 DEF ToSet
        <2> QED BY <1>2, <2>1
    <1> QED BY <1>1, <1>2, <1>3, <1>4 DEF l

--------------------------------------------------------------------------------
(* The steps, by what they do to the stacks.                                    *)

LEMMA CallCases ==
    ASSUME TypeOK, NEW t \in Threads, (\E op \in Ops : Call(t, op)) \/ Wake(t)
    PROVE  /\ UNCHANGED <<current, postVars, signalVars>>
           /\ \/ UNCHANGED <<stack, lockVars, entries>>
              \/ \E op \in Ops : Available(t, op.mutex) /\ Effect(t, op)
    BY DEF Call, Wake, TypeOK, Ops

LEMMA EffectCases ==
    ASSUME NEW t \in Threads, NEW op \in Ops, Effect(t, op)
    PROVE  \/ /\ op.mutex \in Locks /\ Lock(t, op.mutex)
              /\ acquired' = [acquired EXCEPT ![t] = Append(@, <<op.mutex, Len(stack[t])>>)]
              /\ UNCHANGED <<stack, entries>>
           \/ /\ op.mutex \in Locks /\ Lock(t, op.mutex) /\ Push(t, LockFrame(op.mutex))
              /\ UNCHANGED <<acquired, entries>>
           \/ /\ op.name = "update" /\ op.mutex = TheMap /\ op.key \in Keys
              /\ Lock(t, TheMap) /\ Push(t, UpdateFrame(op.key))
              /\ UNCHANGED <<acquired, entries>>
           \/ /\ op.mutex = TheMap /\ op.name \in ShortOps
              /\ entries' = entries \/ op.name \in {"set", "delete", "clear"}
              /\ \/ entries' = entries
                 \/ op.key \in Keys /\ entries' = [entries EXCEPT ![op.key] = 0]
                 \/ op.key \in Keys /\ entries' = [entries EXCEPT ![op.key] = Absent]
                 \/ entries' = [k \in Keys |-> Absent]
              /\ UNCHANGED <<stack, owner, depth, acquired>>
    BY DEF Effect, Ops, LockOps, MapOps, ShortOps

LEMMA EndCases ==
    ASSUME NEW t \in Threads, Return(t) \/ Throw(t)
    PROVE  /\ MayEnd(t) /\ UnchangedByEnd
           /\ \/ LeaveLock(t)
              \/ LeaveCancel(t)
              \/ LeaveUpdate(t, entries)
              \/ LeaveUpdate(t, [entries EXCEPT ![Top(t).key] = Incremented(Top(t).seen)])
              \/ Top(t).kind = "posted" /\ NextPosted(t)
              \/ /\ Top(t).kind = "signals" /\ UNCHANGED <<owner, depth, entries, current, ran>>
                 /\ Pop(t) \/ ReplaceTop(t, SignalFrame(Tail(Top(t).calls)))
    BY DEF Return, Throw, NextSignal

LEMMA SignalCases ==
    ASSUME NEW t \in Threads,
           \/ \E s \in Signals : OnSignal(t, s)
           \/ CheckSignals(t) \/ LoadSigint(t) \/ ClearSigint(t)
    PROVE  /\ UNCHANGED <<want, lockVars, entries, current, postVars>>
           /\ stack' = stack \/ \E calls : Push(t, SignalFrame(calls))
  BY DEF OnSignal, CheckSignals, LoadSigint, ClearSigint

\* What Push, Pop and ReplaceTop do.
LEMMA PushFacts ==
    ASSUME StackShape, NEW t \in Threads, NEW f, Frame(f), Push(t, f)
    PROVE  /\ StackShape'
           /\ \A u \in Threads : u # t => stack'[u] = stack[u]
           /\ Len(stack[t]) \in Nat /\ Len(stack'[t]) = Len(stack[t]) + 1
           /\ DOMAIN stack[t] = 1..Len(stack[t]) /\ DOMAIN stack'[t] = 1..(Len(stack[t]) + 1)
           /\ \A i \in 1..Len(stack[t]) : stack'[t][i] = stack[t][i]
           /\ stack'[t][Len(stack[t]) + 1] = f
    <1>1. stack'[t] = Append(stack[t], f) /\ \A u \in Threads : u # t => stack'[u] = stack[u]
        BY DEF Push, StackShape
    <1>2. /\ stack'[t] \in Seq(ToSet(stack'[t])) /\ Len(stack'[t]) = Len(stack[t]) + 1
          /\ Len(stack[t]) \in Nat
          /\ DOMAIN stack[t] = 1..Len(stack[t]) /\ DOMAIN stack'[t] = 1..(Len(stack[t]) + 1)
          /\ \A i \in 1..Len(stack[t]) : stack'[t][i] = stack[t][i]
          /\ stack'[t][Len(stack[t]) + 1] = f
        BY <1>1, AppendFacts DEF StackShape
    <1>3. \A i \in DOMAIN stack'[t] : Frame(stack'[t][i])
        BY <1>2 DEF StackShape
    <1>4. DOMAIN stack' = Threads
        BY DEF Push, StackShape
    <1>5. StackShape'
        BY <1>1, <1>2, <1>3, <1>4 DEF StackShape, Frame
    <1> QED BY <1>1, <1>2, <1>5

LEMMA PopFacts ==
    ASSUME StackShape, NEW t \in Threads, stack[t] # <<>>, Pop(t)
    PROVE  /\ StackShape'
           /\ \A u \in Threads : u # t => stack'[u] = stack[u]
           /\ Len(stack[t]) \in Nat \ {0} /\ Len(stack'[t]) = Len(stack[t]) - 1
           /\ DOMAIN stack[t] = 1..Len(stack[t]) /\ DOMAIN stack'[t] = 1..(Len(stack[t]) - 1)
           /\ \A i \in 1..(Len(stack[t]) - 1) : stack'[t][i] = stack[t][i]
    <1>1. /\ stack'[t] = SubSeq(stack[t], 1, Len(stack[t]) - 1)
          /\ \A u \in Threads : u # t => stack'[u] = stack[u]
        BY DEF Pop, StackShape
    <1>2. /\ stack'[t] \in Seq(ToSet(stack'[t])) /\ Len(stack'[t]) = Len(stack[t]) - 1
          /\ Len(stack[t]) \in Nat \ {0}
          /\ DOMAIN stack[t] = 1..Len(stack[t]) /\ DOMAIN stack'[t] = 1..(Len(stack[t]) - 1)
          /\ \A i \in 1..(Len(stack[t]) - 1) : stack'[t][i] = stack[t][i]
        BY <1>1, FrontFacts DEF StackShape
    <1>3. \A i \in DOMAIN stack'[t] : Frame(stack'[t][i])
        <2>1. \A i \in 1..(Len(stack[t]) - 1) : i \in DOMAIN stack[t]
            BY <1>2
        <2>2. \A i \in 1..(Len(stack[t]) - 1) : Frame(stack[t][i])
            BY <2>1 DEF StackShape
        <2> QED BY <1>2, <2>2
    <1>4. DOMAIN stack' = Threads
        BY DEF Pop, StackShape
    <1>5. StackShape'
        BY <1>1, <1>2, <1>3, <1>4 DEF StackShape, Frame
    <1> QED BY <1>1, <1>2, <1>5

LEMMA ReplaceFacts ==
    ASSUME StackShape, NEW t \in Threads, stack[t] # <<>>, NEW f, Frame(f), ReplaceTop(t, f)
    PROVE  /\ StackShape'
           /\ \A u \in Threads : u # t => stack'[u] = stack[u]
           /\ Len(stack[t]) \in Nat \ {0} /\ Len(stack'[t]) = Len(stack[t])
           /\ DOMAIN stack[t] = 1..Len(stack[t]) /\ DOMAIN stack'[t] = 1..Len(stack[t])
           /\ \A i \in 1..(Len(stack[t]) - 1) : stack'[t][i] = stack[t][i]
           /\ stack'[t][Len(stack[t])] = f
    <1>1. /\ stack'[t] = [stack[t] EXCEPT ![Len(stack[t])] = f]
          /\ \A u \in Threads : u # t => stack'[u] = stack[u]
        BY DEF ReplaceTop, StackShape
    <1>2. /\ stack'[t] \in Seq(ToSet(stack'[t])) /\ Len(stack'[t]) = Len(stack[t])
          /\ Len(stack[t]) \in Nat \ {0}
          /\ DOMAIN stack[t] = 1..Len(stack[t]) /\ DOMAIN stack'[t] = 1..Len(stack[t])
          /\ \A i \in 1..(Len(stack[t]) - 1) : stack'[t][i] = stack[t][i]
          /\ stack'[t][Len(stack[t])] = f
        BY <1>1, TopFacts DEF StackShape
    <1>3. \A i \in DOMAIN stack'[t] : Frame(stack'[t][i])
        <2>1. \A i \in DOMAIN stack'[t] : i = Len(stack[t]) \/ i \in 1..(Len(stack[t]) - 1)
            BY <1>2
        <2>2. \A i \in 1..(Len(stack[t]) - 1) : Frame(stack[t][i])
            BY <1>2 DEF StackShape
        <2> QED BY <1>2, <2>1, <2>2
    <1>4. DOMAIN stack' = Threads
        BY DEF ReplaceTop, StackShape
    <1>5. StackShape'
        BY <1>1, <1>2, <1>3, <1>4 DEF StackShape, Frame
    <1> QED BY <1>1, <1>2, <1>5

\* The native whose callback ends.
LEMMA InnermostFacts ==
    ASSUME StackShape, NEW t \in Threads, stack[t] # <<>>
    PROVE  /\ Len(stack[t]) \in Nat \ {0} /\ DOMAIN stack[t] = 1..Len(stack[t])
           /\ Len(stack[t]) \in DOMAIN stack[t] /\ Top(t) = stack[t][Len(stack[t])] /\ Frame(Top(t))
    <1>1. Len(stack[t]) \in Nat \ {0} /\ DOMAIN stack[t] = 1..Len(stack[t])
        BY LenProperties, EmptySeq DEF StackShape
    <1> QED BY <1>1 DEF StackShape, Top

LEMMA SignalFrameOK == \A calls : Frame(SignalFrame(calls)) /\ SignalFrame(calls).kind = "signals"
    BY DEF Frame, SignalFrame

--------------------------------------------------------------------------------
(* Types.                                                                       *)

\* What TypeOK says of everything but handlers and signals.
Types ==
    /\ want \in [Threads -> Ops \cup {None}]
    /\ owner \in [Mutexes -> Threads \cup {None}]
    /\ depth \in [Mutexes -> Nat]
    /\ entries \in [Keys -> Values]
    /\ current \in [Threads -> Tokens \cup {NoToken}]
    /\ postedPending \in BOOLEAN

SignalTypes ==
    /\ pendingSignals \subseteq Signals /\ handlers \subseteq Signals
    /\ handlers \subseteq ours /\ seenInt \subseteq Threads

LEMMA TypesNow ==
    ASSUME IInv
    PROVE  Types /\ SignalTypes /\ StackShape /\ ListsOK /\ TypeOK
    BY DEF IInv, TypeOK, Types, SignalTypes, Values

LEMMA SignalTypesStep ==
    ASSUME IInv, [Next]_vars
    PROVE  SignalTypes'
    <1>1. SignalTypes
        BY TypesNow
    <1>2. CASE UNCHANGED signalVars
        BY <1>1, <1>2 DEF signalVars, SignalTypes
    <1>3. ASSUME NEW t \in Threads, NEW s \in Signals, OnSignal(t, s)
          PROVE  SignalTypes'
        BY <1>1, <1>3 DEF OnSignal, SignalTypes
    <1>4. ASSUME NEW t \in Threads, CheckSignals(t) \/ LoadSigint(t) \/ ClearSigint(t)
          PROVE  SignalTypes'
        BY <1>1, <1>4 DEF CheckSignals, LoadSigint, ClearSigint, SignalTypes
    <1>5. ASSUME NEW s \in Signals, Raise(s)
          PROVE  SignalTypes'
        BY <1>1, <1>5 DEF Raise, SignalTypes
    <1>6. ASSUME NEW t \in Threads, Return(t) \/ Throw(t)
          PROVE  SignalTypes'
        BY <1>1, <1>6 DEF Return, Throw, UnchangedByEnd, SignalTypes
    <1>7. ASSUME NEW t \in Threads, (\E op \in Ops : Call(t, op)) \/ Wake(t)
          PROVE  UNCHANGED signalVars
        BY <1>7 DEF Call, Wake
    <1>8. ASSUME NEW t \in Threads, Release(t) \/ DrainPosted(t) \/ \E c \in Tokens : WithCancel(t, c)
          PROVE  UNCHANGED signalVars
        BY <1>8 DEF Release, DrainPosted, WithCancel
    <1>9. CASE EnqueuePosted
        BY <1>2, <1>9 DEF EnqueuePosted
    <1>10. CASE UNCHANGED vars
        BY <1>2, <1>10 DEF vars
    <1>11. ASSUME NEW t \in Threads, Step(t)
           PROVE  SignalTypes'
        BY <1>2, <1>3, <1>4, <1>6, <1>7, <1>8, <1>11 DEF Step, Ops
    <1> QED BY <1>5, <1>9, <1>10, <1>11 DEF Next

\* A mutex that is taken or given back.
LEMMA LockTypes ==
    ASSUME IInv, NEW t \in Threads, NEW m \in Mutexes, Lock(t, m) \/ (Unlock(m) /\ depth[m] # 0)
    PROVE  /\ owner' \in [Mutexes -> Threads \cup {None}] /\ depth' \in [Mutexes -> Nat]
           /\ \A n \in Mutexes : n # m => owner'[n] = owner[n] /\ depth'[n] = depth[n]
    BY TypesNow DEF Types, Lock, Unlock

LEMMA AcquiredFacts ==
    ASSUME NEW s \in Seq(Locks \X Nat)
    PROVE  /\ Len(s) \in Nat /\ DOMAIN s = 1..Len(s)
           /\ \A i \in 1..Len(s) : s[i] \in Locks \X Nat
           /\ \A e \in Locks \X Nat : Append(s, e) \in Seq(Locks \X Nat)
           /\ s # <<>> => /\ Len(s) # 0 /\ SubSeq(s, 1, Len(s) - 1) \in Seq(Locks \X Nat)
    <1>1. Len(s) \in Nat /\ DOMAIN s = 1..Len(s) /\ (s # <<>> => Len(s) # 0)
        BY LenProperties, EmptySeq
    <1>2. \A i \in 1..Len(s) : s[i] \in Locks \X Nat
        BY <1>1, ElementOfSeq
    <1>3. \A e \in Locks \X Nat : Append(s, e) \in Seq(Locks \X Nat)
        BY AppendProperties
    <1>4. s # <<>> => SubSeq(s, 1, Len(s) - 1) \in Seq(Locks \X Nat)
        <2> SUFFICES ASSUME s # <<>>
                     PROVE  SubSeq(s, 1, Len(s) - 1) \in Seq(Locks \X Nat)
            OBVIOUS
        <2>1. Len(s) - 1 \in Int /\ \A i \in 1..(Len(s) - 1) : s[i] \in Locks \X Nat
            BY <1>1, <1>2
        <2> QED BY <2>1, SubSeqProperties
    <1> QED BY <1>1, <1>2, <1>3, <1>4

\* Sequences of posted calls.
LEMMA CallsFacts ==
    ASSUME NEW s \in Seq(Nat)
    PROVE  /\ \A n \in Nat : Append(s, n) \in Seq(Nat)
           /\ s # <<>> => Tail(s) \in Seq(Nat) /\ Head(s) \in Nat
    BY AppendProperties, HeadTailProperties

--------------------------------------------------------------------------------
(* How often a mutex is locked.                                                 *)

LocksIt(f, m) == \/ f.kind = "withLock" /\ f.mutex = m
                 \/ f.kind = "update" /\ m = TheMap

FramesOn(s, m) == {i \in 1..Len(s) : LocksIt(s[i], m)}
TakenBy(a, m) == {i \in 1..Len(a) : a[i][1] = m}

LEMMA TimesLockedIs ==
    ASSUME NEW t, NEW m
    PROVE  TimesLocked(t, m) = Cardinality(FramesOn(stack[t], m)) + Cardinality(TakenBy(acquired[t], m))
    BY DEF TimesLocked, FramesOn, TakenBy, LocksIt

LEMMA CountsFinite ==
    ASSUME NEW s, Len(s) \in Nat, NEW m
    PROVE  /\ IsFiniteSet(FramesOn(s, m)) /\ Cardinality(FramesOn(s, m)) \in Nat
           /\ IsFiniteSet(TakenBy(s, m)) /\ Cardinality(TakenBy(s, m)) \in Nat
    <1>1. IsFiniteSet(1..Len(s))
        BY FS_Interval
    <1>2. FramesOn(s, m) \subseteq 1..Len(s) /\ TakenBy(s, m) \subseteq 1..Len(s)
        BY DEF FramesOn, TakenBy
    <1>3. IsFiniteSet(FramesOn(s, m)) /\ IsFiniteSet(TakenBy(s, m))
        BY <1>1, <1>2, FS_Subset
    <1> QED BY <1>3, FS_CardinalityType

\* One native more.
LEMMA FramesOneMore ==
    ASSUME NEW s, NEW l, Len(s) \in Nat, Len(l) = Len(s) + 1, \A i \in 1..Len(s) : l[i] = s[i], NEW m
    PROVE  Cardinality(FramesOn(l, m)) = Cardinality(FramesOn(s, m)) + (IF LocksIt(l[Len(l)], m) THEN 1 ELSE 0)
    <1>1. IsFiniteSet(FramesOn(s, m)) /\ Cardinality(FramesOn(s, m)) \in Nat
        BY CountsFinite
    <1>2. Len(l) \notin FramesOn(s, m)
        BY DEF FramesOn
    <1>3. \A i \in 1..Len(l) : i \in 1..Len(s) \/ i = Len(l)
        OBVIOUS
    <1>4. CASE LocksIt(l[Len(l)], m)
        <2>1. FramesOn(l, m) = FramesOn(s, m) \cup {Len(l)}
            BY <1>3, <1>4 DEF FramesOn
        <2> QED BY <1>1, <1>2, <1>4, <2>1, FS_AddElement
    <1>5. CASE ~LocksIt(l[Len(l)], m)
        <2>1. FramesOn(l, m) = FramesOn(s, m)
            BY <1>3, <1>5 DEF FramesOn
        <2> QED BY <1>1, <1>5, <2>1
    <1> QED BY <1>4, <1>5

\* One acquire() more.
LEMMA TakenOneMore ==
    ASSUME NEW s, NEW l, Len(s) \in Nat, Len(l) = Len(s) + 1, \A i \in 1..Len(s) : l[i] = s[i], NEW m
    PROVE  Cardinality(TakenBy(l, m)) = Cardinality(TakenBy(s, m)) + (IF l[Len(l)][1] = m THEN 1 ELSE 0)
    <1>1. IsFiniteSet(TakenBy(s, m)) /\ Cardinality(TakenBy(s, m)) \in Nat
        BY CountsFinite
    <1>2. Len(l) \notin TakenBy(s, m)
        BY DEF TakenBy
    <1>3. \A i \in 1..Len(l) : i \in 1..Len(s) \/ i = Len(l)
        OBVIOUS
    <1>4. CASE l[Len(l)][1] = m
        <2>1. TakenBy(l, m) = TakenBy(s, m) \cup {Len(l)}
            BY <1>3, <1>4 DEF TakenBy
        <2>2. Cardinality(TakenBy(s, m) \cup {Len(l)}) = Cardinality(TakenBy(s, m)) + 1
            BY <1>1, <1>2, FS_AddElement
        <2> QED BY <1>4, <2>1, <2>2
    <1>5. CASE l[Len(l)][1] # m
        <2>1. TakenBy(l, m) = TakenBy(s, m)
            BY <1>3, <1>5 DEF TakenBy
        <2> QED BY <1>1, <1>5, <2>1
    <1> QED BY <1>4, <1>5

\* A native that locks nothing takes the place of another one.
LEMMA FramesReplaced ==
    ASSUME NEW s, NEW l, Len(s) \in Nat \ {0}, Len(l) = Len(s), \A i \in 1..(Len(s) - 1) : l[i] = s[i], NEW m,
           ~LocksIt(l[Len(s)], m), ~LocksIt(s[Len(s)], m)
    PROVE  FramesOn(l, m) = FramesOn(s, m)
    <1>1. \A i \in 1..Len(s) : i \in 1..(Len(s) - 1) \/ i = Len(s)
        OBVIOUS
    <1> QED BY <1>1 DEF FramesOn

\* A thread that is inside a native, or has an acquire(), that locked a mutex owns it.
LEMMA OwnerFacts ==
    ASSUME IInv, NEW t \in Threads, NEW m \in Mutexes
    PROVE  /\ Len(stack[t]) \in Nat /\ Len(acquired[t]) \in Nat
           /\ TimesLocked(t, m) \in Nat
           /\ TimesLocked(t, m) = (IF owner[m] = t THEN depth[m] ELSE 0)
           /\ \A i \in 1..Len(stack[t]) : LocksIt(stack[t][i], m) => owner[m] = t /\ depth[m] # 0
           /\ \A i \in 1..Len(acquired[t]) : acquired[t][i][1] = m => owner[m] = t /\ depth[m] # 0
    <1>1. Len(stack[t]) \in Nat
        BY TypesNow, LenProperties DEF StackShape
    <1>2. Len(acquired[t]) \in Nat
        <2>1. acquired[t] \in Seq(Locks \X Nat)
            BY TypesNow DEF ListsOK
        <2> QED BY <2>1, LenProperties
    <1> DEFINE F == FramesOn(stack[t], m)
               A == TakenBy(acquired[t], m)
    <1>3. /\ IsFiniteSet(F) /\ Cardinality(F) \in Nat
          /\ IsFiniteSet(A) /\ Cardinality(A) \in Nat
        BY <1>1, <1>2, CountsFinite
    <1>4. TimesLocked(t, m) = Cardinality(F) + Cardinality(A)
        BY TimesLockedIs
    <1>5. TimesLocked(t, m) = IF owner[m] = t THEN depth[m] ELSE 0
        BY DEF IInv, ScopesExact, LocksExact
    <1>6. F # {} \/ A # {} => TimesLocked(t, m) # 0
        BY <1>3, <1>4, FS_EmptySet
    <1>7. \A i \in 1..Len(stack[t]) : LocksIt(stack[t][i], m) => F # {}
        BY DEF FramesOn
    <1>8. \A i \in 1..Len(acquired[t]) : acquired[t][i][1] = m => A # {}
        BY DEF TakenBy
    <1> HIDE DEF F, A
    <1>9. (F # {} \/ A # {}) => owner[m] = t /\ depth[m] # 0
        BY <1>5, <1>6
    <1> QED BY <1>1, <1>2, <1>3, <1>4, <1>5, <1>7, <1>8, <1>9

Count(s, a, m) == Cardinality(FramesOn(s, m)) + Cardinality(TakenBy(a, m))

LEMMA CountIs ==
    ASSUME NEW t, NEW m
    PROVE  /\ TimesLocked(t, m) = Count(stack[t], acquired[t], m)
           /\ TimesLocked(t, m)' = Count(stack'[t], acquired'[t], m)
    BY DEF TimesLocked, Count, FramesOn, TakenBy, LocksIt

\* Mutexes balance after a step of thread t that takes or gives back one of them,
\* or none.
LEMMA LocksBalance ==
    ASSUME IInv, NEW t \in Threads, NEW m \in Mutexes,
           \A u \in Threads : u # t => stack'[u] = stack[u] /\ acquired'[u] = acquired[u],
           \A n \in Mutexes : n # m =>
              Count(stack'[t], acquired'[t], n) = Count(stack[t], acquired[t], n),
           \/ /\ Available(t, m) /\ Lock(t, m)
              /\ Count(stack'[t], acquired'[t], m) = Count(stack[t], acquired[t], m) + 1
           \/ /\ owner[m] = t /\ depth[m] # 0 /\ Unlock(m)
              /\ Count(stack'[t], acquired'[t], m) = Count(stack[t], acquired[t], m) - 1
           \/ /\ UNCHANGED <<owner, depth>>
              /\ Count(stack'[t], acquired'[t], m) = Count(stack[t], acquired[t], m)
    PROVE  LocksExact' /\ FreeIsZero'
    <1> DEFINE C(u, n) == Count(stack[u], acquired[u], n)
               D(u, n) == Count(stack'[u], acquired'[u], n)
    <1>1. \A u \in Threads, n \in Mutexes :
             /\ C(u, n) \in Nat /\ C(u, n) = IF owner[n] = u THEN depth[n] ELSE 0
             /\ (u # t \/ n # m) => D(u, n) = C(u, n)
        BY OwnerFacts, CountIs
    <1>2. /\ owner \in [Mutexes -> Threads \cup {None}] /\ depth \in [Mutexes -> Nat]
          /\ None \notin Threads
        BY TypesNow, EngineAssumption DEF Types
    <1>3. \A n \in Mutexes : owner[n] = None => depth[n] = 0
        BY DEF IInv, FreeIsZero
    <1>4. \/ Available(t, m) /\ Lock(t, m) /\ D(t, m) = C(t, m) + 1
          \/ owner[m] = t /\ depth[m] # 0 /\ Unlock(m) /\ D(t, m) = C(t, m) - 1
          \/ UNCHANGED <<owner, depth>> /\ D(t, m) = C(t, m)
        OBVIOUS
    <1> HIDE DEF C, D
    <1>5. \A u \in Threads, n \in Mutexes : D(u, n) = IF owner'[n] = u THEN depth'[n] ELSE 0
        <2> SUFFICES ASSUME NEW u \in Threads, NEW n \in Mutexes
                     PROVE  D(u, n) = IF owner'[n] = u THEN depth'[n] ELSE 0
            OBVIOUS
        <2>1. CASE n # m
            <3>1. owner'[n] = owner[n] /\ depth'[n] = depth[n]
                BY <1>2, <1>4, <2>1 DEF Lock, Unlock
            <3> QED BY <1>1, <2>1, <3>1
        <2>2. CASE n = m
            <3>1. CASE Available(t, m) /\ Lock(t, m) /\ D(t, m) = C(t, m) + 1
                <4>1. owner'[m] = t /\ depth'[m] = depth[m] + 1 /\ owner[m] \in {t, None}
                    BY <1>2, <3>1 DEF Lock, Available
                <4>2. C(t, m) = depth[m]
                    BY <1>1, <1>2, <1>3, <4>1
                <4> QED BY <1>1, <1>2, <2>2, <3>1, <4>1, <4>2
            <3>2. CASE owner[m] = t /\ depth[m] # 0 /\ Unlock(m) /\ D(t, m) = C(t, m) - 1
                <4>1. depth'[m] = depth[m] - 1 /\ owner'[m] = IF depth[m] = 1 THEN None ELSE t
                    BY <1>2, <3>2 DEF Unlock
                <4>2. C(t, m) = depth[m] /\ depth[m] \in Nat
                    BY <1>1, <1>2, <3>2
                <4>3. CASE u = t
                    BY <1>2, <2>2, <3>2, <4>1, <4>2, <4>3
                <4>4. CASE u # t
                    BY <1>1, <1>2, <2>2, <3>2, <4>1, <4>4
                <4> QED BY <4>3, <4>4
            <3>3. CASE UNCHANGED <<owner, depth>> /\ D(t, m) = C(t, m)
                BY <1>1, <2>2, <3>3
            <3> QED BY <1>4, <3>1, <3>2, <3>3
        <2> QED BY <2>1, <2>2
    <1>6. LocksExact'
        BY <1>5, CountIs DEF LocksExact, D
    <1>7. FreeIsZero'
        <2> SUFFICES ASSUME NEW n \in Mutexes, owner'[n] = None
                     PROVE  depth'[n] = 0
            BY DEF FreeIsZero
        <2>1. CASE n # m
            BY <1>2, <1>3, <1>4, <2>1 DEF Lock, Unlock
        <2>2. CASE n = m
            BY <1>2, <1>3, <1>4, <2>2 DEF Lock, Unlock
        <2> QED BY <2>1, <2>2
    <1> QED BY <1>6, <1>7

--------------------------------------------------------------------------------
(* Cancellation scopes.                                                         *)

\* The token in force depends on the natives alone ...
LEMMA InForceSame ==
    ASSUME NEW s, NEW l, NEW n \in Nat, \A i \in 1..n : l[i] = s[i], NEW x, InForce(s, n, x)
    PROVE  InForce(l, n, x)
    <1>1. \A i \in 1..n : \A j \in (i + 1)..n : j \in 1..n
        OBVIOUS
    <1> QED BY <1>1 DEF InForce

\* ... and not on those that are no scopes; a new scope puts its own in force.
LEMMA InForceOneMore ==
    ASSUME NEW s, NEW n \in Nat, NEW x
    PROVE  /\ ~IsScope(s[n + 1]) => (InForce(s, n, x) <=> InForce(s, n + 1, x))
           /\ IsScope(s[n + 1]) => InForce(s, n + 1, s[n + 1].token)
    <1>1. \A i \in 1..(n + 1) : i \in 1..n \/ i = n + 1
        OBVIOUS
    <1>2. 1..n \subseteq 1..(n + 1) /\ n + 1 \in 1..(n + 1)
        OBVIOUS
    <1>3. ASSUME ~IsScope(s[n + 1])
          PROVE  \A i \in 1..n : (\A j \in (i + 1)..n : ~IsScope(s[j])) <=> \A j \in (i + 1)..(n + 1) : ~IsScope(s[j])
        <2> SUFFICES ASSUME NEW i \in 1..n
                     PROVE  (\A j \in (i + 1)..n : ~IsScope(s[j])) <=> \A j \in (i + 1)..(n + 1) : ~IsScope(s[j])
            OBVIOUS
        <2>1. \A j \in (i + 1)..(n + 1) : j \in (i + 1)..n \/ j = n + 1
            OBVIOUS
        <2>2. (i + 1)..n \subseteq (i + 1)..(n + 1)
            OBVIOUS
        <2> QED BY <1>3, <2>1, <2>2
    <1>4. ASSUME ~IsScope(s[n + 1])
          PROVE  InForce(s, n, x) <=> InForce(s, n + 1, x)
        BY <1>1, <1>2, <1>3, <1>4 DEF InForce
    <1>5. ASSUME IsScope(s[n + 1])
          PROVE  InForce(s, n + 1, s[n + 1].token)
        <2>1. \A i \in 1..n : n + 1 \in (i + 1)..(n + 1)
            OBVIOUS
        <2> QED BY <1>1, <1>2, <1>5, <2>1 DEF InForce
    <1> QED BY <1>4, <1>5

ScopesBalanced == ScopeExact /\ Restores

LEMMA ScopesNow ==
    ASSUME IInv
    PROVE  /\ \A t \in Threads : InForce(stack[t], Len(stack[t]), current[t])
           /\ \A t \in Threads : \A i \in 1..Len(stack[t]) :
                 IsScope(stack[t][i]) => InForce(stack[t], i - 1, stack[t][i].prev)
           /\ \A t \in Threads : Len(stack[t]) \in Nat /\ DOMAIN stack[t] = 1..Len(stack[t])
           /\ DOMAIN current = Threads
    <1>1. \A t \in Threads : Len(stack[t]) \in Nat /\ DOMAIN stack[t] = 1..Len(stack[t])
        BY TypesNow, LenProperties DEF StackShape
    <1> QED BY <1>1, TypesNow DEF IInv, ScopesExact, ScopeExact, Restores, Types

\* What is to show of a step of one thread.
LEMMA ScopesOfOne ==
    ASSUME IInv, StackShape', NEW t \in Threads,
           \A u \in Threads : u # t => stack'[u] = stack[u] /\ current'[u] = current[u],
           InForce(stack'[t], Len(stack'[t]), current'[t]),
           \A i \in 1..Len(stack'[t]) :
              IsScope(stack'[t][i]) => InForce(stack'[t], i - 1, stack'[t][i].prev)
    PROVE  ScopesBalanced'
    <1>1. \A u \in Threads : DOMAIN stack'[u] = 1..Len(stack'[u])
        BY LenProperties DEF StackShape
    <1>2. \A u \in Threads : InForce(stack'[u], Len(stack'[u]), current'[u])
        BY ScopesNow
    <1>3. \A u \in Threads : \A i \in DOMAIN stack'[u] :
             IsScope(stack'[u][i]) => InForce(stack'[u], i - 1, stack'[u][i].prev)
        BY <1>1, ScopesNow
    <1>4. ScopeExact'
        BY <1>2 DEF ScopeExact, InForce, IsScope
    <1>5. Restores'
        BY <1>3 DEF Restores, InForce, IsScope
    <1> QED BY <1>4, <1>5 DEF ScopesBalanced

\* The natives below the new one, and what their scopes restore, are as before.
LEMMA RestoresBelow ==
    ASSUME IInv, NEW t \in Threads, NEW l, NEW n \in Nat, n <= Len(stack[t]), \A i \in 1..n : l[i] = stack[t][i]
    PROVE  \A i \in 1..n : IsScope(l[i]) => InForce(l, i - 1, l[i].prev)
    <1> SUFFICES ASSUME NEW i \in 1..n, IsScope(l[i])
                 PROVE  InForce(l, i - 1, l[i].prev)
        OBVIOUS
    <1>1. l[i] = stack[t][i] /\ i \in 1..Len(stack[t]) /\ i - 1 \in Nat
        BY ScopesNow
    <1>2. InForce(stack[t], i - 1, l[i].prev)
        BY <1>1, ScopesNow
    <1>3. \A j \in 1..(i - 1) : l[j] = stack[t][j]
        OBVIOUS
    <1> QED BY <1>1, <1>2, <1>3, InForceSame

LEMMA ScopesPush ==
    ASSUME IInv, NEW t \in Threads, NEW f, Frame(f), Push(t, f),
           \/ ~IsScope(f) /\ current' = current
           \/ IsScope(f) /\ f.prev = current[t] /\ current' = [current EXCEPT ![t] = f.token]
    PROVE  ScopesBalanced'
    <1>1. /\ StackShape' /\ \A u \in Threads : u # t => stack'[u] = stack[u]
          /\ Len(stack[t]) \in Nat /\ Len(stack'[t]) = Len(stack[t]) + 1
          /\ \A i \in 1..Len(stack[t]) : stack'[t][i] = stack[t][i]
          /\ stack'[t][Len(stack[t]) + 1] = f
        BY TypesNow, PushFacts
    <1> DEFINE l == stack'[t]
               n == Len(stack[t])
    <1>2. InForce(l, n, current[t])
        BY <1>1, ScopesNow, InForceSame
    <1>3. \A i \in 1..n : IsScope(l[i]) => InForce(l, i - 1, l[i].prev)
        <2>1. n \in Nat /\ n <= Len(stack[t]) /\ \A i \in 1..n : l[i] = stack[t][i]
            BY <1>1
        <2> HIDE DEF l, n
        <2> QED BY <2>1, RestoresBelow
    <1>4. \A u \in Threads : u # t => current'[u] = current[u]
        BY ScopesNow
    <1>5. n \in Nat /\ Len(l) = n + 1 /\ l[n + 1] = f /\ (n + 1) - 1 = n
        BY <1>1
    <1> HIDE DEF l, n
    <1>6. InForce(l, n + 1, current'[t])
        BY <1>2, <1>5, ScopesNow, InForceOneMore
    <1>7. \A i \in 1..(n + 1) : IsScope(l[i]) => InForce(l, i - 1, l[i].prev)
        <2>1. IsScope(f) => InForce(l, n, f.prev)
            BY <1>2
        <2>2. \A i \in 1..(n + 1) : i \in 1..n \/ i = n + 1
            BY <1>5
        <2> QED BY <1>3, <1>5, <2>1, <2>2
    <1> QED BY <1>1, <1>4, <1>5, <1>6, <1>7, ScopesOfOne DEF l, n

LEMMA ScopesPop ==
    ASSUME IInv, NEW t \in Threads, stack[t] # <<>>, Pop(t),
           \/ ~IsScope(Top(t)) /\ current' = current
           \/ IsScope(Top(t)) /\ current' = [current EXCEPT ![t] = Top(t).prev]
    PROVE  ScopesBalanced'
    <1>1. /\ StackShape' /\ \A u \in Threads : u # t => stack'[u] = stack[u]
          /\ Len(stack[t]) \in Nat \ {0} /\ Len(stack'[t]) = Len(stack[t]) - 1
          /\ \A i \in 1..(Len(stack[t]) - 1) : stack'[t][i] = stack[t][i]
          /\ Top(t) = stack[t][Len(stack[t])]
        BY TypesNow, PopFacts, InnermostFacts
    <1> DEFINE l == stack'[t]
               s == stack[t]
               n == Len(stack[t]) - 1
    <1>2. /\ n \in Nat /\ n <= Len(s) /\ n + 1 = Len(s) /\ Len(l) = n /\ \A i \in 1..n : l[i] = s[i]
          /\ Top(t) = s[n + 1]
        BY <1>1
    <1>3. \A i \in 1..n : IsScope(l[i]) => InForce(l, i - 1, l[i].prev)
        <2>1. n \in Nat /\ n <= Len(stack[t]) /\ \A i \in 1..n : l[i] = stack[t][i]
            BY <1>2
        <2> HIDE DEF l, n
        <2> QED BY <2>1, RestoresBelow
    <1>4. \A u \in Threads : u # t => current'[u] = current[u]
        BY ScopesNow
    <1>5. InForce(s, n + 1, current[t]) /\ (IsScope(s[n + 1]) => InForce(s, n, s[n + 1].prev))
        BY <1>2, ScopesNow
    <1> HIDE DEF l, n, s
    <1>6. InForce(s, n, current'[t])
        BY <1>2, <1>5, ScopesNow, InForceOneMore
    <1>7. InForce(l, n, current'[t])
        BY <1>2, <1>6, InForceSame
    <1> QED BY <1>1, <1>2, <1>3, <1>4, <1>7, ScopesOfOne DEF l, n

LEMMA ScopesReplace ==
    ASSUME IInv, NEW t \in Threads, stack[t] # <<>>, NEW f, Frame(f), ReplaceTop(t, f),
           ~IsScope(Top(t)), ~IsScope(f), current' = current
    PROVE  ScopesBalanced'
    <1>1. /\ StackShape' /\ \A u \in Threads : u # t => stack'[u] = stack[u]
          /\ Len(stack[t]) \in Nat \ {0} /\ Len(stack'[t]) = Len(stack[t])
          /\ \A i \in 1..(Len(stack[t]) - 1) : stack'[t][i] = stack[t][i]
          /\ stack'[t][Len(stack[t])] = f
          /\ Top(t) = stack[t][Len(stack[t])]
        BY TypesNow, ReplaceFacts, InnermostFacts
    <1> DEFINE l == stack'[t]
               s == stack[t]
               n == Len(stack[t]) - 1
    <1>2. /\ n \in Nat /\ n <= Len(s) /\ n + 1 = Len(s) /\ Len(l) = n + 1 /\ \A i \in 1..n : l[i] = s[i]
          /\ Top(t) = s[n + 1] /\ l[n + 1] = f
        BY <1>1
    <1>3. \A i \in 1..n : IsScope(l[i]) => InForce(l, i - 1, l[i].prev)
        <2>1. n \in Nat /\ n <= Len(stack[t]) /\ \A i \in 1..n : l[i] = stack[t][i]
            BY <1>2
        <2> HIDE DEF l, n
        <2> QED BY <2>1, RestoresBelow
    <1>4. InForce(s, n + 1, current[t])
        BY <1>2, ScopesNow
    <1> HIDE DEF l, n, s
    <1>5. InForce(s, n, current[t])
        BY <1>2, <1>4, InForceOneMore
    <1>6. InForce(l, n, current[t])
        BY <1>2, <1>5, InForceSame
    <1>7. InForce(l, n + 1, current[t])
        BY <1>2, <1>6, InForceOneMore
    <1>8. \A i \in 1..(n + 1) : IsScope(l[i]) => InForce(l, i - 1, l[i].prev)
        <2>1. \A i \in 1..(n + 1) : i \in 1..n \/ i = n + 1
            BY <1>2
        <2> QED BY <1>2, <1>3, <2>1
    <1> QED BY <1>1, <1>2, <1>7, <1>8, ScopesOfOne DEF l, n

LEMMA ScopesSame ==
    ASSUME IInv, UNCHANGED <<stack, current>>
    PROVE  ScopesBalanced'
    BY DEF IInv, ScopesExact, ScopeExact, Restores, ScopesBalanced

--------------------------------------------------------------------------------
(* What the steps do to mutexes and scopes.                                     *)

Owners == owner \in [Mutexes -> Threads \cup {None}] /\ depth \in [Mutexes -> Nat]

StackInv ==
    /\ Owners /\ entries \in [Keys -> Values] /\ current \in [Threads -> Tokens \cup {NoToken}]
    /\ acquired \in [Threads -> Seq(Locks \X Nat)]
    /\ StackShape /\ LocksExact /\ FreeIsZero /\ ScopesBalanced

LEMMA StackInvNow ==
    ASSUME IInv
    PROVE  StackInv
    BY TypesNow, ScopesSame DEF IInv, StackInv, Owners, Types, ListsOK, ScopesExact, ScopesBalanced

\* A step that leaves mutexes and natives alone; a method of a SharedMap that runs
\* no program code is one.
LEMMA ShortStep ==
    ASSUME IInv, UNCHANGED <<stack, lockVars, current>>, entries' \in [Keys -> Values]
    PROVE  StackInv'
    <1>1. StackInv /\ UNCHANGED <<owner, depth, acquired, stack, current>>
        BY StackInvNow DEF lockVars
    <1>2. Owners' /\ FreeIsZero' /\ acquired' \in [Threads -> Seq(Locks \X Nat)]
        BY <1>1 DEF StackInv, Owners, FreeIsZero
    <1>3. StackShape'
        BY <1>1 DEF StackInv, StackShape
    <1>4. LocksExact'
        <2>1. \A t, m : TimesLocked(t, m)' = TimesLocked(t, m)
            BY <1>1 DEF TimesLocked
        <2> QED BY <1>1, <2>1 DEF StackInv, LocksExact
    <1>5. ScopesBalanced'
        BY <1>1, ScopesSame
    <1> QED BY <1>1, <1>2, <1>3, <1>4, <1>5 DEF StackInv

LEMMA IdleStep ==
    ASSUME IInv, UNCHANGED <<stack, lockVars, entries, current>>
    PROVE  StackInv'
    BY ShortStep, TypesNow DEF Types

\* A native begins its callback.
LEMMA PushStep ==
    ASSUME IInv, NEW t \in Threads, NEW f, Frame(f), Push(t, f), acquired' = acquired,
           entries' = entries,
           NEW m \in Mutexes, \A n \in Mutexes : LocksIt(f, n) => n = m,
           \/ LocksIt(f, m) /\ Available(t, m) /\ Lock(t, m)
           \/ ~LocksIt(f, m) /\ UNCHANGED <<owner, depth>>,
           \/ ~IsScope(f) /\ current' = current
           \/ IsScope(f) /\ f.prev = current[t] /\ current' = [current EXCEPT ![t] = f.token]
    PROVE  StackInv'
    <1>1. /\ StackShape' /\ \A u \in Threads : u # t => stack'[u] = stack[u]
          /\ Len(stack[t]) \in Nat /\ Len(stack'[t]) = Len(stack[t]) + 1
          /\ \A i \in 1..Len(stack[t]) : stack'[t][i] = stack[t][i]
          /\ stack'[t][Len(stack[t]) + 1] = f
        BY TypesNow, PushFacts
    <1>2. ScopesBalanced'
        BY ScopesPush
    <1>3. \A n \in Mutexes :
             Cardinality(FramesOn(stack'[t], n)) = Cardinality(FramesOn(stack[t], n)) + (IF LocksIt(f, n) THEN 1 ELSE 0)
        BY <1>1, FramesOneMore
    <1>4. \A n \in Mutexes : /\ Cardinality(FramesOn(stack[t], n)) \in Nat
                             /\ Cardinality(TakenBy(acquired[t], n)) \in Nat
        BY <1>1, OwnerFacts, CountsFinite
    <1>5. \A n \in Mutexes : Count(stack'[t], acquired'[t], n)
                                = Count(stack[t], acquired[t], n) + (IF LocksIt(f, n) THEN 1 ELSE 0)
        BY <1>3, <1>4 DEF Count
    <1>6. \A n \in Mutexes : Count(stack[t], acquired[t], n) \in Nat
        BY <1>4 DEF Count
    <1>7. LocksExact' /\ FreeIsZero'
        <2>1. \A u \in Threads : u # t => stack'[u] = stack[u] /\ acquired'[u] = acquired[u]
            BY <1>1
        <2>2. \A n \in Mutexes : n # m =>
                 Count(stack'[t], acquired'[t], n) = Count(stack[t], acquired[t], n)
            BY <1>5, <1>6
        <2>3. \/ /\ Available(t, m) /\ Lock(t, m)
                 /\ Count(stack'[t], acquired'[t], m) = Count(stack[t], acquired[t], m) + 1
              \/ /\ UNCHANGED <<owner, depth>>
                 /\ Count(stack'[t], acquired'[t], m) = Count(stack[t], acquired[t], m)
            BY <1>5, <1>6
        <2> QED BY <2>1, <2>2, <2>3, LocksBalance
    <1>8. Owners'
        BY LockTypes, TypesNow DEF Owners, Types
    <1>9. entries' \in [Keys -> Values] /\ acquired' \in [Threads -> Seq(Locks \X Nat)]
        BY TypesNow DEF Types, ListsOK
    <1>10. current' \in [Threads -> Tokens \cup {NoToken}]
        BY TypesNow DEF Types, IsScope, Frame
    <1> QED BY <1>1, <1>2, <1>7, <1>8, <1>9, <1>10 DEF StackInv

\* The callback of a native ends.
LEMMA PopStep ==
    ASSUME IInv, NEW t \in Threads, stack[t] # <<>>, Pop(t), acquired' = acquired,
           entries' \in [Keys -> Values],
           NEW m \in Mutexes, \A n \in Mutexes : LocksIt(Top(t), n) => n = m,
           \/ LocksIt(Top(t), m) /\ Unlock(m)
           \/ ~LocksIt(Top(t), m) /\ UNCHANGED <<owner, depth>>,
           \/ ~IsScope(Top(t)) /\ current' = current
           \/ IsScope(Top(t)) /\ current' = [current EXCEPT ![t] = Top(t).prev]
    PROVE  StackInv'
    <1> DEFINE f == Top(t)
    <1>1. /\ StackShape' /\ \A u \in Threads : u # t => stack'[u] = stack[u]
          /\ Len(stack[t]) \in Nat \ {0} /\ Len(stack'[t]) = Len(stack[t]) - 1
          /\ \A i \in 1..(Len(stack[t]) - 1) : stack'[t][i] = stack[t][i]
          /\ stack[t][Len(stack[t])] = f /\ Frame(f)
        BY TypesNow, PopFacts, InnermostFacts
    <1>2. ScopesBalanced'
        BY ScopesPop
    <1> HIDE DEF f
    <1>3. \A n \in Mutexes :
             Cardinality(FramesOn(stack[t], n)) = Cardinality(FramesOn(stack'[t], n)) + (IF LocksIt(f, n) THEN 1 ELSE 0)
        <2>1. /\ Len(stack'[t]) \in Nat /\ Len(stack[t]) = Len(stack'[t]) + 1
              /\ \A i \in 1..Len(stack'[t]) : stack[t][i] = stack'[t][i]
            BY <1>1
        <2> QED BY <1>1, <2>1, FramesOneMore
    <1>4. \A n \in Mutexes : /\ Cardinality(FramesOn(stack'[t], n)) \in Nat
                             /\ Cardinality(TakenBy(acquired[t], n)) \in Nat
        <2>1. Len(stack'[t]) \in Nat /\ Len(acquired[t]) \in Nat
            BY <1>1, OwnerFacts
        <2> QED BY <2>1, CountsFinite
    <1>5. \A n \in Mutexes : Count(stack'[t], acquired'[t], n)
                                = Count(stack[t], acquired[t], n) - (IF LocksIt(f, n) THEN 1 ELSE 0)
        BY <1>3, <1>4 DEF Count
    <1>6. \A n \in Mutexes : Count(stack[t], acquired[t], n) \in Nat
        BY <1>3, <1>4 DEF Count
    <1>7. LocksIt(f, m) => owner[m] = t /\ depth[m] # 0
        <2>1. Len(stack[t]) \in 1..Len(stack[t])
            BY <1>1
        <2> QED BY <1>1, <2>1, OwnerFacts
    <1>8. LocksExact' /\ FreeIsZero'
        <2>1. \A u \in Threads : u # t => stack'[u] = stack[u] /\ acquired'[u] = acquired[u]
            BY <1>1
        <2>2. \A n \in Mutexes : n # m =>
                 Count(stack'[t], acquired'[t], n) = Count(stack[t], acquired[t], n)
            BY <1>5, <1>6 DEF f
        <2>3. \/ /\ owner[m] = t /\ depth[m] # 0 /\ Unlock(m)
                 /\ Count(stack'[t], acquired'[t], m) = Count(stack[t], acquired[t], m) - 1
              \/ /\ UNCHANGED <<owner, depth>>
                 /\ Count(stack'[t], acquired'[t], m) = Count(stack[t], acquired[t], m)
            BY <1>5, <1>6, <1>7 DEF f
        <2> QED BY <2>1, <2>2, <2>3, LocksBalance
    <1>9. Owners'
        BY <1>7, LockTypes, TypesNow DEF Owners, Types, f
    <1>10. acquired' \in [Threads -> Seq(Locks \X Nat)]
        BY TypesNow DEF ListsOK
    <1>11. current' \in [Threads -> Tokens \cup {NoToken}]
        BY <1>1, TypesNow DEF Types, IsScope, Frame, f
    <1> QED BY <1>1, <1>2, <1>8, <1>9, <1>10, <1>11 DEF StackInv

\* drainPosted and sys.checkSignals go on to their next call.
LEMMA ReplaceStep ==
    ASSUME IInv, NEW t \in Threads, stack[t] # <<>>, NEW f, Frame(f), ReplaceTop(t, f),
           UNCHANGED <<lockVars, entries, current>>,
           f.kind \in {"posted", "signals"}, Top(t).kind \in {"posted", "signals"}
    PROVE  StackInv'
    <1>1. /\ StackShape' /\ \A u \in Threads : u # t => stack'[u] = stack[u]
          /\ Len(stack[t]) \in Nat \ {0} /\ Len(stack'[t]) = Len(stack[t])
          /\ \A i \in 1..(Len(stack[t]) - 1) : stack'[t][i] = stack[t][i]
          /\ stack'[t][Len(stack[t])] = f
          /\ Top(t) = stack[t][Len(stack[t])]
        BY TypesNow, ReplaceFacts, InnermostFacts
    <1>2. \A m : ~LocksIt(f, m) /\ ~LocksIt(Top(t), m)
        BY DEF LocksIt
    <1>3. ~IsScope(f) /\ ~IsScope(Top(t))
        BY DEF IsScope
    <1>4. ScopesBalanced'
        BY <1>3, ScopesReplace
    <1>5. \A n \in Mutexes : FramesOn(stack'[t], n) = FramesOn(stack[t], n)
        BY <1>1, <1>2, FramesReplaced
    <1>6. LocksExact' /\ FreeIsZero'
        <2>1. \A u \in Threads : u # t => stack'[u] = stack[u] /\ acquired'[u] = acquired[u]
            BY <1>1 DEF lockVars
        <2>2. \A n \in Mutexes : Count(stack'[t], acquired'[t], n) = Count(stack[t], acquired[t], n)
            BY <1>5 DEF Count, lockVars
        <2>3. UNCHANGED <<owner, depth>> /\ TheMap \in Mutexes
            BY DEF lockVars, Mutexes
        <2> QED BY <2>1, <2>2, <2>3, LocksBalance
    <1> QED BY <1>1, <1>4, <1>6, TypesNow DEF StackInv, Owners, Types, ListsOK, lockVars

LEMMA AcquireStep ==
    ASSUME IInv, NEW t \in Threads, NEW m \in Locks, Available(t, m), Lock(t, m),
           acquired' = [acquired EXCEPT ![t] = Append(@, <<m, Len(stack[t])>>)],
           UNCHANGED <<stack, entries, current>>
    PROVE  StackInv'
    <1> DEFINE e == <<m, Len(stack[t])>>
               a == acquired[t]
    <1>1. a \in Seq(Locks \X Nat) /\ e \in Locks \X Nat /\ m \in Mutexes
        BY TypesNow, OwnerFacts DEF ListsOK, Mutexes
    <1>2. acquired'[t] = Append(a, e) /\ \A u \in Threads : u # t => acquired'[u] = acquired[u]
        BY TypesNow DEF ListsOK
    <1>3. acquired' \in [Threads -> Seq(Locks \X Nat)]
        BY <1>1, AcquiredFacts, TypesNow DEF ListsOK
    <1> HIDE DEF a, e
    <1>4. /\ Len(a) \in Nat /\ Len(acquired'[t]) = Len(a) + 1
          /\ \A i \in 1..Len(a) : acquired'[t][i] = a[i]
          /\ acquired'[t][Len(a) + 1] = e
        <2> DEFINE S == Locks \X Nat
        <2>1. a \in Seq(S) /\ e \in S
            BY <1>1
        <2> HIDE DEF S
        <2>2. Append(a, e)[Len(a) + 1] = e /\ Len(Append(a, e)) = Len(a) + 1 /\ Len(a) \in Nat
            BY <2>1, AppendProperties, LenProperties
        <2>3. \A i \in 1..Len(a) : Append(a, e)[i] = a[i]
            BY <2>1, AppendProperties
        <2> QED BY <1>2, <2>2, <2>3
    <1>5. \A n \in Mutexes :
             Cardinality(TakenBy(acquired'[t], n)) = Cardinality(TakenBy(a, n)) + (IF m = n THEN 1 ELSE 0)
        <2>1. acquired'[t][Len(acquired'[t])][1] = m
            BY <1>4 DEF e
        <2> DEFINE l == acquired'[t]
        <2>2. /\ Len(a) \in Nat /\ Len(l) = Len(a) + 1 /\ \A i \in 1..Len(a) : l[i] = a[i]
              /\ l[Len(l)][1] = m
            BY <1>4, <2>1
        <2> HIDE DEF l
        <2>3. \A n \in Mutexes :
                 Cardinality(TakenBy(l, n)) = Cardinality(TakenBy(a, n)) + (IF l[Len(l)][1] = n THEN 1 ELSE 0)
            BY <2>2, TakenOneMore
        <2> QED BY <2>2, <2>3 DEF l
    <1>6. \A n \in Mutexes : /\ Cardinality(FramesOn(stack[t], n)) \in Nat
                             /\ Cardinality(TakenBy(a, n)) \in Nat
        BY <1>4, OwnerFacts, CountsFinite
    <1>7. \A n \in Mutexes : /\ Count(stack[t], a, n) \in Nat
                             /\ Count(stack'[t], acquired'[t], n) = Count(stack[t], a, n) + (IF m = n THEN 1 ELSE 0)
        BY <1>5, <1>6 DEF Count
    <1>8. LocksExact' /\ FreeIsZero'
        <2>1. \A u \in Threads : u # t => stack'[u] = stack[u] /\ acquired'[u] = acquired[u]
            BY <1>2
        <2>2. \A n \in Mutexes : n # m =>
                 Count(stack'[t], acquired'[t], n) = Count(stack[t], acquired[t], n)
            BY <1>7 DEF a
        <2>3. Count(stack'[t], acquired'[t], m) = Count(stack[t], acquired[t], m) + 1
            BY <1>1, <1>7 DEF a
        <2> QED BY <1>1, <2>1, <2>2, <2>3, LocksBalance
    <1>9. Owners' /\ entries' \in [Keys -> Values] /\ current' \in [Threads -> Tokens \cup {NoToken}]
        BY <1>1, LockTypes, TypesNow DEF Owners, Types
    <1>10. StackShape' /\ ScopesBalanced'
        BY ScopesSame, TypesNow DEF StackShape
    <1> QED BY <1>3, <1>8, <1>9, <1>10 DEF StackInv

LEMMA ReleaseStep ==
    ASSUME IInv, NEW t \in Threads, Release(t)
    PROVE  StackInv'
    <1> DEFINE a == acquired[t]
               m == acquired[t][Len(acquired[t])][1]
    <1>1. a \in Seq(Locks \X Nat) /\ a # <<>>
        BY TypesNow DEF ListsOK, Release
    <1>2. acquired'[t] = SubSeq(a, 1, Len(a) - 1) /\ \A u \in Threads : u # t => acquired'[u] = acquired[u]
        BY TypesNow DEF ListsOK, Release
    <1>3. Unlock(m) /\ UNCHANGED <<stack, entries, current>>
        BY DEF Release
    <1>4. acquired' \in [Threads -> Seq(Locks \X Nat)]
        <2>1. SubSeq(a, 1, Len(a) - 1) \in Seq(Locks \X Nat)
            BY <1>1, AcquiredFacts
        <2> QED BY <2>1, TypesNow DEF ListsOK, Release
    <1>5. Len(a) \in Nat \ {0} /\ a[Len(a)] \in Locks \X Nat
        <2>1. /\ Len(a) \in Nat /\ \A i \in 1..Len(a) : a[i] \in Locks \X Nat
              /\ Len(a) # 0
            BY <1>1, AcquiredFacts
        <2> QED BY <2>1
    <1>6. m \in Mutexes /\ m = a[Len(a)][1]
        BY <1>5 DEF Mutexes
    <1> HIDE DEF a, m
    <1>7. /\ Len(acquired'[t]) = Len(a) - 1
          /\ \A i \in 1..(Len(a) - 1) : acquired'[t][i] = a[i]
        <2> DEFINE S == Locks \X Nat
        <2>3. a \in Seq(S) /\ DOMAIN a = 1..Len(a)
            BY <1>1, AcquiredFacts
        <2> HIDE DEF S
        <2>4. /\ Len(SubSeq(a, 1, Len(a) - 1)) = Len(a) - 1
              /\ \A i \in 1..(Len(a) - 1) : SubSeq(a, 1, Len(a) - 1)[i] = a[i]
            BY <1>5, <2>3
        <2> QED BY <1>2, <2>4
    <1>8. \A n \in Mutexes :
             Cardinality(TakenBy(a, n)) = Cardinality(TakenBy(acquired'[t], n)) + (IF m = n THEN 1 ELSE 0)
        <2>1. /\ Len(acquired'[t]) \in Nat /\ Len(a) = Len(acquired'[t]) + 1
              /\ \A i \in 1..Len(acquired'[t]) : a[i] = acquired'[t][i]
            BY <1>5, <1>7
        <2> QED BY <1>6, <2>1, TakenOneMore
    <1>9. \A n \in Mutexes : /\ Cardinality(FramesOn(stack[t], n)) \in Nat
                             /\ Cardinality(TakenBy(acquired'[t], n)) \in Nat
        <2>1. Len(acquired'[t]) \in Nat /\ Len(stack[t]) \in Nat
            BY <1>5, <1>6, <1>7, OwnerFacts
        <2> QED BY <2>1, CountsFinite
    <1>10. \A n \in Mutexes : /\ Count(stack[t], a, n) \in Nat
                              /\ Count(stack'[t], acquired'[t], n) = Count(stack[t], a, n) - (IF m = n THEN 1 ELSE 0)
        BY <1>3, <1>8, <1>9 DEF Count
    <1>11. owner[m] = t /\ depth[m] # 0
        <2>1. Len(a) \in 1..Len(a) /\ a[Len(a)][1] = m
            BY <1>5, <1>6
        <2> QED BY <1>6, <2>1, OwnerFacts DEF a
    <1>12. LocksExact' /\ FreeIsZero'
        <2>1. \A u \in Threads : u # t => stack'[u] = stack[u] /\ acquired'[u] = acquired[u]
            BY <1>2, <1>3
        <2>2. \A n \in Mutexes : n # m =>
                 Count(stack'[t], acquired'[t], n) = Count(stack[t], acquired[t], n)
            BY <1>10 DEF a
        <2>3. Count(stack'[t], acquired'[t], m) = Count(stack[t], acquired[t], m) - 1
            BY <1>6, <1>10 DEF a
        <2> QED BY <1>3, <1>6, <1>11, <2>1, <2>2, <2>3, LocksBalance
    <1>13. Owners' /\ entries' \in [Keys -> Values] /\ current' \in [Threads -> Tokens \cup {NoToken}]
        BY <1>3, <1>6, <1>11, LockTypes, TypesNow DEF Owners, Types
    <1>14. StackShape' /\ ScopesBalanced'
        BY <1>3, ScopesSame, TypesNow DEF StackShape
    <1> QED BY <1>4, <1>12, <1>13, <1>14 DEF StackInv

\* The operations that take a mutex, at once or after a wait.
LEMMA EffectStep ==
    ASSUME IInv, NEW t \in Threads, NEW op \in Ops, Available(t, op.mutex), Effect(t, op),
           current' = current
    PROVE  StackInv'
    <1>1. CASE /\ op.mutex \in Locks /\ Lock(t, op.mutex)
               /\ acquired' = [acquired EXCEPT ![t] = Append(@, <<op.mutex, Len(stack[t])>>)]
               /\ UNCHANGED <<stack, entries>>
        BY <1>1, AcquireStep
    <1>2. CASE /\ op.mutex \in Locks /\ Lock(t, op.mutex) /\ Push(t, LockFrame(op.mutex))
               /\ UNCHANGED <<acquired, entries>>
        <2> DEFINE f == LockFrame(op.mutex)
                   m == op.mutex
        <2>1. /\ Frame(f) /\ m \in Mutexes /\ (\A n \in Mutexes : LocksIt(f, n) => n = m)
              /\ LocksIt(f, m) /\ ~IsScope(f)
            BY <1>2 DEF LockFrame, Frame, LocksIt, IsScope, Mutexes
        <2> QED BY <1>2, <2>1, PushStep
    <1>3. CASE /\ op.mutex = TheMap /\ op.key \in Keys /\ Lock(t, TheMap) /\ Push(t, UpdateFrame(op.key))
               /\ UNCHANGED <<acquired, entries>>
        <2> DEFINE f == UpdateFrame(op.key)
        <2>1. entries[op.key] \in Values
            BY <1>3, TypesNow DEF Types
        <2>2. /\ Frame(f) /\ TheMap \in Mutexes /\ (\A n \in Mutexes : LocksIt(f, n) => n = TheMap)
              /\ LocksIt(f, TheMap) /\ ~IsScope(f)
            BY <1>3, <2>1 DEF UpdateFrame, Frame, LocksIt, IsScope, Mutexes
        <2> HIDE DEF f
        <2>3. Push(t, f)
            BY <1>3 DEF f
        <2> QED BY <1>3, <2>2, <2>3, PushStep
    <1>4. CASE /\ \/ entries' = entries
                  \/ op.key \in Keys /\ entries' = [entries EXCEPT ![op.key] = 0]
                  \/ op.key \in Keys /\ entries' = [entries EXCEPT ![op.key] = Absent]
                  \/ entries' = [k \in Keys |-> Absent]
               /\ UNCHANGED <<stack, owner, depth, acquired>>
        <2>1. 0 \in Values /\ Absent \in Values
            BY EngineAssumption DEF Values
        <2>2. entries' \in [Keys -> Values]
            BY <1>4, <2>1, TypesNow DEF Types
        <2> QED BY <1>4, <2>2, ShortStep DEF lockVars
    <1> QED BY <1>1, <1>2, <1>3, <1>4, EffectCases

LEMMA WithCancelStep ==
    ASSUME IInv, NEW t \in Threads, NEW c \in Tokens, WithCancel(t, c)
    PROVE  StackInv'
    <1> DEFINE f == CancelFrame(t, c)
    <1>1. /\ Push(t, f) /\ acquired' = acquired /\ entries' = entries
          /\ UNCHANGED <<owner, depth>> /\ current' = [current EXCEPT ![t] = c]
        BY DEF WithCancel, lockVars
    <1>2. current[t] \in Tokens \cup {NoToken}
        BY TypesNow DEF Types
    <1>3. /\ Frame(f) /\ IsScope(f) /\ f.prev = current[t] /\ f.token = c
          /\ TheMap \in Mutexes /\ \A n \in Mutexes : ~LocksIt(f, n)
        BY <1>2 DEF CancelFrame, Frame, IsScope, LocksIt, Mutexes
    <1> HIDE DEF f
    <1>4. /\ \A n \in Mutexes : LocksIt(f, n) => n = TheMap
          /\ ~LocksIt(f, TheMap) /\ current' = [current EXCEPT ![t] = f.token]
        BY <1>1, <1>3
    <1> QED BY <1>1, <1>3, <1>4, PushStep

\* Natives that hold no mutex and bind no token.
LEMMA PushOtherStep ==
    ASSUME IInv, NEW t \in Threads, NEW f, Frame(f), f.kind \in {"posted", "signals"}, Push(t, f),
           UNCHANGED <<lockVars, entries, current>>
    PROVE  StackInv'
    <1>1. /\ TheMap \in Mutexes /\ (\A n \in Mutexes : LocksIt(f, n) => n = TheMap)
          /\ ~LocksIt(f, TheMap) /\ ~IsScope(f)
        BY DEF LocksIt, IsScope, Mutexes
    <1>2. UNCHANGED <<owner, depth>> /\ acquired' = acquired /\ entries' = entries /\ current' = current
        BY DEF lockVars
    <1> QED BY <1>1, <1>2, PushStep

LEMMA PopOtherStep ==
    ASSUME IInv, NEW t \in Threads, stack[t] # <<>>, Top(t).kind \in {"posted", "signals"}, Pop(t),
           UNCHANGED <<lockVars, entries, current>>
    PROVE  StackInv'
    <1>1. /\ TheMap \in Mutexes /\ (\A n \in Mutexes : LocksIt(Top(t), n) => n = TheMap)
          /\ ~LocksIt(Top(t), TheMap) /\ ~IsScope(Top(t))
        BY DEF LocksIt, IsScope, Mutexes
    <1>2. /\ UNCHANGED <<owner, depth>> /\ acquired' = acquired /\ current' = current
          /\ entries' \in [Keys -> Values]
        BY TypesNow DEF lockVars, Types
    <1> QED BY <1>1, <1>2, PopStep

\* The calls of a posted batch are numbers.
LEMMA CallsOf ==
    ASSUME IInv, NEW t \in Threads, stack[t] # <<>>, Top(t).kind = "posted"
    PROVE  /\ Top(t).calls \in Seq(Nat)
           /\ Top(t).calls # <<>> => Frame(PostedFrame(Tail(Top(t).calls)))
    <1>1. Top(t).calls \in Seq(Nat)
        BY TypesNow, InnermostFacts DEF Frame
    <1>2. Top(t).calls # <<>> => Tail(Top(t).calls) \in Seq(Nat)
        BY <1>1, CallsFacts
    <1>3. \A calls \in Seq(Nat) : Frame(PostedFrame(calls))
        BY DEF Frame, PostedFrame
    <1> QED BY <1>1, <1>2, <1>3

LEMMA EndStep ==
    ASSUME IInv, NEW t \in Threads, Return(t) \/ Throw(t)
    PROVE  StackInv'
    <1>1. stack[t] # <<>> /\ acquired' = acquired
        BY EndCases DEF MayEnd, UnchangedByEnd
    <1>2. Frame(Top(t)) /\ TheMap \in Mutexes
        BY <1>1, TypesNow, InnermostFacts DEF Mutexes
    <1>3. CASE LeaveLock(t)
        <2> DEFINE m == Top(t).mutex
        <2>1. /\ m \in Mutexes /\ (\A n \in Mutexes : LocksIt(Top(t), n) => n = m)
              /\ LocksIt(Top(t), m) /\ ~IsScope(Top(t))
            BY <1>2, <1>3 DEF LeaveLock, Frame, LocksIt, IsScope, Mutexes
        <2>2. Unlock(m) /\ Pop(t) /\ current' = current /\ entries' \in [Keys -> Values]
            BY <1>3, TypesNow DEF LeaveLock, Types
        <2> HIDE DEF m
        <2> QED BY <1>1, <2>1, <2>2, PopStep
    <1>4. CASE LeaveCancel(t)
        <2>1. /\ (\A n \in Mutexes : LocksIt(Top(t), n) => n = TheMap)
              /\ ~LocksIt(Top(t), TheMap) /\ IsScope(Top(t))
            BY <1>4 DEF LeaveCancel, LocksIt, IsScope
        <2>2. /\ Pop(t) /\ UNCHANGED <<owner, depth>> /\ entries' \in [Keys -> Values]
              /\ current' = [current EXCEPT ![t] = Top(t).prev]
            BY <1>4, TypesNow DEF LeaveCancel, Types
        <2> QED BY <1>1, <1>2, <2>1, <2>2, PopStep
    <1>5. ASSUME NEW stored \in [Keys -> Values], LeaveUpdate(t, stored)
          PROVE  StackInv'
        <2>1. /\ (\A n \in Mutexes : LocksIt(Top(t), n) => n = TheMap)
              /\ LocksIt(Top(t), TheMap) /\ ~IsScope(Top(t))
            BY <1>2, <1>5 DEF LeaveUpdate, Frame, LocksIt, IsScope
        <2>2. Unlock(TheMap) /\ Pop(t) /\ current' = current /\ entries' \in [Keys -> Values]
            BY <1>5 DEF LeaveUpdate
        <2> QED BY <1>1, <1>2, <2>1, <2>2, PopStep
    <1>6. entries \in [Keys -> Values]
        BY TypesNow DEF Types
    <1>7. CASE LeaveUpdate(t, entries)
        BY <1>5, <1>6, <1>7
    <1>8. CASE LeaveUpdate(t, [entries EXCEPT ![Top(t).key] = Incremented(Top(t).seen)])
        <2>1. Top(t).seen \in Values
            BY <1>2, <1>8 DEF LeaveUpdate, Frame
        <2>2. Incremented(Top(t).seen) \in Values
            BY <2>1, EngineAssumption DEF Incremented, Values
        <2>3. [entries EXCEPT ![Top(t).key] = Incremented(Top(t).seen)] \in [Keys -> Values]
            BY <1>6, <2>2
        <2> QED BY <1>5, <1>8, <2>3
    <1>9. CASE Top(t).kind = "posted" /\ NextPosted(t)
        <2>1. UNCHANGED <<lockVars, entries, current>>
            BY <1>1, <1>9 DEF NextPosted, lockVars
        <2>2. CASE Top(t).calls = <<>>
            BY <1>1, <1>9, <2>1, <2>2, PopOtherStep DEF NextPosted
        <2>3. CASE Top(t).calls # <<>>
            <3> DEFINE f == PostedFrame(Tail(Top(t).calls))
            <3>1. ReplaceTop(t, f) /\ Frame(f) /\ f.kind \in {"posted", "signals"}
                BY <1>1, <1>9, <2>3, CallsOf DEF NextPosted, PostedFrame
            <3> HIDE DEF f
            <3> QED BY <1>1, <1>9, <2>1, <3>1, ReplaceStep
        <2> QED BY <2>2, <2>3
    <1>10. CASE /\ Top(t).kind = "signals" /\ UNCHANGED <<owner, depth, entries, current, ran>>
                /\ Pop(t) \/ ReplaceTop(t, SignalFrame(Tail(Top(t).calls)))
        <2>1. UNCHANGED <<lockVars, entries, current>>
            BY <1>1, <1>10 DEF lockVars
        <2> DEFINE f == SignalFrame(Tail(Top(t).calls))
        <2>2. Frame(f) /\ f.kind \in {"posted", "signals"}
            BY SignalFrameOK
        <2>3. Pop(t) \/ ReplaceTop(t, f)
            BY <1>10
        <2> HIDE DEF f
        <2> QED BY <1>1, <1>10, <2>1, <2>2, <2>3, PopOtherStep, ReplaceStep
    <1> QED BY <1>3, <1>4, <1>7, <1>8, <1>9, <1>10, EndCases

LEMMA DrainCases ==
    ASSUME IInv, NEW t \in Threads, DrainPosted(t)
    PROVE  /\ t = Engine /\ UNCHANGED <<lockVars, entries, current, posts>>
           /\ \/ postedQueue = <<>> /\ stack' = stack
              \/ /\ postedQueue # <<>> /\ Push(t, PostedFrame(Tail(postedQueue)))
                 /\ Frame(PostedFrame(Tail(postedQueue)))
    <1>1. postedQueue # <<>> => Tail(postedQueue) \in Seq(Nat)
        BY TypesNow, CallsFacts DEF ListsOK
    <1> QED BY <1>1 DEF DrainPosted, Frame, PostedFrame

LEMMA StackStep ==
    ASSUME IInv, [Next]_vars
    PROVE  StackInv'
    <1>1. ASSUME NEW t \in Threads, (\E op \in Ops : Call(t, op)) \/ Wake(t)
          PROVE  StackInv'
        <2>1. TypeOK /\ current' = current
            BY <1>1, TypesNow, CallCases
        <2>2. CASE UNCHANGED <<stack, lockVars, entries>>
            BY <2>1, <2>2, IdleStep
        <2>3. CASE \E op \in Ops : Available(t, op.mutex) /\ Effect(t, op)
            BY <2>1, <2>3, EffectStep
        <2> QED BY <1>1, <2>1, <2>2, <2>3, CallCases
    <1>2. ASSUME NEW t \in Threads, DrainPosted(t)
          PROVE  StackInv'
        <2>1. CASE stack' = stack
            BY <1>2, <2>1, DrainCases, IdleStep
        <2>2. CASE Push(t, PostedFrame(Tail(postedQueue))) /\ Frame(PostedFrame(Tail(postedQueue)))
            <3>1. PostedFrame(Tail(postedQueue)).kind \in {"posted", "signals"}
                BY DEF PostedFrame
            <3> QED BY <1>2, <2>2, <3>1, DrainCases, PushOtherStep
        <2> QED BY <1>2, <2>1, <2>2, DrainCases
    <1>3. ASSUME NEW t \in Threads,
                 \/ \E s \in Signals : OnSignal(t, s)
                 \/ CheckSignals(t) \/ LoadSigint(t) \/ ClearSigint(t)
          PROVE  StackInv'
        <2>1. UNCHANGED <<lockVars, entries, current>>
            BY <1>3, SignalCases
        <2>2. CASE stack' = stack
            BY <2>1, <2>2, IdleStep
        <2>3. ASSUME NEW calls, Push(t, SignalFrame(calls))
              PROVE  StackInv'
            BY <2>1, <2>3, SignalFrameOK, PushOtherStep
        <2> QED BY <1>3, <2>2, <2>3, SignalCases
    <1>4. CASE EnqueuePosted \/ (\E s \in Signals : Raise(s)) \/ UNCHANGED vars
        BY <1>4, IdleStep DEF EnqueuePosted, Raise, vars
    <1>5. ASSUME NEW t \in Threads, Step(t)
          PROVE  StackInv'
        BY <1>1, <1>2, <1>3, <1>5, ReleaseStep, WithCancelStep, EndStep DEF Step, Ops
    <1> QED BY <1>4, <1>5 DEF Next

--------------------------------------------------------------------------------
(* Posted calls: lists of distinct numbers.                                     *)

LEMMA AppendDistinct ==
    ASSUME NEW s \in Seq(Nat), IsInjective(s), NEW e \in Nat, e \notin ToSet(s)
    PROVE  IsInjective(Append(s, e)) /\ ToSet(Append(s, e)) = ToSet(s) \cup {e}
    <1> DEFINE l == Append(s, e)
               n == Len(s)
    <1>1. /\ n \in Nat /\ DOMAIN s = 1..n /\ DOMAIN l = 1..(n + 1)
          /\ l[n + 1] = e /\ \A i \in 1..n : l[i] = s[i]
        BY AppendProperties, LenProperties
    <1> HIDE DEF l, n
    <1>2. \A i \in 1..(n + 1) : i \in 1..n \/ i = n + 1
        BY <1>1
    <1>3. 1..n \subseteq 1..(n + 1) /\ n + 1 \in 1..(n + 1)
        BY <1>1
    <1>4. ToSet(l) = ToSet(s) \cup {e}
        BY <1>1, <1>2, <1>3 DEF ToSet
    <1>5. IsInjective(l)
        BY <1>1, <1>2 DEF IsInjective, ToSet
    <1> QED BY <1>4, <1>5 DEF l

LEMMA TailCovers ==
    ASSUME NEW s \in Seq(Nat), s # <<>>
    PROVE  ToSet(s) = ToSet(Tail(s)) \cup {Head(s)}
    <1> DEFINE l == Tail(s)
               n == Len(s) - 1
    <1>1. /\ n \in Nat /\ DOMAIN s = 1..(n + 1) /\ DOMAIN l = 1..n
          /\ Head(s) = s[1] /\ \A i \in 1..n : l[i] = s[i + 1]
        BY HeadTailProperties, LenProperties, EmptySeq
    <1> HIDE DEF l, n
    <1>2. ASSUME NEW i \in DOMAIN s
          PROVE  s[i] \in ToSet(l) \cup {Head(s)}
        <2>1. CASE i = 1
            BY <1>1, <2>1
        <2>2. CASE i - 1 \in 1..n /\ i = (i - 1) + 1
            <3>1. l[i - 1] = s[i]
                BY <1>1, <2>2
            <3> QED BY <1>1, <2>2, <3>1 DEF ToSet
        <2> QED BY <1>1, <2>1, <2>2
    <1>3. \A i \in DOMAIN l : i + 1 \in DOMAIN s /\ l[i] = s[i + 1]
        BY <1>1
    <1>4. 1 \in DOMAIN s /\ Head(s) = s[1]
        BY <1>1
    <1> QED BY <1>2, <1>3, <1>4 DEF ToSet, l

LEMMA TailDistinct ==
    ASSUME NEW s \in Seq(Nat), IsInjective(s), s # <<>>
    PROVE  /\ IsInjective(Tail(s)) /\ Head(s) \notin ToSet(Tail(s)) /\ Head(s) \in Nat
           /\ ToSet(s) = ToSet(Tail(s)) \cup {Head(s)}
    <1> DEFINE l == Tail(s)
               n == Len(s) - 1
    <1>1. /\ n \in Nat /\ DOMAIN s = 1..(n + 1) /\ DOMAIN l = 1..n
          /\ Head(s) = s[1] /\ Head(s) \in Nat /\ \A i \in 1..n : l[i] = s[i + 1]
        BY HeadTailProperties, LenProperties, EmptySeq
    <1> HIDE DEF l, n
    <1>2. \A i \in 1..n : i + 1 \in 1..(n + 1) /\ i + 1 # 1
        BY <1>1
    <1>4. 1 \in 1..(n + 1)
        BY <1>1
    <1>5. IsInjective(l)
        <2> SUFFICES ASSUME NEW i \in 1..n, NEW j \in 1..n, l[i] = l[j]
                     PROVE  i = j
            BY <1>1 DEF IsInjective
        <2>1. i + 1 = j + 1
            BY <1>1, <1>2 DEF IsInjective
        <2> QED BY <2>1
    <1>6. Head(s) \notin ToSet(l)
        <2> SUFFICES ASSUME NEW i \in 1..n, l[i] = Head(s)
                     PROVE  FALSE
            BY <1>1 DEF ToSet
        <2>1. i + 1 \in DOMAIN s /\ 1 \in DOMAIN s /\ s[i + 1] = s[1] /\ i + 1 # 1
            BY <1>1, <1>2, <1>4
        <2> QED BY <2>1 DEF IsInjective
    <1>7. ToSet(s) = ToSet(l) \cup {Head(s)}
        BY TailCovers DEF l
    <1> QED BY <1>1, <1>5, <1>6, <1>7 DEF l

LEMMA NoneIn == ToSet(<<>>) = {} /\ IsInjective(<<>>)
    BY EmptySeq DEF ToSet, IsInjective

\* PostedOnce of a list of calls that ran, the queue, and the batches b that are
\* being run.
Placed(r, q, b, n) ==
    /\ IsInjective(r) /\ IsInjective(q)
    /\ ToSet(r) \cap ToSet(q) = {}
    /\ \A i \in DOMAIN b :
          /\ IsInjective(b[i])
          /\ ToSet(b[i]) \cap (ToSet(r) \cup ToSet(q)) = {}
          /\ \A j \in DOMAIN b \ {i} : ToSet(b[i]) \cap ToSet(b[j]) = {}
    /\ 1..n = ToSet(r) \cup ToSet(q) \cup UNION {ToSet(b[i]) : i \in DOMAIN b}

LEMMA PlacedQueued ==
    ASSUME NEW r, NEW q \in Seq(Nat), NEW b, NEW n \in Nat, Placed(r, q, b, n)
    PROVE  Placed(r, Append(q, n + 1), b, n + 1)
    <1>1. n + 1 \notin 1..n /\ 1..(n + 1) = (1..n) \cup {n + 1}
        OBVIOUS
    <1>2. /\ n + 1 \notin ToSet(r) /\ n + 1 \notin ToSet(q)
          /\ \A i \in DOMAIN b : n + 1 \notin ToSet(b[i])
        BY <1>1 DEF Placed
    <1>3. IsInjective(Append(q, n + 1)) /\ ToSet(Append(q, n + 1)) = ToSet(q) \cup {n + 1}
        BY <1>2, AppendDistinct DEF Placed
    <1> QED BY <1>1, <1>2, <1>3 DEF Placed

LEMMA PlacedTaken ==
    ASSUME NEW r \in Seq(Nat), NEW q \in Seq(Nat), NEW b, NEW n, Placed(r, q, b, n), q # <<>>,
           NEW c, NEW k, k \notin DOMAIN b, DOMAIN c = DOMAIN b \cup {k},
           \A i \in DOMAIN b : c[i] = b[i], c[k] = Tail(q)
    PROVE  Placed(Append(r, Head(q)), <<>>, c, n)
    <1> DEFINE h == Head(q)
               u == Tail(q)
               a == Append(r, h)
    <1>1. /\ IsInjective(u) /\ h \notin ToSet(u) /\ h \in Nat /\ ToSet(q) = ToSet(u) \cup {h}
        BY TailDistinct DEF Placed
    <1> HIDE DEF h, u, a
    <1>2. h \notin ToSet(r)
        BY <1>1 DEF Placed
    <1>3. IsInjective(a) /\ ToSet(a) = ToSet(r) \cup {h}
        BY <1>1, <1>2, AppendDistinct DEF Placed, a
    <1>4. c[k] = u
        BY DEF u
    <1>5. \A i \in DOMAIN c :
             /\ IsInjective(c[i])
             /\ ToSet(c[i]) \cap (ToSet(a) \cup {}) = {}
             /\ \A j \in DOMAIN c \ {i} : ToSet(c[i]) \cap ToSet(c[j]) = {}
        BY <1>1, <1>2, <1>3, <1>4 DEF Placed
    <1>6. UNION {ToSet(c[i]) : i \in DOMAIN c} = ToSet(u) \cup UNION {ToSet(b[i]) : i \in DOMAIN b}
        BY <1>4
    <1>7. 1..n = ToSet(a) \cup {} \cup UNION {ToSet(c[i]) : i \in DOMAIN c}
        BY <1>1, <1>3, <1>6 DEF Placed
    <1> QED BY <1>3, <1>5, <1>7, NoneIn DEF Placed, a, h

LEMMA PlacedNext ==
    ASSUME NEW r \in Seq(Nat), NEW q, NEW b, NEW n, Placed(r, q, b, n),
           NEW c, NEW k \in DOMAIN b, b[k] \in Seq(Nat), b[k] # <<>>, DOMAIN c = DOMAIN b,
           \A i \in DOMAIN b \ {k} : c[i] = b[i], c[k] = Tail(b[k])
    PROVE  Placed(Append(r, Head(b[k])), q, c, n)
    <1> DEFINE h == Head(b[k])
               u == Tail(b[k])
               a == Append(r, h)
    <1>1. /\ IsInjective(u) /\ h \notin ToSet(u) /\ h \in Nat /\ ToSet(b[k]) = ToSet(u) \cup {h}
        BY TailDistinct DEF Placed
    <1> HIDE DEF h, u, a
    <1>2. /\ h \notin ToSet(r) /\ h \notin ToSet(q)
          /\ \A i \in DOMAIN b \ {k} : h \notin ToSet(b[i])
        BY <1>1 DEF Placed
    <1>3. IsInjective(a) /\ ToSet(a) = ToSet(r) \cup {h}
        BY <1>1, <1>2, AppendDistinct DEF Placed, a
    <1>4. c[k] = u
        BY DEF u
    <1>5. \A i \in DOMAIN c :
             /\ IsInjective(c[i])
             /\ ToSet(c[i]) \cap (ToSet(a) \cup ToSet(q)) = {}
             /\ \A j \in DOMAIN c \ {i} : ToSet(c[i]) \cap ToSet(c[j]) = {}
        <2>1. \A i \in DOMAIN b : /\ IsInjective(c[i]) /\ ToSet(c[i]) \subseteq ToSet(b[i])
                                 /\ h \notin ToSet(c[i])
            <3>1. ASSUME NEW i \in DOMAIN b, i # k
                  PROVE  /\ IsInjective(c[i]) /\ ToSet(c[i]) \subseteq ToSet(b[i])
                         /\ h \notin ToSet(c[i])
                BY <1>2, <3>1 DEF Placed
            <3>2. /\ IsInjective(c[k]) /\ ToSet(c[k]) \subseteq ToSet(b[k])
                  /\ h \notin ToSet(c[k])
                BY <1>1, <1>4
            <3> QED BY <3>1, <3>2
        <2>2. \A i \in DOMAIN b :
                 /\ ToSet(b[i]) \cap (ToSet(r) \cup ToSet(q)) = {}
                 /\ \A j \in DOMAIN b \ {i} : ToSet(b[i]) \cap ToSet(b[j]) = {}
            BY DEF Placed
        <2> QED BY <1>3, <2>1, <2>2
    <1>6. UNION {ToSet(b[i]) : i \in DOMAIN b} = {h} \cup UNION {ToSet(c[i]) : i \in DOMAIN c}
        <2>1. ASSUME NEW x
              PROVE  (\E i \in DOMAIN b : x \in ToSet(b[i])) <=> (x = h \/ \E i \in DOMAIN c : x \in ToSet(c[i]))
            <3>1. \A i \in DOMAIN b : i = k \/ ToSet(c[i]) = ToSet(b[i])
                OBVIOUS
            <3>2. x \in ToSet(b[k]) <=> x = h \/ x \in ToSet(c[k])
                BY <1>1, <1>4
            <3> QED BY <3>1, <3>2
        <2> QED BY <2>1
    <1>7. 1..n = ToSet(a) \cup ToSet(q) \cup UNION {ToSet(c[i]) : i \in DOMAIN c}
        BY <1>3, <1>6 DEF Placed
    <1>8. ToSet(a) \cap ToSet(q) = {}
        BY <1>2, <1>3 DEF Placed
    <1> QED BY <1>3, <1>5, <1>7, <1>8 DEF Placed, a, h

LEMMA PlacedDone ==
    ASSUME NEW r, NEW q, NEW b, NEW n, Placed(r, q, b, n),
           NEW c, NEW k \in DOMAIN b, b[k] = <<>>, DOMAIN c = DOMAIN b \ {k},
           \A i \in DOMAIN c : c[i] = b[i]
    PROVE  Placed(r, q, c, n)
    <1>1. UNION {ToSet(c[i]) : i \in DOMAIN c} = UNION {ToSet(b[i]) : i \in DOMAIN b}
        BY NoneIn
    <1> QED BY <1>1 DEF Placed

--------------------------------------------------------------------------------
(* The batches that are being run.                                              *)

InBatch == [i \in Batches |-> stack[Engine][i].calls]

LEMMA PlacedIs ==
    /\ PostedOnce <=> Placed(ran, postedQueue, InBatch, posts)
    /\ PostedOnce' <=> Placed(ran', postedQueue', InBatch', posts')
    BY DEF PostedOnce, Placed, InBatch, Batch

LEMMA BatchesPush ==
    ASSUME IInv, NEW t \in Threads, NEW f, Frame(f), Push(t, f)
    PROVE  /\ t # Engine \/ f.kind # "posted" => InBatch' = InBatch
           /\ t = Engine /\ f.kind = "posted" =>
                 \E k : /\ k \notin DOMAIN InBatch /\ DOMAIN InBatch' = DOMAIN InBatch \cup {k}
                       /\ InBatch'[k] = f.calls
                       /\ \A i \in DOMAIN InBatch : InBatch'[i] = InBatch[i]
           /\ t = Engine \/ f.kind # "posted" => PostedHere'
    <1>1. /\ \A u \in Threads : u # t => stack'[u] = stack[u]
          /\ Len(stack[t]) \in Nat
          /\ DOMAIN stack[t] = 1..Len(stack[t]) /\ DOMAIN stack'[t] = 1..(Len(stack[t]) + 1)
          /\ \A i \in 1..Len(stack[t]) : stack'[t][i] = stack[t][i]
          /\ stack'[t][Len(stack[t]) + 1] = f
        BY TypesNow, PushFacts
    <1> DEFINE k == Len(stack[t]) + 1
    <1>2. /\ k \notin DOMAIN stack[t] /\ DOMAIN stack'[t] = DOMAIN stack[t] \cup {k}
          /\ \A i \in DOMAIN stack[t] : stack'[t][i] = stack[t][i]
          /\ stack'[t][k] = f
        BY <1>1
    <1> HIDE DEF k
    <1>3. Engine \in Threads
        BY EngineAssumption
    <1>4. CASE t # Engine
        <2>1. InBatch' = InBatch
            BY <1>1, <1>3, <1>4 DEF InBatch, Batches
        <2>2. f.kind # "posted" => PostedHere'
            BY <1>1, <1>2 DEF IInv, PostedHere
        <2> QED BY <1>4, <2>1, <2>2
    <1>5. CASE t = Engine
        <2>1. f.kind # "posted" => Batches' = Batches
            BY <1>2, <1>5 DEF Batches
        <2>2. \A i \in Batches : stack'[Engine][i] = stack[Engine][i]
            BY <1>2, <1>5 DEF Batches
        <2>3. f.kind # "posted" => InBatch' = InBatch
            BY <2>1, <2>2 DEF InBatch
        <2>4. f.kind = "posted" => Batches' = Batches \cup {k}
            BY <1>2, <1>5 DEF Batches
        <2>5. k \notin Batches /\ stack'[Engine][k] = f
            BY <1>2, <1>5 DEF Batches
        <2>6. f.kind = "posted" =>
                 /\ k \notin DOMAIN InBatch /\ DOMAIN InBatch' = DOMAIN InBatch \cup {k}
                 /\ InBatch'[k] = f.calls
                 /\ \A i \in DOMAIN InBatch : InBatch'[i] = InBatch[i]
            BY <2>2, <2>4, <2>5 DEF InBatch
        <2>7. PostedHere'
            BY <1>1, <1>5 DEF IInv, PostedHere
        <2> QED BY <1>5, <2>3, <2>6, <2>7
    <1> QED BY <1>4, <1>5

LEMMA BatchesPop ==
    ASSUME IInv, NEW t \in Threads, stack[t] # <<>>, Pop(t)
    PROVE  /\ Top(t).kind # "posted" => InBatch' = InBatch
           /\ Top(t).kind = "posted" =>
                 /\ t = Engine
                 /\ \E k \in DOMAIN InBatch :
                       /\ InBatch[k] = Top(t).calls /\ DOMAIN InBatch' = DOMAIN InBatch \ {k}
                       /\ \A i \in DOMAIN InBatch' : InBatch'[i] = InBatch[i]
           /\ PostedHere'
    <1>1. /\ \A u \in Threads : u # t => stack'[u] = stack[u]
          /\ Len(stack[t]) \in Nat \ {0}
          /\ DOMAIN stack[t] = 1..Len(stack[t]) /\ DOMAIN stack'[t] = 1..(Len(stack[t]) - 1)
          /\ \A i \in 1..(Len(stack[t]) - 1) : stack'[t][i] = stack[t][i]
          /\ Top(t) = stack[t][Len(stack[t])]
        BY TypesNow, PopFacts, InnermostFacts
    <1> DEFINE k == Len(stack[t])
    <1>2. /\ k \in DOMAIN stack[t] /\ DOMAIN stack'[t] = DOMAIN stack[t] \ {k}
          /\ \A i \in DOMAIN stack'[t] : stack'[t][i] = stack[t][i]
          /\ stack[t][k] = Top(t)
        BY <1>1
    <1> HIDE DEF k
    <1>3. Engine \in Threads
        BY EngineAssumption
    <1>4. PostedHere'
        BY <1>1, <1>2 DEF IInv, PostedHere
    <1>5. CASE t # Engine
        <2>1. InBatch' = InBatch
            BY <1>1, <1>3, <1>5 DEF InBatch, Batches
        <2>2. Top(t).kind # "posted"
            BY <1>2, <1>5 DEF IInv, PostedHere
        <2> QED BY <1>4, <2>1, <2>2
    <1>6. CASE t = Engine
        <2>1. \A i \in Batches' : stack'[Engine][i] = stack[Engine][i]
            BY <1>2, <1>6 DEF Batches
        <2>2. Top(t).kind # "posted" => Batches' = Batches
            BY <1>2, <1>6 DEF Batches
        <2>3. Top(t).kind = "posted" => k \in Batches /\ Batches' = Batches \ {k}
            BY <1>2, <1>6 DEF Batches
        <2>4. Top(t).kind # "posted" => InBatch' = InBatch
            BY <2>1, <2>2 DEF InBatch
        <2>5. Top(t).kind = "posted" =>
                 /\ k \in DOMAIN InBatch /\ InBatch[k] = Top(t).calls
                 /\ DOMAIN InBatch' = DOMAIN InBatch \ {k}
                 /\ \A i \in DOMAIN InBatch' : InBatch'[i] = InBatch[i]
            BY <1>2, <1>6, <2>1, <2>3 DEF InBatch
        <2> QED BY <1>4, <1>6, <2>4, <2>5
    <1> QED BY <1>5, <1>6

LEMMA BatchesReplace ==
    ASSUME IInv, NEW t \in Threads, stack[t] # <<>>, NEW f, Frame(f), ReplaceTop(t, f),
           f.kind = Top(t).kind
    PROVE  /\ f.kind # "posted" => InBatch' = InBatch
           /\ f.kind = "posted" =>
                 /\ t = Engine /\ DOMAIN InBatch' = DOMAIN InBatch
                 /\ \E k \in DOMAIN InBatch :
                       /\ InBatch[k] = Top(t).calls /\ InBatch'[k] = f.calls
                       /\ \A i \in DOMAIN InBatch \ {k} : InBatch'[i] = InBatch[i]
           /\ PostedHere'
    <1>1. /\ \A u \in Threads : u # t => stack'[u] = stack[u]
          /\ Len(stack[t]) \in Nat \ {0}
          /\ DOMAIN stack[t] = 1..Len(stack[t]) /\ DOMAIN stack'[t] = 1..Len(stack[t])
          /\ \A i \in 1..(Len(stack[t]) - 1) : stack'[t][i] = stack[t][i]
          /\ stack'[t][Len(stack[t])] = f
          /\ Top(t) = stack[t][Len(stack[t])]
        BY TypesNow, ReplaceFacts, InnermostFacts
    <1> DEFINE k == Len(stack[t])
    <1>2. /\ k \in DOMAIN stack[t] /\ DOMAIN stack'[t] = DOMAIN stack[t]
          /\ \A i \in DOMAIN stack[t] \ {k} : stack'[t][i] = stack[t][i]
          /\ stack[t][k] = Top(t) /\ stack'[t][k] = f
        BY <1>1
    <1> HIDE DEF k
    <1>3. Engine \in Threads
        BY EngineAssumption
    <1>4. PostedHere'
        BY <1>1, <1>2 DEF IInv, PostedHere
    <1>5. CASE t # Engine
        <2>1. InBatch' = InBatch
            BY <1>1, <1>3, <1>5 DEF InBatch, Batches
        <2>2. Top(t).kind # "posted"
            BY <1>2, <1>5 DEF IInv, PostedHere
        <2> QED BY <1>4, <2>1, <2>2
    <1>6. CASE t = Engine
        <2>1. Batches' = Batches
            BY <1>2, <1>6 DEF Batches
        <2>2. \A i \in Batches \ {k} : stack'[Engine][i] = stack[Engine][i]
            BY <1>2, <1>6 DEF Batches
        <2>3. f.kind # "posted" => InBatch' = InBatch
            <3>1. f.kind # "posted" => k \notin Batches
                BY <1>2, <1>6 DEF Batches
            <3> QED BY <2>1, <2>2, <3>1 DEF InBatch
        <2>4. f.kind = "posted" =>
                 /\ k \in DOMAIN InBatch /\ InBatch[k] = Top(t).calls /\ InBatch'[k] = f.calls
                 /\ DOMAIN InBatch' = DOMAIN InBatch
                 /\ \A i \in DOMAIN InBatch \ {k} : InBatch'[i] = InBatch[i]
            <3>1. f.kind = "posted" => k \in Batches
                BY <1>2, <1>6 DEF Batches
            <3> QED BY <1>2, <1>6, <2>1, <2>2, <3>1 DEF InBatch
        <2> QED BY <1>4, <1>6, <2>3, <2>4
    <1> QED BY <1>5, <1>6

--------------------------------------------------------------------------------
(* Posted calls, step by step.                                                  *)

PostedInv ==
    /\ postedQueue \in Seq(Nat) /\ ran \in Seq(Nat) /\ posts \in Nat
    /\ postedPending \in BOOLEAN
    /\ PostedHere /\ PostedExact

LEMMA PostedNow ==
    ASSUME IInv
    PROVE  PostedInv /\ Placed(ran, postedQueue, InBatch, posts) /\ NoneHidden
    BY TypesNow, PlacedIs DEF IInv, PostedInv, ListsOK, Types, PostedExact

\* Other natives begin and end without touching the batches.
LEMMA PostedKept ==
    ASSUME IInv, UNCHANGED postVars, InBatch' = InBatch, PostedHere'
    PROVE  PostedInv'
    BY PostedNow, PlacedIs DEF PostedInv, PostedExact, NoneHidden, postVars

LEMMA PostedIdle ==
    ASSUME IInv, UNCHANGED <<stack, postVars>>
    PROVE  PostedInv'
    <1>1. InBatch' = InBatch
        BY DEF InBatch, Batches
    <1>2. PostedHere'
        BY PostedNow DEF PostedInv, PostedHere
    <1> QED BY <1>1, <1>2, PostedKept

LEMMA PostedPush ==
    ASSUME IInv, NEW t \in Threads, NEW f, Frame(f), f.kind # "posted", Push(t, f), UNCHANGED postVars
    PROVE  PostedInv'
    BY BatchesPush, PostedKept

LEMMA PostedPop ==
    ASSUME IInv, NEW t \in Threads, stack[t] # <<>>, Top(t).kind # "posted", Pop(t), UNCHANGED postVars
    PROVE  PostedInv'
    BY BatchesPop, PostedKept

LEMMA EnqueueStep ==
    ASSUME IInv, EnqueuePosted
    PROVE  PostedInv'
    <1>1. /\ stack' = stack /\ ran' = ran /\ posts' = posts + 1 /\ postedPending' = TRUE
          /\ postedQueue' = Append(postedQueue, posts + 1)
        BY DEF EnqueuePosted
    <1>2. InBatch' = InBatch /\ PostedHere'
        BY <1>1, PostedNow DEF InBatch, Batches, PostedInv, PostedHere
    <1>3. postedQueue' \in Seq(Nat) /\ ran' \in Seq(Nat) /\ posts' \in Nat
        BY <1>1, PostedNow, CallsFacts DEF PostedInv
    <1>4. Placed(ran', postedQueue', InBatch', posts')
        BY <1>1, <1>2, PostedNow, PlacedQueued DEF PostedInv
    <1> QED BY <1>1, <1>2, <1>3, <1>4, PlacedIs DEF PostedInv, PostedExact, NoneHidden

LEMMA DrainStep ==
    ASSUME IInv, NEW t \in Threads, DrainPosted(t)
    PROVE  PostedInv'
    <1>1. t = Engine /\ postedQueue' = <<>> /\ postedPending' = FALSE /\ posts' = posts
        BY DEF DrainPosted
    <1>2. postedQueue \in Seq(Nat) /\ ran \in Seq(Nat) /\ posts \in Nat
        BY PostedNow DEF PostedInv
    <1>3. NoneHidden' /\ postedQueue' \in Seq(Nat)
        BY <1>1 DEF NoneHidden
    <1>4. CASE postedQueue = <<>>
        <2>1. stack' = stack /\ ran' = ran /\ postedQueue' = postedQueue
            BY <1>1, <1>4 DEF DrainPosted
        <2>2. InBatch' = InBatch /\ PostedHere'
            BY <2>1, PostedNow DEF InBatch, Batches, PostedInv, PostedHere
        <2>3. Placed(ran', postedQueue', InBatch', posts')
            BY <1>1, <2>1, <2>2, PostedNow
        <2> QED BY <1>1, <1>2, <1>3, <2>1, <2>2, <2>3, PlacedIs DEF PostedInv, PostedExact
    <1>5. CASE postedQueue # <<>>
        <2> DEFINE f == PostedFrame(Tail(postedQueue))
        <2>1. /\ Push(t, f) /\ ran' = Append(ran, Head(postedQueue)) /\ Frame(f)
              /\ f.kind = "posted" /\ f.calls = Tail(postedQueue)
            BY <1>5, DrainCases DEF DrainPosted, PostedFrame
        <2> HIDE DEF f
        <2>2. PICK k : /\ k \notin DOMAIN InBatch /\ DOMAIN InBatch' = DOMAIN InBatch \cup {k}
                       /\ InBatch'[k] = Tail(postedQueue)
                       /\ \A i \in DOMAIN InBatch : InBatch'[i] = InBatch[i]
            BY <1>1, <2>1, BatchesPush
        <2>3. Placed(ran', <<>>, InBatch', posts)
            BY <1>2, <1>5, <2>1, <2>2, PostedNow, PlacedTaken
        <2>4. PostedHere'
            BY <1>1, <2>1, BatchesPush
        <2>5. ran' \in Seq(Nat)
            BY <1>2, <1>5, <2>1, CallsFacts
        <2>6. PostedOnce'
            BY <1>1, <2>3, PlacedIs
        <2> QED BY <1>1, <1>2, <1>3, <2>4, <2>5, <2>6 DEF PostedInv, PostedExact
    <1> QED BY <1>4, <1>5

LEMMA NextPostedStep ==
    ASSUME IInv, NEW t \in Threads, stack[t] # <<>>, Top(t).kind = "posted", NextPosted(t),
           UNCHANGED <<postedQueue, postedPending, posts>>
    PROVE  PostedInv'
    <1>1. postedQueue \in Seq(Nat) /\ ran \in Seq(Nat) /\ posts \in Nat
        BY PostedNow DEF PostedInv
    <1>2. NoneHidden' /\ postedPending' \in BOOLEAN
        BY PostedNow DEF NoneHidden, PostedInv
    <1>3. CASE Top(t).calls = <<>>
        <2>1. Pop(t) /\ ran' = ran
            BY <1>3 DEF NextPosted
        <2>2. PICK k \in DOMAIN InBatch :
                 /\ InBatch[k] = <<>> /\ DOMAIN InBatch' = DOMAIN InBatch \ {k}
                 /\ \A i \in DOMAIN InBatch' : InBatch'[i] = InBatch[i]
            BY <1>3, <2>1, BatchesPop
        <2>3. Placed(ran', postedQueue', InBatch', posts')
            BY <2>1, <2>2, PostedNow, PlacedDone
        <2>4. PostedHere'
            BY <2>1, BatchesPop
        <2> QED BY <1>1, <1>2, <2>1, <2>3, <2>4, PlacedIs DEF PostedInv, PostedExact
    <1>4. CASE Top(t).calls # <<>>
        <2> DEFINE f == PostedFrame(Tail(Top(t).calls))
        <2>1. /\ ReplaceTop(t, f) /\ ran' = Append(ran, Head(Top(t).calls))
              /\ f.kind = Top(t).kind /\ f.calls = Tail(Top(t).calls)
            BY <1>4 DEF NextPosted, PostedFrame
        <2>2. Frame(f) /\ Top(t).calls \in Seq(Nat)
            BY <1>4, CallsOf
        <2> HIDE DEF f
        <2>3. DOMAIN InBatch' = DOMAIN InBatch /\ PostedHere'
            BY <2>1, <2>2, BatchesReplace
        <2>4. PICK k \in DOMAIN InBatch :
                 /\ InBatch[k] = Top(t).calls /\ InBatch'[k] = Tail(Top(t).calls)
                 /\ \A i \in DOMAIN InBatch \ {k} : InBatch'[i] = InBatch[i]
            BY <2>1, <2>2, BatchesReplace
        <2>5. Placed(ran', postedQueue', InBatch', posts')
            BY <1>1, <1>4, <2>1, <2>2, <2>3, <2>4, PostedNow, PlacedNext
        <2>6. ran' \in Seq(Nat)
            BY <1>1, <1>4, <2>1, <2>2, CallsFacts
        <2> QED BY <1>1, <1>2, <2>3, <2>5, <2>6, PlacedIs DEF PostedInv, PostedExact
    <1> QED BY <1>3, <1>4

LEMMA PostedStep ==
    ASSUME IInv, [Next]_vars
    PROVE  PostedInv'
    <1>1. ASSUME NEW t \in Threads, (\E op \in Ops : Call(t, op)) \/ Wake(t)
          PROVE  PostedInv'
        <2>1. TypeOK /\ UNCHANGED postVars
            BY <1>1, TypesNow, CallCases
        <2>2. CASE stack' = stack
            BY <2>1, <2>2, PostedIdle
        <2>3. ASSUME NEW op \in Ops, Effect(t, op), stack' # stack
              PROVE  PostedInv'
            <3>1. CASE op.mutex \in Locks /\ Push(t, LockFrame(op.mutex))
                <4>1. Frame(LockFrame(op.mutex)) /\ LockFrame(op.mutex).kind # "posted"
                    BY <3>1 DEF Frame, LockFrame
                <4> QED BY <2>1, <3>1, <4>1, PostedPush
            <3>2. CASE op.key \in Keys /\ Push(t, UpdateFrame(op.key))
                <4>1. entries[op.key] \in Values
                    BY <3>2, TypesNow DEF Types
                <4>2. Frame(UpdateFrame(op.key)) /\ UpdateFrame(op.key).kind # "posted"
                    BY <3>2, <4>1 DEF Frame, UpdateFrame
                <4> QED BY <2>1, <3>2, <4>2, PostedPush
            <3> QED BY <2>3, <3>1, <3>2, EffectCases
        <2> QED BY <1>1, <2>1, <2>2, <2>3, CallCases
    <1>2. ASSUME NEW t \in Threads, NEW c \in Tokens, WithCancel(t, c)
          PROVE  PostedInv'
        <2>1. current[t] \in Tokens \cup {NoToken}
            BY TypesNow DEF Types
        <2>2. Frame(CancelFrame(t, c)) /\ CancelFrame(t, c).kind # "posted"
            BY <2>1 DEF Frame, CancelFrame
        <2>3. Push(t, CancelFrame(t, c)) /\ UNCHANGED postVars
            BY <1>2 DEF WithCancel
        <2> QED BY <2>2, <2>3, PostedPush
    <1>3. ASSUME NEW t \in Threads,
                 \/ \E s \in Signals : OnSignal(t, s)
                 \/ CheckSignals(t) \/ LoadSigint(t) \/ ClearSigint(t)
          PROVE  PostedInv'
        <2>1. UNCHANGED postVars
            BY <1>3, SignalCases
        <2>2. CASE stack' = stack
            BY <2>1, <2>2, PostedIdle
        <2>3. ASSUME NEW calls, Push(t, SignalFrame(calls))
              PROVE  PostedInv'
            <3>1. Frame(SignalFrame(calls)) /\ SignalFrame(calls).kind # "posted"
                BY SignalFrameOK
            <3> QED BY <2>1, <2>3, <3>1, PostedPush
        <2> QED BY <1>3, <2>2, <2>3, SignalCases
    <1>4. ASSUME NEW t \in Threads, Return(t) \/ Throw(t)
          PROVE  PostedInv'
        <2>1. stack[t] # <<>> /\ UNCHANGED <<postedQueue, postedPending, posts>>
            BY <1>4, EndCases DEF MayEnd, UnchangedByEnd
        <2>2. CASE LeaveLock(t) \/ LeaveCancel(t) \/ \E stored : LeaveUpdate(t, stored)
            <3>1. Pop(t) /\ ran' = ran /\ Top(t).kind # "posted"
                BY <2>2 DEF LeaveLock, LeaveCancel, LeaveUpdate
            <3> QED BY <2>1, <3>1, PostedPop DEF postVars
        <2>3. CASE Top(t).kind = "posted" /\ NextPosted(t)
            BY <2>1, <2>3, NextPostedStep
        <2>4. CASE /\ Top(t).kind = "signals" /\ ran' = ran
                   /\ Pop(t) \/ ReplaceTop(t, SignalFrame(Tail(Top(t).calls)))
            <3>1. UNCHANGED postVars /\ Top(t).kind # "posted"
                BY <2>1, <2>4 DEF postVars
            <3>2. CASE Pop(t)
                BY <2>1, <3>1, <3>2, PostedPop
            <3>3. ASSUME NEW calls, ReplaceTop(t, SignalFrame(calls))
                  PROVE  PostedInv'
                <4>1. /\ Frame(SignalFrame(calls)) /\ SignalFrame(calls).kind # "posted"
                      /\ SignalFrame(calls).kind = Top(t).kind
                    BY <2>4, SignalFrameOK
                <4> QED BY <2>1, <3>1, <3>3, <4>1, BatchesReplace, PostedKept
            <3> QED BY <2>4, <3>2, <3>3
        <2> QED BY <1>4, <2>2, <2>3, <2>4, EndCases
    <1>5. ASSUME NEW t \in Threads, Release(t)
          PROVE  PostedInv'
        BY <1>5, PostedIdle DEF Release
    <1>6. CASE (\E s \in Signals : Raise(s)) \/ UNCHANGED vars
        BY <1>6, PostedIdle DEF Raise, vars
    <1>7. ASSUME NEW t \in Threads, Step(t)
          PROVE  PostedInv'
        BY <1>1, <1>2, <1>3, <1>4, <1>5, <1>7, DrainStep DEF Step, Ops
    <1> QED BY <1>6, <1>7, EnqueueStep DEF Next

--------------------------------------------------------------------------------
(* The invariant.                                                               *)

LEMMA WantTypes ==
    ASSUME IInv, [Next]_vars
    PROVE  want' \in [Threads -> Ops \cup {None}]
    <1>1. want \in [Threads -> Ops \cup {None}]
        BY TypesNow DEF Types
    <1>2. ASSUME NEW t \in Threads, (\E op \in Ops : Call(t, op)) \/ Wake(t)
          PROVE  want' \in [Threads -> Ops \cup {None}]
        BY <1>1, <1>2 DEF Call, Wake
    <1>3. ASSUME NEW t \in Threads,
                 \/ Release(t) \/ (\E c \in Tokens : WithCancel(t, c)) \/ DrainPosted(t)
                 \/ Return(t) \/ Throw(t)
          PROVE  want' = want
        BY <1>3 DEF Release, WithCancel, DrainPosted, Return, Throw, UnchangedByEnd
    <1>4. ASSUME NEW t \in Threads,
                 \/ \E s \in Signals : OnSignal(t, s)
                 \/ CheckSignals(t) \/ LoadSigint(t) \/ ClearSigint(t)
          PROVE  want' = want
        BY <1>4, SignalCases
    <1>5. CASE EnqueuePosted \/ (\E s \in Signals : Raise(s)) \/ UNCHANGED vars
        BY <1>1, <1>5 DEF EnqueuePosted, Raise, vars
    <1>6. ASSUME NEW t \in Threads, Step(t)
          PROVE  want' \in [Threads -> Ops \cup {None}]
        BY <1>1, <1>2, <1>3, <1>4, <1>6 DEF Step, Ops
    <1> QED BY <1>5, <1>6 DEF Next

LEMMA InvInit ==
    ASSUME Init
    PROVE  IInv
    <1>1. /\ stack = [t \in Threads |-> <<>>] /\ acquired = [t \in Threads |-> <<>>]
          /\ \A s : Len(<<>>) = 0 /\ DOMAIN <<>> = {} /\ <<>> \in Seq(s)
        BY EmptySeq DEF Init
    <1>2. TypeOK
        BY EngineAssumption DEF Init, TypeOK, Ops
    <1>3. StackShape /\ ListsOK /\ PostedHere
        BY <1>1 DEF Init, StackShape, ListsOK, PostedHere
    <1>4. FreeIsZero /\ Restores
        BY <1>1 DEF Init, FreeIsZero, Restores
    <1>5. LocksExact
        <2> SUFFICES ASSUME NEW m \in Mutexes, NEW t \in Threads
                     PROVE  TimesLocked(t, m) = IF owner[m] = t THEN depth[m] ELSE 0
            BY DEF LocksExact
        <2>1. FramesOn(stack[t], m) = {} /\ TakenBy(acquired[t], m) = {}
            BY <1>1 DEF FramesOn, TakenBy
        <2>2. TimesLocked(t, m) = 0
            BY <2>1, TimesLockedIs, FS_EmptySet
        <2>3. owner[m] = None /\ depth[m] = 0
            BY DEF Init
        <2> QED BY <2>2, <2>3
    <1>6. ScopeExact
        BY <1>1 DEF Init, ScopeExact, InForce
    <1>7. PostedExact
        <2>1. Batches = {} /\ 1..posts = {} /\ ran = <<>> /\ postedQueue = <<>>
            BY <1>1, EngineAssumption DEF Init, Batches
        <2>2. PostedOnce
            BY <2>1, NoneIn DEF PostedOnce
        <2>3. NoneHidden
            BY <2>1 DEF NoneHidden
        <2> QED BY <2>2, <2>3 DEF PostedExact
    <1> QED BY <1>2, <1>3, <1>4, <1>5, <1>6, <1>7 DEF IInv, ScopesExact

LEMMA InvStep ==
    ASSUME IInv, [Next]_vars
    PROVE  IInv'
    <1>1. StackInv' /\ PostedInv' /\ SignalTypes' /\ want' \in [Threads -> Ops \cup {None}]
        BY StackStep, PostedStep, SignalTypesStep, WantTypes
    <1>2. TypeOK'
        BY <1>1 DEF TypeOK, StackInv, Owners, PostedInv, SignalTypes, Values
    <1>3. ListsOK'
        BY <1>1 DEF ListsOK, StackInv, PostedInv
    <1>4. ScopesExact' /\ Restores' /\ FreeIsZero' /\ StackShape'
        BY <1>1 DEF ScopesExact, StackInv, ScopesBalanced
    <1> QED BY <1>1, <1>2, <1>3, <1>4 DEF IInv, PostedInv

\* The inductive invariant holds in every state the threads can reach.
THEOREM Invariant == Spec => []IInv
    <1>1. Init => IInv
        BY InvInit
    <1>2. IInv /\ [Next]_vars => IInv'
        BY InvStep
    <1> QED BY <1>1, <1>2, PTL DEF Spec

\* The variables have their types, whatever threads, posted calls and signals do.
THEOREM TypeCorrect == Spec => []TypeOK
    <1>1. IInv => TypeOK
        BY DEF IInv
    <1> QED BY <1>1, Invariant, PTL

\* Mutexes and cancellation scopes balance: a mutex is held exactly as often as the
\* natives and the acquire() calls in progress took it, and g_currentCancel is the
\* token of the innermost withCancel, on every way out of a callback.
THEOREM ScopesBalance == Spec => []ScopesExact
    <1>1. IInv => ScopesExact
        BY DEF IInv
    <1> QED BY <1>1, Invariant, PTL

\* Every call posted to the engine is queued, taken in one batch, or run, in exactly
\* one of these places, and the flag the dispatch loop reads hides no queued call.
THEOREM PostedCallsKept == Spec => []PostedExact
    <1>1. IInv => PostedExact
        BY DEF IInv
    <1> QED BY <1>1, Invariant, PTL

--------------------------------------------------------------------------------
(* SharedMap implements AtomicMap when no posted call changes the map.          *)

LEMMA UpdatesNow ==
    ASSUME IInv, NEW t \in Threads
    PROVE  /\ DOMAIN stack[t] = 1..Len(stack[t]) /\ Len(stack[t]) \in Nat
           /\ Inside(t, "update") <=> Updates(t) # {}
           /\ Updates(t) # {} => owner[TheMap] = t
    <1>1. DOMAIN stack[t] = 1..Len(stack[t]) /\ Len(stack[t]) \in Nat
        BY TypesNow, LenProperties DEF StackShape
    <1>2. TheMap \in Mutexes
        BY DEF Mutexes
    <1>3. \A i \in Updates(t) : i \in 1..Len(stack[t]) /\ LocksIt(stack[t][i], TheMap)
        BY <1>1 DEF Updates, LocksIt
    <1> QED BY <1>1, <1>2, <1>3, OwnerFacts DEF Inside, Updates

LEMMA AloneInit ==
    ASSUME Init
    PROVE  UpdateAlone
    BY EmptySeq DEF Init, UpdateAlone, Alone, Updates

\* What a step that starts no update, and changes no value, has to keep.
LEMMA AloneKept ==
    ASSUME IInv, UpdateAlone, NEW t \in Threads, entries' = entries,
           \A u \in Threads : u # t => stack'[u] = stack[u] /\ want'[u] = want[u],
           Updates(t)' \subseteq Updates(t), \A i \in Updates(t)' : stack'[t][i] = stack[t][i],
           want'[t] = None \/ (want'[t].name \in Writers => Updates(t)' = {})
    PROVE  UpdateAlone'
    <1>1. \A u \in Threads : u # t => Alone(u)'
        BY DEF UpdateAlone, Alone, Updates
    <1>2. Alone(t)'
        BY DEF UpdateAlone, Alone
    <1> QED BY <1>1, <1>2 DEF UpdateAlone

\* A step after which no thread is inside an update.
LEMMA AloneGone ==
    ASSUME \A u \in Threads : Updates(u)' = {}
    PROVE  UpdateAlone'
    BY DEF UpdateAlone, Alone

LEMMA AlonePush ==
    ASSUME IInv, UpdateAlone, NEW t \in Threads, NEW f, Frame(f), f.kind # "update", Push(t, f),
           entries' = entries, want'[t] = None, \A u \in Threads : u # t => want'[u] = want[u]
    PROVE  UpdateAlone'
    <1>1. /\ \A u \in Threads : u # t => stack'[u] = stack[u]
          /\ Len(stack[t]) \in Nat
          /\ DOMAIN stack[t] = 1..Len(stack[t]) /\ DOMAIN stack'[t] = 1..(Len(stack[t]) + 1)
          /\ \A i \in 1..Len(stack[t]) : stack'[t][i] = stack[t][i]
          /\ stack'[t][Len(stack[t]) + 1] = f
        BY TypesNow, PushFacts
    <1>2. \A i \in 1..(Len(stack[t]) + 1) : i \in 1..Len(stack[t]) \/ i = Len(stack[t]) + 1
        BY <1>1
    <1>3. Updates(t)' \subseteq Updates(t) /\ \A i \in Updates(t)' : stack'[t][i] = stack[t][i]
        BY <1>1, <1>2 DEF Updates
    <1> QED BY <1>1, <1>3, AloneKept

LEMMA AlonePop ==
    ASSUME IInv, UpdateAlone, NEW t \in Threads, stack[t] # <<>>, Pop(t),
           entries' = entries, want' = want, want[t] = None
    PROVE  UpdateAlone'
    <1>1. /\ \A u \in Threads : u # t => stack'[u] = stack[u]
          /\ Len(stack[t]) \in Nat \ {0}
          /\ DOMAIN stack[t] = 1..Len(stack[t]) /\ DOMAIN stack'[t] = 1..(Len(stack[t]) - 1)
          /\ \A i \in 1..(Len(stack[t]) - 1) : stack'[t][i] = stack[t][i]
        BY TypesNow, PopFacts
    <1>2. 1..(Len(stack[t]) - 1) \subseteq 1..Len(stack[t])
        BY <1>1
    <1>3. Updates(t)' \subseteq Updates(t) /\ \A i \in Updates(t)' : stack'[t][i] = stack[t][i]
        BY <1>1, <1>2 DEF Updates
    <1> QED BY <1>1, <1>3, AloneKept

LEMMA AloneReplace ==
    ASSUME IInv, UpdateAlone, NEW t \in Threads, stack[t] # <<>>, NEW f, Frame(f),
           f.kind # "update", ReplaceTop(t, f), entries' = entries, want' = want, want[t] = None
    PROVE  UpdateAlone'
    <1>1. /\ \A u \in Threads : u # t => stack'[u] = stack[u]
          /\ Len(stack[t]) \in Nat \ {0}
          /\ DOMAIN stack[t] = 1..Len(stack[t]) /\ DOMAIN stack'[t] = 1..Len(stack[t])
          /\ \A i \in 1..(Len(stack[t]) - 1) : stack'[t][i] = stack[t][i]
          /\ stack'[t][Len(stack[t])] = f
        BY TypesNow, ReplaceFacts
    <1>2. \A i \in 1..Len(stack[t]) : i \in 1..(Len(stack[t]) - 1) \/ i = Len(stack[t])
        BY <1>1
    <1>3. Updates(t)' \subseteq Updates(t) /\ \A i \in Updates(t)' : stack'[t][i] = stack[t][i]
        BY <1>1, <1>2 DEF Updates
    <1> QED BY <1>1, <1>3, AloneKept

LEMMA AloneSame ==
    ASSUME IInv, UpdateAlone, UNCHANGED <<stack, want, entries>>
    PROVE  UpdateAlone'
    BY DEF UpdateAlone, Alone, Updates

\* An operation is performed or waited for; one that changes the map is not called
\* inside an update.
LEMMA OperationCases ==
    ASSUME PostedOps \cap Writers = {}, IInv, UpdateAlone, NEW t \in Threads,
           (\E op \in Ops : Call(t, op)) \/ Wake(t)
    PROVE  \E op \in Ops :
              /\ op.name \in Writers => Updates(t) = {}
              /\ \A u \in Threads : u # t => want'[u] = want[u]
              /\ \/ want'[t] = op /\ UNCHANGED <<stack, entries>>
                 \/ want'[t] = None /\ Available(t, op.mutex) /\ Effect(t, op)
    <1>1. want \in [Threads -> Ops \cup {None}]
        BY TypesNow DEF Types
    <1>2. ASSUME NEW op \in Ops, Call(t, op)
          PROVE  /\ op.name \in Writers => Updates(t) = {}
                 /\ \A u \in Threads : u # t => want'[u] = want[u]
                 /\ \/ want'[t] = op /\ UNCHANGED <<stack, entries>>
                    \/ want'[t] = None /\ Available(t, op.mutex) /\ Effect(t, op)
        <2>1. op.name \in Writers => ~Inside(t, "update")
            BY <1>2 DEF Call, Executes, OpsOf, Disciplined, Writers
        <2>2. op.name \in Writers => Updates(t) = {}
            BY <2>1, UpdatesNow
        <2>3. want[t] = None
            BY <1>2 DEF Call, Executes, Runs
        <2> QED BY <1>1, <1>2, <2>2, <2>3 DEF Call
    <1>3. ASSUME Wake(t)
          PROVE  \E op \in Ops :
                    /\ op.name \in Writers => Updates(t) = {}
                    /\ \A u \in Threads : u # t => want'[u] = want[u]
                    /\ want'[t] = None /\ Available(t, op.mutex) /\ Effect(t, op)
        <2>1. want[t] \in Ops /\ want[t] # None
            BY <1>1, <1>3 DEF Wake
        <2>2. want[t].name \in Writers => Updates(t) = {}
            BY <2>1 DEF UpdateAlone, Alone
        <2> QED BY <1>1, <1>3, <2>1, <2>2 DEF Wake
    <1> QED BY <1>2, <1>3

\* A step of the map's abstract specification, or none.
MapStep == Atomic!Next \/ entries' = entries

LEMMA MapIdle ==
    ASSUME IInv, UpdateAlone, UNCHANGED <<stack, want, entries>>
    PROVE  UpdateAlone' /\ MapStep
    BY AloneSame DEF MapStep

\* The mutex of the map keeps the other threads out.
LEMMA NobodyElse ==
    ASSUME IInv, NEW t \in Threads, owner[TheMap] \in {t, None} \/ Updates(t) # {}, NEW u \in Threads, u # t
    PROVE  Updates(u) = {}
    <1>1. None \notin Threads
        BY EngineAssumption
    <1> QED BY <1>1, UpdatesNow

LEMMA MapOperation ==
    ASSUME PostedOps \cap Writers = {}, IInv, UpdateAlone, NEW t \in Threads,
           (\E op \in Ops : Call(t, op)) \/ Wake(t)
    PROVE  UpdateAlone' /\ MapStep
    <1>1. PICK op \in Ops :
              /\ op.name \in Writers => Updates(t) = {}
              /\ \A u \in Threads : u # t => want'[u] = want[u]
              /\ \/ want'[t] = op /\ UNCHANGED <<stack, entries>>
                 \/ want'[t] = None /\ Available(t, op.mutex) /\ Effect(t, op)
        BY OperationCases
    <1>2. CASE want'[t] = op /\ UNCHANGED <<stack, entries>>
        <2>1. Updates(t)' = Updates(t)
            BY <1>2 DEF Updates
        <2>2. UpdateAlone'
            BY <1>1, <1>2, <2>1, AloneKept
        <2> QED BY <1>2, <2>2 DEF MapStep
    <1>3. CASE want'[t] = None /\ Available(t, op.mutex) /\ Effect(t, op)
        <2>1. CASE UNCHANGED <<stack, entries>>
            <3>1. Updates(t)' = Updates(t)
                BY <2>1 DEF Updates
            <3>2. UpdateAlone'
                BY <1>1, <1>3, <2>1, <3>1, AloneKept
            <3> QED BY <2>1, <3>2 DEF MapStep
        <2>2. CASE op.mutex \in Locks /\ Push(t, LockFrame(op.mutex)) /\ entries' = entries
            <3>1. Frame(LockFrame(op.mutex)) /\ LockFrame(op.mutex).kind # "update"
                BY <2>2 DEF Frame, LockFrame
            <3>2. UpdateAlone'
                BY <1>1, <1>3, <2>2, <3>1, AlonePush
            <3> QED BY <2>2, <3>2 DEF MapStep
        <2>3. CASE /\ op.name = "update" /\ op.mutex = TheMap /\ op.key \in Keys
                   /\ Push(t, UpdateFrame(op.key)) /\ entries' = entries
            <3> DEFINE f == UpdateFrame(op.key)
            <3>1. entries[op.key] \in Values
                BY <2>3, TypesNow DEF Types
            <3>2. Frame(f) /\ f.key = op.key /\ f.seen = entries[op.key]
                BY <2>3, <3>1 DEF Frame, UpdateFrame
            <3> HIDE DEF f
            <3>3. Push(t, f)
                BY <2>3 DEF f
            <3>4. /\ \A u \in Threads : u # t => stack'[u] = stack[u]
                  /\ Len(stack[t]) \in Nat
                  /\ DOMAIN stack[t] = 1..Len(stack[t]) /\ DOMAIN stack'[t] = 1..(Len(stack[t]) + 1)
                  /\ \A i \in 1..Len(stack[t]) : stack'[t][i] = stack[t][i]
                  /\ stack'[t][Len(stack[t]) + 1] = f
                BY <3>2, <3>3, TypesNow, PushFacts
            <3>5. \A u \in Threads : Updates(u) = {}
                <4>1. op.name \in Writers /\ owner[TheMap] \in {t, None}
                    BY <1>3, <2>3 DEF Writers, Available
                <4> QED BY <1>1, <4>1, NobodyElse
            <3>6. Updates(t)' \subseteq {Len(stack[t]) + 1}
                <4>1. \A i \in 1..(Len(stack[t]) + 1) : i \in 1..Len(stack[t]) \/ i = Len(stack[t]) + 1
                    BY <3>4
                <4> QED BY <3>4, <3>5, <4>1 DEF Updates
            <3>7. \A i \in Updates(t)' : entries'[stack'[t][i].key] = stack'[t][i].seen
                BY <2>3, <3>2, <3>4, <3>6
            <3>8. \A i, j \in Updates(t)' : i = j
                BY <3>6
            <3>9. Alone(t)'
                BY <1>3, <3>7, <3>8 DEF Alone
            <3>10. \A u \in Threads : u # t => Alone(u)'
                BY <3>4, <3>5 DEF Alone, Updates
            <3> QED BY <2>3, <3>9, <3>10 DEF UpdateAlone, MapStep
        <2>4. CASE /\ op.mutex = TheMap /\ op.name \in {"set", "delete", "clear"} /\ stack' = stack
                   /\ \/ entries' = entries
                      \/ op.key \in Keys /\ entries' = [entries EXCEPT ![op.key] = 0]
                      \/ op.key \in Keys /\ entries' = [entries EXCEPT ![op.key] = Absent]
                      \/ entries' = [k \in Keys |-> Absent]
            <3>1. \A u \in Threads : Updates(u) = {}
                <4>1. op.name \in Writers /\ owner[TheMap] \in {t, None}
                    BY <1>3, <2>4 DEF Writers, Available
                <4> QED BY <1>1, <4>1, NobodyElse
            <3>2. \A u \in Threads : Updates(u)' = {}
                BY <2>4, <3>1 DEF Updates
            <3>3. MapStep
                BY <2>4 DEF MapStep, Atomic!Next, Atomic!Set, Atomic!Delete, Atomic!Clear
            <3> QED BY <3>2, <3>3, AloneGone
        <2> QED BY <1>3, <2>1, <2>2, <2>3, <2>4, EffectCases
    <1> QED BY <1>1, <1>2, <1>3

LEMMA MapEnd ==
    ASSUME IInv, UpdateAlone, NEW t \in Threads, Return(t) \/ Throw(t)
    PROVE  UpdateAlone' /\ MapStep
    <1>1. stack[t] # <<>> /\ want[t] = None /\ want' = want
        BY EndCases DEF MayEnd, Runs, UnchangedByEnd
    <1>2. CASE Pop(t) /\ entries' = entries
        BY <1>1, <1>2, AlonePop DEF MapStep
    <1>3. CASE Top(t).kind = "posted" /\ NextPosted(t)
        <2>1. entries' = entries
            BY <1>3 DEF NextPosted
        <2>2. CASE Top(t).calls = <<>>
            BY <1>2, <1>3, <2>1, <2>2 DEF NextPosted
        <2>3. CASE Top(t).calls # <<>>
            <3> DEFINE f == PostedFrame(Tail(Top(t).calls))
            <3>1. ReplaceTop(t, f) /\ Frame(f) /\ f.kind # "update"
                BY <1>1, <1>3, <2>3, CallsOf DEF NextPosted, PostedFrame
            <3> HIDE DEF f
            <3> QED BY <1>1, <2>1, <3>1, AloneReplace DEF MapStep
        <2> QED BY <2>2, <2>3
    <1>4. CASE /\ entries' = entries
               /\ Pop(t) \/ ReplaceTop(t, SignalFrame(Tail(Top(t).calls)))
        <2>1. Frame(SignalFrame(Tail(Top(t).calls))) /\ SignalFrame(Tail(Top(t).calls)).kind # "update"
            BY SignalFrameOK
        <2> QED BY <1>1, <1>2, <1>4, <2>1, AloneReplace DEF MapStep
    <1>5. CASE LeaveUpdate(t, [entries EXCEPT ![Top(t).key] = Incremented(Top(t).seen)])
        <2>1. /\ \A u \in Threads : u # t => stack'[u] = stack[u]
              /\ Len(stack[t]) \in Nat \ {0}
              /\ DOMAIN stack[t] = 1..Len(stack[t]) /\ DOMAIN stack'[t] = 1..(Len(stack[t]) - 1)
              /\ \A i \in 1..(Len(stack[t]) - 1) : stack'[t][i] = stack[t][i]
              /\ Top(t) = stack[t][Len(stack[t])] /\ Frame(Top(t))
            BY <1>1, <1>5, TypesNow, PopFacts, InnermostFacts DEF LeaveUpdate
        <2>2. Len(stack[t]) \in Updates(t) /\ Top(t).key \in Keys
            BY <1>5, <2>1 DEF LeaveUpdate, Updates, Frame
        <2>3. entries[Top(t).key] = Top(t).seen
            BY <2>1, <2>2 DEF UpdateAlone, Alone
        <2>4. MapStep
            BY <1>5, <2>2, <2>3 DEF LeaveUpdate, MapStep, Atomic!Next, Atomic!Update,
                                   Atomic!Incremented, Incremented
        <2>5. Updates(t)' = {}
            <3>1. \A i \in 1..(Len(stack[t]) - 1) : i # Len(stack[t]) /\ i \in 1..Len(stack[t])
                BY <2>1
            <3>2. \A i \in Updates(t) : i = Len(stack[t])
                BY <2>2 DEF UpdateAlone, Alone
            <3> QED BY <2>1, <3>1, <3>2 DEF Updates
        <2>6. \A u \in Threads : u # t => Updates(u)' = {}
            <3>1. \A u \in Threads : u # t => Updates(u) = {}
                BY <2>2, NobodyElse
            <3> QED BY <2>1, <3>1 DEF Updates
        <2> QED BY <2>4, <2>5, <2>6, AloneGone
    <1> QED BY <1>2, <1>3, <1>4, <1>5, EndCases DEF LeaveLock, LeaveCancel, LeaveUpdate

LEMMA MapStepAll ==
    ASSUME PostedOps \cap Writers = {}, IInv, UpdateAlone, [Next]_vars
    PROVE  UpdateAlone' /\ MapStep
    <1>1. ASSUME NEW t \in Threads, NEW c \in Tokens, WithCancel(t, c)
          PROVE  UpdateAlone' /\ MapStep
        <2>1. current[t] \in Tokens \cup {NoToken}
            BY TypesNow DEF Types
        <2>2. Frame(CancelFrame(t, c)) /\ CancelFrame(t, c).kind # "update"
            BY <2>1 DEF Frame, CancelFrame
        <2>3. Push(t, CancelFrame(t, c)) /\ entries' = entries /\ want' = want /\ want[t] = None
            BY <1>1 DEF WithCancel, Executes, Runs
        <2> QED BY <2>2, <2>3, AlonePush DEF MapStep
    <1>2. ASSUME NEW t \in Threads, DrainPosted(t)
          PROVE  UpdateAlone' /\ MapStep
        <2>1. entries' = entries /\ want' = want /\ want[t] = None
            BY <1>2 DEF DrainPosted
        <2>2. CASE stack' = stack
            BY <2>1, <2>2, MapIdle
        <2>3. CASE Push(t, PostedFrame(Tail(postedQueue))) /\ Frame(PostedFrame(Tail(postedQueue)))
            <3>1. PostedFrame(Tail(postedQueue)).kind # "update"
                BY DEF PostedFrame
            <3> QED BY <2>1, <2>3, <3>1, AlonePush DEF MapStep
        <2> QED BY <1>2, <2>2, <2>3, DrainCases
    <1>3. ASSUME NEW t \in Threads,
                 \/ \E s \in Signals : OnSignal(t, s)
                 \/ CheckSignals(t) \/ LoadSigint(t) \/ ClearSigint(t)
          PROVE  UpdateAlone' /\ MapStep
        <2>1. entries' = entries /\ want' = want
            BY <1>3, SignalCases
        <2>2. CASE stack' = stack
            BY <2>1, <2>2, MapIdle
        <2>3. CASE stack' # stack
            <3>1. want[t] = None
                BY <1>3, <2>3 DEF OnSignal, CheckSignals, LoadSigint, ClearSigint, Executes, Runs
            <3>2. PICK calls : Push(t, SignalFrame(calls))
                BY <1>3, <2>3, SignalCases
            <3>3. Frame(SignalFrame(calls)) /\ SignalFrame(calls).kind # "update"
                BY SignalFrameOK
            <3> QED BY <2>1, <3>1, <3>2, <3>3, AlonePush DEF MapStep
        <2> QED BY <2>2, <2>3
    <1>4. ASSUME NEW t \in Threads, Release(t)
          PROVE  UpdateAlone' /\ MapStep
        BY <1>4, MapIdle DEF Release
    <1>5. CASE EnqueuePosted \/ (\E s \in Signals : Raise(s)) \/ UNCHANGED vars
        BY <1>5, MapIdle DEF EnqueuePosted, Raise, vars
    <1>6. ASSUME NEW t \in Threads, Step(t)
          PROVE  UpdateAlone' /\ MapStep
        BY <1>1, <1>2, <1>3, <1>4, <1>6, MapOperation, MapEnd DEF Step, Ops
    <1> QED BY <1>5, <1>6 DEF Next

\* As long as no posted call changes the map, SharedMap keeps the promise of
\* AtomicMap: no step of another thread comes between the value update() reads and
\* the one it stores.
THEOREM MapIsAtomic ==
    ASSUME PostedOps \cap Writers = {}
    PROVE  Spec => ImplementsAtomicMap
    <1>1. Init => UpdateAlone /\ Atomic!Init
        BY AloneInit DEF Init, Atomic!Init
    <1>2. IInv /\ UpdateAlone /\ [Next]_vars => UpdateAlone' /\ [Atomic!Next]_entries
        BY MapStepAll DEF MapStep
    <1> QED BY <1>1, <1>2, Invariant, PTL DEF Spec, ImplementsAtomicMap, Atomic!Spec

--------------------------------------------------------------------------------
(* Threads do not wait for each other.                                          *)

\* A posted call takes at most the mutex that comes last in the program's order.
PostedTakeLast ==
    \A op \in Ops : op.name \in PostedOps => \A m \in Mutexes : Rank[m] <= Rank[op.mutex]

\* A blocked thread waits for a mutex above those it holds.
WaitsUp ==
    \A t \in Threads : want[t] # None =>
        \A h \in Mutexes : owner[h] = t => Rank[h] < Rank[want[t].mutex]

LEMMA Ranks ==
    /\ \A m \in Mutexes : Rank[m] \in Nat
    /\ \A l, m \in Mutexes : Rank[l] = Rank[m] => l = m
    /\ \A op \in Ops : op.mutex \in Mutexes
    BY EngineAssumption DEF Ops, LockOps, MapOps, Mutexes

\* What a step of thread t has to keep: it takes nothing for another thread, and
\* takes something itself only if it does not wait afterwards.
LEMMA WaitsUpKept ==
    ASSUME WaitsUp, NEW t \in Threads,
           \A h \in Mutexes : owner'[h] \in {owner[h], t, None}, None \notin Threads,
           \A u \in Threads : u # t => want'[u] = want[u],
           want'[t] = None \/ \A h \in Mutexes : owner'[h] = t => Rank[h] < Rank[want'[t].mutex]
    PROVE  WaitsUp'
    <1>1. ASSUME NEW u \in Threads, u # t, want'[u] # None, NEW h \in Mutexes, owner'[h] = u
          PROVE  Rank[h] < Rank[want'[u].mutex]
        BY <1>1 DEF WaitsUp
    <1> QED BY <1>1 DEF WaitsUp

LEMMA WaitsUpSame ==
    ASSUME WaitsUp, UNCHANGED <<owner, want>>
    PROVE  WaitsUp'
    BY DEF WaitsUp

\* Taking a mutex, and giving one back.
LEMMA OwnerChange ==
    ASSUME IInv, NEW t \in Threads, NEW m \in Mutexes, Lock(t, m) \/ Unlock(m)
    PROVE  \A h \in Mutexes : owner'[h] \in {owner[h], t, None}
    BY TypesNow DEF Lock, Unlock, Types

LEMMA WaitsUpStep ==
    ASSUME PostedTakeLast, IInv, WaitsUp, [Next]_vars
    PROVE  WaitsUp'
    <1>1. None \notin Threads /\ want \in [Threads -> Ops \cup {None}]
        BY EngineAssumption, TypesNow DEF Types
    <1>2. owner \in [Mutexes -> Threads \cup {None}]
        BY TypesNow DEF Types
    <1>3. ASSUME NEW t \in Threads, NEW op \in Ops, Effect(t, op), want'[t] = None,
                 \A u \in Threads : u # t => want'[u] = want[u]
          PROVE  WaitsUp'
        <2>1. UNCHANGED owner \/ Lock(t, op.mutex)
            BY <1>3, EffectCases
        <2>2. \A h \in Mutexes : owner'[h] \in {owner[h], t, None}
            BY <2>1, OwnerChange, Ranks
        <2> QED BY <1>1, <1>3, <2>2, WaitsUpKept
    <1>4. ASSUME NEW t \in Threads, NEW op \in Ops, Call(t, op)
          PROVE  WaitsUp'
        <2>1. want[t] = None
            BY <1>4 DEF Call, Executes, Runs
        <2>2. CASE Available(t, op.mutex)
            BY <1>3, <1>4, <2>1, <2>2 DEF Call
        <2>3. CASE ~Available(t, op.mutex)
            <3>1. owner' = owner /\ want' = [want EXCEPT ![t] = op]
                BY <1>4, <2>3 DEF Call, lockVars
            <3>2. owner[op.mutex] # t /\ op.mutex \in Mutexes
                BY <2>3, Ranks DEF Available
            <3>3. \A h \in Mutexes : owner[h] = t => Rank[h] < Rank[op.mutex]
                <4>1. CASE Inside(t, "posted")
                    <5>1. op.name \in PostedOps
                        BY <1>4, <4>1 DEF Call, Executes, OpsOf
                    <5>2. \A h \in Mutexes : Rank[h] <= Rank[op.mutex]
                        BY <5>1 DEF PostedTakeLast
                    <5> QED BY <3>2, <5>2, Ranks
                <4>2. CASE ~Inside(t, "posted")
                    BY <1>4, <3>2, <4>2 DEF Call, Disciplined, Held
                <4> QED BY <4>1, <4>2
            <3>4. /\ \A h \in Mutexes : owner'[h] \in {owner[h], t, None}
                  /\ \A u \in Threads : u # t => want'[u] = want[u]
                  /\ \A h \in Mutexes : owner'[h] = t => Rank[h] < Rank[want'[t].mutex]
                BY <1>1, <3>1, <3>3
            <3> QED BY <1>1, <3>4, WaitsUpKept
        <2> QED BY <2>2, <2>3
    <1>5. ASSUME NEW t \in Threads, Wake(t)
          PROVE  WaitsUp'
        <2>1. want[t] \in Ops /\ Effect(t, want[t]) /\ want' = [want EXCEPT ![t] = None]
            BY <1>1, <1>5 DEF Wake
        <2> QED BY <1>1, <1>3, <2>1
    <1>6. ASSUME NEW t \in Threads, Release(t) \/ Return(t) \/ Throw(t)
          PROVE  WaitsUp'
        <2>1. want' = want /\ want[t] = None
            BY <1>6 DEF Release, Return, Throw, MayEnd, UnchangedByEnd, Executes, Runs
        <2>2. owner' = owner \/ \E m : Unlock(m)
            <3>1. CASE Release(t)
                BY <3>1 DEF Release
            <3>2. CASE Return(t) \/ Throw(t)
                BY <3>2, EndCases DEF LeaveLock, LeaveCancel, LeaveUpdate, NextPosted
            <3> QED BY <1>6, <3>1, <3>2
        <2>3. \A h \in Mutexes : owner'[h] \in {owner[h], t, None}
            BY <1>2, <2>2 DEF Unlock
        <2> QED BY <1>1, <2>1, <2>3, WaitsUpKept
    <1>7. ASSUME NEW t \in Threads, (\E c \in Tokens : WithCancel(t, c)) \/ DrainPosted(t)
          PROVE  WaitsUp'
        BY <1>7, WaitsUpSame DEF WithCancel, DrainPosted, lockVars
    <1>8. ASSUME NEW t \in Threads,
                 \/ \E s \in Signals : OnSignal(t, s)
                 \/ CheckSignals(t) \/ LoadSigint(t) \/ ClearSigint(t)
          PROVE  WaitsUp'
        BY <1>8, SignalCases, WaitsUpSame DEF lockVars
    <1>9. CASE EnqueuePosted \/ (\E s \in Signals : Raise(s)) \/ UNCHANGED vars
        BY <1>9, WaitsUpSame DEF EnqueuePosted, Raise, vars, lockVars
    <1>10. ASSUME NEW t \in Threads, Step(t)
           PROVE  WaitsUp'
        BY <1>4, <1>5, <1>6, <1>7, <1>8, <1>10 DEF Step, Ops
    <1> QED BY <1>9, <1>10 DEF Next

LEMMA Least ==
    ASSUME NEW S \in SUBSET Nat, S # {}
    PROVE  \E n \in S : \A k \in S : n <= k
    <1> DEFINE R == OpToRel(<, Nat)
    <1>1. IsWellFoundedOn(R, Nat)
        BY NatLessThanWellFounded
    <1>2. \A k, n \in Nat : k < n => <<k, n>> \in R
        BY DEF OpToRel
    <1> HIDE DEF R
    <1>3. PICK n \in S : \A k \in S : ~(<<k, n>> \in R)
        BY <1>1, WFMin
    <1>4. ASSUME NEW k \in S
          PROVE  n <= k
        <2>1. k \in Nat /\ n \in Nat /\ ~(<<k, n>> \in R)
            BY <1>3
        <2>2. ~(k < n)
            BY <1>2, <2>1
        <2> QED BY <2>1, <2>2
    <1> QED BY <1>4

\* A finite set of naturals that is not empty has a greatest element: else take a
\* smallest set without one, and remove an element.
LEMMA Greatest ==
    ASSUME NEW S \in SUBSET Nat, IsFiniteSet(S), S # {}
    PROVE  \E x \in S : \A y \in S : y <= x
    <1> DEFINE Top1(A) == \E x \in A : \A y \in A : y <= x
               Bad == {A \in SUBSET S : A # {} /\ ~Top1(A)}
               Sizes == {Cardinality(A) : A \in Bad}
    <1> SUFFICES ASSUME ~Top1(S)
                 PROVE  FALSE
        OBVIOUS
    <1>1. \A A \in SUBSET S : IsFiniteSet(A) /\ Cardinality(A) \in Nat
        BY FS_Subset, FS_CardinalityType
    <1>2. Sizes \in SUBSET Nat /\ Sizes # {}
        BY <1>1
    <1> HIDE DEF Sizes
    <1>3. PICK n \in Sizes : \A k \in Sizes : n <= k
        BY <1>2, Least
    <1>4. PICK A \in Bad : Cardinality(A) = n
        BY DEF Sizes
    <1>5. PICK a \in A : TRUE
        BY <1>4
    <1> DEFINE B == A \ {a}
    <1>6. B \in SUBSET S /\ Cardinality(B) = Cardinality(A) - 1 /\ Cardinality(A) \in Nat
        BY <1>1, <1>5, FS_RemoveElement
    <1>7. B \notin Bad
        <2>1. ~(n <= Cardinality(B))
            BY <1>4, <1>6
        <2>2. Cardinality(B) \notin Sizes
            BY <1>3, <2>1
        <2> QED BY <2>2 DEF Sizes
    <1>8. CASE B = {}
        <2>1. A = {a} /\ a \in Nat
            BY <1>5, <1>8
        <2>2. Top1(A)
            BY <2>1
        <2> QED BY <2>2
    <1>9. CASE B # {}
        <2>1. PICK x \in B : \A y \in B : y <= x
            BY <1>6, <1>7, <1>9
        <2>2. x \in Nat /\ a \in Nat /\ \A y \in A : y \in B \/ y = a
            BY <1>5
        <2>3. CASE a <= x
            <3>1. \A y \in A : y <= x
                BY <2>1, <2>2, <2>3
            <3>2. Top1(A)
                BY <3>1
            <3> QED BY <3>2
        <2>4. CASE ~(a <= x)
            <3>1. \A y \in A : y <= a
                BY <2>1, <2>2, <2>4
            <3>2. Top1(A)
                BY <3>1
            <3> QED BY <3>2
        <2> QED BY <2>3, <2>4
    <1> QED BY <1>8, <1>9

LEMMA WaitsUpSuffices ==
    ASSUME IInv, WaitsUp
    PROVE  NoWaitCycle
    <1> SUFFICES ASSUME NEW S \in (SUBSET Threads) \ {{}},
                        \A t \in S : want[t] # None /\ owner[want[t].mutex] \in S
                 PROVE  FALSE
        BY DEF NoWaitCycle
    <1> DEFINE R(t) == Rank[want[t].mutex]
               N == {R(t) : t \in S}
    <1>1. \A t \in S : want[t] \in Ops /\ want[t].mutex \in Mutexes /\ R(t) \in Nat
        BY TypesNow, Ranks DEF Types
    <1>2. IsFiniteSet(N)
        <2>1. IsFiniteSet(S)
            BY EngineAssumption, FS_Subset
        <2> DEFINE f == [t \in S |-> R(t)]
        <2>2. f \in Surjection(S, N)
            BY DEF Surjection
        <2> HIDE DEF f, N, R
        <2> QED BY <2>1, <2>2, FS_Surjection
    <1>3. N \in SUBSET Nat /\ N # {}
        BY <1>1
    <1>4. PICK x \in N : \A y \in N : y <= x
        BY <1>2, <1>3, Greatest
    <1>5. PICK t \in S : x = R(t)
        OBVIOUS
    <1> DEFINE u == owner[want[t].mutex]
    <1>6. u \in S /\ R(u) \in N
        OBVIOUS
    <1>7. R(u) <= R(t)
        BY <1>4, <1>5, <1>6
    <1>8. R(t) < R(u)
        BY <1>1, <1>5, <1>6 DEF WaitsUp
    <1> QED BY <1>1, <1>5, <1>6, <1>7, <1>8

\* As long as a posted call takes at most the mutex that comes last in the order the
\* program keeps, threads never wait for each other, whatever runs under the locks.
THEOREM NoDeadlock ==
    ASSUME PostedTakeLast
    PROVE  Spec => []NoWaitCycle
    <1>1. Init => WaitsUp
        BY DEF Init, WaitsUp
    <1>2. IInv /\ WaitsUp /\ [Next]_vars => WaitsUp'
        BY WaitsUpStep
    <1>3. IInv /\ WaitsUp => NoWaitCycle
        BY WaitsUpSuffices
    <1> QED BY <1>1, <1>2, <1>3, Invariant, PTL DEF Spec

--------------------------------------------------------------------------------
(* Signals with a handler are not lost.                                         *)

Ascending(list, S) ==
    /\ list \in [1..Cardinality(S) -> S] /\ ToSet(list) = S
    /\ \A i, j \in DOMAIN list : i < j => list[i] < list[j]

\* A finite set of numbers can be listed in ascending order: else take a smallest
\* set that cannot, list it without its greatest element, and append that.
LEMMA Listable ==
    ASSUME NEW S \in SUBSET Nat, IsFiniteSet(S)
    PROVE  \E list : Ascending(list, S)
    <1> DEFINE Bad == {A \in SUBSET S : ~\E list : Ascending(list, A)}
               Sizes == {Cardinality(A) : A \in Bad}
    <1> SUFFICES ASSUME S \in Bad
                 PROVE  FALSE
        OBVIOUS
    <1>1. \A A \in SUBSET S : IsFiniteSet(A) /\ Cardinality(A) \in Nat
        BY FS_Subset, FS_CardinalityType
    <1>2. Sizes \in SUBSET Nat /\ Sizes # {}
        BY <1>1
    <1> HIDE DEF Sizes
    <1>3. PICK n \in Sizes : \A k \in Sizes : n <= k
        BY <1>2, Least
    <1>4. PICK A \in Bad : Cardinality(A) = n
        BY DEF Sizes
    <1>5. CASE A = {}
        <2>1. Cardinality(A) = 0 /\ ToSet(<<>>) = {} /\ DOMAIN <<>> = {}
            BY <1>5, FS_EmptySet, NoneIn
        <2>2. Ascending(<<>>, A)
            BY <1>5, <2>1 DEF Ascending
        <2> QED BY <1>4, <2>2
    <1>6. CASE A # {}
        <2>1. PICK a \in A : \A y \in A : y <= a
            BY <1>1, <1>4, <1>6, Greatest
        <2> DEFINE B == A \ {a}
        <2>2. /\ B \in SUBSET S /\ Cardinality(B) = n - 1 /\ n \in Nat
              /\ A = B \cup {a} /\ \A y \in B : y < a
            BY <1>1, <1>4, <2>1, FS_RemoveElement
        <2>3. B \notin Bad
            <3>1. ~(n <= Cardinality(B))
                BY <2>2
            <3>2. Cardinality(B) \notin Sizes
                BY <1>3, <3>1
            <3> QED BY <3>2 DEF Sizes
        <2>4. PICK list : Ascending(list, B)
            BY <2>2, <2>3
        <2> DEFINE more == [i \in 1..n |-> IF i = n THEN a ELSE list[i]]
        <2> HIDE DEF B
        <2>5. n \in Nat \ {0}
            <3>1. Cardinality(B) \in Nat
                BY <1>1, <2>2
            <3> QED BY <2>2, <3>1
        <2>6. list \in [1..(n - 1) -> B] /\ ToSet(list) = B /\ DOMAIN list = 1..(n - 1)
            BY <2>2, <2>4 DEF Ascending
        <2>7. /\ \A i \in 1..n : i = n \/ i \in 1..(n - 1)
              /\ \A i \in 1..(n - 1) : i \in 1..n /\ i # n
              /\ n \in 1..n
            BY <2>5
        <2>8. /\ more[n] = a /\ \A i \in 1..(n - 1) : more[i] = list[i] /\ list[i] \in B
              /\ DOMAIN more = 1..n
            BY <2>6, <2>7
        <2>9. more \in [1..n -> A]
            BY <2>1, <2>2, <2>6, <2>7
        <2> HIDE DEF more
        <2>10. ToSet(more) = A
            <3>1. ToSet(more) \subseteq A
                BY <2>9 DEF ToSet
            <3>2. B \subseteq ToSet(more)
                BY <2>6, <2>7, <2>8 DEF ToSet
            <3>3. a \in ToSet(more)
                BY <2>7, <2>8 DEF ToSet
            <3> QED BY <2>2, <3>1, <3>2, <3>3
        <2>11. ASSUME NEW i \in DOMAIN more, NEW j \in DOMAIN more, i < j
               PROVE  more[i] < more[j]
            <3>1. i \in 1..(n - 1)
                BY <2>8, <2>11, <2>5
            <3>2. CASE j = n
                BY <2>2, <2>8, <3>1, <3>2
            <3>3. CASE j \in 1..(n - 1)
                BY <2>4, <2>6, <2>8, <2>11, <3>1, <3>3 DEF Ascending
            <3> QED BY <2>7, <2>8, <3>2, <3>3
        <2>12. Ascending(more, A)
            BY <1>4, <2>9, <2>10, <2>11 DEF Ascending
        <2> QED BY <1>4, <2>12
    <1> QED BY <1>5, <1>6

LEMMA InOrderFacts ==
    ASSUME NEW S \in SUBSET Nat, IsFiniteSet(S)
    PROVE  InOrder(S) \in Seq(Nat) /\ ToSet(InOrder(S)) = S
    <1>1. \E list \in [1..Cardinality(S) -> S] :
             ToSet(list) = S /\ \A i, j \in DOMAIN list : i < j => list[i] < list[j]
        BY Listable DEF Ascending
    <1>2. InOrder(S) \in [1..Cardinality(S) -> S] /\ ToSet(InOrder(S)) = S
        BY <1>1 DEF InOrder
    <1>3. Cardinality(S) \in Nat
        BY FS_CardinalityType
    <1>4. InOrder(S) \in [1..Cardinality(S) -> Nat]
        BY <1>2
    <1> QED BY <1>2, <1>3, <1>4, SeqDef

CallsListed ==
    \A t \in Threads : \A i \in DOMAIN stack[t] :
        stack[t][i].kind = "signals" => stack[t][i].calls \in Seq(Nat)

\* The handler of s is in a list that sys.checkSignals is going through.
Listed(s) ==
    \E t \in Threads : \E i \in DOMAIN stack[t] :
        stack[t][i].kind = "signals" /\ s \in ToSet(stack[t][i].calls)

\* A signal is owed to a handler that is still registered.
SignalsKept ==
    /\ owed \subseteq handlers /\ CallsListed
    /\ \A s \in owed \ {Sigint} : s \in pendingSignals \/ Listed(s)

\* Steps that start or end no list of handlers.
LEMMA ListedSame ==
    ASSUME stack' = stack
    PROVE  (CallsListed => CallsListed') /\ \A s : Listed(s) => Listed(s)'
    BY DEF CallsListed, Listed

LEMMA ListedPush ==
    ASSUME IInv, CallsListed, NEW t \in Threads, NEW f, Frame(f), Push(t, f),
           f.kind = "signals" => f.calls \in Seq(Nat)
    PROVE  /\ CallsListed'
           /\ \A s : Listed(s) => Listed(s)'
           /\ f.kind = "signals" => \A s \in ToSet(f.calls) : Listed(s)'
    <1>1. /\ \A u \in Threads : u # t => stack'[u] = stack[u]
          /\ Len(stack[t]) \in Nat
          /\ DOMAIN stack[t] = 1..Len(stack[t]) /\ DOMAIN stack'[t] = 1..(Len(stack[t]) + 1)
          /\ \A i \in 1..Len(stack[t]) : stack'[t][i] = stack[t][i]
          /\ stack'[t][Len(stack[t]) + 1] = f
        BY TypesNow, PushFacts
    <1> DEFINE k == Len(stack[t]) + 1
    <1>2. /\ DOMAIN stack'[t] = DOMAIN stack[t] \cup {k} /\ stack'[t][k] = f
          /\ \A i \in DOMAIN stack[t] : stack'[t][i] = stack[t][i]
        BY <1>1
    <1> HIDE DEF k
    <1>3. CallsListed'
        BY <1>1, <1>2 DEF CallsListed
    <1>4. \A s : Listed(s) => Listed(s)'
        BY <1>1, <1>2 DEF Listed
    <1>5. f.kind = "signals" => \A s \in ToSet(f.calls) : Listed(s)'
        BY <1>2 DEF Listed
    <1> QED BY <1>3, <1>4, <1>5

LEMMA ListedPop ==
    ASSUME IInv, CallsListed, NEW t \in Threads, stack[t] # <<>>, Pop(t),
           Top(t).kind = "signals" => Top(t).calls = <<>>
    PROVE  CallsListed' /\ \A s : Listed(s) => Listed(s)'
    <1>1. /\ \A u \in Threads : u # t => stack'[u] = stack[u]
          /\ Len(stack[t]) \in Nat \ {0}
          /\ DOMAIN stack[t] = 1..Len(stack[t]) /\ DOMAIN stack'[t] = 1..(Len(stack[t]) - 1)
          /\ \A i \in 1..(Len(stack[t]) - 1) : stack'[t][i] = stack[t][i]
          /\ Top(t) = stack[t][Len(stack[t])]
        BY TypesNow, PopFacts, InnermostFacts
    <1> DEFINE k == Len(stack[t])
    <1>2. /\ DOMAIN stack'[t] = DOMAIN stack[t] \ {k} /\ stack[t][k] = Top(t)
          /\ \A i \in DOMAIN stack'[t] : stack'[t][i] = stack[t][i]
        BY <1>1
    <1> HIDE DEF k
    <1>3. CallsListed'
        BY <1>1, <1>2 DEF CallsListed
    <1>4. \A s : Listed(s) => Listed(s)'
        BY <1>1, <1>2, NoneIn DEF Listed
    <1> QED BY <1>3, <1>4

LEMMA ListedReplace ==
    ASSUME IInv, CallsListed, NEW t \in Threads, stack[t] # <<>>, NEW f, Frame(f), ReplaceTop(t, f),
           \/ Top(t).kind # "signals" /\ f.kind # "signals"
           \/ /\ Top(t).kind = "signals" /\ f.kind = "signals"
              /\ Top(t).calls # <<>> /\ f.calls = Tail(Top(t).calls)
    PROVE  /\ CallsListed'
           /\ \A s : Listed(s) => Listed(s)' \/ (Top(t).kind = "signals" /\ s = Head(Top(t).calls))
    <1>1. /\ \A u \in Threads : u # t => stack'[u] = stack[u]
          /\ Len(stack[t]) \in Nat \ {0}
          /\ DOMAIN stack[t] = 1..Len(stack[t]) /\ DOMAIN stack'[t] = 1..Len(stack[t])
          /\ \A i \in 1..(Len(stack[t]) - 1) : stack'[t][i] = stack[t][i]
          /\ stack'[t][Len(stack[t])] = f
          /\ Top(t) = stack[t][Len(stack[t])]
        BY TypesNow, ReplaceFacts, InnermostFacts
    <1> DEFINE k == Len(stack[t])
    <1>2. /\ k \in DOMAIN stack[t] /\ DOMAIN stack'[t] = DOMAIN stack[t]
          /\ stack[t][k] = Top(t) /\ stack'[t][k] = f
          /\ \A i \in DOMAIN stack[t] \ {k} : stack'[t][i] = stack[t][i]
        BY <1>1
    <1> HIDE DEF k
    <1>3. Top(t).kind = "signals" => Top(t).calls \in Seq(Nat)
        BY <1>2 DEF CallsListed
    <1>4. Top(t).kind = "signals" =>
             /\ f.calls \in Seq(Nat)
             /\ ToSet(Top(t).calls) \subseteq ToSet(f.calls) \cup {Head(Top(t).calls)}
        BY <1>3, CallsFacts, TailCovers
    <1>5. CallsListed'
        BY <1>1, <1>2, <1>4 DEF CallsListed
    <1>6. ASSUME NEW s, Listed(s), ~(Top(t).kind = "signals" /\ s = Head(Top(t).calls))
          PROVE  Listed(s)'
        <2>a. PICK u \in Threads : \E i \in DOMAIN stack[u] :
                 stack[u][i].kind = "signals" /\ s \in ToSet(stack[u][i].calls)
            BY <1>6 DEF Listed
        <2>1. PICK i \in DOMAIN stack[u] :
                 stack[u][i].kind = "signals" /\ s \in ToSet(stack[u][i].calls)
            BY <2>a
        <2>2. CASE u # t \/ i # k
            BY <1>1, <1>2, <2>1, <2>2 DEF Listed
        <2>3. CASE u = t /\ i = k
            <3>1. s \in ToSet(f.calls) /\ f.kind = "signals"
                BY <1>2, <1>4, <1>6, <2>1, <2>3
            <3> QED BY <1>2, <3>1 DEF Listed
        <2> QED BY <2>2, <2>3
    <1> QED BY <1>5, <1>6

\* Steps that raise, take and call nothing.
LEMMA SignalsIdle ==
    ASSUME SignalsKept, UNCHANGED <<pendingSignals, handlers, owed>>,
           CallsListed', \A s : Listed(s) => Listed(s)'
    PROVE  SignalsKept'
    BY DEF SignalsKept

LEMMA CheckStep ==
    ASSUME IInv, SignalsKept, NEW t \in Threads, CheckSignals(t)
    PROVE  SignalsKept'
    <1> DEFINE list == InOrder(pendingSignals \cap handlers)
    <1>1. CallsListed /\ owed \subseteq handlers
        BY DEF SignalsKept
    <1>2. list \in Seq(Nat) /\ ToSet(list) = pendingSignals \cap handlers
        <2>1. /\ pendingSignals \cap handlers \in SUBSET Nat
              /\ IsFiniteSet(pendingSignals \cap handlers)
            BY TypesNow, EngineAssumption, FS_Subset DEF SignalTypes
        <2> QED BY <2>1, InOrderFacts
    <1>3. /\ handlers' = handlers
          /\ IF list = <<>> THEN stack' = stack /\ owed' = owed
             ELSE Push(t, SignalFrame(Tail(list))) /\ owed' = owed \ {Head(list)}
        BY DEF CheckSignals
    <1> HIDE DEF list
    <1>4. CASE list = <<>>
        <2>1. pendingSignals \cap handlers = {}
            BY <1>2, <1>4, NoneIn
        <2>2. CallsListed' /\ \A s : Listed(s) => Listed(s)'
            BY <1>1, <1>3, <1>4, ListedSame
        <2> QED BY <1>3, <1>4, <2>1, <2>2 DEF SignalsKept
    <1>5. CASE list # <<>>
        <2> DEFINE f == SignalFrame(Tail(list))
        <2>1. Tail(list) \in Seq(Nat) /\ ToSet(list) = ToSet(Tail(list)) \cup {Head(list)}
            BY <1>2, <1>5, CallsFacts, TailCovers
        <2>2. /\ Frame(f) /\ Push(t, f) /\ f.kind = "signals" /\ f.calls = Tail(list)
              /\ f.calls \in Seq(Nat)
            BY <1>3, <1>5, <2>1, SignalFrameOK DEF SignalFrame
        <2> HIDE DEF f
        <2>3. /\ CallsListed' /\ \A s : Listed(s) => Listed(s)'
              /\ \A s \in ToSet(f.calls) : Listed(s)'
            BY <1>1, <2>2, ListedPush
        <2>4. owed' = owed \ {Head(list)}
            BY <1>3, <1>5
        <2> QED BY <1>1, <1>2, <1>3, <2>1, <2>2, <2>3, <2>4 DEF SignalsKept
    <1> QED BY <1>4, <1>5

LEMMA EndSignals ==
    ASSUME ~HandlersThrow, IInv, SignalsKept, NEW t \in Threads, Return(t) \/ Throw(t)
    PROVE  SignalsKept'
    <1>1. stack[t] # <<>> /\ UNCHANGED <<pendingSignals, handlers>> /\ CallsListed
        BY DEF Return, Throw, MayEnd, UnchangedByEnd, SignalsKept
    <1>2. CASE Pop(t) /\ owed' = owed /\ (Top(t).kind = "signals" => Top(t).calls = <<>>)
        BY <1>1, <1>2, ListedPop, SignalsIdle
    <1>3. CASE Top(t).kind = "posted" /\ NextPosted(t)
        <2>1. owed' = owed
            BY <1>3 DEF NextPosted
        <2>2. CASE Top(t).calls = <<>>
            BY <1>2, <1>3, <2>1, <2>2 DEF NextPosted
        <2>3. CASE Top(t).calls # <<>>
            <3> DEFINE f == PostedFrame(Tail(Top(t).calls))
            <3>1. ReplaceTop(t, f) /\ Frame(f) /\ f.kind # "signals"
                BY <1>1, <1>3, <2>3, CallsOf DEF NextPosted, PostedFrame
            <3> HIDE DEF f
            <3>2. CallsListed' /\ \A s : Listed(s) => Listed(s)'
                BY <1>1, <1>3, <3>1, ListedReplace
            <3> QED BY <1>1, <2>1, <3>2, SignalsIdle
        <2> QED BY <2>2, <2>3
    <1>4. CASE Top(t).kind = "signals" /\ NextSignal(t)
        <2>1. CASE Top(t).calls = <<>>
            BY <1>2, <1>4, <2>1 DEF NextSignal
        <2>2. CASE Top(t).calls # <<>>
            <3> DEFINE f == SignalFrame(Tail(Top(t).calls))
            <3>1. /\ ReplaceTop(t, f) /\ Frame(f) /\ f.kind = "signals" /\ f.calls = Tail(Top(t).calls)
                  /\ owed' = owed \ {Head(Top(t).calls)}
                BY <1>4, <2>2, SignalFrameOK DEF NextSignal, SignalFrame
            <3> HIDE DEF f
            <3>2. CallsListed' /\ \A s : Listed(s) => Listed(s)' \/ s = Head(Top(t).calls)
                BY <1>1, <1>4, <2>2, <3>1, ListedReplace
            <3> QED BY <1>1, <3>1, <3>2 DEF SignalsKept
        <2> QED BY <2>1, <2>2
    <1>5. CASE LeaveLock(t) \/ LeaveCancel(t) \/ \E stored : LeaveUpdate(t, stored)
        BY <1>2, <1>5 DEF LeaveLock, LeaveCancel, LeaveUpdate
    <1> QED BY <1>3, <1>4, <1>5 DEF Return, Throw

LEMMA SignalsStep ==
    ASSUME ~HandlersThrow, IInv, SignalsKept, [Next]_vars
    PROVE  SignalsKept'
    <1>1. CallsListed
        BY DEF SignalsKept
    <1>2. CASE UNCHANGED <<stack, pendingSignals, handlers, owed>>
        BY <1>1, <1>2, ListedSame, SignalsIdle
    <1>3. ASSUME NEW t \in Threads, NEW f, Frame(f), f.kind # "signals", Push(t, f),
                 UNCHANGED <<pendingSignals, handlers, owed>>
          PROVE  SignalsKept'
        BY <1>1, <1>3, ListedPush, SignalsIdle
    <1>4. ASSUME NEW t \in Threads, (\E op \in Ops : Call(t, op)) \/ Wake(t)
          PROVE  SignalsKept'
        <2>1. UNCHANGED <<pendingSignals, handlers, owed>> /\ TypeOK
            BY <1>4, TypesNow, CallCases DEF signalVars
        <2>2. CASE stack' = stack
            BY <1>2, <2>1, <2>2
        <2>3. ASSUME NEW op \in Ops, Effect(t, op), stack' # stack
              PROVE  SignalsKept'
            <3>1. CASE op.mutex \in Locks /\ Push(t, LockFrame(op.mutex))
                <4>1. Frame(LockFrame(op.mutex)) /\ LockFrame(op.mutex).kind # "signals"
                    BY <3>1 DEF Frame, LockFrame
                <4> QED BY <1>3, <2>1, <3>1, <4>1
            <3>2. CASE op.key \in Keys /\ Push(t, UpdateFrame(op.key))
                <4>1. entries[op.key] \in Values
                    BY <3>2, TypesNow DEF Types
                <4>2. Frame(UpdateFrame(op.key)) /\ UpdateFrame(op.key).kind # "signals"
                    BY <3>2, <4>1 DEF Frame, UpdateFrame
                <4> QED BY <1>3, <2>1, <3>2, <4>2
            <3> QED BY <2>3, <3>1, <3>2, EffectCases
        <2> QED BY <1>4, <2>1, <2>2, <2>3, CallCases
    <1>5. ASSUME NEW t \in Threads, NEW c \in Tokens, WithCancel(t, c)
          PROVE  SignalsKept'
        <2>1. current[t] \in Tokens \cup {NoToken}
            BY TypesNow DEF Types
        <2>2. Frame(CancelFrame(t, c)) /\ CancelFrame(t, c).kind # "signals"
            BY <2>1 DEF Frame, CancelFrame
        <2>3. Push(t, CancelFrame(t, c)) /\ UNCHANGED <<pendingSignals, handlers, owed>>
            BY <1>5 DEF WithCancel, signalVars
        <2> QED BY <1>3, <2>2, <2>3
    <1>6. ASSUME NEW t \in Threads, DrainPosted(t)
          PROVE  SignalsKept'
        <2>1. UNCHANGED <<pendingSignals, handlers, owed>>
            BY <1>6 DEF DrainPosted, signalVars
        <2>2. CASE stack' = stack
            BY <1>2, <2>1, <2>2
        <2>3. CASE Push(t, PostedFrame(Tail(postedQueue))) /\ Frame(PostedFrame(Tail(postedQueue)))
            <3>1. PostedFrame(Tail(postedQueue)).kind # "signals"
                BY DEF PostedFrame
            <3> QED BY <1>3, <2>1, <2>3, <3>1
        <2> QED BY <1>6, <2>2, <2>3, DrainCases
    <1>7. ASSUME NEW t \in Threads, NEW s \in Signals, OnSignal(t, s)
          PROVE  SignalsKept'
        <2>1. CallsListed' /\ \A x : Listed(x) => Listed(x)'
            BY <1>1, <1>7, ListedSame DEF OnSignal
        <2> QED BY <1>7, <2>1 DEF OnSignal, SignalsKept
    <1>8. ASSUME NEW s \in Signals, Raise(s)
          PROVE  SignalsKept'
        <2>1. CallsListed' /\ \A x : Listed(x) => Listed(x)'
            BY <1>1, <1>8, ListedSame DEF Raise
        <2> QED BY <1>8, <2>1 DEF Raise, SignalsKept
    <1>9. ASSUME NEW t \in Threads, ClearSigint(t)
          PROVE  SignalsKept'
        <2>1. CallsListed' /\ \A x : Listed(x) => Listed(x)'
            BY <1>1, <1>9, ListedSame DEF ClearSigint
        <2> QED BY <1>9, <2>1 DEF ClearSigint, SignalsKept
    <1>10. ASSUME NEW t \in Threads, LoadSigint(t) \/ Release(t)
           PROVE  SignalsKept'
        BY <1>2, <1>10 DEF LoadSigint, Release, signalVars
    <1>11. CASE EnqueuePosted \/ UNCHANGED vars
        BY <1>2, <1>11 DEF EnqueuePosted, vars, signalVars
    <1>12. ASSUME NEW t \in Threads, Step(t)
           PROVE  SignalsKept'
        BY <1>4, <1>5, <1>6, <1>7, <1>9, <1>10, <1>12, CheckStep, EndSignals DEF Step, Ops
    <1> QED BY <1>8, <1>11, <1>12 DEF Next

\* As long as no handler throws, a signal other than SIGINT that is raised while a
\* handler is registered for it stays pending until sys.checkSignals runs the handler.
THEOREM SignalsReachHandlers ==
    ASSUME ~HandlersThrow
    PROVE  Spec => []HandlersRun
    <1>1. Init => SignalsKept
        BY EmptySeq DEF Init, SignalsKept, CallsListed
    <1>2. IInv /\ SignalsKept /\ [Next]_vars => SignalsKept'
        BY SignalsStep
    <1>3. SignalsKept => HandlersRun
        BY DEF SignalsKept, HandlersRun, Awaited, Listed
    <1> QED BY <1>1, <1>2, <1>3, Invariant, PTL DEF Spec
================================================================================
