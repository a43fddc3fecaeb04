--------------------------- MODULE TaskQueueProofs ---------------------------
(* Proofs about Queue(n) for any number of threads, any values and any      *)
(* capacity: no wakeup is lost, the bound holds, values keep their order,   *)
(* and the queue implements the closable FIFO of FifoQueue.                 *)
EXTENDS TaskQueue, SequenceTheorems, TLAPS

USE CapacityAssumption

IInv == TypeOK /\ SleepersBlocked /\ Bounded /\ Fifo /\ NilIsFinal

\* A push lengthens the buffer by one, a pop shortens it and hands over the head.
LEMMA BufferFacts ==
  /\ \A b \in Seq(Values), v \in Values :
        Append(b, v) \in Seq(Values) /\ Len(Append(b, v)) = Len(b) + 1
  /\ \A b \in Seq(Values) : b # <<>> =>
        /\ Tail(b) \in Seq(Values) /\ Head(b) \in Values
        /\ Len(Tail(b)) = Len(b) - 1 /\ b = <<Head(b)>> \o Tail(b)
  <1>1. \A b \in Seq(Values), v \in Values :
           Append(b, v) \in Seq(Values) /\ Len(Append(b, v)) = Len(b) + 1
    OBVIOUS
  <1>2. ASSUME NEW b \in Seq(Values), b # <<>>
        PROVE  /\ Tail(b) \in Seq(Values) /\ Head(b) \in Values
               /\ Len(Tail(b)) = Len(b) - 1
    BY <1>2
  <1>3. ASSUME NEW b \in Seq(Values), b # <<>>
        PROVE  b = <<Head(b)>> \o Tail(b)
    <2>1. Len(b) \in Nat /\ Len(b) > 0 /\ Len(<<Head(b)>> \o Tail(b)) = Len(b)
      BY <1>2, <1>3
    <2>2. \A i \in 1 .. Len(b) : (<<Head(b)>> \o Tail(b))[i] = b[i]
      BY <1>2, <1>3, <2>1
    <2>3. <<Head(b)>> \o Tail(b) \in Seq(Values)
      BY <1>2, <1>3
    <2> QED BY <2>1, <2>2, <2>3, SeqEqual
  <1> QED BY <1>1, <1>2, <1>3

\* A push into an open queue with room keeps the bound and the order.
LEMMA PushKeeps ==
  ASSUME IInv, NEW v \in Values, ~closed, MaySend, Push(v)
  PROVE  /\ buffer' \in Seq(Values) /\ sent' \in Seq(Values)
         /\ asleep' = {} /\ Bounded' /\ Fifo' /\ NilIsFinal'
  <1> USE DEF IInv, TypeOK, Push
  <1>1. buffer' \in Seq(Values) /\ sent' \in Seq(Values) /\ asleep' = {}
    BY DEF NotifyAll
  <1>2. Bounded'
    BY BufferFacts DEF Bounded, MaySend
  <1>3. Append(got \o buffer, v) = got \o Append(buffer, v)
    <2>1. got \o buffer \in Seq(Values) /\ <<v>> \in Seq(Values)
      OBVIOUS
    <2>2. /\ Append(got \o buffer, v) = (got \o buffer) \o <<v>>
          /\ Append(buffer, v) = buffer \o <<v>>
      BY <2>1, AppendIsConcat
    <2>3. (got \o buffer) \o <<v>> = got \o (buffer \o <<v>>)
      BY <2>1, ConcatAssociative
    <2> QED BY <2>2, <2>3
  <1>4. Fifo'
    BY <1>3 DEF Fifo
  <1>5. NilIsFinal'
    BY DEF NilIsFinal
  <1> QED BY <1>1, <1>2, <1>4, <1>5

\* A pop keeps the bound and the order.
LEMMA PopKeeps ==
  ASSUME IInv, buffer # <<>>, Pop
  PROVE  /\ buffer' \in Seq(Values) /\ got' \in Seq(Values)
         /\ asleep' = {} /\ Bounded' /\ Fifo' /\ NilIsFinal'
  <1> USE DEF IInv, TypeOK, Pop
  <1>1. /\ buffer' \in Seq(Values) /\ got' \in Seq(Values) /\ asleep' = {}
        /\ Len(buffer') = Len(buffer) - 1
    BY BufferFacts DEF NotifyAll
  <1>2. Bounded'
    BY <1>1 DEF Bounded
  <1>3. Fifo'
    <2> DEFINE h == Head(buffer)
               t == Tail(buffer)
    <2>1. h \in Values /\ t \in Seq(Values) /\ buffer = <<h>> \o t
      BY BufferFacts
    <2> HIDE DEF h, t
    <2>2. Append(got, h) = got \o <<h>>
      BY <2>1, AppendIsConcat
    <2>3. (got \o <<h>>) \o t = got \o (<<h>> \o t)
      BY <2>1, ConcatAssociative
    <2>4. got' = Append(got, h) /\ buffer' = t /\ sent' = sent
      BY DEF h, t
    <2> QED BY <2>1, <2>2, <2>3, <2>4 DEF Fifo
  <1>4. NilIsFinal'
    BY DEF NilIsFinal
  <1> QED BY <1>1, <1>2, <1>3, <1>4

\* A step that moves no value keeps the bound and the order.
LEMMA QuietKeeps ==
  ASSUME IInv, UNCHANGED <<buffer, sent, got>>
  PROVE  Bounded' /\ Fifo'
  BY DEF IInv, Bounded, Fifo

\* A new queue satisfies the invariant.
LEMMA InitInv == Init => IInv
  <1> SUFFICES ASSUME Init PROVE IInv
    OBVIOUS
  <1>1. TypeOK /\ SleepersBlocked /\ NilIsFinal
    <2>1. buffer \in Seq(Values) /\ sent \in Seq(Values) /\ got \in Seq(Values)
      BY EmptySeq DEF Init
    <2>2. TypeOK
      BY <2>1 DEF Init, TypeOK
    <2> QED BY <2>2 DEF Init, SleepersBlocked, NilIsFinal
  <1>2. Len(buffer) = 0 /\ got \o buffer = <<>>
    BY ConcatEmptySeq, EmptySeq DEF Init
  <1>3. Bounded /\ Fifo
    BY <1>2 DEF Init, Bounded, Fifo
  <1> QED BY <1>1, <1>3 DEF IInv

-----------------------------------------------------------------------------
\* Every critical section preserves the invariant.
LEMMA StepInv == IInv /\ [Next]_vars => IInv'
  <1> SUFFICES ASSUME IInv, [Next]_vars PROVE IInv'
    OBVIOUS
  <1> USE DEF IInv
  <1>1. ASSUME NEW t \in Threads, NEW v \in Values, Send(t, v) PROVE IInv'
    <2>1. CASE closed
      <3>1. UNCHANGED <<buffer, sent, got>>
        BY <1>1, <2>1 DEF Send, Untouched, MaySend, MayRecv
      <3>2. TypeOK'
        BY <1>1, <2>1 DEF Send, Untouched, MaySend, MayRecv, TypeOK
      <3>3. SleepersBlocked' /\ NilIsFinal'
        BY <1>1, <2>1 DEF Send, Untouched, MaySend, MayRecv, TypeOK, SleepersBlocked, NilIsFinal
      <3> QED BY <3>1, <3>2, <3>3, QuietKeeps
    <2>2. CASE ~closed /\ MaySend
      <3>1. Push(v) /\ UNCHANGED <<pc, arg>>
        BY <1>1, <2>2 DEF Send
      <3>2. TypeOK' /\ SleepersBlocked'
        BY <2>2, <3>1, PushKeeps DEF TypeOK, SleepersBlocked, Push
      <3> QED BY <2>2, <3>1, <3>2, PushKeeps
    <2>3. CASE ~closed /\ ~MaySend
      <3>1. UNCHANGED <<buffer, sent, got>>
        BY <1>1, <2>3 DEF Send, MaySend, MayRecv, Push
      <3>2. TypeOK'
        BY <1>1, <2>3 DEF Send, MaySend, MayRecv, Push, TypeOK
      <3>3. SleepersBlocked' /\ NilIsFinal'
        BY <1>1, <2>3 DEF Send, MaySend, MayRecv, Push, TypeOK, SleepersBlocked, NilIsFinal
      <3> QED BY <3>1, <3>2, <3>3, QuietKeeps
    <2> QED BY <2>1, <2>2, <2>3
  <1>2. ASSUME NEW t \in Threads, SendResume(t) PROVE IInv'
    <2> USE DEF SendResume
    <2>1. CASE closed
      <3>1. UNCHANGED <<buffer, sent, got>>
        BY <1>2, <2>1 DEF Untouched, Return, MaySend, MayRecv
      <3>2. TypeOK'
        BY <1>2, <2>1 DEF Untouched, Return, MaySend, MayRecv, TypeOK
      <3>3. SleepersBlocked' /\ NilIsFinal'
        BY <1>2, <2>1 DEF Untouched, Return, MaySend, MayRecv, TypeOK, SleepersBlocked, NilIsFinal
      <3> QED BY <3>1, <3>2, <3>3, QuietKeeps
    <2>2. CASE ~closed /\ MaySend
      <3>1. Push(arg[t]) /\ Return(t) /\ UNCHANGED arg /\ arg[t] \in Values
        BY <1>2, <2>2 DEF TypeOK
      <3>2. TypeOK' /\ SleepersBlocked'
        BY <2>2, <3>1, PushKeeps DEF TypeOK, SleepersBlocked, Push, Return
      <3> QED BY <2>2, <3>1, <3>2, PushKeeps
    <2>3. CASE ~closed /\ ~MaySend
      <3>1. UNCHANGED <<buffer, sent, got>>
        BY <1>2, <2>3 DEF MaySend, MayRecv, Push
      <3>2. TypeOK'
        BY <1>2, <2>3 DEF MaySend, MayRecv, Push, TypeOK
      <3>3. SleepersBlocked' /\ NilIsFinal'
        BY <1>2, <2>3 DEF MaySend, MayRecv, Push, TypeOK, SleepersBlocked, NilIsFinal
      <3> QED BY <3>1, <3>2, <3>3, QuietKeeps
    <2> QED BY <2>1, <2>2, <2>3
  <1>3. ASSUME NEW t \in Threads, Recv(t) PROVE IInv'
    <2> USE DEF Recv
    <2>1. CASE buffer # <<>>
      <3>1. Pop /\ UNCHANGED <<pc, arg>>
        BY <1>3, <2>1 DEF MayRecv
      <3>2. TypeOK' /\ SleepersBlocked'
        BY <2>1, <3>1, PopKeeps DEF TypeOK, SleepersBlocked, Pop
      <3> QED BY <2>1, <3>1, <3>2, PopKeeps
    <2>2. CASE buffer = <<>>
      <3>1. UNCHANGED <<buffer, sent, got>>
        BY <1>3, <2>2 DEF Untouched, MaySend, MayRecv
      <3>2. TypeOK'
        BY <1>3, <2>2 DEF Untouched, MaySend, MayRecv, TypeOK
      <3>3. SleepersBlocked' /\ NilIsFinal'
        BY <1>3, <2>2 DEF Untouched, MaySend, MayRecv, TypeOK, SleepersBlocked, NilIsFinal
      <3> QED BY <3>1, <3>2, <3>3, QuietKeeps
    <2> QED BY <2>1, <2>2
  <1>4. ASSUME NEW t \in Threads, RecvResume(t) PROVE IInv'
    <2> USE DEF RecvResume
    <2>1. CASE buffer # <<>>
      <3>1. Pop /\ Return(t) /\ UNCHANGED arg
        BY <1>4, <2>1 DEF MayRecv
      <3>2. TypeOK' /\ SleepersBlocked'
        BY <2>1, <3>1, PopKeeps DEF TypeOK, SleepersBlocked, Pop, Return
      <3> QED BY <2>1, <3>1, <3>2, PopKeeps
    <2>2. CASE buffer = <<>>
      <3>1. UNCHANGED <<buffer, sent, got>>
        BY <1>4, <2>2 DEF Untouched, Return, MaySend, MayRecv
      <3>2. TypeOK'
        BY <1>4, <2>2 DEF Untouched, Return, MaySend, MayRecv, TypeOK
      <3>3. SleepersBlocked' /\ NilIsFinal'
        BY <1>4, <2>2 DEF Untouched, Return, MaySend, MayRecv, TypeOK, SleepersBlocked, NilIsFinal
      <3> QED BY <3>1, <3>2, <3>3, QuietKeeps
    <2> QED BY <2>1, <2>2
  <1>5. ASSUME NEW t \in Threads, TryRecv(t) PROVE IInv'
    <2>1. buffer # <<>> /\ Pop /\ UNCHANGED <<pc, arg>>
      BY <1>5 DEF TryRecv
    <2>2. TypeOK' /\ SleepersBlocked'
      BY <2>1, PopKeeps DEF TypeOK, SleepersBlocked, Pop
    <2> QED BY <2>1, <2>2, PopKeeps
  <1>6. ASSUME NEW t \in Threads, Close(t) PROVE IInv'
    <2>1. UNCHANGED <<buffer, sent, got>>
      BY <1>6 DEF Close, NotifyAll
    <2>2. TypeOK'
      BY <1>6 DEF Close, NotifyAll, TypeOK
    <2>3. SleepersBlocked' /\ NilIsFinal'
      BY <1>6 DEF Close, NotifyAll, TypeOK, SleepersBlocked, NilIsFinal
    <2> QED BY <2>1, <2>2, <2>3, QuietKeeps
  <1>7. ASSUME NEW t \in Threads, SpuriousWakeup(t) PROVE IInv'
    <2>1. UNCHANGED <<buffer, sent, got>>
      BY <1>7 DEF SpuriousWakeup, MaySend, MayRecv
    <2>2. TypeOK'
      BY <1>7 DEF SpuriousWakeup, MaySend, MayRecv, TypeOK
    <2>3. SleepersBlocked' /\ NilIsFinal'
      BY <1>7 DEF SpuriousWakeup, MaySend, MayRecv, TypeOK, SleepersBlocked, NilIsFinal
    <2> QED BY <2>1, <2>2, <2>3, QuietKeeps
  <1>8. CASE UNCHANGED vars
    <2>1. UNCHANGED <<buffer, sent, got>>
      BY <1>8 DEF vars, MaySend, MayRecv
    <2>2. TypeOK'
      BY <1>8 DEF vars, MaySend, MayRecv, TypeOK
    <2>3. SleepersBlocked' /\ NilIsFinal'
      BY <1>8 DEF vars, MaySend, MayRecv, TypeOK, SleepersBlocked, NilIsFinal
    <2> QED BY <2>1, <2>2, <2>3, QuietKeeps
  <1> QED BY <1>1, <1>2, <1>3, <1>4, <1>5, <1>6, <1>7, <1>8 DEF Next

\* The inductive invariant holds in every reachable state.
LEMMA Invariance == Spec => []IInv
  BY InitInv, StepInv, PTL DEF Spec

\* No critical section of Queue forgets a sleeper: whoever is asleep in send()
\* or recv() really has to wait.
THEOREM NoLostWakeup == Spec => []SleepersBlocked
  <1>1. IInv => SleepersBlocked
    BY DEF IInv
  <1> QED BY Invariance, <1>1, PTL

\* Queue(n) holds at most n values, for every n and any number of senders.
THEOREM CapacityHolds == Spec => []Bounded
  <1>1. IInv => Bounded
    BY DEF IInv
  <1> QED BY Invariance, <1>1, PTL

\* Everything received is exactly what was sent first, in order.
THEOREM OrderKept == Spec => []Fifo
  <1>1. IInv => Fifo
    BY DEF IInv
  <1> QED BY Invariance, <1>1, PTL

\* After a recv() that returned nil nothing can ever be received again.
THEOREM NilEnds == Spec => []NilIsFinal
  <1>1. IInv => NilIsFinal
    BY DEF IInv
  <1> QED BY Invariance, <1>1, PTL

\* close() is final and stops blocked senders too.
THEOREM CloseIsFinal == Spec => ClosedStaysClosed
  <1>1. ASSUME [Next]_vars PROVE [closed => closed' /\ sent' = sent]_vars
    BY <1>1 DEF vars, Next, Send, SendResume, Recv, RecvResume, TryRecv, Close,
                SpuriousWakeup, Push, Pop, Untouched, MaySend
  <1> QED BY <1>1, PTL DEF Spec, ClosedStaysClosed

\* With blocking and wakeups hidden, the queue is the closable FIFO that
\* FifoQueue describes.
THEOREM QueueIsFifo == Spec => ImplementsFifo
  <1>1. Init => Fifo_!FInit
    BY DEF Init, Fifo_!FInit
  <1>2. IInv /\ [Next]_vars => [Fifo_!FNext]_<<buffer, closed>>
    <2> SUFFICES ASSUME IInv, [Next]_vars PROVE [Fifo_!FNext]_<<buffer, closed>>
      OBVIOUS
    <2> USE DEF IInv, TypeOK, Fifo_!FNext, Fifo_!Put, Fifo_!Get, Fifo_!Shut, Fifo_!HasRoom
    <2>1. ASSUME NEW t \in Threads, NEW v \in Values, Send(t, v)
          PROVE  [Fifo_!FNext]_<<buffer, closed>>
      BY <2>1 DEF Send, Push, Untouched, MaySend
    <2>2. ASSUME NEW t \in Threads, SendResume(t)
          PROVE  [Fifo_!FNext]_<<buffer, closed>>
      BY <2>2 DEF SendResume, Push, Untouched, MaySend
    <2>3. ASSUME NEW t \in Threads, Recv(t) \/ RecvResume(t) \/ TryRecv(t)
          PROVE  [Fifo_!FNext]_<<buffer, closed>>
      BY <2>3 DEF Recv, RecvResume, TryRecv, Pop, Untouched
    <2>4. ASSUME NEW t \in Threads, Close(t) \/ SpuriousWakeup(t)
          PROVE  [Fifo_!FNext]_<<buffer, closed>>
      BY <2>4 DEF Close, SpuriousWakeup
    <2>5. CASE UNCHANGED vars
      BY <2>5 DEF vars
    <2> QED BY <2>1, <2>2, <2>3, <2>4, <2>5 DEF Next
  <1> QED BY <1>1, <1>2, Invariance, PTL DEF Spec, ImplementsFifo, Fifo_!FSpec
=============================================================================
