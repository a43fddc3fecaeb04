------------------------------ MODULE TaskQueue ------------------------------
(***************************************************************************)
(* Queue() and Queue(n) of builtins/concurrency.cpp: a mutex, one          *)
(* condition variable shared by senders and receivers, a FIFO buffer and a *)
(* closed flag.                                                            *)
(*                                                                         *)
(* Every step below is one critical section.  A thread whose wait          *)
(* predicate is false sleeps (it is in `asleep`); notify_all empties       *)
(* `asleep`; a woken thread re-enters through SendResume or RecvResume,    *)
(* which evaluate the predicate again, as condition_variable::wait does.   *)
(***************************************************************************)
EXTENDS Sequences, Naturals

CONSTANTS Threads, Values,
          Capacity,     \* 0 = unbounded
          MaxSends      \* bound on completed sends (model only)

ASSUME CapacityAssumption == Capacity \in Nat /\ MaxSends \in Nat

VARIABLES buffer, closed,
          pc,       \* "idle", or the call a thread is blocked inside
          arg,      \* the value a blocked send() carries
          asleep,   \* threads waiting on cv
          sent,     \* history: values pushed, in order
          got,      \* history: values popped, in order
          sawNil    \* history: some recv() has returned nil

vars == <<buffer, closed, pc, arg, asleep, sent, got, sawNil>>

Init ==
  /\ buffer = <<>> /\ closed = FALSE
  /\ pc = [t \in Threads |-> "idle"]
  /\ arg \in [Threads -> Values] /\ \A t, u \in Threads : arg[t] = arg[u]
  /\ asleep = {}
  /\ sent = <<>> /\ got = <<>> /\ sawNil = FALSE

NotifyAll == asleep' = {}

\* The wait predicates.
MaySend == Capacity = 0 \/ Len(buffer) < Capacity \/ closed
MayRecv == buffer # <<>> \/ closed

\* Mutant: a push wakes nobody.
Push_Silent(v) ==
  /\ buffer' = Append(buffer, v)
  /\ sent' = Append(sent, v)
  /\ UNCHANGED <<asleep, closed, got, sawNil>>

Push(v) ==
  /\ buffer' = Append(buffer, v)
  /\ sent' = Append(sent, v)
  /\ NotifyAll
  /\ UNCHANGED <<closed, got, sawNil>>

\* Mutant: only one thread is woken.
Pop_NotifyOne ==
  /\ buffer' = Tail(buffer)
  /\ got' = Append(got, Head(buffer))
  /\ \/ asleep = {} /\ UNCHANGED asleep
     \/ \E t \in asleep : asleep' = asleep \ {t}
  /\ UNCHANGED <<closed, sent, sawNil>>

Pop ==
  /\ buffer' = Tail(buffer)
  /\ got' = Append(got, Head(buffer))
  /\ NotifyAll
  /\ UNCHANGED <<closed, sent, sawNil>>

\* The call returns without touching the queue: a throw, or nil.
Untouched == UNCHANGED <<buffer, closed, asleep, sent, got>>

Return(t) == pc' = [pc EXCEPT ![t] = "idle"]

-----------------------------------------------------------------------------
\* send(): closed before waiting, room at once, or sleep until there is room.
Send(t, v) ==
  /\ pc[t] = "idle"
  /\ Len(sent) < MaxSends
  /\ \/ closed /\ Untouched /\ UNCHANGED <<pc, arg, sawNil>>
     \/ ~closed /\ MaySend /\ Push(v) /\ UNCHANGED <<pc, arg>>
     \/ /\ ~closed /\ ~MaySend
        /\ pc' = [pc EXCEPT ![t] = "send"]
        /\ arg' = [arg EXCEPT ![t] = v]
        /\ asleep' = asleep \cup {t}
        /\ UNCHANGED <<buffer, closed, sent, got, sawNil>>

\* Mutant: a woken sender pushes without evaluating the predicate again.
SendResume_NoLoop(t) ==
  /\ pc[t] = "send" /\ t \notin asleep
  /\ UNCHANGED arg
  /\ \/ closed /\ Untouched /\ Return(t) /\ UNCHANGED sawNil
     \/ ~closed /\ Push(arg[t]) /\ Return(t)

\* send() after a wakeup: throws if closed, pushes if there is room, or sleeps.
SendResume(t) ==
  /\ pc[t] = "send" /\ t \notin asleep
  /\ UNCHANGED arg
  /\ \/ closed /\ Untouched /\ Return(t) /\ UNCHANGED sawNil
     \/ ~closed /\ MaySend /\ Push(arg[t]) /\ Return(t)
     \/ /\ ~MaySend
        /\ asleep' = asleep \cup {t}
        /\ UNCHANGED <<buffer, closed, pc, sent, got, sawNil>>

\* recv() finds a value, finds the queue closed and drained, or sleeps.
Recv(t) ==
  /\ pc[t] = "idle"
  /\ UNCHANGED arg
  /\ \/ buffer # <<>> /\ Pop /\ UNCHANGED pc
     \/ buffer = <<>> /\ closed /\ Untouched /\ sawNil' = TRUE /\ UNCHANGED pc
     \/ /\ ~MayRecv
        /\ pc' = [pc EXCEPT ![t] = "recv"]
        /\ asleep' = asleep \cup {t}
        /\ UNCHANGED <<buffer, closed, sent, got, sawNil>>

\* recv() after a wakeup.
RecvResume(t) ==
  /\ pc[t] = "recv" /\ t \notin asleep
  /\ UNCHANGED arg
  /\ \/ buffer # <<>> /\ Pop /\ Return(t)
     \/ buffer = <<>> /\ closed /\ Untouched /\ sawNil' = TRUE /\ Return(t)
     \/ /\ ~MayRecv
        /\ asleep' = asleep \cup {t}
        /\ UNCHANGED <<buffer, closed, pc, sent, got, sawNil>>

\* tryRecv(): nil at once when nothing is pending.
TryRecv(t) ==
  /\ pc[t] = "idle"
  /\ buffer # <<>>
  /\ Pop
  /\ UNCHANGED <<pc, arg>>

\* Mutant: close() forgets to notify.
Close_Silent(t) ==
  /\ pc[t] = "idle"
  /\ closed' = TRUE
  /\ UNCHANGED <<buffer, pc, arg, asleep, sent, got, sawNil>>

\* close(): idempotent.
Close(t) ==
  /\ pc[t] = "idle"
  /\ closed' = TRUE
  /\ NotifyAll
  /\ UNCHANGED <<buffer, pc, arg, sent, got, sawNil>>

\* A condition variable may wake a thread for no reason.
SpuriousWakeup(t) ==
  /\ t \in asleep
  /\ asleep' = asleep \ {t}
  /\ UNCHANGED <<buffer, closed, pc, arg, sent, got, sawNil>>

Resume(t) == SendResume(t) \/ RecvResume(t)

Next ==
  \E t \in Threads :
    \/ \E v \in Values : Send(t, v)
    \/ SendResume(t)
    \/ Recv(t)
    \/ RecvResume(t)
    \/ TryRecv(t)
    \/ Close(t)
    \/ SpuriousWakeup(t)

Spec == Init /\ [][Next]_vars

\* A woken thread eventually gets the mutex.  Nobody is obliged to make a
\* new call.
FairSpec == Spec /\ \A t \in Threads : WF_vars(Resume(t))

-----------------------------------------------------------------------------
TypeOK ==
  /\ buffer \in Seq(Values) /\ sent \in Seq(Values) /\ got \in Seq(Values)
  /\ closed \in BOOLEAN /\ sawNil \in BOOLEAN
  /\ pc \in [Threads -> {"idle", "send", "recv"}]
  /\ arg \in [Threads -> Values]
  /\ asleep \subseteq Threads

\* Nobody sleeps through the event it waits for: a thread asleep in send() has
\* a full open queue, one asleep in recv() an empty open one.  Every critical
\* section that changes buffer or closed must notify all threads, because
\* senders and receivers share one condition variable.
SleepersBlocked ==
  \A t \in asleep : /\ pc[t] = "send" => ~MaySend
                    /\ pc[t] = "recv" => ~MayRecv
                    /\ pc[t] # "idle"

\* Queue(n) never holds more than n values, even when several woken senders
\* compete for one free place.
Bounded == Capacity > 0 => Len(buffer) <= Capacity

\* Values leave in the order in which they entered; none is lost or duplicated.
Fifo == sent = got \o buffer

\* DOCUMENTATION.md's consumer loop ends at the first nil: once some recv() has
\* returned nil the queue is closed and drained, and stays so.
NilIsFinal == sawNil => closed /\ buffer = <<>>

\* close() lets nothing more in, not even from senders that were blocked when
\* it was called.
ClosedStaysClosed == [][closed => closed' /\ sent' = sent]_vars

\* Every call that is blocked when the queue is closed returns.
CloseReleasesAll == \A t \in Threads : closed /\ pc[t] # "idle" ~> pc[t] = "idle"

\* A pending value and a blocked receiver do not wait for each other for ever.
ValuesDelivered ==
  \A n \in 0 .. MaxSends :
    (Len(got) = n /\ buffer # <<>> /\ \E t \in Threads : pc[t] = "recv") ~> Len(got) > n

\* The queue implements the closable FIFO its callers see.
Fifo_ == INSTANCE FifoQueue WITH items <- buffer, shut <- closed
ImplementsFifo == Fifo_!FSpec
=============================================================================
