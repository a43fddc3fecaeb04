---------------------------- MODULE FuturesProofs ----------------------------
(* Proofs about futures for any sets of tasks and promises and any number of *)
(* copies: the owner of a future is never made to wait for its task, an      *)
(* outcome is final, race() hands out a ready future and is never left       *)
(* asleep once it has a winner, and a pending promise still has a copy.      *)
EXTENDS Futures, TLAPS

USE FuturesAssumption

\* What a Promise's shared state says of its copies: it is created running,
\* with one copy; once claimed it is pending only while the claim is carried
\* out, by a copy that is still there; it is ready only after a claim.
PromiseOK ==
  \A f \in Promises :
    /\ status[f] = "unborn" => ~fulfilled[f] /\ handles[f] = 0
    /\ status[f] = "running" => handles[f] > 0 /\ (fulfilled[f] <=> settling[f] # None)
    /\ status[f] = "ready" => fulfilled[f]
    /\ settling[f] # None => status[f] = "running"

\* What the engine's position says of the future it works on.
AtFuture ==
  /\ pc = "retain" => subject \in Tasks
  /\ pc = "return" => subject \in raced /\ Ready(subject)

\* The engine holds the race's mutex between the predicate and the sleep only.
MutexOK == mutex = "engine" <=> pc = "doze"

\* Before the waiters run nobody has won; afterwards all of them wait as long
\* as nobody has.
WaitersOK ==
  /\ pc = "check" => winner = None /\ \A f \in raced : waiter[f] = "none"
  /\ pc \in {"lock", "doze", "asleep"} /\ winner = None => \A f \in raced : waiter[f] = "wait"
  /\ pc \in {"lock", "doze", "asleep"} /\ winner # None => winner \in raced /\ Ready(winner)
  /\ raced # {} => pc \in {"check", "lock", "doze", "asleep", "return"}

\* No wakeup of race() is lost: an engine thread that sleeps, or has decided
\* to, although a future has won, will be notified by the winner's waiter.
NoLostWakeup ==
  pc \in {"doze", "asleep"} /\ winner # None => waiter[winner] = "signal"

IInv == /\ TypeOK /\ PromiseOK /\ AtFuture /\ MutexOK /\ WaitersOK
        /\ DropNeverBlocks /\ NoLostWakeup

LEMMA InitHolds == Init => IInv
  BY DEF Init, IInv, TypeOK, PromiseOK, AtFuture, MutexOK, WaitersOK, DropNeverBlocks,
         NoLostWakeup, All, None, Ready

LEMMA StepKeeps == IInv /\ [Next]_vars => IInv'
  <1> SUFFICES ASSUME IInv, [Next]_vars PROVE IInv'
    OBVIOUS
  <1> USE DEF IInv, TypeOK, PromiseOK, AtFuture, MutexOK, WaitersOK, DropNeverBlocks,
              NoLostWakeup, All, None, Ready, MakeReady, Complete,
              engineVars, raceVars, promiseVars
  <1>1. ASSUME NEW f \in All, Launch(f) PROVE IInv'
    BY <1>1 DEF Launch
  <1>2. ASSUME NEW f \in All, NewPromise(f) PROVE IInv'
    BY <1>2 DEF NewPromise
  <1>3. ASSUME NEW f \in All, DropFuture(f) PROVE IInv'
    BY <1>3 DEF DropFuture
  <1>4. ASSUME NEW f \in All, Await(f) PROVE IInv'
    BY <1>4 DEF Await
  <1>5. ASSUME NEW f \in All, Check(f) PROVE IInv'
    BY <1>5 DEF Check
  <1>6. ASSUME NEW f \in All, WaiterClaims(f) PROVE IInv'
    BY <1>6 DEF WaiterClaims
  <1>7. ASSUME NEW f \in All, Signal(f) PROVE IInv'
    BY <1>7 DEF Signal
  <1>8. ASSUME NEW S \in SUBSET owned, Race(S) PROVE IInv'
    BY <1>8 DEF Race
  <1>9. ASSUME NEW f \in Tasks, TaskEnds(f) PROVE IInv'
    BY <1>9 DEF TaskEnds
  <1>10. ASSUME NEW f \in Promises, NEW o \in {"value", "error"}, Claim(f, o) PROVE IInv'
    BY <1>10 DEF Claim
  <1>11. ASSUME NEW f \in Promises, CopyPromise(f) PROVE IInv'
    BY <1>11 DEF CopyPromise
  <1>12. ASSUME NEW f \in Promises, Settle(f) PROVE IInv'
    BY <1>12 DEF Settle
  <1>13. ASSUME NEW f \in Promises, DropPromise(f) PROVE IInv'
    <2>1. handles[f] \in 1 .. MaxHandles /\ handles'[f] = handles[f] - 1
      BY <1>13 DEF DropPromise
    <2>2. handles' \in [Promises -> 0 .. MaxHandles]
      BY <1>13, <2>1 DEF DropPromise
    <2>3. CASE handles[f] = 1 /\ ~fulfilled[f]
      <3>1. /\ f \notin Tasks /\ settling[f] = None /\ status[f] = "running"
            /\ status' = [status EXCEPT ![f] = "ready"]
            /\ fulfilled' = [fulfilled EXCEPT ![f] = TRUE]
            /\ handles' = [handles EXCEPT ![f] = 0]
        BY <1>13, <2>1, <2>3 DEF DropPromise
      <3>2. outcome' \in [Promises -> {None, "value", "error"}]
        BY <1>13, <2>3 DEF DropPromise
      <3>3. UNCHANGED <<settling, engineVars, inflight, raceVars>>
        BY <1>13 DEF DropPromise
      <3>4. TypeOK'
        BY <2>2, <3>1, <3>2, <3>3
      <3>5. PromiseOK'
        BY <3>1, <3>3
      <3>6. AtFuture' /\ MutexOK'
        BY <3>1, <3>3
      <3>7. WaitersOK'
        BY <3>1, <3>3
      <3>8. DropNeverBlocks' /\ NoLostWakeup'
        BY <3>1, <3>3
      <3> QED BY <3>4, <3>5, <3>6, <3>7, <3>8
    <2>4. CASE handles[f] = 1 /\ fulfilled[f]
      <3>1. settling[f] = None /\ status[f] = "ready"
        BY <1>13, <2>1, <2>4 DEF DropPromise
      <3> QED BY <1>13, <2>2, <2>4, <3>1 DEF DropPromise
    <2>5. CASE handles[f] # 1
      <3>1. handles'[f] > 0
        BY <2>1, <2>5
      <3> QED BY <1>13, <2>2, <2>5, <3>1 DEF DropPromise
    <2> QED BY <2>3, <2>4, <2>5
  <1>14. ASSUME Retain PROVE IInv'
    BY <1>14 DEF Retain
  <1>15. ASSUME Reap PROVE IInv'
    BY <1>15 DEF Reap
  <1>16. ASSUME Awaited PROVE IInv'
    BY <1>16 DEF Awaited
  <1>17. ASSUME Spawn PROVE IInv'
    BY <1>17 DEF Spawn
  <1>18. ASSUME RaceLock PROVE IInv'
    BY <1>18 DEF RaceLock
  <1>19. ASSUME RaceSleep PROVE IInv'
    BY <1>19 DEF RaceSleep
  <1>20. ASSUME SpuriousWakeup PROVE IInv'
    BY <1>20 DEF SpuriousWakeup
  <1>21. ASSUME RaceReturn PROVE IInv'
    BY <1>21 DEF RaceReturn
  <1>22. ASSUME UNCHANGED vars PROVE IInv'
    BY <1>22 DEF vars
  <1> QED BY <1>1, <1>2, <1>3, <1>4, <1>5, <1>6, <1>7, <1>8, <1>9, <1>10, <1>11, <1>12, <1>13, <1>14, <1>15, <1>16, <1>17, <1>18, <1>19, <1>20, <1>21, <1>22 DEF Next

\* Every behaviour of the futures satisfies IInv.
THEOREM Invariant == Spec => []IInv
  <1> QED BY InitHolds, StepKeeps, PTL DEF Spec

\* TypeOK: counters of copies stay in range and the tracker holds tasks only.
THEOREM TypeCorrect == Spec => []TypeOK
  <1>1. IInv => TypeOK
    BY DEF IInv
  <1> QED BY Invariant, <1>1, PTL

\* DropNeverBlocks: from the moment std::async has started a task until the
\* task has ended, the tracker, or the launching engine, refers to its future,
\* so dropping the script's reference never runs the destructor that blocks
\* (OP_ASYNC, retainInflightFuture and the reaper).
THEOREM DiscardsAreFree == Spec => []DropNeverBlocks
  <1>1. IInv => DropNeverBlocks
    BY DEF IInv
  <1> QED BY Invariant, <1>1, PTL

\* RaceReturnsReady: the future whose get() race() calls last is ready, be it
\* found by the quick check or by a waiter, whatever the order of the threads.
THEOREM RaceHandsOutReady == Spec => []RaceReturnsReady
  <1>1. IInv => RaceReturnsReady
    BY DEF IInv, AtFuture, RaceReturnsReady
  <1> QED BY Invariant, <1>1, PTL

\* NoLostWakeup: the waiter that wins sets `winner` outside the mutex, and yet
\* the engine never sleeps through it, because the waiter takes the mutex
\* before it notifies.  This is the safety half of RaceEnds.
THEOREM WakeupsArrive == Spec => []NoLostWakeup
  <1>1. IInv => NoLostWakeup
    BY DEF IInv
  <1> QED BY Invariant, <1>1, PTL

\* NoOrphan: a Promise whose future is pending still has a copy that may settle
\* it, or fail it when dropped (Promise::State::~State).
THEOREM PendingHasCopy == Spec => []NoOrphan
  <1>1. IInv => NoOrphan
    <2> SUFFICES ASSUME IInv, NEW f \in Promises, status[f] = "running" PROVE handles[f] > 0
      BY DEF NoOrphan
    <2> QED BY DEF IInv, PromiseOK
  <1> QED BY Invariant, <1>1, PTL

\* The step form of OutcomeFinal.
KeepsOutcome == \A f \in Promises : Ready(f) => Ready(f)' /\ outcome'[f] = outcome[f]

\* OutcomeFinal: resolve(), reject() and the destructor of the last copy race to
\* settle one promise, and what the first of them has set is never changed.
THEOREM OutcomesAreFinal == Spec => OutcomeFinal
  <1>1. IInv /\ [Next]_vars => [KeepsOutcome]_vars
    <2> SUFFICES ASSUME IInv, Next, NEW f \in Promises, status[f] = "ready"
                 PROVE  status'[f] = "ready" /\ outcome'[f] = outcome[f]
      BY DEF KeepsOutcome, Ready
    <2>0. f \in All /\ f \notin Tasks /\ fulfilled[f] /\ settling[f] = None
      BY DEF IInv, PromiseOK, All
    <2> USE <2>0 DEF IInv, TypeOK, MakeReady, Complete, engineVars, raceVars, promiseVars
    <2>1. ASSUME NEW g \in All, Launch(g) \/ NewPromise(g)
          PROVE  status'[f] = "ready" /\ outcome'[f] = outcome[f]
      BY <2>1 DEF Launch, NewPromise
    <2>2. ASSUME NEW g \in Tasks, TaskEnds(g)
          PROVE  status'[f] = "ready" /\ outcome'[f] = outcome[f]
      BY <2>2 DEF TaskEnds
    <2>3. ASSUME NEW g \in Promises, Settle(g) \/ DropPromise(g)
          PROVE  status'[f] = "ready" /\ outcome'[f] = outcome[f]
      BY <2>3 DEF Settle, DropPromise
    <2>4. CASE UNCHANGED <<status, outcome>>
      BY <2>4
    <2>5. (\E g \in All : Launch(g) \/ NewPromise(g)) \/ (\E g \in Tasks : TaskEnds(g))
          \/ (\E g \in Promises : Settle(g) \/ DropPromise(g)) \/ UNCHANGED <<status, outcome>>
      BY DEF Next, DropFuture, Await, Check, Race, Claim, CopyPromise, WaiterClaims, Signal,
             Retain, Reap, Awaited, Spawn, RaceLock, RaceSleep, SpuriousWakeup, RaceReturn
    <2> QED BY <2>1, <2>2, <2>3, <2>4, <2>5
  <1> QED BY Invariant, <1>1, PTL DEF Spec, OutcomeFinal, KeepsOutcome
=============================================================================
