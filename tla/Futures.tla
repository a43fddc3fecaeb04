------------------------------- MODULE Futures -------------------------------
(***************************************************************************)
(* Futures of the runtime: tasks launched by OP_ASYNC, plugin Promises     *)
(* (builtins/plugin_callback.cpp), await, futures.race                     *)
(* (builtins/concurrency.cpp) and the tracker that keeps a running task's  *)
(* future referenced until it is done (vm/vm.cpp, retainInflightFuture).   *)
(*                                                                         *)
(* One engine thread runs a script that launches, awaits, races and drops  *)
(* futures; tasks, plugin threads, race waiters and the reaper are threads *)
(* of their own.                                                           *)
(***************************************************************************)
EXTENDS Naturals, FiniteSets

CONSTANTS Tasks, Promises,
          MaxHandles       \* copies of one Promise object (bound)

All  == Tasks \cup Promises
None == "none"

ASSUME FuturesAssumption ==
  Tasks \cap Promises = {} /\ None \notin All /\ MaxHandles \in Nat \ {0}

VARIABLES status,    \* "unborn", "running" or "ready", per future
          outcome,   \* of a promise that is ready: "value" or "error"
          handles,   \* live copies of the Promise object
          fulfilled, \* Promise::State::fulfilled
          settling,  \* the copy that won `fulfilled` is about to set this outcome
          owned,     \* futures the script holds
          inflight,  \* InflightState::futures
          pc,        \* where the engine thread is
          subject,   \* the future it launches or awaits, or the race's result
          raced,     \* the array given to race()
          unchecked, \* its elements the quick check has not reached
          waiter,    \* state of the waiter thread per raced future
          winner,    \* the atomic<int>
          mutex      \* who holds the race's mutex

vars == <<status, outcome, handles, fulfilled, settling, owned, inflight,
          pc, subject, raced, unchecked, waiter, winner, mutex>>

engineVars  == <<pc, subject, owned>>
raceVars    == <<raced, unchecked, waiter, winner, mutex>>
promiseVars == <<handles, fulfilled, settling>>

Init ==
  /\ status = [f \in All |-> "unborn"] /\ outcome = [f \in Promises |-> None]
  /\ handles = [f \in Promises |-> 0]
  /\ fulfilled = [f \in Promises |-> FALSE] /\ settling = [f \in Promises |-> None]
  /\ owned = {} /\ inflight = {}
  /\ pc = "idle" /\ subject = None
  /\ raced = {} /\ unchecked = {}
  /\ waiter = [f \in All |-> "none"] /\ winner = None /\ mutex = "free"

Ready(f) == status[f] = "ready"

\* The shared state becomes ready; every thread waiting on it may go on.
MakeReady(f) == status' = [status EXCEPT ![f] = "ready"]

Complete(f, o) ==
  /\ MakeReady(f)
  /\ outcome' = [outcome EXCEPT ![f] = o]

-----------------------------------------------------------------------------
(* Tasks and the tracker.                                                  *)

\* OP_ASYNC: std::async starts the thread ...
Launch(f) ==
  /\ pc = "idle" /\ f \in Tasks /\ status[f] = "unborn"
  /\ status' = [status EXCEPT ![f] = "running"]
  /\ owned' = owned \cup {f}
  /\ pc' = "retain" /\ subject' = f
  /\ UNCHANGED <<outcome, promiseVars, inflight, raceVars>>

\* ... and retainInflightFuture keeps one more reference to its future.
Retain ==
  /\ pc = "retain"
  /\ inflight' = inflight \cup {subject}
  /\ pc' = "idle" /\ subject' = None
  /\ UNCHANGED <<status, outcome, promiseVars, owned, raceVars>>

\* The task's lambda returns or throws.
TaskEnds(f) ==
  /\ f \in Tasks /\ status[f] = "running"
  /\ MakeReady(f)
  /\ UNCHANGED <<outcome, promiseVars, engineVars, inflight, raceVars>>

\* Mutant: a sweep empties the tracker.
Reap_Everything ==
  /\ inflight # {}
  /\ inflight' = {}
  /\ UNCHANGED <<status, outcome, promiseVars, engineVars, raceVars>>

\* Mutant: a sweep runs only while nothing is in flight.
Reap_WhenQuiet ==
  /\ \E f \in inflight : Ready(f)
  /\ \A f \in inflight : Ready(f)
  /\ inflight' = {}
  /\ UNCHANGED <<status, outcome, promiseVars, engineVars, raceVars>>

\* inflightReaperLoop: one sweep, after a notify or after five seconds.
Reap ==
  /\ \E f \in inflight : Ready(f)
  /\ inflight' = {f \in inflight : ~Ready(f)}
  /\ UNCHANGED <<status, outcome, promiseVars, engineVars, raceVars>>

\* The script's last reference to a future goes away.
DropFuture(f) ==
  /\ pc = "idle" /\ f \in owned
  /\ owned' = owned \ {f}
  /\ UNCHANGED <<status, outcome, promiseVars, inflight, pc, subject, raceVars>>

-----------------------------------------------------------------------------
(* Promise.                                                                *)

NewPromise(f) ==
  /\ pc = "idle" /\ f \in Promises /\ status[f] = "unborn"
  /\ status' = [status EXCEPT ![f] = "running"]
  /\ handles' = [handles EXCEPT ![f] = 1]
  /\ owned' = owned \cup {f}
  /\ UNCHANGED <<outcome, fulfilled, settling, inflight, pc, subject, raceVars>>

CopyPromise(f) ==
  /\ handles[f] \in 1 .. MaxHandles - 1
  /\ handles' = [handles EXCEPT ![f] = @ + 1]
  /\ UNCHANGED <<status, outcome, fulfilled, settling, engineVars, inflight, raceVars>>

\* resolve() and reject() first claim the promise ...
Claim(f, o) ==
  /\ handles[f] > 0 /\ ~fulfilled[f]
  /\ fulfilled' = [fulfilled EXCEPT ![f] = TRUE]
  /\ settling' = [settling EXCEPT ![f] = o]
  /\ UNCHANGED <<status, outcome, handles, engineVars, inflight, raceVars>>

\* ... then set the outcome, while their copy keeps the state alive.
Settle(f) ==
  /\ f \in Promises /\ settling[f] # None
  /\ Complete(f, settling[f])
  /\ settling' = [settling EXCEPT ![f] = None]
  /\ UNCHANGED <<handles, fulfilled, engineVars, inflight, raceVars>>

\* Mutant: the destructor does not look at `fulfilled`.
DropPromise_Always(f) ==
  /\ handles[f] > (IF settling[f] = None THEN 0 ELSE 1)
  /\ handles' = [handles EXCEPT ![f] = @ - 1]
  /\ IF handles[f] = 1
       THEN Complete(f, "error") /\ fulfilled' = [fulfilled EXCEPT ![f] = TRUE]
       ELSE UNCHANGED <<status, outcome, fulfilled>>
  /\ UNCHANGED <<settling, engineVars, inflight, raceVars>>

\* ~State, when the last copy goes: an unfulfilled promise fails.  The copy
\* that settles the promise is not dropped before it has done so.
DropPromise(f) ==
  /\ handles[f] > (IF settling[f] = None THEN 0 ELSE 1)
  /\ handles' = [handles EXCEPT ![f] = @ - 1]
  /\ IF handles[f] = 1 /\ ~fulfilled[f]
       THEN Complete(f, "error") /\ fulfilled' = [fulfilled EXCEPT ![f] = TRUE]
       ELSE UNCHANGED <<status, outcome, fulfilled>>
  /\ UNCHANGED <<settling, engineVars, inflight, raceVars>>

-----------------------------------------------------------------------------
(* await, and futures.all, which awaits its elements one after the other.  *)

Await(f) ==
  /\ pc = "idle" /\ f \in owned
  /\ pc' = "await" /\ subject' = f
  /\ UNCHANGED <<status, outcome, promiseVars, owned, inflight, raceVars>>

Awaited ==
  /\ pc = "await" /\ Ready(subject)
  /\ pc' = "idle" /\ subject' = None
  /\ UNCHANGED <<status, outcome, promiseVars, owned, inflight, raceVars>>

-----------------------------------------------------------------------------
(* futures.race.                                                           *)

Race(S) ==
  /\ pc = "idle" /\ S # {} /\ S \subseteq owned
  /\ \A f \in S : waiter[f] = "none"     \* bound: one waiter per future at a time
  /\ raced' = S /\ unchecked' = S /\ winner' = None
  /\ pc' = "check"
  /\ UNCHANGED <<status, outcome, promiseVars, owned, inflight, subject, waiter, mutex>>

\* The quick check of one element.
Check(f) ==
  /\ pc = "check" /\ f \in unchecked
  /\ IF Ready(f) THEN pc' = "return" /\ subject' = f /\ UNCHANGED unchecked
                 ELSE unchecked' = unchecked \ {f} /\ UNCHANGED <<pc, subject>>
  /\ UNCHANGED <<status, outcome, promiseVars, owned, inflight, raced, waiter, winner, mutex>>

\* One waiter thread per element.
Spawn ==
  /\ pc = "check" /\ unchecked = {}
  /\ waiter' = [f \in All |-> IF f \in raced THEN "wait" ELSE waiter[f]]
  /\ pc' = "lock"
  /\ UNCHANGED <<status, outcome, promiseVars, owned, inflight, subject, raced, unchecked, winner, mutex>>

\* A waiter's future is ready: the first compare_exchange wins.  (A waiter left
\* over from a race that is over belongs to that race's own `winner`.)
WaiterClaims(f) ==
  /\ waiter[f] = "wait" /\ Ready(f)
  /\ IF winner = None /\ f \in raced
       THEN winner' = f /\ waiter' = [waiter EXCEPT ![f] = "signal"]
       ELSE waiter' = [waiter EXCEPT ![f] = "none"] /\ UNCHANGED winner
  /\ UNCHANGED <<status, outcome, promiseVars, engineVars, inflight, raced, unchecked, mutex>>

\* Mutant: the winner notifies without taking the mutex.
Signal_NoLock(f) ==
  /\ waiter[f] = "signal"
  /\ waiter' = [waiter EXCEPT ![f] = "none"]
  /\ pc' = IF pc = "asleep" THEN "lock" ELSE pc
  /\ UNCHANGED <<status, outcome, promiseVars, owned, subject, inflight, raced, unchecked, winner, mutex>>

\* The winner takes the mutex and notifies.
Signal(f) ==
  /\ waiter[f] = "signal" /\ mutex = "free"
  /\ waiter' = [waiter EXCEPT ![f] = "none"]
  /\ pc' = IF pc = "asleep" THEN "lock" ELSE pc
  /\ UNCHANGED <<status, outcome, promiseVars, owned, subject, inflight, raced, unchecked, winner, mutex>>

\* The engine takes the mutex, evaluates the predicate ...
RaceLock ==
  /\ pc = "lock" /\ mutex = "free"
  /\ IF winner = None THEN pc' = "doze" /\ mutex' = "engine" /\ UNCHANGED subject
                      ELSE pc' = "return" /\ subject' = winner /\ UNCHANGED mutex
  /\ UNCHANGED <<status, outcome, promiseVars, owned, inflight, raced, unchecked, waiter, winner>>

\* ... and goes to sleep, which releases it.
RaceSleep ==
  /\ pc = "doze"
  /\ pc' = "asleep" /\ mutex' = "free"
  /\ UNCHANGED <<status, outcome, promiseVars, owned, inflight, subject, raced, unchecked, waiter, winner>>

SpuriousWakeup ==
  /\ pc = "asleep" /\ pc' = "lock"
  /\ UNCHANGED <<status, outcome, promiseVars, owned, inflight, subject, raceVars>>

\* The other waiters are detached and the winner's get() returns or throws.
RaceReturn ==
  /\ pc = "return" /\ Ready(subject)
  /\ pc' = "idle" /\ subject' = None /\ raced' = {} /\ unchecked' = {}
  /\ UNCHANGED <<status, outcome, promiseVars, owned, inflight, waiter, winner, mutex>>

-----------------------------------------------------------------------------
Engine == Retain \/ Awaited \/ Spawn \/ RaceLock \/ RaceSleep \/ RaceReturn
          \/ \E f \in All : Check(f)

Next ==
  \/ \E f \in All : Launch(f) \/ NewPromise(f) \/ DropFuture(f) \/ Await(f) \/ Check(f)
  \/ \E S \in SUBSET owned : Race(S)
  \/ \E f \in Tasks : TaskEnds(f)
  \/ \E f \in Promises, o \in {"value", "error"} : Claim(f, o)
  \/ \E f \in Promises : CopyPromise(f) \/ Settle(f) \/ DropPromise(f)
  \/ \E f \in All : WaiterClaims(f) \/ Signal(f)
  \/ Retain \/ Reap \/ Awaited \/ Spawn \/ RaceLock \/ RaceSleep \/ SpuriousWakeup \/ RaceReturn

Spec == Init /\ [][Next]_vars

\* Threads that can run do run, and the reaper's timer fires.  Nobody is
\* obliged to end a task, to settle a promise or to drop anything.
FairSpec ==
  /\ Spec /\ WF_vars(Engine) /\ WF_vars(Reap)
  /\ \A f \in All : WF_vars(WaiterClaims(f)) /\ SF_vars(Signal(f))
  /\ \A f \in Promises : WF_vars(Settle(f))

-----------------------------------------------------------------------------
TypeOK ==
  /\ status \in [All -> {"unborn", "running", "ready"}]
  /\ outcome \in [Promises -> {None, "value", "error"}]
  /\ handles \in [Promises -> 0 .. MaxHandles]
  /\ fulfilled \in [Promises -> BOOLEAN]
  /\ settling \in [Promises -> {None, "value", "error"}]
  /\ owned \subseteq All /\ inflight \subseteq Tasks
  /\ pc \in {"idle", "retain", "await", "check", "lock", "doze", "asleep", "return"}
  /\ subject \in All \cup {None} /\ winner \in All \cup {None}
  /\ raced \subseteq All /\ unchecked \subseteq raced
  /\ waiter \in [All -> {"none", "wait", "signal"}]
  /\ mutex \in {"free", "engine"}

\* A discarded future never makes its owner wait for the task: as long as a
\* task runs, the tracker holds a reference to its future, so the destructor
\* that blocks is never the script's.
DropNeverBlocks ==
  \A f \in Tasks : status[f] = "running" =>
     f \in inflight \/ (pc = "retain" /\ subject = f)

\* The future whose result race() returns is ready: race() itself never blocks
\* on a future that lost.
RaceReturnsReady == pc = "return" => Ready(subject)

\* An outcome is final: resolve(), reject() and the destructor of a Promise
\* never contradict each other.
OutcomeFinal ==
  [][\A f \in Promises : Ready(f) => Ready(f)' /\ outcome'[f] = outcome[f]]_vars

\* race() returns once one of its futures is ready.
RaceEnds == (\E f \in All : pc \in {"check", "lock", "doze", "asleep"} /\ f \in raced /\ Ready(f))
               ~> pc = "idle"

\* A finished task's result does not stay in the tracker for ever.
TrackerDrains == \A f \in Tasks : Ready(f) ~> f \notin inflight

\* Nobody waits on a promise that no one can settle any more: as long as its
\* future is pending, a copy of the Promise exists.
NoOrphan == \A f \in Promises : status[f] = "running" => handles[f] > 0
=============================================================================
