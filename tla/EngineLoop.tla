------------------------------ MODULE EngineLoop -------------------------------
(* Threads that run Praia code, seen from the dispatch loop of the VM           *)
(* (src/vm/vm.cpp): between two instructions a thread drains the calls other    *)
(* threads posted to it and looks for SIGINT; an instruction may call one of    *)
(* the natives that run program code while they hold something: Lock.withLock,  *)
(* SharedMap.update, withCancel (src/builtins/concurrency.cpp) and              *)
(* sys.checkSignals (src/interpreter_setup.cpp). What such a native has still   *)
(* to do when its callback ends is a frame of `stack[t]`.                       *)
EXTENDS Integers, Sequences, FiniteSets, SequencesExt

CONSTANTS
    Threads,      \* threads that run Praia code
    Engine,       \* the thread whose VM the plugin's workers captured
    Locks,        \* the Lock objects of the program
    TheMap,       \* the mutex of the one SharedMap
    Rank,         \* the order in which the program nests its mutexes
    Keys, Absent, MaxVal,
    Tokens, NoToken,
    Signals,      \* the signals raised, as numbers: the handlers run in this order
    Sigint,       \* the one the dispatch loop looks for
    Program,      \* the operations each thread's code performs ...
    PostedOps,    \* ... those of posted calls ...
    HandlerOps,   \* ... and those of signal handlers
    HandlersThrow,\* whether a signal handler may throw
    None,
    MaxDepth, MaxEvents  \* bounds: nested callbacks; posts and signals together

Mutexes == Locks \cup {TheMap}
OpNames == {"acquire", "release", "withLock", "set", "get", "delete", "clear",
            "update", "withCancel", "checkSignals", "onSignal"}

ASSUME EngineAssumption ==
    /\ IsFiniteSet(Threads) /\ Engine \in Threads /\ TheMap \notin Locks
    /\ Rank \in [Mutexes -> Nat] /\ \A l, m \in Mutexes : Rank[l] = Rank[m] => l = m
    /\ Signals \subseteq Nat /\ IsFiniteSet(Signals) /\ Sigint \in Signals
    /\ NoToken \notin Tokens /\ None \notin Threads /\ Absent \notin 0..MaxVal
    /\ Program \in [Threads -> SUBSET OpNames]
    /\ PostedOps \subseteq OpNames /\ HandlerOps \subseteq OpNames
    /\ HandlersThrow \in BOOLEAN
    /\ {MaxVal, MaxDepth, MaxEvents} \subseteq Nat \ {0}

VARIABLES
    stack,     \* natives in progress on each thread, innermost last
    want,      \* the operation a thread is blocked in, waiting for its mutex
    owner, depth,                 \* the recursive mutexes
    acquired,  \* acquire() calls not yet released: <<lock, nesting>>
    entries,                      \* the SharedMap
    current,                      \* g_currentCancel of each thread
    postedQueue, postedPending,   \* of the engine
    pendingSignals, handlers,     \* g_pendingSignals, g_signalHandlers
    ours,      \* signals for which praiaSignalHandler is installed
    seenInt,   \* threads that loaded a set SIGINT bit and have not cleared it
    posts, raises, ran, owed  \* history

lockVars   == <<owner, depth, acquired>>
postVars   == <<postedQueue, postedPending, posts, ran>>
signalVars == <<pendingSignals, handlers, ours, seenInt, raises, owed>>
vars == <<stack, want, lockVars, entries, current, postVars, signalVars>>

--------------------------------------------------------------------------------
(* Mutexes: std::recursive_mutex. *)

\* mutant: a mutex that its owner cannot take again
Available_NotRecursive(t, m) == owner[m] = None

Available(t, m) == owner[m] \in {t, None}

Held(t) == {m \in Mutexes : owner[m] = t}

Lock(t, m) == /\ owner' = [owner EXCEPT ![m] = t]
              /\ depth' = [depth EXCEPT ![m] = @ + 1]

Unlock(m) == /\ depth' = [depth EXCEPT ![m] = @ - 1]
             /\ owner' = [owner EXCEPT ![m] = IF depth[m] = 1 THEN None ELSE @]

--------------------------------------------------------------------------------
Top(t) == stack[t][Len(stack[t])]

Inside(t, kind) == \E i \in 1..Len(stack[t]) : stack[t][i].kind = kind

(* The code that runs now belongs to a posted call, to a handler, or to the     *)
(* thread's program.                                                            *)
OpsOf(t) == IF Inside(t, "posted") THEN PostedOps
            ELSE IF Inside(t, "signals") THEN HandlerOps ELSE Program[t]

(* The program's own discipline: it nests its mutexes in the order of their     *)
(* ranks, and the function it gives to update() does not change the map itself. *)
(* A posted call, which runs between any two instructions, knows of neither.    *)
Disciplined(t, op) ==
    \/ Inside(t, "posted")
    \/ /\ owner[op.mutex] = t \/ \A h \in Held(t) : Rank[h] < Rank[op.mutex]
       /\ op.name \in {"set", "delete", "clear", "update"} => ~Inside(t, "update")

(* A thread executes an instruction: not blocked, and past the two checks of    *)
(* the dispatch loop. A call posted after the check is as if posted after the   *)
(* instruction.                                                                 *)
Runs(t) == want[t] = None /\ t \notin seenInt /\ ~(t = Engine /\ postedPending)

Executes(t, op) == Runs(t) /\ op \in OpsOf(t)

Push(t, frame) == stack' = [stack EXCEPT ![t] = Append(@, frame)]
Pop(t) == stack' = [stack EXCEPT ![t] = SubSeq(@, 1, Len(@) - 1)]
ReplaceTop(t, frame) == stack' = [stack EXCEPT ![t][Len(stack[t])] = frame]

LockFrame(l)      == [kind |-> "withLock", mutex |-> l]
UpdateFrame(k)    == [kind |-> "update", key |-> k, seen |-> entries[k]]
CancelFrame(t, c) == [kind |-> "withCancel", prev |-> current[t], token |-> c]
PostedFrame(w)    == [kind |-> "posted", calls |-> w]
SignalFrame(c)    == [kind |-> "signals", calls |-> c]

--------------------------------------------------------------------------------
(* Operations that take a mutex. The effect happens when the mutex is free or   *)
(* the thread's own; otherwise the thread blocks in it.                         *)

ShortOps == {"set", "get", "delete", "clear"}

Effect(t, op) ==
    \/ /\ op.name = "acquire"
       /\ Lock(t, op.mutex)
       /\ acquired' = [acquired EXCEPT ![t] = Append(@, <<op.mutex, Len(stack[t])>>)]
       /\ UNCHANGED <<stack, entries>>
    \/ /\ op.name = "withLock"
       /\ Lock(t, op.mutex) /\ Push(t, LockFrame(op.mutex))
       /\ UNCHANGED <<acquired, entries>>
    \/ /\ op.name = "update"
       /\ Lock(t, TheMap) /\ Push(t, UpdateFrame(op.key))
       /\ UNCHANGED <<acquired, entries>>
    \/ /\ op.name \in ShortOps
       /\ \/ op.name = "set" /\ entries' = [entries EXCEPT ![op.key] = 0]
          \/ op.name = "delete" /\ entries' = [entries EXCEPT ![op.key] = Absent]
          \/ op.name = "clear" /\ entries' = [k \in Keys |-> Absent]
          \/ op.name = "get" /\ UNCHANGED entries
       /\ UNCHANGED <<stack, owner, depth, acquired>>

LockOps == [name : {"acquire", "withLock"}, mutex : Locks, key : {None}]
MapOps  == [name : {"set", "delete", "update", "get"}, mutex : {TheMap}, key : Keys]
             \cup [name : {"clear"}, mutex : {TheMap}, key : {None}]

\* mutant: set, get, delete and clear without the lock_guard
Call_ShortUnlocked(t, op) ==
    /\ Executes(t, op.name)
    /\ op.name \in {"withLock", "update"} => Len(stack[t]) < MaxDepth
    /\ op.name = "acquire" => Len(acquired[t]) = 0
    /\ Disciplined(t, op)
    /\ IF Available(t, op.mutex) \/ op.name \in ShortOps
       THEN Effect(t, op) /\ UNCHANGED want
       ELSE /\ want' = [want EXCEPT ![t] = op]
            /\ UNCHANGED <<stack, lockVars, entries>>
    /\ UNCHANGED <<current, postVars, signalVars>>

(* Lock.acquire, Lock.withLock and the methods of a SharedMap. *)
Call(t, op) ==
    /\ Executes(t, op.name)
    /\ op.name \in {"withLock", "update"} => Len(stack[t]) < MaxDepth
    /\ op.name = "acquire" => Len(acquired[t]) = 0
    /\ Disciplined(t, op)
    /\ IF Available(t, op.mutex)
       THEN Effect(t, op) /\ UNCHANGED want
       ELSE /\ want' = [want EXCEPT ![t] = op]
            /\ UNCHANGED <<stack, lockVars, entries>>
    /\ UNCHANGED <<current, postVars, signalVars>>

(* The mutex a thread is blocked on is handed to it. *)
Wake(t) ==
    /\ want[t] # None /\ Available(t, want[t].mutex)
    /\ Effect(t, want[t])
    /\ want' = [want EXCEPT ![t] = None]
    /\ UNCHANGED <<current, postVars, signalVars>>

(* Lock.release, by the code that acquired. *)
Release(t) ==
    /\ Executes(t, "release")
    /\ acquired[t] # <<>> /\ acquired[t][Len(acquired[t])][2] = Len(stack[t])
    /\ Unlock(acquired[t][Len(acquired[t])][1])
    /\ acquired' = [acquired EXCEPT ![t] = SubSeq(@, 1, Len(@) - 1)]
    /\ UNCHANGED <<stack, want, entries, current, postVars, signalVars>>

--------------------------------------------------------------------------------
(* withCancel. The token's own flag only ever goes up and is left out. *)

WithCancel(t, c) ==
    /\ Executes(t, "withCancel") /\ Len(stack[t]) < MaxDepth
    /\ Push(t, CancelFrame(t, c))
    /\ current' = [current EXCEPT ![t] = c]
    /\ UNCHANGED <<want, lockVars, entries, postVars, signalVars>>

--------------------------------------------------------------------------------
(* Calls posted by other threads. *)

(* A worker of a plugin: VM::enqueuePosted, one critical section. *)
EnqueuePosted ==
    /\ posts + raises < MaxEvents
    /\ posts' = posts + 1
    /\ postedQueue' = Append(postedQueue, posts + 1)
    /\ postedPending' = TRUE
    /\ UNCHANGED <<stack, want, lockVars, entries, current, ran, signalVars>>

\* mutant: one call is taken, and the flag cleared
DrainPosted_TakesOne(t) ==
    /\ t = Engine /\ postedPending /\ want[t] = None /\ t \notin seenInt
    /\ postedQueue # <<>> /\ postedQueue' = Tail(postedQueue) /\ postedPending' = FALSE
    /\ Push(t, PostedFrame(<<>>)) /\ ran' = Append(ran, Head(postedQueue))
    /\ UNCHANGED <<want, lockVars, entries, current, posts, signalVars>>

(* VM::drainPosted, from the dispatch loop: the whole queue is taken at once    *)
(* and its first call begins, on top of whatever the thread was doing.          *)
DrainPosted(t) ==
    /\ t = Engine /\ postedPending /\ want[t] = None /\ t \notin seenInt
    /\ postedQueue' = <<>> /\ postedPending' = FALSE
    /\ IF postedQueue = <<>>
       THEN UNCHANGED <<stack, ran>>
       ELSE Push(t, PostedFrame(Tail(postedQueue))) /\ ran' = Append(ran, Head(postedQueue))
    /\ UNCHANGED <<want, lockVars, entries, current, posts, signalVars>>

(* One posted call is over, returned or thrown: drainPosted goes on to the next. *)
NextPosted(t) ==
    /\ IF Top(t).calls = <<>>
       THEN Pop(t) /\ UNCHANGED ran
       ELSE /\ ReplaceTop(t, PostedFrame(Tail(Top(t).calls)))
            /\ ran' = Append(ran, Head(Top(t).calls))
    /\ UNCHANGED <<owner, depth, entries, current, owed>>

--------------------------------------------------------------------------------
(* Signals. *)

(* The C handler. A signal whose default action is installed ends the process   *)
(* and is not raised here.                                                      *)
Raise(s) ==
    /\ s \in ours /\ posts + raises < MaxEvents
    /\ raises' = raises + 1
    /\ pendingSignals' = pendingSignals \cup {s}
    /\ owed' = IF s \in handlers THEN owed \cup {s} ELSE owed
    /\ UNCHANGED <<stack, want, lockVars, entries, current, postVars,
                   handlers, ours, seenInt>>

(* sys.onSignal(name, fn) and sys.onSignal(name, nil). *)
OnSignal(t, s) ==
    /\ Executes(t, "onSignal")
    /\ IF s \in handlers
       THEN handlers' = handlers \ {s} /\ ours' = ours \ {s} /\ owed' = owed \ {s}
       ELSE handlers' = handlers \cup {s} /\ ours' = ours \cup {s} /\ UNCHANGED owed
    /\ UNCHANGED <<stack, want, lockVars, entries, current, postVars,
                   pendingSignals, seenInt, raises>>

\* The handlers run by ascending number of their signals.
InOrder(signals) == CHOOSE list \in [1..Cardinality(signals) -> signals] :
    ToSet(list) = signals /\ \A i, j \in DOMAIN list : i < j => list[i] < list[j]

\* mutant: one handler per call, although the whole mask is taken
CheckSignals_FirstOnly(t) ==
    /\ Executes(t, "checkSignals") /\ pendingSignals # {}
    /\ pendingSignals' = {}
    /\ LET toCall == InOrder(pendingSignals \cap handlers)
       IN  IF toCall = <<>>
           THEN UNCHANGED <<stack, owed>>
           ELSE Push(t, SignalFrame(<<>>)) /\ owed' = owed \ {Head(toCall)}
    /\ UNCHANGED <<want, lockVars, entries, current, postVars,
                   handlers, ours, seenInt, raises>>

(* sys.checkSignals: takes the whole mask, copies the handlers, calls them one  *)
(* after the other. The exchange and the lookup are one step: a handler set     *)
(* between them is as if set before.                                            *)
CheckSignals(t) ==
    /\ Executes(t, "checkSignals") /\ pendingSignals # {}
    /\ pendingSignals' = {}
    /\ LET toCall == InOrder(pendingSignals \cap handlers)
       IN  IF toCall = <<>>
           THEN UNCHANGED <<stack, owed>>
           ELSE Push(t, SignalFrame(Tail(toCall))) /\ owed' = owed \ {Head(toCall)}
    /\ UNCHANGED <<want, lockVars, entries, current, postVars,
                   handlers, ours, seenInt, raises>>

NextSignal(t) ==
    /\ IF Top(t).calls = <<>>
       THEN Pop(t) /\ UNCHANGED owed
       ELSE /\ ReplaceTop(t, SignalFrame(Tail(Top(t).calls)))
            /\ owed' = owed \ {Head(Top(t).calls)}
    /\ UNCHANGED <<owner, depth, entries, current, ran>>

(* The dispatch loop, when its instruction counter runs out: it loads the mask, *)
(* and only then clears the bit; another thread may do the same in between.     *)
LoadSigint(t) ==
    /\ Runs(t) /\ Sigint \in pendingSignals
    /\ seenInt' = seenInt \cup {t}
    /\ UNCHANGED <<stack, want, lockVars, entries, current, postVars,
                   pendingSignals, handlers, ours, raises, owed>>

(* Without a handler the error "Interrupted" is thrown here; a Throw that may   *)
(* follow says whether the code running now catches it.                         *)
ClearSigint(t) ==
    /\ t \in seenInt
    /\ seenInt' = seenInt \ {t}
    /\ pendingSignals' = pendingSignals \ {Sigint}
    /\ UNCHANGED <<stack, want, lockVars, entries, current, postVars,
                   handlers, ours, raises, owed>>

--------------------------------------------------------------------------------
(* The callback of the innermost native ends. *)

(* Code that took a lock with acquire() releases it before it ends. *)
MayEnd(t) ==
    /\ Runs(t) /\ stack[t] # <<>>
    /\ \A i \in 1..Len(acquired[t]) : acquired[t][i][2] < Len(stack[t])

(* The destructors of the lock_guard and of the CancelScope. *)
LeaveLock(t) ==
    /\ Top(t).kind = "withLock" /\ Unlock(Top(t).mutex) /\ Pop(t)
    /\ UNCHANGED <<entries, current, ran, owed>>

LeaveCancel(t) ==
    /\ Top(t).kind = "withCancel" /\ Pop(t)
    /\ current' = [current EXCEPT ![t] = Top(t).prev]
    /\ UNCHANGED <<owner, depth, entries, ran, owed>>

LeaveUpdate(t, stored) ==
    /\ Top(t).kind = "update" /\ Unlock(TheMap) /\ Pop(t)
    /\ entries' = stored
    /\ UNCHANGED <<current, ran, owed>>

Incremented(v) == IF v = Absent THEN 1 ELSE IF v = MaxVal THEN 1 ELSE v + 1

UnchangedByEnd == UNCHANGED <<want, acquired, postedQueue, postedPending,
                              posts, pendingSignals, handlers, ours, seenInt,
                              raises>>

Return(t) ==
    /\ MayEnd(t)
    /\ \/ LeaveLock(t)
       \/ LeaveCancel(t)
       \/ LeaveUpdate(t, [entries EXCEPT ![Top(t).key] = Incremented(Top(t).seen)])
       \/ Top(t).kind = "posted" /\ NextPosted(t)
       \/ Top(t).kind = "signals" /\ NextSignal(t)
    /\ UnchangedByEnd

\* mutant: lock() and unlock() around the call instead of a lock_guard
Throw_NoGuard(t) ==
    /\ MayEnd(t)
    /\ \/ /\ Top(t).kind \in {"withLock", "update"} /\ Pop(t)
          /\ UNCHANGED <<owner, depth, entries, current, ran, owed>>
       \/ LeaveCancel(t)
       \/ Top(t).kind = "posted" /\ NextPosted(t)
    /\ UnchangedByEnd

(* An error leaves the callback: thrown by the program (which may ask           *)
(* token.throwIfCancelled()) or by an interrupt. Only drainPosted catches it.   *)
Throw(t) ==
    /\ MayEnd(t)
    /\ \/ LeaveLock(t)
       \/ LeaveCancel(t)
       \/ LeaveUpdate(t, entries)
       \/ Top(t).kind = "posted" /\ NextPosted(t)
       \/ /\ Top(t).kind = "signals" /\ HandlersThrow /\ Pop(t)
          /\ UNCHANGED <<owner, depth, entries, current, ran, owed>>
    /\ UnchangedByEnd

--------------------------------------------------------------------------------
Init ==
    /\ stack = [t \in Threads |-> <<>>]
    /\ want = [t \in Threads |-> None]
    /\ owner = [m \in Mutexes |-> None] /\ depth = [m \in Mutexes |-> 0]
    /\ acquired = [t \in Threads |-> <<>>]
    /\ entries = [k \in Keys |-> Absent]
    /\ current = [t \in Threads |-> NoToken]
    /\ postedQueue = <<>> /\ postedPending = FALSE /\ posts = 0 /\ ran = <<>>
    /\ pendingSignals = {} /\ handlers = {} /\ ours = {Sigint} /\ seenInt = {}
    /\ raises = 0 /\ owed = {}

Step(t) ==
    \/ \E op \in LockOps \cup MapOps : Call(t, op)
    \/ Wake(t)
    \/ Release(t)
    \/ \E c \in Tokens : WithCancel(t, c)
    \/ DrainPosted(t)
    \/ \E s \in Signals : OnSignal(t, s)
    \/ CheckSignals(t)
    \/ LoadSigint(t)
    \/ ClearSigint(t)
    \/ Return(t)
    \/ Throw(t)

Next ==
    \/ \E t \in Threads : Step(t)
    \/ EnqueuePosted
    \/ \E s \in Signals : Raise(s)

Spec == Init /\ [][Next]_vars

--------------------------------------------------------------------------------
(* Properties. *)

Ops == LockOps \cup MapOps

TypeOK ==
    /\ want \in [Threads -> Ops \cup {None}]
    /\ owner \in [Mutexes -> Threads \cup {None}]
    /\ depth \in [Mutexes -> Nat]
    /\ entries \in [Keys -> 0..MaxVal \cup {Absent}]
    /\ current \in [Threads -> Tokens \cup {NoToken}]
    /\ postedPending \in BOOLEAN
    /\ pendingSignals \subseteq Signals /\ handlers \subseteq Signals
    /\ handlers \subseteq ours /\ seenInt \subseteq Threads

(* How often thread t locked m, according to the natives it is inside and to    *)
(* its acquire() calls.                                                         *)
TimesLocked(t, m) ==
    Cardinality({i \in 1..Len(stack[t]) :
        \/ stack[t][i].kind = "withLock" /\ stack[t][i].mutex = m
        \/ stack[t][i].kind = "update" /\ m = TheMap})
    + Cardinality({i \in 1..Len(acquired[t]) : acquired[t][i][1] = m})

(* A mutex is held exactly as often as the code that runs asked for it, by      *)
(* returns and errors in any order and with posted calls and handlers in        *)
(* between (concurrency.cpp:43: "the mutex is always released even when fn      *)
(* throws"). In particular no two threads are inside callbacks of one lock.     *)
LocksExact ==
    \A m \in Mutexes, t \in Threads :
        TimesLocked(t, m) = IF owner[m] = t THEN depth[m] ELSE 0

(* The token of the innermost withCancel among the first n natives of a stack.  *)
IsScope(frame) == frame.kind = "withCancel"
InForce(natives, n, token) ==
    /\ \A i \in 1..n : IsScope(natives[i]) /\ (\A j \in (i + 1)..n : ~IsScope(natives[j]))
                         => token = natives[i].token
    /\ (\A i \in 1..n : ~IsScope(natives[i])) => token = NoToken

(* g_currentCancel is the token of the innermost withCancel in progress on the  *)
(* thread, on every way out of one (concurrency.cpp: "Restores the previous     *)
(* binding on every exit path").                                                *)
ScopeExact == \A t \in Threads : InForce(stack[t], Len(stack[t]), current[t])

(* Mutexes and cancellation scopes balance, whatever throws.                    *)
ScopesExact == LocksExact /\ ScopeExact

(* SharedMap keeps the promise of AtomicMap: no step of another thread comes    *)
(* between the value update() reads and the one it stores.                      *)
Atomic == INSTANCE AtomicMap WITH map <- entries
ImplementsAtomicMap == Atomic!Spec

(* Every posted call is in exactly one place: in the queue, in a batch that is  *)
(* being run, or run. An error of one call loses none of the others             *)
(* (vm.cpp:327: "one bad callback shouldn't poison the queue").                 *)
Batches == {i \in DOMAIN stack[Engine] : stack[Engine][i].kind = "posted"}
Batch(i) == ToSet(stack[Engine][i].calls)

PostedOnce ==
    /\ IsInjective(ran) /\ IsInjective(postedQueue)
    /\ ToSet(ran) \cap ToSet(postedQueue) = {}
    /\ \A i \in Batches :
          /\ IsInjective(stack[Engine][i].calls)
          /\ Batch(i) \cap (ToSet(ran) \cup ToSet(postedQueue)) = {}
          /\ \A j \in Batches \ {i} : Batch(i) \cap Batch(j) = {}
    /\ 1..posts = ToSet(ran) \cup ToSet(postedQueue) \cup UNION {Batch(i) : i \in Batches}

(* The flag the dispatch loop reads outside the mutex never hides a call: what   *)
(* is queued while a batch is run is seen before the next instruction.          *)
NoneHidden == postedQueue # <<>> => postedPending

(* Each posted call is in one place, and none is forgotten there.               *)
PostedExact == PostedOnce /\ NoneHidden

(* A signal raised while a handler is registered for it stays pending until     *)
(* sys.checkSignals runs the handler (DOCUMENTATION.md:2483).                   *)
Awaited(s) ==
    \/ s \in pendingSignals
    \/ \E t \in Threads : \E i \in DOMAIN stack[t] :
          stack[t][i].kind = "signals" /\ s \in ToSet(stack[t][i].calls)
HandlersRun == \A s \in owed \ {Sigint} : Awaited(s)

(* The same for SIGINT, the signal of the documentation's example.              *)
SigintHandlerRuns == Sigint \in owed => Awaited(Sigint)

(* No threads wait for each other: each of a set of threads for a mutex that     *)
(* another of them, or the thread itself, holds. A callback run under a mutex   *)
(* may use what the mutex guards. Programs take different mutexes in one order  *)
(* (Disciplined): what is left to go wrong is entering the same one again.      *)
NoWaitCycle ==
    \A S \in (SUBSET Threads) \ {{}} :
        \E t \in S : want[t] = None \/ owner[want[t].mutex] \notin S
================================================================================
