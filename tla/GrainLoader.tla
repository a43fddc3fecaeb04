----------------------------- MODULE GrainLoader -----------------------------
(***************************************************************************)
(* Importing grains: VM::loadGrain, OP_IMPORT and OP_EXPORT (vm.cpp).      *)
(* Interpreter::loadGrain keeps the same tables.                           *)
(*                                                                         *)
(* A grain's top level runs in a VM of its own, nested in the import that  *)
(* loads it, and is cached when it has finished.  Cache and load stack     *)
(* belong to the root VM; the set of grains "imported in the current file" *)
(* belongs to the VM that executes the use.  A function of a grain runs in *)
(* the VM that calls it.                                                   *)
(***************************************************************************)
EXTENDS Naturals, Sequences, FiniteSets, SequencesExt

CONSTANTS
  Grains,      \* resolved paths
  Unreadable,  \* those that cannot be read, lexed, parsed or compiled
  MaxDepth     \* bound: frames on the stack

Script == "script"
None == "none"
Files == Grains \cup {Script}

ASSUME GrainsAssumption ==
  /\ Unreadable \subseteq Grains
  /\ Script \notin Grains /\ None \notin Grains
  /\ MaxDepth \in Nat \ {0}

(***************************************************************************)
(* A frame is the top level of a file in its own VM, with that VM's        *)
(* importedInCurrentFile, or a call of a function of a file in the VM of   *)
(* the nearest top level below.                                            *)
(***************************************************************************)
VARIABLES
  stack,     \* sequence of [file, top, imported], the innermost last
  cache,     \* grainCache of the root VM
  loading,   \* grainLoadStack_ of the root VM
  error,     \* an error raised and not yet caught: "none", or its kind
  failed,    \* history: [file, grain] of the use that raised it
  finished,  \* history: grain |-> times its top level has finished
  uses       \* history: file |-> grains its code has imported

vars == <<stack, cache, loading, error, failed, finished, uses>>

Errors == {None, "duplicate", "circular", "load", "thrown"}

Frames == [file : Files, top : BOOLEAN, imported : SUBSET Grains]

TypeOK ==
  /\ stack \in Seq(Frames)
  /\ cache \subseteq Grains
  /\ loading \in Seq(Grains)
  /\ error \in Errors
  /\ finished \in [Grains -> 0..2]
  /\ uses \in [Files -> SUBSET Grains]

NoUse == [file |-> None, grain |-> None]

Init ==
  /\ stack = <<[file |-> Script, top |-> TRUE, imported |-> {}]>>
  /\ cache = {}
  /\ loading = <<>>
  /\ error = None
  /\ failed = NoUse
  /\ finished = [g \in Grains |-> 0]
  /\ uses = [f \in Files |-> {}]

Current == Last(stack)

\* The top level whose VM executes the innermost of the frames s.
Vm(s) == CHOOSE k \in DOMAIN s : s[k].top /\ \A j \in k + 1..Len(s) : ~s[j].top

VmFrame == Vm(stack)

Imported == stack[VmFrame].imported

IsLoading(g) == \E i \in DOMAIN loading : loading[i] = g

Executing == stack # <<>> /\ error = None

-----------------------------------------------------------------------------
(* use: OP_IMPORT of grain g by the current frame.                         *)

Raise(kind, g) ==
  /\ error' = kind
  /\ failed' = [file |-> Current.file, grain |-> g]
  /\ UNCHANGED <<stack, cache, loading, finished, uses>>

UseDuplicate(g) ==
  /\ Executing
  /\ g \in Imported
  /\ Raise("duplicate", g)

UseCached(g) ==
  /\ Executing
  /\ g \notin Imported
  /\ g \in cache
  /\ stack' = [stack EXCEPT ![VmFrame].imported = @ \cup {g}]
  /\ uses' = [uses EXCEPT ![Current.file] = @ \cup {g}]
  /\ UNCHANGED <<cache, loading, error, failed, finished>>

Circular(g) == IsLoading(g)

\* A failure before the grain runs; FailedImportGuard takes g out of the
\* imported set again.
UseFails(g) ==
  /\ Executing
  /\ g \notin Imported \cup cache
  /\ Circular(g) \/ g \in Unreadable
  /\ Raise(IF Circular(g) THEN "circular" ELSE "load", g)

UseRuns(g) ==
  /\ Executing
  /\ g \notin Imported \cup cache
  /\ ~Circular(g)
  /\ g \notin Unreadable
  /\ Len(stack) < MaxDepth
  /\ finished[g] < 2
  /\ stack' = Append([stack EXCEPT ![VmFrame].imported = @ \cup {g}],
                     [file |-> g, top |-> TRUE, imported |-> {}])
  /\ loading' = Append(loading, g)
  /\ UNCHANGED <<cache, error, failed, finished, uses>>

-----------------------------------------------------------------------------
(* The grain's top level ends, at export or at its end.                    *)

Cached(g) == cache \cup {g}

\* The frame that imported the grain whose top level is the current frame.
Importer == stack[Len(stack) - 1].file

Finish ==
  /\ Executing
  /\ Len(stack) > 1
  /\ Current.top
  /\ stack' = Front(stack)
  /\ loading' = Front(loading)
  /\ cache' = Cached(Current.file)
  /\ finished' = [finished EXCEPT ![Current.file] = @ + 1]
  /\ uses' = [uses EXCEPT ![Importer] = @ \cup {Current.file}]
  /\ UNCHANGED <<error, failed>>

-----------------------------------------------------------------------------
(* Errors.  An error unwinds the current frame unless its code catches it. *)

Throw ==
  /\ Executing
  /\ error' = "thrown"
  /\ failed' = NoUse
  /\ UNCHANGED <<stack, cache, loading, finished, uses>>

Catch ==
  /\ stack # <<>>
  /\ error # None
  /\ error' = None
  /\ failed' = NoUse
  /\ UNCHANGED <<stack, cache, loading, finished, uses>>

\* A mutant: the load stack keeps a grain that failed.
LoadingAfterError_Kept == loading

LoadingAfterError == Front(loading)

\* FailedImportGuard: the VM that imported the grain forgets it.
Forget(s, g) == [s EXCEPT ![Vm(s)].imported = @ \ {g}]

\* A grain's top level fails: GrainError at the importer's use.
GrainFails ==
  /\ error # None
  /\ Len(stack) > 1
  /\ Current.top
  /\ stack' = Forget(Front(stack), Current.file)
  /\ loading' = LoadingAfterError
  /\ error' = "thrown"
  /\ failed' = NoUse
  /\ UNCHANGED <<cache, finished, uses>>

CallFails ==
  /\ error # None
  /\ Len(stack) > 1
  /\ ~Current.top
  /\ stack' = Front(stack)
  /\ UNCHANGED <<cache, loading, error, failed, finished, uses>>

-----------------------------------------------------------------------------
(* Calls of functions grains have exported.                                *)

Call(g) ==
  /\ Executing
  /\ g \in cache
  /\ Len(stack) < MaxDepth
  /\ stack' = Append(stack, [file |-> g, top |-> FALSE, imported |-> {}])
  /\ UNCHANGED <<cache, loading, error, failed, finished, uses>>

Return ==
  /\ Executing
  /\ ~Current.top
  /\ stack' = Front(stack)
  /\ UNCHANGED <<cache, loading, error, failed, finished, uses>>

Next ==
  \/ \E g \in Grains : \/ UseDuplicate(g) \/ UseCached(g) \/ UseFails(g)
                       \/ UseRuns(g) \/ Call(g)
  \/ Finish \/ Throw \/ Catch \/ GrainFails \/ CallFails \/ Return

Spec == Init /\ [][Next]_vars

-----------------------------------------------------------------------------
(* Properties.                                                             *)

\* However often and from wherever a grain is imported, and whatever failed
\* in between, its top level finishes at most once.
RunsOnce == \A g \in Grains : finished[g] <= 1

\* How many grains are being loaded by the first k of the frames s.
Depth(s, k) == Cardinality({j \in 2..k : s[j].top})

\* The load stack is exactly the chain of grains being loaded, outermost first,
\* no grain twice: cycles are found, and nothing else is taken for one.
LoadStackExact ==
  /\ Len(loading) = Depth(stack, Len(stack))
  /\ \A k \in 2..Len(stack) : stack[k].top => loading[Depth(stack, k)] = stack[k].file
  /\ \A i, j \in DOMAIN loading : i # j => loading[i] # loading[j]

\* A grain counted as imported has been loaded or is being loaded: after a
\* failed import, a second use tries again.
FailedCanBeRetried ==
  \A i \in DOMAIN stack : \A g \in stack[i].imported : g \in cache \/ IsLoading(g)

\* Together: what is kept about imports is as if failed ones had not been.
LoadingExact == RunsOnce /\ LoadStackExact /\ FailedCanBeRetried

\* "already imported in this file" is raised only for a grain that the
\* file's own code has imported before (or for the file itself).
DuplicateInSameFile ==
  error = "duplicate" /\ failed # NoUse /\ failed.file # failed.grain =>
    \/ failed.grain \in uses[failed.file]
    \/ IsLoading(failed.grain)
=============================================================================
