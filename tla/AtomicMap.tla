------------------------------- MODULE AtomicMap -------------------------------
(* What `SharedMap` promises (src/builtins/concurrency.cpp: "atomic             *)
(* read-modify-write"): every operation is one step on a map of keys to values. *)
(* `set` stores 0 here and a function given to `update` adds one, so that a     *)
(* step that stores the successor of an old value is told from both.            *)
EXTENDS Naturals

CONSTANTS Keys, Absent, MaxVal

VARIABLE map

Incremented(v) == IF v = Absent THEN 1 ELSE IF v = MaxVal THEN 1 ELSE v + 1

Init == map = [k \in Keys |-> Absent]

Set(k)    == map' = [map EXCEPT ![k] = 0]
Update(k) == map' = [map EXCEPT ![k] = Incremented(map[k])]
Delete(k) == map' = [map EXCEPT ![k] = Absent]
Clear     == map' = [k \in Keys |-> Absent]

Next == Clear \/ \E k \in Keys : Set(k) \/ Update(k) \/ Delete(k)

Spec == Init /\ [][Next]_map
================================================================================
