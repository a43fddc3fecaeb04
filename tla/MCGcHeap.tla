------------------------------ MODULE MCGcHeap ------------------------------
(* Finite heaps for GcHeap.                                                *)
EXTENDS GcHeap, TLC

CONSTANTS a, f, u,           \* a container, a callable, an upvalue cell
          a1,                \* its element slot
          f1, f2,            \* the callable's slots
          u1,                \* the cell's value
          r1, r2, k1, p1, t1, t2

\* A container and a closure over an upvalue cell.
OwnerUpvalue == [s \in {a1, f1, f2, u1} |->
                 CASE s = a1 -> a [] s = u1 -> u [] OTHER -> f]

Symmetry == {p @@ q : p \in Permutations({r1, r2}), q \in Permutations({t1, t2})}
=============================================================================
