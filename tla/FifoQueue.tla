------------------------------ MODULE FifoQueue ------------------------------
(* What Queue(n) of builtins/concurrency.cpp promises its callers: a FIFO of *)
(* values that can be closed, accepts nothing once closed and still hands    *)
(* out what it holds.  Blocking, threads and wakeups are not visible here.   *)
EXTENDS Sequences, Naturals

CONSTANTS Values, Capacity      \* Capacity = 0: unbounded
VARIABLES items, shut

HasRoom == Capacity = 0 \/ Len(items) < Capacity

FInit == items = <<>> /\ shut = FALSE

Put(v) == ~shut /\ HasRoom /\ items' = Append(items, v) /\ UNCHANGED shut
Get    == items # <<>> /\ items' = Tail(items) /\ UNCHANGED shut
Shut   == shut' = TRUE /\ UNCHANGED items

FNext == (\E v \in Values : Put(v)) \/ Get \/ Shut
FSpec == FInit /\ [][FNext]_<<items, shut>>
=============================================================================
