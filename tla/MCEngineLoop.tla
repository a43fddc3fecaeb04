----------------------------- MODULE MCEngineLoop ------------------------------
(* Instances of EngineLoop. The main thread is the engine plugins post to; a    *)
(* task shares its lock, its SharedMap and the process's signals.               *)
EXTENDS EngineLoop

MCRank == [m \in Mutexes |-> IF m = TheMap THEN 0 ELSE 1]

MCProgram == [t \in Threads |->
    IF t = Engine THEN {"acquire", "release", "update", "withCancel", "checkSignals", "onSignal"}
    ELSE {"update", "withLock", "clear", "get"}]

(* The program the documentation shows: a loop that asks for signals. *)
SignalProgram == [t \in Threads |-> IF t = Engine THEN {"checkSignals", "onSignal", "withCancel"} ELSE {"checkSignals"}]
================================================================================
