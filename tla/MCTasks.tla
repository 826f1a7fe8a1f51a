------------------------------ MODULE MCTasks ------------------------------
(* Two processes, one task, two coroutines in each that call the manager.   *)
EXTENDS SustainedTasks

MCRetries == [t \in Tasks |-> 2]
=============================================================================
