-------------------------- MODULE MCTaskQueueMemory --------------------------
(* Small instances of TaskQueueMemory for TLC. *)
EXTENDS TaskQueueMemory

CONSTANTS a, b, u, v, w     \* model values: two tasks and three consumer threads

\* The first task may be retried once, the others never.
SomeRetry == [t \in Task |-> IF t = a THEN 1 ELSE 0]
=============================================================================
