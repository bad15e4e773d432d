--------------------------- MODULE MCTaskQueueRedis ---------------------------
(* Small instances of TaskQueueRedis for TLC. *)
EXTENDS TaskQueueRedis, TLC

CONSTANTS a, b, p, q     \* model values: two tasks and two worker processes

\* Each task may be retried once.
OneRetry == [t \in Task |-> 1]
NoRetry  == [t \in Task |-> 0]

Symmetry == Permutations(Process)
=============================================================================
