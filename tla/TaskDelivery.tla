----------------------------- MODULE TaskDelivery -----------------------------
(***************************************************************************)
(* What the task queue promises, whichever backend carries it              *)
(* (flask_server/module/task_queue.py, BaseTaskQueue and the module        *)
(* docstring): a submitted task is owed an execution until its handler has *)
(* returned normally or it is on the dead-letter list.  The only other way *)
(* out of the queue is named here: Tear, a crash or a backend error that   *)
(* hits a copy while a worker carries it between two places.               *)
(***************************************************************************)

CONSTANT Task            \* the tasks, each with its own task_id

VARIABLES owed,          \* tasks the queue still has to execute
          done,          \* tasks whose handler returned normally
          dead,          \* tasks put on the dead-letter list
          torn           \* tasks of which a copy was dropped by a fault

vars == <<owed, done, dead, torn>>

Init == owed = {} /\ done = {} /\ dead = {} /\ torn = {}

Known == owed \cup done \cup dead \cup torn

\* The queue takes a task.
Submit(t) ==
    /\ t \notin Known
    /\ owed' = owed \cup {t}
    /\ UNCHANGED <<done, dead, torn>>

\* The handler returned normally; the task is owed until it is confirmed.  (A worker that
\* outlived the visibility timeout may finish a task that is no longer owed.)
Succeed(t) ==
    /\ t \in Known
    /\ done' = done \cup {t}
    /\ UNCHANGED <<owed, dead, torn>>

\* Such a worker, not knowing of the other one, puts back what was settled already.
Revive(t) ==
    /\ t \in Known \ owed
    /\ owed' = owed \cup {t}
    /\ UNCHANGED <<done, dead, torn>>

\* The last copy leaves the queue, and only because the task has an outcome.
Release(t) ==
    /\ t \in owed \cap (done \cup dead)
    /\ owed' = owed \ {t}
    /\ UNCHANGED <<done, dead, torn>>

\* The task is put on the dead-letter list, and with its last copy it leaves the queue.
Bury(t) ==
    /\ t \in owed
    /\ dead' = dead \cup {t}
    /\ owed' \in {owed, owed \ {t}}
    /\ UNCHANGED <<done, torn>>

\* A fault drops copies of the tasks S; those without another copy leave the queue.
Tear(S) ==
    /\ S \subseteq Known
    /\ torn' = torn \cup S
    /\ \E gone \in SUBSET S : owed' = owed \ gone
    /\ UNCHANGED <<done, dead>>

Next ==
    \/ \E t \in Task : Submit(t) \/ Succeed(t) \/ Revive(t) \/ Release(t) \/ Bury(t)
    \/ \E S \in SUBSET Task : Tear(S)

Spec == Init /\ [][Next]_vars
=============================================================================
