---------------------------- MODULE TaskQueueMemory ----------------------------
(***************************************************************************)
(* The in-process backend of the task queue and the threads that consume   *)
(* it: MemoryTaskQueue (flask_server/module/task_queue.py) driven by the   *)
(* loop of TaskWorker (flask_server/module/task_worker.py).                *)
(*                                                                         *)
(* Every operation of the queue runs under one lock, so it is one step.    *)
(* What is left to go wrong is the condition variable: reserve sleeps on   *)
(* it, enqueue and retry notify one sleeper, and tasks that come due are   *)
(* moved to the ready queue without any notification.                      *)
(*                                                                         *)
(* The wait list is that of threading.Condition: first in, first out, and  *)
(* a sleeper that timed out stays on it until it has the lock again, so a  *)
(* notification may be spent on it.                                        *)
(***************************************************************************)
EXTENDS Integers, Sequences, SequencesExt, FiniteSets

CONSTANTS Task,          \* the tasks, each submitted once under its own id
          Unregistered,  \* tasks whose name has no handler
          Budget,        \* max_retries of each task
          Thread,        \* consumer threads of the process (concurrency)
          Delays,        \* {FALSE}, or {FALSE, TRUE}: enqueue(delay > 0) is used
          StatusMax,     \* task_status_max
          DeadMax,       \* task_dead_letter_max
          MaxExits       \* bound: handlers that leave by a BaseException

ASSUME MemoryAssumption ==
    /\ Task # {}
    /\ Unregistered \subseteq Task
    /\ Budget \in [Task -> Nat]
    /\ Delays \subseteq BOOLEAN
    /\ StatusMax \in Nat \ {0} /\ DeadMax \in Nat \ {0}
    /\ MaxExits \in Nat

VARIABLES ready,      \* deque of the tasks that may be taken, oldest first
          delayed,    \* the heap of delayed tasks in the order they come due
          due,        \* how many of its first entries are due already
          deadList,   \* the dead-letter deque, oldest first
          table,      \* the status records, the one changed longest ago first
          closed,     \* close() was called
          waiters,    \* wait list of the condition variable
          pc,         \* where each thread is
          job,        \* the envelope it took
          stopping,   \* the stop event of the TaskWorker
          done,       \* history: tasks whose handler returned normally
          dead,       \* history: tasks that were dead-lettered
          torn,       \* history: tasks that went down with their thread
          unnotified  \* history: how many tasks became ready without a notify

queue   == <<ready, delayed, due, deadList, table, closed>>
threads == <<waiters, pc, job>>
history == <<done, dead, torn, unnotified>>
vars    == <<queue, threads, stopping, history>>

Envelope == [task : Task, attempts : Nat]
Status   == {"queued", "running", "retrying", "succeeded", "dead"}
Record   == [task : Task, status : Status, attempts : Nat]

\* "reserve": about to take the lock, on entry or on return from the wait.
Pc == {"loop", "reserve", "waiting", "run", "ack", "halted"}

Holds(w) == pc[w] \in {"run", "ack"}

Held == {job[w] : w \in {v \in Thread : Holds(v)}}
Waiting == ToSet(ready) \cup ToSet(delayed)

Owed(t) == \E env \in Waiting \cup Held : env.task = t
Taken(t) == Owed(t) \/ t \in done \cup dead \cup torn
-----------------------------------------------------------------------------
Init ==
    /\ ready = << >> /\ delayed = << >> /\ due = 0
    /\ deadList = << >> /\ table = << >> /\ closed = FALSE
    /\ waiters = << >>
    /\ pc = [w \in Thread |-> "loop"]
    /\ job \in [Thread -> {[task |-> CHOOSE t \in Task : TRUE, attempts |-> 0]}]
    /\ stopping = FALSE
    /\ done = {} /\ dead = {} /\ torn = {} /\ unnotified = 0

Goto(w, l) == pc' = [pc EXCEPT ![w] = l]
-----------------------------------------------------------------------------
(* The parts of the operations; the caller holds the lock. *)

\* The last n elements of a sequence, what a bounded deque or table keeps.
Keep(seq, n) == IF Len(seq) > n THEN SubSeq(seq, Len(seq) - n + 1, Len(seq)) ELSE seq

\* The sequence without an element that is in it once at most; I is the set of its places.
Removed(seq, I) == IF I = {} THEN seq ELSE RemoveAt(seq, CHOOSE i \in I : TRUE)

RecordOf(env, s) == [task |-> env.task, status |-> s, attempts |-> env.attempts]

\* Mutant: setdefault, a record that is there is not changed.
SetStatusOnce(env, s) ==
    table' = IF \E i \in DOMAIN table : table[i].task = env.task THEN table
             ELSE Keep(Append(table, RecordOf(env, s)), StatusMax)
\* _set_status: the record moves to the end, the least recently changed ones go.
SetStatus(env, s) ==
    LET old == {i \in DOMAIN table : table[i].task = env.task}
    IN  table' = Keep(Append(Removed(table, old), RecordOf(env, s)), StatusMax)

\* Mutant: notify is forgotten.
NotifyForgotten(after) == waiters' = waiters /\ pc' = after
\* The first on the list wakes up, or had woken up already by its timeout; "after" is what
\* the step does to pc otherwise.
Notify(after) ==
    IF waiters = << >> THEN waiters' = waiters /\ pc' = after
    ELSE waiters' = Tail(waiters) /\ pc' = [after EXCEPT ![Head(waiters)] = "reserve"]

\* _push_delayed: a delay is never negative, so it comes due after those that are.
PushDelayed(env) ==
    \E i \in due + 1 .. Len(delayed) + 1 : delayed' = InsertAt(delayed, i, env)

\* Mutant: the last one popped is not appended.
PromotedButLast == ready \o SubSeq(delayed, 1, due - 1)
\* _promote_due: all that is due is ready now; nobody is notified of it.
Promoted == ready \o SubSeq(delayed, 1, due)

LeftDelayed == SubSeq(delayed, due + 1, Len(delayed))

PromoteDue ==
    /\ delayed' = LeftDelayed
    /\ due' = 0
    /\ unnotified' = unnotified + due
-----------------------------------------------------------------------------
(* Producers, and the rest of the process. *)

\* enqueue is accepted whether or not the queue was closed.
Enqueue(t) ==
    /\ ~Taken(t)
    /\ LET env == [task |-> t, attempts |-> 0]
       IN  /\ \E delay \in Delays :
                 IF delay THEN PushDelayed(env) /\ UNCHANGED ready
                 ELSE ready' = Append(ready, env) /\ UNCHANGED delayed
           /\ SetStatus(env, "queued")
    /\ Notify(pc)
    /\ UNCHANGED <<due, deadList, closed, job, stopping, history>>

\* stats() is a query, and moves what is due.
Stats ==
    /\ due > 0
    /\ ready' = Promoted
    /\ PromoteDue
    /\ UNCHANGED <<deadList, table, closed, threads, stopping, done, dead, torn>>

\* reset_task_queue: the old queue is closed, its workers are not stopped.
Close ==
    /\ ~closed
    /\ closed' = TRUE
    /\ waiters' = << >>
    /\ pc' = [w \in Thread |-> IF w \in ToSet(waiters) THEN "reserve" ELSE pc[w]]
    /\ UNCHANGED <<ready, delayed, due, deadList, table, job, stopping, history>>

\* TaskWorker.stop sets the event and waits for the threads.
Stop ==
    /\ ~stopping
    /\ stopping' = TRUE
    /\ UNCHANGED <<queue, threads, history>>

ComeDue ==
    /\ due < Len(delayed)
    /\ due' = due + 1
    /\ UNCHANGED <<ready, delayed, deadList, table, closed, threads, stopping, history>>
-----------------------------------------------------------------------------
(* TaskWorker._loop and reserve. *)

\* The stop event is looked at before each round only.
Begin(w) ==
    /\ pc[w] = "loop"
    /\ Goto(w, IF stopping THEN "halted" ELSE "reserve")
    /\ UNCHANGED <<queue, waiters, job, stopping, history>>

\* A waiter takes itself off the list when its wait ends.
Without(list, w) == Removed(list, {i \in DOMAIN list : list[i] = w})

Reserve(w) ==
    /\ pc[w] = "reserve"
    /\ Promoted # << >>
    /\ ready' = Tail(Promoted)
    /\ PromoteDue
    /\ job' = [job EXCEPT ![w] = Head(Promoted)]
    /\ SetStatus(Head(Promoted), "running")
    /\ waiters' = Without(waiters, w)
    /\ Goto(w, "run")
    /\ UNCHANGED <<deadList, closed, stopping, done, dead, torn>>

\* Nothing to take: the queue is closed or the deadline has passed.
ReserveNothing(w) ==
    /\ pc[w] = "reserve" /\ Promoted = << >>
    /\ waiters' = Without(waiters, w)
    /\ Goto(w, "loop")
    /\ UNCHANGED <<queue, job, stopping, history>>

\* Nothing to take before the deadline: sleep, for the first time or again.
Wait(w) ==
    /\ pc[w] = "reserve" /\ Promoted = << >> /\ ~closed
    /\ waiters' = Append(Without(waiters, w), w)
    /\ Goto(w, "waiting")
    /\ UNCHANGED <<queue, job, stopping, history>>

\* Mutant: cv.wait() without a timeout.
TimeoutNever(w) == FALSE
\* TASK_RESERVE_TIMEOUT is over, the thread has to get the lock.
Timeout(w) ==
    /\ pc[w] = "waiting"
    /\ Goto(w, "reserve")
    /\ UNCHANGED <<queue, waiters, job, stopping, history>>
-----------------------------------------------------------------------------
(* TaskWorker._handle. *)

Registered(w) == job[w].task \notin Unregistered

HandlerReturns(w) ==
    /\ pc[w] = "run" /\ Registered(w)
    /\ done' = done \cup {job[w].task}
    /\ Goto(w, "ack")
    /\ UNCHANGED <<queue, waiters, job, stopping, dead, torn, unnotified>>

Ack(w) ==
    /\ pc[w] = "ack"
    /\ SetStatus(job[w], "succeeded")
    /\ Goto(w, "loop")
    /\ UNCHANGED <<ready, delayed, due, deadList, closed, waiters, job, stopping, history>>

MayRetry(env) == env.attempts < Budget[env.task]

\* The handler raised an Exception and may be tried again.
Retry(w) ==
    /\ pc[w] = "run" /\ Registered(w) /\ MayRetry(job[w])
    /\ LET env == [job[w] EXCEPT !.attempts = @ + 1]
       IN  PushDelayed(env) /\ SetStatus(env, "retrying")
    /\ Notify([pc EXCEPT ![w] = "loop"])
    /\ UNCHANGED <<ready, due, deadList, closed, job, stopping, history>>

\* There is no handler, or it raised for the last time.
Bury(w) ==
    /\ pc[w] = "run"
    /\ Registered(w) => ~MayRetry(job[w])
    /\ deadList' = Keep(Append(deadList, job[w]), DeadMax)
    /\ SetStatus(job[w], "dead")
    /\ dead' = dead \cup {job[w].task}
    /\ Goto(w, "loop")
    /\ UNCHANGED <<ready, delayed, due, closed, waiters, job, stopping, done, torn, unnotified>>

\* sys.exit() in a handler, or another BaseException, passes "except Exception": the
\* thread ends, is not replaced, and its task is not settled.
HandlerExits(w) ==
    /\ pc[w] = "run" /\ Registered(w)
    /\ Cardinality(torn) < MaxExits
    /\ torn' = torn \cup {job[w].task}
    /\ Goto(w, "halted")
    /\ UNCHANGED <<queue, waiters, job, stopping, done, dead, unnotified>>
-----------------------------------------------------------------------------
Consume(w) ==
    \/ Begin(w) \/ Reserve(w) \/ ReserveNothing(w) \/ Wait(w) \/ Timeout(w)
    \/ HandlerReturns(w) \/ Ack(w) \/ Retry(w) \/ Bury(w) \/ HandlerExits(w)

Next ==
    \/ \E t \in Task : Enqueue(t)
    \/ Stats \/ Close \/ Stop \/ ComeDue
    \/ \E w \in Thread : Consume(w)

Spec == Init /\ [][Next]_vars

\* Threads get their turn and the lock, handlers end, time passes.
Fairness ==
    /\ WF_vars(ComeDue)
    /\ \A w \in Thread : WF_vars(Consume(w))

FairSpec == Spec /\ Fairness
-----------------------------------------------------------------------------
(* Properties. *)

Copies(t) ==
    Cardinality({i \in DOMAIN ready : ready[i].task = t})
    + Cardinality({i \in DOMAIN delayed : delayed[i].task = t})
    + Cardinality({w \in Thread : Holds(w) /\ job[w].task = t})

\* A task is never in two places, which unlike the Redis backend (task_queue.py:8,
\* docs/task-queue.md:64-70) needs no assumption: one copy while it is owed, and one outcome.
OnePlace(t) ==
    /\ Copies(t) <= 1
    /\ t \in dead \cup torn => Copies(t) = 0 /\ t \notin done
    /\ t \in done /\ Copies(t) = 1 => \E w \in Thread : pc[w] = "ack" /\ job[w].task = t

\* What get_status tells of a task is where the task is: place, record and attempts change
\* in one critical section (task_queue.py:238-326).  Only what cannot be helped by another
\* try is dead (docs/task-queue.md:70).
Exhausted(env) == env.task \in Unregistered \/ env.attempts >= Budget[env.task]
Agrees(r) ==
    LET env == [task |-> r.task, attempts |-> r.attempts]
    IN  CASE r.status = "queued"    -> env \in Waiting /\ r.attempts = 0
          [] r.status = "retrying"  -> env \in Waiting /\ r.attempts > 0
          [] r.status = "running"   -> env \in Held \/ r.task \in torn
          [] r.status = "succeeded" -> r.task \in done /\ ~Owed(r.task)
          [] r.status = "dead"      -> r.task \in dead /\ ~Owed(r.task) /\ Exhausted(env)
StatusAgrees ==
    /\ \A t \in Task : OnePlace(t)
    /\ Len(table) <= StatusMax /\ \A i \in DOMAIN table : Agrees(table[i])
    /\ Len(deadList) <= DeadMax /\ \A i \in DOMAIN deadList : Exhausted(deadList[i])

\* No wake-up is lost: while a thread sleeps, every ready task has another thread on its
\* way to it, except for those that became ready when nobody was notified.  For these the
\* sleepers' timeout is the only help.
WakeupsCoverReady ==
    (\E w \in Thread : pc[w] = "waiting") =>
        Len(ready) <= Cardinality({w \in Thread : pc[w] = "reserve"}) + unnotified

\* The queue keeps the promises of TaskDelivery.
Delivery == INSTANCE TaskDelivery WITH owed <- {t \in Task : Owed(t)}

DeliveryPromise == Delivery!Spec

\* A task leaves the queue in the end, closed or not, unless no thread is left to run it.
EveryTaskSettles ==
    \A t \in Task : Owed(t) ~> ~Owed(t) \/ \A w \in Thread : pc[w] = "halted"
=============================================================================
