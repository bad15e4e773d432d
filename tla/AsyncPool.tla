------------------------------ MODULE AsyncPool ------------------------------
(***************************************************************************)
(* BoundedExecutor and the tasks that AsyncTaskUtil runs on it             *)
(* (flask_server/util/async_task_util.py): a semaphore bounds the queue of *)
(* a ThreadPoolExecutor, and a command reports to on_success or on_error.  *)
(*                                                                         *)
(* ThreadPoolExecutor is external: submit() first puts the task in the     *)
(* queue, then starts a thread if all are busy; when the thread cannot be  *)
(* started submit() raises, and the task is in the queue all the same.  A  *)
(* future calls its callback when it is done, or at once if it already is. *)
(***************************************************************************)
EXTENDS Integers, FiniteSets, Sequences

CONSTANTS Task,          \* calls of submit_cmd_task and submit_func_task
          Command,       \* those that run a command, a subset of Task
          Keeper,        \* commands that leave a child holding the output pipe
          MaxWorkers,    \* thread_num
          MaxPending,    \* async_task_queue_max
          MaxFailures    \* bound: threads that cannot be started

\* What the constants are; ASSUMEd where the module is instantiated.
PoolAssumption ==
    /\ IsFiniteSet(Task) /\ Command \subseteq Task /\ Keeper \subseteq Command
    /\ MaxWorkers \in Nat \ {0} /\ MaxPending \in Nat /\ MaxFailures \in Nat

VARIABLES permits,    \* the semaphore
          caller,     \* where the submitting thread of each task is
          work,       \* where the task itself is
          watched,    \* tasks whose future has the callback that releases the permit
          threads,    \* started threads of the pool
          closed,     \* shutdown() was called
          failures    \* how much of the bound is used

vars == <<permits, caller, work, watched, threads, closed, failures>>

Limit == MaxWorkers + MaxPending

\* "reap": killed after the timeout; "told", "retold": a callback has been called.
Busy == {"running", "reap", "told", "retold"}
InPool == {t \in Task : work[t] = "queued" \/ work[t] \in Busy}

Init ==
    /\ permits = Limit
    /\ caller = [t \in Task |-> "new"]
    /\ work = [t \in Task |-> "none"]
    /\ watched = {}
    /\ threads = 0 /\ closed = FALSE /\ failures = 0

Caller(t, s) == caller' = [caller EXCEPT ![t] = s]
Work(t, s) == work' = [work EXCEPT ![t] = s]
-----------------------------------------------------------------------------
(* BoundedExecutor.submit and shutdown. *)

Acquire(t) ==
    /\ caller[t] = "new" /\ permits > 0
    /\ permits' = permits - 1
    /\ Caller(t, "acquired")
    /\ UNCHANGED <<work, watched, threads, closed, failures>>

Reject(t) ==
    /\ caller[t] = "new" /\ permits = 0
    /\ Caller(t, "rejected")
    /\ UNCHANGED <<permits, work, watched, threads, closed, failures>>

NeedsThread == Cardinality(InPool) >= threads /\ threads < MaxWorkers

Enqueue(t) ==
    /\ caller[t] = "acquired" /\ ~closed
    /\ threads' = IF NeedsThread THEN threads + 1 ELSE threads
    /\ Work(t, "queued")
    /\ Caller(t, "enqueued")
    /\ UNCHANGED <<permits, watched, closed, failures>>

\* Mutant: the exception leaves submit with the permit.
AfterExceptionLeak == permits
AfterException == permits + 1

SubmitRaises(t) ==
    /\ caller[t] = "acquired"
    /\ \/ closed /\ UNCHANGED <<work, failures>>
       \/ /\ ~closed /\ NeedsThread /\ failures < MaxFailures
          /\ failures' = failures + 1
          /\ Work(t, "queued")
    /\ permits' = AfterException
    /\ Caller(t, "raised")
    /\ UNCHANGED <<watched, threads, closed>>

\* Mutant: a future that is already done does not call back.
ReleasedAtOnceNever(t) == 0
\* The permit given back by the submitter, because the future is already done.
ReleasedAtOnce(t) == IF work[t] = "done" THEN 1 ELSE 0

AddDoneCallback(t) ==
    /\ caller[t] = "enqueued"
    /\ permits' = permits + ReleasedAtOnce(t)
    /\ watched' = watched \cup {t}
    /\ Caller(t, "returned")
    /\ UNCHANGED <<work, threads, closed, failures>>

\* shutdown(wait=False): what is queued still runs.
Shutdown ==
    /\ ~closed /\ closed' = TRUE
    /\ UNCHANGED <<permits, caller, work, watched, threads, failures>>
-----------------------------------------------------------------------------
(* A thread of the pool. *)

Running == Cardinality({t \in Task : work[t] \in Busy})

Run(t) ==
    /\ work[t] = "queued" /\ Running < threads
    /\ Work(t, "running")
    /\ UNCHANGED <<permits, caller, watched, threads, closed, failures>>

\* The future is done: by the return of the task or by its exception.
Done(t) ==
    /\ Work(t, "done")
    /\ permits' = IF t \in watched THEN permits + 1 ELSE permits
    /\ UNCHANGED <<caller, watched, threads, closed, failures>>

\* do_run_func.
FuncEnds(t) ==
    /\ t \in Task \ Command /\ work[t] = "running"
    /\ Done(t)

Report(t, s) ==
    /\ Work(t, s)
    /\ UNCHANGED <<permits, caller, watched, threads, closed, failures>>

\* Exit status 0, another one, or a program that cannot be started: the last one is
\* reported by the handler of exceptions, outside the try.
CommandEnds(t) ==
    /\ t \in Command /\ work[t] = "running"
    /\ \/ t \notin Keeper /\ Report(t, "told")
       \/ Report(t, "retold")

\* wait_for ran out: the command is killed, then its output is read to the end.
Timeout(t) ==
    /\ t \in Command /\ work[t] = "running"
    /\ Work(t, "reap")
    /\ UNCHANGED <<permits, caller, watched, threads, closed, failures>>

Reap(t) ==
    /\ work[t] = "reap" /\ t \notin Keeper
    /\ Report(t, "told")

\* It returns; or the last report raises too, and the future has the exception.
CallbackReturns(t) ==
    /\ work[t] \in {"told", "retold"}
    /\ Done(t)

\* A callback raises inside the try: on_error is told of that.
CallbackRaises(t) ==
    /\ work[t] = "told"
    /\ Report(t, "retold")

Submit(t) == Enqueue(t) \/ SubmitRaises(t) \/ AddDoneCallback(t)

Execute(t) ==
    \/ Run(t) \/ FuncEnds(t) \/ CommandEnds(t) \/ Timeout(t) \/ Reap(t)
    \/ CallbackReturns(t) \/ CallbackRaises(t)

Next ==
    \/ \E t \in Task : Acquire(t) \/ Reject(t) \/ Submit(t) \/ Execute(t)
    \/ Shutdown

Spec == Init /\ [][Next]_vars

\* Threads are scheduled, functions end, and a command ends or runs out of time.
Fairness == \A t \in Task : WF_vars(Submit(t)) /\ WF_vars(Execute(t))
-----------------------------------------------------------------------------
(* Properties. *)

TypeOK ==
    /\ permits \in 0..Limit
    /\ caller \in [Task -> {"new", "acquired", "rejected", "enqueued", "raised", "returned"}]
    /\ work \in [Task -> {"none", "queued", "done"} \cup Busy]
    /\ watched \subseteq Task
    /\ threads \in 0..MaxWorkers /\ closed \in BOOLEAN /\ failures \in 0..MaxFailures

\* A task has its permit from acquire() until it is done and its submitter has returned.
Holding ==
    {t \in Task : \/ caller[t] \in {"acquired", "enqueued"}
                  \/ caller[t] = "returned" /\ work[t] # "done"}

\* Each permit is free or with one task, over exceptions, shutdown, and a task that is
\* done before its callback is there; so the pool holds more than its limit only by the
\* tasks whose thread could not be started (async_task_util.py:114-124).
PermitsConserved ==
    /\ permits + Cardinality(Holding) = Limit
    /\ Cardinality(InPool) <= Limit + failures

\* Killed commands whose output is still open, held by their children: each keeps a
\* thread of the pool, and may keep the last one.
Unread == {k \in Keeper : work[k] = "reap"}
Stuck == threads > 0 /\ Cardinality(Unread) = threads

\* When nothing is submitted any more every permit is back, whatever the callbacks did and
\* however each submission ended, but for those of unread commands and, when they have
\* all threads, of what is queued behind them (async_task_util.py:69-75, 118-123).
PermitsReturn == <>[](permits + Cardinality(Unread) = Limit \/ Stuck)
=============================================================================
