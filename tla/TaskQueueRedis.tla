---------------------------- MODULE TaskQueueRedis ----------------------------
(***************************************************************************)
(* The Redis backend of the task queue and the workers that consume it:    *)
(* RedisTaskQueue (flask_server/module/task_queue.py) driven by the loop   *)
(* of TaskWorker (flask_server/module/task_worker.py).                     *)
(*                                                                         *)
(* One step is one Redis command.  A command is atomic in the server, but  *)
(* a sequence of commands is not: other threads and processes run between  *)
(* any two of them, the process may die between them, and a command may    *)
(* fail, either without effect ("refused") or after it took effect         *)
(* ("lost", the reply did not arrive).                                     *)
(*                                                                         *)
(* Time is abstracted: an entry of the delayed set becomes due, and a      *)
(* pending message becomes older than TASK_VISIBILITY_TIMEOUT, at some     *)
(* moment; the 1 s and 30 s throttles may let a round pass.                *)
(***************************************************************************)
EXTENDS Integers, Sequences, FiniteSets

CONSTANTS Task,          \* the tasks, each submitted once under its own id
          Unregistered,  \* tasks whose name no worker has a handler for
          Corrupt,       \* foreign stream entries whose JSON does not parse
          Budget,        \* max_retries of each task
          Process,       \* worker processes, one RedisTaskQueue in each
          Slot,          \* consumer threads of a process (concurrency)
          Stoppable,     \* processes that may get SIGTERM
          Delays,        \* {FALSE}, or {FALSE, TRUE}: enqueue(delay > 0) is used
          DeadMax,       \* task_dead_letter_max
          MaxCrashes,    \* bound: process deaths in a behaviour
          MaxErrors,     \* bound: failed Redis commands in a behaviour
          MaxSlow,       \* bound: visibility timeouts of tasks still being run
          MaxExits       \* bound: handlers that end their thread

ASSUME QueueAssumption ==
    /\ Task # {}
    /\ Unregistered \subseteq Task
    /\ Corrupt \subseteq Task
    /\ Budget \in [Task -> Nat]
    /\ Stoppable \subseteq Process
    /\ Delays \subseteq BOOLEAN
    /\ DeadMax \in Nat \ {0}
    /\ MaxCrashes \in Nat /\ MaxErrors \in Nat /\ MaxSlow \in Nat /\ MaxExits \in Nat

VARIABLES stream,     \* entries of the stream that were not XDELeted
          nextId,     \* the id the next XADD gets
          delivered,  \* last-delivered-id of the consumer group
          pel,        \* entries delivered to a consumer and not XACKed
          stale,      \* pending entries idle for longer than the visibility timeout
          delayed,    \* members of the ZSET of delayed tasks
          due,        \* its members whose score has passed
          deadList,   \* the dead-letter list, newest first
          status,     \* status record of each task
          caller,     \* progress of the enqueue call of each task
          pc,         \* where each consumer thread is
          job,        \* the entry a thread works on
          fate,       \* what becomes of it
          todo,       \* entries a thread still has to promote or to reclaim
          stopping,   \* processes whose stop event is set
          done,       \* history: tasks whose handler returned normally
          buried,     \* history: tasks that reached the dead-letter list
          torn,       \* history: tasks of which a fault dropped a copy
          crashes, errors, slow, exits   \* how much of each bound is used

redis   == <<stream, nextId, delivered, pel, stale, delayed, due, deadList, status>>
threads == <<pc, job, fate, todo>>
history == <<done, buried, torn>>
bounds  == <<crashes, errors, slow, exits>>
vars    == <<redis, caller, threads, stopping, history, bounds>>

Worker == Process \X Slot
Host(w) == w[1]

Error    == {"none", "handler", "reclaimed"}
Envelope == [task : Task, attempts : Nat, error : Error]
Entry    == [id : Nat, env : Envelope]

Status == {"none", "queued", "running", "retrying", "succeeded", "dead"}
Fate   == {"retrying", "succeeded", "dead"}
Caller == {"new", "sent", "accepted", "rejected"}

\* A thread waits in "loop"; "promote" to "giveback" are _promote_delayed, "read" and
\* "mark" the rest of reserve, "run" is the handler, "xack" to "record" settle its
\* outcome, "idle" and "claim" are _maybe_reclaim and reclaim_stale.
Pc == {"loop", "promote", "readd", "giveback", "read", "mark", "run", "xack", "xdel",
       "zadd", "lpush", "ltrim", "record", "idle", "claim", "halted"}

NewEnvelope(t) == [task |-> t, attempts |-> 0, error |-> "none"]
SomeTask == CHOOSE t \in Task : TRUE
\* The job of a thread that has none.
NoJob == [id |-> 0, env |-> NewEnvelope(SomeTask)]

JobTask(w) == job[w].env.task
-----------------------------------------------------------------------------
(* Redis commands as relations between the state before and after. *)

Reply == {"ok", "refused", "lost"}
Applied(r) == r # "refused"

\* Any command may fail while the bound allows it.
Answer(r) ==
    /\ r # "ok" => errors < MaxErrors
    /\ errors' = IF r = "ok" THEN errors ELSE errors + 1

XAdd(env) ==
    /\ stream' = stream \cup {[id |-> nextId, env |-> env]}
    /\ nextId' = nextId + 1

\* ZADD of a member that is already there only moves its score.
ZAdd(env) ==
    /\ delayed' = delayed \cup {env}
    /\ due' = due \ {env}

ZRem(env) ==
    /\ delayed' = delayed \ {env}
    /\ due' = due \ {env}

Undelivered == {m \in stream : m.id > delivered}
Without(S, id) == {m \in S : m.id # id}

\* Mutant: the entry is confirmed but never deleted.
EraseForgotten(id) == UNCHANGED stream
Erase(id) == stream' = Without(stream, id)

\* Mutant: the result of ZREM is not looked at.
WonAlways(env) == TRUE
\* ZREM answered 1: this client removed the member.
Won(env) == env \in delayed

\* Mutants: XAUTOCLAIM without a minimal idle time; its reply read at the wrong index.
ReclaimableAtOnce == pel
ReclaimableNever == {}
Reclaimable == stale
-----------------------------------------------------------------------------
Init ==
    /\ stream = {} /\ nextId = 1 /\ delivered = 0
    /\ pel = {} /\ stale = {}
    /\ delayed = {} /\ due = {}
    /\ deadList = << >>
    /\ status = [t \in Task |-> "none"]
    /\ caller = [t \in Task |-> "new"]
    /\ pc = [w \in Worker |-> "loop"]
    /\ job = [w \in Worker |-> NoJob]
    /\ fate = [w \in Worker |-> "retrying"]
    /\ todo = [w \in Worker |-> {}]
    /\ stopping = {}
    /\ done = {} /\ buried = {} /\ torn = {}
    /\ crashes = 0 /\ errors = 0 /\ slow = 0 /\ exits = 0

Goto(w, l) == pc' = [pc EXCEPT ![w] = l]
-----------------------------------------------------------------------------
(* enqueue: XADD or ZADD, then the status record; any error is raised to the caller. *)

Enqueue(t) ==
    /\ caller[t] = "new"
    /\ \E r \in Reply, delay \in Delays :
         /\ Answer(r)
         /\ IF Applied(r) /\ delay THEN ZAdd(NewEnvelope(t)) ELSE UNCHANGED <<delayed, due>>
         /\ IF Applied(r) /\ ~delay THEN XAdd(NewEnvelope(t)) ELSE UNCHANGED <<stream, nextId>>
         /\ caller' = [caller EXCEPT ![t] = IF r # "ok" THEN "rejected"
                                            ELSE IF t \in Corrupt THEN "accepted"
                                            ELSE "sent"]
    /\ UNCHANGED <<delivered, pel, stale, deadList, status, threads, stopping, history,
                   crashes, slow, exits>>

RecordQueued(t) ==
    /\ caller[t] = "sent"
    /\ \E r \in Reply :
         /\ Answer(r)
         /\ status' = IF Applied(r) THEN [status EXCEPT ![t] = "queued"] ELSE status
         /\ caller' = [caller EXCEPT ![t] = IF r = "ok" THEN "accepted" ELSE "rejected"]
    /\ UNCHANGED <<stream, nextId, delivered, pel, stale, delayed, due, deadList, threads,
                   stopping, history, crashes, slow, exits>>
-----------------------------------------------------------------------------
(* _promote_delayed, the first half of reserve. *)

\* The stop event is looked at before each round only.
Halt(w) ==
    /\ pc[w] = "loop" /\ Host(w) \in stopping
    /\ Goto(w, "halted")
    /\ UNCHANGED <<redis, caller, job, fate, todo, stopping, history, bounds>>

\* Less than a second since the last round, or the scan failed: go on and read.
SkipPromote(w) ==
    /\ pc[w] = "loop" /\ Host(w) \notin stopping
    /\ Goto(w, "read")
    /\ UNCHANGED <<redis, caller, job, fate, todo, stopping, history, bounds>>

PromoteScan(w) ==
    /\ pc[w] = "loop" /\ Host(w) \notin stopping
    /\ due # {}
    /\ todo' = [todo EXCEPT ![w] = {[id |-> 0, env |-> e] : e \in due}]
    /\ Goto(w, "promote")
    /\ UNCHANGED <<redis, caller, job, fate, stopping, history, bounds>>

\* The thread is done with one member of the scan.
NextMember(w, m) ==
    /\ todo' = [todo EXCEPT ![w] = @ \ {m}]
    /\ Goto(w, IF todo[w] = {m} THEN "read" ELSE "promote")
    /\ job' = [job EXCEPT ![w] = NoJob]

\* An exception leaves reserve; the loop logs it and starts the next round.
Raise(w) ==
    /\ todo' = [todo EXCEPT ![w] = {}]
    /\ Goto(w, "loop")
    /\ job' = [job EXCEPT ![w] = NoJob]

\* ZREM decides which thread moves the member.
PromoteTake(w) ==
    /\ pc[w] = "promote"
    /\ \E m \in todo[w], r \in Reply :
         /\ Answer(r)
         /\ IF Applied(r) THEN ZRem(m.env) ELSE UNCHANGED <<delayed, due>>
         /\ CASE r # "ok" -> Raise(w)
              [] r = "ok" /\ Won(m.env) ->
                   /\ job' = [job EXCEPT ![w] = m]
                   /\ Goto(w, "readd")
                   /\ UNCHANGED todo
              [] OTHER -> NextMember(w, m)
         /\ torn' = IF r = "lost" /\ m.env \in delayed
                    THEN torn \cup {m.env.task} ELSE torn
    /\ UNCHANGED <<stream, nextId, delivered, pel, stale, deadList, status, caller, fate,
                   stopping, done, buried, crashes, slow, exits>>

PromoteAdd(w) ==
    /\ pc[w] = "readd"
    /\ \E r \in Reply :
         /\ Answer(r)
         /\ IF Applied(r) THEN XAdd(job[w].env) ELSE UNCHANGED <<stream, nextId>>
         /\ IF r = "ok" THEN NextMember(w, job[w])
            ELSE Goto(w, "giveback") /\ UNCHANGED <<job, todo>>
    /\ UNCHANGED <<delivered, pel, stale, delayed, due, deadList, status, caller, fate,
                   stopping, history, crashes, slow, exits>>

\* The XADD raised: put the member back, to be due in five seconds.
PromoteBack(w) ==
    /\ pc[w] = "giveback"
    /\ \E r \in Reply :
         /\ Answer(r)
         /\ IF Applied(r) THEN ZAdd(job[w].env) ELSE UNCHANGED <<delayed, due>>
         /\ IF r = "ok" THEN NextMember(w, job[w]) ELSE Raise(w)
         /\ torn' = IF r = "refused" THEN torn \cup {JobTask(w)} ELSE torn
    /\ UNCHANGED <<stream, nextId, delivered, pel, stale, deadList, status, caller, fate,
                   stopping, done, buried, crashes, slow, exits>>
-----------------------------------------------------------------------------
(* The second half of reserve: XREADGROUP '>' count=1, then the running record. *)

\* The first undelivered entry is now pending; a reply that is lost leaves it so,
\* with nobody working on it.
Read(w) ==
    /\ pc[w] = "read"
    /\ \E m \in Undelivered, r \in {"ok", "lost"} :
         /\ \A n \in Undelivered : m.id <= n.id
         /\ Answer(r)
         /\ delivered' = m.id
         /\ pel' = pel \cup {m}
         /\ IF r = "lost" THEN Goto(w, "loop") /\ UNCHANGED <<job, fate>>
            ELSE /\ job' = [job EXCEPT ![w] = m]
                 /\ IF m.env.task \in Corrupt
                    THEN Goto(w, "xack") /\ fate' = [fate EXCEPT ![w] = "dead"]
                    ELSE Goto(w, "mark") /\ UNCHANGED fate
    /\ UNCHANGED <<stream, nextId, stale, delayed, due, deadList, status, caller, todo,
                   stopping, history, crashes, slow, exits>>

\* Nothing arrived within TASK_RESERVE_TIMEOUT.
ReadNothing(w) ==
    /\ pc[w] = "read" /\ Undelivered = {}
    /\ Goto(w, "idle")
    /\ UNCHANGED <<redis, caller, job, fate, todo, stopping, history, bounds>>

\* TaskQueueUnavailable: the loop backs off and starts over.
ReadFails(w) ==
    /\ pc[w] = "read" /\ Answer("refused")
    /\ Goto(w, "loop")
    /\ UNCHANGED <<redis, caller, job, fate, todo, stopping, history, crashes, slow, exits>>

SetStatus(t, s, r) == status' = IF Applied(r) THEN [status EXCEPT ![t] = s] ELSE status

\* An error is ignored.
MarkRunning(w) ==
    /\ pc[w] = "mark"
    /\ \E r \in Reply : Answer(r) /\ SetStatus(JobTask(w), "running", r)
    /\ Goto(w, "run")
    /\ UNCHANGED <<stream, nextId, delivered, pel, stale, delayed, due, deadList, caller,
                   job, fate, todo, stopping, history, crashes, slow, exits>>
-----------------------------------------------------------------------------
(* _handle: run the handler, then confirm, retry or bury. *)

Resolve(w, f) ==
    /\ fate' = [fate EXCEPT ![w] = f]
    /\ Goto(w, "xack")
    /\ UNCHANGED <<redis, caller, todo, stopping, buried, torn, bounds>>

HandlerReturns(w) ==
    /\ pc[w] = "run" /\ JobTask(w) \notin Unregistered
    /\ done' = done \cup {JobTask(w)}
    /\ Resolve(w, "succeeded")
    /\ UNCHANGED job

\* Mutants: one try too many, one too few.
MayRetryOnceMore(env) == env.attempts <= Budget[env.task]
MayRetryOnceLess(env) == env.attempts + 1 < Budget[env.task]
MayRetry(env) == env.attempts < Budget[env.task]

\* retry() counts the attempt before it touches Redis.
Attempted(env, why) == [task |-> env.task, attempts |-> env.attempts + 1, error |-> why]

HandlerRaises(w) ==
    /\ pc[w] = "run" /\ JobTask(w) \notin Unregistered
    /\ UNCHANGED done
    /\ IF MayRetry(job[w].env)
       THEN /\ job' = [job EXCEPT ![w] = [id |-> @.id, env |-> Attempted(@.env, "handler")]]
            /\ Resolve(w, "retrying")
       ELSE Resolve(w, "dead") /\ UNCHANGED job

NoHandler(w) ==
    /\ pc[w] = "run" /\ JobTask(w) \in Unregistered
    /\ Resolve(w, "dead")
    /\ UNCHANGED <<done, job>>

\* A BaseException (sys.exit in the handler) passes the "except Exception" of _handle and
\* of the loop: the thread is gone for good, its entry stays pending and its task running.
HandlerExits(w) ==
    /\ pc[w] = "run" /\ JobTask(w) \notin Unregistered
    /\ exits < MaxExits
    /\ exits' = exits + 1
    /\ Goto(w, "halted")
    /\ job' = [job EXCEPT ![w] = NoJob]
    /\ fate' = [fate EXCEPT ![w] = "retrying"]
    /\ todo' = [todo EXCEPT ![w] = {}]
    /\ UNCHANGED <<redis, caller, stopping, history, crashes, errors, slow>>
-----------------------------------------------------------------------------
(* ack, retry and dead: XACK and XDEL, then the new place, then the status record. *)

\* The thread turns to the next entry it claimed, or to the next round; reserve returns
\* None after a corrupt entry, so the round then ends with a look at stale messages.
Leave(w) ==
    LET rest == Without(todo[w], job[w].id)
    IN  /\ todo' = [todo EXCEPT ![w] = rest]
        /\ Goto(w, IF rest # {} THEN "claim"
                   ELSE IF todo[w] = {} /\ JobTask(w) \in Corrupt THEN "idle" ELSE "loop")
        /\ job' = [job EXCEPT ![w] = NoJob]
        /\ fate' = [fate EXCEPT ![w] = "retrying"]

\* The command answered: on to l.  It raised: the error is logged and the rest skipped.
Continue(w, r, l) ==
    IF r = "ok" THEN Goto(w, l) /\ UNCHANGED <<job, fate, todo>> ELSE Leave(w)

\* The task is nowhere in Redis after this step, if the thread gives up now.
TearIf(w, cond) ==
    torn' = IF cond /\ fate[w] # "succeeded" THEN torn \cup {JobTask(w)} ELSE torn

XAck(w) ==
    /\ pc[w] = "xack"
    /\ \E r \in Reply :
         /\ Answer(r)
         /\ pel' = IF Applied(r) THEN Without(pel, job[w].id) ELSE pel
         /\ stale' = IF Applied(r) THEN Without(stale, job[w].id) ELSE stale
         /\ Continue(w, r, "xdel")
         /\ TearIf(w, r = "lost")
    /\ UNCHANGED <<stream, nextId, delivered, delayed, due, deadList, status, caller,
                   stopping, done, buried, crashes, slow, exits>>

\* Mutants: the task is not put back; the dead letter is not written.
NextPlaceNoReturn == [succeeded |-> "record", retrying |-> "record", dead |-> "lpush"]
NextPlaceNoLetter == [succeeded |-> "record", retrying |-> "zadd", dead |-> "record"]
NextPlace == [succeeded |-> "record", retrying |-> "zadd", dead |-> "lpush"]

XDel(w) ==
    /\ pc[w] = "xdel"
    /\ \E r \in Reply :
         /\ Answer(r)
         /\ IF Applied(r) THEN Erase(job[w].id) ELSE UNCHANGED stream
         /\ Continue(w, r, NextPlace[fate[w]])
         /\ TearIf(w, r # "ok")
    /\ UNCHANGED <<nextId, delivered, pel, stale, delayed, due, deadList, status, caller,
                   stopping, done, buried, crashes, slow, exits>>

ZAddRetry(w) ==
    /\ pc[w] = "zadd"
    /\ \E r \in Reply :
         /\ Answer(r)
         /\ IF Applied(r) THEN ZAdd(job[w].env) ELSE UNCHANGED <<delayed, due>>
         /\ Continue(w, r, "record")
         /\ TearIf(w, r = "refused")
    /\ UNCHANGED <<stream, nextId, delivered, pel, stale, deadList, status, caller,
                   stopping, done, buried, crashes, slow, exits>>

LPush(w) ==
    /\ pc[w] = "lpush"
    /\ \E r \in Reply :
         /\ Answer(r)
         /\ deadList' = IF Applied(r) THEN <<job[w].env>> \o deadList ELSE deadList
         /\ buried' = IF Applied(r) THEN buried \cup {JobTask(w)} ELSE buried
         /\ Continue(w, r, "ltrim")
         /\ TearIf(w, r = "refused")
    /\ UNCHANGED <<stream, nextId, delivered, pel, stale, delayed, due, status, caller,
                   stopping, done, crashes, slow, exits>>

Trimmed(list) == IF Len(list) > DeadMax THEN SubSeq(list, 1, DeadMax) ELSE list

LTrim(w) ==
    /\ pc[w] = "ltrim"
    /\ \E r \in Reply :
         /\ Answer(r)
         /\ deadList' = IF Applied(r) THEN Trimmed(deadList) ELSE deadList
         /\ IF JobTask(w) \in Corrupt THEN Leave(w) ELSE Continue(w, r, "record")
    /\ UNCHANGED <<stream, nextId, delivered, pel, stale, delayed, due, status, caller,
                   stopping, history, crashes, slow, exits>>

RecordFate(w) ==
    /\ pc[w] = "record"
    /\ \E r \in Reply : Answer(r) /\ SetStatus(JobTask(w), fate[w], r)
    /\ Leave(w)
    /\ UNCHANGED <<stream, nextId, delivered, pel, stale, delayed, due, deadList, caller,
                   stopping, history, crashes, slow, exits>>
-----------------------------------------------------------------------------
(* _maybe_reclaim and reclaim_stale, only after a round that found nothing. *)

\* Less than RECLAIM_INTERVAL since the last look, or XAUTOCLAIM was refused.
SkipReclaim(w) ==
    /\ pc[w] = "idle"
    /\ Goto(w, "loop")
    /\ UNCHANGED <<redis, caller, job, fate, todo, stopping, history, bounds>>

\* XAUTOCLAIM hands over the entries as they were; they may be settled by their former
\* owner before this thread gets to them.
Reclaim(w) ==
    /\ pc[w] = "idle" /\ Reclaimable # {}
    /\ \E r \in {"ok", "lost"} :
         /\ Answer(r)
         /\ IF r = "ok" THEN Goto(w, "claim") /\ todo' = [todo EXCEPT ![w] = Reclaimable]
            ELSE Goto(w, "loop") /\ UNCHANGED todo
    /\ stale' = stale \ Reclaimable
    /\ UNCHANGED <<stream, nextId, delivered, pel, delayed, due, deadList, status, caller,
                   job, fate, stopping, history, crashes, slow, exits>>

\* A claimed entry is retried with one more attempt, whatever its budget says.
Claim(w) ==
    /\ pc[w] = "claim"
    /\ \E m \in todo[w] :
         IF m.env.task \in Corrupt
         THEN /\ job' = [job EXCEPT ![w] = m]
              /\ fate' = [fate EXCEPT ![w] = "dead"]
         ELSE /\ job' = [job EXCEPT ![w] = [id |-> m.id, env |-> Attempted(m.env, "reclaimed")]]
              /\ fate' = [fate EXCEPT ![w] = "retrying"]
    /\ Goto(w, "xack")
    /\ UNCHANGED <<redis, caller, todo, stopping, history, bounds>>
-----------------------------------------------------------------------------
(* The passing of time, and the life of a process. *)

ComeDue(e) ==
    /\ e \in delayed \ due
    /\ due' = due \cup {e}
    /\ UNCHANGED <<stream, nextId, delivered, pel, stale, delayed, deadList, status, caller,
                   threads, stopping, history, bounds>>

Held(m) == \E w \in Worker : job[w].id = m.id \/ \E n \in todo[w] : n.id = m.id

\* A pending message whose consumer died gets stale in time; one that is still worked on
\* does so only when the handler takes longer than the visibility timeout.
BecomeStale(m) ==
    /\ m \in pel \ stale
    /\ Held(m) => slow < MaxSlow
    /\ slow' = IF Held(m) THEN slow + 1 ELSE slow
    /\ stale' = stale \cup {m}
    /\ UNCHANGED <<stream, nextId, delivered, pel, delayed, due, deadList, status, caller,
                   threads, stopping, history, crashes, errors, exits>>

\* The thread carries a task that is at this moment nowhere in Redis.
Carries(w) ==
    \/ pc[w] \in {"readd", "giveback", "zadd", "lpush"}
    \/ pc[w] = "xdel" /\ fate[w] # "succeeded"

\* A process whose threads have all been ended by their handlers stays, without a consumer.
Running(p) == p \notin stopping \/ \E w \in Worker : Host(w) = p /\ pc[w] # "halted"

\* SIGKILL, out of memory, power.  A process that was stopping is not started again, any
\* other is; its threads start from nothing.
Crash(p) ==
    /\ Running(p) /\ crashes < MaxCrashes
    /\ crashes' = crashes + 1
    /\ torn' = torn \cup {JobTask(w) : w \in {v \in Worker : Host(v) = p /\ Carries(v)}}
    /\ pc' = [w \in Worker |-> IF Host(w) # p THEN pc[w]
                               ELSE IF p \in stopping THEN "halted" ELSE "loop"]
    /\ job' = [w \in Worker |-> IF Host(w) = p THEN NoJob ELSE job[w]]
    /\ fate' = [w \in Worker |-> IF Host(w) = p THEN "retrying" ELSE fate[w]]
    /\ todo' = [w \in Worker |-> IF Host(w) = p THEN {} ELSE todo[w]]
    /\ UNCHANGED <<redis, caller, stopping, done, buried, errors, slow, exits>>

\* SIGTERM: TaskWorker.stop sets the event and waits for the threads.
Stop(p) ==
    /\ p \in Stoppable \ stopping
    /\ stopping' = stopping \cup {p}
    /\ UNCHANGED <<redis, caller, threads, history, bounds>>
-----------------------------------------------------------------------------
Reserve(w) ==
    \/ Halt(w) \/ SkipPromote(w) \/ PromoteScan(w) \/ PromoteTake(w)
    \/ PromoteAdd(w) \/ PromoteBack(w)
    \/ Read(w) \/ ReadNothing(w) \/ ReadFails(w) \/ MarkRunning(w)

Handle(w) == HandlerReturns(w) \/ HandlerRaises(w) \/ NoHandler(w)

Settle(w) == XAck(w) \/ XDel(w) \/ ZAddRetry(w) \/ LPush(w) \/ LTrim(w) \/ RecordFate(w)

MaybeReclaim(w) == SkipReclaim(w) \/ Reclaim(w) \/ Claim(w)

Next ==
    \/ \E t \in Task : Enqueue(t) \/ RecordQueued(t)
    \/ \E w \in Worker : Reserve(w) \/ Handle(w) \/ Settle(w) \/ MaybeReclaim(w)
    \/ \E w \in Worker : HandlerExits(w)
    \/ \E e \in delayed : ComeDue(e)
    \/ \E m \in pel : BecomeStale(m)
    \/ \E p \in Process : Crash(p) \/ Stop(p)

Spec == Init /\ [][Next]_vars
-----------------------------------------------------------------------------
(* Properties. *)

\* Every variable has its type; ids in the stream are those already given out.
RedisTypeOK ==
    /\ stream \subseteq Entry /\ pel \subseteq Entry /\ stale \subseteq Entry
    /\ nextId \in Nat \ {0} /\ delivered \in Nat
    /\ delayed \subseteq Envelope /\ due \subseteq Envelope
    /\ deadList \in Seq(Envelope)
    /\ status \in [Task -> Status]

ThreadTypeOK ==
    /\ pc \in [Worker -> Pc]
    /\ job \in [Worker -> Entry]
    /\ fate \in [Worker -> Fate]
    /\ todo \in [Worker -> SUBSET Entry]

HistoryTypeOK ==
    /\ done \subseteq Task /\ buried \subseteq Task /\ torn \subseteq Task
    /\ crashes \in Nat /\ errors \in Nat /\ slow \in Nat /\ exits \in Nat

TypeOK ==
    /\ RedisTypeOK /\ ThreadTypeOK /\ HistoryTypeOK
    /\ caller \in [Task -> Caller]
    /\ stopping \subseteq Process

InStream(t)  == \E m \in Undelivered \cup pel : m.env.task = t
InDelayed(t) == \E e \in delayed : e.task = t
Carried(t)   == \E w \in Worker : Carries(w) /\ JobTask(w) = t

\* The queue still has the task: in one of its places or on its way between two.
Owed(t) == InStream(t) \/ InDelayed(t) \/ Carried(t)

Taken(t) == caller[t] \in {"sent", "accepted"}

\* enqueue's promise (task_queue.py:37-41): a task the caller was told is queued is, at any
\* later moment, still in the queue, or its handler returned, or it was dead-lettered, or
\* a fault hit exactly the step that carried it between two places.
NothingLost ==
    \A t \in Task : Taken(t) => Owed(t) \/ t \in done \cup buried \cup torn

\* Why it holds.  An id names one task wherever it is cited, delivered ids are behind the
\* group's position (so XACK and XDEL of a job touch no copy of another task), and a
\* thread confirms as succeeded only what its handler has finished.
Cited == stream \cup pel \cup {job[w] : w \in Worker} \cup UNION {todo[w] : w \in Worker}

IdsSound ==
    /\ delivered < nextId
    /\ \A m \in stream : 0 < m.id /\ m.id < nextId
    /\ stale \subseteq pel
    /\ \A m \in pel : 0 < m.id /\ m.id <= delivered
    /\ \A w \in Worker : \A m \in todo[w] \cup {job[w]} : m.id <= delivered
    /\ \A m, n \in Cited : m.id = n.id /\ m.id # 0 => m.env.task = n.env.task

ThreadSound ==
    \A w \in Worker :
        /\ pc[w] \in {"xack", "xdel"} /\ fate[w] = "succeeded" => JobTask(w) \in done
        /\ pc[w] \in {"zadd", "lpush"} => fate[w] # "succeeded"

LossInv == IdsSound /\ ThreadSound /\ NothingLost

\* The same without the last exception: "at-least-once", "guaranteed not lost" of
\* task_queue.py:38-40 and docs/task-queue.md:66.
AtLeastOnce ==
    \A t \in Task : Taken(t) => Owed(t) \/ t \in done \cup buried

\* The copies of a task, each at its place.
Copies(t) ==
    {<<"stream", m.id>> : m \in {n \in Undelivered \cup pel : n.env.task = t}}
    \cup {<<"delayed", e>> : e \in {f \in delayed : f.task = t}}
    \cup {<<"carried", w>> : w \in {v \in Worker : Carries(v) /\ JobTask(v) = t}}

\* "A task is taken by one worker only" (task_queue.py:8): as long as no command reply is
\* lost and no handler outlives the visibility timeout, crashes and reclaims included,
\* there is never a second copy of a task and never two threads that run its handler.
SoleCopy ==
    \A t \in Task :
        /\ Cardinality(Copies(t)) <= 1
        /\ Cardinality({w \in Worker : pc[w] = "run" /\ JobTask(w) = t}) <= 1

\* The retry budget (docs/task-queue.md:68): no copy of a task has been attempted more
\* often than max_retries allows, but for what reclaim_stale adds to it, which looks at no
\* budget: one attempt per fault that left an entry pending, a handler that ended its thread
\* being one of them.
Envelopes == {m.env : m \in Undelivered \cup pel} \cup delayed
             \cup {job[w].env : w \in {v \in Worker : Carries(v)}}
BudgetUpToFaults ==
    \A e \in Envelopes : e.attempts <= Budget[e.task] + crashes + errors + slow + exits

\* The dead-letter list holds what cannot be helped by another try (docs/task-queue.md:70):
\* unregistered or corrupt entries, and tasks whose budget is used up.  LTRIM keeps it at
\* its limit: beyond it are only letters whose pusher has not trimmed yet, or could not.
DeadLettersExhausted ==
    /\ \A i \in 1..Len(deadList) :
         LET e == deadList[i]
         IN  e.task \in Unregistered \cup Corrupt \/ e.attempts >= Budget[e.task]
    /\ Len(deadList)
         <= DeadMax + Cardinality({w \in Worker : pc[w] = "ltrim"})
            + crashes * Cardinality(Slot) + errors

\* XADD has no MAXLEN and nothing trims the stream: an entry leaves it by the XDEL after
\* its XACK (task_queue.py:446-447, 459-460, 478-479) or never.  What is pending still has
\* its data, so that it can be taken over, and what is confirmed is deleted, but for an
\* entry per thread that is about to do so and per fault between the two commands.
\* (stats() counts what stays behind as ready for ever.)
Deleting == {job[w].id : w \in {v \in Worker : pc[v] = "xdel"}}
Orphans == {m \in stream : m.id <= delivered /\ m \notin pel /\ m.id \notin Deleting}
ConfirmedIsDeleted ==
    /\ pel \subseteq stream
    /\ Cardinality(Orphans) <= crashes * Cardinality(Slot) + errors

\* The state machine of docs/task-queue.md:76-94 has no edge out of succeeded and dead.
\* Two writers put a task back where workers see it before they record its status, enqueue
\* and retry; theirs are the only writes that can come after the end.
\* No worker reports an ended task as running, or a second, different end.
LateWrite(t) ==
    \/ caller[t] = "sent"
    \/ \E w \in Worker : pc[w] = "record" /\ fate[w] = "retrying" /\ JobTask(w) = t
OnlyLateWritesReopen ==
    [][\A t \in Task :
          status[t] \in {"succeeded", "dead"} /\ status'[t] # status[t] => LateWrite(t)]_vars

\* The queue keeps the promises of TaskDelivery.
Delivery == INSTANCE TaskDelivery
            WITH owed <- {t \in Task : Owed(t)}, dead <- buried

DeliveryPromise == Delivery!Spec
-----------------------------------------------------------------------------
(* Liveness.  Threads are scheduled, callers finish their call, time passes; a throttle   *)
(* is open again after at most 30 s, so that a thread that passes it again and again gets *)
(* through (strong fairness).                                                             *)

Fairness ==
    /\ \A t \in Task : WF_vars(Enqueue(t)) /\ WF_vars(RecordQueued(t))
    /\ \A w \in Worker :
         /\ WF_vars(Reserve(w)) /\ WF_vars(Handle(w)) /\ WF_vars(Settle(w))
         /\ WF_vars(MaybeReclaim(w))
    /\ \A p \in Process :
         /\ SF_vars(\E w \in Worker : Host(w) = p /\ PromoteScan(w))
         /\ SF_vars(\E w \in Worker : Host(w) = p /\ Reclaim(w))
    /\ WF_vars(\E e \in delayed : ComeDue(e))
    /\ WF_vars(\E m \in pel : BecomeStale(m))

FairSpec == Spec /\ Fairness

\* No thread is left that consumes: they were stopped, or ended by their handlers.
Unattended == \A w \in Worker : pc[w] = "halted"

\* Every task that is in the queue leaves it for good, as long as a consumer is left: it is
\* executed, dead-lettered or, after a fault, gone; no task circulates or stays pending for
\* ever.  Only a graceful stop and a handler that ends its thread take consumers away.
EveryTaskLeaves == \A t \in Task : Taken(t) ~> [](Owed(t) => Unattended)
=============================================================================
