--------------------------- MODULE SubprocessTask ---------------------------
(***************************************************************************)
(* SubprocessTask (flask_server/util/async_task_util.py): a thread and a   *)
(* child process joined by two queues, a watcher that polls the child, and *)
(* stop(), which the user, the crashed thread and the watcher may all run. *)
(*                                                                         *)
(* The sentinels stay in their queues, each with one reader that leaves at *)
(* the first.  A child is "obedient", "deaf" to its sentinel, or "chatty": *)
(* it has written more than the pipe holds, and a process that ends first  *)
(* flushes its queues (multiprocessing, external), which needs a reader.   *)
(***************************************************************************)
EXTENDS Integers

CONSTANTS Caller    \* threads that call stop(), once each

Stopper == Caller \cup {"thread", "watcher"}

VARIABLES starter,    \* how far start() is
          thread,     \* the SafeThread of thread_func
          child,      \* the process of subprocess_func
          kind,       \* what the child does
          exitcode,   \* "zero" or "other", when the child is gone
          watcher,    \* the thread of watch_process
          isStop,     \* instance.is_stop
          told,       \* who has a sentinel in its queue
          stopping,   \* where each stopper is in stop()
          early       \* history: a stop() looked for the child before it ran

vars == <<starter, thread, child, kind, exitcode, watcher, isStop, told, stopping, early>>

Init ==
    /\ starter = "new" /\ thread = "none" /\ child = "none" /\ watcher = "none"
    /\ kind \in {"obedient", "deaf", "chatty"}
    /\ exitcode = "none"
    /\ isStop = FALSE /\ told = {} /\ early = FALSE
    /\ stopping = [s \in Stopper |-> "idle"]

At(s, p) == stopping[s] = p
Goes(s, p) == stopping' = [stopping EXCEPT ![s] = p]
Alive(p) == p \in {"running", "flushing"}
-----------------------------------------------------------------------------
(* start. *)

StartThread ==
    /\ starter = "new"
    /\ starter' = "thread" /\ thread' = "running"
    /\ UNCHANGED <<child, kind, exitcode, watcher, isStop, told, stopping, early>>

StartChild ==
    /\ starter = "thread"
    /\ starter' = "child" /\ child' = "running"
    /\ UNCHANGED <<thread, kind, exitcode, watcher, isStop, told, stopping, early>>

StartWatcher ==
    /\ starter = "child"
    /\ starter' = "done" /\ watcher' = "polling"
    /\ UNCHANGED <<thread, child, kind, exitcode, isStop, told, stopping, early>>

\* What was started before the exception goes on.
StartFails ==
    /\ starter \in {"new", "thread", "child"}
    /\ starter' = "raised"
    /\ UNCHANGED <<thread, child, kind, exitcode, watcher, isStop, told, stopping, early>>
-----------------------------------------------------------------------------
(* stop. *)

\* The flag and the two sentinels.
Push(s) ==
    /\ isStop' = TRUE
    /\ told' = {"thread", "child"}
    /\ Goes(s, "join")
    /\ UNCHANGED <<starter, thread, child, kind, exitcode, watcher, early>>

Stop(s) == s \in Caller /\ starter # "new" /\ At(s, "idle") /\ Push(s)

\* The thread has ended, is the caller itself, or five seconds have passed.
JoinThread(s) ==
    /\ At(s, "join")
    /\ Goes(s, "terminate")
    /\ UNCHANGED <<starter, thread, child, kind, exitcode, watcher, isStop, told, early>>

\* Mutant: the child is left to its sentinel.
MustTerminateNever == FALSE
MustTerminate == Alive(child)

\* terminate() and join(timeout=5); a child that does not run yet is not seen.
TerminateChild(s) ==
    /\ At(s, "terminate")
    /\ IF MustTerminate
       THEN child' = "gone" /\ exitcode' = "other"
       ELSE UNCHANGED <<child, exitcode>>
    /\ early' = (early \/ child = "none")
    /\ Goes(s, "stopped")
    /\ UNCHANGED <<starter, thread, kind, watcher, isStop, told>>
-----------------------------------------------------------------------------
(* The thread, the child and the watcher. *)

ThreadEnds ==
    /\ thread = "running" /\ "thread" \in told
    /\ thread' = "gone"
    /\ UNCHANGED <<starter, child, kind, exitcode, watcher, isStop, told, stopping, early>>

ThreadRaises ==
    /\ thread = "running"
    /\ thread' = "crashed"
    /\ UNCHANGED <<starter, child, kind, exitcode, watcher, isStop, told, stopping, early>>

\* on_crash, on_thread_func_error: stop() in the thread itself.
OnCrash == thread = "crashed" /\ At("thread", "idle") /\ Push("thread")

ThreadDies ==
    /\ thread = "crashed" /\ At("thread", "stopped")
    /\ thread' = "gone"
    /\ UNCHANGED <<starter, child, kind, exitcode, watcher, isStop, told, stopping, early>>

\* It reads its sentinel and returns, or raises at any time; its queues are flushed then.
ChildEnds ==
    /\ child = "running" /\ kind # "deaf" /\ "child" \in told
    /\ child' = "flushing" /\ exitcode' = "zero"
    /\ UNCHANGED <<starter, thread, kind, watcher, isStop, told, stopping, early>>

ChildRaises ==
    /\ child = "running"
    /\ child' = "flushing" /\ exitcode' = "other"
    /\ UNCHANGED <<starter, thread, kind, watcher, isStop, told, stopping, early>>

ChildFlushed ==
    /\ child = "flushing" /\ (kind # "chatty" \/ thread = "running")
    /\ child' = "gone"
    /\ UNCHANGED <<starter, thread, kind, exitcode, watcher, isStop, told, stopping, early>>

\* watch_process: the child is gone; a terminated one has failed, too.
Watch ==
    /\ watcher = "polling" /\ child = "gone"
    /\ watcher' = IF exitcode # "zero" THEN "calling" ELSE "gone"
    /\ UNCHANGED <<starter, thread, child, kind, exitcode, isStop, told, stopping, early>>

\* on_subprocess_func_error: stop() in the watcher.
OnSubprocessError == watcher = "calling" /\ At("watcher", "idle") /\ Push("watcher")

WatcherEnds ==
    /\ watcher = "calling" /\ At("watcher", "stopped")
    /\ watcher' = "gone"
    /\ UNCHANGED <<starter, thread, child, kind, exitcode, isStop, told, stopping, early>>

Start == StartThread \/ StartChild \/ StartWatcher \/ StartFails
Advance(s) == JoinThread(s) \/ TerminateChild(s)
ThreadStep == ThreadEnds \/ OnCrash \/ ThreadDies
ChildStep == ChildEnds \/ ChildFlushed
WatcherStep == Watch \/ OnSubprocessError \/ WatcherEnds

Next ==
    \/ Start \/ ThreadStep \/ ThreadRaises \/ ChildStep \/ ChildRaises \/ WatcherStep
    \/ \E s \in Stopper : Stop(s) \/ Advance(s)

Spec == Init /\ [][Next]_vars

\* Who has been started is scheduled; start() is only called by the user.
Fairness ==
    /\ WF_vars(starter # "new" /\ Start)
    /\ WF_vars(ThreadStep) /\ WF_vars(ChildStep) /\ WF_vars(WatcherStep)
    /\ \A s \in Stopper : WF_vars(Advance(s))
-----------------------------------------------------------------------------
(* Properties. *)

TypeOK ==
    /\ starter \in {"new", "thread", "child", "done", "raised"}
    /\ thread \in {"none", "running", "crashed", "gone"}
    /\ child \in {"none", "running", "flushing", "gone"}
    /\ kind \in {"obedient", "deaf", "chatty"}
    /\ exitcode \in {"none", "zero", "other"}
    /\ watcher \in {"none", "polling", "calling", "gone"}
    /\ isStop \in BOOLEAN /\ early \in BOOLEAN
    /\ told \in {{}, {"thread", "child"}}
    /\ stopping \in [Stopper -> {"idle", "join", "terminate", "stopped"}]

Ended ==
    /\ thread \in {"none", "gone"} /\ child \in {"none", "gone"}
    /\ starter \in {"done", "raised"} /\ watcher \in {"none", "gone"}

\* A child started after stop() looked for it, which does not end at its sentinel.
Missed == early /\ kind # "obedient" /\ child \in {"running", "flushing"}

\* A failure of the thread or of the child ends both, and so does stop(), even when it
\* comes before the child or is run again by the watcher for the child it terminated;
\* only a child that was started later and does not keep to the protocol is missed
\* (async_task_util.py:233-239, 255-257, 277-309).
FailureEndsBoth ==
    (\/ isStop
     \/ thread = "crashed"
     \/ watcher = "polling" /\ exitcode = "other" /\ child = "gone") ~> (Ended \/ Missed)
=============================================================================
