--------------------------- MODULE ServerProcess ---------------------------
(***************************************************************************)
(* The life of a process and the signals that end it: the web process of   *)
(* wsgi.py (waitress) and the task worker of scripts/worker.py.            *)
(*                                                                         *)
(* Python runs a signal handler in the main thread, on top of whatever     *)
(* that thread was doing, a clean-up or a critical section included.  So   *)
(* the main thread is a stack of frames: frame 0 is main(), frame k the    *)
(* handler of the k-th signal, and only the top one moves.  The watchdog   *)
(* timer is a thread of its own.  Its clean-up, the one of a second signal *)
(* and the one of main() may therefore interleave, and a handler may wait  *)
(* for a lock that a frame below it holds: such a process is Stuck.        *)
(*                                                                         *)
(* Abstracted: the servers' and the worker's own threads (modules          *)
(* TcpServer, TaskQueueRedis, TaskQueueMemory) are whether they still run; *)
(* connections are counted, busy or idle.  Bounds: MaxSignals signals,     *)
(* MaxConns connections open at a time.                                    *)
(***************************************************************************)
EXTENDS Naturals, Sequences, SequencesExt

CONSTANTS MaxSignals, MaxConns

\* What the constants are; ASSUMEd where the module is instantiated.
ProcessAssumption == MaxSignals \in Nat /\ MaxConns \in Nat

Dog == MaxSignals + 1                  \* the watchdog's frame
Frame == 0..Dog
Free == Dog + 1                        \* no frame holds the lock
Server == {"tcp", "udp"}
Entry == Server \cup {"worker"}        \* what lets work in from outside

VARIABLES
    kind,       \* "web" or "worker"
    status,     \* "starting", "running", "exited", or "died": no clean-up
    pc,         \* per frame: the step it is at and the part of that step
    depth,      \* the top frame of the main thread
    signals,    \* signals delivered so far
    triggered,  \* state['triggered']: the first signal was handled
    listening,  \* the HTTP socket accepts
    busy, idle, \* connections with a request in flight, and without
    held,       \* the frame inside the lock of each entry, or Free
    ref,        \* entries the program still has a reference to
    works,      \* entries whose threads still take work
    stopping,   \* entries told to stop
    mine,       \* per frame: the entries its stop() took the reference of
    disposed    \* the dependencies released so far

vars == <<kind, status, pc, depth, signals, triggered, listening, busy, idle, held,
          ref, works, stopping, mine, disposed>>
http == <<listening, busy, idle>>
entries == <<held, ref, works, stopping, mine>>

\* The steps of each program: main() up to its loop, the clean-up of the web
\* process and the end of the worker's.
Startup == [web |-> <<"tcp", "udp", "worker", "create", "install", "run">>,
            worker |-> <<"install", "worker", "run">>]
CleanupDisposesFirst == <<"worker", "db", "tcp", "udp", "redis", "pool", "exit">>
Cleanup == <<"worker", "tcp", "udp", "db", "redis", "pool", "exit">>
Ending == [web |-> Cleanup, worker |-> <<"worker", "queue", "exit">>]

\* The step after s in a program, and a frame's position in its ending.
After(prog, s) == prog[CHOOSE i \in 2..Len(prog) : prog[i - 1] = s]
Off == <<"off", "none">>
First(k) == <<Ending[k][1], "enter">>

Init ==
    /\ kind \in {"web", "worker"}
    /\ status = "starting" /\ depth = 0 /\ signals = 0 /\ triggered = FALSE
    /\ pc = [f \in Frame |-> IF f = 0 THEN <<Startup[kind][1], "start">> ELSE Off]
    /\ listening = FALSE /\ busy = 0 /\ idle = 0
    /\ held = [e \in Entry |-> Free]
    /\ ref = {} /\ works = {} /\ stopping = {} /\ disposed = {}
    /\ mine = [f \in Frame |-> {}]

Alive == status \in {"starting", "running"}
Active(f) == Alive /\ (f = Dog \/ f = depth)
At(f, s, part) == Active(f) /\ pc[f] = <<s, part>>
Goto(f, s, part) == pc' = [pc EXCEPT ![f] = <<s, part>>]

----------------------------------------------------------------------------
\* main() up to its loop.

StartNext == Goto(0, After(Startup[kind], pc[0][1]), "start")

\* start_protocol_servers() and start_embedded_task_worker(): each entry may
\* be off by configuration; a port that cannot be bound raises through main(),
\* and the interpreter ends.  scripts/worker.py always starts its threads.
StartEntry(e) ==
    /\ At(0, e, "start")
    /\ \/ /\ ref' = ref \cup {e} /\ works' = works \cup {e}
          /\ StartNext /\ UNCHANGED status
       \/ /\ kind = "web" /\ StartNext /\ UNCHANGED <<ref, works, status>>
       \/ /\ e \in Server /\ status' = "died" /\ UNCHANGED <<pc, ref, works>>
    /\ UNCHANGED <<kind, depth, signals, triggered, http, held, stopping, mine, disposed>>

CreateServer ==
    /\ At(0, "create", "start")
    /\ listening' = TRUE /\ StartNext
    /\ UNCHANGED <<kind, status, depth, signals, triggered, busy, idle, entries, disposed>>

InstallHandlers ==
    /\ At(0, "install", "start")
    /\ status' = "running" /\ StartNext
    /\ UNCHANGED <<kind, depth, signals, triggered, http, entries, disposed>>

\* Connections while waitress runs.  Closing the listening socket leaves the
\* open ones alone: they may even send another request.
Connect == /\ listening /\ busy + idle < MaxConns /\ idle' = idle + 1
           /\ UNCHANGED <<busy, listening>>
SendRequest == /\ idle > 0 /\ idle' = idle - 1 /\ busy' = busy + 1
               /\ UNCHANGED listening
Respond == /\ busy > 0 /\ busy' = busy - 1 /\ idle' = idle + 1
           /\ UNCHANGED listening
Hangup == /\ \/ busy > 0 /\ busy' = busy - 1 /\ UNCHANGED idle
             \/ idle > 0 /\ idle' = idle - 1 /\ UNCHANGED busy
          /\ UNCHANGED listening
Peers ==
    /\ Alive /\ pc[0] = <<"run", "start">>
    /\ Connect \/ SendRequest \/ Respond \/ Hangup
    /\ UNCHANGED <<kind, status, pc, depth, signals, triggered, entries, disposed>>

\* waitress' loop returns when its socket map is empty; main()'s finally
\* clause cleans up.
RunReturns ==
    /\ kind = "web" /\ At(0, "run", "start")
    /\ ~listening /\ busy + idle = 0
    /\ pc' = [pc EXCEPT ![0] = First(kind)]
    /\ UNCHANGED <<kind, status, depth, signals, triggered, http, entries, disposed>>

\* run_forever(): Event.wait() takes the event's lock, lets go of it while it
\* waits, and takes it again to return; is_set() takes none.
RunForever ==
    /\ kind = "worker"
    /\ \/ /\ At(0, "run", "start")
          /\ IF "worker" \in stopping
             THEN pc' = [pc EXCEPT ![0] = First(kind)] /\ UNCHANGED held
             ELSE /\ held["worker"] = Free
                  /\ held' = [held EXCEPT !["worker"] = 0] /\ Goto(0, "run", "held")
       \/ /\ At(0, "run", "held")
          /\ held' = [held EXCEPT !["worker"] = Free] /\ Goto(0, "run", "start")
    /\ UNCHANGED <<kind, status, depth, signals, triggered, http, ref, works, stopping, mine, disposed>>

----------------------------------------------------------------------------
\* Signals.  Before the handlers are installed a signal kills the process.

Kill ==
    /\ status = "starting" /\ status' = "died"
    /\ UNCHANGED <<kind, pc, depth, signals, triggered, http, entries, disposed>>

Signal ==
    /\ status = "running" /\ signals < MaxSignals
    /\ signals' = signals + 1 /\ depth' = depth + 1
    /\ pc' = [pc EXCEPT ![depth + 1] = <<"handler", "start">>]
    /\ UNCHANGED <<kind, status, triggered, http, entries, disposed>>

\* The first signal closes the listening socket, starts the watchdog and
\* returns to what it interrupted; a later one cleans up and exits.  The
\* worker's handler always stops the worker and closes the queue.
Handler(f) ==
    /\ At(f, "handler", "start")
    /\ triggered' = TRUE
    /\ IF kind = "web" /\ ~triggered THEN Goto(f, "close", "start")
                                     ELSE pc' = [pc EXCEPT ![f] = First(kind)]
    /\ UNCHANGED <<kind, status, depth, signals, http, entries, disposed>>

CloseListener(f) ==
    /\ At(f, "close", "start")
    /\ listening' = FALSE /\ Goto(f, "arm", "start")
    /\ UNCHANGED <<kind, status, depth, signals, triggered, busy, idle, entries, disposed>>

Return(f, watchdog) ==
    /\ depth' = depth - 1
    /\ pc' = [pc EXCEPT ![f] = Off, ![Dog] = watchdog]
ArmNothing(f) == Return(f, pc[Dog])
Arm(f) == Return(f, <<"timer", "armed">>)
StartWatchdog(f) ==
    /\ At(f, "arm", "start") /\ Arm(f)
    /\ UNCHANGED <<kind, status, signals, triggered, http, entries, disposed>>

WatchdogFires ==
    /\ At(Dog, "timer", "armed")
    /\ pc' = [pc EXCEPT ![Dog] = First(kind)]
    /\ UNCHANGED <<kind, status, depth, signals, triggered, http, entries, disposed>>

----------------------------------------------------------------------------
\* The ending, the same for whichever frame runs it.

EndNext(f, s) == Goto(f, After(Ending[kind], s), "enter")

\* stop() of an entry enters its lock; the web process skips a worker it has
\* no reference to.
StopEnter(f, e) ==
    /\ At(f, e, "enter")
    /\ IF kind = "web" /\ e = "worker" /\ e \notin ref
       THEN EndNext(f, e) /\ UNCHANGED held
       ELSE /\ held[e] = Free
            /\ held' = [held EXCEPT ![e] = f] /\ Goto(f, e, "held")
    /\ UNCHANGED <<kind, status, depth, signals, triggered, http, ref, works, stopping, mine, disposed>>

\* Inside: the worker's event is set; a server's reference is taken, and who
\* finds none has nothing to stop.
StopHeld(f, e) ==
    /\ At(f, e, "held")
    /\ held' = [held EXCEPT ![e] = Free]
    /\ Goto(f, e, "wait")
    /\ IF e = "worker"
       THEN stopping' = stopping \cup {e} /\ UNCHANGED <<ref, mine>>
       ELSE /\ mine' = [mine EXCEPT ![f] = @ \cup (ref \cap {e})]
            /\ ref' = ref \ {e} /\ UNCHANGED stopping
    /\ UNCHANGED <<kind, status, depth, signals, triggered, http, works, disposed>>

\* A server is told to shut down, and its loop waited for.
Shutdown(f, e) ==
    /\ At(f, e, "wait") /\ e \in mine[f] \ stopping
    /\ stopping' = stopping \cup {e}
    /\ UNCHANGED <<kind, status, pc, depth, signals, triggered, http, held, ref, works, mine, disposed>>

\* The worker's threads are joined for a limited time only, and the reference
\* to it dropped.
StopWait(f, e) ==
    /\ At(f, e, "wait")
    /\ \/ e = "worker" /\ ref' = ref \ {e} /\ UNCHANGED mine
       \/ e \in Server /\ e \notin mine[f] /\ UNCHANGED <<ref, mine>>
       \/ /\ e \in mine[f] \cap stopping /\ e \notin works
          /\ mine' = [mine EXCEPT ![f] = @ \ {e}] /\ UNCHANGED ref
    /\ EndNext(f, e)
    /\ UNCHANGED <<kind, status, depth, signals, triggered, http, held, works, stopping, disposed>>

ThreadsEnd(e) ==
    /\ Alive /\ e \in stopping \cap works
    /\ works' = works \ {e}
    /\ UNCHANGED <<kind, status, pc, depth, signals, triggered, http, held, ref, stopping, mine, disposed>>

\* The engine's pool, the Redis client, the executor; the worker's queue.  A
\* handler of the worker returns after the queue.
Dispose(f, s) ==
    /\ At(f, s, "enter") /\ disposed' = disposed \cup {s}
    /\ IF kind = "worker" /\ f > 0
       THEN Return(f, pc[Dog])
       ELSE EndNext(f, s) /\ UNCHANGED depth
    /\ UNCHANGED <<kind, status, signals, triggered, http, entries>>

Exit(f) ==
    /\ At(f, "exit", "enter") /\ status' = "exited"
    /\ UNCHANGED <<kind, pc, depth, signals, triggered, http, entries, disposed>>

Step(f) ==
    \/ Handler(f) \/ CloseListener(f) \/ StartWatchdog(f) \/ Exit(f)
    \/ \E e \in Entry : \/ StopEnter(f, e) \/ StopHeld(f, e)
                        \/ Shutdown(f, e) \/ StopWait(f, e)
    \/ \E s \in {"db", "redis", "pool", "queue"} : Dispose(f, s)

Main == \/ \E e \in Entry : StartEntry(e)
        \/ CreateServer \/ InstallHandlers \/ RunReturns \/ RunForever

Next ==
    \/ Main \/ Peers \/ Kill \/ Signal \/ WatchdogFires
    \/ \E f \in Frame : Step(f)
    \/ \E e \in Entry : ThreadsEnd(e)

\* Threads are scheduled, timers fire and a server told to shut down leaves
\* its loop; requests, tasks and peers may go on for ever.
Fairness ==
    /\ WF_vars(Main) /\ WF_vars(WatchdogFires)
    /\ \A f \in Frame : WF_vars(Step(f))
    /\ \A s \in Server : WF_vars(ThreadsEnd(s))

FairSpec == Init /\ [][Next]_vars /\ Fairness

----------------------------------------------------------------------------
\* The top frame of the main thread waits for a lock that a frame below it
\* holds: no lock involved is reentrant, and the frame below cannot move.
Stuck == \E e \in Entry : depth > 0 /\ pc[depth] = <<e, "enter">> /\ held[e] < depth

\* The database is released only after the message servers left their loops
\* and the worker was told to stop, as _cleanup_resources() orders it, except
\* that a clean-up which finds another one in the middle of stopping a server
\* does not wait for it.
EntryStopsFirst ==
    "db" \in disposed =>
        /\ \A s \in Server \cap works : \E f \in Frame : s \in mine[f]
        /\ "worker" \in works => "worker" \in stopping

\* A signalled process ends, whatever its requests, tasks and peers do: only
\* a handler that interrupted a stop() inside its lock can hang it.
SignalEnds == depth > 0 ~> (~Alive \/ Stuck)
============================================================================
