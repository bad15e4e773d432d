# A formal model of py_flask_server

TLA+ models of the concurrent and stateful parts of `flask_server`, checked with TLC on small
instances and, where it pays, proved with TLAPS for every value of the constants.

1. [The system](#1-the-system)
2. [Modules](#2-modules)
3. [What the runs check](#3-what-the-runs-check)
4. [What is proved](#4-what-is-proved)
5. [Where the code and its documentation disagree](#5-where-the-code-and-its-documentation-disagree)
6. [What is not modelled](#6-what-is-not-modelled)
7. [Plan](#7-plan)

To check one run: `tlc -config RedisCrash.cfg MCTaskQueueRedis.tla` (runs, modules and
configurations are listed in `PROJECT.json`); to check a proof: `tlapm AuthTokensProofs.tla`.

## 1. The system

`flask_server` is a framework: a Flask application with authentication, rate limiting, caches
and a task queue, TCP and UDP protocol servers next to it, and a worker process
(`scripts/worker.py`). Several server processes share one Redis and one database. Within a
process there are request threads (waitress or gunicorn), consumer threads of the task worker,
one thread per TCP connection, sweeper threads, and signal handlers.

| Component | State | Operations | Works with | What is hard | What makes it correct |
|---|---|---|---|---|---|
| Redis task queue (`module/task_queue.py`) | stream, consumer group with its pending list, ZSET of delayed tasks, dead-letter list, status keys | enqueue, reserve (promote due tasks, read), mark running, ack, retry, dead_letter, reclaim_stale, stats | worker threads of all processes, through Redis only | sequences of commands that are not atomic, lost replies, dying processes, handlers slower than the visibility timeout | no task is lost, none is run twice without a fault, the retry budget, the status record, every task leaves in the end |
| Memory task queue (same file) | deque, heap, status table, dead-letter deque, condition variable | the same, under one lock | consumer threads of the process | wake-ups: tasks come due without a notify; close and stop while threads sleep | one place per task, truthful status, no lost wake-up |
| Task worker (`module/task_worker.py`) | stop event, consumer threads | loop, handle, reclaim, stop | both queues, the handler registry | handlers that raise, or leave by a BaseException; stop | a task that was taken is settled |
| TCP server (`module/protocol_server.py`, `tcp_server.py`) | server object, semaphore of slots, set of connections | start, stop, accept, serve, callbacks | `socketserver`, peers, handlers | start and stop from several threads, threads that do not start, sockets closed by another thread | slots conserved, callbacks paired, stop leaves nothing behind |
| TCP framing (`tcp_server.py`) | a buffer per connection | `_read_frame` in line, fixed and head_tail mode | `recv` | chunk boundaries, delimiters that overlap, limits | what is delivered depends on the bytes alone; bounded buffer |
| UDP server (`udp_server.py`) | server object, slots | receive, handle, reply, send, start, stop | `socketserver`, handlers | floods, threads that do not start, a restart while old threads live | slots conserved |
| Tokens (`component/auth.py`) | keys in Redis and in each process's memory cache | login, refresh, logout, lookup | both caches, the user store, the auth views | two stores without a common transaction, cooldown after an error, concurrent refreshes | a refresh token is spent once, logout is final, a held token is not lost |
| Login lock, failure counter, rate limit (`auth.py`, `rate_limit.py`) | counters and lock keys | `_cache_incr`, check and record, `rate_limit_check` | both caches | check-then-act around a slow hash, two counters after an outage | bounded number of attempts per lock and per window |
| Redis and memory cache (`module/redis_cache.py`, `simple_memory_cache.py`) | keys; cooldown flags; sweeper | get, set, delete, getdel, incr | tokens, limits | cooldown, expiry, TTL of counters | atomic operations, symmetric fallback |
| Key generator (`util/key_generator.py`) | last timestamp, sequence | next_id | all threads of a process | clock, sequence overflow | identifiers increase and never repeat |
| Executors (`util/async_task_util.py`) | permits, pool, child process and watcher | submit, shutdown; start, stop | callers, children | who gives a permit back; stop called from a callback of stop | permits conserved and given back; a failure ends thread and child |
| SQLite access (`module/sqlite.py`) | a connection per thread, the file lock | execute, query | threads | retries while locked, errors that leave a transaction open | a write is made once or not at all; a lock is left only for a cause |
| Entry points and shutdown (`wsgi.py`, `wsgi_gunicorn.py`, `server.py`, `scripts/worker.py`) | frames of the main thread, watchdog, listening socket, who binds the protocol ports | main, signal handlers, clean-up, start of workers | TCP and UDP server, worker, database, caches | a handler on top of a critical section, a second signal, workers that fight for a port | entries stop before what they depend on; the process ends; all workers serve |
| Request pipeline (`app.py`, `component/`, `controller/`) | the request of each thread; caches of file existence and of health probes; metrics | hooks in order, views, error handlers, after-request, teardown | limits, tokens, files, database, Redis | answers from every hook, exceptions anywhere, stale entries, slow probes that overwrite newer results | each request counted once; a health answer is not older than promised; a fallback only for cause |
| Configuration (`config.py`) | settings, the defaults and those injected in an application | parsing, overrides, resolution | everything | values missing, unreadable, out of range | every setting is usable whatever the environment says |
| User store (`auth.py`, `module/sqlalchemy.py`) | the store object, users | first use, register, look-ups | SQLAlchemy | first uses that race, query and insertion in two steps | a name has one owner |
| Schemas, logging, utilities, scripts | none that changes concurrently, or that of a library | | | | |

The full list of components with sources and status is in `PROJECT.json`, which also lists the
hazards (what is hard to test here, at its line) with the properties that cover them.

## 2. Modules

| Module | Models | Composes |
|---|---|---|
| `TaskDelivery` | abstract promise of the queue: a submitted task is owed until it is done or dead | |
| `TaskQueueRedis` | `RedisTaskQueue` and the worker loop | implements `TaskDelivery` |
| `TaskQueueMemory` | `MemoryTaskQueue` and the worker loop | implements `TaskDelivery` |
| `TcpServer` | `ProtocolServer.start/stop` and `TcpServer`'s connections | |
| `TcpFraming` | `_read_frame` and its modes | |
| `UdpServer` | datagrams, slots and `send()` of `udp_server.py` | |
| `AuthTokens` | login, refresh, logout, lookup over `RedisCache` and `SimpleMemoryCache` | |
| `LoginLock` | failure counter and lock around the password check of `login` | |
| `RateLimit` | `rate_limit_check` with `get_real_ip` and `incr` of both caches | |
| `UserStore` | `_get_store` and registration in memory and in SQL | |
| `KeyGenerator` | `next_id`, the lazy worker of a process and its number | |
| `AsyncPool` | `BoundedExecutor` and the tasks of `AsyncTaskUtil` | |
| `SubprocessTask` | thread, child, watcher and `stop()` of a subprocess task | |
| `SqliteAccess` | `execute` with retries, one connection per thread | |
| `ServerProcess` | main, signals, watchdog and clean-up of `wsgi.py` and `scripts/worker.py` | start and stop of the servers and the worker |
| `WorkerStartup` | which process of a deployment binds the protocol ports | |
| `RequestPipeline` | hooks, views, error handlers, health and file caches, metrics | what limits and tokens answer |
| `Configuration` | what the environment variables become (operators, no state) | |
| `Services` | ten parts that share no state, side by side (section 3), and what their constants are (`ServicesAssumption`) | instances of them |
| other `MC...` | model values, budgets, modes and symmetry for TLC | |
| `TaskQueueRedisProofs`, `TaskQueueMemoryProofs`, `TcpServerProofs`, `TcpFramingProofs`, `AuthTokensProofs`, `KeyGeneratorProofs`, `ServicesProofs`, `RequestPipelineProofs` | theorems (section 4); those about `Configuration` are in `TcpFramingProofs` | extend what they are about |

### TaskQueueRedis

The grain is one Redis command: the server executes a command atomically, and everything else
can come between two commands. A thread's position between its commands is `pc`; the entry it
works on is `job`, the outcome it is settling is `fate`, the list it walks through (due members to
promote, stale messages to reclaim) is `todo`.

- *State.* The stream is a set of entries with ids. `delivered` is the group's position,
  `pel` the pending list, `delayed`/`due` the ZSET and its due members, `deadList` the list.
  `status` is the record that `get_status` reads. `caller` is the progress of an `enqueue` call.
- *Actions.* `Enqueue`, `RecordQueued` (XADD or ZADD, then the record); `PromoteScan`,
  `PromoteTake`, `PromoteAdd`, `PromoteBack`; `Read`, `ReadNothing`, `ReadFails`, `MarkRunning`;
  `HandlerReturns`, `HandlerRaises`, `NoHandler`, `HandlerExits`; `XAck`, `XDel`, `ZAddRetry`, `LPush`, `LTrim`,
  `RecordFate`; `Reclaim`, `Claim`.
- *Failures.* Every command has a reply: "ok", "refused" (it failed without effect) or "lost" (it
  took effect, the caller sees an exception). `Crash` kills a process with its threads between any
  two commands; its job stays pending. `BecomeStale` lets the visibility timeout pass, also while
  the handler still runs. `HandlerExits` is a handler that leaves by a BaseException, which neither
  `_handle` nor the loop catches: the thread is gone until its process is restarted, and the entry
  stays pending until another thread takes it over. Each kind has a bound of its own (`MaxCrashes`,
  `MaxErrors`, `MaxSlow`, `MaxExits`).
- *Time* is nondeterministic: `ComeDue`, `BecomeStale`, and the 1 s and 30 s throttles
  (`SkipPromote`, `SkipReclaim`). Backoff delays, zero included, are "due at some time".
- *Histories*: `done`, `buried`, and `torn`, the tasks a fault hit while a thread carried their
  only copy from one place to another.

### TaskQueueMemory

Each public operation holds the lock, so each is a step; the thread positions exist for the
condition variable. `waiters` is the wait list of `threading.Condition`, first in, first out. A
sleeper that timed out stays on it until it has the lock again, so a notification can be spent on
it. `ComeDue` only advances `due`; `_promote_due` runs where the code calls it (reserve and stats).
`HandlerExits` is a handler that leaves by a BaseException and takes its thread with it. `closed`
and `stopping` are `close()` and `TaskWorker.stop()`.

### TcpServer

`start()` keeps `self._lock` throughout, but other threads read `self._server` without it, so its
three moments are steps: the new server is published (`Publish`); its thread starts
(`ThreadStarts`), or does not and the reference is taken back (`ThreadFails`); in the latter case
the socket is closed (`RollBack`). Meanwhile no `stop()` can begin (`Starting`), but one under way
goes on and connections register. `lured` remembers those that registered during a `start()`, until
one succeeds. `stop()` holds the lock only to take the server away; shutdown request, waiting, closing the listener, closing connections one by one and
returning are steps. Each `start()` makes a new serve loop, a *generation*. A connection goes
through accept, slot, thread, tracking, `on_connect`, recv and messages, `on_disconnect`,
untracking, and release of the slot. Of `socketserver` and of sockets only what the code depends
on is modelled, marked external in the map.

### TcpFraming

A step is one round of a parser loop, or one `recv` of up to `Chunk` bytes of the stream. Frames
are remembered by their place in the stream, so that a property can compare what was delivered
with the bytes that were sent. `find` and `del buffer[:n]` are operators. `Apart` says that the end
of a head cannot be taken for the end of a proper beginning of the tail; without it the parser loses
messages (section 5), so `NoMessageLost` and `FailsForCause` are about delimiters that are apart.

### AuthTokens

A request is the list of cache calls it still has to make (`todo`). A call is made at Redis and, if
Redis missed or did not answer, or always for a deletion, at the memory cache of the process:
`RedisAnswers`, `RedisSkipped` (cooldown), `RedisFails` (with or without effect), `MemoryAnswers`.
A grant is the pair of tokens of one answer. `making` is the grant a request will answer with:
clients know only grants that were answered (`Known`), and grants whose view could not read the
new token back are `withheld`. `root` names the login a grant descends from. `Places(k)` are the
copies of a key in Redis and in the caches, and the calls on their way that will store one: what
rotation must keep to one per login. Keys expire; a process restarts and loses its cache; cooldowns
begin and end. The TTLs are "at some time".

### UdpServer

The serve loop receives, takes a slot or drops, and starts a thread, in this order, one datagram at
a time (`AtWork`); `stop()` is reference, loop, socket. `via` is the server a datagram came by: a
thread of a stopped server still gives its slot back, and finds its socket closed. `send()` reads the
reference twice (`SendLooks`, `SendTo`).

### LoginLock, RateLimit, UserStore

One step per cache call or SQL statement; what lies between them (the password hash, the query
before the insertion) is where other threads come in. `Flip` moves between Redis and the memory of
the process, which have counters of their own. A lock is `live`, `stale` (it ended, its key has not
expired) or gone. `RateLimit` counts ticks of a clock and gives each increment a new time to live, as
the code does, and remembers which store counted a request (`counted`, a history); the hops of `X-Forwarded-For` are members of a small set, and `RealIp` walks them
from the right. A memory store is numbered, since the first use may make several.

### KeyGenerator

`next_id` holds the lock of the worker, so it is a step, except for the spin to the next
millisecond. The clock advances and may be set back. `sequence` wraps at `SequenceSize` and starts at
0 in a new millisecond. An identifier is the number composed of time, machine and
sequence.

### AsyncPool and SubprocessTask

Permits, the queue and the threads of the pool; a submission is taking the permit, handing over,
and hanging on the callback, between which the task may already be done. A command may time out and
leave a child that holds its pipe. `SubprocessTask` keeps where each of the three callers of
`stop()` is (the user, the thread that crashed, the watcher), and children that obey, do not, or wrote
more than the pipe takes.

### SqliteAccess

`locker` is the connection with the write lock, `pending` what each connection has not committed,
`reading` the threads in a fetch, `cause` what the last call of a thread ended with.

### ServerProcess and WorkerStartup

The main thread is a stack of frames, since CPython runs a signal handler on top of whatever the
main thread does; only the top frame moves, and the watchdog is a thread beside it. Each frame
goes through the steps of `Startup` and `Ending`. `held` is the frame inside the lock of a server,
or of the worker's event. `WorkerStartup` has the processes of gunicorn, of Werkzeug's reloader or a
single one, and who listens on the port.

### RequestPipeline

A thread's request goes through `Hooks` in the order of registration; every hook may answer, and
then the view is skipped but not the after-request hooks. `/health` is stepwise: clock, cache, probe
of the database, probe of Redis, store. So is the static site: stat, cache lookup, store with
eviction, sending. `up` and `files` are the world, which `Flip` changes. What the rate limit and the
token lookup say is any answer, since `RateLimit` and `AuthTokens` model what they say; a user store
that raises makes it a 500. `MetricsEnabled` switches the timer and the counters of `metrics.py`.

### Configuration

Operators from raw values (unset, unreadable, or a value) to settings. `Limits` are the tables of
settings with a lower limit and their defaults. Overrides and the settings object a thread sees are
operators, too.

## 3. What the runs check

All bounds are CONSTANTS that guard the actions they limit. Two tasks, two processes, two
threads are the smallest numbers with which the interleavings the code has to survive occur
(two workers at one message, two presenters of one token, two callers of `stop()`); the fault bounds
are one, so that each counterexample shows the effect of a single fault.

| Run | Instance | Shows |
|---|---|---|
| `RedisCrash` | 2 processes, 2 tasks (one retried, one unregistered), a crash anywhere, a handler that ends its thread, a SIGTERM | `SoleCopy`: no task is held twice nor run by two threads, takeovers included; `DeadLettersExhausted`: the list holds what cannot be helped, beyond its limit only letters not trimmed yet or by nobody, since their pusher died; `ConfirmedIsDeleted`: what is pending still has its data in the stream, and what is confirmed is deleted from it, unless a fault came between XACK and XDEL; `OnlyLateWritesReopen`: only the status writes of enqueue and retry, late by design, reopen an ended task |
| `RedisErrors` | 2 processes, a normal and a corrupt entry, delays, one failed command, one handler slower than the visibility timeout, one that ends its thread | `NothingLost` with its single exception, `BudgetUpToFaults`, `DeliveryPromise`: the steps refine `TaskDelivery` |
| `RedisFair` | one task, crash, visibility timeout, SIGTERM, a handler that ends its thread | `EveryTaskLeaves`: every task leaves the queue for good, as long as a consumer thread is left |
| `MemoryQueue` | 3 threads, 2 tasks, delays, limits of 1, `stats()`, `close()`, stop, a handler that ends its thread | `StatusAgrees` (one place per task, and the record names it), `WakeupsCoverReady`, `DeliveryPromise`, `EveryTaskSettles` |
| `TcpLifecycle` | 2 connections, 1 slot, 2 callers, 2 starts, 2 stops, 1 thread (of a server or of a connection) that does not start | `SlotsConserved`, `CallbacksPaired`, `NoStragglers`, `StopEnds` |
| `Framing` | every stream of up to 7 bytes over 3 letters, all chunkings, lines, fixed lengths, and heads and tails that differ, are equal, or begin or end with each other | `FramesSound`, `BufferBounded`; `NoMessageLost` and `FailsForCause` for delimiters that are `Apart` |
| `AuthTokens` | 2 processes with a thread each, 2 grants, one logout, one fault, one expiry or restart | `RefreshSpentOnce`, `RotationNeverForks`, `LogoutRevokes`, `HeldTokensKept` |
| `Services` | ten parts, each alone in its behaviours (table below) | 13 properties |
| `Requests` | 2 threads, 3 requests of all kinds, a page and two assets, all deployed at first, a cache of one file, health results valid 2 of 4 seconds, one file or dependency that changes | `CountedOnce`, `HealthIsRecent`, `FallbackForCause` |
| `RedisLossByCrash`, `TcpStopLeavesPeers`, `FramingChunks` | as small as the disagreement allows | the counterexamples of section 5 |

The parts of `Services`. They share no state, so that putting them side by side loses no
interleaving; the first step of a behaviour is in one part and so are all others.

| Part | Instance | Shows |
|---|---|---|
| `KeyGenerator` | 2 processes, 3 threads, 2 sequence numbers per millisecond, the clock set back once | `IdsUnique`: what one process issues increases and never repeats, and processes with different machine numbers never agree |
| `AsyncPool` | a function, a command, a command that leaves a child; one thread, one place in the queue, one thread that cannot be started | `PermitsConserved`: each permit is free or with one task; `PermitsReturn`: all come back, but for commands whose pipe stays open |
| `SubprocessTask` | three kinds of children, failures of thread and child, `stop()` from three sides, also during `start()` | `FailureEndsBoth`: a failure or a stop ends thread and child, but for a child started after `stop()` looked for it that does not obey |
| `SqliteAccess` | 2 threads, 4 writes of which one fails a constraint and one does not parse, a reader, with and without WAL | `WrittenOnce`: no retry writes twice, and what returned is in the file; `LockLeftForCause` |
| `UserStore` | 2 registrations and a login of one name, in memory or SQL, one failed commit | `OneOwner`, but for the calls that race to make the memory store |
| `RateLimit` | 4 requests, limit 2 in a window of 2 ticks, forged hops, one change between Redis and memory | `AdmittedBounded`: in no window more than the limit, in each of the two stores |
| `LoginLock` | 2 threads, 6 logins, limit 2, two expiries, one change between Redis and memory | `GuessesBounded`: the limit, plus one per other thread past the check, for each lock or counter that was forgiven |
| `ServerProcess` | web process and worker, 2 signals at any step, one connection | `EntryStopsFirst`: the database goes after the entries; `SignalEnds`: a signalled process ends unless it is stuck in a lock below it |
| `WorkerStartup` | gunicorn with 2 slots, reloader, single process; the port free or taken; 2 crashes or edits | `AllServe`: no process is restarted for ever over a port |
| `UdpServer` | 2 datagrams for 1 slot, 2 starts, a thread that sends | `DatagramSlots`: slots are never lost or invented |

Why the framing bound is enough: delimiters have at most two bytes, the limit is 3, so 7 bytes
hold a head, a payload beyond the limit, a tail, and bytes of another frame.
Why two grants are enough for tokens: a login and one exchange of its token, or two independent
logins; a longer chain of rotations repeats the step from one grant to the next.
Why six logins are enough for the lock: the bound is three guesses without a counter or lock that is
forgiven and six with one, so that six logins can break the first and reach the second.
Why two signals: the first starts the drain, the second cleans up on top of it; a third only adds a
frame that waits for what the second holds.

**Deadlock.** It is not checked where the system really stops: the memory queue, the TCP
server and the services are quiescent when nobody calls them, a stream ends, a process exits, and
requests end when the bound on them is used up. In `RedisCrash` and `RedisFair` the last consumer may
go, one process by SIGTERM and the thread of the other by its handler, and then all stops (which
`EveryTaskLeaves` names as `Unattended`). In the other Redis runs it is checked, and the workers'
polling keeps the system live.

**Fairness.**
- Redis queue: weak fairness of enqueue's own steps and of every thread's progress (operating-system
  scheduling; handlers are assumed to end). Strong fairness, per process, of a promotion scan and
  of a reclaim round: the throttles compare with a clock, so they cannot be closed each time a loop
  that never ends passes them. A reclaim round comes only after a read that found nothing; each task
  is submitted once here, so such reads come. Weak fairness of time (`ComeDue`, `BecomeStale`). No
  fairness of crashes, errors, signals, callers or handlers that end their thread.
- Memory queue: weak fairness of each thread and of time.
- TCP: weak fairness of a `start()` or `stop()` under way, the serve loops and the connection threads. A peer
  need not send or close; a caller need not call. The idle timeout is an action that is enabled only
  when it is configured, as the `settimeout` of the code.
- Services, stated in their modules and assumed by the property: threads that were started are
  scheduled, functions and commands end or time out, a server told to shut down leaves its loop,
  launchers fork what is missing. A user need not start or stop anything, tasks of the worker need
  not end, requests and peers may go on for ever, and a pipe held by a child of a killed command may
  stay open.

## 4. What is proved

TLAPS checks these for every value of the constants that satisfies the named assumptions:
`QueueAssumption`, `MemoryAssumption`, `TcpAssumption`, `FramingAssumption`, `AuthAssumption`,
`KeyAssumption`, `PipelineAssumption` and `ServicesAssumption`, which collects those of the
parts. They only give the constants their types, and say that there is a task, that limits
are positive, and that delimiters are not empty (`FramingIsUsable` proves the last of what
`config.py` settles). All bounds, of crashes, errors, starts or steps of the clock, are arbitrary
natural numbers. Where a theorem counts, it assumes that what it counts is finite: the connections,
the datagrams, the tasks of the executor, the calls that register, the threads of the process or the
web server, the processes and their thread slots.

| Module | Theorem | Says |
|---|---|---|
| `TaskQueueRedisProofs` | `TypeCorrect` | `Spec => []TypeOK` |
| | `NoTaskLost` | `Spec => []NothingLost` |
| | `KeepsItsPromise` | `Spec => DeliveryPromise`, the refinement of `TaskDelivery` |
| | `BudgetHolds` | `Spec => []BudgetUpToFaults` |
| | `LettersStayWithin` | `Spec => []DeadLettersExhausted`, processes and slots finite |
| | `OneWorkerEach` | `Spec => [](errors = 0 /\ slow = 0 => SoleCopy)` |
| | `OneWorkerWithoutFaults` | `Spec => []SoleCopy` if `MaxErrors = 0 /\ MaxSlow = 0` |
| | `EndIsFinal` | `Spec => OnlyLateWritesReopen` if `MaxErrors = 0 /\ MaxSlow = 0` |
| | `OrphansByFaultsOnly` | `Spec => []ConfirmedIsDeleted`, processes and slots finite |
| `TaskQueueMemoryProofs` | `TypeCorrect` | `Spec => []TypeOK` |
| | `StatusIsTrue` | `Spec => []StatusAgrees` |
| | `KeepsItsPromise` | `Spec => DeliveryPromise`, the refinement of `TaskDelivery` |
| | `NoWakeupLost` | `Spec => []WakeupsCoverReady`, threads finite |
| `TcpServerProofs` | `Invariance` | `Spec => []IInv`, connections finite |
| | `SlotsNeverLost` | `Spec => []SlotsConserved`, the same |
| | `CallbacksInPairs` | `Spec => []CallbacksPaired`, the same |
| | `StopLeavesNoStragglers` | `Spec => []NoStragglers`, the same |
| `TcpFramingProofs` | `Invariance` | `Spec => []IInv` |
| | `MessagesAreFrames` | `Spec => []FramesSound` |
| | `NothingDropped` | `Spec => []NoMessageLost` |
| | `MemoryBounded` | `Spec => []BufferBounded` |
| | `FailuresHaveCause` | `Spec => []FailsForCause` |
| | `SettledWithinLimits` | every setting of `Limits` is an integer within its limit, whatever was set |
| | `FramingIsUsable` | the framing mode has the delimiters or the length it needs |
| `AuthTokensProofs` | `TypeCorrect` | `Spec => []TypeOK` |
| | `LogoutIsFinal` | `Spec => []LogoutRevokes` |
| | `ExchangedOnce` | `Spec => []RefreshSpentOnce` |
| | `OneLivePerLogin` | `Spec => []RotationNeverForks` |
| | `HeldTokensStay` | `Spec => []HeldTokensKept` |
| `KeyGeneratorProofs` | `TypeCorrect` | `Spec => []TypeOK` |
| | `IdsNeverRepeat` | `Spec => []IdsUnique` |
| `ServicesProofs` | `PermitsStayConserved` | `SpecOfOne => []PermitsConserved`, tasks finite |
| | `WritesHappenOnce` | `SpecOfOne => []WrittenOnce` |
| | `LockStaysExplained` | `SpecOfOne => []LockLeftForCause` |
| | `OwnerStaysOne` | `SpecOfOne => []OneOwner`, calls finite |
| | `AdmittedStayBounded` | `SpecOfOne => []AdmittedBounded` |
| | `GuessesStayBounded` | `SpecOfOne => []GuessesBounded`, threads finite |
| | `EntriesStayFirst` | `SpecOfOne => []EntryStopsFirst` |
| | `SlotsStayConserved` | `SpecOfOne => []DatagramSlots`, datagrams finite |
| `RequestPipelineProofs` | `Invariance` | `Spec => []IInv`, threads finite |
| | `ResponsesCountedOnce` | `Spec => []CountedOnce`, the same |
| | `HealthStaysRecent` | `Spec => []HealthIsRecent`, the same |
| | `FallbackHasCause` | `Spec => []FallbackForCause`, the same |

`MaxErrors = MaxSlow = 0` is no restriction of the model for the sake of a proof: it is the
condition under which the two properties hold at all. A command that fails after it took effect, or
a handler that outlives the visibility timeout, does give a task a second copy. Crashes,
takeovers and signals are not restricted.

### The Redis queue

A step is first summarised by what it changes (`Step(w)`: `Passes`, `Scans`, `Takes`, ... one for
each position of `pc`); the later proofs use these summaries and not the actions.

**NoTaskLost.** `NothingLost` is not inductive: XACK and XDEL could hit the wrong entry, or a thread
could confirm what no handler finished. `LossInv` adds `IdsSound` (an id names one task wherever it
is cited, ids that threads cite were delivered, so a deletion touches only the entry it means) and
`ThreadSound` (a thread that confirms a success has run the handler). There is one lemma per part
of the code (enqueue, promotion, reading, handling, settling, reclaiming, crash). The
frames `Others` and `Quiet` say what a step of one thread leaves alone, so that each lemma only
looks at the thread that moves. The exception `torn` is part of the property: it is what the code
loses (section 5).

**KeepsItsPromise.** A step concerns at most one known task, and what happens to it says which
abstract step it is (`Classified`): it stays owed, it succeeds, it is buried, released, revived, or
torn. `KnownInv` is what keeps a step from concerning a task nobody submitted: threads carry and are
about to promote or reclaim only tasks that are owed or settled (`Safe`).

**BudgetHolds.** `reclaim_stale` adds an attempt without looking at the budget. So `BudgetInv` says
that whatever it can take has a fault to its credit (`Slack`): a pending entry is tended by the
thread that read it or was left by a crash, a failed command, a slow handler or one that ended its
thread, and then the bound is one larger than the attempts.

**LettersStayWithin.** A letter beyond the limit has a thread before its LTRIM behind it
(`Trimming`), or a crash, or a failed command. A crash stops at most the threads of one process,
hence `crashes * Cardinality(Slot)`.

**OneWorkerEach** and **EndIsFinal.** `SoleInv`: the copies of a task are one (`Sole`), an entry is in
the hands of one thread (`OneHolder`), what a thread holds is pending, and a stale entry is in
nobody's hands. `EndInv` treats the end of a task as a last copy: a thread about to record it, then
the record; while there is one there is no copy a worker could read.

**OrphansByFaultsOnly.** The stream is what waits, what is pending, what is being deleted, and
`Orphans`: entries confirmed and never deleted. A step makes one more orphan at most, and only by a
fault; a crash makes one for each thread that was deleting.

### The in-process queue

The proof first shows that each step is a *move* of one task: it enters, is picked, finished,
confirmed, put back, buried, goes down with its thread, or all tasks rest where they are.
What this takes is facts about the sequences (inserting, removing, cutting, trimming keep
elements apart), and the conclusion speaks of sets only. `Inv` says of the places that a task waits
once or is in one thread's hand (`LineSound`, `HandsSound`), that an outcome leaves no copy
(`EndsSound`), that each record kept agrees (`RecordsAgree`) and that letters are exhausted. A move
changes nothing for other tasks (`Only(t)`), so the records of these agree as before. The
refinement follows from the same moves.

**NoWakeupLost.** `WakeupsCoverReady` is not inductive: a notification may be spent on a thread that
its timeout had woken, which then counts once though it was to count twice. `Covered` counts only
threads that are on their way and *off* the wait list (`Coming`): a notification always adds one of
these, because it takes the head of the list off it.

### The servers

**TcpServer.** `IInv` relates callers, generations, slots, callbacks and the table of
connections. For the stragglers, `Drained` says that as long as no later `start()` succeeded, a
`stop()` leaves no server behind but one that is about to be taken back or to succeed
(`NotServing`), and a table that holds what registered while such a one was published (`lured`) and
nothing else, since any other thread that registers late finds no server and is turned away;
`Registered` says that a connection being served is in the table, closed, or in the hands of a
`stop()`.

**TcpFraming.** The buffer is a window on the stream (`Mirror`), so that what `find` says of the buffer
is a fact about places of the stream (`FindInView`). What was dropped since the last message has a
shape in each mode: a whole number of separators (`LineGap`), nothing (`FixedGap`), or bytes up to a
head, with no tail after any head in them (`HeadTailGap`); the heads given up are counted by `Chain`.
When a message is delivered the gap before it closes and holds no message (`ClosedGaps`). `Apart` is
used in one place, where a tail arrives after its beginning was cut off (`NoStraddle`). The only
induction is the least-number principle, from the well-foundedness of `<` on `Nat`, on sets of
places (`Least`).

### Tokens

**LogoutIsFinal.** `LogoutRevokes` is not inductive: a call on its way might store a deleted
key again. `RevInv` says why none does. Keys are stored only by the request that makes their grant
(`StoresOwnGrant`). They are deleted only when a client knows the grant (`DeletesKnown`,
`RevokedKnown`), and a grant being made is not known; once known it stays known. Between
the answer of Redis and the end of the deletion the key stays out of Redis (`GoneFromRedis`), for
the same reason. Only the step that ends a deletion extends `revoked` (`AnswerOfMemory`).
`RevInv` holds in the states of the run `AuthTokens`.

**ExchangedOnce** and **OneLivePerLogin.** A refresh token has places: Redis, caches, and the calls
that will store it. A step loses places, moves one copy, stores one twice because its answer was
lost, exchanges one for a new grant, or starts a login (`StepKinds`). `PendInv` says what makes these
the only kinds: a grant has one maker, each key is stored by one call, and that call is repeated only
when the first answer was lost. From the kinds, `RotInv` counts: the copies of a token and its
exchanges are at most one, or two with a lost answer (`Counted`), and a family has one live
token and one more for each lost answer (`Forked`).

**HeldTokensStay.** A token of a grant being made or answered is in a store, on its way there, spent,
or gone for a cause (`Held`). A deletion is preceded by its cause, and what exchanges a token has
nothing left to store.

### Requests

`IInv` describes a thread by its record, the clock and the paths once missed (`Timely`, `Caused`).
The last two only grow, so nothing another thread or the world does disturbs it, and `MovedInv`
leaves for each action only the new record of the thread that moves.

**HealthStaysRecent.** `HealthIsRecent` speaks of answers. `Timely` says of the positions before
that each probe is at least as new as the clock reading `t0`, and `CacheTimely` that the cached
probes are at least as new as the time `ts` they are stored under. A slow request that overwrites a
later result stores the earlier `ts` with it, so that the test against the time to live stays
right. With the time of the store instead of the reading it would not (the mutant of the run).

**FallbackHasCause.** An entry of the cache that says "missing" is of a page that was missing when
it was made (`Entry`), which a hit, a store and an eviction all keep; `missed` never forgets.

**ResponsesCountedOnce.** Only receiving, counting and sending move a thread in or out of the
sets whose sizes `CountedOnce` adds; every other step keeps them (`OnwardCounts`).

### The parts of `Services`

Each part is proved from its own specification (`PoolConservesPermits`, `FileWritesOnce`,
`StoreHasOneOwner`, `RateBoundsAdmitted`, `LockBoundsGuesses`, `EntriesStopFirst`, `SlotsNeverLost`,
and `TaskTypes` for the types of a subprocess task). `EachPartBehaves` says that a behaviour of
`Services` is one of each of its parts, whichever part it picked, and carries them over. The
inductive invariants:

- *Permits* (`AInv`). What a task's caller has seen and where the task is decide how many permits it
  holds; `AStrays` are the tasks that run although their submitter was told they were rejected, one
  for each thread that could not be started, and these are what the pool exceeds its limit by.
- *SQLite* (`QInv`). `WrittenOnce` speaks of the file only. `QOpen` describes the open transactions:
  one connection has any, no write is in one twice or in the file as well, and what is in one is the
  write under way or was left by a commit that failed. So a commit appends new writes, each once.
- *User store* (`UInv`). The number of a new store is at most that of the calls past making theirs
  (`UMade`). A call that is not early finds the store made and nobody about to replace it, and works
  on that one (`UFlow`); so what it adds stays in the current store.
- *Rate limit* (`RInv`). A counter bounds the requests its store admitted since any time less than a
  window ago: it restarts only after it expired, and then nothing admitted is that recent. All
  requests are counted under the client's address whatever it forges, which is a fact about `RealIp`.
- *Login lock* (`LInv`). The bound is not inductive: a thread past the check may still guess. `LSlack`
  is what all threads may still guess before a counter reaches the limit or a lock is seen; guesses
  and slack stay within the bound. A step makes no slack, moves one unit of it to the guesses, or
  adds a limit on both sides (a lock forgiven, a change between Redis and memory).
- *Shutdown* (`SInv`). Nobody but main() starts entries, and before there is another frame (`SStart`).
  An entry at work is referred to or being stopped, and a frame past an entry in the order of the
  clean-up has stopped it or found that another does (`SStopped`); who releases the database is past
  all of them. The order itself is computed from `Cleanup` (`SAfterEnding`).
- *UDP* (`DInv`). A step moves at most one datagram in or out of `Working`.

### Identifiers and configuration

**IdsNeverRepeat.** Nothing in `IdsUnique` relates the identifiers to `last` and `sequence`, from
which the next one is made. `IInv` adds `Bounded` (nothing a process issued is above what its worker
stands at, the last sequence of the millisecond while a thread waits for the next), `Decoded` (every
identifier is a time, the machine's number and a sequence) and `Fresh` (a worker that does not exist
yet issued nothing, so making it starts at zero safely). That packing is monotone and injective is
arithmetic on products, stated as lemmas of their own.

**Configuration** has no state: the theorems are about its operators for every raw value.

### Only model-checked

- Liveness under fairness (`EveryTaskLeaves`, `EveryTaskSettles`, `StopEnds`, `PermitsReturn`,
  `FailureEndsBoth`, `SignalEnds`, `AllServe`) and ENABLED: out of TLAPS's reach.
- The counterexamples of section 5, which are runs of small instances.
- What a recursively defined function computes for every input would need induction theorems with
  operator parameters, which the provers here cannot instantiate. No theorem depends on one: `Find`
  and the gaps of `TcpFraming` are defined by least and greatest places, not by recursion, and no
  module declares a RECURSIVE operator.

## 5. Where the code and its documentation disagree

Each of these is a run that must be violated; `PROJECT.json` quotes the lines.

- `RedisLossByCrash`: `retry` does XACK and XDEL before ZADD. A crash, or an error, in between
  loses the task; documented as at-least-once. The same gap is between ZREM and XADD of the
  promotion and between XACK and LPUSH of the dead letter. `NothingLost` shows that nothing else
  loses a task.
- `TcpStopLeavesPeers`: `stop()` closes sockets without `shutdown(SHUT_RDWR)`, so a blocked `recv`
  does not return; with the idle timeout off the thread and its slot stay.
- `FramingChunks`: with a head inside a payload, the message depends on where TCP cuts the stream
  (`docs/protocol-servers.md:121`).

These have no run of their own. The models show them; the passing properties name them as their
exceptions or bound what they cost.

- `enqueue` publishes the task before it writes the status "queued" and may overwrite "succeeded"
  (`task_queue.py:384-393`). `OnlyLateWritesReopen` shows that no other write does so.
- `reclaim_stale` never compares the attempts with `max_retries` (`task_queue.py:515`), so a task that
  kills its worker comes back for ever, whatever `docs/task-queue.md:68` says. `BudgetUpToFaults`
  bounds the attempts by the faults.
- A tail that begins with the end of the head, as `</` with the head `<`, is missed when it arrives
  in two chunks: the parser takes the first for a new head (`tcp_server.py:323`), although
  `docs/protocol-servers.md:95` says that a frame in several packets is put together. Nothing in
  `config.py` refuses such delimiters. `NoMessageLost` shows that all others are safe.
- The dead-letter list is trimmed after it was pushed to (`task_queue.py:478-481`): a crash between
  the two leaves a letter too many for each thread of the process that had pushed, until somebody
  trims again. `DeadLettersExhausted` bounds them. In the same way a crash between XACK and XDEL
  leaves an entry that `stats()` counts as ready for ever; `ConfirmedIsDeleted` bounds these.
- A handler that leaves by a BaseException (`sys.exit`) ends its consumer thread, which nothing starts
  again (`task_worker.py:148`). When all threads are gone their process lives on and consumes nothing,
  which is the exception in `EveryTaskLeaves` and `EveryTaskSettles`.
- `start()` has its server published before it knows that the serve thread starts
  (`protocol_server.py:147-155`). When it does not, a connection accepted before an earlier `stop()`
  may have registered in between; it stays open in the table of a stopped server, although
  `tcp_server.py:180-182` says that nothing slips through. `NoStragglers` shows that nothing else
  does; without its exception `lured` TLC finds the connection registered. A roll-back that also closes the
  connections registered meanwhile would close the gap.
- `stats()` is two commands with others in between (`task_queue.py:546-548`): it may say that nothing
  is ready while a task waits.
- Every increment renews the TTL of its counter (`redis_cache.py:139-142`), so the windows of the
  rate limit are not the fixed ones that `rate_limit.py:6-9`, `docs/api-conventions.md:150` and
  `docs/configuration.md:70-71` describe: a client that keeps asking stays refused until it has been
  quiet for a window. `AdmittedBounded` shows that this never admits more.
- A login that read a stale lock deletes the key after another thread set a new one, or the counter
  after another one counted (`auth.py:269-299`). `GuessesBounded` says what an attacker gains by it.
- The first uses of the memory user store may make several (`auth.py:241-253`): users registered in
  one that is lost are unknown. `OneOwner` holds for all other calls.
- A killed command whose child holds its pipe keeps its pool thread until the child lets go
  (`async_task_util.py:59, 72`), although `async_task_util.py:14` gives as the reason of the timeout that a command that
  hangs must not keep a thread for ever; and
  `ThreadPoolExecutor.submit` may raise after it queued the task, which then runs although its
  submitter was told it was rejected. `PermitsReturn` and `PermitsConserved` name both.
- A `stop()` of a subprocess task that comes during `start()` can miss the child that is started
  after it looked (`async_task_util.py:255-262, 295-300`).
- A statement that fails a constraint leaves the connection's transaction, and its write lock, open
  until the thread's next call (`sqlite.py:126-136`). Without the write-ahead log, a commit that
  found readers leaves its write in the transaction, and the next call of the thread commits what
  the caller was told had failed.
- A signal that interrupts a `stop()` inside its lock waits for that lock for ever, and the watchdog
  with it (`wsgi.py:103`; the lock of the worker's event in `scripts/worker.py:71` likewise). This is
  `Stuck` in `SignalEnds`. Two clean-ups that overlap may dispose of the database while one of
  them still waits for a server's loop; the exception in `EntryStopsFirst`.
- A request refused by the authentication hook is counted but not timed, although
  `component/__init__.py:7-9` counts on the timer being started for it.
- A body that is the JSON value `null` becomes the payload None, and the reading of it a TypeError
  and a 500 (`app.py:119-125`).
- `UdpServer.send` looks at the server twice and may raise AttributeError while it stops
  (`udp_server.py:108-112`).
- The overrides of `create_app(framework_config=...)` skip every validation, and `THREAD_NUM` has
  none (`config.py:83, 384-386`).

## 6. What is not modelled

Inside modelled components:
- Task queue: the TTL of status keys (a record may vanish), the batch of 100 of the promotion and
  `count=10` of XAUTOCLAIM (a longer backlog takes more rounds), `close()` and the queries
  `get_status`, `dead_letters` and `stats()` of the Redis backend, the worker's processed and failed counters,
  the length of delays, and `process_one`: `scripts/worker.py --once` ignores signals until the
  queue is drained.
- Redis queue: stale messages are looked for only after a read that found nothing
  (`task_worker.py:112`). In a stream that is never empty a task left by a dead worker may wait for
  ever; with tasks that are submitted once the model does not show it, and no property excludes it.
- Worker: the stop event is looked at before `reserve`; a task that arrives while a thread sleeps in
  `reserve` is still taken after `stop()`, and so it is in the models.
- UDP: `start()` is one step and succeeds (the steps of a failing one are in `TcpServer`). Datagrams do not look at the
  published server; only `send()` does, which might use the socket of a `start()` about to fail.
- TCP: raw mode (no parser), a BaseException in `on_connect`, the reject counter (a log line).
- Tokens: damaged JSON values; a Redis command that takes effect after later ones of the same
  process. `RedisCache`'s two cooldown flags are one. Three things the code does, and no property
  excludes, because it does not promise otherwise: a logout during a cooldown removes only the
  memory copy of its own process, so the token works again when Redis is back; a copy in another
  process's memory cache outlives a logout; an exchange that gets in before a logout keeps the new
  pair. When Redis fails on the view's own lookup after an exchange, the old refresh token is spent
  and the new pair is withheld from the client.
- Rate limit and login lock: several processes, whose memory counters are independent; a command
  that fails half-way is a command that fails.
- Key generator: a clock that is set back while a thread waits for the next millisecond keeps the
  lock until it has caught up. The model allows it; no property speaks of it. Processes that derive
  the same machine number (the hash modulo 32) may issue the same identifier, so `IdsDistinct`
  assumes different numbers, as the configuration's comment does.
- Subprocess task: the payload of the queues. SQLite: the text of statements, closing, the file
  system, and an OperationalError that is not about a lock or the statement, such as a full disk
  (`sqlite.py:127`): it leaves by the same `raise` as a failed constraint. Request pipeline: bodies of answers,
  CORS and headers, the API documentation, WebSockets; and a wall clock that is set back, after which
  a cached health result is valid longer than `HealthIsRecent` says.
- Shutdown: the signal handling of gunicorn and Werkzeug, gunicorn's `child_exit`, `atexit`.

Whole components (with their reasons in `PROJECT.json`): logging, declarations, pure utilities,
scripts and examples; libraries (waitress, gunicorn, socketserver, multiprocessing, sqlite3,
redis-py, SQLAlchemy, Flask) beyond what the code uses of them.

## 7. Plan

What would add most from here:

1. `RateLimit` and `LoginLock` with two processes, each with a memory of its own.
2. `AuthTokens` with two threads per process, and a user that is deleted between two calls.
3. The gaps named in section 6 that are small: `process_one` of the worker, raw mode of the TCP server.
