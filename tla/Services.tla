------------------------------ MODULE Services ------------------------------
(***************************************************************************)
(* The parts of the server that share no state, side by side: each         *)
(* behaviour picks a part and takes the steps of it, so that in a run of   *)
(* TLC the states of the parts add up and do not multiply, and what is     *)
(* proved of a part holds here.  A part that is not picked rests.          *)
(***************************************************************************)
EXTENDS KeyGenerator, FiniteSets

\* The constants of the parts, explained where they are declared; those of KeyGenerator
\* are here already, so that the threads of SQLite and of the logins have other names, and
\* so have constants called like a definition of another part.
CONSTANTS
    Task, Command, Keeper, MaxWorkers, MaxPending, MaxFailures,     \* AsyncPool
    Outsider,                                                       \* SubprocessTask
    Connection, Write, Violating, Malformed, Retries, MaxReads,     \* SqliteAccess
    UserCall, LoginCall, Name, NameOf, MaxFaults,                   \* UserStore
    Requests, Path, Forged, Quota, Window, MaxTime, MaxFlips,       \* RateLimit
    Guesser, MaxFails, MaxLogins, MaxExpiries, MaxChanges,          \* LoginLock
    MaxSignals, MaxConns,                                           \* ServerProcess
    Worker, WorkerNums, MaxCrashes,                                 \* WorkerStartup
    Datagram, Sender, MaxConcurrency, MaxStarts                     \* UdpServer

VARIABLES part,
          permits, caller, work, watched, threads, closed, failures,
          starter, worker, child, kind, exitcode, watcher, isStop, told, stopper, missed,
          wal, db, pending, locker, reading, reads, at, writing, attempt, outcome, cause,
          sql, store, made, users, phase, held, faults, result, early,
          now, up, flips, count, expiry, step, address, decided, counted,
          reachable, changes, lock, fails, logins, expiries, guess, guesses, forgiven,
          program, status, pc, depth, signals, triggered, listening, busy, idle, inside,
          ref, works, stopping, mine, disposed,
          launcher, wanted, port, state, crashes,
          server, starts, loops, open, slots, datagram, via, replied, sending

A == INSTANCE AsyncPool
P == INSTANCE SubprocessTask WITH
       Caller <- Outsider, thread <- worker, stopping <- stopper, early <- missed
Q == INSTANCE SqliteAccess WITH Thread <- Connection, stage <- at, result <- outcome
U == INSTANCE UserStore WITH Call <- UserCall, Login <- LoginCall, stage <- phase
R == INSTANCE RateLimit WITH Limit <- Quota, stage <- step
L == INSTANCE LoginLock WITH
       Thread <- Guesser, MaxFlips <- MaxChanges,
       up <- reachable, flips <- changes, stage <- guess
S == INSTANCE ServerProcess WITH kind <- program, held <- inside
W == INSTANCE WorkerStartup
D == INSTANCE UdpServer WITH stage <- datagram

ASSUME ServicesAssumption ==
    /\ A!PoolAssumption /\ Q!SqliteAssumption /\ U!StoreAssumption
    /\ R!RateAssumption /\ L!LockAssumption /\ S!ProcessAssumption /\ D!UdpAssumption

pool  == <<permits, caller, work, watched, threads, closed, failures>>
task  == <<starter, worker, child, kind, exitcode, watcher, isStop, told, stopper, missed>>
file  == <<wal, db, pending, locker, reading, reads, at, writing, attempt, outcome, cause>>
user  == <<sql, store, made, users, phase, held, faults, result, early>>
limit == <<now, up, flips, count, expiry, step, address, decided, counted>>
login == <<reachable, changes, lock, fails, logins, expiries, guess, guesses, forgiven>>
process == <<program, status, pc, depth, signals, triggered, listening, busy, idle, inside,
             ref, works, stopping, mine, disposed>>
deployment == <<launcher, wanted, port, state, crashes>>
udp   == <<server, starts, loops, open, slots, datagram, via, replied, sending>>

StartOfAll ==
    /\ part \in {"keys", "pool", "task", "file", "user", "limit", "login",
                 "process", "deployment", "udp"}
    /\ Init /\ A!Init /\ P!Init /\ Q!Init /\ U!Init
    /\ R!Init /\ L!Init /\ S!Init /\ W!Init /\ D!Init
    /\ part = "task" \/ kind = "obedient"
    /\ part = "file" \/ wal
    /\ part = "user" \/ sql
    /\ part = "login" \/ reachable
    /\ part = "process" \/ program = "web"
    /\ part = "deployment" \/ (launcher = "plain" /\ wanted = 0 /\ port = "none")

\* Part x rests.
Rests(x, variables) == IF part = x THEN TRUE ELSE UNCHANGED variables
StepOfOne ==
    /\ UNCHANGED part
    /\ \/ part = "keys" /\ Next
       \/ part = "pool" /\ A!Next
       \/ part = "task" /\ P!Next
       \/ part = "file" /\ Q!Next
       \/ part = "user" /\ U!Next
       \/ part = "limit" /\ R!Next
       \/ part = "login" /\ L!Next
       \/ part = "process" /\ S!Next
       \/ part = "deployment" /\ W!Next
       \/ part = "udp" /\ D!Next
    /\ Rests("keys", vars) /\ Rests("pool", pool) /\ Rests("task", task)
    /\ Rests("file", file) /\ Rests("user", user) /\ Rests("limit", limit)
    /\ Rests("login", login) /\ Rests("process", process)
    /\ Rests("deployment", deployment) /\ Rests("udp", udp)

SpecOfOne ==
    StartOfAll
      /\ [][StepOfOne]_<<part, vars, pool, task, file, user, limit, login, process,
                         deployment, udp>>
-----------------------------------------------------------------------------
\* The invariants of the parts, each with the types of its module.
PermitsConserved == A!TypeOK /\ P!TypeOK /\ A!PermitsConserved
WrittenOnce      == Q!TypeOK /\ Q!WrittenOnce
LockLeftForCause == Q!LockLeftForCause
OneOwner         == U!TypeOK /\ U!OneOwner
AdmittedBounded  == R!TypeOK /\ R!AdmittedBounded
GuessesBounded   == L!TypeOK /\ L!GuessesBounded
EntryStopsFirst  == S!EntryStopsFirst
DatagramSlots    == D!DatagramSlots

\* Each under the fairness its module states.
PermitsReturn   == part = "pool" /\ A!Fairness => A!PermitsReturn
FailureEndsBoth == part = "task" /\ P!Fairness => P!FailureEndsBoth
SignalEnds      == part = "process" /\ S!Fairness => S!SignalEnds
AllServe        == part = "deployment" /\ W!Fairness => W!AllServe
=============================================================================
