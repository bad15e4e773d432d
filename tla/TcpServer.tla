------------------------------ MODULE TcpServer ------------------------------
(***************************************************************************)
(* Life cycle of the TCP protocol server: ProtocolServer.start and stop    *)
(* (flask_server/module/protocol_server.py) and the connections of         *)
(* TcpServer (flask_server/module/tcp_server.py), one thread each.         *)
(*                                                                         *)
(* Each start() builds a new socketserver with a serve loop of its own,    *)
(* numbered here by generation.  The concurrency slots and the set of      *)
(* connections belong to the TcpServer and outlive it.  start() holds      *)
(* self._lock all the time, but publishes the server before it knows       *)
(* whether its thread starts, and threads of connections read it without   *)
(* that lock; stop() holds it only while it takes the server away, so that *)
(* two calls of stop(), a start() and the threads interleave.              *)
(*                                                                         *)
(* socketserver is modelled by what it calls: the loop may accept one more *)
(* connection after shutdown() was requested, and shutdown() returns when  *)
(* the loop has ended.  A socket closed by another thread (Linux) neither  *)
(* wakes a recv that is already blocked on it nor tells the peer.          *)
(***************************************************************************)
EXTENDS Integers, FiniteSets

CONSTANTS Conn,            \* client connections
          Caller,          \* threads that call start() and stop()
          MaxConnections,  \* TCP_MAX_CONNECTIONS, a limit
          IdleTimeout,     \* TRUE iff TCP_IDLE_TIMEOUT > 0
          MaxStarts,       \* bound: successful calls of start()
          MaxStops,        \* bound: calls of stop()
          MaxFailures      \* bound: threads that cannot be started

ASSUME TcpAssumption ==
    /\ MaxConnections \in Nat \ {0}
    /\ IdleTimeout \in BOOLEAN
    /\ MaxStarts \in Nat /\ MaxStops \in Nat /\ MaxFailures \in Nat

Generation == 1..MaxStarts
None == 0

VARIABLES server,       \* self._server: the running generation, or None
          loop,         \* the listening socket and the serve loop of each generation
          requested,    \* generations whose shutdown() was called
          slots,        \* the semaphore: free concurrency slots
          connections,  \* self._connections
          stage,        \* where each connection is
          gen,          \* the generation that accepts it
          closed,       \* connections whose socket the server closed
          call,         \* where each caller is in stop()
          target,       \* the generation it took away
          snapshot,     \* the connections it still has to close
          seen,         \* how many starts it had seen
          starts, stops, failures,   \* how much of each bound is used
          greeted,      \* history: on_connect was dispatched
          parted,       \* history: on_disconnect was dispatched
          quiet,        \* history: a stop() returned, and no start() succeeded since
          lured         \* history: registered during a start() that did not succeed

servers  == <<server, loop, requested>>
conns    == <<connections, stage, gen, closed>>
callers  == <<call, target, snapshot, seen>>
bounds   == <<starts, stops, failures>>
history  == <<greeted, parted, quiet, lured>>
vars     == <<servers, slots, conns, callers, bounds, history>>

\* A connection waits in the backlog, then its thread goes from "spawned" to "gone".
Thread == {"spawned", "tracked", "ready", "blocked", "message", "ended", "untracked"}
Stage  == {"new", "backlog", "refused", "gone"} \cup Thread
Call   == {"idle", "shutdown", "await", "close", "closeall", "closing"}

Live == {c \in Conn : stage[c] \in Thread}

\* "bound": start() published it; "failed": its thread did not start, it is taken back;
\* both while that start() holds self._lock.  "down": the loop ended, the socket is open.
Open == {"bound", "failed", "serving", "down"}
Starting == {g \in Generation : loop[g] \in {"bound", "failed"}}
-----------------------------------------------------------------------------
Init ==
    /\ server = None
    /\ loop = [g \in Generation |-> "none"]
    /\ requested = {}
    /\ slots = MaxConnections
    /\ connections = {} /\ closed = {}
    /\ stage = [c \in Conn |-> "new"]
    /\ gen = [c \in Conn |-> None]
    /\ call = [k \in Caller |-> "idle"]
    /\ target = [k \in Caller |-> None]
    /\ snapshot = [k \in Caller |-> {}]
    /\ seen = [k \in Caller |-> 0]
    /\ starts = 0 /\ stops = 0 /\ failures = 0
    /\ greeted = {} /\ parted = {} /\ quiet = FALSE /\ lured = {}

Move(c, s) == stage' = [stage EXCEPT ![c] = s]
Proceed(k, s) == call' = [call EXCEPT ![k] = s]
-----------------------------------------------------------------------------
(* start and stop. *)

\* _create_server and self._server = server.  The address is in use until the former
\* listening socket is closed; start() then raises.
Publish ==
    /\ server = None /\ starts < MaxStarts
    /\ \A g \in Generation : loop[g] \notin Open
    /\ server' = starts + 1
    /\ loop' = [loop EXCEPT ![starts + 1] = "bound"]
    /\ UNCHANGED <<requested, slots, conns, callers, bounds, history>>

\* thread.start() succeeds, and start() returns.
ThreadStarts(g) ==
    /\ loop[g] = "bound"
    /\ loop' = [loop EXCEPT ![g] = "serving"]
    /\ starts' = starts + 1
    /\ quiet' = FALSE /\ lured' = {}
    /\ UNCHANGED <<server, requested, slots, conns, callers, stops, failures, greeted, parted>>

\* Mutant: no roll-back, the server has a socket and no serve loop.
ThreadFailsKept(g) ==
    /\ loop[g] = "bound" /\ failures < MaxFailures
    /\ failures' = failures + 1
    /\ starts' = starts + 1
    /\ loop' = [loop EXCEPT ![g] = "unserved"]
    /\ UNCHANGED <<server, requested, slots, conns, callers, stops, history>>
\* thread.start() raises: the reference is taken back.
ThreadFails(g) ==
    /\ loop[g] = "bound" /\ failures < MaxFailures
    /\ failures' = failures + 1
    /\ server' = None
    /\ loop' = [loop EXCEPT ![g] = "failed"]
    /\ UNCHANGED <<requested, slots, conns, callers, starts, stops, history>>

ResetBacklog(g) ==
    stage' = [c \in Conn |-> IF stage[c] = "backlog" /\ gen[c] = g THEN "refused" ELSE stage[c]]

\* Then the socket is closed, and start() raises.  The next start() takes the number.
RollBack(g) ==
    /\ loop[g] = "failed"
    /\ loop' = [loop EXCEPT ![g] = "none"]
    /\ ResetBacklog(g)
    /\ UNCHANGED <<server, requested, slots, connections, gen, closed, callers, bounds, history>>

Taken == None

\* Under self._lock the caller takes the server, if there is one.
Stop(k) ==
    /\ call[k] = "idle" /\ stops < MaxStops /\ Starting = {}
    /\ stops' = stops + 1
    /\ target' = [target EXCEPT ![k] = server]
    /\ seen' = [seen EXCEPT ![k] = starts]
    /\ server' = Taken
    /\ Proceed(k, IF server = None THEN "closeall" ELSE "shutdown")
    /\ UNCHANGED <<loop, requested, slots, conns, snapshot, starts, failures, history>>

RequestShutdown(k) ==
    /\ call[k] = "shutdown"
    /\ requested' = requested \cup {target[k]}
    /\ Proceed(k, "await")
    /\ UNCHANGED <<server, loop, slots, conns, target, snapshot, seen, bounds, history>>

AwaitShutdown(k) ==
    /\ call[k] = "await" /\ loop[target[k]] \in {"down", "closed"}
    /\ Proceed(k, "close")
    /\ UNCHANGED <<servers, slots, conns, target, snapshot, seen, bounds, history>>

\* server_close: who is still in the backlog is reset.
ServerClose(k) ==
    /\ call[k] = "close"
    /\ loop' = [loop EXCEPT ![target[k]] = "closed"]
    /\ ResetBacklog(target[k])
    /\ Proceed(k, "closeall")
    /\ UNCHANGED <<server, requested, slots, connections, gen, closed, target, snapshot, seen,
                   bounds, history>>

ToClose == connections

\* _close_all_connections, the part under the lock.
CloseAll(k) ==
    /\ call[k] = "closeall"
    /\ snapshot' = [snapshot EXCEPT ![k] = ToClose]
    /\ connections' = {}
    /\ Proceed(k, "closing")
    /\ UNCHANGED <<servers, slots, stage, gen, closed, target, seen, bounds, history>>

CloseOne(k) ==
    /\ call[k] = "closing"
    /\ \E c \in snapshot[k] :
         /\ closed' = closed \cup {c}
         /\ snapshot' = [snapshot EXCEPT ![k] = @ \ {c}]
    /\ UNCHANGED <<servers, slots, connections, stage, gen, call, target, seen, bounds, history>>

StopReturns(k) ==
    /\ call[k] = "closing" /\ snapshot[k] = {}
    /\ Proceed(k, "idle")
    /\ quiet' = (quiet \/ seen[k] = starts)
    /\ UNCHANGED <<servers, slots, conns, target, snapshot, seen, bounds, greeted, parted, lured>>
-----------------------------------------------------------------------------
(* The serve loop. *)

Connect(c) ==
    /\ stage[c] = "new"
    /\ \E g \in Generation :
         /\ loop[g] \in Open
         /\ gen' = [gen EXCEPT ![c] = g]
    /\ Move(c, "backlog")
    /\ UNCHANGED <<servers, slots, connections, closed, callers, bounds, history>>

Accepting(c) == stage[c] = "backlog" /\ loop[gen[c]] = "serving"

\* _acquire_slot would succeed.
SlotFree == slots > 0

\* verify_request: no slot is free, the connection is closed.
Reject(c) ==
    /\ Accepting(c) /\ ~SlotFree
    /\ Move(c, "refused")
    /\ UNCHANGED <<servers, slots, connections, gen, closed, callers, bounds, history>>

Accept(c) ==
    /\ Accepting(c) /\ SlotFree
    /\ slots' = slots - 1
    /\ Move(c, "spawned")
    /\ UNCHANGED <<servers, connections, gen, closed, callers, bounds, history>>

\* Mutant: process_request does not give the slot back.
AfterFailedSpawnLeak == slots - 1
AfterFailedSpawn == slots

\* A slot was taken, but the thread does not start: process_request gives it back.
SpawnFails(c) ==
    /\ Accepting(c) /\ SlotFree /\ failures < MaxFailures
    /\ failures' = failures + 1
    /\ slots' = AfterFailedSpawn
    /\ Move(c, "refused")
    /\ UNCHANGED <<servers, connections, gen, closed, callers, starts, stops, history>>

LoopEnds(g) ==
    /\ loop[g] = "serving" /\ g \in requested
    /\ loop' = [loop EXCEPT ![g] = "down"]
    /\ UNCHANGED <<server, requested, slots, conns, callers, bounds, history>>
-----------------------------------------------------------------------------
(* The thread of a connection. *)

\* Mutant: the check for a stopped server is dropped.
MayTrackAlways == TRUE
MayTrack == server # None

Track(c) ==
    /\ stage[c] = "spawned"
    /\ IF MayTrack
       THEN Move(c, "tracked") /\ connections' = connections \cup {c} /\ UNCHANGED closed
       ELSE Move(c, "untracked") /\ closed' = closed \cup {c} /\ UNCHANGED connections
    /\ lured' = IF Starting # {} THEN lured \cup {c} ELSE lured
    /\ UNCHANGED <<servers, slots, gen, callers, bounds, greeted, parted, quiet>>

OnConnect(c) ==
    /\ stage[c] = "tracked"
    /\ greeted' = greeted \cup {c}
    /\ Move(c, "ready")
    /\ UNCHANGED <<servers, slots, connections, gen, closed, callers, bounds, parted, quiet, lured>>

\* recv on a closed socket raises at once, else it blocks until something happens.
Recv(c) ==
    /\ stage[c] = "ready"
    /\ Move(c, IF c \in closed THEN "ended" ELSE "blocked")
    /\ UNCHANGED <<servers, slots, connections, gen, closed, callers, bounds, history>>

\* A frame arrives.  What arrives on a socket closed in the meantime is not read.
PeerSends(c) ==
    /\ stage[c] = "blocked"
    /\ Move(c, IF c \in closed THEN "ended" ELSE "message")
    /\ UNCHANGED <<servers, slots, connections, gen, closed, callers, bounds, history>>

OnMessage(c) ==
    /\ stage[c] = "message"
    /\ Move(c, "ready")
    /\ UNCHANGED <<servers, slots, connections, gen, closed, callers, bounds, history>>

\* The peer closes, resets, or violates the framing.
PeerCloses(c) ==
    /\ stage[c] = "blocked"
    /\ Move(c, "ended")
    /\ UNCHANGED <<servers, slots, connections, gen, closed, callers, bounds, history>>

IdleExpires(c) ==
    /\ stage[c] = "blocked" /\ IdleTimeout
    /\ Move(c, "ended")
    /\ UNCHANGED <<servers, slots, connections, gen, closed, callers, bounds, history>>

\* Mutant: no farewell on a connection that stop() closed.
PartsUnlessClosed(c) == IF c \in closed THEN parted ELSE parted \cup {c}
Parts(c) == parted \cup {c}

\* on_disconnect, then _untrack_connection.
OnDisconnect(c) ==
    /\ stage[c] = "ended"
    /\ parted' = Parts(c)
    /\ connections' = connections \ {c}
    /\ Move(c, "untracked")
    /\ UNCHANGED <<servers, slots, gen, closed, callers, bounds, greeted, quiet, lured>>

\* socketserver closes the socket, process_request_thread gives the slot back.
Release(c) ==
    /\ stage[c] = "untracked"
    /\ closed' = closed \cup {c}
    /\ slots' = slots + 1
    /\ Move(c, "gone")
    /\ UNCHANGED <<servers, connections, gen, callers, bounds, history>>
-----------------------------------------------------------------------------
FinishStart(g) == ThreadStarts(g) \/ ThreadFails(g) \/ RollBack(g)

FinishStop(k) ==
    \/ RequestShutdown(k) \/ AwaitShutdown(k) \/ ServerClose(k)
    \/ CloseAll(k) \/ CloseOne(k) \/ StopReturns(k)

Serve(c) == Reject(c) \/ Accept(c) \/ SpawnFails(c)

Handle(c) ==
    \/ Track(c) \/ OnConnect(c) \/ Recv(c) \/ OnMessage(c)
    \/ IdleExpires(c) \/ OnDisconnect(c) \/ Release(c)

Peer(c) == Connect(c) \/ PeerSends(c) \/ PeerCloses(c)

Next ==
    \/ Publish
    \/ \E k \in Caller : Stop(k) \/ FinishStop(k)
    \/ \E g \in Generation : FinishStart(g) \/ LoopEnds(g)
    \/ \E c \in Conn : Serve(c) \/ Handle(c) \/ Peer(c)

Spec == Init /\ [][Next]_vars

\* Threads get their turn; a caller of start() or stop(), and a peer, may never come.
Fairness ==
    /\ \A k \in Caller : WF_vars(FinishStop(k))
    /\ \A g \in Generation : WF_vars(FinishStart(g)) /\ WF_vars(LoopEnds(g))
    /\ \A c \in Conn : WF_vars(Serve(c)) /\ WF_vars(Handle(c))

FairSpec == Spec /\ Fairness
-----------------------------------------------------------------------------
(* Properties. *)

\* No slot is lost or invented (tcp_server.py:95-114): over restarts, rejected connections
\* and threads that do not start, the free slots and the live threads make up the limit,
\* and one listening socket at a time, the running server's own, accepts for it.
SlotsConserved ==
    /\ slots + Cardinality(Live) = MaxConnections
    /\ Cardinality({g \in Generation : loop[g] \in Open}) <= 1
    /\ server # None => loop[server] \in {"bound", "serving"}

\* on_disconnect is called for exactly the connections on_connect was called for, "normal
\* and abnormal end alike" (docs/protocol-servers.md:69).
CallbacksPaired ==
    \A c \in Conn :
        /\ c \in parted => c \in greeted
        /\ stage[c] \in {"untracked", "gone"} => (c \in greeted <=> c \in parted)

\* The race that _track_connection closes, "a connection that registers later than the stop
\* is closed at once" (tcp_server.py:177-188): when stop() has returned and no start()
\* succeeded since, the table holds only what a failing start() let in while its server was
\* published (protocol_server.py:147-155), which the comment overlooks, and every other connection is closed, or about to be by another stop(), or its
\* thread did not register it yet.
NoStragglers ==
    quiet =>
        /\ connections \subseteq lured
        /\ \A c \in Live : \/ c \in connections \cup closed
                         \/ stage[c] \in {"spawned", "untracked"}
                         \/ \E k \in Caller : c \in snapshot[k]

\* "Closes all established connections; their recv is unblocked and they end by themselves"
\* (tcp_server.py:20-21, 194-195): after a stop() every connection ends, or the server is
\* started again.
StopEndsConnections == quiet ~> ~quiet \/ Live = {}

\* With an idle timeout that does happen, but for connections a failing start() let in
\* after it; and every call of stop() returns: the serve loop it waits for ends.
StopEnds ==
    /\ \A k \in Caller : call[k] # "idle" ~> call[k] = "idle"
    /\ quiet ~> ~quiet \/ Live \subseteq lured \ closed
=============================================================================
