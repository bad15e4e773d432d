----------------------------- MODULE UdpServer -----------------------------
(***************************************************************************)
(* The UDP server (udp_server.py on protocol_server.py): the serve loop    *)
(* takes a slot for a datagram before it starts a thread for it, the       *)
(* thread calls on_message, may reply, and gives the slot back.  start()   *)
(* and stop() come and go in between, and other threads send().            *)
(*                                                                         *)
(* Abstracted: payloads, and the start of the serve thread and the locks   *)
(* of start() and stop(), which TcpServer models in detail.  Bounds: the   *)
(* datagrams of the constant Datagram, MaxStarts starts.                   *)
(***************************************************************************)
EXTENDS Naturals, FiniteSets

CONSTANTS Datagram, Sender, MaxConcurrency, MaxStarts

\* What the constants are; ASSUMEd where the module is instantiated.
UdpAssumption == IsFiniteSet(Datagram) /\ MaxConcurrency \in Nat /\ MaxStarts \in Nat

None == 0

VARIABLES
    server,    \* self._server: the generation that runs, or None
    starts,    \* generations so far
    loops,     \* generations whose serve loop goes on
    open,      \* generations whose socket is open
    slots,     \* free permits of the semaphore, which survives restarts
    stage,     \* per datagram: where it is
    via,       \* per datagram: the generation that received it
    replied,   \* datagrams that were answered
    sending    \* per sender: where its send() is

vars == <<server, starts, loops, open, slots, stage, via, replied, sending>>

Init ==
    /\ server = None /\ starts = 0 /\ loops = {} /\ open = {}
    /\ slots = MaxConcurrency
    /\ stage = [d \in Datagram |-> "new"]
    /\ via = [d \in Datagram |-> None]
    /\ replied = {}
    /\ sending = [k \in Sender |-> "idle"]

\* start(): the port is bound again only when the last socket is closed.
Start ==
    /\ server = None /\ open = {} /\ starts < MaxStarts
    /\ starts' = starts + 1 /\ server' = starts'
    /\ loops' = loops \cup {starts'} /\ open' = open \cup {starts'}
    /\ UNCHANGED <<slots, stage, via, replied, sending>>

\* stop(): the reference goes first, the loop ends when it is not at work on
\* a datagram, then the socket is closed.  Threads are not waited for.
StopBegins ==
    /\ server # None /\ server' = None
    /\ UNCHANGED <<starts, loops, open, slots, stage, via, replied, sending>>

AtWork(g) == \E d \in Datagram : via[d] = g /\ stage[d] = "accepted"
LoopEnds(g) ==
    /\ g \in loops /\ g # server /\ ~AtWork(g)
    /\ loops' = loops \ {g}
    /\ UNCHANGED <<server, starts, open, slots, stage, via, replied, sending>>
Close(g) ==
    /\ g \in open \ loops /\ g # server
    /\ open' = open \ {g}
    /\ UNCHANGED <<server, starts, loops, slots, stage, via, replied, sending>>

----------------------------------------------------------------------------
\* The serve loop: verify_request() takes a slot or drops the datagram, then
\* process_request() starts the thread, or gives the slot back.

Move(d, s) == stage' = [stage EXCEPT ![d] = s]

Receive(g, d) ==
    /\ g \in loops /\ ~AtWork(g) /\ stage[d] = "new"
    /\ IF slots > 0
       THEN slots' = slots - 1 /\ Move(d, "accepted")
       ELSE Move(d, "dropped") /\ UNCHANGED slots
    /\ via' = [via EXCEPT ![d] = g]
    /\ UNCHANGED <<server, starts, loops, open, replied, sending>>

Spawn(d) ==
    /\ stage[d] = "accepted" /\ Move(d, "handling")
    /\ UNCHANGED <<server, starts, loops, open, slots, via, replied, sending>>

ReleaseNothing == slots
Release == slots + 1
SpawnFails(d) ==
    /\ stage[d] = "accepted" /\ Move(d, "lost") /\ slots' = Release
    /\ UNCHANGED <<server, starts, loops, open, via, replied, sending>>

\* The thread: bytes are sent back on the socket the datagram came by, if it
\* is still open; None, another type, an exception or no handler is no reply.
Handle(d) ==
    /\ stage[d] = "handling"
    /\ Move(d, "reply") \/ Move(d, "done")
    /\ UNCHANGED <<server, starts, loops, open, slots, via, replied, sending>>

Reply(d) ==
    /\ stage[d] = "reply" /\ Move(d, "done")
    /\ replied' = IF via[d] \in open THEN replied \cup {d} ELSE replied
    /\ UNCHANGED <<server, starts, loops, open, slots, via, sending>>

ThreadEnds(d) ==
    /\ stage[d] = "done" /\ Move(d, "gone") /\ slots' = Release
    /\ UNCHANGED <<server, starts, loops, open, via, replied, sending>>

\* send() looks at the reference twice: when stop() comes in between it
\* raises AttributeError, which its except clause does not name.
SendLooks(k) ==
    /\ sending[k] = "idle"
    /\ sending' = [sending EXCEPT ![k] = IF server = None THEN "false" ELSE "looked"]
    /\ UNCHANGED <<server, starts, loops, open, slots, stage, via, replied>>
SendTo(k) ==
    /\ sending[k] = "looked"
    /\ sending' = [sending EXCEPT ![k] = IF server = None THEN "raised" ELSE "true"]
    /\ UNCHANGED <<server, starts, loops, open, slots, stage, via, replied>>

Next ==
    \/ Start \/ StopBegins
    \/ \E g \in loops \cup open : LoopEnds(g) \/ Close(g) \/ \E d \in Datagram : Receive(g, d)
    \/ \E d \in Datagram : \/ Spawn(d) \/ SpawnFails(d)
                           \/ Handle(d) \/ Reply(d) \/ ThreadEnds(d)
    \/ \E k \in Sender : SendLooks(k) \/ SendTo(k)

Spec == Init /\ [][Next]_vars

----------------------------------------------------------------------------
\* The datagrams somebody works on.
Working == {d \in Datagram : stage[d] \in {"accepted", "handling", "reply", "done"}}

\* No slot is lost or invented, over floods, threads that do not start and
\* restarts with threads of the stopped server alive: the free slots and the
\* datagrams being worked on make up UDP_MAX_CONCURRENCY (udp_server.py:59-79).
DatagramSlots == slots \in Nat /\ slots + Cardinality(Working) = MaxConcurrency
============================================================================
