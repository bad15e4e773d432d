--------------------------- MODULE TcpServerProofs ---------------------------
(***************************************************************************)
(* Theorems about TcpServer, for every finite set of connections and every *)
(* set of callers, slots and restarts.                                     *)
(***************************************************************************)
EXTENDS TcpServer, FiniteSetTheorems, TLAPS

LoopState == {"none", "bound", "failed", "serving", "down", "closed"}

TypeOK ==
    /\ server \in Generation \cup {None}
    /\ loop \in [Generation -> LoopState]
    /\ requested \subseteq Generation
    /\ slots \in Int
    /\ connections \subseteq Conn /\ closed \subseteq Conn
    /\ stage \in [Conn -> Stage]
    /\ gen \in [Conn -> Generation \cup {None}]
    /\ call \in [Caller -> Call]
    /\ target \in [Caller -> Generation \cup {None}]
    /\ snapshot \in [Caller -> SUBSET Conn]
    /\ seen \in [Caller -> 0..MaxStarts]
    /\ starts \in 0..MaxStarts /\ stops \in Nat /\ failures \in Nat
    /\ greeted \subseteq Conn /\ parted \subseteq Conn /\ lured \subseteq Conn
    /\ quiet \in BOOLEAN

(* A caller that took a server away has it as its target until it closed the socket, and *)
(* what was taken away is never the running server again.  A server that start() has     *)
(* published and not yet started, or takes back, has the next number.                    *)
Ending(k) == call[k] \in {"shutdown", "await", "close"}
TakenAway ==
    /\ \A k \in Caller : Ending(k) => target[k] \in 1..starts /\ target[k] # server
    /\ requested \subseteq 1..starts /\ server \notin requested
    /\ \A g \in Starting : g = starts + 1
    /\ server <= starts \/ server \in Starting

(* At most one generation listens, and the running one serves. *)
OneListens ==
    /\ \A g, h \in Generation :
         loop[g] \in Open /\ loop[h] \in Open => g = h
    /\ server # None => loop[server] \in {"bound", "serving"}

(* The slots, and the callbacks by stage. *)
SlotsAddUp == slots + Cardinality(Live) = MaxConnections

Serving == {"ready", "blocked", "message", "ended"}
CalledBack ==
    \A c \in Conn :
        /\ stage[c] \in Serving => c \in greeted /\ c \notin parted
        /\ stage[c] \in {"untracked", "gone"} => (c \in greeted <=> c \in parted)
        /\ stage[c] \notin Serving \cup {"untracked", "gone"}
             => c \notin greeted /\ c \notin parted

(* A connection whose thread registered is in the table, or a stop() has it in its hands  *)
(* or closed it; and what a stop() closes in the end, no thread fills again but with what *)
(* a failing start() lets in.                                                            *)
Registered ==
    \A c \in Conn : stage[c] \in Serving \cup {"tracked"} =>
        c \in connections \cup closed \/ \E k \in Caller : c \in snapshot[k]
Latest(k) == call[k] # "idle" /\ seen[k] = starts
NotServing == server = None \/ server \in Starting
Drained ==
    /\ \A k \in Caller : seen[k] <= starts /\ (call[k] # "closing" => snapshot[k] = {})
    /\ \A k \in Caller : Latest(k) => NotServing
    /\ quiet => NotServing /\ connections \subseteq lured
    /\ \A k \in Caller : Latest(k) /\ call[k] = "closing" => connections \subseteq lured

IInv == /\ TypeOK /\ TakenAway /\ OneListens /\ SlotsAddUp
        /\ CalledBack /\ Registered /\ Drained
-----------------------------------------------------------------------------
LEMMA InitInv == ASSUME IsFiniteSet(Conn) PROVE Init => IInv
<1> SUFFICES ASSUME Init PROVE IInv
  OBVIOUS
<1>1. TypeOK
  <2>1. MaxConnections \in Int /\ 0 \in 0..MaxStarts
    BY TcpAssumption
  <2> QED BY <2>1 DEF Init, TypeOK, Stage, Call, LoopState
<1>2. TakenAway /\ OneListens /\ CalledBack /\ Registered /\ Drained
  BY DEF Init, TakenAway, Ending, OneListens, CalledBack, Serving, Registered, Drained, Latest,
         Generation, None, Starting, Open, NotServing
<1>3. SlotsAddUp
  <2>1. Live = {}
    BY DEF Init, Live, Thread
  <2> QED BY <2>1, FS_EmptySet, TcpAssumption DEF Init, SlotsAddUp
<1> QED BY <1>1, <1>2, <1>3 DEF IInv

\* What the steps of a connection's thread and of its peer leave alone.
LEMMA ConnectionFrame ==
    ASSUME NEW c \in Conn, Serve(c) \/ Handle(c) \/ Peer(c)
    PROVE  /\ UNCHANGED <<servers, callers, starts, stops, quiet>>
           /\ \E s \in Stage : Move(c, s)
BY DEF Serve, Handle, Peer, Reject, Accept, SpawnFails, Track, OnConnect, Recv, OnMessage,
       IdleExpires, OnDisconnect, Release, Connect, PeerSends, PeerCloses, callers, bounds,
       history, Move, Stage, Thread

\* What the steps of stop() leave alone, after it took the server.
LEMMA StopFrame ==
    ASSUME NEW k \in Caller, FinishStop(k)
    PROVE  UNCHANGED <<server, slots, gen, target, seen, bounds, greeted, parted, lured>>
BY DEF FinishStop, RequestShutdown, AwaitShutdown, ServerClose, CloseAll, CloseOne,
       StopReturns, servers, conns, history

LEMMA StopKeepsStarting ==
    ASSUME TypeOK, TakenAway, NEW k \in Caller, FinishStop(k)
    PROVE  Starting' = Starting
<1>1. CASE ServerClose(k)
  <2>1. target[k] \in 1..starts
    BY <1>1 DEF ServerClose, TakenAway, Ending
  <2>2. target[k] \notin Starting
    BY <2>1 DEF TakenAway, TypeOK
  <2> QED BY <1>1, <2>2 DEF ServerClose, Starting, TypeOK
<1>2. CASE ~ServerClose(k)
  BY <1>2 DEF FinishStop, RequestShutdown, AwaitShutdown, CloseAll, CloseOne, StopReturns,
        Starting, servers
<1> QED BY <1>1, <1>2

\* The steps of start() leave the callers of stop() and the table alone.
LEMMA StartFrame ==
    ASSUME Publish \/ \E g \in Generation : FinishStart(g)
    PROVE  UNCHANGED <<requested, slots, connections, gen, closed, callers, stops, greeted,
                       parted>>
BY DEF Publish, FinishStart, ThreadStarts, ThreadFails, RollBack, conns, bounds, history

LEMMA TypeStep == ASSUME TypeOK, TakenAway, [Next]_vars PROVE TypeOK'
<1>1. CASE Publish
  <2>1. starts + 1 \in Generation
    BY <1>1, TcpAssumption DEF Publish, TypeOK, Generation
  <2> QED BY <1>1, <2>1 DEF Publish, TypeOK, LoopState, conns, callers, bounds, history
<1>2. ASSUME NEW g \in Generation, FinishStart(g) PROVE TypeOK'
  <2>1. CASE ThreadStarts(g)
    <3>1. g = starts + 1 /\ starts + 1 \in 0..MaxStarts
      BY <2>1, TcpAssumption DEF ThreadStarts, TakenAway, Starting, TypeOK, Generation
    <3> QED BY <2>1, <3>1 DEF ThreadStarts, TypeOK, LoopState, conns, callers
  <2>2. CASE ThreadFails(g)
    BY <2>2 DEF ThreadFails, TypeOK, LoopState, conns, callers, history
  <2>3. CASE RollBack(g)
    BY <2>3 DEF RollBack, ResetBacklog, TypeOK, LoopState, Stage, callers, bounds, history
  <2> QED BY <1>2, <2>1, <2>2, <2>3 DEF FinishStart
<1>3. ASSUME NEW k \in Caller, Stop(k) PROVE TypeOK'
  BY <1>3 DEF Stop, Taken, Proceed, TypeOK, Call, conns, history
<1>4. ASSUME NEW k \in Caller, FinishStop(k) PROVE TypeOK'
  <2>1. CASE RequestShutdown(k)
    <3>1. target[k] \in Generation
      BY <2>1, TcpAssumption DEF TypeOK, TakenAway, Ending, RequestShutdown, Generation
    <3> QED BY <2>1, <3>1 DEF RequestShutdown, Proceed, TypeOK, Call, conns, bounds, history
  <2>2. CASE AwaitShutdown(k)
    BY <2>2 DEF AwaitShutdown, Proceed, TypeOK, Call, servers, conns, bounds, history
  <2>3. CASE ServerClose(k)
    BY <2>3 DEF ServerClose, ResetBacklog, Proceed, TypeOK, Call, LoopState, Stage, bounds,
          history
  <2>4. CASE CloseAll(k)
    BY <2>4 DEF CloseAll, ToClose, Proceed, TypeOK, Call, servers, bounds, history
  <2>5. CASE CloseOne(k)
    BY <2>5 DEF CloseOne, TypeOK, servers, bounds, history
  <2>6. CASE StopReturns(k)
    BY <2>6 DEF StopReturns, Proceed, TypeOK, Call, servers, conns, bounds
  <2> QED BY <1>4, <2>1, <2>2, <2>3, <2>4, <2>5, <2>6 DEF FinishStop
<1>5. ASSUME NEW g \in Generation, LoopEnds(g) PROVE TypeOK'
  BY <1>5 DEF LoopEnds, TypeOK, LoopState, conns, callers, bounds, history
<1>6. ASSUME NEW c \in Conn, Serve(c) \/ Handle(c) \/ Peer(c) PROVE TypeOK'
  <2>1. /\ UNCHANGED <<servers, callers, starts, stops, quiet>>
        /\ stage' \in [Conn -> Stage]
    BY <1>6, ConnectionFrame DEF TypeOK, Move
  <2>2. CASE Serve(c)
    BY <2>1, <2>2 DEF Serve, Reject, Accept, SpawnFails, AfterFailedSpawn, TypeOK, servers,
          callers, bounds, history
  <2>3. CASE Handle(c)
    BY <2>1, <2>3 DEF Handle, Track, OnConnect, Recv, OnMessage, IdleExpires, OnDisconnect,
          Release, Parts, TypeOK, servers, callers, bounds, history
  <2>4. CASE Peer(c)
    BY <2>1, <2>4 DEF Peer, Connect, PeerSends, PeerCloses, TypeOK, servers, callers, bounds,
          history
  <2> QED BY <1>6, <2>2, <2>3, <2>4
<1>7. CASE UNCHANGED vars
  BY <1>7 DEF vars, servers, conns, callers, bounds, history, TypeOK
<1> QED BY <1>1, <1>2, <1>3, <1>4, <1>5, <1>6, <1>7 DEF Next

LEMMA TakenAwayStep ==
    ASSUME TypeOK, TakenAway, OneListens, [Next]_vars
    PROVE  TakenAway'
<1>1. CASE Publish
  <2>1. starts + 1 \in Generation /\ starts + 1 \notin 1..starts
    BY <1>1, TcpAssumption DEF Publish, TypeOK, Generation
  <2>2. /\ server' = starts + 1 /\ loop' = [loop EXCEPT ![starts + 1] = "bound"]
        /\ UNCHANGED <<requested, call, target, starts>>
    BY <1>1 DEF Publish, callers, bounds
  <2>3. Starting' = Starting \cup {starts + 1}
    BY <2>1, <2>2 DEF Starting, TypeOK
  <2> QED BY <2>1, <2>2, <2>3 DEF TakenAway, Ending
<1>2. ASSUME NEW g \in Generation, FinishStart(g) PROVE TakenAway'
  <2>1. UNCHANGED <<requested, call, target>>
    BY <1>2, StartFrame DEF callers
  <2>2. g \in Starting /\ g = starts + 1
    BY <1>2 DEF FinishStart, ThreadStarts, ThreadFails, RollBack, Starting, TakenAway
  <2>3. CASE ThreadStarts(g)
    <3>1. Starting' = {} /\ starts' = starts + 1 /\ server' = server
      BY <2>2, <2>3 DEF ThreadStarts, Starting, TakenAway, TypeOK
    <3>2. 1..starts \subseteq 1..(starts + 1) /\ server <= starts + 1
      BY <2>2 DEF TakenAway, TypeOK, Generation, None
    <3> QED BY <2>1, <3>1, <3>2 DEF TakenAway, Ending
  <2>4. CASE ThreadFails(g)
    <3>1. Starting' = Starting /\ starts' = starts /\ server' = None
      BY <2>2, <2>4 DEF ThreadFails, Starting, TypeOK
    <3>2. 0 \notin 1..starts /\ 0 <= starts
      BY DEF TypeOK
    <3> QED BY <2>1, <3>1, <3>2 DEF TakenAway, Ending, None
  <2>5. CASE RollBack(g)
    <3>1. Starting' \subseteq Starting /\ starts' = starts /\ server' = server
      BY <2>5 DEF RollBack, Starting, TypeOK, bounds
    <3>3. server # g
      BY <2>5 DEF RollBack, OneListens, Generation, None
    <3>2. server \notin Starting
      BY <2>2, <3>3 DEF TakenAway
    <3> QED BY <2>1, <3>1, <3>2 DEF TakenAway, Ending
  <2> QED BY <1>2, <2>3, <2>4, <2>5 DEF FinishStart
<1>3. ASSUME NEW k \in Caller, Stop(k) PROVE TakenAway'
  <2>1. server # None => server \in 1..starts
    BY <1>3 DEF Stop, TakenAway, TypeOK, Generation, None
  <2>2. ASSUME NEW j \in Caller, Ending(j)'
        PROVE  target'[j] \in 1..starts /\ target'[j] # None
    BY <1>3, <2>1, <2>2 DEF Stop, Proceed, Ending, TakenAway, TypeOK, None
  <2>3. UNCHANGED <<loop, requested, starts>> /\ server' = None /\ 0 <= starts /\ 0 \notin 1..starts
    BY <1>3 DEF Stop, Taken, TypeOK
  <2> QED BY <2>2, <2>3 DEF TakenAway, TypeOK, Starting, None
<1>4. ASSUME NEW k \in Caller, FinishStop(k) PROVE TakenAway'
  <2>1. UNCHANGED <<server, target, starts>>
    BY <1>4, StopFrame DEF bounds
  <2>2. \A j \in Caller : Ending(j)' => Ending(j)
    BY <1>4 DEF FinishStop, RequestShutdown, AwaitShutdown, ServerClose, CloseAll, CloseOne,
          StopReturns, Proceed, Ending, TypeOK
  <2>3. requested' \subseteq requested \cup {target[k]} /\ (requested' # requested => Ending(k))
    BY <1>4 DEF FinishStop, RequestShutdown, AwaitShutdown, ServerClose, CloseAll, CloseOne,
          StopReturns, Ending, servers
  <2>4. Starting' = Starting
    BY <1>4, StopKeepsStarting
  <2> QED BY <2>1, <2>2, <2>3, <2>4 DEF TakenAway
<1>5. ASSUME NEW g \in Generation, LoopEnds(g) PROVE TakenAway'
  <2>1. Starting' = Starting
    BY <1>5 DEF LoopEnds, Starting, TypeOK
  <2> QED BY <1>5, <2>1 DEF LoopEnds, TakenAway, Ending, callers, bounds
<1>6. ASSUME NEW c \in Conn, Serve(c) \/ Handle(c) \/ Peer(c) PROVE TakenAway'
  <2>1. UNCHANGED <<servers, call, target, starts>>
    BY <1>6, ConnectionFrame DEF callers
  <2> QED BY <2>1 DEF TakenAway, Ending, Starting, servers
<1>7. CASE UNCHANGED vars
  BY <1>7 DEF TakenAway, Ending, Starting, vars, servers, callers, bounds
<1> QED BY <1>1, <1>2, <1>3, <1>4, <1>5, <1>6, <1>7 DEF Next

LEMMA OneListensStep ==
    ASSUME TypeOK, TakenAway, OneListens, [Next]_vars
    PROVE  OneListens'
<1>1. CASE Publish
  <2>1. starts + 1 \in Generation
    BY <1>1, TcpAssumption DEF Publish, TypeOK, Generation
  <2> QED BY <1>1, <2>1 DEF Publish, OneListens, Open, TypeOK
<1>2. ASSUME NEW g \in Generation, FinishStart(g) PROVE OneListens'
  <2>1. CASE ThreadStarts(g)
    BY <2>1 DEF ThreadStarts, OneListens, Open, TypeOK
  <2>2. CASE ThreadFails(g)
    BY <2>2 DEF ThreadFails, OneListens, Open, TypeOK
  <2>3. CASE RollBack(g)
    BY <2>3 DEF RollBack, OneListens, Open, TypeOK
  <2> QED BY <1>2, <2>1, <2>2, <2>3 DEF FinishStart
<1>3. ASSUME NEW k \in Caller, Stop(k) PROVE OneListens'
  BY <1>3 DEF Stop, Taken, OneListens
<1>4. ASSUME NEW k \in Caller, FinishStop(k) PROVE OneListens'
  <2>1. CASE ServerClose(k)
    <3>1. target[k] # server
      BY <2>1 DEF ServerClose, TakenAway, Ending
    <3> QED BY <2>1, <3>1 DEF ServerClose, OneListens, Open, TypeOK
  <2>2. CASE ~ServerClose(k)
    BY <1>4, <2>2 DEF FinishStop, RequestShutdown, AwaitShutdown, CloseAll, CloseOne,
          StopReturns, OneListens, servers
  <2> QED BY <2>1, <2>2
<1>5. ASSUME NEW g \in Generation, LoopEnds(g) PROVE OneListens'
  <2>1. g # server
    BY <1>5 DEF LoopEnds, TakenAway
  <2> QED BY <1>5, <2>1 DEF LoopEnds, OneListens, Open, TypeOK
<1>6. ASSUME NEW c \in Conn, Serve(c) \/ Handle(c) \/ Peer(c) PROVE OneListens'
  BY <1>6, ConnectionFrame DEF OneListens, servers
<1>7. CASE UNCHANGED vars
  BY <1>7 DEF OneListens, vars, servers
<1> QED BY <1>1, <1>2, <1>3, <1>4, <1>5, <1>6, <1>7 DEF Next
-----------------------------------------------------------------------------
(* The slots.  Each step leaves the set of live threads alone, or adds or removes one     *)
(* connection and takes or gives back one slot.                                           *)

LEMMA LiveKept ==
    ASSUME TypeOK, SlotsAddUp, NEW c \in Conn, NEW s \in Stage, Move(c, s),
           c \in Live <=> s \in Thread, UNCHANGED slots
    PROVE  SlotsAddUp'
<1>1. Live' = Live
  BY DEF TypeOK, Move, Live
<1> QED BY <1>1 DEF SlotsAddUp

LEMMA LiveGrows ==
    ASSUME IsFiniteSet(Conn), TypeOK, SlotsAddUp, NEW c \in Conn, NEW s \in Thread, Move(c, s),
           c \notin Live, slots' = slots - 1
    PROVE  SlotsAddUp'
<1>1. Live' = Live \cup {c}
  BY DEF TypeOK, Move, Live
<1>2. IsFiniteSet(Live)
  BY FS_Subset DEF Live
<1>3. Cardinality(Live') = Cardinality(Live) + 1 /\ Cardinality(Live) \in Nat
  BY <1>1, <1>2, FS_AddElement, FS_CardinalityType
<1> QED BY <1>3 DEF SlotsAddUp, TypeOK

LEMMA LiveShrinks ==
    ASSUME IsFiniteSet(Conn), TypeOK, SlotsAddUp, NEW c \in Live, NEW s \in Stage \ Thread,
           Move(c, s), slots' = slots + 1
    PROVE  SlotsAddUp'
<1>1. Live' = Live \ {c}
  BY DEF TypeOK, Move, Live
<1>2. IsFiniteSet(Live)
  BY FS_Subset DEF Live
<1>3. Cardinality(Live') = Cardinality(Live) - 1 /\ Cardinality(Live) \in Nat
  BY <1>1, <1>2, FS_RemoveElement, FS_CardinalityType
<1> QED BY <1>3 DEF SlotsAddUp, TypeOK

LEMMA SlotsStep ==
    ASSUME IsFiniteSet(Conn), TypeOK, SlotsAddUp, [Next]_vars
    PROVE  SlotsAddUp'
<1>1. CASE Publish \/ UNCHANGED vars
  BY <1>1 DEF Publish, SlotsAddUp, Live, vars, conns
<1>12. ASSUME NEW g \in Generation, FinishStart(g) PROVE SlotsAddUp'
  <2>1. Live' = Live
    BY <1>12 DEF FinishStart, ThreadStarts, ThreadFails, RollBack, ResetBacklog, Live, Thread,
          TypeOK, conns
  <2> QED BY <1>12, <2>1, StartFrame DEF SlotsAddUp
<1>2. ASSUME NEW k \in Caller, Stop(k) PROVE SlotsAddUp'
  BY <1>2 DEF Stop, SlotsAddUp, Live, conns
<1>3. ASSUME NEW k \in Caller, FinishStop(k) PROVE SlotsAddUp'
  <2>1. CASE ServerClose(k)
    <3>1. Live' = Live
      BY <2>1 DEF ServerClose, ResetBacklog, Live, Thread, TypeOK
    <3> QED BY <2>1, <3>1 DEF ServerClose, SlotsAddUp
  <2>2. CASE ~ServerClose(k)
    BY <1>3, <2>2 DEF FinishStop, RequestShutdown, AwaitShutdown, CloseAll, CloseOne,
          StopReturns, SlotsAddUp, Live, conns
  <2> QED BY <2>1, <2>2
<1>4. ASSUME NEW g \in Generation, LoopEnds(g) PROVE SlotsAddUp'
  BY <1>4 DEF LoopEnds, SlotsAddUp, Live, conns
<1>5. ASSUME NEW c \in Conn, Accept(c) PROVE SlotsAddUp'
  BY <1>5, LiveGrows DEF Accept, Accepting, Live, Thread
<1>6. ASSUME NEW c \in Conn, Release(c) PROVE SlotsAddUp'
  BY <1>6, LiveShrinks DEF Release, Live, Thread, Stage
<1>7. ASSUME NEW c \in Conn, Reject(c) \/ SpawnFails(c) \/ Connect(c) PROVE SlotsAddUp'
  BY <1>7, LiveKept DEF Reject, SpawnFails, AfterFailedSpawn, Connect, Accepting, Live, Thread,
        Stage
<1>8. ASSUME NEW c \in Conn, Track(c) PROVE SlotsAddUp'
  BY <1>8, LiveKept DEF Track, Live, Thread, Stage
<1>9. ASSUME NEW c \in Conn, OnConnect(c) \/ Recv(c) \/ OnMessage(c) PROVE SlotsAddUp'
  BY <1>9, LiveKept DEF OnConnect, Recv, OnMessage, Live, Thread, Stage
<1>10. ASSUME NEW c \in Conn, IdleExpires(c) \/ PeerCloses(c) \/ PeerSends(c) PROVE SlotsAddUp'
  BY <1>10, LiveKept DEF IdleExpires, PeerCloses, PeerSends, Live, Thread, Stage
<1>11. ASSUME NEW c \in Conn, OnDisconnect(c) PROVE SlotsAddUp'
  BY <1>11, LiveKept DEF OnDisconnect, Live, Thread, Stage
<1> QED
  BY <1>1, <1>2, <1>3, <1>4, <1>5, <1>6, <1>7, <1>8, <1>9, <1>10, <1>11, <1>12
  DEF Next, Serve, Handle, Peer
-----------------------------------------------------------------------------
(* The callbacks. *)

LEMMA CalledBackStep ==
    ASSUME TypeOK, CalledBack, [Next]_vars
    PROVE  CalledBack'
<1>1. CASE UNCHANGED <<stage, greeted, parted>>
  BY <1>1 DEF CalledBack
<1>2. CASE Publish \/ UNCHANGED vars \/ \E g \in Generation : LoopEnds(g)
  BY <1>1, <1>2 DEF Publish, LoopEnds, vars, conns, history
<1>9. ASSUME NEW g \in Generation, FinishStart(g) PROVE CalledBack'
  <2>1. \A c \in Conn :
          stage'[c] = stage[c] \/ (stage[c] = "backlog" /\ stage'[c] = "refused")
    BY <1>9 DEF FinishStart, ThreadStarts, ThreadFails, RollBack, ResetBacklog, TypeOK, conns
  <2> QED BY <1>9, <2>1, StartFrame DEF CalledBack, Serving
<1>3. ASSUME NEW k \in Caller, Stop(k) PROVE CalledBack'
  BY <1>1, <1>3 DEF Stop, conns, history
<1>4. ASSUME NEW k \in Caller, FinishStop(k) PROVE CalledBack'
  <2>1. CASE ServerClose(k)
    <3>1. UNCHANGED <<greeted, parted>>
      BY <2>1 DEF ServerClose, history
    <3>2. \A c \in Conn :
            stage'[c] = stage[c] \/ (stage[c] = "backlog" /\ stage'[c] = "refused")
      BY <2>1 DEF ServerClose, ResetBacklog, TypeOK
    <3> QED BY <3>1, <3>2 DEF CalledBack, Serving
  <2>2. CASE ~ServerClose(k)
    BY <1>1, <1>4, <2>2 DEF FinishStop, RequestShutdown, AwaitShutdown, CloseAll, CloseOne,
          StopReturns, conns, history
  <2> QED BY <2>1, <2>2
<1>5. ASSUME NEW c \in Conn, OnConnect(c) PROVE CalledBack'
  BY <1>5 DEF OnConnect, Move, CalledBack, Serving, TypeOK
<1>6. ASSUME NEW c \in Conn, OnDisconnect(c) PROVE CalledBack'
  BY <1>6 DEF OnDisconnect, Parts, Move, CalledBack, Serving, TypeOK
<1>7. ASSUME NEW c \in Conn, Serve(c) \/ Peer(c) PROVE CalledBack'
  BY <1>7 DEF Serve, Reject, Accept, SpawnFails, Accepting, Peer, Connect, PeerSends, PeerCloses,
        Move, CalledBack, Serving, TypeOK, history
<1>8. ASSUME NEW c \in Conn, Track(c) \/ Recv(c) \/ OnMessage(c) \/ IdleExpires(c) \/ Release(c)
      PROVE  CalledBack'
  BY <1>8 DEF Track, Recv, OnMessage, IdleExpires, Release, Move, CalledBack, Serving, TypeOK,
        history
<1> QED BY <1>2, <1>3, <1>4, <1>5, <1>6, <1>7, <1>8, <1>9 DEF Next, Handle
-----------------------------------------------------------------------------
(* What stop() leaves behind. *)

LEMMA RegisteredStep ==
    ASSUME TypeOK, Registered, Drained, [Next]_vars
    PROVE  Registered'
<1>1. CASE UNCHANGED <<stage, connections, closed, snapshot>>
  BY <1>1 DEF Registered
<1>2. CASE Publish \/ UNCHANGED vars \/ \E g \in Generation : LoopEnds(g)
  BY <1>1, <1>2 DEF Publish, LoopEnds, vars, conns, callers
<1>6. ASSUME NEW g \in Generation, FinishStart(g) PROVE Registered'
  <2>1. \A c \in Conn : stage'[c] = stage[c] \/ stage'[c] = "refused"
    BY <1>6 DEF FinishStart, ThreadStarts, ThreadFails, RollBack, ResetBacklog, TypeOK, conns
  <2> QED BY <1>6, <2>1, StartFrame DEF Registered, Serving, callers
<1>3. ASSUME NEW k \in Caller, Stop(k) PROVE Registered'
  BY <1>1, <1>3 DEF Stop, conns
<1>4. ASSUME NEW k \in Caller, FinishStop(k) PROVE Registered'
  <2>1. CASE RequestShutdown(k) \/ AwaitShutdown(k) \/ StopReturns(k)
    BY <1>1, <2>1 DEF RequestShutdown, AwaitShutdown, StopReturns, conns
  <2>2. CASE ServerClose(k)
    <3>1. UNCHANGED <<connections, closed, snapshot>>
      BY <2>2 DEF ServerClose
    <3>2. \A c \in Conn : stage'[c] = stage[c] \/ stage'[c] = "refused"
      BY <2>2 DEF ServerClose, ResetBacklog, TypeOK
    <3> QED BY <3>1, <3>2 DEF Registered, Serving
  <2>3. CASE CloseAll(k)
    <3>1. UNCHANGED <<stage, closed>> /\ snapshot[k] = {}
      BY <2>3 DEF CloseAll, Drained
    <3>2. snapshot'[k] = connections /\ \A j \in Caller \ {k} : snapshot'[j] = snapshot[j]
      BY <2>3 DEF CloseAll, ToClose, TypeOK
    <3> QED BY <3>1, <3>2 DEF Registered
  <2>4. CASE CloseOne(k)
    <3>1. PICK c \in snapshot[k] :
            closed' = closed \cup {c} /\ snapshot' = [snapshot EXCEPT ![k] = @ \ {c}]
      BY <2>4 DEF CloseOne
    <3>2. UNCHANGED <<stage, connections>>
      BY <2>4 DEF CloseOne
    <3>3. \A d \in Conn, j \in Caller : d \in snapshot[j] => d \in closed' \/ d \in snapshot'[j]
      BY <3>1 DEF TypeOK
    <3> QED BY <3>1, <3>2, <3>3 DEF Registered
  <2> QED BY <1>4, <2>1, <2>2, <2>3, <2>4 DEF FinishStop
<1>5. ASSUME NEW c \in Conn, Serve(c) \/ Handle(c) \/ Peer(c) PROVE Registered'
  <2>1. UNCHANGED snapshot
    BY <1>5, ConnectionFrame DEF callers
  <2>2. CASE Serve(c) \/ Peer(c)
    BY <2>1, <2>2 DEF Serve, Reject, Accept, SpawnFails, Accepting, Peer, Connect, PeerSends,
          PeerCloses, Move, Registered, Serving, TypeOK
  <2>3. CASE Handle(c)
    BY <2>1, <2>3 DEF Handle, Track, OnConnect, Recv, OnMessage, IdleExpires, OnDisconnect,
          Release, Move, Registered, Serving, TypeOK
  <2> QED BY <1>5, <2>2, <2>3
<1> QED BY <1>2, <1>3, <1>4, <1>5, <1>6 DEF Next

LEMMA DrainedStep ==
    ASSUME TypeOK, TakenAway, OneListens, Drained, [Next]_vars
    PROVE  Drained'
<1>1. CASE Publish
  <2>1. starts + 1 \in Generation
    BY <1>1, TcpAssumption DEF Publish, TypeOK, Generation
  <2>2. NotServing'
    BY <1>1, <2>1 DEF Publish, NotServing, Starting, TypeOK
  <2> QED BY <1>1, <2>2 DEF Publish, conns, callers, bounds, history, Drained, Latest
<1>2. ASSUME NEW g \in Generation, FinishStart(g) PROVE Drained'
  <2>1. CASE ThreadStarts(g)
    <3>1. quiet' = FALSE /\ starts' = starts + 1 /\ UNCHANGED <<call, seen, snapshot>>
      BY <2>1 DEF ThreadStarts, callers
    <3>2. \A k \in Caller : seen[k] <= starts' /\ seen[k] # starts'
      BY <3>1 DEF Drained, TypeOK
    <3> QED BY <3>1, <3>2 DEF Drained, Latest
  <2>2. CASE ThreadFails(g)
    BY <2>2 DEF ThreadFails, conns, callers, history, Drained, Latest, NotServing
  <2>3. CASE RollBack(g)
    <3>1. NotServing => NotServing'
      <4>1. server' = server /\ g # server
        BY <2>3 DEF RollBack, OneListens, Generation, None
      <4> QED BY <2>3, <4>1 DEF RollBack, NotServing, Starting, TypeOK
    <3> QED BY <2>3, <3>1 DEF RollBack, callers, bounds, history, Drained, Latest
  <2> QED BY <1>2, <2>1, <2>2, <2>3 DEF FinishStart
<1>3. ASSUME NEW k \in Caller, Stop(k) PROVE Drained'
  <2>1. starts <= starts
    BY DEF TypeOK
  <2>2. NotServing' /\ UNCHANGED <<connections, snapshot, starts, history>>
    BY <1>3 DEF Stop, Taken, NotServing, conns
  <2> QED BY <1>3, <2>1, <2>2 DEF Stop, Proceed, history, Drained, Latest, TypeOK
<1>4. ASSUME NEW k \in Caller, FinishStop(k) PROVE Drained'
  <2>1. UNCHANGED <<server, seen, starts, lured>>
    BY <1>4, StopFrame DEF bounds
  <2>2. NotServing' <=> NotServing
    <3>1. Starting' = Starting
      BY <1>4, StopKeepsStarting
    <3> QED BY <2>1, <3>1 DEF NotServing
  <2>3. CASE RequestShutdown(k) \/ AwaitShutdown(k) \/ ServerClose(k)
    BY <2>1, <2>2, <2>3 DEF RequestShutdown, AwaitShutdown, ServerClose, Proceed, conns, history,
          Drained, Latest, TypeOK
  <2>4. CASE CloseAll(k)
    BY <2>1, <2>2, <2>4 DEF CloseAll, Proceed, history, Drained, Latest, TypeOK
  <2>5. CASE CloseOne(k)
    BY <2>1, <2>2, <2>5 DEF CloseOne, history, Drained, Latest, TypeOK
  <2>6. CASE StopReturns(k)
    BY <2>1, <2>2, <2>6 DEF StopReturns, Proceed, conns, Drained, Latest, TypeOK
  <2> QED BY <1>4, <2>3, <2>4, <2>5, <2>6 DEF FinishStop
<1>5. ASSUME NEW c \in Conn, Serve(c) \/ Handle(c) \/ Peer(c) PROVE Drained'
  <2>1. UNCHANGED <<servers, call, snapshot, seen, starts, quiet>>
    BY <1>5, ConnectionFrame DEF callers
  <2>2. NotServing' <=> NotServing
    BY <2>1 DEF NotServing, Starting, servers
  <2>3. NotServing /\ connections \subseteq lured => connections' \subseteq lured'
    <3>1. CASE Track(c)
      BY <3>1 DEF Track, MayTrack, NotServing
    <3>2. CASE ~Track(c)
      BY <1>5, <3>2 DEF Serve, Reject, Accept, SpawnFails, Peer, Connect, PeerSends, PeerCloses,
            Handle, OnConnect, Recv, OnMessage, IdleExpires, OnDisconnect, Release, history
    <3> QED BY <3>1, <3>2
  <2> QED BY <2>1, <2>2, <2>3 DEF Drained, Latest
<1>6. ASSUME NEW g \in Generation, LoopEnds(g) PROVE Drained'
  <2>1. Starting' = Starting
    BY <1>6 DEF LoopEnds, Starting, TypeOK
  <2> QED BY <1>6, <2>1 DEF LoopEnds, conns, callers, bounds, history, Drained, Latest, NotServing
<1>7. CASE UNCHANGED vars
  BY <1>7 DEF vars, servers, conns, callers, bounds, history, Drained, Latest, NotServing, Starting
<1> QED BY <1>1, <1>2, <1>3, <1>4, <1>5, <1>6, <1>7 DEF Next
-----------------------------------------------------------------------------
LEMMA StepInv == ASSUME IsFiniteSet(Conn) PROVE IInv /\ [Next]_vars => IInv'
BY TypeStep, TakenAwayStep, OneListensStep, SlotsStep, CalledBackStep, RegisteredStep,
   DrainedStep DEF IInv

LEMMA AtMostOne ==
    ASSUME NEW S, \A x, y \in S : x = y
    PROVE  Cardinality(S) <= 1
<1>1. CASE S = {}
  BY <1>1, FS_EmptySet
<1>2. CASE S # {}
  <2>1. PICK x : S = {x}
    BY <1>2
  <2> QED BY <2>1, FS_Singleton
<1> QED BY <1>1, <1>2

\* The inductive invariant itself: types, and how callers, generations, slots, callbacks
\* and the table of connections hang together (protocol_server.py, tcp_server.py).
THEOREM Invariance == ASSUME IsFiniteSet(Conn) PROVE Spec => []IInv
BY InitInv, StepInv, PTL DEF Spec

\* However often the server is started and stopped, from however many threads, whatever is
\* rejected and whichever threads do not start: no slot is lost or invented, and one
\* socket at a time accepts for it (tcp_server.py:95-114, protocol_server.py).
THEOREM SlotsNeverLost == ASSUME IsFiniteSet(Conn) PROVE Spec => []SlotsConserved
<1>1. IInv => SlotsConserved
  <2> SUFFICES ASSUME IInv PROVE SlotsConserved
    OBVIOUS
  <2>1. Cardinality({g \in Generation : loop[g] \in Open}) <= 1
    BY AtMostOne DEF IInv, OneListens
  <2> QED BY <2>1 DEF IInv, OneListens, SlotsAddUp, SlotsConserved
<1> QED BY <1>1, Invariance, PTL

\* on_connect and on_disconnect come in pairs for every connection, ended by the peer, by a
\* timeout or by stop() (tcp_server.py:45-75).
THEOREM CallbacksInPairs == ASSUME IsFiniteSet(Conn) PROVE Spec => []CallbacksPaired
<1>1. IInv => CallbacksPaired
  <2> SUFFICES ASSUME IInv PROVE CallbacksPaired
    OBVIOUS
  <2> QED BY DEF IInv, CalledBack, CallbacksPaired, Serving
<1> QED BY <1>1, Invariance, PTL

\* After a stop() the table holds only what a failing start() let in, and no other
\* connection is left that nobody closes: a thread that registers late is turned away,
\* whatever other stops and starts are under way (tcp_server.py:177-203).
THEOREM StopLeavesNoStragglers == ASSUME IsFiniteSet(Conn) PROVE Spec => []NoStragglers
<1>1. IInv => NoStragglers
  <2> SUFFICES ASSUME IInv, quiet PROVE NoStragglers
    BY DEF NoStragglers
  <2>1. connections \subseteq lured
    BY DEF IInv, Drained
  <2>2. ASSUME NEW c \in Live
        PROVE  \/ c \in connections \cup closed
               \/ stage[c] \in {"spawned", "untracked"}
               \/ \E k \in Caller : c \in snapshot[k]
    BY DEF IInv, Registered, Serving, Live, Thread
  <2> QED BY <2>1, <2>2 DEF NoStragglers
<1> QED BY <1>1, Invariance, PTL
=============================================================================
