----------------------- MODULE RequestPipelineProofs -----------------------
(***************************************************************************)
(* The invariants of RequestPipeline for any number of threads, requests,  *)
(* paths and seconds.  What a thread carries from one step to the next is  *)
(* described by predicates on its record (Timely, Caused) whose other      *)
(* parameters, the clock and the paths once missed, only grow: a step of   *)
(* another thread cannot disturb them.  The counts are a matter of the set *)
(* of threads between counting and answering.                              *)
(***************************************************************************)
EXTENDS RequestPipeline, SequenceTheorems, FiniteSetTheorems, TLAPS

Position == {"idle", "view", "lookup", "db", "redis", "store", "healthy", "ready", "cache",
             "cacheset", "send", "after", "teardown"}
Local ==
    [pc : Position, req : Request \cup {None}, payload : {None, "null", "object"},
     timed : BOOLEAN, status : Nat, t0 : Nat, ok : [Dep -> BOOLEAN],
     at : [Dep -> Nat], there : BOOLEAN, sent : {None, "file", "index"}]

\* An entry of the file cache: what is said to be missing is a page that was.
Entry(absent) ==
    {e \in [path : Path, there : BOOLEAN] : e.there \/ e.path \in Pages \cap absent}

\* The request has its answer, a status that the metrics know.
Answered(x) == x.pc \in {"after", "teardown"}

TypeOK ==
    /\ th \in [Thread -> Local]
    /\ taken \in Nat /\ observed \in Nat /\ viewed \in Nat /\ flips \in Nat
    /\ counted \in [Status -> Nat] /\ answered \in [Status -> Nat]
    /\ now \in Nat /\ up \in [Dep -> BOOLEAN]
    /\ health \in [ts : Nat, ok : [Dep -> BOOLEAN], at : [Dep -> Nat]]
    /\ exists \in Seq(Entry(missed))
    /\ \A t \in Thread : Answered(th[t]) => th[t].status \in Status
    /\ \A t \in Thread : th[t].pc = "idle" => ~th[t].timed

\* The probes a request relies on are as old as the position says.
Timely(x, time) ==
    /\ x.t0 <= time
    /\ x.pc = "redis" => x.at["db"] >= x.t0
    /\ x.pc \in {"store", "healthy"} => \A d \in Dep : x.at[d] >= x.t0
    /\ x.pc \notin {"lookup", "db", "redis"} => \A d \in Dep : x.at[d] + TTL > x.t0

\* A path taken for missing is a page that was missing.
Caused(x, absent) ==
    /\ x.pc \in {"cache", "cacheset", "send"} =>
         x.req.route \in Path /\ (x.there \/ x.req.route \in Pages \cap absent)
    /\ x.sent = "index" => x.req.route \in Pages \cap absent

CacheTimely == \A d \in Dep : health.at[d] >= health.ts
MissedKept == Path \ files \subseteq missed

IInv ==
    /\ TypeOK
    /\ \A t \in Thread : Timely(th[t], now) /\ Caused(th[t], missed)
    /\ CacheTimely /\ MissedKept /\ CountedOnce

(* One thread moves and the others stay. *)

\* What the invariant says of one thread.
Sound(x) ==
    /\ x \in Local
    /\ Answered(x) => x.status \in Status
    /\ x.pc = "idle" => ~x.timed
    /\ Timely(x, now) /\ Caused(x, missed)

\* A thread goes on with its request, and neither counts nor answers it.
Onward(t, y) ==
    /\ th' = [th EXCEPT ![t] = y] /\ Sound(y)
    /\ y.timed = th[t].timed /\ th[t].pc # "teardown" /\ y.pc # "teardown"

Counted(s) == {t \in Thread : th[t].pc = "teardown" /\ th[t].status = s}
Viewing == {t \in Thread : th[t].timed /\ th[t].pc # "teardown"}

LEMMA CountedOnceSets ==
    CountedOnce <=>
        (MetricsEnabled =>
            /\ \A s \in Status : counted[s] = answered[s] + Cardinality(Counted(s))
            /\ viewed = observed + Cardinality(Viewing))
BY DEF CountedOnce, Counted, Viewing, At

LEMMA SetsFinite ==
    /\ \A s : IsFiniteSet(Counted(s)) /\ Cardinality(Counted(s)) \in Nat
    /\ IsFiniteSet(Viewing) /\ Cardinality(Viewing) \in Nat
<1>1. \A s : Counted(s) \subseteq Thread
  BY DEF Counted
<1>2. Viewing \subseteq Thread
  BY DEF Viewing
<1> QED BY <1>1, <1>2, FS_Subset, FS_CardinalityType, PipelineAssumption

LEMMA LocalMoved ==
    ASSUME NEW x \in Local, NEW pc \in Position, NEW s \in Nat
    PROVE  /\ [x EXCEPT !.pc = pc] \in Local
           /\ [x EXCEPT !.pc = pc, !.status = s] \in Local
BY DEF Local

LEMMA SoundThread == ASSUME IInv, NEW t \in Thread PROVE Sound(th[t])
BY DEF IInv, TypeOK, Sound

\* The parts of the invariant that speak of threads, when one of them moves.
LEMMA OthersStay ==
    ASSUME IInv, NEW t \in Thread, NEW y, th' = [th EXCEPT ![t] = y], Sound(y),
           UNCHANGED <<now, missed>>
    PROVE  /\ th' \in [Thread -> Local]
           /\ \A u \in Thread : Answered(th'[u]) => th'[u].status \in Status
           /\ \A u \in Thread : th'[u].pc = "idle" => ~th'[u].timed
           /\ \A u \in Thread : Timely(th'[u], now') /\ Caused(th'[u], missed')
<1>1. th \in [Thread -> Local] /\ y \in Local
  BY DEF IInv, TypeOK, Sound
<1>2. th' \in [Thread -> Local]
  BY <1>1
<1>3. ASSUME NEW u \in Thread
      PROVE  Sound(th'[u])
  <2>1. th'[u] = IF u = t THEN y ELSE th[u]
    BY <1>1
  <2> QED BY <2>1, SoundThread
<1>4. ASSUME NEW x, Sound(x)
      PROVE  /\ Answered(x) => x.status \in Status
             /\ x.pc = "idle" => ~x.timed
             /\ Timely(x, now') /\ Caused(x, missed')
  BY <1>4 DEF Sound
<1> QED BY <1>2, <1>3, <1>4

LEMMA OnwardCounts ==
    ASSUME IInv, NEW t \in Thread, NEW y, Onward(t, y), UNCHANGED metrics
    PROVE  CountedOnce'
<1>1. th \in [Thread -> Local] /\ th' = [th EXCEPT ![t] = y]
  BY DEF IInv, TypeOK, Onward
<1>2. \A u \in Thread : th'[u] = IF u = t THEN y ELSE th[u]
  BY <1>1
<1>3. \A s : Counted(s)' = Counted(s)
  BY <1>2 DEF Counted, Onward
<1>4. Viewing' = Viewing
  BY <1>2 DEF Viewing, Onward
<1>5. CountedOnce
  BY DEF IInv
<1>6. UNCHANGED <<counted, observed, answered, viewed>>
  BY DEF metrics
<1>7. MetricsEnabled =>
        /\ \A s \in Status : counted'[s] = answered'[s] + Cardinality(Counted(s)')
        /\ viewed' = observed' + Cardinality(Viewing')
  BY <1>3, <1>4, <1>5, <1>6, CountedOnceSets
<1> QED BY <1>7 DEF CountedOnce, Counted, Viewing, At

\* The whole invariant, when one thread moves and the counts are right.
LEMMA MovedInv ==
    ASSUME IInv, NEW t \in Thread, NEW y, th' = [th EXCEPT ![t] = y], Sound(y),
           UNCHANGED world,
           taken' \in Nat, observed' \in Nat, viewed' \in Nat,
           counted' \in [Status -> Nat], answered' \in [Status -> Nat], CountedOnce',
           exists' \in Seq(Entry(missed)),
           health' \in [ts : Nat, ok : [Dep -> BOOLEAN], at : [Dep -> Nat]],
           \A d \in Dep : health'.at[d] >= health'.ts
    PROVE  IInv'
<1>1. UNCHANGED <<now, up, files, missed, flips>>
  BY DEF world
<1>2. /\ th' \in [Thread -> Local]
      /\ \A u \in Thread : Answered(th'[u]) => th'[u].status \in Status
      /\ \A u \in Thread : th'[u].pc = "idle" => ~th'[u].timed
      /\ \A u \in Thread : Timely(th'[u], now') /\ Caused(th'[u], missed')
  BY <1>1, OthersStay
<1>3. Entry(missed)' = Entry(missed)
  BY <1>1 DEF Entry
<1>4. TypeOK'
  BY <1>1, <1>2, <1>3 DEF IInv, TypeOK, Answered
<1>5. CacheTimely' /\ MissedKept'
  BY <1>1 DEF IInv, CacheTimely, MissedKept
<1>6. \A u \in Thread : Timely(th[u], now)' /\ Caused(th[u], missed)'
  BY <1>2 DEF Timely, Caused
<1> QED BY <1>4, <1>5, <1>6 DEF IInv

LEMMA OnwardInv ==
    ASSUME IInv, NEW t \in Thread, NEW y, Onward(t, y),
           taken' \in Nat, UNCHANGED <<metrics, world>>,
           exists' \in Seq(Entry(missed)),
           health' \in [ts : Nat, ok : [Dep -> BOOLEAN], at : [Dep -> Nat]],
           \A d \in Dep : health'.at[d] >= health'.ts
    PROVE  IInv'
<1>1. /\ observed' \in Nat /\ viewed' \in Nat
      /\ counted' \in [Status -> Nat] /\ answered' \in [Status -> Nat]
  BY DEF IInv, TypeOK, metrics
<1> QED BY <1>1, OnwardCounts, MovedInv DEF Onward

\* The actions that touch nothing but their thread.
LEMMA QuietInv ==
    ASSUME IInv, NEW t \in Thread, NEW y, Onward(t, y), Quiet
    PROVE  IInv'
<1>1. UNCHANGED <<taken, metrics, world, exists, health>>
  BY DEF Quiet, caches
<1>2. /\ taken' \in Nat /\ exists' \in Seq(Entry(missed))
      /\ health' \in [ts : Nat, ok : [Dep -> BOOLEAN], at : [Dep -> Nat]]
      /\ \A d \in Dep : health'.at[d] >= health'.ts
  BY <1>1 DEF IInv, TypeOK, CacheTimely
<1> QED BY <1>1, <1>2, OnwardInv

(* The steps of a request between its hooks and its answer. *)

\* A view, or what it raises, answers: nothing else of the thread changes.
LEMMA AnswerInv ==
    ASSUME IInv, NEW t \in Thread, NEW s \in Status, Answer(t, s), Quiet,
           th[t].pc \in {"view", "healthy", "ready", "send"}
    PROVE  IInv'
<1> DEFINE x == th[t]
           y == [x EXCEPT !.pc = "after", !.status = s]
<1>1. x \in Local /\ th \in [Thread -> Local] /\ Sound(x)
  BY SoundThread DEF IInv, TypeOK
<1>2. th' = [th EXCEPT ![t] = y]
  BY <1>1 DEF Answer
<1> HIDE DEF x
<1>3. y \in Local
  <2>1. "after" \in Position /\ s \in Nat
    BY DEF Position, Status
  <2> QED BY <1>1, <2>1, LocalMoved
<1>4. /\ y.pc = "after" /\ y.status = s /\ y.timed = x.timed
      /\ y.t0 = x.t0 /\ y.at = x.at /\ y.sent = x.sent /\ y.req = x.req
  BY <1>1 DEF Local
<1>5. x.pc \in {"view", "healthy", "ready", "send"}
  BY DEF x
<1> HIDE DEF y
<1>6. Timely(y, now) /\ Caused(y, missed)
  BY <1>1, <1>4, <1>5 DEF Sound, Timely, Caused
<1>7. Onward(t, y)
  BY <1>2, <1>3, <1>4, <1>5, <1>6 DEF Onward, Sound, x
<1> QED BY <1>7, QuietInv

\* A thread that is only moved along.
LEMMA GotoInv ==
    ASSUME IInv, NEW t \in Thread, NEW pc \in {"db", "ready", "cacheset", "send", "healthy"},
           Goto(t, pc), pc = "ready" => th[t].pc = "view", pc = "db" => th[t].pc = "lookup",
           pc = "cacheset" => th[t].pc = "cache", pc = "send" => th[t].pc = "cacheset",
           pc = "healthy" => th[t].pc = "store"
    PROVE  \E y : Onward(t, y)
<1> DEFINE x == th[t]
           y == [x EXCEPT !.pc = pc]
<1>1. x \in Local /\ th \in [Thread -> Local] /\ Sound(x)
  BY SoundThread DEF IInv, TypeOK
<1>2. th' = [th EXCEPT ![t] = y]
  BY <1>1 DEF Goto
<1>3. /\ pc = "ready" => x.pc = "view"
      /\ pc = "db" => x.pc = "lookup"
      /\ pc = "cacheset" => x.pc = "cache"
      /\ pc = "send" => x.pc = "cacheset"
      /\ pc = "healthy" => x.pc = "store"
  OBVIOUS
<1> HIDE DEF x
<1>4. y \in Local
  BY <1>1, LocalMoved DEF Position
<1>5. /\ y.pc = pc /\ y.timed = x.timed /\ y.there = x.there
      /\ y.t0 = x.t0 /\ y.at = x.at /\ y.sent = x.sent /\ y.req = x.req
  BY <1>1 DEF Local
<1> HIDE DEF y
<1>6. Caused(y, missed)
  BY <1>1, <1>3, <1>5 DEF Sound, Caused
<1>7. Timely(y, now)
  BY <1>1, <1>3, <1>5, PipelineAssumption DEF Sound, Timely, Local
<1>8. Onward(t, y)
  BY <1>1, <1>2, <1>3, <1>4, <1>5, <1>6, <1>7 DEF Onward, Sound, x, Answered
<1> QED BY <1>8

LEMMA RaiseStatus ==
    ASSUME NEW t, NEW e \in {"BadRequest", "NotFound", "UnprocessableEntity", "KeyError",
                            "TypeError"}, Raise(t, e)
    PROVE  \E s \in Status : Answer(t, s)
<1>1. StatusOf[e] \in Status
  BY DEF StatusOf, Status
<1> QED BY <1>1 DEF Raise

LEMMA ViewsInv ==
    ASSUME IInv, NEW t \in Thread,
           \/ Options(t) \/ ApiView(t) \/ MetricsView(t) \/ HealthAnswer(t)
           \/ ReadyDb(t) \/ ReadyRedis(t) \/ Redirect(t)
    PROVE  IInv'
<1>1. {200, 308, 503} \subseteq Status
  BY DEF Status
<1>2. CASE Options(t) \/ MetricsView(t) \/ Redirect(t) \/ HealthAnswer(t)
  BY <1>1, <1>2, AnswerInv DEF Options, MetricsView, Redirect, HealthAnswer, AtView, At
<1>3. CASE ApiView(t)
  <2>1. (\E s \in Status : Answer(t, s)) /\ Quiet /\ th[t].pc = "view"
    BY <1>1, <1>3, RaiseStatus DEF ApiView, AtView, At
  <2> QED BY <2>1, AnswerInv
<1>4. CASE ReadyRedis(t)
  <2>1. (\E s \in Status : Answer(t, s)) /\ Quiet /\ th[t].pc = "ready"
    BY <1>1, <1>4 DEF ReadyRedis, At
  <2> QED BY <2>1, AnswerInv
<1>5. CASE ReadyDb(t)
  <2>1. Quiet /\ th[t].pc = "view"
    BY <1>5 DEF ReadyDb, AtView, At
  <2>2. CASE Goto(t, "ready")
    <3>1. PICK y : Onward(t, y)
      BY <2>1, <2>2, GotoInv
    <3> QED BY <2>1, <3>1, QuietInv
  <2>3. CASE Answer(t, 503)
    BY <1>1, <2>1, <2>3, AnswerInv
  <2> QED BY <1>5, <2>2, <2>3 DEF ReadyDb
<1> QED BY <1>2, <1>3, <1>4, <1>5

(* /health. *)

LEMMA ReadClockInv ==
    ASSUME IInv, NEW t \in Thread, ReadClock(t)
    PROVE  IInv'
<1> DEFINE x == th[t]
           pc == IF Debug THEN "db" ELSE "lookup"
           y == [x EXCEPT !.t0 = now, !.pc = pc]
<1>1. x \in Local /\ th \in [Thread -> Local] /\ Sound(x) /\ now \in Nat
  BY SoundThread DEF IInv, TypeOK
<1>2. th' = [th EXCEPT ![t] = y] /\ x.pc = "view" /\ Quiet
  BY <1>1 DEF ReadClock, AtView, At
<1>3. pc \in {"db", "lookup"} /\ pc \in Position
  BY DEF Position
<1> HIDE DEF x, pc
<1>4. y \in Local
  BY <1>1, <1>3 DEF Local
<1>5. /\ y.pc = pc /\ y.timed = x.timed /\ y.t0 = now /\ y.sent = x.sent /\ y.req = x.req
  BY <1>1 DEF Local
<1> HIDE DEF y
<1>6. Timely(y, now) /\ Caused(y, missed)
  BY <1>1, <1>2, <1>3, <1>5 DEF Sound, Timely, Caused
<1>7. Onward(t, y)
  BY <1>2, <1>3, <1>4, <1>5, <1>6 DEF Onward, Sound, x, Answered
<1> QED BY <1>2, <1>7, QuietInv

LEMMA HealthLookupInv ==
    ASSUME IInv, NEW t \in Thread, HealthLookup(t)
    PROVE  IInv'
<1> DEFINE x == th[t]
           y == [x EXCEPT !.pc = "after", !.status = 200, !.ok = health.ok, !.at = health.at]
<1>1. /\ x \in Local /\ th \in [Thread -> Local] /\ Sound(x)
      /\ health \in [ts : Nat, ok : [Dep -> BOOLEAN], at : [Dep -> Nat]]
      /\ CacheTimely
  BY SoundThread DEF IInv, TypeOK
<1>2. x.pc = "lookup" /\ Quiet
  BY DEF HealthLookup, At
<1>3. CASE x.t0 < TTL + health.ts
  <2>1. th' = [th EXCEPT ![t] = y]
    <3>1. th' = [th EXCEPT ![t].pc = "after", ![t].status = 200,
                           ![t].ok = health.ok, ![t].at = health.at]
      BY <1>3 DEF HealthLookup
    <3> QED BY <1>1, <3>1
  <2> HIDE DEF x
  <2>2. "after" \in Position /\ 200 \in Nat
    BY DEF Position
  <2>3. y \in Local
    BY <1>1, <2>2 DEF Local
  <2>4. /\ y.pc = "after" /\ y.status = 200 /\ y.timed = x.timed /\ y.t0 = x.t0
        /\ y.at = health.at /\ y.sent = x.sent /\ y.req = x.req
    BY <1>1 DEF Local
  <2> HIDE DEF y
  <2>5. ASSUME NEW d \in Dep PROVE y.at[d] + TTL > y.t0
    <3>1. health.at[d] >= health.ts /\ health.at[d] \in Nat /\ health.ts \in Nat
      BY <1>1 DEF CacheTimely
    <3>2. x.t0 \in Nat /\ TTL \in Nat
      BY <1>1, PipelineAssumption DEF Local
    <3> QED BY <1>3, <2>4, <3>1, <3>2
  <2>6. Timely(y, now) /\ Caused(y, missed)
    BY <1>1, <1>2, <2>4, <2>5 DEF Sound, Timely, Caused
  <2>7. Onward(t, y)
    BY <1>2, <2>1, <2>3, <2>4, <2>6 DEF Onward, Sound, x, Status
  <2> QED BY <1>2, <2>7, QuietInv
<1>4. CASE ~(x.t0 < TTL + health.ts)
  <2>1. Goto(t, "db")
    BY <1>4 DEF HealthLookup
  <2>2. PICK z : Onward(t, z)
    BY <1>2, <2>1, GotoInv
  <2> QED BY <1>2, <2>2, QuietInv
<1> QED BY <1>3, <1>4

\* A probe sees its dependency no earlier than the clock was read.
LEMMA ProbeInv ==
    ASSUME IInv, NEW t \in Thread, NEW d \in Dep,
           NEW next \in {"redis", "store", "healthy"}, Probe(t, d, next), Quiet,
           \/ th[t].pc = "db" /\ d = "db" /\ next = "redis"
           \/ th[t].pc = "redis" /\ d = "redis" /\ next # "redis"
    PROVE  IInv'
<1> DEFINE x == th[t]
           y == [x EXCEPT !.ok[d] = up[d], !.at[d] = now, !.pc = next]
<1>1. /\ x \in Local /\ th \in [Thread -> Local] /\ Sound(x)
      /\ now \in Nat /\ up[d] \in BOOLEAN
  BY SoundThread DEF IInv, TypeOK
<1>2. th' = [th EXCEPT ![t] = y]
  BY <1>1 DEF Probe
<1>3. /\ next \in Position
      /\ \/ x.pc = "db" /\ d = "db" /\ next = "redis"
         \/ x.pc = "redis" /\ d = "redis" /\ next # "redis"
  BY DEF Position
<1> HIDE DEF x
<1>4. y \in Local
  BY <1>1, <1>3 DEF Local
<1>5. /\ y.pc = next /\ y.timed = x.timed /\ y.t0 = x.t0 /\ y.sent = x.sent
      /\ y.req = x.req
      /\ \A e \in Dep : y.at[e] = IF e = d THEN now ELSE x.at[e]
  BY <1>1 DEF Local
<1> HIDE DEF y
<1>6. Caused(y, missed)
  BY <1>1, <1>3, <1>5 DEF Sound, Caused
<1>7. now >= x.t0 /\ x.t0 \in Nat /\ (x.pc = "redis" => x.at["db"] >= x.t0)
  BY <1>1 DEF Sound, Timely, Local
<1>8. Timely(y, now)
  <2>1. CASE next = "redis"
    BY <1>3, <1>5, <1>7, <2>1 DEF Timely, Dep
  <2>2. CASE next # "redis"
    <3>1. \A e \in Dep : y.at[e] >= x.t0 /\ y.at[e] \in Nat
      BY <1>1, <1>3, <1>5, <1>7, <2>2 DEF Dep, Local
    <3>2. \A e \in Dep : y.at[e] + TTL > x.t0
      BY <1>7, <3>1, PipelineAssumption
    <3> QED BY <1>5, <1>7, <2>2, <3>1, <3>2 DEF Timely
  <2> QED BY <2>1, <2>2
<1>9. Onward(t, y)
  BY <1>2, <1>3, <1>4, <1>5, <1>6, <1>8 DEF Onward, Sound, x, Answered
<1> QED BY <1>9, QuietInv

\* The probes are stored with the time they were asked for.
LEMMA HealthStoreInv ==
    ASSUME IInv, NEW t \in Thread, HealthStore(t)
    PROVE  IInv'
<1>1. /\ th[t] \in Local /\ Sound(th[t]) /\ th[t].pc = "store"
      /\ taken \in Nat /\ exists \in Seq(Entry(missed))
  BY SoundThread DEF IInv, TypeOK, HealthStore, At
<1>2. health' = [ts |-> th[t].t0, ok |-> th[t].ok, at |-> th[t].at]
  BY DEF HealthStore, Stamp
<1>3. health' \in [ts : Nat, ok : [Dep -> BOOLEAN], at : [Dep -> Nat]]
  BY <1>1, <1>2 DEF Local
<1>4. \A d \in Dep : health'.at[d] >= health'.ts
  BY <1>1, <1>2 DEF Sound, Timely
<1>5. UNCHANGED <<taken, metrics, world, exists>> /\ Goto(t, "healthy")
  BY DEF HealthStore
<1>6. PICK y : Onward(t, y)
  BY <1>1, <1>5, GotoInv
<1>7. taken' \in Nat /\ exists' \in Seq(Entry(missed))
  BY <1>1, <1>5
<1> QED BY <1>3, <1>4, <1>5, <1>6, <1>7, OnwardInv

LEMMA HealthInv ==
    ASSUME IInv, NEW t \in Thread,
           \/ ReadClock(t) \/ HealthLookup(t) \/ ProbeDb(t) \/ ProbeRedis(t)
           \/ HealthStore(t)
    PROVE  IInv'
<1>1. CASE ProbeDb(t)
  BY <1>1, ProbeInv DEF ProbeDb, At, Dep
<1>2. CASE ProbeRedis(t)
  BY <1>2, ProbeInv DEF ProbeRedis, At, Dep
<1> QED BY <1>1, <1>2, ReadClockInv, HealthLookupInv, HealthStoreInv

(* The static site and its cache. *)

LEMMA UncachedType ==
    ASSUME NEW S, exists \in Seq(S), NEW p
    PROVE  Uncached(p) \in Seq(S)
<1>1. CASE Cached(p) = {}
  BY <1>1 DEF Uncached
<1>2. CASE Cached(p) # {}
  <2> DEFINE i == CHOOSE j \in Cached(p) : TRUE
  <2>1. i \in Cached(p)
    BY <1>2
  <2>2. i \in 1..Len(exists) /\ Len(exists) \in Nat
    BY <2>1 DEF Cached
  <2>3. Uncached(p) = RemoveAt(exists, i)
    BY <1>2 DEF Uncached
  <2> HIDE DEF i
  <2>4. i - 1 \in Int /\ i + 1 \in Int /\ Len(exists) \in Int
    BY <2>2
  <2>5. /\ \A j \in 1..(i - 1) : exists[j] \in S
        /\ \A j \in (i + 1)..Len(exists) : exists[j] \in S
    BY <2>2
  <2>6. SubSeq(exists, 1, i - 1) \in Seq(S)
    BY <2>4, <2>5, SubSeqProperties
  <2>7. SubSeq(exists, i + 1, Len(exists)) \in Seq(S)
    BY <2>4, <2>5, SubSeqProperties
  <2> QED BY <2>3, <2>6, <2>7, ConcatProperties DEF RemoveAt
<1> QED BY <1>1, <1>2

LEMMA EvictType ==
    ASSUME NEW S, NEW s \in Seq(S)
    PROVE  Evict(s) \in Seq(S)
<1>1. CASE Len(s) > CacheMax
  <2>1. Len(s) \in Nat /\ CacheMax \in Nat
    BY PipelineAssumption
  <2>2. Len(s) - CacheMax + 1 \in Int /\ Len(s) \in Int
    BY <2>1
  <2>3. \A j \in (Len(s) - CacheMax + 1)..Len(s) : s[j] \in S
    BY <1>1, <2>1
  <2>4. SubSeq(s, Len(s) - CacheMax + 1, Len(s)) \in Seq(S)
    BY <2>2, <2>3, SubSeqProperties
  <2> QED BY <1>1, <2>4 DEF Evict
<1>2. CASE ~(Len(s) > CacheMax)
  BY <1>2 DEF Evict
<1> QED BY <1>1, <1>2

\* A step that decides, or has decided, whether the path is there.
LEMMA SiteMove ==
    ASSUME IInv, NEW t \in Thread, NEW there \in BOOLEAN,
           NEW pc \in {"cache", "cacheset", "send"},
           th' = [th EXCEPT ![t].there = there, ![t].pc = pc],
           th[t].pc \in {"view", "cache"},
           th[t].req.route \in Path,
           there \/ th[t].req.route \in Pages \cap missed
    PROVE  \E y : Onward(t, y)
<1> DEFINE x == th[t]
           y == [x EXCEPT !.there = there, !.pc = pc]
<1>1. x \in Local /\ th \in [Thread -> Local] /\ Sound(x)
  BY SoundThread DEF IInv, TypeOK
<1>2. th' = [th EXCEPT ![t] = y]
  BY <1>1
<1>3. /\ x.pc \in {"view", "cache"} /\ x.req.route \in Path
      /\ there \/ x.req.route \in Pages \cap missed
  OBVIOUS
<1> HIDE DEF x
<1>4. pc \in Position
  BY DEF Position
<1>5. y \in Local
  BY <1>1, <1>4 DEF Local
<1>6. /\ y.pc = pc /\ y.timed = x.timed /\ y.there = there
      /\ y.t0 = x.t0 /\ y.at = x.at /\ y.sent = x.sent /\ y.req = x.req
  BY <1>1 DEF Local
<1> HIDE DEF y
<1>7. Timely(y, now)
  BY <1>1, <1>3, <1>6 DEF Sound, Timely
<1>8. Caused(y, missed)
  BY <1>1, <1>3, <1>6 DEF Sound, Caused
<1>9. Onward(t, y)
  BY <1>2, <1>3, <1>5, <1>6, <1>7, <1>8 DEF Onward, Sound, x, Answered
<1> QED BY <1>9

LEMMA StatInv ==
    ASSUME IInv, NEW t \in Thread, Stat(t)
    PROVE  IInv'
<1>1. th[t].pc = "view" /\ th[t].req.route \in Path /\ Quiet
  BY DEF Stat, AtView, At
<1>2. CASE MissingAsset(t)
  <2>1. PICK s \in Status : Answer(t, s)
    BY <1>2, RaiseStatus DEF Stat
  <2> QED BY <1>1, <2>1, AnswerInv
<1>3. CASE ~MissingAsset(t)
  <2> DEFINE there == th[t].req.route \in files
             pc == IF Debug THEN "send" ELSE "cache"
  <2>1. th' = [th EXCEPT ![t].there = there, ![t].pc = pc]
    BY <1>3 DEF Stat
  <2>2. there \/ th[t].req.route \in Pages \cap missed
    BY <1>1, <1>3 DEF MissingAsset, Path, IInv, MissedKept
  <2>3. there \in BOOLEAN /\ pc \in {"cache", "cacheset", "send"}
    OBVIOUS
  <2> HIDE DEF there, pc
  <2>4. \E y : Onward(t, y)
    BY <1>1, <2>1, <2>2, <2>3, SiteMove
  <2> QED BY <1>1, <2>4, QuietInv
<1> QED BY <1>2, <1>3

LEMMA CacheGetInv ==
    ASSUME IInv, NEW t \in Thread, CacheGet(t)
    PROVE  IInv'
<1> DEFINE p == th[t].req.route
<1>1. /\ Sound(th[t]) /\ th[t].pc = "cache" /\ p \in Path
      /\ taken \in Nat /\ exists \in Seq(Entry(missed))
      /\ UNCHANGED <<taken, metrics, world, health>>
      /\ health \in [ts : Nat, ok : [Dep -> BOOLEAN], at : [Dep -> Nat]]
      /\ CacheTimely
  BY SoundThread DEF IInv, TypeOK, CacheGet, At, Sound, Caused
<1>2. CASE Cached(p) = {} /\ Goto(t, "cacheset") /\ UNCHANGED exists
  <2>1. PICK y : Onward(t, y)
    BY <1>1, <1>2, GotoInv
  <2> QED BY <1>1, <1>2, <2>1, OnwardInv DEF CacheTimely
<1>3. ASSUME NEW i \in Cached(p), exists' = Append(Uncached(p), exists[i]),
             th' = [th EXCEPT ![t].there = exists[i].there, ![t].pc = "send"]
      PROVE  IInv'
  <2>1. exists[i] \in Entry(missed) /\ exists[i].path = p
    BY <1>1 DEF Cached
  <2>2. /\ exists[i].there \in BOOLEAN
        /\ exists[i].there \/ p \in Pages \cap missed
    BY <2>1 DEF Entry
  <2>3. PICK y : Onward(t, y)
    BY <1>1, <1>3, <2>2, SiteMove
  <2>4. exists' \in Seq(Entry(missed))
    BY <1>1, <1>3, <2>1, UncachedType
  <2> QED BY <1>1, <2>3, <2>4, OnwardInv DEF CacheTimely
<1>4. \/ Cached(p) = {} /\ Goto(t, "cacheset") /\ UNCHANGED exists
      \/ \E i \in Cached(p) :
           /\ exists' = Append(Uncached(p), exists[i])
           /\ th' = [th EXCEPT ![t].there = exists[i].there, ![t].pc = "send"]
  BY DEF CacheGet, OnMiss
<1> QED BY <1>2, <1>3, <1>4

LEMMA CacheSetInv ==
    ASSUME IInv, NEW t \in Thread, CacheSet(t)
    PROVE  IInv'
<1> DEFINE p == th[t].req.route
           e == [path |-> p, there |-> th[t].there]
<1>1. /\ Sound(th[t]) /\ th[t].pc = "cacheset"
      /\ taken \in Nat /\ exists \in Seq(Entry(missed))
      /\ UNCHANGED <<taken, metrics, world, health>>
      /\ health \in [ts : Nat, ok : [Dep -> BOOLEAN], at : [Dep -> Nat]]
      /\ CacheTimely
  BY SoundThread DEF IInv, TypeOK, CacheSet, At
<1>2. /\ p \in Path /\ th[t].there \in BOOLEAN
      /\ th[t].there \/ p \in Pages \cap missed
  BY <1>1 DEF Sound, Caused, Local
<1>3. e \in Entry(missed)
  BY <1>2 DEF Entry
<1>4. exists' = Evict(Append(Uncached(p), e)) /\ Goto(t, "send")
  BY DEF CacheSet
<1> HIDE DEF e, p
<1>5. Append(Uncached(p), e) \in Seq(Entry(missed))
  BY <1>1, <1>3, UncachedType
<1>6. exists' \in Seq(Entry(missed))
  BY <1>4, <1>5, EvictType
<1>7. PICK y : Onward(t, y)
  BY <1>1, <1>4, GotoInv
<1> QED BY <1>1, <1>6, <1>7, OnwardInv DEF CacheTimely

\* What is sent in place of a path is sent for cause.
LEMMA SendInv ==
    ASSUME IInv, NEW t \in Thread, NEW p, NEW kind \in {"file", "index"},
           Send(t, p, kind), Quiet, th[t].pc = "send",
           kind = "index" => ~th[t].there
    PROVE  IInv'
<1>1. CASE p \in files
  <2> DEFINE x == th[t]
             y == [x EXCEPT !.pc = "after", !.status = 200, !.sent = kind]
  <2>1. x \in Local /\ th \in [Thread -> Local] /\ Sound(x)
    BY SoundThread DEF IInv, TypeOK
  <2>2. th' = [th EXCEPT ![t] = y] /\ x.pc = "send" /\ (kind = "index" => ~x.there)
    BY <1>1, <2>1 DEF Send
  <2> HIDE DEF x
  <2>3. "after" \in Position /\ 200 \in Nat /\ kind \in {None, "file", "index"}
    BY DEF Position
  <2>4. y \in Local
    BY <2>1, <2>3 DEF Local
  <2>5. /\ y.pc = "after" /\ y.status = 200 /\ y.timed = x.timed /\ y.sent = kind
        /\ y.t0 = x.t0 /\ y.at = x.at /\ y.req = x.req
    BY <2>1 DEF Local
  <2> HIDE DEF y
  <2>6. Timely(y, now)
    BY <2>1, <2>2, <2>5 DEF Sound, Timely
  <2>7. Caused(y, missed)
    BY <2>1, <2>2, <2>5 DEF Sound, Caused
  <2>8. Onward(t, y)
    BY <2>2, <2>4, <2>5, <2>6, <2>7 DEF Onward, Sound, x, Status
  <2> QED BY <2>8, QuietInv
<1>2. CASE p \notin files
  <2>1. PICK s \in Status : Answer(t, s)
    BY <1>2, RaiseStatus DEF Send
  <2> QED BY <2>1, AnswerInv
<1> QED BY <1>1, <1>2

LEMMA SiteInv ==
    ASSUME IInv, NEW t \in Thread,
           Stat(t) \/ CacheGet(t) \/ CacheSet(t) \/ SendFile(t)
    PROVE  IInv'
<1>1. CASE SendFile(t)
  <2>1. th[t].pc = "send" /\ Quiet
    BY <1>1 DEF SendFile, At
  <2>2. CASE th[t].there
    BY <1>1, <2>1, <2>2, SendInv DEF SendFile
  <2>3. CASE ~th[t].there
    BY <1>1, <2>1, <2>3, SendInv DEF SendFile
  <2> QED BY <2>2, <2>3
<1> QED BY <1>1, StatInv, CacheGetInv, CacheSetInv

(* Requests come and go. *)

\* The counts of a state, from the sets of the one before.
LEMMA CountsNext ==
    ASSUME MetricsEnabled =>
             /\ \A s \in Status : counted'[s] = answered'[s] + Cardinality(Counted(s)')
             /\ viewed' = observed' + Cardinality(Viewing')
    PROVE  CountedOnce'
BY DEF CountedOnce, Counted, Viewing, At

LEMMA CachesStay ==
    ASSUME IInv, UNCHANGED caches
    PROVE  /\ exists' \in Seq(Entry(missed))
           /\ health' \in [ts : Nat, ok : [Dep -> BOOLEAN], at : [Dep -> Nat]]
           /\ \A d \in Dep : health'.at[d] >= health'.ts
BY DEF IInv, TypeOK, CacheTimely, caches

LEMMA NewLocal ==
    ASSUME NEW r \in Request
    PROVE  [Idle EXCEPT !.req = r, !.payload = Payload(r)] \in Local
<1>1. "idle" \in Position /\ Payload(r) \in {None, "null", "object"}
  BY DEF Position, Payload
<1> QED BY <1>1 DEF Local, Idle, Dep, None

LEMMA ReceiveInv ==
    ASSUME IInv, NEW t \in Thread, NEW r \in Request, Receive(t, r)
    PROVE  IInv'
<1> DEFINE new == [Idle EXCEPT !.req = r, !.payload = Payload(r)]
<1>1. /\ th \in [Thread -> Local] /\ th[t].pc = "idle" /\ ~th[t].timed
      /\ taken' \in Nat /\ UNCHANGED <<counted, observed, answered, world, caches>>
      /\ now \in Nat /\ th[t] \in Local
  <2>1. taken' = taken + 1 /\ taken \in Nat
    BY DEF IInv, TypeOK, Receive
  <2>2. th \in [Thread -> Local] /\ now \in Nat /\ (th[t].pc = "idle" => ~th[t].timed)
    BY DEF IInv, TypeOK
  <2>3. th[t].pc = "idle" /\ UNCHANGED <<counted, observed, answered, world, caches>>
    BY DEF Receive, At
  <2> QED BY <2>1, <2>2, <2>3
<1>2. /\ exists' \in Seq(Entry(missed))
      /\ health' \in [ts : Nat, ok : [Dep -> BOOLEAN], at : [Dep -> Nat]]
      /\ \A d \in Dep : health'.at[d] >= health'.ts
  BY <1>1, CachesStay
<1>3. /\ new \in Local /\ new.timed = FALSE /\ new.t0 = 0 /\ new.sent = None
      /\ new.at = [d \in Dep |-> 0]
  BY NewLocal DEF Idle
<1>4. CASE \E s \in Verdicts(r) :
             /\ th' = [th EXCEPT ![t] = [new EXCEPT !.pc = "after", !.status = s]]
             /\ UNCHANGED viewed
  <2>1. PICK s \in Verdicts(r) :
             /\ th' = [th EXCEPT ![t] = [new EXCEPT !.pc = "after", !.status = s]]
             /\ UNCHANGED viewed
    BY <1>4
  <2> DEFINE y == [new EXCEPT !.pc = "after", !.status = s]
  <2>2. s \in Status /\ s \in Nat /\ "after" \in Position
    BY DEF Verdicts, Status, Position
  <2> HIDE DEF new
  <2>3. y \in Local
    BY <1>3, <2>2, LocalMoved
  <2>4. /\ y.pc = "after" /\ y.status = s /\ y.timed = FALSE /\ y.t0 = 0
        /\ y.sent = None /\ y.at = [d \in Dep |-> 0]
    BY <1>3 DEF Local
  <2>5. th' = [th EXCEPT ![t] = y] /\ UNCHANGED viewed
    BY <2>1
  <2> HIDE DEF y
  <2>6. Timely(y, now)
    BY <1>1, <2>4, PipelineAssumption DEF Timely
  <2>7. Caused(y, missed)
    BY <2>4 DEF Caused, None
  <2>8. Sound(y)
    BY <2>2, <2>3, <2>4, <2>6, <2>7 DEF Sound
  <2>9. Onward(t, y)
    BY <1>1, <2>4, <2>5, <2>8 DEF Onward, Local
  <2> QED BY <1>1, <1>2, <2>5, <2>9, OnwardInv DEF metrics
<1>5. CASE /\ th' = [th EXCEPT ![t] = [new EXCEPT !.pc = "view", !.timed = MetricsEnabled]]
           /\ viewed' = viewed + 1
  <2> DEFINE y == [new EXCEPT !.pc = "view", !.timed = MetricsEnabled]
  <2>1. "view" \in Position
    BY DEF Position
  <2> HIDE DEF new
  <2>2. y \in Local
    BY <1>3, <2>1, PipelineAssumption DEF Local
  <2>3. /\ y.pc = "view" /\ y.timed = MetricsEnabled /\ y.t0 = 0
        /\ y.sent = None /\ y.at = [d \in Dep |-> 0]
    BY <1>3 DEF Local
  <2>4. th' = [th EXCEPT ![t] = y]
    BY <1>5
  <2> HIDE DEF y
  <2>5. Timely(y, now)
    BY <1>1, <2>3, PipelineAssumption DEF Timely
  <2>6. Caused(y, missed)
    BY <2>3 DEF Caused, None
  <2>7. Sound(y)
    BY <2>2, <2>3, <2>5, <2>6 DEF Sound, Answered
  <2>8. \A u \in Thread : th'[u] = IF u = t THEN y ELSE th[u]
    BY <1>1, <2>4
  <2>9. \A s : Counted(s)' = Counted(s)
    BY <1>1, <2>3, <2>8 DEF Counted
  <2>10. MetricsEnabled => Viewing' = Viewing \cup {t} /\ t \notin Viewing
    BY <1>1, <2>3, <2>8 DEF Viewing
  <2>11. MetricsEnabled => Cardinality(Viewing') = Cardinality(Viewing) + 1
    BY <2>10, SetsFinite, FS_AddElement
  <2>12. /\ MetricsEnabled =>
              /\ \A s \in Status : counted[s] = answered[s] + Cardinality(Counted(s))
              /\ viewed = observed + Cardinality(Viewing)
         /\ observed \in Nat /\ viewed \in Nat
         /\ counted \in [Status -> Nat] /\ answered \in [Status -> Nat]
    BY CountedOnceSets DEF IInv, TypeOK
  <2>13. MetricsEnabled => \A s \in Status : counted'[s] = answered'[s] + Cardinality(Counted(s)')
    BY <1>1, <2>9, <2>12
  <2>14. MetricsEnabled => viewed' = observed' + Cardinality(Viewing')
    BY <1>1, <1>5, <2>11, <2>12, SetsFinite
  <2>15. CountedOnce'
    BY <2>13, <2>14, CountsNext
  <2>16. /\ observed' \in Nat /\ viewed' \in Nat
         /\ counted' \in [Status -> Nat] /\ answered' \in [Status -> Nat]
    BY <1>1, <1>5, <2>12
  <2> QED BY <1>1, <1>2, <2>4, <2>7, <2>15, <2>16, MovedInv
<1> QED BY <1>4, <1>5 DEF Receive

\* The response is counted, and timed if its timer was started.
LEMMA AfterRequestInv ==
    ASSUME IInv, NEW t \in Thread, AfterRequest(t)
    PROVE  IInv'
<1> DEFINE x == th[t]
           y == [x EXCEPT !.pc = "teardown"]
<1>1. /\ th \in [Thread -> Local] /\ x \in Local /\ Sound(x) /\ x.pc = "after"
      /\ x.status \in Status
  BY SoundThread DEF IInv, TypeOK, AfterRequest, At, Answered
<1>2. /\ th' = [th EXCEPT ![t] = y]
      /\ counted' = IF MetricsEnabled THEN [counted EXCEPT ![x.status] = @ + 1] ELSE counted
      /\ observed' = IF x.timed THEN observed + 1 ELSE observed
      /\ UNCHANGED <<taken, answered, viewed, world, caches>>
  BY <1>1 DEF AfterRequest, Goto, Count
<1>3. /\ exists' \in Seq(Entry(missed))
      /\ health' \in [ts : Nat, ok : [Dep -> BOOLEAN], at : [Dep -> Nat]]
      /\ \A d \in Dep : health'.at[d] >= health'.ts
  BY <1>2, CachesStay
<1>4. th[t] = x
  OBVIOUS
<1> HIDE DEF x
<1>5. "teardown" \in Position /\ x.status \in Nat
  BY <1>1 DEF Position, Local
<1>6. y \in Local
  BY <1>1, <1>5, LocalMoved
<1>7. /\ y.pc = "teardown" /\ y.status = x.status /\ y.timed = x.timed
      /\ y.t0 = x.t0 /\ y.at = x.at /\ y.sent = x.sent /\ y.req = x.req
  BY <1>1 DEF Local
<1> HIDE DEF y
<1>8. Timely(y, now) /\ Caused(y, missed)
  BY <1>1, <1>7 DEF Sound, Timely, Caused
<1>9. Sound(y)
  BY <1>1, <1>6, <1>7, <1>8 DEF Sound
<1>10. \A u \in Thread : th'[u] = IF u = t THEN y ELSE th[u]
  BY <1>1, <1>2
<1>11. /\ MetricsEnabled =>
            /\ \A s \in Status : counted[s] = answered[s] + Cardinality(Counted(s))
            /\ viewed = observed + Cardinality(Viewing)
       /\ taken \in Nat /\ observed \in Nat /\ viewed \in Nat
       /\ counted \in [Status -> Nat] /\ answered \in [Status -> Nat]
  BY CountedOnceSets DEF IInv, TypeOK
<1>12. ASSUME MetricsEnabled, NEW s \in Status
       PROVE  counted'[s] = answered'[s] + Cardinality(Counted(s)')
  <2>1. CASE s = x.status
    <3>1. Counted(s)' = Counted(s) \cup {t} /\ t \notin Counted(s)
      BY <1>1, <1>4, <1>7, <1>10, <2>1 DEF Counted
    <3>2. Cardinality(Counted(s)') = Cardinality(Counted(s)) + 1
      BY <3>1, SetsFinite, FS_AddElement
    <3>3. counted'[s] = counted[s] + 1 /\ answered'[s] = answered[s]
      BY <1>2, <1>11, <1>12, <2>1
    <3>4. answered[s] \in Nat /\ Cardinality(Counted(s)) \in Nat
      BY <1>11, SetsFinite
    <3> QED BY <1>11, <1>12, <3>2, <3>3, <3>4
  <2>2. CASE s # x.status
    <3>1. Counted(s)' = Counted(s)
      BY <1>1, <1>4, <1>7, <1>10, <2>2 DEF Counted
    <3> QED BY <1>2, <1>11, <1>12, <2>2, <3>1
  <2> QED BY <2>1, <2>2
<1>13. ASSUME MetricsEnabled PROVE viewed' = observed' + Cardinality(Viewing')
  <2>1. CASE x.timed
    <3>1. Viewing' = Viewing \ {t} /\ t \in Viewing
      BY <1>1, <1>4, <1>7, <1>10, <2>1 DEF Viewing
    <3>2. Cardinality(Viewing') = Cardinality(Viewing) - 1
      BY <3>1, SetsFinite, FS_RemoveElement
    <3> QED BY <1>2, <1>11, <1>13, <2>1, <3>2, SetsFinite
  <2>2. CASE ~x.timed
    <3>1. Viewing' = Viewing
      BY <1>1, <1>4, <1>7, <1>10, <2>2 DEF Viewing
    <3> QED BY <1>2, <1>11, <1>13, <2>2, <3>1
  <2> QED BY <2>1, <2>2
<1>14. CountedOnce'
  BY <1>12, <1>13, CountsNext
<1>15. /\ taken' \in Nat /\ observed' \in Nat /\ viewed' \in Nat
       /\ counted' \in [Status -> Nat] /\ answered' \in [Status -> Nat]
  BY <1>1, <1>2, <1>11
<1> QED BY <1>2, <1>3, <1>9, <1>14, <1>15, MovedInv

\* The response leaves: what was counted once is answered once.
LEMMA TeardownInv ==
    ASSUME IInv, NEW t \in Thread, Teardown(t)
    PROVE  IInv'
<1>1. /\ th \in [Thread -> Local] /\ th[t] \in Local /\ th[t].pc = "teardown"
      /\ th[t].status \in Status /\ now \in Nat
  BY DEF IInv, TypeOK, Teardown, At, Answered
<1>2. /\ th' = [th EXCEPT ![t] = Idle]
      /\ answered' = [answered EXCEPT ![th[t].status] = @ + 1]
      /\ UNCHANGED <<taken, counted, observed, viewed, world, caches>>
  BY DEF Teardown
<1>3. /\ exists' \in Seq(Entry(missed))
      /\ health' \in [ts : Nat, ok : [Dep -> BOOLEAN], at : [Dep -> Nat]]
      /\ \A d \in Dep : health'.at[d] >= health'.ts
  BY <1>2, CachesStay
<1>4. /\ Idle.pc = "idle" /\ Idle.timed = FALSE /\ Idle.t0 = 0 /\ Idle.sent = None
      /\ Idle.at = [d \in Dep |-> 0]
  BY DEF Idle
<1>5. Idle \in Local
  <2>1. "idle" \in Position
    BY DEF Position
  <2> QED BY <2>1 DEF Local, Idle, Dep, None
<1>6. Timely(Idle, now)
  BY <1>1, <1>4, PipelineAssumption DEF Timely
<1>7. Caused(Idle, missed)
  BY <1>4 DEF Caused, None
<1>8. Sound(Idle)
  BY <1>4, <1>5, <1>6, <1>7 DEF Sound, Answered
<1>9. \A u \in Thread : th'[u] = IF u = t THEN Idle ELSE th[u]
  BY <1>1, <1>2
<1>10. /\ MetricsEnabled =>
            /\ \A s \in Status : counted[s] = answered[s] + Cardinality(Counted(s))
            /\ viewed = observed + Cardinality(Viewing)
       /\ taken \in Nat /\ observed \in Nat /\ viewed \in Nat
       /\ counted \in [Status -> Nat] /\ answered \in [Status -> Nat]
  BY CountedOnceSets DEF IInv, TypeOK
<1>11. ASSUME MetricsEnabled, NEW s \in Status
       PROVE  counted'[s] = answered'[s] + Cardinality(Counted(s)')
  <2>1. CASE s = th[t].status
    <3>1. Counted(s)' = Counted(s) \ {t} /\ t \in Counted(s)
      BY <1>1, <1>4, <1>9, <2>1 DEF Counted
    <3>2. Cardinality(Counted(s)') = Cardinality(Counted(s)) - 1
      BY <3>1, SetsFinite, FS_RemoveElement
    <3>3. answered'[s] = answered[s] + 1 /\ counted'[s] = counted[s]
      BY <1>2, <1>10, <2>1
    <3>4. answered[s] \in Nat /\ Cardinality(Counted(s)) \in Nat
      BY <1>10, SetsFinite
    <3> QED BY <1>10, <1>11, <3>2, <3>3, <3>4
  <2>2. CASE s # th[t].status
    <3>1. Counted(s)' = Counted(s)
      BY <1>1, <1>4, <1>9, <2>2 DEF Counted
    <3> QED BY <1>2, <1>10, <1>11, <2>2, <3>1
  <2> QED BY <2>1, <2>2
<1>12. Viewing' = Viewing
  BY <1>1, <1>4, <1>9 DEF Viewing
<1>13. CountedOnce'
  BY <1>2, <1>10, <1>11, <1>12, CountsNext
<1>14. /\ taken' \in Nat /\ observed' \in Nat /\ viewed' \in Nat
       /\ counted' \in [Status -> Nat] /\ answered' \in [Status -> Nat]
  BY <1>1, <1>2, <1>10
<1> QED BY <1>2, <1>3, <1>8, <1>13, <1>14, MovedInv

(* The world, and the theorems. *)

\* What a thread or the cache relies on survives the world: the clock and the
\* paths once missed only grow.
LEMMA WorldInv ==
    ASSUME IInv, UNCHANGED <<th, taken, metrics, caches>>,
           now' \in Nat, now' >= now, up' \in [Dep -> BOOLEAN], flips' \in Nat,
           missed \subseteq missed', Path \ files' \subseteq missed'
    PROVE  IInv'
<1>1. UNCHANGED <<th, taken, counted, observed, answered, viewed, health, exists>>
  BY DEF metrics, caches
<1>2. exists' \in Seq(Entry(missed)')
  <2>1. \A i \in 1..Len(exists) : exists[i] \in Entry(missed)
    BY DEF IInv, TypeOK
  <2>2. Entry(missed) \subseteq Entry(missed)'
    BY DEF Entry
  <2>3. exists = [i \in 1..Len(exists) |-> exists[i]] /\ Len(exists) \in Nat
    BY DEF IInv, TypeOK
  <2> QED BY <1>1, <2>1, <2>2, <2>3
<1>3. TypeOK'
  BY <1>1, <1>2 DEF IInv, TypeOK, Answered
<1>4. \A u \in Thread : Timely(th[u], now)' /\ Caused(th[u], missed)'
  <2> SUFFICES ASSUME NEW u \in Thread
               PROVE  Timely(th[u], now)' /\ Caused(th[u], missed)'
    OBVIOUS
  <2>1. /\ th[u] \in Local /\ now \in Nat /\ th'[u] = th[u]
        /\ Timely(th[u], now) /\ Caused(th[u], missed)
    BY <1>1 DEF IInv, TypeOK
  <2>2. th[u].t0 <= now'
    BY <2>1 DEF Timely, Local
  <2>3. Timely(th[u], now)'
    BY <2>1, <2>2 DEF Timely
  <2>4. Caused(th[u], missed)'
    BY <2>1 DEF Caused
  <2> QED BY <2>3, <2>4
<1>5. CountedOnce'
  <2>1. Viewing' = Viewing /\ \A s : Counted(s)' = Counted(s)
    BY <1>1 DEF Viewing, Counted
  <2> QED BY <1>1, <2>1, CountedOnceSets, CountsNext DEF IInv
<1>6. CacheTimely' /\ MissedKept'
  BY <1>1 DEF IInv, CacheTimely, MissedKept
<1> QED BY <1>3, <1>4, <1>5, <1>6 DEF IInv

LEMMA TickInv == ASSUME IInv, Tick PROVE IInv'
<1>1. now' = now + 1 /\ now \in Nat
  BY DEF IInv, TypeOK, Tick
<1>2. /\ UNCHANGED <<th, taken, metrics, caches, up, files, missed, flips>>
      /\ up \in [Dep -> BOOLEAN] /\ flips \in Nat /\ Path \ files \subseteq missed
  BY DEF IInv, TypeOK, Tick, MissedKept
<1> QED BY <1>1, <1>2, WorldInv

LEMMA FlipInv == ASSUME IInv, Flip PROVE IInv'
<1>1. /\ UNCHANGED <<th, taken, metrics, caches, now>> /\ flips' = flips + 1
      /\ now \in Nat /\ up \in [Dep -> BOOLEAN] /\ flips \in Nat
      /\ Path \ files \subseteq missed
  BY DEF IInv, TypeOK, Flip, MissedKept
<1>2. up' \in [Dep -> BOOLEAN] /\ missed \subseteq missed' /\ Path \ files' \subseteq missed'
  <2>1. CASE \E d \in Dep : up' = [up EXCEPT ![d] = ~@] /\ UNCHANGED <<files, missed>>
    BY <1>1, <2>1
  <2>2. CASE missed' = missed \cup (Path \ files') /\ UNCHANGED up
    BY <1>1, <2>2
  <2> QED BY <2>1, <2>2 DEF Flip
<1> QED BY <1>1, <1>2, WorldInv

LEMMA StayInv == ASSUME IInv, UNCHANGED vars PROVE IInv'
<1>1. /\ UNCHANGED <<th, taken, metrics, caches, now, up, files, missed, flips>>
      /\ now \in Nat /\ up \in [Dep -> BOOLEAN] /\ flips \in Nat
      /\ Path \ files \subseteq missed
  BY DEF IInv, TypeOK, MissedKept, vars, metrics, caches
<1> QED BY <1>1, WorldInv

LEMMA StepInv == IInv /\ [Next]_vars => IInv'
<1> SUFFICES ASSUME IInv, [Next]_vars PROVE IInv'
  OBVIOUS
<1>1. ASSUME NEW t \in Thread, Serve(t) PROVE IInv'
  BY <1>1, ViewsInv, HealthInv, SiteInv, AfterRequestInv, TeardownInv DEF Serve
<1>2. ASSUME NEW t \in Thread, NEW r \in Request, Receive(t, r) PROVE IInv'
  BY <1>2, ReceiveInv
<1> QED BY <1>1, <1>2, TickInv, FlipInv, StayInv DEF Next

LEMMA InitInv == Init => IInv
<1> SUFFICES ASSUME Init PROVE IInv
  OBVIOUS
<1>1. /\ Idle.pc = "idle" /\ Idle.timed = FALSE /\ Idle.t0 = 0 /\ Idle.sent = None
      /\ Idle.at = [d \in Dep |-> 0]
  BY DEF Idle
<1>2. Idle \in Local
  <2>1. "idle" \in Position
    BY DEF Position
  <2> QED BY <2>1 DEF Local, Idle, Dep, None
<1>3. \A t \in Thread : th[t] = Idle
  BY DEF Init
<1>4. TypeOK
  <2>1. th \in [Thread -> Local]
    BY <1>2 DEF Init
  <2>2. /\ now \in Nat /\ counted \in [Status -> Nat] /\ answered \in [Status -> Nat]
        /\ health \in [ts : Nat, ok : [Dep -> BOOLEAN], at : [Dep -> Nat]]
        /\ exists \in Seq(Entry(missed))
    BY PipelineAssumption DEF Init
  <2> QED BY <1>1, <1>3, <2>1, <2>2 DEF Init, TypeOK, Answered
<1>5. \A t \in Thread : Timely(th[t], now) /\ Caused(th[t], missed)
  <2>1. now \in Nat
    BY PipelineAssumption DEF Init
  <2>2. Timely(Idle, now)
    BY <1>1, <2>1, PipelineAssumption DEF Timely
  <2>3. Caused(Idle, missed)
    BY <1>1 DEF Caused, None
  <2> QED BY <1>3, <2>2, <2>3
<1>6. CountedOnce
  <2>1. Viewing = {} /\ \A s : Counted(s) = {}
    BY <1>1, <1>3 DEF Viewing, Counted
  <2>2. \A s \in Status : counted[s] = 0 /\ answered[s] = 0
    BY DEF Init
  <2>3. viewed = 0 /\ observed = 0
    BY DEF Init
  <2>4. Cardinality({}) = 0
    BY FS_EmptySet
  <2> QED BY <2>1, <2>2, <2>3, <2>4, CountedOnceSets
<1>7. CacheTimely /\ MissedKept
  BY DEF Init, CacheTimely, MissedKept
<1> QED BY <1>4, <1>5, <1>6, <1>7 DEF IInv

\* The inductive invariant holds in every reachable state.
THEOREM Invariance == Spec => []IInv
<1>1. Init => IInv
  BY InitInv
<1>2. IInv /\ [Next]_vars => IInv'
  BY StepInv
<1> QED BY <1>1, <1>2, PTL DEF Spec

\* With metrics on, every response is counted exactly once under its status, those of the hooks
\* included, and the histogram counts the requests that reached their view
\* (metrics.py, app.py): for any number of threads and requests.
THEOREM ResponsesCountedOnce == Spec => []CountedOnce
<1>1. IInv => CountedOnce
  BY DEF IInv
<1> QED BY <1>1, Invariance, PTL

\* No answer of /health is older than its time to live, whatever slow probe
\* overwrites which (hello_controller.py).
THEOREM HealthStaysRecent == Spec => []HealthIsRecent
<1>1. IInv => HealthIsRecent
  BY DEF IInv, HealthIsRecent, Timely, At
<1> QED BY <1>1, Invariance, PTL

\* index.html never takes the place of an asset, or of a page that was there all
\* the time, whatever the cache of file existence holds (webui_controller.py).
THEOREM FallbackHasCause == Spec => []FallbackForCause
<1>1. IInv => FallbackForCause
  BY DEF IInv, FallbackForCause, Caused
<1> QED BY <1>1, Invariance, PTL
============================================================================
