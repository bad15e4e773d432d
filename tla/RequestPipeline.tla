-------------------------- MODULE RequestPipeline --------------------------
(***************************************************************************)
(* One HTTP application as create_app() assembles it: the threads of the   *)
(* WSGI server take requests one after the other, and each request goes    *)
(* through the before_request hooks in the order of their registration     *)
(* (body parsing, rate limit, authentication, metrics timer), its view,    *)
(* the error handlers, the after_request hooks in the reverse order and    *)
(* the teardown.  The views modelled step by step are the ones with state  *)
(* shared by the threads: /health with its cached probe results, and the   *)
(* static site with its least-recently-used cache of file existence.       *)
(*                                                                         *)
(* Abstracted: what a hook decides from stores other modules model (the    *)
(* counters of RateLimit, the tokens of AuthTokens) is any answer; a body  *)
(* is its kind; the text of a response is left out, its status kept.       *)
(* Bounds: MaxRequests requests in all, MaxTime seconds, MaxFlips changes  *)
(* of the world (a dependency, a file).                                    *)
(***************************************************************************)
EXTENDS Naturals, Sequences, SequencesExt, FiniteSets

CONSTANTS
    Thread,             \* the server's threads
    Request,            \* [route, body, options, token]: what may arrive
    Assets, Pages,      \* static paths with and without a static extension
    Index,              \* the asset index.html
    Deployed,           \* the files there when the process starts
    AuthEnabled,        \* AUTH_ENABLED, read when the application is made
    MetricsEnabled,     \* METRICS_ENABLED: else requests are neither timed nor counted
    Debug,              \* DEBUG: no caches
    TTL,                \* _HEALTH_CACHE_TTL
    CacheMax,           \* _PATH_CACHE_MAX
    MaxRequests, MaxTime, MaxFlips

ASSUME PipelineAssumption ==
    /\ IsFiniteSet(Thread)
    /\ MetricsEnabled \in BOOLEAN
    /\ TTL \in Nat \ {0} /\ CacheMax \in Nat
    /\ MaxRequests \in Nat /\ MaxTime \in Nat /\ MaxFlips \in Nat

VARIABLES
    th,          \* per thread: its position, request and locals
    taken,       \* requests received so far
    counted,     \* http_requests_total by status
    observed,    \* http_request_duration_seconds_count
    now, up,     \* the clock; which dependency answers its probe
    health,      \* _health_cache, with the times of its probes (ghost "at")
    files,       \* the files under webui/
    missed,      \* ghost: the paths that were absent at some time
    exists,      \* path_exist_cache, the least recently used entry first
    flips,       \* changes of the world so far
    answered,    \* ghost: responses sent, by status
    viewed       \* ghost: requests that reached their view

vars == <<th, taken, counted, observed, now, up, health, files, missed,
          exists, flips, answered, viewed>>
world == <<now, up, files, missed, flips>>
caches == <<health, exists>>
metrics == <<counted, observed, answered, viewed>>

None == "none"
Dep == {"db", "redis"}
Path == Assets \cup Pages
Status == {200, 308, 400, 401, 404, 422, 429, 500, 503}

\* The status the error handlers give to what a hook or a view raises.
StatusOf == [BadRequest |-> 400, TooManyRequests |-> 429, NotFound |-> 404,
             UnprocessableEntity |-> 422, KeyError |-> 400,
             TypeError |-> 500, StoreError |-> 500]

Idle == [pc |-> "idle", req |-> None,
         payload |-> None, timed |-> FALSE, status |-> 0, t0 |-> 0,
         ok |-> [d \in Dep |-> TRUE], at |-> [d \in Dep |-> 0],
         there |-> FALSE, sent |-> None]

Init ==
    /\ th = [t \in Thread |-> Idle]
    /\ taken = 0 /\ observed = 0 /\ viewed = 0 /\ flips = 0
    /\ counted = [s \in Status |-> 0] /\ answered = counted
    /\ now = TTL /\ up = [d \in Dep |-> TRUE]
    /\ health = [ts |-> 0, ok |-> [d \in Dep |-> TRUE], at |-> [d \in Dep |-> 0]]
    /\ files = Deployed
    /\ missed = Path \ files
    /\ exists = <<>>

----------------------------------------------------------------------------
\* The world around: time passes, a dependency fails or recovers, a file is
\* deployed or removed.

Tick ==
    /\ now < MaxTime /\ now' = now + 1
    /\ UNCHANGED <<th, taken, metrics, up, files, missed, flips, caches>>

Flip ==
    /\ flips < MaxFlips /\ flips' = flips + 1
    /\ \/ \E d \in Dep : up' = [up EXCEPT ![d] = ~@] /\ UNCHANGED <<files, missed>>
       \/ \E p \in Path : /\ files' = IF p \in files THEN files \ {p}
                                                     ELSE files \cup {p}
                          /\ missed' = missed \cup (Path \ files')
                          /\ UNCHANGED up
    /\ UNCHANGED <<th, taken, metrics, now, caches>>

----------------------------------------------------------------------------
\* Moving a thread along.

At(t, pc) == th[t].pc = pc
Goto(t, pc) == th' = [th EXCEPT ![t].pc = pc]

\* A response or an exception ends hooks and view: on to after_request.
Answer(t, s) == th' = [th EXCEPT ![t].pc = "after", ![t].status = s]
Raise(t, e) == Answer(t, StatusOf[e])

----------------------------------------------------------------------------
\* The before_request hooks: what each may answer to a request, Pass to let
\* it go on.  They touch nothing but the request, so that the chain is one
\* step, and what it answers is what the first hook that does not pass does.

Pass == 0

\* parse_request_json(): a body that is not JSON raises.
ParseBody(r) == IF r.body = "malformed" THEN {StatusOf["BadRequest"]} ELSE {Pass}

\* Any JSON value but an object becomes an empty object, except null.
Payload(r) == IF r.body = "null" THEN "null" ELSE "object"

RateExempt == {"health", "readyz", "metrics", "metrics/"}
RateLimitCheck(r) ==
    IF r.route \in RateExempt \/ r.options THEN {Pass}
                                           ELSE {Pass, StatusOf["TooManyRequests"]}

\* Only /api/ is protected, and of it not the probes; a preflight never is.  A token
\* is good, or unknown, or the look-up of its user in the store raises.
AuthInterceptor(r) ==
    IF r.route \notin {"api", "unrouted"} \/ r.options THEN {Pass}
    ELSE IF r.token THEN {Pass, 401, StatusOf["StoreError"]}
    ELSE {401}

\* In the order create_app() registers them; the authentication hook is there
\* only when the application was made with AUTH_ENABLED.
Hooks(r) == <<ParseBody(r), RateLimitCheck(r)>>
            \o (IF AuthEnabled THEN <<AuthInterceptor(r)>> ELSE <<>>)

Verdicts(r) ==
    {s \in Status : \E i \in DOMAIN Hooks(r) :
        s \in Hooks(r)[i] /\ \A j \in 1..(i - 1) : Pass \in Hooks(r)[j]}

\* A thread takes a request: a hook refuses it, or all let it pass, the last
\* of them metrics_start_timer(), which does nothing when metrics are off.
Receive(t, r) ==
    /\ At(t, "idle") /\ taken < MaxRequests
    /\ taken' = taken + 1
    /\ LET new == [Idle EXCEPT !.req = r, !.payload = Payload(r)]
       IN \/ \E s \in Verdicts(r) :
                /\ th' = [th EXCEPT ![t] = [new EXCEPT !.pc = "after", !.status = s]]
                /\ UNCHANGED viewed
          \/ /\ \A i \in DOMAIN Hooks(r) : Pass \in Hooks(r)[i]
             /\ th' = [th EXCEPT ![t] = [new EXCEPT !.pc = "view", !.timed = MetricsEnabled]]
             /\ viewed' = viewed + 1
    /\ UNCHANGED <<counted, observed, answered, world, caches>>

----------------------------------------------------------------------------
\* Views.  AtView: the request is at the view of one of these routes.

AtView(t, routes) ==
    At(t, "view") /\ ~th[t].req.options /\ th[t].req.route \in routes
Quiet == UNCHANGED <<taken, metrics, world, caches>>

\* A preflight is answered without a view.  A view of the API answers, or
\* raises: a missing field is a KeyError, a body that fails its schema is
\* Unprocessable, a payload that is null has no fields at all.
Options(t) == At(t, "view") /\ th[t].req.options /\ Answer(t, 200) /\ Quiet

ApiView(t) ==
    /\ AtView(t, {"api", "unrouted"})
    /\ \/ th[t].req.route = "unrouted" /\ Raise(t, "NotFound")
       \/ /\ th[t].req.route = "api"
          /\ \/ Answer(t, 200)
             \/ Raise(t, "UnprocessableEntity")
             \/ th[t].payload = "object" /\ Raise(t, "KeyError")
             \/ th[t].payload = "null" /\ Raise(t, "TypeError")
    /\ Quiet

MetricsView(t) ==
    AtView(t, {"metrics"}) /\ Answer(t, IF MetricsEnabled THEN 200 ELSE 503) /\ Quiet

\* /health: the clock is read first, then the cache under its lock, then the
\* probes run without it, and the result is stored under the earlier time.
ReadClock(t) ==
    /\ AtView(t, {"health"})
    /\ th' = [th EXCEPT ![t].t0 = now, ![t].pc = IF Debug THEN "db" ELSE "lookup"]
    /\ Quiet

HealthLookup(t) ==
    /\ At(t, "lookup")
    /\ IF th[t].t0 < TTL + health.ts
       THEN th' = [th EXCEPT ![t].pc = "after", ![t].status = 200,
                             ![t].ok = health.ok, ![t].at = health.at]
       ELSE Goto(t, "db")
    /\ Quiet

Probe(t, d, next) ==
    th' = [th EXCEPT ![t].ok[d] = up[d], ![t].at[d] = now, ![t].pc = next]
ProbeDb(t) == At(t, "db") /\ Probe(t, "db", "redis") /\ Quiet
ProbeRedis(t) ==
    /\ At(t, "redis") /\ Probe(t, "redis", IF Debug THEN "healthy" ELSE "store")
    /\ Quiet

StampAfterProbes(t) == now
Stamp(t) == th[t].t0
HealthStore(t) ==
    /\ At(t, "store")
    /\ health' = [ts |-> Stamp(t), ok |-> th[t].ok, at |-> th[t].at]
    /\ Goto(t, "healthy")
    /\ UNCHANGED <<taken, metrics, world, exists>>

HealthAnswer(t) == At(t, "healthy") /\ Answer(t, 200) /\ Quiet

\* /readyz probes live, the database first, and stops at the first failure.
ReadyDb(t) ==
    /\ AtView(t, {"readyz"})
    /\ IF up["db"] THEN Goto(t, "ready") ELSE Answer(t, 503)
    /\ Quiet
ReadyRedis(t) ==
    At(t, "ready") /\ Answer(t, IF up["redis"] THEN 200 ELSE 503) /\ Quiet

----------------------------------------------------------------------------
\* The static site.

\* Where the cache holds a path, if it does, and the cache without the path.
Cached(p) == {i \in DOMAIN exists : exists[i].path = p}
Uncached(p) ==
    IF Cached(p) = {} THEN exists ELSE RemoveAt(exists, CHOOSE i \in Cached(p) : TRUE)

\* send_from_directory(): raises NotFound when the file is not there (any more).
Send(t, p, kind) ==
    IF p \in files
    THEN th' = [th EXCEPT ![t].pc = "after", ![t].status = 200, ![t].sent = kind]
    ELSE Raise(t, "NotFound")

\* A trailing slash after a registered route redirects; otherwise the file
\* is looked up, and a missing file with a static extension is not found.
Redirect(t) == AtView(t, {"metrics/"}) /\ Answer(t, 308) /\ Quiet

MissingAsset(t) == th[t].req.route \in Assets \ files
Stat(t) ==
    /\ AtView(t, Path)
    /\ IF MissingAsset(t) THEN Raise(t, "NotFound")
       ELSE th' = [th EXCEPT ![t].there = th[t].req.route \in files,
                             ![t].pc = IF Debug THEN "send" ELSE "cache"]
    /\ Quiet

\* Mutant: "not in the cache" (None) is taken for "cached as missing" (FALSE).
OnMissAbsent(t) == th' = [th EXCEPT ![t].there = FALSE, ![t].pc = "send"]
OnMiss(t) == Goto(t, "cacheset")

\* _cache_get() under its lock: a hit becomes the most recent entry and its
\* value wins over the fresh stat.
CacheGet(t) ==
    LET p == th[t].req.route IN
    /\ At(t, "cache")
    /\ \/ \E i \in Cached(p) :
             /\ exists' = Append(Uncached(p), exists[i])
             /\ th' = [th EXCEPT ![t].there = exists[i].there, ![t].pc = "send"]
       \/ Cached(p) = {} /\ OnMiss(t) /\ UNCHANGED exists
    /\ UNCHANGED <<taken, metrics, world, health>>

\* _cache_set() under its lock, the oldest entries evicted above the limit.
Evict(s) == IF Len(s) > CacheMax THEN SubSeq(s, Len(s) - CacheMax + 1, Len(s)) ELSE s
CacheSet(t) ==
    LET p == th[t].req.route IN
    /\ At(t, "cacheset")
    /\ exists' = Evict(Append(Uncached(p), [path |-> p, there |-> th[t].there]))
    /\ Goto(t, "send")
    /\ UNCHANGED <<taken, metrics, world, health>>

\* The file itself, or index.html in its place.
SendFile(t) ==
    LET p == th[t].req.route IN
    /\ At(t, "send")
    /\ IF th[t].there THEN Send(t, p, "file") ELSE Send(t, Index, "index")
    /\ Quiet

----------------------------------------------------------------------------
\* Every response, whoever made it, passes the after_request hooks: it is
\* counted, and timed if the timer was started; neither when metrics are off.
CountTimed(t) ==
    IF th[t].timed THEN [counted EXCEPT ![th[t].status] = @ + 1] ELSE counted
Count(t) ==
    IF MetricsEnabled THEN [counted EXCEPT ![th[t].status] = @ + 1] ELSE counted
AfterRequest(t) ==
    /\ At(t, "after")
    /\ counted' = Count(t)
    /\ observed' = IF th[t].timed THEN observed + 1 ELSE observed
    /\ Goto(t, "teardown")
    /\ UNCHANGED <<taken, answered, viewed, world, caches>>

\* The response leaves, and the thread is free for another request.
Teardown(t) ==
    /\ At(t, "teardown")
    /\ answered' = [answered EXCEPT ![th[t].status] = @ + 1]
    /\ th' = [th EXCEPT ![t] = Idle]
    /\ UNCHANGED <<taken, counted, observed, viewed, world, caches>>

Serve(t) ==
    \/ Options(t) \/ ApiView(t) \/ MetricsView(t)
    \/ ReadClock(t) \/ HealthLookup(t) \/ ProbeDb(t) \/ ProbeRedis(t)
    \/ HealthStore(t) \/ HealthAnswer(t) \/ ReadyDb(t) \/ ReadyRedis(t)
    \/ Redirect(t) \/ Stat(t) \/ CacheGet(t) \/ CacheSet(t) \/ SendFile(t)
    \/ AfterRequest(t) \/ Teardown(t)

Next ==
    \/ Tick \/ Flip
    \/ \E t \in Thread : Serve(t) \/ \E r \in Request : Receive(t, r)

Spec == Init /\ [][Next]_vars

----------------------------------------------------------------------------
\* The metrics, when on, count every response exactly once, the refused ones (400,
\* 401, 429, 500) included, and the duration histogram exactly the requests that
\* reached their view.
CountedOnce ==
    LET Counted(s) == {t \in Thread : At(t, "teardown") /\ th[t].status = s}
        Viewing == {t \in Thread : th[t].timed /\ ~At(t, "teardown")}
    IN MetricsEnabled =>
       /\ \A s \in Status : counted[s] = answered[s] + Cardinality(Counted(s))
       /\ viewed = observed + Cardinality(Viewing)

\* An answer of /health, cached or probed, is never older than the time to
\* live of the cache, counted from when the request read the clock: a slow
\* probe that overwrites the result of a later one also takes its time back.
HealthIsRecent ==
    \A t \in Thread :
        At(t, "after") => \A d \in Dep : th[t].at[d] + TTL > th[t].t0

\* index.html takes the place of another path only for cause: the path has
\* no static extension, and it was really missing at some time (the cache never
\* claims what was not so once).
FallbackForCause ==
    \A t \in Thread :
        th[t].sent = "index" => th[t].req.route \in Pages \cap missed
============================================================================
