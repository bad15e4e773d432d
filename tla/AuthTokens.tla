----------------------------- MODULE AuthTokens -----------------------------
(***************************************************************************)
(* Access and refresh tokens: login, refresh_access_token, logout and      *)
(* get_user_by_token (flask_server/component/auth.py) over their two       *)
(* stores, a Redis that all processes share (module/redis_cache.py) and a  *)
(* memory cache in each process (module/simple_memory_cache.py) that takes *)
(* over when Redis does not answer.                                        *)
(*                                                                         *)
(* A request is the list of cache calls it still has to make.  A call to   *)
(* Redis and a call to the memory cache are steps of their own, between    *)
(* which other requests, expiry and failures come.                         *)
(*                                                                         *)
(* RedisCache's _unavailable_until and _need_recovery are one flag: the    *)
(* ping after a cooldown succeeds or fails like the command it precedes,   *)
(* and two threads that write the flags at once can only end a cooldown    *)
(* early, which CooldownEnds allows at any time.                           *)
(***************************************************************************)
EXTENDS Integers, Sequences, FiniteSets

CONSTANTS Process,      \* server processes that share one Redis
          Thread,       \* request threads
          Home,         \* the process of each thread
          UseRedis,     \* TRUE iff REDIS_URL is set
          MaxGrants,    \* bound: pairs of tokens issued
          MaxFaults,    \* bound: Redis commands without an answer
          MaxLogouts,   \* bound: calls of logout
          MaxLosses     \* bound: keys expired and processes restarted

ASSUME AuthAssumption ==
    /\ Home \in [Thread -> Process]
    /\ UseRedis \in BOOLEAN
    /\ MaxGrants \in Nat /\ MaxFaults \in Nat /\ MaxLogouts \in Nat /\ MaxLosses \in Nat

\* A grant is one answer of login or refresh: an access and a refresh token.
Grant   == 1..MaxGrants
Key     == {"access", "refresh"} \X Grant
Access(g)  == <<"access", g>>
Refresh(g) == <<"refresh", g>>
Refreshes  == {Refresh(g) : g \in Grant}

Call(c, k) == [cmd |-> c, key |-> k]
Calls      == [cmd : {"get", "set", "getdel", "delete"}, key : Key]

VARIABLES redis,      \* keys in Redis
          memory,     \* keys in the memory cache of each process
          cooling,    \* the process takes Redis for unavailable
          todo,       \* the cache calls each request still has to make
          at,         \* where its first call is: Redis, or memory after Redis
                      \* missed or did not answer
          making,     \* the grant the request will answer with, or 0
          issued,     \* grants so far
          withheld,   \* grants that no client received
          faults, logouts, losses,
          spent,      \* history: exchanges of each refresh token
          root,       \* history: the login a grant descends from
          doubled,    \* history: keys stored by a command whose answer was lost
          revoked,    \* history: deletions done: key, process, did Redis answer
          dropped     \* history: keys that were deleted, expired or lost

stores   == <<redis, memory>>
requests == <<todo, at, making, issued, withheld>>
bounds   == <<faults, logouts, losses>>
history  == <<spent, root, doubled, revoked, dropped>>
vars     == <<stores, cooling, requests, bounds, history>>

First == IF UseRedis THEN "redis" ELSE "silent"
Idle(t) == todo[t] = <<>>
\* A client knows the tokens of a grant once the request that makes it has answered.
Known == {g \in 1..issued \ withheld : \A t \in Thread : making[t] # g}
-----------------------------------------------------------------------------
Init ==
    /\ redis = {} /\ memory = [p \in Process |-> {}]
    /\ cooling = [p \in Process |-> FALSE]
    /\ todo = [t \in Thread |-> <<>>]
    /\ at = [t \in Thread |-> First]
    /\ making = [t \in Thread |-> 0]
    /\ issued = 0 /\ withheld = {} /\ faults = 0 /\ logouts = 0 /\ losses = 0
    /\ spent = [g \in Grant |-> 0] /\ root = [g \in Grant |-> g]
    /\ doubled = {} /\ revoked = {} /\ dropped = {}

\* _cache_set of both tokens; the view then looks the access token up.
IssueCalls(g) == <<Call("set", Access(g)), Call("set", Refresh(g)), Call("get", Access(g))>>

\* A new grant for thread t, of the family of grant r.
Issue(t, g, r) ==
    /\ g = issued + 1 /\ g \in Grant
    /\ issued' = g
    /\ making' = [making EXCEPT ![t] = g]
    /\ todo' = [todo EXCEPT ![t] = IssueCalls(g)]
    /\ root' = [root EXCEPT ![g] = r]

Begin(t, calls) ==
    /\ Idle(t)
    /\ todo' = [todo EXCEPT ![t] = calls]
    /\ UNCHANGED <<stores, cooling, at, making, issued, withheld, faults, losses, spent,
                   root, doubled, revoked>>

\* login, from the correct password on.  The lock and the failure counter, which it
\* reads and deletes before, are other keys and are not modelled here.
Login(t) ==
    /\ Idle(t)
    /\ Issue(t, issued + 1, issued + 1)
    /\ UNCHANGED <<stores, cooling, at, withheld, bounds, spent, doubled, revoked, dropped>>

Authenticate(t, g) ==
    /\ g \in Known
    /\ Begin(t, <<Call("get", Access(g))>>) /\ UNCHANGED <<logouts, dropped>>

Exchange(t, g) ==
    /\ g \in Known
    /\ Begin(t, <<Call("getdel", Refresh(g))>>) /\ UNCHANGED <<logouts, dropped>>

\* What a client may log out: either token, or both, in this order.
Credentials(g) == {<<Access(g)>>, <<Refresh(g)>>, <<Access(g), Refresh(g)>>}

Logout(t, g, tokens) ==
    /\ g \in Known /\ logouts < MaxLogouts /\ logouts' = logouts + 1
    /\ Begin(t, [i \in DOMAIN tokens |-> Call("delete", tokens[i])])
    /\ dropped' = dropped \cup {tokens[i] : i \in DOMAIN tokens}
-----------------------------------------------------------------------------
(* One cache call. *)

\* Mutant: GETDEL as a read and a later deletion that is never made.
EffectKept(c, store) ==
    IF c.cmd = "set" THEN store \cup {c.key}
    ELSE IF c.cmd = "delete" THEN store \ {c.key} ELSE store
\* What a command makes of a store.
Effect(c, store) ==
    IF c.cmd = "set" THEN store \cup {c.key}
    ELSE IF c.cmd = "get" THEN store ELSE store \ {c.key}

\* Mutant: a deletion that Redis answered leaves the memory cache as it is.
DeleteSettled(c, found) == c.cmd \in {"set", "delete"} \/ (c.cmd \in {"get", "getdel"} /\ found)
\* The helpers go to the memory cache after a miss, and after every deletion.
Settled(c, found) == c.cmd = "set" \/ (c.cmd \in {"get", "getdel"} /\ found)

\* The first call is done; the last one ends the request.
NextCall(t) ==
    /\ todo' = [todo EXCEPT ![t] = Tail(@)]
    /\ at' = [at EXCEPT ![t] = First]
    /\ making' = [making EXCEPT ![t] = IF Tail(todo[t]) = <<>> THEN 0 ELSE @]
    /\ UNCHANGED <<issued, spent, root>>

\* A refresh token was found: get_user_by_uid decides whether it buys a new grant.
Exchanged(t, g) ==
    \/ /\ Issue(t, issued + 1, root[g])
       /\ at' = [at EXCEPT ![t] = First]
       /\ spent' = [spent EXCEPT ![g] = @ + 1]
       /\ UNCHANGED dropped
    \/ /\ NextCall(t)
       /\ dropped' = dropped \cup {Refresh(g)}

\* A new grant is answered if the view finds its access token, and the user.
Finish(t, c, found) ==
    /\ revoked' = IF c.cmd = "delete"
                  THEN revoked \cup {<<c.key, Home[t], at[t] # "silent">>} ELSE revoked
    /\ \/ c.cmd = "get" /\ withheld' = withheld \cup ({making[t]} \ {0})
       \/ (c.cmd = "get" => found) /\ UNCHANGED withheld
    /\ IF c.cmd = "getdel" /\ found
       THEN Exchanged(t, c.key[2])
       ELSE NextCall(t) /\ UNCHANGED dropped

ToMemory(t, why) ==
    /\ at' = [at EXCEPT ![t] = why]
    /\ UNCHANGED <<todo, making, issued, withheld, spent, root>>

RedisAnswers(t) ==
    /\ ~Idle(t) /\ at[t] = "redis" /\ ~cooling[Home[t]]
    /\ LET c == Head(todo[t])
           found == c.key \in redis
       IN  /\ redis' = Effect(c, redis)
           /\ IF Settled(c, found)
              THEN Finish(t, c, found)
              ELSE ToMemory(t, "miss") /\ UNCHANGED <<revoked, dropped>>
    /\ UNCHANGED <<memory, cooling, bounds, doubled>>

\* _check is False: RedisCache answers with a default value at once.
RedisSkipped(t) ==
    /\ ~Idle(t) /\ at[t] = "redis" /\ cooling[Home[t]]
    /\ ToMemory(t, "silent")
    /\ UNCHANGED <<stores, cooling, bounds, doubled, revoked, dropped>>

\* The command fails, or takes effect and its answer is lost; a cooldown begins.
RedisFails(t, effect) ==
    /\ ~Idle(t) /\ at[t] = "redis" /\ ~cooling[Home[t]]
    /\ faults < MaxFaults /\ faults' = faults + 1
    /\ cooling' = [cooling EXCEPT ![Home[t]] = TRUE]
    /\ LET c == Head(todo[t])
       IN  /\ redis' = IF effect THEN Effect(c, redis) ELSE redis
           /\ doubled' = IF effect /\ c.cmd = "set" THEN doubled \cup {c.key} ELSE doubled
           /\ dropped' = IF effect /\ c.cmd = "getdel" THEN dropped \cup {c.key} ELSE dropped
    /\ ToMemory(t, "silent")
    /\ UNCHANGED <<memory, logouts, losses, revoked>>

\* Mutant: without an answer of Redis the call is over.
NoFallback(t) ==
    /\ ~Idle(t) /\ at[t] \in {"miss", "silent"}
    /\ Finish(t, Head(todo[t]), FALSE)
    /\ UNCHANGED <<stores, cooling, bounds, doubled>>
MemoryAnswers(t) ==
    /\ ~Idle(t) /\ at[t] \in {"miss", "silent"}
    /\ LET c == Head(todo[t])
           own == memory[Home[t]]
       IN  /\ memory' = [memory EXCEPT ![Home[t]] = Effect(c, own)]
           /\ Finish(t, c, c.key \in own)
    /\ UNCHANGED <<redis, cooling, bounds, doubled>>
-----------------------------------------------------------------------------
(* Time and failures. *)

\* Any other command on Redis fails in the process: a ping, or a lock or counter.
CooldownBegins(p) ==
    /\ UseRedis /\ ~cooling[p] /\ faults < MaxFaults /\ faults' = faults + 1
    /\ cooling' = [cooling EXCEPT ![p] = TRUE]
    /\ UNCHANGED <<stores, requests, logouts, losses, history>>

CooldownEnds(p) ==
    /\ cooling[p]
    /\ cooling' = [cooling EXCEPT ![p] = FALSE]
    /\ UNCHANGED <<stores, requests, bounds, history>>

\* The TTL of a key runs out, in Redis or in one memory cache.
ExpireInRedis(k) ==
    /\ k \in redis /\ losses < MaxLosses /\ losses' = losses + 1
    /\ redis' = redis \ {k}
    /\ dropped' = dropped \cup {k}
    /\ UNCHANGED <<memory, cooling, requests, faults, logouts, spent, root, doubled, revoked>>

ExpireInMemory(p, k) ==
    /\ k \in memory[p] /\ losses < MaxLosses /\ losses' = losses + 1
    /\ memory' = [memory EXCEPT ![p] = @ \ {k}]
    /\ dropped' = dropped \cup {k}
    /\ UNCHANGED <<redis, cooling, requests, faults, logouts, spent, root, doubled, revoked>>

\* A process dies with its requests and its memory cache, and is started again.
Restart(p) ==
    /\ losses < MaxLosses /\ losses' = losses + 1
    /\ memory' = [memory EXCEPT ![p] = {}]
    /\ cooling' = [cooling EXCEPT ![p] = FALSE]
    /\ LET killed == {t \in Thread : Home[t] = p}
       IN  /\ todo' = [t \in Thread |-> IF t \in killed THEN <<>> ELSE todo[t]]
           /\ at' = [t \in Thread |-> IF t \in killed THEN First ELSE at[t]]
           /\ making' = [t \in Thread |-> IF t \in killed THEN 0 ELSE making[t]]
           /\ withheld' = withheld \cup ({making[t] : t \in killed} \ {0})
    /\ dropped' = dropped \cup memory[p]
    /\ UNCHANGED <<redis, issued, faults, logouts, spent, root, doubled, revoked>>

Request(t) ==
    \/ Login(t)
    \/ \E g \in Grant : Authenticate(t, g) \/ Exchange(t, g)
    \/ \E g \in Grant : \E tokens \in Credentials(g) : Logout(t, g, tokens)
    \/ RedisAnswers(t) \/ RedisSkipped(t) \/ MemoryAnswers(t)
    \/ \E effect \in BOOLEAN : RedisFails(t, effect)

Environment ==
    \/ \E p \in Process : CooldownBegins(p) \/ CooldownEnds(p) \/ Restart(p)
    \/ \E k \in Key : ExpireInRedis(k)
    \/ \E p \in Process, k \in Key : ExpireInMemory(p, k)

Next == Environment \/ \E t \in Thread : Request(t)

Spec == Init /\ [][Next]_vars
-----------------------------------------------------------------------------
TypeOK ==
    /\ redis \subseteq Key /\ memory \in [Process -> SUBSET Key]
    /\ cooling \in [Process -> BOOLEAN]
    /\ todo \in [Thread -> Seq(Calls)] /\ \A t \in Thread : Len(todo[t]) <= 3
    /\ at \in [Thread -> {"redis", "miss", "silent"}]
    /\ making \in [Thread -> {0} \cup Grant]
    /\ issued \in {0} \cup Grant /\ withheld \subseteq Grant
    /\ faults \in 0..MaxFaults /\ logouts \in 0..MaxLogouts /\ losses \in 0..MaxLosses
    /\ spent \in [Grant -> Nat] /\ root \in [Grant -> Grant]
    /\ doubled \subseteq Key /\ dropped \subseteq Key
    /\ revoked \subseteq Key \X Process \X BOOLEAN

Stored(k) == k \in redis \/ \E p \in Process : k \in memory[p]
\* The places of a key: its copies, and the calls that will still store it.
Places(k) == {"memory"} \X {p \in Process : k \in memory[p]} \cup {"redis"} \X ({k} \cap redis)
             \cup {"todo"} \X {t \in Thread : \E i \in DOMAIN todo[t] : todo[t][i] = Call("set", k)}

(* A refresh token is exchanged once ("rotation, single use"), whatever    *)
(* processes and threads present it at the same time; a second exchange    *)
(* needs a copy in Redis and one in a memory cache, which only a lost      *)
(* answer to the command that stored it leaves.                            *)
RefreshSpentOnce ==
    \A g \in Grant : spent[g] + Cardinality(Places(Refresh(g)))
                      <= 1 + Cardinality({Refresh(g)} \cap doubled)

(* Rotation never forks a session: of all the refresh tokens that descend  *)
(* from one login, in any store or on their way there, one is alive, plus  *)
(* one for each lost answer.                                               *)
RotationNeverForks ==
    \A r \in 1..issued :
        LET family == {g \in 1..issued : root[g] = r}
            alive  == UNION {{g} \X Places(Refresh(g)) : g \in family}
        IN  Cardinality(alive)
              <= 1 + Cardinality({g \in family : Refresh(g) \in doubled})

(* After logout the process that served it has no copy of the token, and   *)
(* Redis has none if it answered: no later request of any process that     *)
(* asks Redis finds the token, not even after an outage.                   *)
LogoutRevokes ==
    \A r \in revoked : r[1] \notin memory[r[2]] /\ (r[3] => r[1] \notin redis)

(* A token that a client holds is in some store until it is exchanged,     *)
(* deleted or expired, its answer is lost or its process restarts: the     *)
(* fallback of reading and of writing go together.                         *)
HeldTokensKept ==
    \A g \in Known :
        /\ Access(g) \in dropped \/ Stored(Access(g))
        /\ Refresh(g) \in dropped \/ spent[g] > 0 \/ Stored(Refresh(g))
=============================================================================
