----------------------------- MODULE RateLimit -----------------------------
(***************************************************************************)
(* The rate limit of flask_server/component/rate_limit.py for one client:  *)
(* the address it is counted under (CommonUtil.get_real_ip), and the two   *)
(* counters of a request, in Redis or, while Redis is unreachable, in the  *)
(* memory of the process.                                                  *)
(*                                                                         *)
(* An increment is atomic in its store and sets the key's time to live     *)
(* again.  A hop of X-Forwarded-For is a trusted proxy, no address at all, *)
(* the client, or an address the client made up.                           *)
(***************************************************************************)
EXTENDS Integers, Sequences, FiniteSets

CONSTANTS Requests,    \* requests of one client, numbered as they arrive
          Path,        \* the paths it asks for
          Forged,      \* what the client may put into X-Forwarded-For
          Limit,       \* RATE_LIMIT_PER_MINUTE
          Window,      \* RATE_LIMIT_WINDOW, in ticks
          MaxTime,     \* bound: ticks
          MaxFlips     \* bound: times Redis goes away or comes back

Proxy == "proxy"         \* a trusted proxy; the last one is the peer of the server
Client == "client"       \* the address the last proxy saw
Garbage == "garbage"     \* no IP literal
Hop == {Proxy, Client, "forged", Garbage}

\* What the constants are; ASSUMEd where the module is instantiated.
RateAssumption ==
    /\ Requests \in Nat /\ Forged \subseteq Seq(Hop)
    /\ Limit \in Nat \ {0} /\ Window \in Nat \ {0}
    /\ MaxTime \in Nat /\ MaxFlips \in Nat

Request == 1..Requests
Address == {Proxy, Client, "forged", "unknown"}
All == "all"             \* stands for the path in the key of the address alone
Key == Address \X (Path \cup {All})
Store == {"redis", "memory"}

VARIABLES now,       \* time
          up,        \* Redis answers
          flips,     \* how often that has changed
          count,     \* the counters of each store
          expiry,    \* when they expire
          stage,     \* where each request is
          address,   \* the address it comes from
          decided,   \* history: when it was admitted or refused
          counted    \* history: the store that counted its address

vars == <<now, up, flips, count, expiry, stage, address, decided, counted>>

Never == -1

Init ==
    /\ now = 0 /\ up = TRUE /\ flips = 0
    /\ count = [s \in Store |-> [k \in Key |-> 0]]
    /\ expiry = [s \in Store |-> [k \in Key |-> Never]]
    /\ stage = [r \in Request |-> "new"]
    /\ address = [r \in Request |-> "unknown"]
    /\ decided = [r \in Request |-> Never]
    /\ counted = [r \in Request |-> "none"]
-----------------------------------------------------------------------------
(* get_real_ip. *)

IsTrusted(a) == a = Proxy
IsLiteral(a) == a # Garbage

\* Mutant: the leftmost entry, which the client chooses.
RealIpLeftmost(remote, hops) ==
    IF ~IsTrusted(remote) \/ hops = <<>> THEN remote
    ELSE IF IsLiteral(hops[1]) THEN hops[1] ELSE remote

\* The rightmost address that is no trusted proxy, when the peer is one.
RealIp(remote, hops) ==
    LET outside == {i \in 1..Len(hops) : ~IsTrusted(hops[i]) /\ IsLiteral(hops[i])}
        nearest == CHOOSE i \in outside : \A j \in outside : j <= i
    IN IF ~IsTrusted(remote) \/ hops = <<>> THEN remote
       ELSE IF outside # {} THEN hops[nearest]
       ELSE IF \A i \in 1..Len(hops) : IsTrusted(hops[i]) THEN hops[1]
       ELSE remote

\* The client comes directly, or over one proxy or two that append what they saw.
Headers(forged) == {<<Client, forged>>, <<Proxy, forged \o <<Client>>>>,
                    <<Proxy, forged \o <<Client, Proxy>>>>}
-----------------------------------------------------------------------------
(* rate_limit_check. *)

Proceed(r, s) == stage' = [stage EXCEPT ![r] = s]

Arrives(r) == stage[r] = "new" /\ \A q \in 1..(r - 1) : stage[q] # "new"

\* A probe, a scrape of the metrics or a preflight is exempt.
Pass(r) ==
    /\ Arrives(r)
    /\ Proceed(r, "exempt")
    /\ UNCHANGED <<now, up, flips, count, expiry, address, decided, counted>>

Expired(s, k) == now > expiry[s][k]

\* _incr: RedisCache.incr, or else SimpleMemoryCache.incr.
Used == IF up THEN "redis" ELSE "memory"
NextCount(k) == IF Expired(Used, k) THEN 1 ELSE count[Used][k] + 1
Incr(k) ==
    /\ count' = [count EXCEPT ![Used][k] = NextCount(k)]
    /\ expiry' = [expiry EXCEPT ![Used][k] = now + Window]

OverLimit(n) == n > Limit

\* The path is counted first; it alone may refuse the request.
CountPath(r) ==
    \E p \in Path, forged \in Forged : \E h \in Headers(forged) :
      LET a == RealIp(h[1], h[2])
          over == OverLimit(NextCount(<<a, p>>))
      IN /\ Arrives(r)
         /\ address' = [address EXCEPT ![r] = a]
         /\ Incr(<<a, p>>)
         /\ Proceed(r, IF over THEN "refused" ELSE "address")
         /\ decided' = IF over THEN [decided EXCEPT ![r] = now] ELSE decided
         /\ UNCHANGED <<now, up, flips, counted>>

CountAddress(r) == LET k == <<address[r], All>> IN
    /\ stage[r] = "address"
    /\ Incr(k)
    /\ Proceed(r, IF OverLimit(NextCount(k)) THEN "refused" ELSE "admitted")
    /\ decided' = [decided EXCEPT ![r] = now]
    /\ counted' = [counted EXCEPT ![r] = Used]
    /\ UNCHANGED <<now, up, flips, address>>
-----------------------------------------------------------------------------
Tick ==
    /\ now < MaxTime
    /\ now' = now + 1
    /\ UNCHANGED <<up, flips, count, expiry, stage, address, decided, counted>>

\* RedisCache notices, and its cooldown ends.
Flip ==
    /\ flips < MaxFlips
    /\ flips' = flips + 1 /\ up' = ~up
    /\ UNCHANGED <<now, count, expiry, stage, address, decided, counted>>

Next ==
    \/ Tick \/ Flip
    \/ \E r \in Request : Pass(r) \/ CountPath(r) \/ CountAddress(r)

Spec == Init /\ [][Next]_vars
-----------------------------------------------------------------------------
(* Properties. *)

TypeOK ==
    /\ now \in 0..MaxTime /\ up \in BOOLEAN /\ flips \in 0..MaxFlips
    /\ count \in [Store -> [Key -> Nat]]
    /\ expiry \in [Store -> [Key -> Int]]
    /\ stage \in [Request -> {"new", "address", "admitted", "refused", "exempt"}]
    /\ address \in [Request -> Address]
    /\ decided \in [Request -> Int]
    /\ counted \in [Request -> Store \cup {"none"}]

During(i, r) == i <= decided[r] /\ decided[r] < i + Window
AdmittedBy(s) == {r \in Request : stage[r] = "admitted" /\ counted[r] = s}

\* In no window of a minute, wherever it begins, does a store admit a client more often
\* than the limit, whatever it asks for and writes into X-Forwarded-For; and while Redis
\* has always been there, the memory admits nobody (rate_limit.py:55-95, common.py:167-181).
AdmittedBounded ==
    /\ \A s \in Store : \A i \in 0..now :
         Cardinality({r \in AdmittedBy(s) : During(i, r)}) <= Limit
    /\ flips = 0 => AdmittedBy("memory") = {}
=============================================================================
