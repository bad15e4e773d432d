--------------------------- MODULE AuthTokensProofs ---------------------------
(* Theorems about AuthTokens, for all processes, threads and bounds. *)
EXTENDS AuthTokens, FiniteSetTheorems, TLAPS

LEMMA GrantNat == Grant \subseteq Nat \ {0} /\ 0 \notin Grant
BY AuthAssumption DEF Grant

LEMMA KeyTypes == \A g \in Grant : Access(g) \in Key /\ Refresh(g) \in Key
BY DEF Access, Refresh, Key

LEMMA KeyParts == \A k \in Key : k[1] \in {"access", "refresh"} /\ k[2] \in Grant
BY DEF Key

LEMMA CallParts == \A c \in Calls : c.key \in Key /\ c.key[2] \in Grant
BY KeyParts DEF Calls

LEMMA IssueCallsType ==
    ASSUME NEW g \in Grant
    PROVE  /\ IssueCalls(g) \in Seq(Calls) /\ Len(IssueCalls(g)) <= 3
           /\ \A i \in DOMAIN IssueCalls(g) :
                 IssueCalls(g)[i].cmd \in {"set", "get"} /\ IssueCalls(g)[i].key[2] = g
BY KeyTypes DEF IssueCalls, Call, Calls, Access, Refresh

\* The first call of a busy thread, and what is left after it.
LEMMA HeadType ==
    ASSUME TypeOK, NEW t \in Thread, ~Idle(t)
    PROVE  /\ Head(todo[t]) \in Calls /\ Head(todo[t]) = todo[t][1] /\ 1 \in DOMAIN todo[t]
           /\ Tail(todo[t]) \in Seq(Calls) /\ Len(Tail(todo[t])) <= 3
           /\ \A i \in DOMAIN Tail(todo[t]) :
                 i + 1 \in DOMAIN todo[t] /\ Tail(todo[t])[i] = todo[t][i + 1]
<1>1. todo[t] \in Seq(Calls) /\ todo[t] # <<>> /\ Len(todo[t]) <= 3
  BY DEF TypeOK, Idle
<1> QED BY <1>1

LEMMA EffectType ==
    ASSUME NEW c \in Calls, NEW store \in SUBSET Key
    PROVE  Effect(c, store) \in SUBSET Key
BY CallParts DEF Effect

-----------------------------------------------------------------------------
(* Type correctness. *)

LEMMA TodoType ==
    ASSUME TypeOK, NEW t \in Thread, NEW calls \in Seq(Calls), Len(calls) <= 3,
           todo' = [todo EXCEPT ![t] = calls]
    PROVE  todo' \in [Thread -> Seq(Calls)] /\ \A u \in Thread : Len(todo'[u]) <= 3
<1>1. todo' \in [Thread -> Seq(Calls)]
  BY DEF TypeOK
<1>2. ASSUME NEW u \in Thread PROVE Len(todo'[u]) <= 3
  BY DEF TypeOK
<1> QED BY <1>1, <1>2

LEMMA IssueType ==
    ASSUME TypeOK, NEW t \in Thread, NEW r \in Grant, Issue(t, issued + 1, r)
    PROVE  /\ issued + 1 \in Grant /\ issued' \in Grant
           /\ making' \in [Thread -> {0} \cup Grant] /\ root' \in [Grant -> Grant]
           /\ todo' \in [Thread -> Seq(Calls)] /\ \A u \in Thread : Len(todo'[u]) <= 3
<1>1. issued + 1 \in Grant
  BY DEF Issue
<1>2. IssueCalls(issued + 1) \in Seq(Calls) /\ Len(IssueCalls(issued + 1)) <= 3
  BY <1>1, IssueCallsType
<1>3. todo' \in [Thread -> Seq(Calls)] /\ \A u \in Thread : Len(todo'[u]) <= 3
  <2>1. todo' = [todo EXCEPT ![t] = IssueCalls(issued + 1)]
    BY DEF Issue
  <2> QED BY <1>2, <2>1, TodoType
<1>4. making' \in [Thread -> {0} \cup Grant] /\ root' \in [Grant -> Grant] /\ issued' \in Grant
  BY <1>1 DEF Issue, TypeOK
<1> QED BY <1>1, <1>3, <1>4

LEMMA NextCallType ==
    ASSUME TypeOK, NEW t \in Thread, ~Idle(t), NextCall(t)
    PROVE  /\ at' \in [Thread -> {"redis", "miss", "silent"}]
           /\ making' \in [Thread -> {0} \cup Grant]
           /\ todo' \in [Thread -> Seq(Calls)] /\ \A u \in Thread : Len(todo'[u]) <= 3
BY HeadType DEF NextCall, TypeOK, First

LEMMA FinishType ==
    ASSUME TypeOK, NEW t \in Thread, ~Idle(t), NEW found, Finish(t, Head(todo[t]), found),
           redis' \subseteq Key, memory' \in [Process -> SUBSET Key],
           UNCHANGED <<cooling, bounds, doubled>>
    PROVE  TypeOK'
<1> DEFINE c == Head(todo[t])
<1>1. c \in Calls /\ c.key \in Key /\ c.key[2] \in Grant
  BY HeadType, CallParts
<1>2. revoked' \subseteq Key \X Process \X BOOLEAN
  <2>1. Home[t] \in Process /\ (at[t] # "silent") \in BOOLEAN
    BY AuthAssumption
  <2>2. <<c.key, Home[t], at[t] # "silent">> \in Key \X Process \X BOOLEAN
    BY <1>1, <2>1
  <2>3. revoked \subseteq Key \X Process \X BOOLEAN
    BY DEF TypeOK
  <2> QED BY <2>2, <2>3 DEF Finish
<1>3. withheld' \subseteq Grant
  BY DEF Finish, TypeOK
<1>4. CASE Exchanged(t, c.key[2]) /\ c.cmd = "getdel" /\ found
  <2>1. CASE Exchanged(t, c.key[2])!1
    <3>1. root[c.key[2]] \in Grant
      BY <1>1 DEF TypeOK
    <3>2. at' \in [Thread -> {"redis", "miss", "silent"}] /\ spent' \in [Grant -> Nat]
      <4>1. at' = [at EXCEPT ![t] = First] /\ First \in {"redis", "miss", "silent"}
        BY <2>1 DEF First
      <4>2. at' \in [Thread -> {"redis", "miss", "silent"}]
        BY <4>1 DEF TypeOK
      <4>3. spent' = [spent EXCEPT ![c.key[2]] = spent[c.key[2]] + 1]
        BY <2>1
      <4>4. spent \in [Grant -> Nat] /\ spent[c.key[2]] + 1 \in Nat
        BY <1>1 DEF TypeOK
      <4>5. spent' \in [Grant -> Nat]
        BY <4>3, <4>4, Zenon
      <4> QED BY <4>2, <4>5
    <3>3. Issue(t, issued + 1, root[c.key[2]]) /\ UNCHANGED dropped
      BY <2>1
    <3>4. /\ issued' \in Grant
          /\ making' \in [Thread -> {0} \cup Grant] /\ root' \in [Grant -> Grant]
          /\ todo' \in [Thread -> Seq(Calls)] /\ \A u \in Thread : Len(todo'[u]) <= 3
      BY <3>1, <3>3, IssueType
    <3> QED
      BY <1>2, <1>3, <3>2, <3>3, <3>4 DEF TypeOK, bounds
  <2>2. CASE Exchanged(t, c.key[2])!2
    <3>1. dropped' \subseteq Key
      BY <1>1, <2>2, KeyTypes DEF TypeOK
    <3> QED
      BY <1>2, <1>3, <2>2, <3>1, NextCallType DEF NextCall, TypeOK, bounds
  <2> QED BY <1>4, <2>1, <2>2 DEF Exchanged
<1>5. CASE NextCall(t) /\ UNCHANGED dropped
  BY <1>2, <1>3, <1>5, NextCallType DEF NextCall, TypeOK, bounds
<1> QED BY <1>4, <1>5 DEF Finish

LEMMA BeginType ==
    ASSUME TypeOK, NEW t \in Thread, NEW calls \in Seq(Calls), Len(calls) <= 3, Begin(t, calls),
           logouts' \in 0..MaxLogouts, dropped' \subseteq Key
    PROVE  TypeOK'
BY DEF Begin, TypeOK, stores

LEMMA RequestType == ASSUME TypeOK, NEW t \in Thread, Request(t) PROVE TypeOK'
<1>1. CASE Login(t)
  <2>1. issued + 1 \in Grant
    BY <1>1 DEF Login, Issue
  <2> QED BY <1>1, <2>1, IssueType DEF Login, TypeOK, stores, bounds
<1>2. ASSUME NEW g \in Grant, Authenticate(t, g) \/ Exchange(t, g) PROVE TypeOK'
  <2>1. Call("get", Access(g)) \in Calls /\ Call("getdel", Refresh(g)) \in Calls
    BY KeyTypes DEF Call, Calls
  <2>2. logouts' \in 0..MaxLogouts /\ dropped' \subseteq Key
    BY <1>2 DEF Authenticate, Exchange, TypeOK
  <2>3. PICK c \in Calls : Begin(t, <<c>>)
    BY <1>2, <2>1 DEF Authenticate, Exchange
  <2>4. <<c>> \in Seq(Calls) /\ Len(<<c>>) <= 3
    OBVIOUS
  <2> QED BY <2>2, <2>3, <2>4, BeginType
<1>3. ASSUME NEW g \in Grant, NEW tokens \in Credentials(g), Logout(t, g, tokens) PROVE TypeOK'
  <2> DEFINE calls == [i \in DOMAIN tokens |-> Call("delete", tokens[i])]
  <2>1. tokens \in Seq(Key) /\ Len(tokens) \in 1..2
    <3>1. Access(g) \in Key /\ Refresh(g) \in Key
      BY KeyTypes
    <3>2. CASE tokens = <<Access(g)>>
      BY <3>1, <3>2
    <3>3. CASE tokens = <<Refresh(g)>>
      BY <3>1, <3>3
    <3>4. CASE tokens = <<Access(g), Refresh(g)>>
      BY <3>1, <3>4
    <3> QED BY <3>2, <3>3, <3>4 DEF Credentials
  <2>2. calls \in Seq(Calls) /\ Len(calls) <= 3
    <3>1. DOMAIN tokens = 1..Len(tokens) /\ \A i \in 1..Len(tokens) : tokens[i] \in Key
      BY <2>1
    <3>2. \A i \in 1..Len(tokens) : Call("delete", tokens[i]) \in Calls
      BY <3>1 DEF Call, Calls
    <3>3. calls \in [1..Len(tokens) -> Calls]
      BY <3>1, <3>2
    <3> HIDE DEF calls
    <3>4. calls \in Seq(Calls)
      BY <2>1, <3>3
    <3>5. Len(calls) = Len(tokens)
      BY <2>1, <3>3, <3>4
    <3> QED BY <2>1, <3>4, <3>5
  <2>3. logouts' \in 0..MaxLogouts /\ dropped' \subseteq Key
    BY <1>3, <2>1, AuthAssumption DEF Logout, TypeOK
  <2> QED BY <1>3, <2>2, <2>3, BeginType DEF Logout
<1>4. CASE RedisAnswers(t)
  <2>1. redis' \subseteq Key /\ memory' \in [Process -> SUBSET Key]
    BY <1>4, HeadType, EffectType DEF RedisAnswers, TypeOK
  <2>2. CASE Finish(t, Head(todo[t]), Head(todo[t]).key \in redis)
    BY <1>4, <2>1, <2>2, FinishType DEF RedisAnswers
  <2>3. CASE ToMemory(t, "miss") /\ UNCHANGED <<revoked, dropped>>
    BY <1>4, <2>1, <2>3 DEF RedisAnswers, ToMemory, TypeOK, bounds
  <2> QED BY <1>4, <2>2, <2>3 DEF RedisAnswers
<1>5. CASE RedisSkipped(t)
  BY <1>5 DEF RedisSkipped, ToMemory, TypeOK, stores, bounds
<1>6. ASSUME NEW effect \in BOOLEAN, RedisFails(t, effect) PROVE TypeOK'
  <2>1. Head(todo[t]) \in Calls /\ Head(todo[t]).key \in Key
    BY <1>6, HeadType, CallParts DEF RedisFails
  <2>2. redis' \subseteq Key /\ doubled' \subseteq Key /\ dropped' \subseteq Key
    BY <1>6, <2>1, EffectType DEF RedisFails, TypeOK
  <2>3. faults' \in 0..MaxFaults /\ cooling' \in [Process -> BOOLEAN]
    BY <1>6, AuthAssumption DEF RedisFails, TypeOK
  <2> QED BY <1>6, <2>2, <2>3 DEF RedisFails, ToMemory, TypeOK
<1>7. CASE MemoryAnswers(t)
  <2>1. memory[Home[t]] \in SUBSET Key /\ Head(todo[t]) \in Calls
    BY <1>7, HeadType, AuthAssumption DEF MemoryAnswers, TypeOK
  <2>2. redis' \subseteq Key /\ memory' \in [Process -> SUBSET Key]
    BY <1>7, <2>1, EffectType DEF MemoryAnswers, TypeOK
  <2> QED BY <1>7, <2>2, FinishType DEF MemoryAnswers
<1> QED BY <1>1, <1>2, <1>3, <1>4, <1>5, <1>6, <1>7 DEF Request

LEMMA EnvironmentType == ASSUME TypeOK, Environment PROVE TypeOK'
<1>1. ASSUME NEW p \in Process, CooldownBegins(p) PROVE TypeOK'
  <2>1. cooling' \in [Process -> BOOLEAN] /\ faults' \in 0..MaxFaults
    BY <1>1, AuthAssumption DEF CooldownBegins, TypeOK
  <2>2. UNCHANGED <<stores, requests, logouts, losses, history>>
    BY <1>1 DEF CooldownBegins
  <2> QED BY <2>1, <2>2 DEF TypeOK, stores, requests, history
<1>2. ASSUME NEW p \in Process, CooldownEnds(p) PROVE TypeOK'
  BY <1>2 DEF CooldownEnds, TypeOK, stores, requests, bounds, history
<1>3. ASSUME NEW p \in Process, Restart(p) PROVE TypeOK'
  <2>1. losses' \in 0..MaxLosses /\ withheld' \subseteq Grant /\ dropped' \subseteq Key
    BY <1>3, AuthAssumption DEF Restart, TypeOK
  <2>2. todo' \in [Thread -> Seq(Calls)] /\ \A u \in Thread : Len(todo'[u]) <= 3
    BY <1>3 DEF Restart, TypeOK
  <2>3. /\ at' \in [Thread -> {"redis", "miss", "silent"}]
        /\ making' \in [Thread -> {0} \cup Grant]
        /\ memory' \in [Process -> SUBSET Key] /\ cooling' \in [Process -> BOOLEAN]
    BY <1>3 DEF Restart, TypeOK, First
  <2> QED BY <1>3, <2>1, <2>2, <2>3 DEF Restart, TypeOK
<1>4. ASSUME NEW k \in Key, ExpireInRedis(k) PROVE TypeOK'
  BY <1>4, AuthAssumption DEF ExpireInRedis, TypeOK, requests
<1>5. ASSUME NEW p \in Process, NEW k \in Key, ExpireInMemory(p, k) PROVE TypeOK'
  BY <1>5, AuthAssumption DEF ExpireInMemory, TypeOK, requests
<1> QED BY <1>1, <1>2, <1>3, <1>4, <1>5 DEF Environment

(* Every variable keeps its type: in particular a thread never holds a     *)
(* call on a key that is no token, nor more calls than one view makes.     *)
THEOREM TypeCorrect == Spec => []TypeOK
<1>1. Init => TypeOK
  BY AuthAssumption, GrantNat DEF Init, TypeOK, First
<1>2. TypeOK /\ [Next]_vars => TypeOK'
  <2> SUFFICES ASSUME TypeOK, [Next]_vars PROVE TypeOK'
    OBVIOUS
  <2>1. CASE UNCHANGED vars
    BY <2>1 DEF vars, stores, requests, bounds, history, TypeOK
  <2> QED BY <2>1, RequestType, EnvironmentType DEF Next
<1> QED BY <1>1, <1>2, PTL DEF Spec

-----------------------------------------------------------------------------
(* Logout is final.  LogoutRevokes is not inductive: a call that is on its *)
(* way could bring a deleted key back.  None can: keys are stored only by  *)
(* the request that makes their grant (StoresOwnGrant), and deleted only   *)
(* when a client knows them (DeletesKnown, RevokedKnown), and no grant is  *)
(* both.  Between the answer of Redis and the end of the deletion the key  *)
(* stays out of Redis (GoneFromRedis); RestAtFirst: a request starts there.*)

StoresOwnGrant ==
    \A t \in Thread : \A i \in DOMAIN todo[t] :
        todo[t][i].cmd = "set" => todo[t][i].key[2] = making[t]

DeletesKnown ==
    \A t \in Thread : \A i \in DOMAIN todo[t] :
        todo[t][i].cmd = "delete" => todo[t][i].key[2] \in Known

GoneFromRedis ==
    \A t \in Thread : ~Idle(t) /\ Head(todo[t]).cmd = "delete" /\ at[t] = "miss"
                       => Head(todo[t]).key \notin redis

RevokedKnown == \A r \in revoked : r[1][2] \in Known

RestAtFirst == \A t \in Thread : Idle(t) => at[t] = First

CallsInv == StoresOwnGrant /\ DeletesKnown /\ RestAtFirst
RevInv   == CallsInv /\ GoneFromRedis /\ RevokedKnown /\ LogoutRevokes

\* What all steps have in common: grants are made in order, and stay known.
Orderly ==
    /\ issued' \in {issued, issued + 1}
    /\ \A t \in Thread : making'[t] \in {making[t], 0, issued + 1}
    /\ withheld' \subseteq withheld \cup {making[t] : t \in Thread}

LEMMA NextOrderly == ASSUME TypeOK, Next PROVE Orderly
<1>1. ASSUME NEW t \in Thread, NextCall(t),
             withheld' \subseteq withheld \cup {making[u] : u \in Thread} PROVE Orderly
  BY <1>1 DEF NextCall, Orderly, TypeOK
<1>2. ASSUME NEW t \in Thread, NEW r, Issue(t, issued + 1, r),
             withheld' \subseteq withheld \cup {making[u] : u \in Thread} PROVE Orderly
  BY <1>2 DEF Issue, Orderly, TypeOK
<1>3. ASSUME NEW t \in Thread, NEW c, NEW found, Finish(t, c, found) PROVE Orderly
  <2>1. withheld' \subseteq withheld \cup {making[u] : u \in Thread}
    BY <1>3 DEF Finish
  <2> QED BY <1>1, <1>2, <1>3, <2>1 DEF Finish, Exchanged
<1>4. ASSUME UNCHANGED <<making, issued, withheld>> PROVE Orderly
  BY <1>4 DEF Orderly
<1>5. ASSUME NEW t \in Thread, Request(t) PROVE Orderly
  <2>1. CASE Login(t)
    BY <1>2, <2>1 DEF Login
  <2>2. CASE \/ \E g \in Grant : Authenticate(t, g) \/ Exchange(t, g)
             \/ \E g \in Grant : \E tokens \in Credentials(g) : Logout(t, g, tokens)
    BY <1>4, <2>2 DEF Authenticate, Exchange, Logout, Begin
  <2>3. CASE RedisAnswers(t)
    BY <1>3, <1>4, <2>3 DEF RedisAnswers, ToMemory
  <2>4. CASE RedisSkipped(t) \/ \E effect \in BOOLEAN : RedisFails(t, effect)
    BY <1>4, <2>4 DEF RedisSkipped, RedisFails, ToMemory
  <2>5. CASE MemoryAnswers(t)
    BY <1>3, <2>5 DEF MemoryAnswers
  <2> QED BY <1>5, <2>1, <2>2, <2>3, <2>4, <2>5 DEF Request
<1>6. ASSUME Environment PROVE Orderly
  <2>1. ASSUME NEW p \in Process, Restart(p) PROVE Orderly
    BY <2>1 DEF Restart, Orderly, TypeOK
  <2> QED
    BY <1>4, <1>6, <2>1 DEF Environment, CooldownBegins, CooldownEnds, ExpireInRedis, ExpireInMemory,
            requests
<1> QED BY <1>5, <1>6 DEF Next

LEMMA KnownStays == ASSUME TypeOK, Orderly PROVE Known \subseteq Known'
<1> SUFFICES ASSUME NEW g \in Known PROVE g \in Known'
  OBVIOUS
<1>1. g \in Nat \ {0} /\ g <= issued /\ g \notin withheld /\ issued \in Nat
  BY GrantNat DEF Known, TypeOK
<1>2. \A t \in Thread : making[t] # g
  BY DEF Known
<1>3. g \in 1..issued' /\ g \notin withheld'
  BY <1>1, <1>2 DEF Orderly
<1>4. \A t \in Thread : making'[t] # g
  BY <1>1, <1>2 DEF Orderly
<1> QED BY <1>3, <1>4 DEF Known

\* A store gains a key only from a request that makes its grant.
LEMMA EffectUnknown ==
    ASSUME TypeOK, StoresOwnGrant, NEW t \in Thread, ~Idle(t), NEW store,
           NEW k \in Effect(Head(todo[t]), store) \ store
    PROVE  k[2] \notin Known
<1>1. Head(todo[t]) = todo[t][1] /\ 1 \in DOMAIN todo[t]
  BY HeadType
<1>2. Head(todo[t]).cmd = "set" /\ k = Head(todo[t]).key
  BY DEF Effect
<1>3. k[2] = making[t]
  BY <1>1, <1>2 DEF StoresOwnGrant
<1> QED BY <1>3 DEF Known

\* No store gains a key of a known grant.
NoKnownStored ==
    /\ \A k \in redis' \ redis : k[2] \notin Known
    /\ \A p \in Process : \A k \in memory'[p] \ memory[p] : k[2] \notin Known

LEMMA RevokedStayOut ==
    ASSUME TypeOK, RevInv, Orderly, NoKnownStored, UNCHANGED revoked
    PROVE  RevokedKnown' /\ LogoutRevokes'
<1>1. RevokedKnown'
  BY KnownStays DEF RevInv, RevokedKnown
<1>2. ASSUME NEW r \in revoked PROVE r[1] \notin memory'[r[2]] /\ (r[3] => r[1] \notin redis')
  <2>1. r[2] \in Process /\ r[1][2] \in Known
    BY DEF TypeOK, RevInv, RevokedKnown
  <2> QED BY <2>1 DEF RevInv, LogoutRevokes, NoKnownStored
<1> QED BY <1>1, <1>2 DEF LogoutRevokes

-----------------------------------------------------------------------------
(* The pending calls. *)

LEMMA NextCallCalls ==
    ASSUME TypeOK, CallsInv, Orderly, NEW t \in Thread, ~Idle(t), NextCall(t)
    PROVE  CallsInv'
<1>1. \A i \in DOMAIN Tail(todo[t]) :
          i + 1 \in DOMAIN todo[t] /\ Tail(todo[t])[i] = todo[t][i + 1]
  BY HeadType
<1>2. /\ todo' = [todo EXCEPT ![t] = Tail(todo[t])] /\ at' = [at EXCEPT ![t] = First]
      /\ making' = [making EXCEPT ![t] = IF Tail(todo[t]) = <<>> THEN 0 ELSE making[t]]
  BY DEF NextCall
<1>3. StoresOwnGrant'
  <2> SUFFICES ASSUME NEW u \in Thread, NEW i \in DOMAIN todo'[u], todo'[u][i].cmd = "set"
               PROVE  todo'[u][i].key[2] = making'[u]
    BY DEF StoresOwnGrant
  <2>1. CASE u = t
    <3>1. todo'[t] = Tail(todo[t]) /\ Tail(todo[t]) # <<>>
      BY <1>2, <2>1 DEF TypeOK
    <3>2. making'[t] = making[t]
      BY <1>2, <3>1 DEF TypeOK
    <3>3. i + 1 \in DOMAIN todo[t] /\ todo'[t][i] = todo[t][i + 1]
      BY <1>1, <2>1, <3>1
    <3> QED BY <2>1, <3>2, <3>3 DEF CallsInv, StoresOwnGrant
  <2>2. CASE u # t
    BY <1>2, <2>2 DEF CallsInv, StoresOwnGrant, TypeOK
  <2> QED BY <2>1, <2>2
<1>4. DeletesKnown'
  <2> SUFFICES ASSUME NEW u \in Thread, NEW i \in DOMAIN todo'[u], todo'[u][i].cmd = "delete"
               PROVE  todo'[u][i].key[2] \in Known'
    BY DEF DeletesKnown
  <2>1. \E j \in DOMAIN todo[u] : todo'[u][i] = todo[u][j]
    BY <1>1, <1>2 DEF TypeOK
  <2> QED BY <2>1, KnownStays DEF CallsInv, DeletesKnown
<1>5. RestAtFirst'
  BY <1>2 DEF CallsInv, RestAtFirst, Idle, First, TypeOK
<1> QED BY <1>3, <1>4, <1>5 DEF CallsInv

LEMMA IssueCallsKept ==
    ASSUME TypeOK, CallsInv, Orderly, NEW t \in Thread, NEW r, Issue(t, issued + 1, r),
           \A u \in Thread \ {t} : at'[u] = at[u]
    PROVE  CallsInv'
<1>1. issued + 1 \in Grant
  BY DEF Issue
<1>2. /\ \A i \in DOMAIN IssueCalls(issued + 1) :
             /\ IssueCalls(issued + 1)[i].cmd \in {"set", "get"}
             /\ IssueCalls(issued + 1)[i].key[2] = issued + 1
      /\ IssueCalls(issued + 1) # <<>>
  BY <1>1, IssueCallsType DEF IssueCalls
<1>3. /\ todo'[t] = IssueCalls(issued + 1) /\ making'[t] = issued + 1
      /\ \A u \in Thread \ {t} : todo'[u] = todo[u] /\ making'[u] = making[u]
  BY DEF Issue, TypeOK
<1>4. StoresOwnGrant'
  BY <1>2, <1>3 DEF CallsInv, StoresOwnGrant
<1>5. DeletesKnown'
  BY <1>2, <1>3, KnownStays DEF CallsInv, DeletesKnown
<1>6. RestAtFirst'
  BY <1>2, <1>3 DEF CallsInv, RestAtFirst, Idle, First
<1> QED BY <1>4, <1>5, <1>6 DEF CallsInv

LEMMA BeginCalls ==
    ASSUME TypeOK, CallsInv, Orderly, NEW t \in Thread, NEW calls, Begin(t, calls),
           \A i \in DOMAIN calls :
               calls[i].cmd # "set" /\ (calls[i].cmd = "delete" => calls[i].key[2] \in Known)
    PROVE  CallsInv'
<1>1. /\ todo'[t] = calls /\ \A u \in Thread \ {t} : todo'[u] = todo[u]
      /\ making' = making /\ at' = at /\ Idle(t)
  BY DEF Begin, TypeOK
<1>2. StoresOwnGrant'
  BY <1>1 DEF CallsInv, StoresOwnGrant
<1>3. DeletesKnown'
  BY <1>1, KnownStays DEF CallsInv, DeletesKnown
<1>4. RestAtFirst'
  BY <1>1 DEF CallsInv, RestAtFirst, Idle, First
<1> QED BY <1>2, <1>3, <1>4 DEF CallsInv

LEMMA ToMemoryCalls ==
    ASSUME TypeOK, CallsInv, Orderly, NEW t \in Thread, ~Idle(t), NEW why, ToMemory(t, why)
    PROVE  CallsInv'
<1>1. todo' = todo /\ making' = making /\ \A u \in Thread \ {t} : at'[u] = at[u]
  BY DEF ToMemory, TypeOK
<1>2. DeletesKnown'
  BY <1>1, KnownStays DEF CallsInv, DeletesKnown
<1>3. StoresOwnGrant' /\ RestAtFirst'
  BY <1>1 DEF CallsInv, StoresOwnGrant, RestAtFirst, Idle, First
<1> QED BY <1>2, <1>3 DEF CallsInv

LEMMA FinishCalls ==
    ASSUME TypeOK, CallsInv, Orderly, NEW t \in Thread, ~Idle(t), NEW c, NEW found,
           Finish(t, c, found)
    PROVE  CallsInv' /\ at' = [at EXCEPT ![t] = First]
<1>1. CASE NextCall(t)
  BY <1>1, NextCallCalls DEF NextCall
<1>2. CASE Exchanged(t, c.key[2])!1
  <2>1. \A u \in Thread \ {t} : at'[u] = at[u]
    BY <1>2 DEF TypeOK
  <2> QED BY <1>2, <2>1, IssueCallsKept
<1> QED BY <1>1, <1>2 DEF Finish, Exchanged

-----------------------------------------------------------------------------
(* The stores. *)

\* Whoever comes back from Redis with a deletion to repeat has removed the key there.
Removed ==
    \A t \in Thread : at'[t] = "miss" =>
        /\ todo'[t] = todo[t]
        /\ at[t] = "miss" \/ (Head(todo[t]).cmd = "delete" => Head(todo[t]).key \notin redis')

LEMMA GoneStays == ASSUME TypeOK, RevInv, NoKnownStored, Removed PROVE GoneFromRedis'
<1> SUFFICES ASSUME NEW t \in Thread, ~Idle(t)', Head(todo'[t]).cmd = "delete", at'[t] = "miss"
             PROVE  Head(todo'[t]).key \notin redis'
  BY DEF GoneFromRedis
<1>1. todo'[t] = todo[t] /\ ~Idle(t)
  BY DEF Removed, Idle
<1>2. CASE at[t] = "miss"
  <2>1. Head(todo[t]).key \notin redis
    BY <1>1, <1>2 DEF RevInv, GoneFromRedis
  <2>2. Head(todo[t]).key[2] \in Known
    BY <1>1, HeadType DEF RevInv, CallsInv, DeletesKnown
  <2> QED BY <1>1, <2>1, <2>2 DEF NoKnownStored
<1>3. CASE Head(todo[t]).cmd = "delete" => Head(todo[t]).key \notin redis'
  BY <1>1, <1>3
<1> QED BY <1>2, <1>3 DEF Removed

\* A step that deletes nothing for good.
LEMMA RevStep ==
    ASSUME TypeOK, RevInv, Orderly, CallsInv', NoKnownStored, Removed, UNCHANGED revoked
    PROVE  RevInv'
BY GoneStays, RevokedStayOut DEF RevInv

LEMMA AtRest == ASSUME TypeOK, RevInv, NEW t \in Thread, at' = [at EXCEPT ![t] = First],
                       \A u \in Thread \ {t} : todo'[u] = todo[u]
                PROVE  Removed
BY DEF Removed, First, TypeOK

LEMMA AnswerOfRedis == ASSUME TypeOK, RevInv, Orderly, NEW t \in Thread, RedisAnswers(t)
                       PROVE  RevInv'
<1> DEFINE c == Head(todo[t])
<1>1. NoKnownStored
  <2>1. redis' = Effect(c, redis) /\ memory' = memory /\ ~Idle(t)
    BY DEF RedisAnswers
  <2> QED BY <2>1, EffectUnknown DEF NoKnownStored, RevInv, CallsInv
<1>2. CASE Settled(c, c.key \in redis)
  <2>1. Finish(t, c, c.key \in redis) /\ c.cmd # "delete" /\ ~Idle(t)
    BY <1>2 DEF RedisAnswers, Settled
  <2>2. revoked' = revoked
    BY <2>1 DEF Finish
  <2>3. CallsInv' /\ at' = [at EXCEPT ![t] = First]
    BY <2>1, FinishCalls DEF RevInv
  <2>4. \A u \in Thread \ {t} : todo'[u] = todo[u]
    BY <2>1 DEF Finish, Exchanged, NextCall, Issue, TypeOK
  <2> QED BY <1>1, <2>2, <2>3, <2>4, AtRest, RevStep
<1>3. CASE ~Settled(c, c.key \in redis)
  <2>1. ToMemory(t, "miss") /\ ~Idle(t) /\ revoked' = revoked /\ redis' = Effect(c, redis)
    BY <1>3 DEF RedisAnswers
  <2>2. CallsInv'
    BY <2>1, ToMemoryCalls DEF RevInv
  <2>3. c.cmd = "delete" => c.key \notin redis'
    BY <2>1 DEF Effect
  <2>4. todo' = todo /\ \A u \in Thread \ {t} : at'[u] = at[u]
    BY <2>1 DEF ToMemory, TypeOK
  <2>5. Removed
    BY <2>3, <2>4 DEF Removed
  <2> QED BY <1>1, <2>1, <2>2, <2>5, RevStep
<1> QED BY <1>2, <1>3

\* The one step that ends a deletion.
LEMMA AnswerOfMemory == ASSUME TypeOK, RevInv, Orderly, NEW t \in Thread, MemoryAnswers(t)
                        PROVE  RevInv'
<1> DEFINE c == Head(todo[t])
           own == memory[Home[t]]
<1>1. /\ ~Idle(t) /\ Finish(t, c, c.key \in own) /\ redis' = redis
      /\ memory' = [memory EXCEPT ![Home[t]] = Effect(c, own)] /\ at[t] \in {"miss", "silent"}
  BY DEF MemoryAnswers
<1>2. Home[t] \in Process
  BY AuthAssumption
<1>3. NoKnownStored
  <2>1. \A k \in Effect(c, own) \ own : k[2] \notin Known
    BY <1>1, EffectUnknown DEF RevInv, CallsInv
  <2> QED BY <1>1, <1>2, <2>1 DEF NoKnownStored, TypeOK
<1>4. CallsInv' /\ at' = [at EXCEPT ![t] = First]
  BY <1>1, FinishCalls DEF RevInv
<1>5. GoneFromRedis'
  <2>1. \A u \in Thread \ {t} : todo'[u] = todo[u]
    BY <1>1 DEF Finish, Exchanged, NextCall, Issue, TypeOK
  <2> QED BY <1>3, <1>4, <2>1, AtRest, GoneStays
<1>6. CASE c.cmd # "delete"
  <2>1. revoked' = revoked
    BY <1>1, <1>6 DEF Finish
  <2> QED BY <1>3, <1>4, <1>5, <2>1, RevokedStayOut DEF RevInv
<1>7. CASE c.cmd = "delete"
  <2> DEFINE new == <<c.key, Home[t], at[t] # "silent">>
  <2>1. revoked' = revoked \cup {new}
    BY <1>1, <1>7 DEF Finish
  <2>2. c.key[2] \in Known
    BY <1>1, <1>7, HeadType DEF RevInv, CallsInv, DeletesKnown
  <2>3. RevokedKnown'
    BY <2>1, <2>2, KnownStays DEF RevInv, RevokedKnown
  <2>4. c.key \notin memory'[Home[t]]
    BY <1>1, <1>2, <1>7 DEF Effect, TypeOK
  <2>5. at[t] # "silent" => c.key \notin redis'
    BY <1>1, <1>7 DEF RevInv, GoneFromRedis
  <2>6. ASSUME NEW r \in revoked PROVE r[1] \notin memory'[r[2]] /\ (r[3] => r[1] \notin redis')
    <3>1. r[2] \in Process /\ r[1][2] \in Known
      BY DEF TypeOK, RevInv, RevokedKnown
    <3> QED BY <1>3, <3>1 DEF RevInv, LogoutRevokes, NoKnownStored
  <2>7. LogoutRevokes'
    <3> SUFFICES ASSUME NEW r \in revoked'
                 PROVE  r[1] \notin memory'[r[2]] /\ (r[3] => r[1] \notin redis')
      BY DEF LogoutRevokes
    <3>1. CASE r \in revoked
      BY <2>6, <3>1
    <3>2. CASE r = new
      <4>1. r[1] = c.key /\ r[2] = Home[t] /\ r[3] = (at[t] # "silent")
        BY <3>2
      <4> QED BY <2>4, <2>5, <4>1
    <3> QED BY <2>1, <3>1, <3>2
  <2> QED BY <1>4, <1>5, <2>3, <2>7 DEF RevInv
<1> QED BY <1>6, <1>7

LEMMA BeginRev ==
    ASSUME TypeOK, RevInv, Orderly, NEW t \in Thread, NEW calls, Begin(t, calls),
           \A i \in DOMAIN calls :
               calls[i].cmd # "set" /\ (calls[i].cmd = "delete" => calls[i].key[2] \in Known)
    PROVE  RevInv'
<1>1. UNCHANGED <<redis, memory, at, revoked>> /\ Idle(t)
  BY DEF Begin, stores
<1>2. CallsInv'
  BY BeginCalls DEF RevInv
<1>3. NoKnownStored
  BY <1>1 DEF NoKnownStored
<1>4. Removed
  <2>1. at[t] # "miss"
    BY <1>1 DEF RevInv, CallsInv, RestAtFirst, First
  <2>2. \A u \in Thread \ {t} : todo'[u] = todo[u]
    BY DEF Begin, TypeOK
  <2> QED BY <1>1, <2>1, <2>2 DEF Removed
<1> QED BY <1>1, <1>2, <1>3, <1>4, RevStep

LEMMA RequestRev == ASSUME TypeOK, RevInv, Orderly, NEW t \in Thread, Request(t) PROVE RevInv'
<1>1. CASE Login(t)
  <2>1. UNCHANGED <<redis, memory, at, revoked>> /\ Idle(t) /\ Issue(t, issued + 1, issued + 1)
    BY <1>1 DEF Login, stores
  <2>2. CallsInv'
    BY <2>1, IssueCallsKept DEF RevInv
  <2>3. at[t] # "miss" /\ \A u \in Thread \ {t} : todo'[u] = todo[u]
    BY <2>1 DEF RevInv, CallsInv, RestAtFirst, First, Issue, TypeOK
  <2>4. NoKnownStored /\ Removed
    BY <2>1, <2>3 DEF NoKnownStored, Removed
  <2> QED BY <2>1, <2>2, <2>4, RevStep
<1>2. ASSUME NEW g \in Grant, Authenticate(t, g) \/ Exchange(t, g) PROVE RevInv'
  <2>1. PICK cmd \in {"get", "getdel"}, k \in Key : Begin(t, <<Call(cmd, k)>>)
    BY <1>2, KeyTypes DEF Authenticate, Exchange
  <2>2. \A i \in DOMAIN <<Call(cmd, k)>> : <<Call(cmd, k)>>[i].cmd \notin {"set", "delete"}
    BY DEF Call
  <2> QED BY <2>1, <2>2, BeginRev
<1>3. ASSUME NEW g \in Grant, NEW tokens \in Credentials(g), Logout(t, g, tokens) PROVE RevInv'
  <2> DEFINE calls == [i \in DOMAIN tokens |-> Call("delete", tokens[i])]
  <2>1. g \in Known /\ Begin(t, calls)
    BY <1>3 DEF Logout
  <2>2. \A i \in DOMAIN tokens : tokens[i][2] = g
    BY DEF Credentials, Access, Refresh
  <2>3. \A i \in DOMAIN calls : calls[i].cmd # "set" /\ calls[i].key[2] \in Known
    BY <2>1, <2>2 DEF Call
  <2> QED BY <2>1, <2>3, BeginRev
<1>4. CASE RedisAnswers(t)
  BY <1>4, AnswerOfRedis
<1>5. CASE RedisSkipped(t)
  <2>1. ~Idle(t) /\ ToMemory(t, "silent") /\ UNCHANGED <<redis, memory, revoked>>
    BY <1>5 DEF RedisSkipped, stores
  <2>2. CallsInv'
    BY <2>1, ToMemoryCalls DEF RevInv
  <2>3. NoKnownStored /\ Removed
    BY <2>1 DEF NoKnownStored, Removed, ToMemory, TypeOK
  <2> QED BY <2>1, <2>2, <2>3, RevStep
<1>6. ASSUME NEW effect \in BOOLEAN, RedisFails(t, effect) PROVE RevInv'
  <2>1. /\ ~Idle(t) /\ ToMemory(t, "silent") /\ UNCHANGED <<memory, revoked>>
        /\ redis' \in {redis, Effect(Head(todo[t]), redis)}
    BY <1>6 DEF RedisFails
  <2>2. CallsInv'
    BY <2>1, ToMemoryCalls DEF RevInv
  <2>3. NoKnownStored
    BY <2>1, EffectUnknown DEF NoKnownStored, RevInv, CallsInv
  <2>4. Removed
    BY <2>1 DEF Removed, ToMemory, TypeOK
  <2> QED BY <2>1, <2>2, <2>3, <2>4, RevStep
<1>7. CASE MemoryAnswers(t)
  BY <1>7, AnswerOfMemory
<1> QED BY <1>1, <1>2, <1>3, <1>4, <1>5, <1>6, <1>7 DEF Request

LEMMA EnvironmentRev == ASSUME TypeOK, RevInv, Orderly, Environment PROVE RevInv'
<1>1. UNCHANGED revoked /\ NoKnownStored
  BY DEF Environment, CooldownBegins, CooldownEnds, Restart, ExpireInRedis, ExpireInMemory,
         NoKnownStored, stores, history, TypeOK
<1>2. ASSUME NEW p \in Process, Restart(p) PROVE CallsInv' /\ Removed
  <2>1. ASSUME NEW t \in Thread
        PROVE  \/ todo'[t] = <<>> /\ at'[t] = First
               \/ todo'[t] = todo[t] /\ at'[t] = at[t] /\ making'[t] = making[t]
    <3>1. CASE Home[t] = p
      BY <1>2, <3>1 DEF Restart
    <3>2. CASE Home[t] # p
      BY <1>2, <3>2 DEF Restart
    <3> QED BY <3>1, <3>2
  <2>2. RestAtFirst' /\ StoresOwnGrant'
    BY <2>1 DEF RevInv, CallsInv, RestAtFirst, StoresOwnGrant, Idle, First
  <2>3. DeletesKnown'
    BY <2>1, KnownStays DEF RevInv, CallsInv, DeletesKnown
  <2>4. Removed
    BY <2>1 DEF Removed, First
  <2> QED BY <2>2, <2>3, <2>4 DEF CallsInv
<1>3. ASSUME UNCHANGED <<todo, at, making>> PROVE CallsInv' /\ Removed
  <2>1. DeletesKnown'
    BY <1>3, KnownStays DEF RevInv, CallsInv, DeletesKnown
  <2> QED BY <1>3, <2>1 DEF RevInv, CallsInv, RestAtFirst, StoresOwnGrant, Idle, First, Removed
<1>4. CallsInv' /\ Removed
  BY <1>2, <1>3 DEF Environment, CooldownBegins, CooldownEnds, ExpireInRedis, ExpireInMemory,
            requests
<1> QED BY <1>1, <1>4, RevStep

LEMMA RevAlways == Spec => []RevInv
<1>1. Init => RevInv
  BY DEF Init, RevInv, CallsInv, StoresOwnGrant, DeletesKnown, RestAtFirst, GoneFromRedis,
         RevokedKnown, LogoutRevokes, Idle
<1>2. TypeOK /\ RevInv /\ [Next]_vars => RevInv'
  <2> SUFFICES ASSUME TypeOK, RevInv, [Next]_vars PROVE RevInv'
    OBVIOUS
  <2>1. CASE Next
    BY <2>1, NextOrderly, RequestRev, EnvironmentRev DEF Next
  <2>2. CASE UNCHANGED vars
    BY <2>2 DEF vars, stores, requests, history, RevInv, CallsInv, StoresOwnGrant, DeletesKnown,
                RestAtFirst, GoneFromRedis, RevokedKnown, LogoutRevokes, Idle, First, Known
  <2> QED BY <2>1, <2>2
<1> QED BY <1>1, <1>2, TypeCorrect, PTL DEF Spec

(* A token that logout deleted never comes back: not to the process that   *)
(* served the logout, and not to Redis if Redis answered the deletion,     *)
(* whatever requests, outages and restarts follow.                         *)
THEOREM LogoutIsFinal == Spec => []LogoutRevokes
<1>1. RevInv => LogoutRevokes
  BY DEF RevInv
<1> QED BY <1>1, RevAlways, PTL

-----------------------------------------------------------------------------
(* Rotation.  What RefreshSpentOnce and RotationNeverForks need to know of *)
(* the pending calls: a grant has one maker (MakersApart, MakingIssued),   *)
(* who stores each key once (StoresOnce); a key whose answer was lost is   *)
(* stored once more only by the call that repeats it (RepeatsLast); only a *)
(* refresh token is exchanged (ExchangesRefresh); DoubledIssued.           *)

MakersApart == \A t, u \in Thread : making[t] = making[u] /\ making[t] # 0 => t = u

MakingIssued == \A t \in Thread : making[t] <= issued

StoresOnce ==
    \A t \in Thread : \A i, j \in DOMAIN todo[t] :
        todo[t][i].cmd = "set" /\ todo[t][i] = todo[t][j] => i = j

RepeatsLast ==
    \A t \in Thread : \A i \in DOMAIN todo[t] :
        todo[t][i].cmd = "set" /\ todo[t][i].key \in doubled => i = 1 /\ at[t] = "silent"

ExchangesRefresh ==
    \A t \in Thread : \A i \in DOMAIN todo[t] :
        todo[t][i].cmd = "getdel" => todo[t][i].key[1] = "refresh"

DoubledIssued == \A k \in doubled : k[2] <= issued

Makers  == MakersApart /\ MakingIssued
Pending == StoresOnce /\ RepeatsLast /\ ExchangesRefresh
PendInv == Makers /\ Pending /\ DoubledIssued

\* A thread's calls after a step: as before, none, or what follows the first one.
Onward(t) ==
    \/ todo'[t] = todo[t] /\ at'[t] = at[t]
    \/ todo'[t] = <<>>
    \/ ~Idle(t) /\ todo'[t] = Tail(todo[t])

LEMMA MakersKept ==
    ASSUME TypeOK, Makers, issued' = issued, \A t \in Thread : making'[t] \in {making[t], 0}
    PROVE  Makers'
<1>1. MakersApart'
  BY DEF Makers, MakersApart
<1>2. MakingIssued'
  <2>1. 0 <= issued
    BY GrantNat DEF TypeOK
  <2> QED BY <2>1 DEF Makers, MakingIssued
<1> QED BY <1>1, <1>2 DEF Makers

LEMMA OnwardPending ==
    ASSUME TypeOK, Pending, doubled' = doubled, NEW t \in Thread, Onward(t)
    PROVE  /\ \A i, j \in DOMAIN todo'[t] :
                 todo'[t][i].cmd = "set" /\ todo'[t][i] = todo'[t][j] => i = j
           /\ \A i \in DOMAIN todo'[t] :
                 /\ todo'[t][i].cmd = "set" /\ todo'[t][i].key \in doubled'
                       => i = 1 /\ at'[t] = "silent"
                 /\ todo'[t][i].cmd = "getdel" => todo'[t][i].key[1] = "refresh"
<1>1. CASE todo'[t] = todo[t] /\ at'[t] = at[t]
  BY <1>1 DEF Pending, StoresOnce, RepeatsLast, ExchangesRefresh
<1>2. CASE todo'[t] = <<>>
  BY <1>2
<1>3. CASE ~Idle(t) /\ todo'[t] = Tail(todo[t])
  <2>1. \A i \in DOMAIN todo'[t] :
            i \in Nat \ {0} /\ i + 1 \in DOMAIN todo[t] /\ todo'[t][i] = todo[t][i + 1]
    BY <1>3, HeadType
  <2>2. ASSUME NEW i \in DOMAIN todo'[t], NEW j \in DOMAIN todo'[t],
               todo'[t][i].cmd = "set", todo'[t][i] = todo'[t][j]
        PROVE  i = j
    <3>1. i + 1 = j + 1
      BY <2>1, <2>2 DEF Pending, StoresOnce
    <3> QED BY <2>1, <3>1
  <2>3. ASSUME NEW i \in DOMAIN todo'[t]
        PROVE  /\ ~(todo'[t][i].cmd = "set" /\ todo'[t][i].key \in doubled')
               /\ todo'[t][i].cmd = "getdel" => todo'[t][i].key[1] = "refresh"
    <3>1. i + 1 # 1
      BY <2>1
    <3> QED BY <2>1, <3>1 DEF Pending, RepeatsLast, ExchangesRefresh
  <2> QED BY <2>2, <2>3
<1> QED BY <1>1, <1>2, <1>3 DEF Onward

LEMMA OnwardKept ==
    ASSUME TypeOK, Pending, doubled' = doubled, \A t \in Thread : Onward(t)
    PROVE  Pending'
<1>1. StoresOnce'
  BY OnwardPending DEF StoresOnce
<1>2. RepeatsLast' /\ ExchangesRefresh'
  BY OnwardPending DEF RepeatsLast, ExchangesRefresh
<1> QED BY <1>1, <1>2 DEF Pending

LEMMA NextCallPend ==
    ASSUME TypeOK, PendInv, NEW t \in Thread, ~Idle(t), NextCall(t), doubled' = doubled
    PROVE  PendInv'
<1>1. \A u \in Thread : Onward(u)
  BY DEF NextCall, Onward, TypeOK
<1>2. Makers'
  BY MakersKept DEF NextCall, PendInv, TypeOK
<1> QED BY <1>1, <1>2, OnwardKept DEF PendInv, DoubledIssued, NextCall

LEMMA IssuePend ==
    ASSUME TypeOK, PendInv, NEW t \in Thread, NEW r, Issue(t, issued + 1, r), doubled' = doubled,
           \A u \in Thread \ {t} : at'[u] = at[u]
    PROVE  PendInv'
<1> DEFINE g == issued + 1
<1>1. g \in Grant /\ issued \in Nat
  BY GrantNat DEF Issue, TypeOK
<1>2. /\ todo'[t] = IssueCalls(g) /\ making'[t] = g /\ issued' = g
      /\ \A u \in Thread \ {t} : todo'[u] = todo[u] /\ making'[u] = making[u]
  BY DEF Issue, TypeOK
<1>3. \A u \in Thread : making[u] \in Nat /\ making[u] <= issued
  <2>1. \A u \in Thread : making[u] \in {0} \cup Grant
    BY DEF TypeOK
  <2>2. \A u \in Thread : making[u] \in Nat
    BY <2>1 DEF Grant
  <2>3. \A u \in Thread : making[u] <= issued
    BY DEF PendInv, Makers, MakingIssued
  <2> QED BY <2>2, <2>3
<1>4. Makers'
  <2> HIDE DEF g
  <2>1. \A u \in Thread \ {t} : making'[u] # g
    BY <1>1, <1>2, <1>3 DEF g
  <2>2. MakersApart'
    BY <1>2, <2>1 DEF PendInv, Makers, MakersApart
  <2>3. MakingIssued'
    <3> SUFFICES ASSUME NEW u \in Thread PROVE making'[u] <= issued'
      BY DEF MakingIssued
    <3>1. CASE u = t
      BY <1>1, <1>2, <3>1, GrantNat
    <3>2. CASE u # t
      BY <1>1, <1>2, <1>3, <3>2 DEF g
    <3> QED BY <3>1, <3>2
  <2> QED BY <2>2, <2>3 DEF Makers
<1>5. /\ DOMAIN IssueCalls(g) = {1, 2, 3}
      /\ \A i \in DOMAIN IssueCalls(g) :
             /\ IssueCalls(g)[i].cmd \in {"set", "get"}
             /\ IssueCalls(g)[i].key \in {Access(g), Refresh(g)}
      /\ \A i, j \in DOMAIN IssueCalls(g) :
             IssueCalls(g)[i].cmd = "set" /\ IssueCalls(g)[i] = IssueCalls(g)[j] => i = j
  BY DEF IssueCalls, Call, Access, Refresh
<1>6. Access(g) \notin doubled /\ Refresh(g) \notin doubled
  <2>1. Access(g)[2] = g /\ Refresh(g)[2] = g
    BY DEF Access, Refresh
  <2> QED BY <1>1, <2>1 DEF PendInv, DoubledIssued
<1>7. \A u \in Thread \ {t} : Onward(u)
  BY <1>2 DEF Onward
<1>8. StoresOnce'
  <2> HIDE DEF g
  <2> SUFFICES ASSUME NEW u \in Thread, NEW i \in DOMAIN todo'[u], NEW j \in DOMAIN todo'[u],
                      todo'[u][i].cmd = "set", todo'[u][i] = todo'[u][j]
               PROVE  i = j
    BY DEF StoresOnce
  <2>1. CASE u = t
    BY <1>2, <1>5, <2>1
  <2>2. CASE u # t
    BY <1>7, <2>2, OnwardPending DEF PendInv
  <2> QED BY <2>1, <2>2
<1>9. RepeatsLast' /\ ExchangesRefresh'
  <2> HIDE DEF g
  <2> SUFFICES ASSUME NEW u \in Thread, NEW i \in DOMAIN todo'[u]
               PROVE  /\ todo'[u][i].cmd = "set" /\ todo'[u][i].key \in doubled'
                            => i = 1 /\ at'[u] = "silent"
                      /\ todo'[u][i].cmd = "getdel" => todo'[u][i].key[1] = "refresh"
    BY DEF RepeatsLast, ExchangesRefresh
  <2>1. CASE u = t
    BY <1>2, <1>5, <1>6, <2>1
  <2>2. CASE u # t
    BY <1>7, <2>2, OnwardPending DEF PendInv
  <2> QED BY <2>1, <2>2
<1>10. DoubledIssued'
  <2> SUFFICES ASSUME NEW k \in doubled PROVE k[2] <= issued'
    BY DEF DoubledIssued
  <2>1. k[2] \in Nat /\ k[2] <= issued
    BY KeyParts, GrantNat DEF TypeOK, PendInv, DoubledIssued
  <2> QED BY <1>1, <1>2, <2>1
<1> QED BY <1>4, <1>8, <1>9, <1>10 DEF PendInv, Pending

LEMMA FinishPend ==
    ASSUME TypeOK, PendInv, NEW t \in Thread, ~Idle(t), NEW c, NEW found, Finish(t, c, found),
           doubled' = doubled
    PROVE  PendInv'
<1>1. CASE NextCall(t)
  BY <1>1, NextCallPend
<1>2. CASE Exchanged(t, c.key[2])!1
  <2>1. \A u \in Thread \ {t} : at'[u] = at[u]
    BY <1>2 DEF TypeOK
  <2> QED BY <1>2, <2>1, IssuePend
<1> QED BY <1>1, <1>2 DEF Finish, Exchanged

LEMMA BeginPend ==
    ASSUME TypeOK, PendInv, NEW t \in Thread, NEW calls, Begin(t, calls),
           \A i \in DOMAIN calls :
               calls[i].cmd # "set" /\ (calls[i].cmd = "getdel" => calls[i].key[1] = "refresh")
    PROVE  PendInv'
<1>1. /\ todo'[t] = calls /\ \A u \in Thread \ {t} : todo'[u] = todo[u]
      /\ making' = making /\ at' = at /\ issued' = issued /\ doubled' = doubled
  BY DEF Begin, TypeOK
<1>2. Makers' /\ DoubledIssued'
  BY <1>1 DEF PendInv, Makers, MakersApart, MakingIssued, DoubledIssued
<1>3. Pending'
  BY <1>1 DEF PendInv, Pending, StoresOnce, RepeatsLast, ExchangesRefresh
<1> QED BY <1>2, <1>3 DEF PendInv

\* Two calls of a step store the same key only if they are one call.
LEMMA OneStorer ==
    ASSUME TypeOK, StoresOwnGrant, PendInv, NEW t \in Thread, NEW u \in Thread,
           NEW i \in DOMAIN todo[t], NEW j \in DOMAIN todo[u],
           todo[t][i].cmd = "set", todo[u][j].cmd = "set", todo[t][i].key = todo[u][j].key
    PROVE  t = u /\ i = j /\ making[t] = todo[t][i].key[2]
<1>1. making[t] = todo[t][i].key[2] /\ making[u] = todo[t][i].key[2]
  BY DEF StoresOwnGrant
<1>2. todo[t][i] \in Calls /\ todo[u][j] \in Calls
  BY DEF TypeOK
<1>3. making[t] # 0
  BY <1>1, <1>2, CallParts, GrantNat
<1>4. t = u
  BY <1>1, <1>3 DEF PendInv, Makers, MakersApart
<1>5. todo[t][i] = todo[u][j]
  BY <1>2 DEF Calls
<1> QED BY <1>1, <1>4, <1>5 DEF PendInv, Pending, StoresOnce

LEMMA FailPend ==
    ASSUME TypeOK, StoresOwnGrant, PendInv, NEW t \in Thread, NEW effect \in BOOLEAN,
           RedisFails(t, effect)
    PROVE  PendInv'
<1> DEFINE c == Head(todo[t])
<1>1. /\ ~Idle(t) /\ todo' = todo /\ making' = making /\ issued' = issued
      /\ at'[t] = "silent" /\ \A u \in Thread \ {t} : at'[u] = at[u]
      /\ doubled' = doubled \/ (c.cmd = "set" /\ doubled' = doubled \cup {c.key})
  BY DEF RedisFails, ToMemory, TypeOK
<1>2. c = todo[t][1] /\ 1 \in DOMAIN todo[t] /\ c \in Calls
  BY <1>1, HeadType
<1>3. Makers'
  BY <1>1 DEF PendInv, Makers, MakersApart, MakingIssued
<1>4. StoresOnce' /\ ExchangesRefresh'
  BY <1>1 DEF PendInv, Pending, StoresOnce, ExchangesRefresh
<1>5. RepeatsLast'
  <2> SUFFICES ASSUME NEW u \in Thread, NEW i \in DOMAIN todo[u],
                      todo[u][i].cmd = "set", todo[u][i].key \in doubled'
               PROVE  i = 1 /\ at'[u] = "silent"
    BY <1>1 DEF RepeatsLast
  <2>1. CASE todo[u][i].key \in doubled
    BY <1>1, <2>1 DEF PendInv, Pending, RepeatsLast
  <2>2. CASE c.cmd = "set" /\ todo[u][i].key = c.key
    BY <1>1, <1>2, <2>2, OneStorer
  <2> QED BY <1>1, <2>1, <2>2
<1>6. DoubledIssued'
  <2>1. CASE doubled' = doubled
    BY <1>1, <2>1 DEF PendInv, DoubledIssued
  <2>2. CASE c.cmd = "set" /\ doubled' = doubled \cup {c.key}
    BY <1>1, <1>2, <2>2 DEF PendInv, Makers, MakingIssued, DoubledIssued, StoresOwnGrant
  <2> QED BY <1>1, <2>1, <2>2
<1> QED BY <1>3, <1>4, <1>5, <1>6 DEF PendInv, Pending

\* A step that leaves the calls and the doubled keys alone, but for where a thread waits.
LEMMA WaitPend ==
    ASSUME TypeOK, PendInv, NEW t \in Thread, NEW why, ToMemory(t, why), doubled' = doubled,
           why = "silent" \/ Head(todo[t]).cmd # "set", ~Idle(t)
    PROVE  PendInv'
<1>1. /\ todo' = todo /\ making' = making /\ issued' = issued
      /\ at'[t] = why /\ \A u \in Thread \ {t} : at'[u] = at[u]
  BY DEF ToMemory, TypeOK
<1>2. Makers' /\ DoubledIssued' /\ StoresOnce' /\ ExchangesRefresh'
  BY <1>1 DEF PendInv, Pending, StoresOnce, ExchangesRefresh, Makers, MakersApart, MakingIssued,
              DoubledIssued
<1>3. RepeatsLast'
  BY <1>1, HeadType DEF RepeatsLast, PendInv, Pending
<1> QED BY <1>2, <1>3 DEF PendInv, Pending

LEMMA RequestPend ==
    ASSUME TypeOK, RevInv, PendInv, NEW t \in Thread, Request(t) PROVE PendInv'
<1>1. CASE Login(t)
  BY <1>1, IssuePend DEF Login
<1>2. ASSUME NEW g \in Grant, Authenticate(t, g) \/ Exchange(t, g) PROVE PendInv'
  <2>1. PICK call \in {Call("get", Access(g)), Call("getdel", Refresh(g))} : Begin(t, <<call>>)
    BY <1>2 DEF Authenticate, Exchange
  <2>2. call.cmd # "set" /\ (call.cmd = "getdel" => call.key[1] = "refresh")
    BY <2>1 DEF Call, Refresh
  <2> QED BY <2>1, <2>2, BeginPend
<1>3. ASSUME NEW g \in Grant, NEW tokens \in Credentials(g), Logout(t, g, tokens) PROVE PendInv'
  <2> DEFINE calls == [i \in DOMAIN tokens |-> Call("delete", tokens[i])]
  <2>1. Begin(t, calls)
    BY <1>3 DEF Logout
  <2>2. \A i \in DOMAIN calls : calls[i].cmd = "delete"
    BY DEF Call
  <2> QED BY <2>1, <2>2, BeginPend
<1>4. CASE RedisAnswers(t)
  <2>1. ~Idle(t) /\ doubled' = doubled
    BY <1>4 DEF RedisAnswers
  <2>2. CASE Finish(t, Head(todo[t]), Head(todo[t]).key \in redis)
    BY <2>1, <2>2, FinishPend
  <2>3. CASE ToMemory(t, "miss") /\ Head(todo[t]).cmd # "set"
    BY <2>1, <2>3, WaitPend
  <2> QED BY <1>4, <2>2, <2>3 DEF RedisAnswers, Settled
<1>5. CASE RedisSkipped(t)
  BY <1>5, WaitPend DEF RedisSkipped
<1>6. ASSUME NEW effect \in BOOLEAN, RedisFails(t, effect) PROVE PendInv'
  BY <1>6, FailPend DEF RevInv, CallsInv
<1>7. CASE MemoryAnswers(t)
  BY <1>7, FinishPend DEF MemoryAnswers
<1> QED BY <1>1, <1>2, <1>3, <1>4, <1>5, <1>6, <1>7 DEF Request

LEMMA EnvironmentPend == ASSUME TypeOK, PendInv, Environment PROVE PendInv'
<1>1. UNCHANGED <<issued, doubled>>
  BY DEF Environment, CooldownBegins, CooldownEnds, Restart, ExpireInRedis, ExpireInMemory,
         requests, history
<1>2. ASSUME NEW p \in Process, Restart(p) PROVE PendInv'
  <2>1. \A t \in Thread : Onward(t) /\ making'[t] \in {making[t], 0}
    BY <1>2 DEF Restart, Onward
  <2> QED BY <1>1, <2>1, OnwardKept, MakersKept DEF PendInv, DoubledIssued
<1>3. ASSUME UNCHANGED <<todo, at, making>> PROVE PendInv'
  BY <1>1, <1>3 DEF PendInv, Makers, MakersApart, MakingIssued, Pending, StoresOnce, RepeatsLast,
                    ExchangesRefresh, DoubledIssued
<1> QED BY <1>2, <1>3 DEF Environment, CooldownBegins, CooldownEnds, ExpireInRedis,
                          ExpireInMemory, requests

LEMMA PendAlways == Spec => []PendInv
<1>1. Init => PendInv
  BY AuthAssumption DEF Init, PendInv, Makers, MakersApart, MakingIssued, Pending, StoresOnce,
     RepeatsLast, ExchangesRefresh, DoubledIssued
<1>2. TypeOK /\ RevInv /\ PendInv /\ [Next]_vars => PendInv'
  <2> SUFFICES ASSUME TypeOK, RevInv, PendInv, [Next]_vars PROVE PendInv'
    OBVIOUS
  <2>1. CASE UNCHANGED vars
    BY <2>1 DEF vars, requests, history, PendInv, Makers, MakersApart, MakingIssued, Pending,
                StoresOnce, RepeatsLast, ExchangesRefresh, DoubledIssued
  <2> QED BY <2>1, RequestPend, EnvironmentPend DEF Next
<1> QED BY <1>1, <1>2, TypeCorrect, RevAlways, PTL DEF Spec

-----------------------------------------------------------------------------
(* Where refresh tokens are.  A step loses places (Losing), moves one copy *)
(* of a token (Moving), stores one twice (Tearing), exchanges one for a    *)
(* new grant (Rotating) or makes the first grant of a login (Starting).    *)

\* The places of a grant's refresh token, and the grants whose answer was lost.
At(g) == Places(Refresh(g))
Torn  == {g \in Grant : Refresh(g) \in doubled}
Storing(t, g) == \E i \in DOMAIN todo[t] : todo[t][i] = Call("set", Refresh(g))

\* No token but those of the grants in G comes to a new place.
FewerBut(G) == \A g \in Grant \ G : At(g)' \subseteq At(g)
Still       == UNCHANGED <<issued, root, spent>>

Losing   == Still /\ Torn' = Torn /\ FewerBut({})
Moving   == /\ Still /\ Torn' = Torn
            /\ \E h \in Grant : /\ FewerBut({h})
                                /\ \E x \in At(h) : \E y : At(h)' \subseteq (At(h) \ {x}) \cup {y}
Tearing  == /\ Still
            /\ \E h \in Grant \ Torn : /\ Torn' = Torn \cup {h} /\ FewerBut({h})
                                       /\ At(h) # {} /\ \E y : At(h)' \subseteq At(h) \cup {y}
Rotating == \E g, h \in Grant :
                /\ h = issued + 1 /\ issued' = h /\ root' = [root EXCEPT ![h] = root[g]]
                /\ spent' = [spent EXCEPT ![g] = @ + 1] /\ Torn' = Torn
                /\ FewerBut({h}) /\ \E y : At(h)' \subseteq {y}
                /\ \E x \in At(g) : At(g)' \subseteq At(g) \ {x}
Starting == \E h \in Grant :
                /\ h = issued + 1 /\ issued' = h /\ root' = [root EXCEPT ![h] = h]
                /\ spent' = spent /\ Torn' = Torn
                /\ FewerBut({h}) /\ \E y : At(h)' \subseteq {y}

\* Grants to come have no token anywhere, and the family of a grant is an older one's.
Fresh  == \A g \in Grant : g > issued => At(g) = {} /\ spent[g] = 0 /\ g \notin Torn
Rooted == \A g \in 1..issued : root[g] \in 1..issued

LEMMA KeysApart ==
    /\ \A g, h \in Grant : Access(g) # Refresh(h) /\ (Refresh(g) = Refresh(h) => g = h)
    /\ \A k \in Key : \E g \in Grant : k = Access(g) \/ k = Refresh(g)
    /\ \A g \in Grant : Refresh(g)[1] = "refresh" /\ Access(g)[1] = "access"
    /\ \A k \in Key : k[1] = "refresh" => k = Refresh(k[2])
BY DEF Access, Refresh, Key

\* The new places of a token are in Y.
LEMMA PlacesIn ==
    ASSUME NEW g \in Grant, NEW Y,
           Refresh(g) \in redis' => Refresh(g) \in redis \/ <<"redis", Refresh(g)>> \in Y,
           \A p \in Process : Refresh(g) \in memory'[p] =>
               Refresh(g) \in memory[p] \/ <<"memory", p>> \in Y,
           \A t \in Thread : Storing(t, g)' => Storing(t, g) \/ <<"todo", t>> \in Y
    PROVE  At(g)' \subseteq At(g) \cup Y
<1> SUFFICES ASSUME NEW x \in At(g)' PROVE x \in At(g) \/ x \in Y
  OBVIOUS
<1>1. \/ \E p \in Process : x = <<"memory", p>> /\ Refresh(g) \in memory'[p]
      \/ x = <<"redis", Refresh(g)>> /\ Refresh(g) \in redis'
      \/ \E t \in Thread : x = <<"todo", t>> /\ Storing(t, g)'
  BY DEF At, Places, Storing, Refresh
<1>2. ASSUME NEW p \in Process, x = <<"memory", p>>, Refresh(g) \in memory[p] PROVE x \in At(g)
  BY <1>2 DEF At, Places
<1>3. ASSUME x = <<"redis", Refresh(g)>>, Refresh(g) \in redis PROVE x \in At(g)
  BY <1>3 DEF At, Places
<1>4. ASSUME NEW t \in Thread, x = <<"todo", t>>, Storing(t, g) PROVE x \in At(g)
  BY <1>4 DEF At, Places, Storing
<1> QED BY <1>1, <1>2, <1>3, <1>4

\* A place that a token left, or has.
LEMMA PlaceHeld ==
    ASSUME NEW g \in Grant
    PROVE  /\ \A p \in Process : <<"memory", p>> \in At(g) <=> Refresh(g) \in memory[p]
           /\ <<"redis", Refresh(g)>> \in At(g) <=> Refresh(g) \in redis
           /\ \A t \in Thread : <<"todo", t>> \in At(g) <=> Storing(t, g)
BY DEF At, Places, Storing

LEMMA PlaceHeldNext ==
    ASSUME NEW g \in Grant
    PROVE  /\ \A p \in Process : <<"memory", p>> \in At(g)' <=> Refresh(g) \in memory'[p]
           /\ <<"redis", Refresh(g)>> \in At(g)' <=> Refresh(g) \in redis'
           /\ \A t \in Thread : <<"todo", t>> \in At(g)' <=> Storing(t, g)'
BY DEF At, Places, Storing, Refresh

\* Stores that gain no refresh token but those of G.
NoneStored(G) ==
    \A g \in Grant \ G :
        /\ Refresh(g) \in redis' => Refresh(g) \in redis
        /\ \A p \in Process : Refresh(g) \in memory'[p] => Refresh(g) \in memory[p]

LEMMA OthersFewer ==
    ASSUME NEW G, NoneStored(G), \A g \in Grant \ G : \A t \in Thread : Storing(t, g)' => Storing(t, g)
    PROVE  FewerBut(G)
<1> SUFFICES ASSUME NEW g \in Grant \ G PROVE At(g)' \subseteq At(g) \cup {}
  BY DEF FewerBut
<1> QED BY PlacesIn DEF NoneStored

LEMMA OnwardStores ==
    ASSUME TypeOK, NEW t \in Thread, NEW g \in Grant, Onward(t), Storing(t, g)'
    PROVE  Storing(t, g)
<1>1. PICK i \in DOMAIN todo'[t] : todo'[t][i] = Call("set", Refresh(g))
  BY DEF Storing, Refresh
<1>2. \E j \in DOMAIN todo[t] : todo[t][j] = todo'[t][i]
  <2>1. CASE ~Idle(t) /\ todo'[t] = Tail(todo[t])
    <3>1. i + 1 \in DOMAIN todo[t] /\ todo'[t][i] = todo[t][i + 1]
      BY <2>1, HeadType
    <3> QED BY <3>1
  <2> QED BY <2>1 DEF Onward
<1> QED BY <1>1, <1>2 DEF Storing

LEMMA OnwardLosing ==
    ASSUME TypeOK, Still, UNCHANGED doubled, NoneStored({}),
           \A t \in Thread : Onward(t) \/ todo'[t] = todo[t]
    PROVE  Losing
<1>1. ASSUME NEW g \in Grant, NEW t \in Thread, Storing(t, g)' PROVE Storing(t, g)
  <2>1. CASE todo'[t] = todo[t]
    BY <1>1, <2>1 DEF Storing, Refresh
  <2> QED BY <1>1, <2>1, OnwardStores
<1>2. FewerBut({})
  BY <1>1, OthersFewer
<1> QED BY <1>2 DEF Losing, Torn

LEMMA NextCallOnward ==
    ASSUME TypeOK, NEW t \in Thread, ~Idle(t), NextCall(t)
    PROVE  \A u \in Thread : Onward(u)
BY DEF NextCall, Onward, TypeOK

\* Issuing a grant puts its refresh token on its way, and moves no other.
LEMMA IssuePlaces ==
    ASSUME TypeOK, Fresh, NEW t \in Thread, NEW r, Issue(t, issued + 1, r),
           NEW h \in Grant, h = issued + 1, NoneStored({})
    PROVE  FewerBut({h}) /\ At(h)' \subseteq {<<"todo", t>>}
<1>1. /\ todo'[t] = IssueCalls(h) /\ \A u \in Thread \ {t} : todo'[u] = todo[u]
  BY DEF Issue, TypeOK
<1>2. ASSUME NEW g \in Grant \ {h}, NEW u \in Thread, Storing(u, g)' PROVE Storing(u, g)
  <2>1. PICK i \in DOMAIN todo'[u] : todo'[u][i] = Call("set", Refresh(g))
    BY <1>2 DEF Storing, Refresh
  <2>2. u # t
    <3>1. todo'[u][i].key[2] = g
      BY <2>1 DEF Call, Refresh
    <3> QED BY <1>1, <3>1, IssueCallsType
  <2> QED BY <1>1, <2>1, <2>2 DEF Storing
<1>3. FewerBut({h})
  BY <1>2, OthersFewer DEF NoneStored
<1>4. At(h) = {}
  BY GrantNat DEF Fresh, TypeOK
<1>5. At(h)' \subseteq At(h) \cup {<<"todo", t>>}
  <2>1. ASSUME NEW u \in Thread, Storing(u, h)' PROVE Storing(u, h) \/ <<"todo", u>> \in {<<"todo", t>>}
    <3>1. CASE u = t
      BY <3>1
    <3>2. CASE u # t
      BY <1>1, <2>1, <3>2 DEF Storing, Refresh
    <3> QED BY <3>1, <3>2
  <2> QED BY <2>1, PlacesIn DEF NoneStored
<1> QED BY <1>3, <1>4, <1>5

\* A call that stores a key does so in one place, and is done.
LEMMA SetPlaces ==
    ASSUME TypeOK, RevInv, PendInv, NEW t \in Thread, ~Idle(t), Head(todo[t]).cmd = "set",
           NextCall(t), doubled' = doubled,
           \/ redis' = redis \cup {Head(todo[t]).key} /\ memory' = memory
           \/ /\ redis' = redis
              /\ memory' = [memory EXCEPT ![Home[t]] = memory[Home[t]] \cup {Head(todo[t]).key}]
    PROVE  Losing \/ Moving
<1> DEFINE c == Head(todo[t])
<1>1. c = todo[t][1] /\ 1 \in DOMAIN todo[t] /\ c \in Calls /\ c.key \in Key
  BY HeadType, CallParts
<1>2. (\A u \in Thread : Onward(u)) /\ Still /\ Torn' = Torn
  BY NextCallOnward DEF NextCall, Still, Torn
<1>3. \A k : k # c.key => /\ k \in redis' => k \in redis
                          /\ \A p \in Process : k \in memory'[p] => k \in memory[p]
  <2>1. CASE redis' = redis \cup {c.key} /\ memory' = memory
    BY <2>1
  <2>2. CASE redis' = redis /\ memory' = [memory EXCEPT ![Home[t]] = memory[Home[t]] \cup {c.key}]
    BY <2>2 DEF TypeOK
  <2> QED BY <2>1, <2>2
<1>4. ASSUME NEW g \in Grant, c.key = Access(g) PROVE Losing
  <2>1. NoneStored({})
    BY <1>3, <1>4, KeysApart DEF NoneStored
  <2> QED BY <1>2, <2>1, OnwardLosing
<1>5. ASSUME NEW h \in Grant, c.key = Refresh(h) PROVE Moving
  <2>1. NoneStored({h})
    BY <1>3, <1>5, KeysApart DEF NoneStored
  <2>2. FewerBut({h})
    BY <1>2, <2>1, OnwardStores, OthersFewer
  <2>3. Storing(t, h)
    <3>1. c = Call("set", Refresh(h))
      BY <1>1, <1>5 DEF Calls, Call
    <3> QED BY <1>1, <3>1 DEF Storing
  <2>4. ~Storing(t, h)'
    <3> SUFFICES ASSUME Storing(t, h)' PROVE FALSE
      OBVIOUS
    <3>1. PICK i \in DOMAIN todo'[t] : todo'[t][i] = Call("set", Refresh(h))
      BY DEF Storing, Refresh
    <3>2. todo'[t] = Tail(todo[t])
      BY DEF NextCall, TypeOK
    <3>3. i \in Nat \ {0} /\ i + 1 \in DOMAIN todo[t] /\ todo[t][i + 1] = Call("set", Refresh(h))
      BY <3>1, <3>2, HeadType
    <3>4. todo[t][i + 1].cmd = "set" /\ todo[t][i + 1].key = c.key
      BY <1>5, <3>3 DEF Call
    <3>5. 1 = i + 1
      BY <1>1, <3>3, <3>4, OneStorer DEF RevInv, CallsInv
    <3> QED BY <3>3, <3>5
  <2>5. PICK y : \/ redis' = redis \cup {Refresh(h)} /\ memory' = memory /\ y = <<"redis", Refresh(h)>>
                 \/ /\ redis' = redis /\ y = <<"memory", Home[t]>>
                    /\ memory' = [memory EXCEPT ![Home[t]] = memory[Home[t]] \cup {Refresh(h)}]
    BY <1>5
  <2>6. At(h)' \subseteq At(h) \cup {y}
    <3>1. Refresh(h) \in redis' => Refresh(h) \in redis \/ <<"redis", Refresh(h)>> \in {y}
      BY <2>5
    <3>2. \A p \in Process : Refresh(h) \in memory'[p] =>
                                Refresh(h) \in memory[p] \/ <<"memory", p>> \in {y}
      BY <2>5, AuthAssumption DEF TypeOK
    <3>3. \A u \in Thread : Storing(u, h)' => Storing(u, h)
      BY <1>2, OnwardStores
    <3> QED BY <3>1, <3>2, <3>3, PlacesIn
  <2>7. <<"todo", t>> \in At(h) /\ <<"todo", t>> \notin At(h)'
    BY <2>3, <2>4, PlaceHeld, PlaceHeldNext
  <2>8. At(h)' \subseteq (At(h) \ {<<"todo", t>>}) \cup {y}
    BY <2>6, <2>7
  <2> QED BY <1>2, <2>2, <2>7, <2>8 DEF Moving
<1> QED BY <1>1, <1>4, <1>5, KeysApart

\* A refresh token that is found is taken from its place; it may buy a new grant.
LEMMA GetdelPlaces ==
    ASSUME TypeOK, PendInv, Fresh, NEW t \in Thread, ~Idle(t), Head(todo[t]).cmd = "getdel",
           Exchanged(t, Head(todo[t]).key[2]), doubled' = doubled,
           \/ /\ Head(todo[t]).key \in redis
              /\ redis' = redis \ {Head(todo[t]).key} /\ memory' = memory
           \/ /\ Head(todo[t]).key \in memory[Home[t]] /\ redis' = redis
              /\ memory' = [memory EXCEPT ![Home[t]] = memory[Home[t]] \ {Head(todo[t]).key}]
    PROVE  Losing \/ Rotating
<1> DEFINE c == Head(todo[t])
<1>1. PICK g \in Grant : c.key[2] = g /\ c.key = Refresh(g)
  <2>1. c = todo[t][1] /\ 1 \in DOMAIN todo[t] /\ c \in Calls
    BY HeadType
  <2>2. c.key[1] = "refresh"
    BY <2>1 DEF PendInv, Pending, ExchangesRefresh
  <2> QED BY <2>1, <2>2, CallParts, KeysApart
<1>2. Home[t] \in Process
  BY AuthAssumption
<1>3. NoneStored({}) /\ Torn' = Torn
  BY <1>2 DEF NoneStored, TypeOK, Torn
<1>4. CASE NextCall(t)
  BY <1>3, <1>4, NextCallOnward, OnwardLosing DEF NextCall, Still
<1>5. CASE Exchanged(t, g)!1
  <2> DEFINE h == issued + 1
  <2>1. /\ Issue(t, h, root[g]) /\ h \in Grant /\ issued' = h
        /\ root' = [root EXCEPT ![h] = root[g]] /\ spent' = [spent EXCEPT ![g] = @ + 1]
    BY <1>1, <1>5 DEF Issue
  <2>2. PICK x : \/ /\ Refresh(g) \in redis /\ redis' = redis \ {Refresh(g)}
                    /\ x = <<"redis", Refresh(g)>>
                 \/ /\ Refresh(g) \in memory[Home[t]] /\ x = <<"memory", Home[t]>>
                    /\ memory' = [memory EXCEPT ![Home[t]] = memory[Home[t]] \ {Refresh(g)}]
    BY <1>1
  <2>3. x \in At(g)
    BY <1>1, <1>2, <2>2, PlaceHeld
  <2>4. x \notin At(g)'
    <3>1. \/ Refresh(g) \notin redis' /\ x = <<"redis", Refresh(g)>>
          \/ Refresh(g) \notin memory'[Home[t]] /\ x = <<"memory", Home[t]>>
      BY <1>2, <2>2 DEF TypeOK
    <3> QED BY <1>1, <1>2, <3>1, PlaceHeldNext
  <2>5. PICK n \in Grant : n = h
    BY <2>1
  <2>6. FewerBut({n}) /\ At(n)' \subseteq {<<"todo", t>>}
    BY <1>3, <2>1, <2>5, IssuePlaces
  <2>7. g # n
    <3>1. At(n) = {}
      BY <2>5, GrantNat DEF Fresh, TypeOK
    <3> QED BY <2>3, <3>1
  <2>8. At(g)' \subseteq At(g) \ {x}
    BY <1>1, <2>4, <2>6, <2>7 DEF FewerBut
  <2> HIDE DEF h
  <2>9. /\ n = issued + 1 /\ issued' = n /\ root' = [root EXCEPT ![n] = root[g]]
    BY <2>1, <2>5 DEF h
  <2>10. \E y : At(n)' \subseteq {y}
    BY <2>6
  <2>11. \E y \in At(g) : At(g)' \subseteq At(g) \ {y}
    BY <2>3, <2>8
  <2>12. spent' = [spent EXCEPT ![g] = @ + 1] /\ Torn' = Torn /\ FewerBut({n})
    BY <1>3, <2>1, <2>6
  <2> QED BY <2>9, <2>10, <2>11, <2>12, Zenon DEF Rotating
<1> QED BY <1>1, <1>4, <1>5 DEF Exchanged

StepKinds == Losing \/ Moving \/ Tearing \/ Rotating \/ Starting

LEMMA EffectNoneStored ==
    ASSUME TypeOK, NEW c \in Calls, c.cmd # "set", NEW p \in Process,
           redis' \subseteq Effect(c, redis) \cup redis,
           memory' = [memory EXCEPT ![p] = Effect(c, memory[p])] \/ memory' = memory
    PROVE  NoneStored({})
BY DEF NoneStored, Effect, TypeOK

LEMMA RedisKinds ==
    ASSUME TypeOK, RevInv, PendInv, Fresh, NEW t \in Thread, RedisAnswers(t) PROVE StepKinds
<1> DEFINE c == Head(todo[t])
<1>1. /\ ~Idle(t) /\ redis' = Effect(c, redis) /\ memory' = memory /\ doubled' = doubled
  BY DEF RedisAnswers
<1>2. c \in Calls /\ c.key \in Key
  BY <1>1, HeadType, CallParts
<1>3. CASE c.cmd = "set"
  <2>1. NextCall(t) /\ redis' = redis \cup {c.key}
    BY <1>1, <1>3 DEF RedisAnswers, Settled, Finish, Effect
  <2> QED BY <1>1, <1>3, <2>1, SetPlaces DEF StepKinds
<1>4. CASE c.cmd = "getdel" /\ c.key \in redis
  <2>1. Exchanged(t, c.key[2]) /\ redis' = redis \ {c.key}
    BY <1>1, <1>4 DEF RedisAnswers, Settled, Finish, Effect
  <2> QED BY <1>1, <1>4, <2>1, GetdelPlaces DEF StepKinds
<1>5. CASE c.cmd # "set" /\ ~(c.cmd = "getdel" /\ c.key \in redis)
  <2>1. PICK p \in Process : TRUE
    BY AuthAssumption
  <2>2. NoneStored({})
    BY <1>1, <1>2, <1>5, <2>1, EffectNoneStored
  <2>3. NextCall(t) \/ ToMemory(t, "miss")
    BY <1>5 DEF RedisAnswers, Settled, Finish
  <2>4. Still /\ \A u \in Thread : Onward(u) \/ todo'[u] = todo[u]
    <3>1. CASE NextCall(t)
      BY <1>1, <3>1, NextCallOnward DEF NextCall, Still
    <3>2. CASE ToMemory(t, "miss")
      BY <3>2, <1>1 DEF ToMemory, Still, RedisAnswers
    <3> QED BY <2>3, <3>1, <3>2
  <2> QED BY <1>1, <2>2, <2>4, OnwardLosing DEF StepKinds
<1> QED BY <1>3, <1>4, <1>5

LEMMA MemoryKinds ==
    ASSUME TypeOK, RevInv, PendInv, Fresh, NEW t \in Thread, MemoryAnswers(t) PROVE StepKinds
<1> DEFINE c == Head(todo[t])
           own == memory[Home[t]]
<1>1. /\ ~Idle(t) /\ redis' = redis /\ doubled' = doubled /\ Finish(t, c, c.key \in own)
      /\ memory' = [memory EXCEPT ![Home[t]] = Effect(c, own)]
  BY DEF MemoryAnswers
<1>2. c \in Calls /\ c.key \in Key /\ Home[t] \in Process
  BY <1>1, HeadType, CallParts, AuthAssumption
<1>3. CASE c.cmd = "set"
  <2>1. NextCall(t) /\ memory' = [memory EXCEPT ![Home[t]] = own \cup {c.key}]
    BY <1>1, <1>3 DEF Finish, Effect
  <2> QED BY <1>1, <1>3, <2>1, SetPlaces DEF StepKinds
<1>4. CASE c.cmd = "getdel" /\ c.key \in own
  <2>1. Exchanged(t, c.key[2]) /\ memory' = [memory EXCEPT ![Home[t]] = own \ {c.key}]
    BY <1>1, <1>4 DEF Finish, Effect
  <2> QED BY <1>1, <1>4, <2>1, GetdelPlaces DEF StepKinds
<1>5. CASE c.cmd # "set" /\ ~(c.cmd = "getdel" /\ c.key \in own)
  <2>1. NoneStored({})
    BY <1>1, <1>2, <1>5, EffectNoneStored
  <2>2. NextCall(t)
    BY <1>1, <1>5 DEF Finish
  <2>3. Still /\ \A u \in Thread : Onward(u)
    BY <1>1, <2>2, NextCallOnward DEF NextCall, Still
  <2> QED BY <1>1, <2>1, <2>3, OnwardLosing DEF StepKinds
<1> QED BY <1>3, <1>4, <1>5

\* A command that takes effect although Redis did not answer: the key is stored twice.
LEMMA FailKinds ==
    ASSUME TypeOK, RevInv, PendInv, Fresh, NEW t \in Thread, NEW effect \in BOOLEAN,
           RedisFails(t, effect)
    PROVE  StepKinds
<1> DEFINE c == Head(todo[t])
<1>1. /\ ~Idle(t) /\ at[t] = "redis" /\ memory' = memory /\ todo' = todo /\ Still
      /\ \A u \in Thread \ {t} : at'[u] = at[u]
      /\ \/ redis' = redis /\ doubled' = doubled
         \/ redis' = Effect(c, redis) /\ c.cmd # "set" /\ doubled' = doubled
         \/ redis' = Effect(c, redis) /\ c.cmd = "set" /\ doubled' = doubled \cup {c.key}
  BY DEF RedisFails, ToMemory, TypeOK, Still
<1>2. c = todo[t][1] /\ 1 \in DOMAIN todo[t] /\ c \in Calls /\ c.key \in Key
  BY <1>1, HeadType, CallParts
<1>3. \A g \in Grant, u \in Thread : Storing(u, g)' => Storing(u, g)
  BY <1>1 DEF Storing, Refresh
<1>4. CASE doubled' = doubled
  <2>1. PICK p \in Process : TRUE
    BY AuthAssumption
  <2>2. NoneStored({})
    <3>1. CASE redis' = redis
      BY <1>1, <3>1 DEF NoneStored
    <3>2. CASE redis' = Effect(c, redis) /\ c.cmd # "set"
      BY <1>1, <1>2, <2>1, <3>2, EffectNoneStored
    <3>3. CASE redis' = Effect(c, redis) /\ c.cmd = "set" /\ c.key \in doubled
      BY <1>1, <1>2, <3>3 DEF PendInv, Pending, RepeatsLast
    <3> QED BY <1>1, <1>4, <3>1, <3>2, <3>3
  <2>3. FewerBut({})
    BY <1>3, <2>2, OthersFewer
  <2> QED BY <1>1, <1>4, <2>3 DEF StepKinds, Losing, Torn
<1>5. CASE c.cmd = "set" /\ redis' = redis \cup {c.key} /\ doubled' = doubled \cup {c.key}
  <2>1. ASSUME NEW g \in Grant, c.key = Access(g) PROVE Losing
    <3>1. NoneStored({})
      BY <1>1, <1>5, <2>1, KeysApart DEF NoneStored
    <3>2. Torn' = Torn
      BY <1>5, <2>1, KeysApart DEF Torn, Refresh
    <3> QED BY <1>1, <1>3, <3>1, <3>2, OthersFewer DEF Losing
  <2>2. ASSUME NEW h \in Grant, c.key = Refresh(h) PROVE Tearing
    <3>1. h \notin Torn /\ Torn' = Torn \cup {h}
      <4>1. Refresh(h) \notin doubled
        BY <1>1, <1>2, <1>5, <2>2 DEF PendInv, Pending, RepeatsLast
      <4>2. \A g \in Grant : Refresh(g) \in doubled' <=> Refresh(g) \in doubled \/ g = h
        BY <1>5, <2>2, KeysApart
      <4> QED BY <4>1, <4>2 DEF Torn, Refresh
    <3>2. FewerBut({h})
      <4>1. NoneStored({h})
        BY <1>1, <1>5, <2>2, KeysApart DEF NoneStored
      <4> QED BY <1>3, <4>1, OthersFewer
    <3>3. At(h)' \subseteq At(h) \cup {<<"redis", Refresh(h)>>}
      BY <1>1, <1>3, PlacesIn
    <3>4. At(h) # {}
      <4>1. c = Call("set", Refresh(h))
        BY <1>2, <1>5, <2>2 DEF Calls, Call
      <4>2. Storing(t, h)
        BY <1>2, <4>1 DEF Storing
      <4> QED BY <4>2, PlaceHeld
    <3> QED BY <1>1, <3>1, <3>2, <3>3, <3>4 DEF Tearing
  <2> QED BY <1>2, <2>1, <2>2, KeysApart DEF StepKinds
<1> QED BY <1>1, <1>4, <1>5 DEF Effect

LEMMA BeginKinds ==
    ASSUME TypeOK, NEW t \in Thread, NEW calls, Begin(t, calls),
           \A i \in DOMAIN calls : calls[i].cmd # "set"
    PROVE  StepKinds
<1>1. /\ todo'[t] = calls /\ \A u \in Thread \ {t} : todo'[u] = todo[u]
      /\ redis' = redis /\ memory' = memory /\ doubled' = doubled /\ Still
  BY DEF Begin, TypeOK, stores, Still
<1>2. ASSUME NEW g \in Grant, NEW u \in Thread, Storing(u, g)' PROVE Storing(u, g)
  <2>1. PICK i \in DOMAIN todo'[u] : todo'[u][i] = Call("set", Refresh(g))
    BY <1>2 DEF Storing, Refresh
  <2>2. u # t
    BY <1>1, <2>1 DEF Call
  <2> QED BY <1>1, <2>1, <2>2 DEF Storing
<1>3. FewerBut({})
  BY <1>1, <1>2, OthersFewer DEF NoneStored
<1> QED BY <1>1, <1>3 DEF StepKinds, Losing, Torn

LEMMA RequestKinds ==
    ASSUME TypeOK, RevInv, PendInv, Fresh, NEW t \in Thread, Request(t) PROVE StepKinds
<1>1. CASE Login(t)
  <2>1. PICK h \in Grant : h = issued + 1
    BY <1>1 DEF Login, Issue
  <2>2. Issue(t, issued + 1, issued + 1) /\ UNCHANGED <<redis, memory, doubled, spent>>
    BY <1>1 DEF Login, stores
  <2>3. FewerBut({h}) /\ At(h)' \subseteq {<<"todo", t>>}
    BY <2>1, <2>2, IssuePlaces DEF NoneStored
  <2>4. issued' = h /\ root' = [root EXCEPT ![h] = h]
    BY <2>1, <2>2 DEF Issue
  <2> QED BY <2>1, <2>2, <2>3, <2>4 DEF StepKinds, Starting, Torn
<1>2. ASSUME NEW g \in Grant, Authenticate(t, g) \/ Exchange(t, g) PROVE StepKinds
  <2>1. PICK call \in {Call("get", Access(g)), Call("getdel", Refresh(g))} : Begin(t, <<call>>)
    BY <1>2 DEF Authenticate, Exchange
  <2>2. call.cmd # "set"
    BY <2>1 DEF Call
  <2> QED BY <2>1, <2>2, BeginKinds
<1>3. ASSUME NEW g \in Grant, NEW tokens \in Credentials(g), Logout(t, g, tokens) PROVE StepKinds
  <2> DEFINE calls == [i \in DOMAIN tokens |-> Call("delete", tokens[i])]
  <2>1. Begin(t, calls)
    BY <1>3 DEF Logout
  <2>2. \A i \in DOMAIN calls : calls[i].cmd # "set"
    BY DEF Call
  <2> QED BY <2>1, <2>2, BeginKinds
<1>4. CASE RedisAnswers(t)
  BY <1>4, RedisKinds
<1>5. CASE RedisSkipped(t)
  <2>1. UNCHANGED <<redis, memory, todo, doubled>> /\ Still
    BY <1>5 DEF RedisSkipped, ToMemory, stores, Still
  <2> QED BY <2>1, OnwardLosing DEF StepKinds, NoneStored
<1>6. ASSUME NEW effect \in BOOLEAN, RedisFails(t, effect) PROVE StepKinds
  BY <1>6, FailKinds
<1>7. CASE MemoryAnswers(t)
  BY <1>7, MemoryKinds
<1> QED BY <1>1, <1>2, <1>3, <1>4, <1>5, <1>6, <1>7 DEF Request

LEMMA EnvironmentKinds == ASSUME TypeOK, Environment PROVE StepKinds
<1>1. UNCHANGED <<issued, root, spent, doubled>> /\ NoneStored({})
  BY DEF Environment, CooldownBegins, CooldownEnds, Restart, ExpireInRedis, ExpireInMemory,
         NoneStored, stores, requests, history, TypeOK
<1>2. \A t \in Thread : Onward(t)
  <2>1. ASSUME NEW p \in Process, Restart(p) PROVE \A t \in Thread : Onward(t)
    BY <2>1 DEF Restart, Onward
  <2> QED BY <2>1 DEF Environment, CooldownBegins, CooldownEnds, ExpireInRedis, ExpireInMemory,
                      requests, Onward
<1> QED BY <1>1, <1>2, OnwardLosing DEF Still, StepKinds

-----------------------------------------------------------------------------
(* Counting.  The copies of a refresh token, with its exchanges, are at    *)
(* most one, or two when its answer was lost (Counted); those of a family  *)
(* at most one, and one for each lost answer (Forked).                     *)

LEMMA SwapLe ==
    ASSUME NEW S, IsFiniteSet(S), NEW x \in S, NEW y, NEW T, T \subseteq (S \ {x}) \cup {y}
    PROVE  IsFiniteSet(T) /\ Cardinality(T) <= Cardinality(S)
<1>1. IsFiniteSet(S \ {x}) /\ Cardinality(S \ {x}) = Cardinality(S) - 1
  BY FS_RemoveElement
<1>2. /\ IsFiniteSet((S \ {x}) \cup {y})
      /\ Cardinality((S \ {x}) \cup {y}) \in {Cardinality(S \ {x}), Cardinality(S \ {x}) + 1}
  BY <1>1, FS_AddElement
<1>3. IsFiniteSet(T) /\ Cardinality(T) <= Cardinality((S \ {x}) \cup {y})
  BY <1>2, FS_Subset
<1>4. Cardinality(S) \in Nat /\ Cardinality(T) \in Nat
  BY <1>3, FS_CardinalityType
<1> QED BY <1>1, <1>2, <1>3, <1>4

LEMMA AddLe ==
    ASSUME NEW S, IsFiniteSet(S), NEW y, NEW T, T \subseteq S \cup {y}
    PROVE  IsFiniteSet(T) /\ Cardinality(T) <= Cardinality(S) + 1
<1>1. /\ IsFiniteSet(S \cup {y})
      /\ Cardinality(S \cup {y}) \in {Cardinality(S), Cardinality(S) + 1}
  BY FS_AddElement
<1>2. IsFiniteSet(T) /\ Cardinality(T) <= Cardinality(S \cup {y})
  BY <1>1, FS_Subset
<1>3. Cardinality(S) \in Nat /\ Cardinality(T) \in Nat
  BY <1>2, FS_CardinalityType
<1> QED BY <1>1, <1>2, <1>3

LEMMA DropLe ==
    ASSUME NEW S, IsFiniteSet(S), NEW x \in S, NEW T, T \subseteq S \ {x}
    PROVE  IsFiniteSet(T) /\ Cardinality(T) + 1 <= Cardinality(S)
<1>1. IsFiniteSet(S \ {x}) /\ Cardinality(S \ {x}) = Cardinality(S) - 1
  BY FS_RemoveElement
<1>2. IsFiniteSet(T) /\ Cardinality(T) <= Cardinality(S \ {x})
  BY <1>1, FS_Subset
<1>3. Cardinality(S) \in Nat /\ Cardinality(T) \in Nat
  BY <1>2, FS_CardinalityType
<1> QED BY <1>1, <1>2, <1>3

LEMMA OneLe ==
    ASSUME NEW y, NEW T, T \subseteq {y}
    PROVE  IsFiniteSet(T) /\ Cardinality(T) <= 1
<1>1. IsFiniteSet({y}) /\ Cardinality({y}) = 1
  BY FS_Singleton
<1>2. IsFiniteSet(T) /\ Cardinality(T) <= Cardinality({y})
  BY <1>1, FS_Subset
<1> QED BY <1>1, <1>2

Spare(g)   == IF g \in Torn THEN 1 ELSE 0
Counted    == \A g \in Grant : IsFiniteSet(At(g)) /\ spent[g] + Cardinality(At(g)) <= 1 + Spare(g)
Family(r)  == {g \in 1..issued : root[g] = r}
Alive(r)   == UNION {{g} \X At(g) : g \in Family(r)}
Forked     == \A r \in 1..issued :
                  /\ IsFiniteSet(Alive(r))
                  /\ Cardinality(Alive(r)) <= 1 + Cardinality(Family(r) \cap Torn)
RotInv     == Fresh /\ Rooted /\ Counted /\ Forked

LEMMA CountedFacts ==
    ASSUME TypeOK, NEW g \in Grant, IsFiniteSet(At(g))
    PROVE  spent[g] \in Nat /\ Cardinality(At(g)) \in Nat /\ Spare(g) \in {0, 1}
BY FS_CardinalityType DEF TypeOK, Spare

LEMMA FreshKept == ASSUME TypeOK, Fresh, StepKinds PROVE Fresh'
<1>1. issued \in Nat /\ \A g \in Grant : g \in Nat
  BY GrantNat DEF TypeOK
<1>2. CASE Losing
  BY <1>2 DEF Losing, Still, FewerBut, Fresh
<1>3. CASE Moving
  <2>1. PICK h \in Grant : FewerBut({h}) /\ At(h) # {}
    BY <1>3 DEF Moving
  <2> QED BY <1>3, <2>1 DEF Moving, Still, FewerBut, Fresh
<1>4. CASE Tearing
  <2>1. PICK h \in Grant : Torn' = Torn \cup {h} /\ FewerBut({h}) /\ At(h) # {}
    BY <1>4 DEF Tearing
  <2> QED BY <1>4, <2>1 DEF Tearing, Still, FewerBut, Fresh
<1>5. CASE Rotating
  <2>1. PICK g, h \in Grant : /\ h = issued + 1 /\ issued' = h /\ Torn' = Torn /\ FewerBut({h})
                              /\ spent' = [spent EXCEPT ![g] = @ + 1] /\ At(g) # {}
    BY <1>5 DEF Rotating
  <2>2. ~(g > issued)
    BY <2>1 DEF Fresh
  <2> SUFFICES ASSUME NEW f \in Grant, f > issued' PROVE (At(f) = {} /\ spent[f] = 0 /\ f \notin Torn)'
    BY DEF Fresh
  <2>3. f > issued /\ f # h /\ f # g
    BY <1>1, <2>1, <2>2
  <2>4. At(f)' \subseteq {} /\ spent[f] = 0 /\ f \notin Torn
    BY <2>1, <2>3 DEF Fresh, FewerBut
  <2> QED BY <2>1, <2>3, <2>4 DEF TypeOK
<1>6. CASE Starting
  <2>1. PICK h \in Grant : /\ h = issued + 1 /\ issued' = h /\ Torn' = Torn /\ FewerBut({h})
                           /\ spent' = spent
    BY <1>6 DEF Starting
  <2> SUFFICES ASSUME NEW f \in Grant, f > issued' PROVE (At(f) = {} /\ spent[f] = 0 /\ f \notin Torn)'
    BY DEF Fresh
  <2>2. f > issued /\ f # h
    BY <1>1, <2>1
  <2> QED BY <2>1, <2>2 DEF Fresh, FewerBut
<1> QED BY <1>2, <1>3, <1>4, <1>5, <1>6 DEF StepKinds

LEMMA RootedKept == ASSUME TypeOK, Fresh, Rooted, StepKinds PROVE Rooted'
<1>1. issued \in Nat /\ Grant = 1..MaxGrants /\ MaxGrants \in Nat
  BY GrantNat, AuthAssumption DEF TypeOK, Grant
<1>2. CASE Still
  BY <1>2 DEF Still, Rooted
<1>3. ASSUME NEW h \in Grant, NEW r \in 1..h, h = issued + 1, issued' = h,
             root' = [root EXCEPT ![h] = r]
      PROVE  Rooted'
  <2> SUFFICES ASSUME NEW f \in 1..h PROVE root'[f] \in 1..h
    BY <1>3 DEF Rooted
  <2>1. f \in Grant /\ root \in [Grant -> Grant]
    BY <1>1 DEF TypeOK
  <2>2. CASE f = h
    BY <1>3, <2>1, <2>2
  <2>3. CASE f # h
    <3>1. f \in 1..issued
      BY <1>1, <1>3, <2>3
    <3>2. root[f] \in 1..issued
      BY <3>1 DEF Rooted
    <3>3. root'[f] = root[f]
      BY <1>3, <2>1, <2>3
    <3> QED BY <1>1, <1>3, <3>2, <3>3
  <2> QED BY <2>2, <2>3
<1>4. CASE Rotating
  <2>1. PICK g, h \in Grant : /\ h = issued + 1 /\ issued' = h /\ At(g) # {}
                              /\ root' = [root EXCEPT ![h] = root[g]]
    BY <1>4 DEF Rotating
  <2>2. g \in 1..issued
    BY <1>1, <2>1 DEF Fresh
  <2>3. root[g] \in 1..h
    BY <1>1, <2>1, <2>2 DEF Rooted
  <2> QED BY <1>3, <2>1, <2>3
<1>5. CASE Starting
  <2>1. PICK h \in Grant : h = issued + 1 /\ issued' = h /\ root' = [root EXCEPT ![h] = h]
    BY <1>5 DEF Starting
  <2>2. h \in 1..h
    BY <1>1
  <2> QED BY <1>3, <2>1, <2>2
<1> QED BY <1>2, <1>4, <1>5 DEF StepKinds, Losing, Moving, Tearing

LEMMA CountedKept == ASSUME TypeOK, Fresh, Counted, StepKinds PROVE Counted'
<1>1. \A g \in Grant : /\ IsFiniteSet(At(g)) /\ spent[g] + Cardinality(At(g)) <= 1 + Spare(g)
                       /\ spent[g] \in Nat /\ Cardinality(At(g)) \in Nat /\ Spare(g) \in {0, 1}
  BY CountedFacts DEF Counted
<1> SUFFICES ASSUME NEW g \in Grant
             PROVE  IsFiniteSet(At(g)') /\ spent'[g] + Cardinality(At(g)') <= 1 + Spare(g)'
  BY DEF Counted
<1>2. ASSUME spent'[g] = spent[g], Spare(g)' = Spare(g),
             IsFiniteSet(At(g)') /\ Cardinality(At(g)') <= Cardinality(At(g))
      PROVE  IsFiniteSet(At(g)') /\ spent'[g] + Cardinality(At(g)') <= 1 + Spare(g)'
  <2>1. Cardinality(At(g)') \in Nat
    BY <1>2, FS_CardinalityType
  <2> QED BY <1>1, <1>2, <2>1
<1>3. ASSUME spent'[g] = spent[g], Spare(g)' = Spare(g), At(g)' \subseteq At(g)
      PROVE  IsFiniteSet(At(g)') /\ spent'[g] + Cardinality(At(g)') <= 1 + Spare(g)'
  BY <1>1, <1>2, <1>3, FS_Subset
<1>4. Torn' = Torn => Spare(g)' = Spare(g)
  BY DEF Spare
<1>5. CASE Losing
  BY <1>3, <1>4, <1>5 DEF Losing, Still, FewerBut
<1>6. CASE Moving
  <2>1. PICK h, x, y : /\ h \in Grant /\ x \in At(h) /\ FewerBut({h})
                      /\ At(h)' \subseteq (At(h) \ {x}) \cup {y}
    BY <1>6 DEF Moving
  <2>2. spent' = spent /\ Torn' = Torn
    BY <1>6 DEF Moving, Still
  <2>3. CASE g = h
    <3>1. IsFiniteSet(At(g)') /\ Cardinality(At(g)') <= Cardinality(At(g))
      BY <1>1, <2>1, <2>3, SwapLe
    <3> QED BY <1>2, <1>4, <2>2, <3>1
  <2>4. CASE g # h
    BY <1>3, <1>4, <2>1, <2>2, <2>4 DEF FewerBut
  <2> QED BY <2>3, <2>4
<1>7. CASE Tearing
  <2>1. PICK h, y : /\ h \in Grant \ Torn /\ Torn' = Torn \cup {h} /\ FewerBut({h})
                   /\ At(h)' \subseteq At(h) \cup {y}
    BY <1>7 DEF Tearing
  <2>2. spent' = spent
    BY <1>7 DEF Tearing, Still
  <2>3. CASE g = h
    <3>1. IsFiniteSet(At(g)') /\ Cardinality(At(g)') <= Cardinality(At(g)) + 1
      BY <1>1, <2>1, <2>3, AddLe
    <3>2. Spare(g) = 0 /\ Spare(g)' = 1
      BY <2>1, <2>3 DEF Spare
    <3>3. Cardinality(At(g)') \in Nat
      BY <3>1, FS_CardinalityType
    <3> QED BY <1>1, <2>2, <3>1, <3>2, <3>3
  <2>4. CASE g # h
    <3>1. Spare(g)' = Spare(g)
      BY <2>1, <2>4 DEF Spare
    <3> QED BY <1>3, <2>1, <2>2, <2>4, <3>1 DEF FewerBut
  <2> QED BY <2>3, <2>4
<1>8. ASSUME NEW h \in Grant, g = h, h = issued + 1, spent'[g] = spent[g], NEW y, At(h)' \subseteq {y}
      PROVE  IsFiniteSet(At(g)') /\ spent'[g] + Cardinality(At(g)') <= 1 + Spare(g)'
  <2>1. spent'[g] = 0
    BY <1>8, GrantNat DEF Fresh, TypeOK
  <2>2. IsFiniteSet(At(g)') /\ Cardinality(At(g)') <= 1
    BY <1>8, OneLe
  <2>3. Cardinality(At(g)') \in Nat /\ Spare(g)' \in {0, 1}
    BY <2>2, FS_CardinalityType DEF Spare
  <2> QED BY <2>1, <2>2, <2>3
<1>9. CASE Rotating
  <2>1. PICK f, h, x, y :
            /\ f \in Grant /\ h \in Grant /\ x \in At(f) /\ h = issued + 1
            /\ spent' = [spent EXCEPT ![f] = spent[f] + 1] /\ Torn' = Torn
            /\ FewerBut({h}) /\ At(h)' \subseteq {y} /\ At(f)' \subseteq At(f) \ {x}
    BY <1>9 DEF Rotating
  <2>2. f # h
    <3>1. At(h) = {}
      BY <2>1, GrantNat DEF Fresh, TypeOK
    <3> QED BY <2>1, <3>1
  <2>3. CASE g = f
    <3>1. IsFiniteSet(At(g)') /\ Cardinality(At(g)') + 1 <= Cardinality(At(g))
      BY <1>1, <2>1, <2>3, DropLe
    <3>2. spent'[g] = spent[g] + 1
      BY <2>1, <2>3 DEF TypeOK
    <3>3. Cardinality(At(g)') \in Nat
      BY <3>1, FS_CardinalityType
    <3> QED BY <1>1, <1>4, <2>1, <3>1, <3>2, <3>3
  <2>4. CASE g = h
    <3>1. spent'[g] = spent[g]
      BY <2>1, <2>2, <2>4 DEF TypeOK
    <3> QED BY <1>8, <2>1, <2>4, <3>1
  <2>5. CASE g # f /\ g # h
    <3>1. spent'[g] = spent[g]
      BY <2>1, <2>5 DEF TypeOK
    <3> QED BY <1>3, <1>4, <2>1, <2>5, <3>1 DEF FewerBut
  <2> QED BY <2>3, <2>4, <2>5
<1>10. CASE Starting
  <2>1. PICK h, y : /\ h \in Grant /\ h = issued + 1 /\ spent' = spent /\ Torn' = Torn
                   /\ FewerBut({h}) /\ At(h)' \subseteq {y}
    BY <1>10 DEF Starting
  <2>2. CASE g = h
    BY <1>8, <2>1, <2>2
  <2>3. CASE g # h
    BY <1>3, <1>4, <2>1, <2>3 DEF FewerBut
  <2> QED BY <2>2, <2>3
<1> QED BY <1>5, <1>6, <1>7, <1>9, <1>10 DEF StepKinds

LEMMA FamilyFinite ==
    ASSUME TypeOK, NEW r
    PROVE  /\ IsFiniteSet(Family(r)) /\ IsFiniteSet(Family(r) \cap Torn)
           /\ Cardinality(Family(r) \cap Torn) \in Nat
<1>1. issued \in Int
  BY GrantNat DEF TypeOK
<1>2. IsFiniteSet(1..issued)
  BY <1>1, FS_Interval
<1>3. IsFiniteSet(Family(r)) /\ IsFiniteSet(Family(r) \cap Torn)
  BY <1>2, FS_Subset DEF Family
<1> QED BY <1>3, FS_CardinalityType

LEMMA ForkBound ==
    ASSUME TypeOK', NEW r, NEW n \in Nat, IsFiniteSet(Alive(r)'), Cardinality(Alive(r)') <= n,
           NEW S, IsFiniteSet(S), S \subseteq (Family(r) \cap Torn)', n <= 1 + Cardinality(S)
    PROVE  Cardinality(Alive(r)') <= 1 + Cardinality((Family(r) \cap Torn)')
<1>1. IsFiniteSet((Family(r) \cap Torn)') /\ Cardinality((Family(r) \cap Torn)') \in Nat
  <2>1. issued' \in Int
    BY GrantNat DEF TypeOK
  <2>2. IsFiniteSet(1..issued')
    BY <2>1, FS_Interval
  <2>3. IsFiniteSet((Family(r) \cap Torn)')
    BY <2>2, FS_Subset DEF Family
  <2> QED BY <2>3, FS_CardinalityType
<1>2. Cardinality(S) <= Cardinality((Family(r) \cap Torn)')
  BY <1>1, FS_Subset
<1>3. Cardinality(S) \in Nat /\ Cardinality(Alive(r)') \in Nat
  BY FS_CardinalityType
<1> QED BY <1>1, <1>2, <1>3

LEMMA AliveHas ==
    ASSUME NEW r, NEW f \in Family(r), NEW p \in At(f) PROVE <<f, p>> \in Alive(r)
BY DEF Alive

LEMMA AliveOnly ==
    ASSUME NEW r, NEW Z, \A f \in Family(r)' : \A p \in At(f)' : <<f, p>> \in Z
    PROVE  Alive(r)' \subseteq Z
<1> SUFFICES ASSUME NEW z \in Alive(r)' PROVE z \in Z
  OBVIOUS
<1>1. PICK f : f \in Family(r)' /\ z \in {f} \X At(f)'
  BY DEF Alive
<1> QED BY <1>1

\* A family that gets no member and no new place, but perhaps a lost answer.
LEMMA ForkFewer ==
    ASSUME TypeOK, TypeOK', NEW r \in 1..issued, Forked, Family(r)' = Family(r),
           Torn \subseteq Torn', \A f \in Family(r) : At(f)' \subseteq At(f)
    PROVE  /\ IsFiniteSet(Alive(r)')
           /\ Cardinality(Alive(r)') <= 1 + Cardinality((Family(r) \cap Torn)')
<1>1. Alive(r)' \subseteq Alive(r)
  BY AliveHas, AliveOnly
<1>2. IsFiniteSet(Alive(r)) /\ Cardinality(Alive(r)) <= 1 + Cardinality(Family(r) \cap Torn)
  BY DEF Forked
<1>3. IsFiniteSet(Alive(r)') /\ Cardinality(Alive(r)') <= Cardinality(Alive(r))
  BY <1>1, <1>2, FS_Subset
<1>4. Cardinality(Alive(r)) \in Nat
  BY <1>2, FS_CardinalityType
<1>5. Family(r) \cap Torn \subseteq (Family(r) \cap Torn)'
  OBVIOUS
<1> QED BY <1>2, <1>3, <1>4, <1>5, FamilyFinite, ForkBound

\* A family in which one place is left for another.
LEMMA ForkSwaps ==
    ASSUME TypeOK, TypeOK', NEW r \in 1..issued, Forked, Torn' = Torn,
           Family(r) \subseteq Family(r)', NEW a \in Alive(r), NEW b,
           Alive(r)' \subseteq (Alive(r) \ {a}) \cup {b}
    PROVE  /\ IsFiniteSet(Alive(r)')
           /\ Cardinality(Alive(r)') <= 1 + Cardinality((Family(r) \cap Torn)')
<1>1. IsFiniteSet(Alive(r)) /\ Cardinality(Alive(r)) <= 1 + Cardinality(Family(r) \cap Torn)
  BY DEF Forked
<1>2. IsFiniteSet(Alive(r)') /\ Cardinality(Alive(r)') <= Cardinality(Alive(r))
  BY <1>1, SwapLe
<1>3. Cardinality(Alive(r)) \in Nat
  BY <1>1, FS_CardinalityType
<1>4. Family(r) \cap Torn \subseteq (Family(r) \cap Torn)'
  OBVIOUS
<1> QED BY <1>1, <1>2, <1>3, <1>4, FamilyFinite, ForkBound

LEMMA ForkedKept ==
    ASSUME TypeOK, TypeOK', Fresh, Rooted, Forked, StepKinds PROVE Forked'
<1>1. issued \in Nat /\ issued' \in Nat /\ Grant \subseteq Nat
  BY GrantNat DEF TypeOK
<1>2. \A r : Family(r) \subseteq Grant
  <2>1. 1..issued \subseteq Grant
    BY AuthAssumption DEF TypeOK, Grant
  <2> QED BY <2>1 DEF Family
<1> SUFFICES ASSUME NEW r \in 1..issued'
             PROVE  /\ IsFiniteSet(Alive(r)')
                    /\ Cardinality(Alive(r)') <= 1 + Cardinality((Family(r) \cap Torn)')
  BY DEF Forked
<1>3. Still => r \in 1..issued /\ Family(r)' = Family(r)
  BY DEF Still, Family
<1>4. CASE Losing
  BY <1>2, <1>3, <1>4, ForkFewer DEF Losing, FewerBut
<1>5. CASE Moving
  <2>1. Still /\ Torn' = Torn
    BY <1>5 DEF Moving
  <2>2. PICK h, x, y : /\ h \in Grant /\ x \in At(h) /\ FewerBut({h})
                      /\ At(h)' \subseteq (At(h) \ {x}) \cup {y}
    BY <1>5 DEF Moving
  <2>3. CASE h \in Family(r)
    <3>1. <<h, x>> \in Alive(r)
      BY <2>2, <2>3, AliveHas
    <3>2. Alive(r)' \subseteq (Alive(r) \ {<<h, x>>}) \cup {<<h, y>>}
      <4>1. ASSUME NEW f \in Family(r)', NEW p \in At(f)'
            PROVE  <<f, p>> \in (Alive(r) \ {<<h, x>>}) \cup {<<h, y>>}
        <5>1. f \in Family(r)
          BY <1>3, <2>1
        <5>2. CASE f = h
          BY <2>2, <5>1, <5>2, AliveHas
        <5>3. CASE f # h
          <6>1. p \in At(f)
            BY <1>2, <2>2, <5>1, <5>3 DEF FewerBut
          <6> QED BY <5>1, <5>3, <6>1, AliveHas
        <5> QED BY <5>2, <5>3
      <4> QED BY <4>1, AliveOnly
    <3> QED BY <1>3, <2>1, <3>1, <3>2, ForkSwaps
  <2>4. CASE h \notin Family(r)
    BY <1>2, <1>3, <2>1, <2>2, <2>4, ForkFewer DEF FewerBut
  <2> QED BY <2>3, <2>4
<1>6. CASE Tearing
  <2>1. Still
    BY <1>6 DEF Tearing
  <2>2. PICK h, y : /\ h \in Grant \ Torn /\ Torn' = Torn \cup {h} /\ FewerBut({h})
                   /\ At(h)' \subseteq At(h) \cup {y}
    BY <1>6 DEF Tearing
  <2>3. CASE h \in Family(r)
    <3>1. Alive(r)' \subseteq Alive(r) \cup {<<h, y>>}
      <4>1. ASSUME NEW f \in Family(r)', NEW p \in At(f)'
            PROVE  <<f, p>> \in Alive(r) \cup {<<h, y>>}
        <5>1. f \in Family(r)
          BY <1>3, <2>1
        <5>2. CASE f = h
          BY <2>2, <5>1, <5>2, AliveHas
        <5>3. CASE f # h
          <6>1. p \in At(f)
            BY <1>2, <2>2, <5>1, <5>3 DEF FewerBut
          <6> QED BY <5>1, <6>1, AliveHas
        <5> QED BY <5>2, <5>3
      <4> QED BY <4>1, AliveOnly
    <3>2. IsFiniteSet(Alive(r)) /\ Cardinality(Alive(r)) <= 1 + Cardinality(Family(r) \cap Torn)
      BY <1>3, <2>1 DEF Forked
    <3>3. IsFiniteSet(Alive(r)') /\ Cardinality(Alive(r)') <= Cardinality(Alive(r)) + 1
      BY <3>1, <3>2, AddLe
    <3>4. (Family(r) \cap Torn)' = (Family(r) \cap Torn) \cup {h}
      BY <1>3, <2>1, <2>2, <2>3
    <3>5. Cardinality((Family(r) \cap Torn)') = Cardinality(Family(r) \cap Torn) + 1
      <4>1. h \notin Family(r) \cap Torn
        BY <2>2
      <4> QED BY <3>4, <4>1, FamilyFinite, FS_AddElement
    <3>6. /\ Cardinality(Alive(r)) \in Nat /\ Cardinality(Alive(r)') \in Nat
          /\ Cardinality(Family(r) \cap Torn) \in Nat
      BY <3>2, <3>3, FS_CardinalityType, FamilyFinite
    <3> QED BY <3>2, <3>3, <3>5, <3>6
  <2>4. CASE h \notin Family(r)
    BY <1>2, <1>3, <2>1, <2>2, <2>4, ForkFewer DEF FewerBut
  <2> QED BY <2>3, <2>4
<1>7. CASE Rotating
  <2>1. PICK g, h, x, y :
            /\ g \in Grant /\ h \in Grant /\ h = issued + 1 /\ issued' = h
            /\ root' = [root EXCEPT ![h] = root[g]] /\ Torn' = Torn /\ x \in At(g)
            /\ FewerBut({h}) /\ At(h)' \subseteq {y} /\ At(g)' \subseteq At(g) \ {x}
    BY <1>7 DEF Rotating
  <2>2. g \in 1..issued /\ root[g] \in 1..issued
    <3>1. g \in 1..issued
      BY <1>1, <2>1, GrantNat DEF Fresh
    <3> QED BY <3>1 DEF Rooted
  <2>3. /\ \A f \in Grant \ {h} : root'[f] = root[f]
        /\ root'[h] = root[g]
    BY <2>1 DEF TypeOK
  <2>4. \A f : f \in 1..issued' <=> f \in 1..issued \/ f = h
    BY <1>1, <2>1
  <2>5. h \notin 1..issued /\ 1..issued' \subseteq Grant
    BY <1>1, <2>1, AuthAssumption DEF Grant
  <2>6. CASE r = root[g]
    <3>1. r \in 1..issued /\ Family(r)' = Family(r) \cup {h} /\ g \in Family(r)
      BY <2>2, <2>3, <2>4, <2>5, <2>6 DEF Family
    <3>2. <<g, x>> \in Alive(r)
      BY <2>1, <3>1, AliveHas
    <3>3. Alive(r)' \subseteq (Alive(r) \ {<<g, x>>}) \cup {<<h, y>>}
      <4>1. ASSUME NEW f \in Family(r)', NEW p \in At(f)'
            PROVE  <<f, p>> \in (Alive(r) \ {<<g, x>>}) \cup {<<h, y>>}
        <5>1. CASE f = h
          BY <2>1, <5>1
        <5>2. CASE f # h
          <6>1. f \in Family(r) /\ f \in Grant
            BY <1>2, <3>1, <5>2
          <6>2. p \in At(f) /\ (f = g => p # x)
            BY <2>1, <5>2, <6>1 DEF FewerBut
          <6> QED BY <6>1, <6>2, AliveHas
        <5> QED BY <5>1, <5>2
      <4> QED BY <4>1, AliveOnly
    <3>4. Family(r) \subseteq Family(r)' /\ Torn' = Torn
      BY <2>1, <3>1
    <3>5. r \in 1..issued
      BY <3>1
    <3> QED BY <3>2, <3>3, <3>4, <3>5, ForkSwaps
  <2>7. CASE r \in 1..issued /\ r # root[g]
    <3>1. Family(r)' = Family(r)
      BY <2>3, <2>4, <2>5, <2>7 DEF Family
    <3>2. \A f \in Family(r) : At(f)' \subseteq At(f)
      BY <1>2, <2>1, <2>5 DEF Family, FewerBut
    <3> QED BY <2>1, <2>7, <3>1, <3>2, ForkFewer
  <2>8. CASE r = h
    <3>1. Family(r)' = {}
      <4> SUFFICES ASSUME NEW f \in 1..issued', root'[f] = h PROVE FALSE
        BY <2>8 DEF Family
      <4>1. root'[f] \in 1..issued
        BY <2>2, <2>3, <2>4, <2>5 DEF Rooted
      <4> QED BY <2>5, <4>1
    <3>2. Alive(r)' \subseteq {0}
      BY <3>1, AliveOnly
    <3>3. IsFiniteSet(Alive(r)') /\ Cardinality(Alive(r)') <= 1
      BY <3>2, OneLe
    <3>4. 1 <= 1 + Cardinality({}) /\ IsFiniteSet({}) /\ 1 \in Nat
      BY FS_EmptySet
    <3>5. {} \subseteq (Family(r) \cap Torn)'
      OBVIOUS
    <3> QED BY <3>3, <3>4, <3>5, ForkBound
  <2> QED BY <2>4, <2>6, <2>7, <2>8
<1>8. CASE Starting
  <2>1. PICK h, y : /\ h \in Grant /\ h = issued + 1 /\ issued' = h
                   /\ root' = [root EXCEPT ![h] = h] /\ Torn' = Torn
                   /\ FewerBut({h}) /\ At(h)' \subseteq {y}
    BY <1>8 DEF Starting
  <2>2. /\ \A f \in Grant \ {h} : root'[f] = root[f]
        /\ root'[h] = h
    BY <2>1 DEF TypeOK
  <2>3. \A f : f \in 1..issued' <=> f \in 1..issued \/ f = h
    BY <1>1, <2>1
  <2>4. h \notin 1..issued /\ 1..issued' \subseteq Grant
    BY <1>1, <2>1, AuthAssumption DEF Grant
  <2>5. CASE r \in 1..issued
    <3>1. Family(r)' = Family(r)
      BY <2>2, <2>3, <2>4, <2>5 DEF Family
    <3>2. \A f \in Family(r) : At(f)' \subseteq At(f)
      BY <1>2, <2>1, <2>4 DEF Family, FewerBut
    <3> QED BY <2>1, <2>5, <3>1, <3>2, ForkFewer
  <2>6. CASE r = h
    <3>1. Family(r)' \subseteq {h}
      <4> SUFFICES ASSUME NEW f \in 1..issued', root'[f] = h PROVE f = h
        BY <2>6 DEF Family
      <4>1. f # h => root'[f] \in 1..issued
        BY <2>2, <2>3, <2>4 DEF Rooted
      <4> QED BY <2>4, <4>1
    <3>2. \A f \in Family(r)' : \A p \in At(f)' : <<f, p>> \in {<<h, y>>}
      BY <2>1, <3>1
    <3>3. IsFiniteSet(Alive(r)') /\ Cardinality(Alive(r)') <= 1
      BY <3>2, AliveOnly, OneLe
    <3>4. 1 <= 1 + Cardinality({}) /\ IsFiniteSet({}) /\ 1 \in Nat
      BY FS_EmptySet
    <3>5. {} \subseteq (Family(r) \cap Torn)'
      OBVIOUS
    <3> QED BY <3>3, <3>4, <3>5, ForkBound
  <2> QED BY <2>3, <2>5, <2>6
<1> QED BY <1>4, <1>5, <1>6, <1>7, <1>8 DEF StepKinds

LEMMA RotationAlways == Spec => []RotInv
<1>1. Init => RotInv
  <2> SUFFICES ASSUME Init PROVE RotInv
    OBVIOUS
  <2>1. \A g \in Grant : At(g) = {}
    <3> SUFFICES ASSUME NEW g \in Grant, NEW x \in At(g) PROVE FALSE
      OBVIOUS
    <3>1. \/ \E p \in Process : Refresh(g) \in memory[p]
          \/ Refresh(g) \in redis
          \/ \E t \in Thread : Storing(t, g)
      BY DEF At, Places, Storing
    <3> QED BY <3>1 DEF Init, Storing
  <2>2. Torn = {} /\ \A g \in Grant : spent[g] = 0
    BY DEF Init, Torn
  <2>3. 1..issued = {}
    BY DEF Init
  <2>4. Fresh /\ Rooted /\ Forked
    BY <2>1, <2>2, <2>3 DEF Fresh, Rooted, Forked
  <2>5. Counted
    <3>1. IsFiniteSet({}) /\ Cardinality({}) = 0
      BY FS_EmptySet
    <3> QED BY <2>1, <2>2, <3>1 DEF Counted, Spare
  <2> QED BY <2>4, <2>5 DEF RotInv
<1>2. TypeOK /\ TypeOK' /\ RevInv /\ PendInv /\ RotInv /\ [Next]_vars => RotInv'
  <2> SUFFICES ASSUME TypeOK, TypeOK', RevInv, PendInv, RotInv, [Next]_vars PROVE RotInv'
    OBVIOUS
  <2>1. StepKinds
    <3>1. CASE UNCHANGED vars
      <4>1. UNCHANGED <<redis, memory, todo, doubled>> /\ Still
        BY <3>1 DEF vars, stores, requests, history, Still
      <4> QED BY <4>1, OnwardLosing DEF StepKinds, NoneStored
    <3> QED BY <3>1, RequestKinds, EnvironmentKinds DEF Next, RotInv
  <2> QED BY <2>1, FreshKept, RootedKept, CountedKept, ForkedKept DEF RotInv
<1> QED BY <1>1, <1>2, TypeCorrect, RevAlways, PendAlways, PTL DEF Spec

(* A refresh token buys one new session, however many processes and        *)
(* threads exchange it at once; a second exchange takes a second copy,     *)
(* which only a lost answer of Redis to the command that stored it makes.  *)
THEOREM ExchangedOnce == Spec => []RefreshSpentOnce
<1>1. RotInv => RefreshSpentOnce
  <2> SUFFICES ASSUME RotInv, NEW g \in Grant
               PROVE  spent[g] + Cardinality(Places(Refresh(g)))
                         <= 1 + Cardinality({Refresh(g)} \cap doubled)
    BY DEF RefreshSpentOnce
  <2>1. spent[g] + Cardinality(Places(Refresh(g))) <= 1 + Spare(g)
    BY DEF RotInv, Counted, At
  <2>2. Spare(g) = Cardinality({Refresh(g)} \cap doubled)
    <3>1. CASE g \in Torn
      <4>1. {Refresh(g)} \cap doubled = {Refresh(g)} /\ Spare(g) = 1
        BY <3>1 DEF Torn, Spare
      <4> QED BY <4>1, FS_Singleton
    <3>2. CASE g \notin Torn
      <4>1. {Refresh(g)} \cap doubled = {} /\ Spare(g) = 0
        BY <3>2 DEF Torn, Spare
      <4> QED BY <4>1, FS_EmptySet
    <3> QED BY <3>1, <3>2
  <2> QED BY <2>1, <2>2
<1> QED BY <1>1, RotationAlways, PTL

(* A login has one live refresh token at a time, among all that descend    *)
(* from it and in all stores, and one more for each lost answer.           *)
THEOREM OneLivePerLogin == Spec => []RotationNeverForks
<1>1. TypeOK /\ RotInv => RotationNeverForks
  <2> SUFFICES ASSUME TypeOK, RotInv, NEW r \in 1..issued
               PROVE  Cardinality(UNION {{g} \X Places(Refresh(g)) : g \in {f \in 1..issued : root[f] = r}})
                         <= 1 + Cardinality({g \in {f \in 1..issued : root[f] = r} : Refresh(g) \in doubled})
    BY DEF RotationNeverForks
  <2>1. Cardinality(Alive(r)) <= 1 + Cardinality(Family(r) \cap Torn)
    BY DEF RotInv, Forked
  <2>2. Family(r) \subseteq Grant
    BY AuthAssumption DEF TypeOK, Grant, Family
  <2>3. Family(r) \cap Torn = {g \in Family(r) : Refresh(g) \in doubled}
    BY <2>2 DEF Torn
  <2> QED BY <2>1, <2>3 DEF Alive, Family, At
<1> QED BY <1>1, TypeCorrect, RotationAlways, PTL

-----------------------------------------------------------------------------
(* Nothing that a client holds is lost.  A token of a grant that is made   *)
(* or answered is in a store, on its way there, spent, or gone for a cause *)
(* (Held); a deletion is preceded by its cause (DeletesDropped), and who   *)
(* exchanges a token has nothing to store yet (ExchangesAlone).            *)

Gone(k) == k \in dropped \/ (k[1] = "refresh" /\ spent[k[2]] > 0)
OnItsWay(k) == \E t \in Thread : /\ making[t] = k[2]
                                 /\ \E i \in DOMAIN todo[t] : todo[t][i] = Call("set", k)
Due == {k \in Key : k[2] \in (1..issued) \ withheld}
Held == \A k \in Due : Gone(k) \/ Stored(k) \/ OnItsWay(k)

DeletesDropped ==
    \A t \in Thread : \A i \in DOMAIN todo[t] :
        todo[t][i].cmd = "delete" => todo[t][i].key \in dropped

ExchangesAlone ==
    \A t \in Thread : \A i, j \in DOMAIN todo[t] :
        todo[t][i].cmd = "getdel" => todo[t][j].cmd # "set"

HeldInv == Held /\ DeletesDropped /\ ExchangesAlone

\* What a step takes from a store is gone for a cause; what was on its way has arrived,
\* still is, or belongs to a grant that nobody receives; what becomes due is on its way.
Caused ==
    /\ withheld \subseteq withheld' /\ dropped \subseteq dropped'
    /\ \A g \in Grant : spent'[g] \in Nat /\ spent'[g] >= spent[g]
    /\ \A k \in Key : Stored(k) => Stored(k)' \/ Gone(k)'
    /\ \A k \in Key : OnItsWay(k) => OnItsWay(k)' \/ Stored(k)' \/ k[2] \in withheld'
    /\ \A k \in Due' : k \in Due \/ OnItsWay(k)'

LEMMA CausedHeld == ASSUME TypeOK, Held, Caused PROVE Held'
<1> SUFFICES ASSUME NEW k \in Due' PROVE (Gone(k) \/ Stored(k) \/ OnItsWay(k))'
  BY DEF Held
<1>1. k \in Key /\ k[2] \in Grant /\ k[2] \notin withheld'
  BY KeyParts DEF Due
<1>2. Gone(k) => Gone(k)'
  <2>1. spent[k[2]] \in Nat /\ spent'[k[2]] \in Nat /\ spent'[k[2]] >= spent[k[2]]
    BY <1>1 DEF Caused, TypeOK
  <2> QED BY <2>1 DEF Gone, Caused
<1>3. CASE k \in Due
  BY <1>1, <1>2, <1>3 DEF Held, Caused
<1>4. CASE OnItsWay(k)'
  BY <1>4
<1> QED BY <1>3, <1>4 DEF Caused

\* A call changes one store, at its key.
LEMMA EffectStores ==
    ASSUME TypeOK, NEW c \in Calls, NEW p \in Process, NEW found \in BOOLEAN,
           \/ redis' = Effect(c, redis) /\ memory' = memory /\ (c.key \in redis => found)
           \/ /\ redis' = redis /\ memory' = [memory EXCEPT ![p] = Effect(c, memory[p])]
              /\ c.key \in memory[p] => found
    PROVE  /\ \A k \in Key : Stored(k) => \/ Stored(k)'
                                          \/ k = c.key /\ c.cmd \in {"getdel", "delete"} /\ found
           /\ c.cmd = "set" => Stored(c.key)'
<1>0. c.cmd \in {"get", "set", "getdel", "delete"}
  BY DEF Calls
<1>1. CASE redis' = Effect(c, redis) /\ memory' = memory /\ (c.key \in redis => found)
  BY <1>0, <1>1 DEF Stored, Effect
<1>2. CASE /\ redis' = redis /\ memory' = [memory EXCEPT ![p] = Effect(c, memory[p])]
           /\ c.key \in memory[p] => found
  <2>1. /\ memory'[p] = Effect(c, memory[p]) /\ redis' = redis
        /\ \A q \in Process \ {p} : memory'[q] = memory[q]
    BY <1>2 DEF TypeOK
  <2>2. ASSUME NEW k \in Key, Stored(k), ~Stored(k)'
        PROVE  k = c.key /\ c.cmd \in {"getdel", "delete"} /\ found
    <3>1. k \in memory[p] /\ k \notin Effect(c, memory[p])
      BY <2>1, <2>2 DEF Stored
    <3> QED BY <1>0, <1>2, <3>1 DEF Effect
  <2>3. c.cmd = "set" => Stored(c.key)'
    BY <2>1 DEF Stored, Effect
  <2> QED BY <2>2, <2>3
<1> QED BY <1>1, <1>2

\* What is on its way from a thread when its first call is done.
LEMMA NextCallWay ==
    ASSUME TypeOK, NEW t \in Thread, ~Idle(t), NextCall(t), NEW k \in Key, OnItsWay(k)
    PROVE  OnItsWay(k)' \/ Head(todo[t]) = Call("set", k)
<1>1. PICK u \in Thread : making[u] = k[2] /\ \E i \in DOMAIN todo[u] : todo[u][i] = Call("set", k)
  BY DEF OnItsWay
<1>2. CASE u # t
  <2>1. todo'[u] = todo[u] /\ making'[u] = making[u]
    BY <1>2 DEF NextCall, TypeOK
  <2> QED BY <1>1, <2>1 DEF OnItsWay
<1>3. CASE u = t
  <2>1. PICK i \in DOMAIN todo[t] : todo[t][i] = Call("set", k)
    BY <1>1, <1>3
  <2>2. CASE i = 1
    BY <2>1, <2>2, HeadType
  <2>3. CASE i # 1
    <3>1. todo[t] \in Seq(Calls) /\ todo[t] # <<>>
      BY DEF TypeOK, Idle
    <3>2. i - 1 \in DOMAIN Tail(todo[t]) /\ Tail(todo[t])[i - 1] = todo[t][i] /\ Tail(todo[t]) # <<>>
      BY <2>3, <3>1
    <3>3. todo'[t] = Tail(todo[t]) /\ making'[t] = making[t]
      BY <3>2 DEF NextCall, TypeOK
    <3> QED BY <1>1, <1>3, <2>1, <3>2, <3>3 DEF OnItsWay
  <2> QED BY <2>2, <2>3
<1> QED BY <1>2, <1>3

\* The keys of a grant that is issued are on their way.
LEMMA IssueWay ==
    ASSUME TypeOK, NEW t \in Thread, NEW r, Issue(t, issued + 1, r), withheld \subseteq withheld',
           \A i \in DOMAIN todo[t] : todo[t][i].cmd # "set"
    PROVE  /\ \A k \in Due' : k \in Due \/ OnItsWay(k)'
           /\ \A k \in Key : OnItsWay(k) => OnItsWay(k)'
<1>1. PICK h \in Grant : h = issued + 1
  BY DEF Issue
<1>2. /\ todo'[t] = IssueCalls(h) /\ making'[t] = h /\ issued' = h
      /\ \A u \in Thread \ {t} : todo'[u] = todo[u] /\ making'[u] = making[u]
  BY <1>1 DEF Issue, TypeOK
<1>3. ASSUME NEW k \in Due', k \notin Due PROVE OnItsWay(k)'
  <2>1. issued \in Nat /\ h \in Nat
    BY GrantNat DEF TypeOK
  <2>2. k \in Key /\ k[2] = h
    BY <1>1, <1>2, <1>3, <2>1 DEF Due
  <2>3. k = Access(h) \/ k = Refresh(h)
    BY <2>2, KeysApart DEF Access, Refresh
  <2>4. \E i \in DOMAIN todo'[t] : todo'[t][i] = Call("set", k)
    <3>1. /\ 1 \in DOMAIN IssueCalls(h) /\ IssueCalls(h)[1] = Call("set", Access(h))
          /\ 2 \in DOMAIN IssueCalls(h) /\ IssueCalls(h)[2] = Call("set", Refresh(h))
      BY DEF IssueCalls
    <3> QED BY <1>2, <2>3, <3>1
  <2> QED BY <1>2, <2>2, <2>4 DEF OnItsWay
<1>4. ASSUME NEW k \in Key, OnItsWay(k) PROVE OnItsWay(k)'
  <2>1. PICK u \in Thread : making[u] = k[2] /\ \E i \in DOMAIN todo[u] : todo[u][i] = Call("set", k)
    BY <1>4 DEF OnItsWay
  <2>2. u # t
    BY <2>1 DEF Call
  <2> QED BY <1>2, <2>1, <2>2 DEF OnItsWay
<1> QED BY <1>3, <1>4

LEMMA FinishCaused ==
    ASSUME TypeOK, HeldInv, PendInv, NEW t \in Thread, ~Idle(t), NEW c, c = Head(todo[t]),
           NEW found \in BOOLEAN, Finish(t, c, found),
           \A k \in Key : Stored(k) => \/ Stored(k)'
                                       \/ k = c.key /\ c.cmd \in {"getdel", "delete"} /\ found,
           c.cmd = "set" => Stored(c.key)'
    PROVE  Caused
<1>1. c = todo[t][1] /\ 1 \in DOMAIN todo[t] /\ c \in Calls /\ c.key \in Key /\ c.key[2] \in Grant
  BY HeadType, CallParts
<1>2. withheld \subseteq withheld'
  BY DEF Finish
<1>3. CASE NextCall(t) /\ dropped \subseteq dropped' /\ (c.cmd = "getdel" /\ found => c.key \in dropped')
  <2>1. spent' = spent /\ issued' = issued
    BY <1>3 DEF NextCall
  <2>2. \A k \in Due' : k \in Due
    BY <1>2, <2>1 DEF Due
  <2>3. ASSUME NEW k \in Key, Stored(k) PROVE Stored(k)' \/ Gone(k)'
    BY <1>1, <1>3, <2>3 DEF Gone, HeldInv, DeletesDropped
  <2>4. ASSUME NEW k \in Key, OnItsWay(k) PROVE OnItsWay(k)' \/ Stored(k)'
    <3>1. CASE c = Call("set", k)
      BY <3>1 DEF Call
    <3>2. CASE c # Call("set", k)
      BY <1>3, <2>4, <3>2, NextCallWay
    <3> QED BY <3>1, <3>2
  <2>5. \A g \in Grant : spent'[g] \in Nat /\ spent'[g] >= spent[g]
    BY <2>1 DEF TypeOK
  <2> QED BY <1>2, <1>3, <2>2, <2>3, <2>4, <2>5 DEF Caused
<1>4. CASE Exchanged(t, c.key[2])!1 /\ c.cmd = "getdel" /\ found
  <2>1. PICK g \in Grant : c.key[2] = g /\ c.key = Refresh(g)
    <3>1. c.key[1] = "refresh"
      BY <1>1, <1>4 DEF PendInv, Pending, ExchangesRefresh
    <3> QED BY <1>1, <3>1, KeysApart
  <2>2. /\ Issue(t, issued + 1, root[g]) /\ spent' = [spent EXCEPT ![g] = spent[g] + 1]
        /\ dropped' = dropped
    BY <1>4, <2>1
  <2>3. /\ \A f \in Grant : spent'[f] \in Nat /\ spent'[f] >= spent[f]
        /\ spent'[g] > 0
    BY <2>2 DEF TypeOK
  <2>4. Gone(c.key)'
    <3>1. Refresh(g)[1] = "refresh" /\ Refresh(g)[2] = g
      BY DEF Refresh
    <3> QED BY <2>1, <2>3, <3>1 DEF Gone
  <2>5. \A i \in DOMAIN todo[t] : todo[t][i].cmd # "set"
    BY <1>1, <1>4 DEF HeldInv, ExchangesAlone
  <2>6. /\ \A k \in Due' : k \in Due \/ OnItsWay(k)'
        /\ \A k \in Key : OnItsWay(k) => OnItsWay(k)'
    BY <1>2, <2>2, <2>5, IssueWay
  <2>7. \A k \in Key : Stored(k) => Stored(k)' \/ Gone(k)'
    BY <1>1, <1>4, <2>4
  <2> QED BY <1>2, <2>2, <2>3, <2>6, <2>7 DEF Caused
<1>5. CASE Exchanged(t, c.key[2])!2 /\ c.cmd = "getdel" /\ found
  <2>1. c.key = Refresh(c.key[2])
    BY <1>1, <1>5, KeysApart DEF PendInv, Pending, ExchangesRefresh
  <2> QED BY <1>3, <1>5, <2>1
<1>6. CASE NextCall(t) /\ dropped' = dropped /\ ~(c.cmd = "getdel" /\ found)
  BY <1>3, <1>6
<1> QED BY <1>4, <1>5, <1>6 DEF Finish, Exchanged

\* A request that waits for its answer, or for the memory cache: the calls stay.
LEMMA SameCaused ==
    ASSUME TypeOK, UNCHANGED <<todo, making, issued, spent>>, withheld \subseteq withheld',
           dropped \subseteq dropped', \A k \in Key : Stored(k) => Stored(k)' \/ Gone(k)'
    PROVE  Caused
<1>1. \A k \in Due' : k \in Due
  BY DEF Due
<1>2. \A g \in Grant : spent'[g] \in Nat /\ spent'[g] >= spent[g]
  BY DEF TypeOK
<1>3. \A k \in Key : OnItsWay(k) => OnItsWay(k)'
  BY DEF OnItsWay
<1> QED BY <1>1, <1>2, <1>3 DEF Caused

LEMMA BeginCaused ==
    ASSUME TypeOK, NEW t \in Thread, NEW calls, Begin(t, calls), dropped \subseteq dropped'
    PROVE  Caused
<1>1. /\ Idle(t) /\ UNCHANGED <<redis, memory, making, issued, withheld, spent>>
      /\ \A u \in Thread \ {t} : todo'[u] = todo[u]
  BY DEF Begin, stores, TypeOK
<1>2. ASSUME NEW k \in Key, OnItsWay(k) PROVE OnItsWay(k)'
  <2>1. PICK u \in Thread : making[u] = k[2] /\ \E i \in DOMAIN todo[u] : todo[u][i] = Call("set", k)
    BY <1>2 DEF OnItsWay
  <2>2. u # t
    BY <1>1, <2>1 DEF Idle
  <2> QED BY <1>1, <2>1, <2>2 DEF OnItsWay
<1>3. (\A k \in Key : Stored(k) => Stored(k)') /\ \A k \in Due' : k \in Due
  BY <1>1 DEF Stored, Due
<1>4. \A g \in Grant : spent'[g] \in Nat /\ spent'[g] >= spent[g]
  BY <1>1 DEF TypeOK
<1> QED BY <1>1, <1>2, <1>3, <1>4 DEF Caused

LEMMA RequestCaused ==
    ASSUME TypeOK, HeldInv, PendInv, NEW t \in Thread, Request(t) PROVE Caused
<1>1. CASE Login(t)
  <2>1. /\ Idle(t) /\ Issue(t, issued + 1, issued + 1)
        /\ UNCHANGED <<redis, memory, withheld, spent, dropped>>
    BY <1>1 DEF Login, stores
  <2>2. /\ \A k \in Due' : k \in Due \/ OnItsWay(k)'
        /\ \A k \in Key : OnItsWay(k) => OnItsWay(k)'
    BY <2>1, IssueWay DEF Idle
  <2>3. (\A k \in Key : Stored(k) => Stored(k)')
        /\ \A g \in Grant : spent'[g] \in Nat /\ spent'[g] >= spent[g]
    BY <2>1 DEF Stored, TypeOK
  <2> QED BY <2>1, <2>2, <2>3 DEF Caused
<1>2. ASSUME NEW g \in Grant, Authenticate(t, g) \/ Exchange(t, g) PROVE Caused
  <2>1. PICK calls : Begin(t, calls) /\ dropped' = dropped
    BY <1>2 DEF Authenticate, Exchange
  <2> QED BY <2>1, BeginCaused
<1>3. ASSUME NEW g \in Grant, NEW tokens \in Credentials(g), Logout(t, g, tokens) PROVE Caused
  <2>1. PICK calls : Begin(t, calls) /\ dropped \subseteq dropped'
    BY <1>3 DEF Logout
  <2> QED BY <2>1, BeginCaused
<1>4. CASE RedisAnswers(t)
  <2>1. ~Idle(t) /\ memory' = memory
    BY <1>4 DEF RedisAnswers
  <2>2. PICK c \in Calls : c = Head(todo[t])
    BY <2>1, HeadType
  <2>3. c = todo[t][1] /\ 1 \in DOMAIN todo[t]
    BY <2>1, <2>2, HeadType
  <2>4. PICK found \in BOOLEAN : found = (c.key \in redis)
    <3>1. (c.key \in redis) \in BOOLEAN
      OBVIOUS
    <3> QED BY <3>1, Zenon
  <2>5. PICK p \in Process : TRUE
    BY AuthAssumption
  <2>6. redis' = Effect(c, redis)
    BY <1>4, <2>2 DEF RedisAnswers
  <2>7. /\ \A k \in Key : Stored(k) => \/ Stored(k)'
                                       \/ k = c.key /\ c.cmd \in {"getdel", "delete"} /\ found
        /\ c.cmd = "set" => Stored(c.key)'
    BY <2>1, <2>4, <2>6, EffectStores
  <2>8. CASE Settled(c, c.key \in redis)
    <3>1. Finish(t, c, found)
      BY <1>4, <2>2, <2>4, <2>8 DEF RedisAnswers
    <3> QED BY <2>1, <2>2, <2>7, <3>1, FinishCaused
  <2>9. CASE ~Settled(c, c.key \in redis)
    <3>1. UNCHANGED <<todo, making, issued, withheld, spent, dropped>>
      BY <1>4, <2>2, <2>9 DEF RedisAnswers, ToMemory
    <3>2. ~(c.cmd = "getdel" /\ found)
      BY <2>4, <2>9 DEF Settled
    <3>3. \A k \in Key : Stored(k) => Stored(k)' \/ Gone(k)'
      BY <2>3, <2>7, <3>1, <3>2 DEF Gone, HeldInv, DeletesDropped
    <3> QED BY <3>1, <3>3, SameCaused
  <2> QED BY <2>8, <2>9
<1>5. CASE RedisSkipped(t)
  BY <1>5, SameCaused DEF RedisSkipped, ToMemory, stores, Stored
<1>6. ASSUME NEW effect \in BOOLEAN, RedisFails(t, effect) PROVE Caused
  <2>1. ~Idle(t) /\ memory' = memory
    BY <1>6 DEF RedisFails
  <2>2. PICK c \in Calls : c = Head(todo[t])
    BY <2>1, HeadType
  <2>3. c = todo[t][1] /\ 1 \in DOMAIN todo[t] /\ c.key \in Key
    BY <2>1, <2>2, HeadType, CallParts
  <2>4. UNCHANGED <<todo, making, issued, withheld, spent>> /\ dropped \subseteq dropped'
    BY <1>6 DEF RedisFails, ToMemory
  <2>5. CASE ~effect
    <3>1. redis' = redis
      BY <1>6, <2>5 DEF RedisFails
    <3> QED BY <2>1, <2>4, <3>1, SameCaused DEF Stored
  <2>6. CASE effect
    <3>1. redis' = Effect(c, redis) /\ (c.cmd = "getdel" => c.key \in dropped')
      BY <1>6, <2>2, <2>6 DEF RedisFails
    <3>2. PICK p \in Process : TRUE
      BY AuthAssumption
    <3>3. \A k \in Key : Stored(k) => Stored(k)' \/ (k = c.key /\ c.cmd \in {"getdel", "delete"})
      <4>1. TRUE \in BOOLEAN
        OBVIOUS
      <4> QED BY <2>1, <3>1, <4>1, EffectStores
    <3>4. \A k \in Key : Stored(k) => Stored(k)' \/ Gone(k)'
      BY <2>3, <2>4, <3>1, <3>3 DEF Gone, HeldInv, DeletesDropped
    <3> QED BY <2>4, <3>4, SameCaused
  <2> QED BY <2>5, <2>6
<1>7. CASE MemoryAnswers(t)
  <2>1. ~Idle(t) /\ redis' = redis
    BY <1>7 DEF MemoryAnswers
  <2>2. PICK c \in Calls : c = Head(todo[t])
    BY <2>1, HeadType
  <2>3. PICK p \in Process : p = Home[t]
    BY AuthAssumption
  <2>4. PICK found \in BOOLEAN : found = (c.key \in memory[p])
    <3>1. (c.key \in memory[p]) \in BOOLEAN
      OBVIOUS
    <3> QED BY <3>1, Zenon
  <2>5. memory' = [memory EXCEPT ![p] = Effect(c, memory[p])] /\ Finish(t, c, found)
    BY <1>7, <2>2, <2>3, <2>4 DEF MemoryAnswers
  <2>6. /\ \A k \in Key : Stored(k) => \/ Stored(k)'
                                       \/ k = c.key /\ c.cmd \in {"getdel", "delete"} /\ found
        /\ c.cmd = "set" => Stored(c.key)'
    BY <2>1, <2>4, <2>5, EffectStores
  <2> QED BY <2>1, <2>2, <2>5, <2>6, FinishCaused
<1> QED BY <1>1, <1>2, <1>3, <1>4, <1>5, <1>6, <1>7 DEF Request

LEMMA EnvironmentCaused == ASSUME TypeOK, StoresOwnGrant, Environment PROVE Caused
<1>1. ASSUME NEW p \in Process, CooldownBegins(p) \/ CooldownEnds(p) PROVE Caused
  BY <1>1, SameCaused DEF CooldownBegins, CooldownEnds, stores, requests, history, Stored
<1>2. ASSUME NEW k \in Key, ExpireInRedis(k) PROVE Caused
  <2>1. \A l \in Key : Stored(l) => Stored(l)' \/ Gone(l)'
    BY <1>2 DEF ExpireInRedis, Stored, Gone
  <2> QED BY <1>2, <2>1, SameCaused DEF ExpireInRedis, requests
<1>3. ASSUME NEW p \in Process, NEW k \in Key, ExpireInMemory(p, k) PROVE Caused
  <2>1. \A l \in Key : Stored(l) => Stored(l)' \/ Gone(l)'
    <3>1. \A q \in Process, l \in Key : l \in memory[q] => l \in memory'[q] \/ l = k
      BY <1>3 DEF ExpireInMemory, TypeOK
    <3> QED BY <1>3, <3>1 DEF ExpireInMemory, Stored, Gone
  <2> QED BY <1>3, <2>1, SameCaused DEF ExpireInMemory, requests
<1>4. ASSUME NEW p \in Process, Restart(p) PROVE Caused
  <2>1. \A k \in Key : Stored(k) => Stored(k)' \/ Gone(k)'
    <3>1. \A q \in Process, k \in Key : k \in memory[q] => k \in memory'[q] \/ k \in dropped'
      BY <1>4 DEF Restart, TypeOK
    <3> QED BY <1>4, <3>1 DEF Restart, Stored, Gone
  <2>2. ASSUME NEW k \in Key, OnItsWay(k) PROVE OnItsWay(k)' \/ k[2] \in withheld'
    <3>1. PICK u \in Thread : making[u] = k[2] /\ \E i \in DOMAIN todo[u] : todo[u][i] = Call("set", k)
      BY <2>2 DEF OnItsWay
    <3>2. CASE Home[u] = p
      <4>1. k[2] # 0
        BY KeyParts, GrantNat
      <4> QED BY <1>4, <3>1, <3>2, <4>1 DEF Restart
    <3>3. CASE Home[u] # p
      <4>1. todo'[u] = todo[u] /\ making'[u] = making[u]
        BY <1>4, <3>3 DEF Restart
      <4> QED BY <3>1, <4>1 DEF OnItsWay
    <3> QED BY <3>2, <3>3
  <2>3. /\ issued' = issued /\ spent' = spent /\ withheld \subseteq withheld'
        /\ dropped \subseteq dropped'
    BY <1>4 DEF Restart
  <2>4. (\A k \in Due' : k \in Due) /\ \A g \in Grant : spent'[g] \in Nat /\ spent'[g] >= spent[g]
    BY <2>3 DEF Due, TypeOK
  <2> QED BY <2>1, <2>2, <2>3, <2>4 DEF Caused
<1> QED BY <1>1, <1>2, <1>3, <1>4 DEF Environment

\* The calls of a thread after a step are what is left, none, those of a new grant,
\* deletions whose cause is given, or one that stores nothing.
LEMMA OrderlyCalls ==
    ASSUME TypeOK, NEW t \in Thread, Next
    PROVE  \/ \E j \in {0, 1} : \A i \in DOMAIN todo'[t] :
                 i + j \in DOMAIN todo[t] /\ todo'[t][i] = todo[t][i + j]
           \/ \A i \in DOMAIN todo'[t] : todo'[t][i].cmd \in {"set", "get"}
           \/ \A i \in DOMAIN todo'[t] : todo'[t][i].cmd = "delete" /\ todo'[t][i].key \in dropped'
           \/ \A i \in DOMAIN todo'[t] : todo'[t][i].cmd \in {"get", "getdel"}
<1> DEFINE Same(u) == \E j \in {0, 1} : \A i \in DOMAIN todo'[u] :
                         i + j \in DOMAIN todo[u] /\ todo'[u][i] = todo[u][i + j]
           New(u) == \A i \in DOMAIN todo'[u] : todo'[u][i].cmd \in {"set", "get"}
<1>0. todo[t] \in Seq(Calls) /\ DOMAIN todo[t] \subseteq Nat
  BY DEF TypeOK
<1>1. todo'[t] = todo[t] => Same(t)
  BY <1>0
<1>2. todo'[t] = <<>> => Same(t)
  OBVIOUS
<1>3. ~Idle(t) /\ todo'[t] = Tail(todo[t]) => Same(t)
  BY HeadType
<1> HIDE DEF Same, New
<1>4. ASSUME NEW u \in Thread, ~Idle(u), NextCall(u) PROVE Same(t)
  <2>1. todo'[t] = todo[t] \/ (t = u /\ todo'[t] = Tail(todo[t]))
    BY <1>4 DEF NextCall, TypeOK
  <2> QED BY <1>1, <1>3, <1>4, <2>1
<1>5. ASSUME NEW u \in Thread, NEW r, Issue(u, issued + 1, r) PROVE Same(t) \/ New(t)
  <2>1. issued + 1 \in Grant /\ (todo'[t] = todo[t] \/ todo'[t] = IssueCalls(issued + 1))
    BY <1>5 DEF Issue, TypeOK
  <2> QED BY <1>1, <2>1, IssueCallsType DEF New
<1>6. ASSUME NEW u \in Thread, NEW calls, Begin(u, calls) PROVE Same(t) \/ todo'[t] = calls
  BY <1>1, <1>6 DEF Begin, TypeOK
<1>7. ASSUME NEW u \in Thread, ~Idle(u), NEW c, NEW found, Finish(u, c, found) PROVE Same(t) \/ New(t)
  BY <1>4, <1>5, <1>7 DEF Finish, Exchanged
<1>8. ASSUME NEW u \in Thread, Request(u)
      PROVE  \/ Same(t) \/ New(t)
             \/ \A i \in DOMAIN todo'[t] : todo'[t][i].cmd = "delete" /\ todo'[t][i].key \in dropped'
             \/ \A i \in DOMAIN todo'[t] : todo'[t][i].cmd \in {"get", "getdel"}
  <2>1. CASE Login(u)
    BY <1>5, <2>1 DEF Login
  <2>2. ASSUME NEW g \in Grant, Authenticate(u, g) \/ Exchange(u, g)
        PROVE  Same(t) \/ \A i \in DOMAIN todo'[t] : todo'[t][i].cmd \in {"get", "getdel"}
    <3>1. PICK cmd \in {"get", "getdel"} : \E k : Begin(u, <<Call(cmd, k)>>)
      BY <2>2 DEF Authenticate, Exchange
    <3>2. PICK k : Begin(u, <<Call(cmd, k)>>)
      BY <3>1
    <3> QED BY <1>6, <3>2 DEF Call
  <2>3. ASSUME NEW g \in Grant, NEW tokens \in Credentials(g), Logout(u, g, tokens)
        PROVE  \/ Same(t)
               \/ \A i \in DOMAIN todo'[t] : todo'[t][i].cmd = "delete" /\ todo'[t][i].key \in dropped'
    <3> DEFINE calls == [i \in DOMAIN tokens |-> Call("delete", tokens[i])]
    <3>1. Begin(u, calls) /\ dropped' = dropped \cup {tokens[i] : i \in DOMAIN tokens}
      BY <2>3 DEF Logout
    <3>2. \A i \in DOMAIN calls : calls[i].cmd = "delete" /\ calls[i].key \in dropped'
      BY <3>1 DEF Call
    <3> QED BY <1>6, <3>1, <3>2
  <2>4. CASE RedisAnswers(u)
    BY <1>1, <1>7, <2>4 DEF RedisAnswers, ToMemory
  <2>5. CASE RedisSkipped(u) \/ \E effect \in BOOLEAN : RedisFails(u, effect)
    BY <1>1, <2>5 DEF RedisSkipped, RedisFails, ToMemory
  <2>6. CASE MemoryAnswers(u)
    BY <1>7, <2>6 DEF MemoryAnswers
  <2> QED BY <1>8, <2>1, <2>2, <2>3, <2>4, <2>5, <2>6 DEF Request
<1>9. ASSUME Environment PROVE Same(t)
  <2>1. ASSUME NEW p \in Process, Restart(p) PROVE Same(t)
    BY <1>1, <1>2, <2>1 DEF Restart
  <2> QED BY <1>1, <1>9, <2>1 DEF Environment, CooldownBegins, CooldownEnds, ExpireInRedis,
                                  ExpireInMemory, requests
<1> QED BY <1>8, <1>9 DEF Next, Same, New

LEMMA CallsHeld ==
    ASSUME TypeOK, DeletesDropped, ExchangesAlone, Next, dropped \subseteq dropped'
    PROVE  DeletesDropped' /\ ExchangesAlone'
<1> SUFFICES ASSUME NEW t \in Thread
             PROVE  \A i, j \in DOMAIN todo'[t] :
                       /\ todo'[t][i].cmd = "delete" => todo'[t][i].key \in dropped'
                       /\ todo'[t][i].cmd = "getdel" => todo'[t][j].cmd # "set"
  BY DEF DeletesDropped, ExchangesAlone
<1>1. CASE \E j \in {0, 1} : \A i \in DOMAIN todo'[t] :
               i + j \in DOMAIN todo[t] /\ todo'[t][i] = todo[t][i + j]
  BY <1>1 DEF DeletesDropped, ExchangesAlone
<1> QED BY <1>1, OrderlyCalls

LEMMA HeldAlways == Spec => []HeldInv
<1>1. Init => HeldInv
  BY GrantNat, KeyParts DEF Init, HeldInv, Held, Due, DeletesDropped, ExchangesAlone
<1>2. TypeOK /\ RevInv /\ PendInv /\ HeldInv /\ [Next]_vars => HeldInv'
  <2> SUFFICES ASSUME TypeOK, RevInv, PendInv, HeldInv, [Next]_vars PROVE HeldInv'
    OBVIOUS
  <2>1. CASE Next
    <3>1. Caused
      BY <2>1, RequestCaused, EnvironmentCaused DEF Next, RevInv, CallsInv
    <3> QED BY <2>1, <3>1, CausedHeld, CallsHeld DEF HeldInv, Caused
  <2>2. CASE UNCHANGED vars
    BY <2>2 DEF vars, stores, requests, history, HeldInv, Held, Due, DeletesDropped, ExchangesAlone,
                Gone, Stored, OnItsWay
  <2> QED BY <2>1, <2>2
<1> QED BY <1>1, <1>2, TypeCorrect, RevAlways, PendAlways, PTL DEF Spec

(* A token that a client holds is in some store until it is exchanged,     *)
(* deleted or expired, or a failure took it: whatever Redis does, reading  *)
(* finds what writing stored.                                              *)
THEOREM HeldTokensStay == Spec => []HeldTokensKept
<1>1. TypeOK /\ RevInv /\ HeldInv => HeldTokensKept
  <2> SUFFICES ASSUME TypeOK, RevInv, HeldInv, NEW g \in Known
               PROVE  /\ Access(g) \in dropped \/ Stored(Access(g))
                      /\ Refresh(g) \in dropped \/ spent[g] > 0 \/ Stored(Refresh(g))
    BY DEF HeldTokensKept
  <2>1. g \in (1..issued) \ withheld /\ g \in Grant
    BY AuthAssumption DEF Known, TypeOK, Grant
  <2>2. /\ Access(g) \in Due /\ Refresh(g) \in Due
        /\ Access(g)[1] = "access" /\ Refresh(g)[1] = "refresh"
        /\ Access(g)[2] = g /\ Refresh(g)[2] = g
    BY <2>1, KeyTypes DEF Due, Access, Refresh
  <2>3. \A t \in Thread : making[t] # g
    BY DEF Known
  <2>4. ~OnItsWay(Access(g)) /\ ~OnItsWay(Refresh(g))
    BY <2>2, <2>3 DEF OnItsWay
  <2> QED BY <2>2, <2>4 DEF HeldInv, Held, Gone
<1> QED BY <1>1, TypeCorrect, RevAlways, HeldAlways, PTL
=============================================================================
