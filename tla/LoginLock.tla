----------------------------- MODULE LoginLock -----------------------------
(***************************************************************************)
(* The lock against guessed passwords in AuthService.login                 *)
(* (flask_server/component/auth.py), for one username and address: a       *)
(* counter of failures and a lock, both in Redis or, while Redis is not    *)
(* reachable, in the memory of the process.                                *)
(*                                                                         *)
(* Each call of the cache is one step, the password hash between them is   *)
(* slow.  The lock holds the time it ends, a little before its key expires:*)
(* in between it is stale, and whoever reads it deletes it.                *)
(***************************************************************************)
EXTENDS Integers, FiniteSets

CONSTANTS Thread,        \* threads that serve a login
          MaxFails,      \* AUTH_LOGIN_MAX_FAILS
          MaxLogins,     \* bound: calls of login
          MaxExpiries,   \* bound: times a lock or a counter expires
          MaxFlips       \* bound: times Redis goes away or comes back

\* What the constants are; ASSUMEd where the module is instantiated.
LockAssumption ==
    /\ IsFiniteSet(Thread)
    /\ MaxFails \in Nat \ {0}
    /\ MaxLogins \in Nat /\ MaxExpiries \in Nat /\ MaxFlips \in Nat

Store == {"redis", "memory"}

VARIABLES up,        \* Redis answers
          flips,     \* how often that has changed
          lock,      \* the lock in each store
          fails,     \* the counter in each store
          logins, expiries,   \* how much of each bound is used
          stage,     \* where each thread is
          guesses,   \* history: wrong passwords since something expired or one was right
          forgiven   \* history: times a late login threw away what others had counted

vars == <<up, flips, lock, fails, logins, expiries, stage, guesses, forgiven>>

\* Without REDIS_URL there is only the memory.
Init ==
    /\ up \in BOOLEAN /\ flips = 0
    /\ lock = [s \in Store |-> "none"]
    /\ fails = [s \in Store |-> 0]
    /\ logins = 0 /\ expiries = 0
    /\ stage = [t \in Thread |-> "idle"]
    /\ guesses = 0 /\ forgiven = 0

Proceed(t, s) == stage' = [stage EXCEPT ![t] = s]

\* _cache_set and _cache_incr use this store, _cache_get falls back, and _cache_delete
\* deletes in the memory and in the Redis that answers.
Used == IF up THEN "redis" ELSE "memory"
SeenLock == IF lock[Used] # "none" THEN lock[Used] ELSE lock["memory"]
Reached == {Used, "memory"}
-----------------------------------------------------------------------------
\* _is_login_locked, when the lock has not ended.
Locked == SeenLock = "live"

Login(t) ==
    /\ stage[t] = "idle" /\ logins < MaxLogins
    /\ logins' = logins + 1
    /\ Proceed(t, IF Locked THEN "idle" ELSE IF SeenLock = "stale" THEN "clear" ELSE "hash")
    /\ UNCHANGED <<up, flips, lock, fails, expiries, guesses, forgiven>>

\* It has ended: its key is deleted, whatever lock it is by now.
ClearLock(t) ==
    /\ stage[t] = "clear"
    /\ forgiven' = IF \E s \in Reached : lock[s] = "live" THEN forgiven + 1 ELSE forgiven
    /\ lock' = [s \in Store |-> IF s \in Reached THEN "none" ELSE lock[s]]
    /\ Proceed(t, "hash")
    /\ UNCHANGED <<up, flips, fails, logins, expiries, guesses>>

\* No such user, or a wrong password; both take the time of a hash.
WrongPassword(t) ==
    /\ stage[t] = "hash"
    /\ guesses' = guesses + 1
    /\ Proceed(t, "fail")
    /\ UNCHANGED <<up, flips, lock, fails, logins, expiries, forgiven>>

RightPassword(t) ==
    /\ stage[t] = "hash"
    /\ Proceed(t, "succeed")
    /\ UNCHANGED <<up, flips, lock, fails, logins, expiries, guesses, forgiven>>

\* Mutant: one failure more.
EnoughAfter(n) == n > MaxFails
Enough(n) == n >= MaxFails

\* _record_login_fail; the count over all addresses is only for the log.
CountFail(t) ==
    /\ stage[t] = "fail"
    /\ fails' = [fails EXCEPT ![Used] = @ + 1]
    /\ Proceed(t, IF Enough(fails'[Used]) THEN "lock" ELSE "idle")
    /\ UNCHANGED <<up, flips, lock, logins, expiries, guesses, forgiven>>

SetLock(t) ==
    /\ stage[t] = "lock"
    /\ lock' = [lock EXCEPT ![Used] = "live"]
    /\ Proceed(t, "reset")
    /\ UNCHANGED <<up, flips, fails, logins, expiries, guesses, forgiven>>

ForgetFails == fails' = [s \in Store |-> IF s \in Reached THEN 0 ELSE fails[s]]

ResetFails(t) ==
    /\ stage[t] = "reset"
    /\ forgiven' = IF SeenLock # "live" /\ \E s \in Reached : fails[s] > 0
                   THEN forgiven + 1 ELSE forgiven
    /\ ForgetFails
    /\ Proceed(t, "idle")
    /\ UNCHANGED <<up, flips, lock, logins, expiries, guesses>>

\* _clear_login_fail, then the tokens are issued (AuthTokens).
ClearFails(t) ==
    /\ stage[t] = "succeed"
    /\ ForgetFails
    /\ guesses' = 0
    /\ Proceed(t, "idle")
    /\ UNCHANGED <<up, flips, lock, logins, expiries, forgiven>>
-----------------------------------------------------------------------------
(* Time, and Redis. *)

\* AUTH_LOGIN_LOCK_SECONDS have passed since the lock was set.
LockEnds(s) ==
    /\ lock[s] = "live" /\ expiries < MaxExpiries
    /\ expiries' = expiries + 1
    /\ lock' = [lock EXCEPT ![s] = "stale"]
    /\ guesses' = 0
    /\ UNCHANGED <<up, flips, fails, logins, stage, forgiven>>

LockKeyExpires(s) ==
    /\ lock[s] = "stale"
    /\ lock' = [lock EXCEPT ![s] = "none"]
    /\ UNCHANGED <<up, flips, fails, logins, expiries, stage, guesses, forgiven>>

\* As long without a failure.
FailsExpire(s) ==
    /\ fails[s] > 0 /\ expiries < MaxExpiries
    /\ expiries' = expiries + 1
    /\ fails' = [fails EXCEPT ![s] = 0]
    /\ guesses' = 0
    /\ UNCHANGED <<up, flips, lock, logins, stage, forgiven>>

Flip ==
    /\ flips < MaxFlips
    /\ flips' = flips + 1 /\ up' = ~up
    /\ UNCHANGED <<lock, fails, logins, expiries, stage, guesses, forgiven>>

Attempt(t) ==
    \/ Login(t) \/ ClearLock(t) \/ WrongPassword(t) \/ RightPassword(t)
    \/ CountFail(t) \/ SetLock(t) \/ ResetFails(t) \/ ClearFails(t)

Next ==
    \/ \E t \in Thread : Attempt(t)
    \/ \E s \in Store : LockEnds(s) \/ LockKeyExpires(s) \/ FailsExpire(s)
    \/ Flip

Spec == Init /\ [][Next]_vars
-----------------------------------------------------------------------------
(* Properties. *)

TypeOK ==
    /\ up \in BOOLEAN /\ flips \in 0..MaxFlips
    /\ lock \in [Store -> {"none", "live", "stale"}]
    /\ fails \in [Store -> Nat]
    /\ logins \in 0..MaxLogins /\ expiries \in 0..MaxExpiries
    /\ stage \in [Thread -> {"idle", "clear", "hash", "fail", "lock", "reset", "succeed"}]
    /\ guesses \in Nat /\ forgiven \in Nat

\* Until a lock or a counter expires, wrong passwords are tried as often as the limit
\* says, and at most once more by each other thread that was past the check; a login that
\* deletes the lock after its own, or the counter after the lock, gives one limit more,
\* and so does each change between Redis and the memory (auth.py:265-299, 315-328).
GuessesBounded ==
    guesses <= (MaxFails + Cardinality(Thread) - 1) * (1 + forgiven + flips)
=============================================================================
