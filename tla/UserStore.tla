------------------------------ MODULE UserStore ------------------------------
(***************************************************************************)
(* Registration of users: AuthService.register and _get_store with the two *)
(* stores of flask_server/component/auth.py, and the transactions of       *)
(* flask_server/module/sqlalchemy.py.                                      *)
(*                                                                         *)
(* The store is made at first use, without a lock.  A memory store is an   *)
(* object of its own, numbered here; every SqlAlchemyAuthStore stands for  *)
(* the one table, external here, whose unique index is on the username.    *)
(***************************************************************************)
EXTENDS Integers, FiniteSets

CONSTANTS Call,        \* calls of register and login, each in a thread of its own
          Login,       \* those that only look the user up, a subset of Call
          Name,        \* usernames
          NameOf,      \* NameOf[c]: the username of call c
          MaxFaults    \* bound: commits the database fails

\* What the constants are; ASSUMEd where the module is instantiated.
StoreAssumption ==
    /\ IsFiniteSet(Call) /\ Login \subseteq Call
    /\ NameOf \in [Call -> Name]
    /\ MaxFaults \in Nat

Store == 0..Cardinality(Call)
Missing == 0

VARIABLES sql,       \* AUTH_STORE=sqlalchemy
          store,     \* AuthService._store
          made,      \* how many stores were made
          users,     \* the usernames of each memory store; of the table, at Missing
          stage,     \* where each call is
          held,      \* the store it works on
          faults,    \* how much of the bound is used
          result,    \* what it returned
          early      \* history: calls that began while the store was being made

vars == <<sql, store, made, users, stage, held, faults, result, early>>

Init ==
    /\ sql \in BOOLEAN
    /\ store = Missing /\ made = 0
    /\ users = [s \in Store |-> {}]
    /\ stage = [c \in Call |-> "new"]
    /\ held = [c \in Call |-> Missing]
    /\ faults = 0
    /\ result = [c \in Call |-> "none"]
    /\ early = {}

Proceed(c, s) == stage' = [stage EXCEPT ![c] = s]
Returns(c, r) ==
    /\ Proceed(c, "done")
    /\ result' = [result EXCEPT ![c] = r]

\* The usernames where call c works: the table is one for all.
Place(c) == IF sql THEN Missing ELSE held[c]
Taken(c) == NameOf[c] \in users[Place(c)]
Add(c) == users' = [users EXCEPT ![Place(c)] = @ \cup {NameOf[c]}]
-----------------------------------------------------------------------------
(* _get_store. *)

Making == store = Missing \/ \E c \in Call : stage[c] = "make"

Begin(c) ==
    /\ stage[c] = "new"
    /\ early' = IF Making THEN early \cup {c} ELSE early
    /\ Proceed(c, IF store = Missing THEN "make" ELSE "get")
    /\ UNCHANGED <<sql, store, made, users, held, faults, result>>

\* Whoever saw no store assigns a new one, and may replace that of another call.
MakeStore(c) ==
    /\ stage[c] = "make"
    /\ made' = made + 1
    /\ store' = made'
    /\ Proceed(c, "got")
    /\ UNCHANGED <<sql, users, held, faults, result, early>>

\* return cls._store, which is read again.
GetStore(c) ==
    /\ stage[c] \in {"get", "got"}
    /\ held' = [held EXCEPT ![c] = store]
    /\ Proceed(c, IF c \in Login THEN "lookup" ELSE IF sql THEN "select" ELSE "create")
    /\ UNCHANGED <<sql, store, made, users, faults, result, early>>
-----------------------------------------------------------------------------
(* create and get_by_username. *)

\* MemoryAuthStore.create, under the lock of that store.
CreateInMemory(c) ==
    /\ stage[c] = "create"
    /\ IF Taken(c) THEN UNCHANGED users ELSE Add(c)
    /\ Returns(c, IF Taken(c) THEN "duplicate" ELSE "registered")
    /\ UNCHANGED <<sql, store, made, held, faults, early>>

\* _do_create: the query, then the new row, which is flushed at the commit.
Select(c) ==
    /\ stage[c] = "select"
    /\ IF Taken(c) THEN Returns(c, "duplicate") ELSE Proceed(c, "commit") /\ UNCHANGED result
    /\ UNCHANGED <<sql, store, made, users, held, faults, early>>

\* Mutant: the column has no unique index.
ConflictNever(c) == FALSE
\* IntegrityError.
Conflict(c) == Taken(c)

Commit(c) ==
    /\ stage[c] = "commit" /\ ~Conflict(c)
    /\ Add(c)
    /\ Returns(c, "registered")
    /\ UNCHANGED <<sql, store, made, held, faults, early>>

\* sqlalchemy_trans rolls back; create says what the query would have said.
CommitConflicts(c) ==
    /\ stage[c] = "commit" /\ Conflict(c)
    /\ Returns(c, "duplicate")
    /\ UNCHANGED <<sql, store, made, users, held, faults, early>>

\* The database fails; the row may be there, when only the answer is lost.
CommitFails(c) ==
    /\ stage[c] = "commit" /\ faults < MaxFaults
    /\ faults' = faults + 1
    /\ \/ ~Conflict(c) /\ Add(c)
       \/ UNCHANGED users
    /\ Returns(c, "raised")
    /\ UNCHANGED <<sql, store, made, held, early>>

Lookup(c) ==
    /\ stage[c] = "lookup"
    /\ Returns(c, IF Taken(c) THEN "found" ELSE "unknown")
    /\ UNCHANGED <<sql, store, made, users, held, faults, early>>

Next ==
    \E c \in Call :
      \/ Begin(c) \/ MakeStore(c) \/ GetStore(c) \/ CreateInMemory(c)
      \/ Select(c) \/ Commit(c) \/ CommitConflicts(c) \/ CommitFails(c) \/ Lookup(c)

Spec == Init /\ [][Next]_vars
-----------------------------------------------------------------------------
(* Properties. *)

TypeOK ==
    /\ sql \in BOOLEAN
    /\ store \in Store /\ made \in Store
    /\ users \in [Store -> SUBSET Name]
    /\ stage \in [Call -> {"new", "make", "get", "got", "create", "select", "commit", "lookup",
                           "done"}]
    /\ held \in [Call -> Store]
    /\ faults \in 0..MaxFaults
    /\ result \in [Call -> {"none", "registered", "duplicate", "raised", "found", "unknown"}]
    /\ early \subseteq Call

Current == users[IF sql THEN Missing ELSE store]

\* In memory, calls made while the first store is assigned may work on one that is lost.
Safe(c) == result[c] = "registered" /\ (sql \/ c \notin early)

\* A username has one owner, though the query and the insertion are two steps, and who
\* registered is known from then on; in memory this holds once the store has been made,
\* not for the calls that race to make it (auth.py:154-162, 187-206, 241-253).
OneOwner ==
    /\ \A c, d \in Call : Safe(c) /\ Safe(d) /\ c # d => NameOf[c] # NameOf[d]
    /\ \A c \in Call : Safe(c) => NameOf[c] \in Current
=============================================================================
