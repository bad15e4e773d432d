---------------------------- MODULE SqliteAccess ----------------------------
(***************************************************************************)
(* SQLite (flask_server/module/sqlite.py): one connection per thread on    *)
(* one file, statements that begin a transaction by themselves, and a few  *)
(* attempts when the file is locked.                                       *)
(*                                                                         *)
(* SQLite is external: one connection at a time has the write lock, from   *)
(* its first statement to its commit or rollback, also when the statement  *)
(* fails a constraint; without the write-ahead log a commit needs the file *)
(* without readers, and what it did not commit stays in the transaction.   *)
(***************************************************************************)
EXTENDS Integers, Sequences, FiniteSets, SequencesExt

CONSTANTS Thread,      \* threads, each with its connection
          Write,       \* calls of insert, update and delete
          Violating,   \* those whose statement fails a constraint
          Malformed,   \* those with a table or column name that is refused
          Retries,     \* _LOCKED_RETRIES
          MaxReads     \* bound: calls of select

None == "none"

\* What the constants are; ASSUMEd where the module is instantiated.
SqliteAssumption ==
    /\ Violating \subseteq Write /\ Malformed \subseteq Write
    /\ Retries \in Nat /\ MaxReads \in Nat
    /\ None \notin Thread

VARIABLES wal,         \* the journal mode pragma worked
          db,          \* history: the committed writes, in order
          pending,     \* the writes in the open transaction of each connection
          locker,      \* the thread whose connection has the write lock
          reading,     \* threads in fetch
          reads,       \* how many calls of fetch there were
          stage,       \* where each thread is
          writing,     \* the call it executes
          attempt,     \* its attempt
          result,      \* what each call returned
          cause        \* history: how the last call of each thread ended

vars == <<wal, db, pending, locker, reading, reads, stage, writing, attempt, result, cause>>

\* A read-only file system or a pragma that fails leaves the rollback journal.
Init ==
    /\ wal \in BOOLEAN
    /\ db = <<>>
    /\ pending = [t \in Thread |-> <<>>]
    /\ locker = None
    /\ reading = {} /\ reads = 0
    /\ stage = [t \in Thread |-> "idle"]
    /\ writing = [t \in Thread |-> None]
    /\ attempt = [t \in Thread |-> 0]
    /\ result = [w \in Write |-> "none"]
    /\ cause = [t \in Thread |-> "none"]

Proceed(t, s) == stage' = [stage EXCEPT ![t] = s]
Returns(t, r) ==
    /\ Proceed(t, "idle")
    /\ result' = [result EXCEPT ![writing[t]] = r]
    /\ cause' = [cause EXCEPT ![t] = r]
-----------------------------------------------------------------------------
\* insert, update and delete build the statement: a bad identifier goes no further.
Call(t, w) ==
    /\ stage[t] = "idle" /\ t \notin reading /\ result[w] = "none"
    /\ \A u \in Thread : stage[u] # "idle" => writing[u] # w
    /\ IF w \in Malformed
       THEN result' = [result EXCEPT ![w] = "invalid"] /\ UNCHANGED <<stage, writing, attempt>>
       ELSE /\ writing' = [writing EXCEPT ![t] = w]
            /\ attempt' = [attempt EXCEPT ![t] = 0]
            /\ Proceed(t, "execute") /\ UNCHANGED result
    /\ UNCHANGED <<wal, db, pending, locker, reading, reads, cause>>

MayWrite(t) == locker \in {None, t}

\* The statement begins a transaction, or goes on in the one an earlier call left.
Execute(t) ==
    /\ stage[t] = "execute" /\ MayWrite(t) /\ writing[t] \notin Violating
    /\ locker' = t
    /\ pending' = [pending EXCEPT ![t] = Append(@, writing[t])]
    /\ Proceed(t, "commit")
    /\ UNCHANGED <<wal, db, reading, reads, writing, attempt, result, cause>>

\* IntegrityError is no OperationalError: it leaves execute with the transaction open.
ViolatesConstraint(t) ==
    /\ stage[t] = "execute" /\ MayWrite(t) /\ writing[t] \in Violating
    /\ locker' = t
    /\ Returns(t, "constraint")
    /\ UNCHANGED <<wal, db, pending, reading, reads, writing, attempt>>

MayCommit(t) == wal \/ reading \ {t} = {}

\* Mutant: the commit is forgotten, and the transaction left open.
CommitForgotten(t) ==
    /\ stage[t] = "commit" /\ MayCommit(t)
    /\ Returns(t, "written")
    /\ UNCHANGED <<wal, db, pending, locker, reading, reads, writing, attempt>>

Commit(t) ==
    /\ stage[t] = "commit" /\ MayCommit(t)
    /\ db' = db \o pending[t]
    /\ pending' = [pending EXCEPT ![t] = <<>>]
    /\ locker' = None
    /\ Returns(t, "written")
    /\ UNCHANGED <<wal, reading, reads, writing, attempt>>

\* busy_timeout has passed.
Locked(t) == \/ stage[t] = "execute" /\ ~MayWrite(t)
             \/ stage[t] = "commit" /\ ~MayCommit(t)

\* Mutant: no rollback before the next attempt.
RolledBackNever(t) == FALSE
RolledBack(t) == TRUE

Retry(t) ==
    /\ Locked(t) /\ attempt[t] < Retries
    /\ attempt' = [attempt EXCEPT ![t] = @ + 1]
    /\ IF RolledBack(t)
       THEN /\ pending' = [pending EXCEPT ![t] = <<>>]
            /\ locker' = IF locker = t THEN None ELSE locker
       ELSE UNCHANGED <<pending, locker>>
    /\ Proceed(t, "execute")
    /\ UNCHANGED <<wal, db, reading, reads, writing, result, cause>>

\* The last attempt raises, and does not roll back.
GiveUp(t) ==
    /\ Locked(t) /\ attempt[t] = Retries
    /\ Returns(t, IF stage[t] = "commit" THEN "uncommitted" ELSE "locked")
    /\ UNCHANGED <<wal, db, pending, locker, reading, reads, writing, attempt>>

\* fetch: the file has a reader from execute to the end of fetchall.
Fetch(t) ==
    /\ stage[t] = "idle" /\ t \notin reading /\ reads < MaxReads
    /\ reads' = reads + 1
    /\ reading' = reading \cup {t}
    /\ UNCHANGED <<wal, db, pending, locker, stage, writing, attempt, result, cause>>

FetchAll(t) ==
    /\ t \in reading
    /\ reading' = reading \ {t}
    /\ UNCHANGED <<wal, db, pending, locker, reads, stage, writing, attempt, result, cause>>

Next ==
    \E t \in Thread :
      \/ \E w \in Write : Call(t, w)
      \/ Execute(t) \/ ViolatesConstraint(t) \/ Commit(t) \/ Retry(t) \/ GiveUp(t)
      \/ Fetch(t) \/ FetchAll(t)

Spec == Init /\ [][Next]_vars
-----------------------------------------------------------------------------
(* Properties. *)

TypeOK ==
    /\ wal \in BOOLEAN
    /\ db \in Seq(Write)
    /\ pending \in [Thread -> Seq(Write)]
    /\ locker \in Thread \cup {None}
    /\ reading \subseteq Thread /\ reads \in 0..MaxReads
    /\ stage \in [Thread -> {"idle", "execute", "commit"}]
    /\ writing \in [Thread -> Write \cup {None}]
    /\ attempt \in [Thread -> 0..Retries]
    /\ result \in [Write -> {"none", "invalid", "constraint", "written", "uncommitted", "locked"}]

Committed(w) == \E i \in 1..Len(db) : db[i] = w

\* No attempt writes twice, a write that returned is in the file, and one that raised is
\* not; only without the write-ahead log a write whose last commit failed may still
\* come with the next call of its thread (sqlite.py:116-136).
WrittenOnce ==
    /\ IsInjective(db)
    /\ \A w \in Write :
         /\ result[w] = "written" => Committed(w)
         /\ Committed(w) => result[w] = "written" \/ (result[w] = "uncommitted" /\ ~wal)

\* The file stays locked for the other writers after a call only when the last call of
\* the thread failed a constraint or its last commit (sqlite.py:126-136).
LockLeftForCause ==
    \A t \in Thread :
      locker = t /\ stage[t] = "idle" => cause[t] \in {"constraint", "uncommitted"}
=============================================================================
