---------------------------- MODULE KeyGenerator ----------------------------
(***************************************************************************)
(* Snowflake identifiers (flask_server/util/key_generator.py): processes   *)
(* of one host, each with its SnowflakeIdWorker, made on first use, shared *)
(* by the threads of the process.                                          *)
(*                                                                         *)
(* The clock, in milliseconds since twepoch, is the host's: it advances by *)
(* itself and an adjustment may set it back.  next_id holds the worker's   *)
(* lock from its reading of the clock to the identifier, so that it is one *)
(* step, except that a full millisecond is waited out with the lock held.  *)
(***************************************************************************)
EXTENDS Integers, Sequences

CONSTANTS Process,       \* processes that issue identifiers
          Thread,        \* their threads
          Home,          \* Home[t]: the process of thread t
          Configured,    \* SNOWFLAKE_WORKER_ID of each process, or Unset
          Seed,          \* crc32(hostname) + pid, what a worker id is derived from
          Machines,      \* 2^5 worker ids (the datacenter id is the same for all)
          SequenceSize,  \* 2^12 identifiers in a millisecond
          MaxClock,      \* bound: how far the clock goes when nobody waits for it
          MaxBacks,      \* bound: how often it is set back
          MaxCalls       \* bound: calls of generate_snowflake_id

Unset == -1

ASSUME KeyAssumption ==
    /\ Home \in [Thread -> Process]
    /\ Machines \in Nat \ {0} /\ SequenceSize \in Nat \ {0}
    /\ Seed \in [Process -> Nat]
    /\ Configured \in [Process -> {Unset} \cup 0..(Machines - 1)]
    /\ MaxClock \in Nat /\ MaxBacks \in Nat /\ MaxCalls \in Nat

VARIABLES clock,     \* the host's clock
          backs,     \* how often it was set back
          calls,     \* how many calls were made
          created,   \* processes whose KeyGenerator._worker is set
          last,      \* last_timestamp of each worker
          sequence,  \* its sequence
          stage,     \* where each thread is
          issued     \* history: the identifiers each process issued, in order

vars == <<clock, backs, calls, created, last, sequence, stage, issued>>

Init ==
    /\ clock = 0 /\ backs = 0 /\ calls = 0
    /\ created = {}
    /\ last = [p \in Process |-> -1]
    /\ sequence = [p \in Process |-> 0]
    /\ stage = [t \in Thread |-> "idle"]
    /\ issued = [p \in Process |-> <<>>]

\* _resolve_worker_id and _derive_worker_id.
WorkerId(p) == IF Configured[p] # Unset THEN Configured[p] ELSE Seed[p] % Machines

\* The shifts and ors of next_id: the fields are in range, so they are sums.
Pack(timestamp, worker, seq) == (timestamp * Machines + worker) * SequenceSize + seq

Holder(p) == {t \in Thread : Home[t] = p /\ stage[t] = "spin"}
Free(p) == Holder(p) = {}
Proceed(t, s) == stage' = [stage EXCEPT ![t] = s]
-----------------------------------------------------------------------------
(* The clock. *)

Tick ==
    /\ clock' = clock + 1
    /\ UNCHANGED <<backs, calls, created, last, sequence, stage, issued>>

\* Bound: beyond MaxClock time goes on only for who waits for it.
TimePasses == clock < MaxClock /\ Tick
TimePassesForWaiter ==
    /\ \E t \in Thread : stage[t] = "spin" /\ clock <= last[Home[t]]
    /\ Tick

SetBack ==
    /\ backs < MaxBacks
    /\ backs' = backs + 1
    /\ clock' \in 0..(clock - 1)
    /\ UNCHANGED <<calls, created, last, sequence, stage, issued>>
-----------------------------------------------------------------------------
(* generate_snowflake_id. *)

\* _get_worker, the check without the lock.
Generate(t) ==
    /\ stage[t] = "idle" /\ calls < MaxCalls
    /\ calls' = calls + 1
    /\ Proceed(t, IF Home[t] \in created THEN "ready" ELSE "unset")
    /\ UNCHANGED <<clock, backs, created, last, sequence, issued>>

\* Mutant: no second check under the class's lock, a later worker replaces the first.
MustCreateAlways(p) == TRUE
MustCreate(p) == p \notin created

\* _get_worker under _worker_lock.
GetWorker(t) == LET p == Home[t] IN
    /\ stage[t] = "unset"
    /\ created' = created \cup {p}
    /\ last' = [last EXCEPT ![p] = IF MustCreate(p) THEN -1 ELSE @]
    /\ sequence' = [sequence EXCEPT ![p] = IF MustCreate(p) THEN 0 ELSE @]
    /\ Proceed(t, "ready")
    /\ UNCHANGED <<clock, backs, calls, issued>>

Issue(t, seq) == LET p == Home[t] IN
    /\ last' = [last EXCEPT ![p] = clock]
    /\ sequence' = [sequence EXCEPT ![p] = seq]
    /\ issued' = [issued EXCEPT ![p] = Append(@, Pack(clock, WorkerId(p), seq))]
    /\ Proceed(t, "idle")
    /\ UNCHANGED <<clock, backs, calls, created>>

WentBack(p) == clock < last[p]

\* "Clock moved backwards": next_id raises.
Refuse(t) ==
    /\ stage[t] = "ready" /\ Free(Home[t]) /\ WentBack(Home[t])
    /\ Proceed(t, "idle")
    /\ UNCHANGED <<clock, backs, calls, created, last, sequence, issued>>

NextInSequence(p) == (sequence[p] + 1) % SequenceSize

NextId(t) == LET p == Home[t] IN
    /\ stage[t] = "ready" /\ Free(p) /\ ~WentBack(p)
    /\ IF clock = last[p]
       THEN NextInSequence(p) # 0 /\ Issue(t, NextInSequence(p))
       ELSE Issue(t, 0)

\* The millisecond is full: the sequence is 0 again, and the lock is kept.
Overflow(t) == LET p == Home[t] IN
    /\ stage[t] = "ready" /\ Free(p) /\ clock = last[p] /\ NextInSequence(p) = 0
    /\ sequence' = [sequence EXCEPT ![p] = 0]
    /\ Proceed(t, "spin")
    /\ UNCHANGED <<clock, backs, calls, created, last, issued>>

\* _til_next_millis.
NextMilli(p) == clock > last[p]

Spin(t) ==
    /\ stage[t] = "spin" /\ NextMilli(Home[t])
    /\ Issue(t, sequence[Home[t]])

Finish(t) == GetWorker(t) \/ Refuse(t) \/ NextId(t) \/ Overflow(t) \/ Spin(t)

Next ==
    \/ TimePasses \/ TimePassesForWaiter \/ SetBack
    \/ \E t \in Thread : Generate(t) \/ Finish(t)

Spec == Init /\ [][Next]_vars
-----------------------------------------------------------------------------
(* Properties. *)

TypeOK ==
    /\ clock \in Nat /\ backs \in 0..MaxBacks /\ calls \in 0..MaxCalls
    /\ created \subseteq Process
    /\ last \in [Process -> Nat \cup {-1}]
    /\ sequence \in [Process -> 0..(SequenceSize - 1)]
    /\ stage \in [Thread -> {"idle", "unset", "ready", "spin"}]
    /\ issued \in [Process -> Seq(Nat)]

\* A process never repeats an identifier and never issues one below an earlier one, over
\* threads that create the worker together, a clock set back and a millisecond whose
\* sequence is used up (key_generator.py:62-93).
IdsIncrease ==
    \A p \in Process : \A i, j \in 1..Len(issued[p]) : i < j => issued[p][i] < issued[p][j]

\* Processes with worker ids of their own issue no identifier twice (key_generator.py:113-126).
IdsDistinct ==
    \A p, q \in Process :
      WorkerId(p) # WorkerId(q) =>
        \A i \in 1..Len(issued[p]), j \in 1..Len(issued[q]) : issued[p][i] # issued[q][j]

\* An identifier is issued once, and each process issues them in increasing order.
IdsUnique == IdsIncrease /\ IdsDistinct
=============================================================================
