------------------------- MODULE TaskQueueRedisProofs -------------------------
(* Theorems about TaskQueueRedis, for every set of tasks and workers and every bound. *)
EXTENDS TaskQueueRedis, FiniteSetTheorems, TLAPS

(* The operators the actions share keep the types of what they change. *)

LEMMA NoJobIsEntry == NoJob \in Entry
BY QueueAssumption DEF NoJob, Entry, Envelope, Error, NewEnvelope, SomeTask

LEMMA NewEnvelopeType == \A t \in Task : NewEnvelope(t) \in Envelope
BY DEF NewEnvelope, Envelope, Error

LEMMA AttemptedType ==
    ASSUME NEW e \in Envelope, NEW x \in Error
    PROVE  Attempted(e, x) \in Envelope /\ Attempted(e, x).task = e.task
BY DEF Attempted, Envelope

LEMMA EntryFields == \A m \in Entry : m.id \in Nat /\ m.env \in Envelope /\ m.env.task \in Task
BY DEF Entry, Envelope

LEMMA JobTaskType == ASSUME ThreadTypeOK, NEW w \in Worker PROVE JobTask(w) \in Task
BY EntryFields DEF ThreadTypeOK, JobTask

LEMMA AnswerType == ASSUME errors \in Nat, NEW r, Answer(r) PROVE errors' \in Nat
BY DEF Answer

LEMMA GotoType ==
    ASSUME ThreadTypeOK, NEW w \in Worker, NEW l \in Pc, Goto(w, l)
    PROVE  pc' \in [Worker -> Pc]
BY DEF Goto, ThreadTypeOK

LEMMA NextMemberType ==
    ASSUME ThreadTypeOK, NEW w \in Worker, NEW m, NextMember(w, m), UNCHANGED fate
    PROVE  ThreadTypeOK'
<1>1. pc' \in [Worker -> Pc]
  BY GotoType DEF NextMember, Pc
<1>2. job' \in [Worker -> Entry] /\ todo' \in [Worker -> SUBSET Entry]
  BY NoJobIsEntry DEF NextMember, ThreadTypeOK
<1> QED BY <1>1, <1>2 DEF ThreadTypeOK

LEMMA RaiseType ==
    ASSUME ThreadTypeOK, NEW w \in Worker, Raise(w), UNCHANGED fate
    PROVE  ThreadTypeOK'
<1>1. pc' \in [Worker -> Pc]
  BY GotoType DEF Raise, Pc
<1>2. job' \in [Worker -> Entry] /\ todo' \in [Worker -> SUBSET Entry]
  BY NoJobIsEntry DEF Raise, ThreadTypeOK
<1> QED BY <1>1, <1>2 DEF ThreadTypeOK

LEMMA LeaveType ==
    ASSUME ThreadTypeOK, NEW w \in Worker, Leave(w)
    PROVE  ThreadTypeOK'
<1>1. pc' \in [Worker -> Pc]
  <2> DEFINE l == IF Without(todo[w], job[w].id) # {} THEN "claim"
                  ELSE IF todo[w] = {} /\ JobTask(w) \in Corrupt THEN "idle" ELSE "loop"
  <2>1. l \in Pc
    BY DEF Pc
  <2>2. Goto(w, l)
    BY DEF Leave
  <2> QED BY <2>1, <2>2, GotoType
<1>2. todo' \in [Worker -> SUBSET Entry]
  BY DEF Leave, Without, ThreadTypeOK
<1>3. job' \in [Worker -> Entry] /\ fate' \in [Worker -> Fate]
  BY NoJobIsEntry DEF Leave, ThreadTypeOK, Fate
<1> QED BY <1>1, <1>2, <1>3 DEF ThreadTypeOK

LEMMA ContinueType ==
    ASSUME ThreadTypeOK, NEW w \in Worker, NEW r, NEW l \in Pc, Continue(w, r, l)
    PROVE  ThreadTypeOK'
<1>1. CASE r = "ok"
  BY <1>1, GotoType DEF Continue, ThreadTypeOK
<1>2. CASE r # "ok"
  BY <1>2, LeaveType DEF Continue
<1> QED BY <1>1, <1>2

LEMMA TearIfType ==
    ASSUME ThreadTypeOK, torn \subseteq Task, NEW w \in Worker, NEW c, TearIf(w, c)
    PROVE  torn' \subseteq Task
BY JobTaskType DEF TearIf

-----------------------------------------------------------------------------
(* One lemma for each part of the code. *)

LEMMA EnqueueType ==
    ASSUME TypeOK, NEW t \in Task, Enqueue(t) \/ RecordQueued(t) PROVE TypeOK'
<1>1. CASE Enqueue(t)
  <2>1. PICK r \in Reply, delay \in Delays : Enqueue(t)!2!(r, delay)
    BY <1>1 DEF Enqueue
  <2>2. errors' \in Nat
    BY <2>1, AnswerType DEF TypeOK, HistoryTypeOK
  <2>3. stream' \subseteq Entry /\ nextId' \in Nat \ {0}
    BY <2>1, NewEnvelopeType DEF TypeOK, RedisTypeOK, XAdd, Entry
  <2>4. delayed' \subseteq Envelope /\ due' \subseteq Envelope
    BY <2>1, NewEnvelopeType DEF TypeOK, RedisTypeOK, ZAdd
  <2>5. caller' \in [Task -> Caller]
    BY <2>1 DEF TypeOK, Caller
  <2> QED
    BY <1>1, <2>2, <2>3, <2>4, <2>5
    DEF Enqueue, TypeOK, RedisTypeOK, ThreadTypeOK, HistoryTypeOK, threads, history
<1>2. CASE RecordQueued(t)
  <2>1. PICK r \in Reply : RecordQueued(t)!2!(r)
    BY <1>2 DEF RecordQueued
  <2>2. errors' \in Nat
    BY <2>1, AnswerType DEF TypeOK, HistoryTypeOK
  <2>3. status' \in [Task -> Status] /\ caller' \in [Task -> Caller]
    BY <2>1 DEF TypeOK, RedisTypeOK, Caller, Status
  <2> QED
    BY <1>2, <2>2, <2>3
    DEF RecordQueued, TypeOK, RedisTypeOK, ThreadTypeOK, HistoryTypeOK, threads, history
<1> QED BY <1>1, <1>2

LEMMA ReserveType ==
    ASSUME TypeOK, NEW w \in Worker, Reserve(w) PROVE TypeOK'
<1> USE DEF TypeOK
<1>1. CASE Halt(w) \/ SkipPromote(w) \/ PromoteScan(w) \/ ReadNothing(w)
  <2>1. pc' \in [Worker -> Pc]
    BY <1>1, GotoType DEF Halt, SkipPromote, PromoteScan, ReadNothing, Pc
  <2>2. todo' \in [Worker -> SUBSET Entry]
    <3>1. {[id |-> 0, env |-> e] : e \in due} \in SUBSET Entry
      BY DEF RedisTypeOK, Entry
    <3> QED
      BY <1>1, <3>1 DEF Halt, SkipPromote, PromoteScan, ReadNothing, ThreadTypeOK
  <2> QED
    BY <1>1, <2>1, <2>2 DEF Halt, SkipPromote, PromoteScan, ReadNothing,
       RedisTypeOK, ThreadTypeOK, HistoryTypeOK, redis, history, bounds
<1>2. CASE PromoteTake(w)
  <2>1. PICK m \in todo[w], r \in Reply : PromoteTake(w)!2!(m, r)
    BY <1>2 DEF PromoteTake
  <2>2. m \in Entry
    BY DEF ThreadTypeOK
  <2>3. errors' \in Nat /\ torn' \subseteq Task
    BY <2>1, <2>2, AnswerType, EntryFields DEF HistoryTypeOK
  <2>4. delayed' \subseteq Envelope /\ due' \subseteq Envelope
    BY <2>1 DEF RedisTypeOK, ZRem
  <2>5. ThreadTypeOK'
    <3>1. fate' = fate
      BY <1>2 DEF PromoteTake
    <3>2. CASE Raise(w)
      BY <3>1, <3>2, RaiseType
    <3>3. CASE job' = [job EXCEPT ![w] = m] /\ Goto(w, "readd") /\ UNCHANGED todo
      BY <3>1, <3>3, <2>2, GotoType DEF ThreadTypeOK, Pc
    <3>4. CASE NextMember(w, m)
      BY <3>1, <3>4, NextMemberType
    <3> QED BY <2>1, <3>2, <3>3, <3>4
  <2> QED
    BY <1>2, <2>3, <2>4, <2>5 DEF PromoteTake, RedisTypeOK, HistoryTypeOK
<1>3. CASE PromoteAdd(w)
  <2>1. PICK r \in Reply : PromoteAdd(w)!2!(r)
    BY <1>3 DEF PromoteAdd
  <2>2. errors' \in Nat
    BY <2>1, AnswerType DEF HistoryTypeOK
  <2>3. stream' \subseteq Entry /\ nextId' \in Nat \ {0}
    BY <2>1, EntryFields DEF RedisTypeOK, ThreadTypeOK, XAdd, Entry
  <2>4. ThreadTypeOK'
    <3>1. fate' = fate
      BY <1>3 DEF PromoteAdd
    <3>2. CASE NextMember(w, job[w])
      BY <3>1, <3>2, NextMemberType
    <3>3. CASE Goto(w, "giveback") /\ UNCHANGED <<job, todo>>
      BY <3>1, <3>3, GotoType DEF ThreadTypeOK, Pc
    <3> QED BY <2>1, <3>2, <3>3
  <2> QED
    BY <1>3, <2>2, <2>3, <2>4 DEF PromoteAdd, RedisTypeOK, HistoryTypeOK, history
<1>4. CASE PromoteBack(w)
  <2>1. PICK r \in Reply : PromoteBack(w)!2!(r)
    BY <1>4 DEF PromoteBack
  <2>2. errors' \in Nat /\ torn' \subseteq Task
    BY <2>1, AnswerType, JobTaskType DEF HistoryTypeOK
  <2>3. delayed' \subseteq Envelope /\ due' \subseteq Envelope
    BY <2>1, EntryFields DEF RedisTypeOK, ThreadTypeOK, ZAdd
  <2>4. ThreadTypeOK'
    BY <1>4, <2>1, NextMemberType, RaiseType DEF PromoteBack
  <2> QED
    BY <1>4, <2>2, <2>3, <2>4 DEF PromoteBack, RedisTypeOK, HistoryTypeOK
<1>5. CASE Read(w)
  <2>1. PICK m \in Undelivered, r \in {"ok", "lost"} : Read(w)!2!(m, r)
    BY <1>5 DEF Read
  <2>2. m \in Entry /\ m.id \in Nat
    BY EntryFields DEF Undelivered, RedisTypeOK
  <2>3. errors' \in Nat
    BY <2>1, AnswerType DEF HistoryTypeOK
  <2>4. pc' \in [Worker -> Pc]
    BY <2>1, GotoType DEF Pc
  <2>5. job' \in [Worker -> Entry] /\ fate' \in [Worker -> Fate]
    BY <2>1, <2>2 DEF ThreadTypeOK, Fate
  <2> QED
    BY <1>5, <2>1, <2>2, <2>3, <2>4, <2>5
    DEF Read, RedisTypeOK, ThreadTypeOK, HistoryTypeOK, history
<1>6. CASE ReadFails(w)
  BY <1>6, GotoType, AnswerType
  DEF ReadFails, RedisTypeOK, ThreadTypeOK, HistoryTypeOK, redis, history, Pc
<1>7. CASE MarkRunning(w)
  <2>1. PICK r \in Reply : Answer(r) /\ SetStatus(JobTask(w), "running", r)
    BY <1>7 DEF MarkRunning
  <2>2. errors' \in Nat
    BY <2>1, AnswerType DEF HistoryTypeOK
  <2>3. status' \in [Task -> Status]
    BY <2>1 DEF SetStatus, RedisTypeOK, Status
  <2>4. pc' \in [Worker -> Pc]
    BY <1>7, GotoType DEF MarkRunning, Pc
  <2> QED
    BY <1>7, <2>2, <2>3, <2>4
    DEF MarkRunning, RedisTypeOK, ThreadTypeOK, HistoryTypeOK, history
<1> QED BY <1>1, <1>2, <1>3, <1>4, <1>5, <1>6, <1>7 DEF Reserve

LEMMA HandleType ==
    ASSUME TypeOK, NEW w \in Worker, Handle(w) PROVE TypeOK'
<1> USE DEF TypeOK
<1>1. pc' \in [Worker -> Pc] /\ fate' \in [Worker -> Fate]
  BY GotoType
  DEF Handle, HandlerReturns, HandlerRaises, NoHandler, Resolve, ThreadTypeOK, Pc, Fate
<1>2. done' \subseteq Task
  BY JobTaskType DEF Handle, HandlerReturns, HandlerRaises, NoHandler, HistoryTypeOK
<1>3. job' \in [Worker -> Entry]
  <2>1. [id |-> job[w].id, env |-> Attempted(job[w].env, "handler")] \in Entry
    BY AttemptedType, EntryFields DEF ThreadTypeOK, Entry, Error
  <2> QED
    BY <2>1 DEF Handle, HandlerReturns, HandlerRaises, NoHandler, ThreadTypeOK
<1> QED
  BY <1>1, <1>2, <1>3 DEF Handle, HandlerReturns, HandlerRaises, NoHandler, Resolve,
     RedisTypeOK, ThreadTypeOK, HistoryTypeOK, redis, bounds

LEMMA SettleType ==
    ASSUME TypeOK, NEW w \in Worker, Settle(w) PROVE TypeOK'
<1> USE DEF TypeOK
<1>1. CASE XAck(w)
  <2>1. PICK r \in Reply : XAck(w)!2!(r)
    BY <1>1 DEF XAck
  <2>2. errors' \in Nat /\ torn' \subseteq Task
    BY <2>1, AnswerType, TearIfType DEF HistoryTypeOK
  <2>3. ThreadTypeOK'
    BY <2>1, ContinueType DEF Pc
  <2>4. pel' \subseteq Entry /\ stale' \subseteq Entry
    BY <2>1 DEF RedisTypeOK, Without
  <2> QED
    BY <1>1, <2>2, <2>3, <2>4 DEF XAck, RedisTypeOK, HistoryTypeOK
<1>2. CASE XDel(w)
  <2>1. PICK r \in Reply : XDel(w)!2!(r)
    BY <1>2 DEF XDel
  <2>2. errors' \in Nat /\ torn' \subseteq Task
    BY <2>1, AnswerType, TearIfType DEF HistoryTypeOK
  <2>3. NextPlace[fate[w]] \in Pc
    BY DEF ThreadTypeOK, Fate, NextPlace, Pc
  <2>4. ThreadTypeOK'
    BY <2>1, <2>3, ContinueType
  <2>5. stream' \subseteq Entry
    BY <2>1 DEF RedisTypeOK, Without, Erase
  <2> QED
    BY <1>2, <2>2, <2>4, <2>5 DEF XDel, RedisTypeOK, HistoryTypeOK
<1>3. CASE ZAddRetry(w)
  <2>1. PICK r \in Reply : ZAddRetry(w)!2!(r)
    BY <1>3 DEF ZAddRetry
  <2>2. errors' \in Nat /\ torn' \subseteq Task
    BY <2>1, AnswerType, TearIfType DEF HistoryTypeOK
  <2>3. ThreadTypeOK'
    BY <2>1, ContinueType DEF Pc
  <2>4. delayed' \subseteq Envelope /\ due' \subseteq Envelope
    BY <2>1, EntryFields DEF RedisTypeOK, ThreadTypeOK, ZAdd
  <2> QED
    BY <1>3, <2>2, <2>3, <2>4 DEF ZAddRetry, RedisTypeOK, HistoryTypeOK
<1>4. CASE LPush(w)
  <2>1. PICK r \in Reply : LPush(w)!2!(r)
    BY <1>4 DEF LPush
  <2>2. errors' \in Nat /\ torn' \subseteq Task /\ buried' \subseteq Task
    BY <2>1, AnswerType, TearIfType, JobTaskType DEF HistoryTypeOK
  <2>3. ThreadTypeOK'
    BY <2>1, ContinueType DEF Pc
  <2>4. deadList' \in Seq(Envelope)
    <3>1. <<job[w].env>> \in Seq(Envelope)
      BY EntryFields DEF ThreadTypeOK
    <3>2. <<job[w].env>> \o deadList \in Seq(Envelope)
      BY <3>1 DEF RedisTypeOK
    <3> QED BY <2>1, <3>2 DEF RedisTypeOK
  <2> QED
    BY <1>4, <2>2, <2>3, <2>4 DEF LPush, RedisTypeOK, HistoryTypeOK
<1>5. CASE LTrim(w)
  <2>1. PICK r \in Reply : LTrim(w)!2!(r)
    BY <1>5 DEF LTrim
  <2>2. errors' \in Nat
    BY <2>1, AnswerType DEF HistoryTypeOK
  <2>3. ThreadTypeOK'
    BY <2>1, ContinueType, LeaveType DEF Pc
  <2>4. deadList' \in Seq(Envelope)
    BY <2>1, QueueAssumption DEF RedisTypeOK, Trimmed
  <2> QED
    BY <1>5, <2>2, <2>3, <2>4 DEF LTrim, RedisTypeOK, HistoryTypeOK, history
<1>6. CASE RecordFate(w)
  <2>1. PICK r \in Reply : Answer(r) /\ SetStatus(JobTask(w), fate[w], r)
    BY <1>6 DEF RecordFate
  <2>2. errors' \in Nat
    BY <2>1, AnswerType DEF HistoryTypeOK
  <2>3. status' \in [Task -> Status]
    BY <2>1 DEF SetStatus, RedisTypeOK, ThreadTypeOK, Status, Fate
  <2>4. ThreadTypeOK'
    BY <1>6, LeaveType DEF RecordFate
  <2> QED
    BY <1>6, <2>2, <2>3, <2>4 DEF RecordFate, RedisTypeOK, HistoryTypeOK, history
<1> QED BY <1>1, <1>2, <1>3, <1>4, <1>5, <1>6 DEF Settle

LEMMA ReclaimType ==
    ASSUME TypeOK, NEW w \in Worker, MaybeReclaim(w) PROVE TypeOK'
<1> USE DEF TypeOK
<1>1. CASE SkipReclaim(w)
  BY <1>1, GotoType
  DEF SkipReclaim, RedisTypeOK, ThreadTypeOK, HistoryTypeOK, redis, history, bounds, Pc
<1>2. CASE Reclaim(w)
  <2>1. PICK r \in {"ok", "lost"} : Reclaim(w)!2!(r)
    BY <1>2 DEF Reclaim
  <2>2. errors' \in Nat
    BY <2>1, AnswerType DEF HistoryTypeOK
  <2>3. pc' \in [Worker -> Pc]
    BY <2>1, GotoType DEF Pc
  <2>4. todo' \in [Worker -> SUBSET Entry]
    BY <2>1 DEF ThreadTypeOK, RedisTypeOK, Reclaimable
  <2> QED
    BY <1>2, <2>2, <2>3, <2>4
    DEF Reclaim, Reclaimable, RedisTypeOK, ThreadTypeOK, HistoryTypeOK, history
<1>3. CASE Claim(w)
  <2>1. PICK m \in todo[w] : Claim(w)!2!(m)
    BY <1>3 DEF Claim
  <2>2. m \in Entry
    BY DEF ThreadTypeOK
  <2>3. [id |-> m.id, env |-> Attempted(m.env, "reclaimed")] \in Entry
    BY <2>2, EntryFields, AttemptedType DEF Entry, Error
  <2>4. job' \in [Worker -> Entry] /\ fate' \in [Worker -> Fate]
    BY <2>1, <2>2, <2>3 DEF ThreadTypeOK, Fate
  <2>5. pc' \in [Worker -> Pc]
    BY <1>3, GotoType DEF Claim, Pc
  <2> QED
    BY <1>3, <2>4, <2>5
    DEF Claim, RedisTypeOK, ThreadTypeOK, HistoryTypeOK, redis, history, bounds
<1> QED BY <1>1, <1>2, <1>3 DEF MaybeReclaim

LEMMA EnvironmentType ==
    ASSUME TypeOK,
           \/ \E e \in delayed : ComeDue(e)
           \/ \E m \in pel : BecomeStale(m)
           \/ \E p \in Process : Crash(p) \/ Stop(p)
           \/ \E w \in Worker : HandlerExits(w)
    PROVE  TypeOK'
<1> USE DEF TypeOK
<1>1. ASSUME NEW e \in delayed, ComeDue(e) PROVE TypeOK'
  BY <1>1 DEF ComeDue, RedisTypeOK, ThreadTypeOK, HistoryTypeOK, threads, history, bounds
<1>2. ASSUME NEW m \in pel, BecomeStale(m) PROVE TypeOK'
  BY <1>2 DEF BecomeStale, RedisTypeOK, ThreadTypeOK, HistoryTypeOK, threads, history
<1>3. ASSUME NEW p \in Process, Crash(p) PROVE TypeOK'
  <2>1. torn' \subseteq Task
    BY <1>3, JobTaskType DEF Crash, HistoryTypeOK
  <2>2. ThreadTypeOK'
    BY <1>3, NoJobIsEntry DEF Crash, ThreadTypeOK, Pc, Fate
  <2> QED
    BY <1>3, <2>1, <2>2 DEF Crash, RedisTypeOK, HistoryTypeOK, redis
<1>4. ASSUME NEW p \in Process, Stop(p) PROVE TypeOK'
  BY <1>4 DEF Stop, RedisTypeOK, ThreadTypeOK, HistoryTypeOK, redis, threads, history, bounds
<1>5. ASSUME NEW w \in Worker, HandlerExits(w) PROVE TypeOK'
  <2>1. pc' \in [Worker -> Pc]
    BY <1>5, GotoType DEF HandlerExits, Pc
  <2>2. ThreadTypeOK'
    BY <1>5, <2>1, NoJobIsEntry DEF HandlerExits, ThreadTypeOK, Fate
  <2> QED
    BY <1>5, <2>2 DEF HandlerExits, RedisTypeOK, HistoryTypeOK, redis, history
<1> QED BY <1>1, <1>2, <1>3, <1>4, <1>5

\* Type correctness of the Redis queue and its workers, under every interleaving, crash
\* and command failure.
THEOREM TypeCorrect == Spec => []TypeOK
<1>1. Init => TypeOK
  BY QueueAssumption, NoJobIsEntry
  DEF Init, TypeOK, RedisTypeOK, ThreadTypeOK, HistoryTypeOK, Status, Caller, Pc, Fate
<1>2. TypeOK /\ [Next]_vars => TypeOK'
  <2> SUFFICES ASSUME TypeOK, [Next]_vars PROVE TypeOK'
    OBVIOUS
  <2>1. CASE UNCHANGED vars
    BY <2>1 DEF TypeOK, RedisTypeOK, ThreadTypeOK, HistoryTypeOK,
       vars, redis, threads, history, bounds
  <2> QED
    BY <2>1, EnqueueType, ReserveType, HandleType, SettleType, ReclaimType, EnvironmentType
    DEF Next
<1> QED BY <1>1, <1>2, PTL DEF Spec

-----------------------------------------------------------------------------
(* No task is lost.  The three parts of LossInv, and what a step of one thread must    *)
(* respect to keep each of them.                                                        *)

Others(w) ==
    \A v \in Worker \ {w} :
        pc'[v] = pc[v] /\ job'[v] = job[v] /\ fate'[v] = fate[v] /\ todo'[v] = todo[v]

\* A step after which thread w cites nothing it did not cite before.
Quiet(w) ==
    /\ Others(w)
    /\ job'[w] \in {job[w], NoJob}
    /\ todo'[w] \subseteq todo[w]

\* The entry m carries an id that is known for the same task and was delivered by d.
Cites(m, d) ==
    m.id = 0 \/ (m.id <= d /\ \E n \in Cited : n.id = m.id /\ n.env.task = m.env.task)

LEMMA QuietSteps ==
    ASSUME ThreadTypeOK, NEW w \in Worker, UNCHANGED fate \/ Leave(w),
           \/ \E m : NextMember(w, m)
           \/ Raise(w)
           \/ Leave(w)
           \/ \E l : Goto(w, l) /\ UNCHANGED <<job, todo>>
    PROVE  Quiet(w)
BY DEF ThreadTypeOK, NextMember, Raise, Leave, Goto, Quiet, Others, Without

LEMMA ContinueQuiet ==
    ASSUME ThreadTypeOK, NEW w \in Worker, NEW r, NEW l, Continue(w, r, l)
    PROVE  Quiet(w)
<1>1. CASE r = "ok"
  BY <1>1, QuietSteps DEF Continue
<1>2. CASE r # "ok"
  BY <1>2, QuietSteps DEF Continue
<1> QED BY <1>1, <1>2

LEMMA CitedThreads ==
    ASSUME TypeOK, IdsSound, NEW w \in Worker, NEW m \in todo[w] \cup {job[w]}
    PROVE  Cites(m, delivered) /\ m \in Cited
<1>1. m \in Cited
  BY DEF Cited
<1> QED BY <1>1 DEF Cites, IdsSound

\* Threads other than w keep what they cite.
LEMMA OthersCite ==
    ASSUME TypeOK, IdsSound, NEW w \in Worker, Others(w),
           NEW d \in Nat, delivered <= d,
           \A m \in todo'[w] \cup {job'[w]} : Cites(m, d)
    PROVE  \A v \in Worker : \A m \in todo'[v] \cup {job'[v]} : Cites(m, d)
<1> SUFFICES ASSUME NEW v \in Worker \ {w}, NEW m \in todo'[v] \cup {job'[v]}
             PROVE  Cites(m, d)
  OBVIOUS
<1>1. m \in todo[v] \cup {job[v]}
  BY DEF Others
<1>2. Cites(m, delivered)
  BY <1>1, CitedThreads
<1>3. m.id \in Nat
  BY <1>1, EntryFields DEF TypeOK, ThreadTypeOK
<1> QED BY <1>2, <1>3 DEF Cites, TypeOK, RedisTypeOK

LEMMA QuietCites ==
    ASSUME TypeOK, IdsSound, NEW w \in Worker, Quiet(w)
    PROVE  \A v \in Worker : \A m \in todo'[v] \cup {job'[v]} : Cites(m, delivered)
<1>1. \A m \in todo'[w] \cup {job'[w]} : Cites(m, delivered)
  BY CitedThreads DEF Quiet, NoJob, Cites
<1> QED BY <1>1, OthersCite DEF Quiet, TypeOK, RedisTypeOK

\* Ids stay sound when the stream loses entries or gains one under the next id, the
\* pending list loses entries or gains delivered ones, and threads cite what is known.
LEMMA IdsKept ==
    ASSUME TypeOK, IdsSound, NEW env,
           \/ stream' \subseteq stream /\ nextId' = nextId
           \/ stream' = stream \cup {[id |-> nextId, env |-> env]} /\ nextId' = nextId + 1,
           delivered' \in Nat, delivered <= delivered', delivered' < nextId,
           pel' \subseteq pel \cup {m \in stream : m.id <= delivered'},
           stale' \subseteq pel',
           \A w \in Worker : \A m \in todo'[w] \cup {job'[w]} : Cites(m, delivered')
    PROVE  IdsSound'
<1> DEFINE new == [id |-> nextId, env |-> env]
<1>0. nextId \in Nat /\ delivered \in Nat
  BY DEF TypeOK, RedisTypeOK
<1>1. \A m \in Cited : m.id \in Nat /\ m.id < nextId
  BY <1>0, EntryFields DEF Cited, IdsSound, TypeOK, RedisTypeOK, ThreadTypeOK
<1>2. delivered' < nextId' /\ nextId' \in Nat /\ nextId <= nextId'
  BY <1>0
<1>3. \A m \in stream' : 0 < m.id /\ m.id < nextId'
  BY <1>0, EntryFields DEF IdsSound, TypeOK, RedisTypeOK
<1>4. \A m \in pel' : 0 < m.id /\ m.id <= delivered'
  BY <1>0, EntryFields DEF IdsSound, TypeOK, RedisTypeOK
<1>5. \A w \in Worker : \A m \in todo'[w] \cup {job'[w]} : m.id <= delivered'
  BY DEF Cites
<1>6. \A m \in Cited' : \/ m.id = 0
                        \/ m = new /\ new \in stream'
                        \/ \E n \in Cited : n.id = m.id /\ n.env.task = m.env.task
  <2> SUFFICES ASSUME NEW m \in Cited'
               PROVE  \/ m.id = 0
                      \/ m = new /\ new \in stream'
                      \/ \E n \in Cited : n.id = m.id /\ n.env.task = m.env.task
    OBVIOUS
  <2>1. CASE m \in stream'
    BY <2>1 DEF Cited
  <2>2. CASE m \in pel'
    BY <2>2 DEF Cited
  <2>3. ASSUME NEW w \in Worker, m \in todo'[w] \cup {job'[w]}
        PROVE  m.id = 0 \/ \E n \in Cited : n.id = m.id /\ n.env.task = m.env.task
    BY <2>3 DEF Cites
  <2> QED BY <2>1, <2>2, <2>3 DEF Cited
<1>7. \A m, n \in Cited' : m.id = n.id /\ m.id # 0 => m.env.task = n.env.task
  <2>1. \A m, n \in Cited : m.id = n.id /\ m.id # 0 => m.env.task = n.env.task
    BY DEF IdsSound
  <2>2. \A n \in Cited : n.id # new.id
    BY <1>0, <1>1
  <2> QED BY <1>6, <2>1, <2>2
<1> QED BY <1>2, <1>3, <1>4, <1>5, <1>7 DEF IdsSound

LEMMA ThreadsKept ==
    ASSUME ThreadSound, NEW w \in Worker, Others(w), done \subseteq done',
           pc'[w] \in {"xack", "xdel"} /\ fate'[w] = "succeeded" => job'[w].env.task \in done',
           pc'[w] \in {"zadd", "lpush"} => fate'[w] # "succeeded"
    PROVE  ThreadSound'
<1> SUFFICES ASSUME NEW v \in Worker
             PROVE  /\ pc'[v] \in {"xack", "xdel"} /\ fate'[v] = "succeeded"
                         => job'[v].env.task \in done'
                    /\ pc'[v] \in {"zadd", "lpush"} => fate'[v] # "succeeded"
  BY DEF ThreadSound, JobTask
<1> QED BY DEF ThreadSound, Others, JobTask

\* A task is safe: still owed, or settled, or a fault is on record.
Safe(t) == Owed(t) \/ t \in done \cup buried \cup torn

LEMMA SafeKept ==
    ASSUME TypeOK, NEW w \in Worker, Others(w),
           done \subseteq done', buried \subseteq buried', torn \subseteq torn',
           \A m \in Undelivered \cup pel : m \in (Undelivered \cup pel)' \/ Safe(m.env.task)',
           \A e \in delayed : e \in delayed' \/ Safe(e.task)',
           NEW t \in Task, Safe(t), Carries(w) /\ JobTask(w) = t => Safe(t)'
    PROVE  Safe(t)'
<1>1. CASE InStream(t)
  BY <1>1 DEF InStream, Safe, Owed
<1>2. CASE InDelayed(t)
  BY <1>2 DEF InDelayed, Safe, Owed
<1>3. CASE Carried(t)
  <2>1. PICK v \in Worker : Carries(v) /\ JobTask(v) = t
    BY <1>3 DEF Carried
  <2>2. CASE v = w
    BY <2>1, <2>2
  <2>3. CASE v # w
    BY <2>1, <2>3 DEF Others, Carries, JobTask, Carried, Safe, Owed
  <2> QED BY <2>2, <2>3
<1>4. CASE t \in done \cup buried \cup torn
  BY <1>4 DEF Safe
<1> QED BY <1>1, <1>2, <1>3, <1>4 DEF Safe, Owed

LEMMA NothingLostIsSafe == NothingLost <=> \A t \in Task : Taken(t) => Safe(t)
BY DEF NothingLost, Safe

\* A step that changes no place and leaves nobody carrying keeps every task safe.
LEMMA PlacesKept ==
    ASSUME TypeOK, NothingLost, NEW w \in Worker, Others(w), ~Carries(w),
           UNCHANGED <<stream, delivered, delayed, pel, caller, buried, torn>>,
           done \subseteq done'
    PROVE  NothingLost'
<1>1. \A t \in Task : Safe(t) => Safe(t)'
  BY SafeKept DEF Undelivered
<1> QED BY <1>1, NothingLostIsSafe DEF NothingLost, Safe, Taken

\* A step that touches neither the stream nor what is pending.
LEMMA IdsUntouched ==
    ASSUME TypeOK, IdsSound, NEW w \in Worker, Others(w),
           UNCHANGED <<stream, nextId, delivered, pel>>, stale' \subseteq pel,
           \A m \in todo'[w] \cup {job'[w]} : Cites(m, delivered)
    PROVE  IdsSound'
<1>1. \A v \in Worker : \A m \in todo'[v] \cup {job'[v]} : Cites(m, delivered)
  BY OthersCite DEF TypeOK, RedisTypeOK
<1> QED BY <1>1, IdsKept DEF TypeOK, RedisTypeOK, IdsSound

\* A handler that ends its thread: w forgets its job, and nothing else happens.
LEMMA ExitsAlone ==
    ASSUME ThreadTypeOK, NEW w \in Worker, HandlerExits(w)
    PROVE  /\ Others(w) /\ pc[w] = "run" /\ pc'[w] = "halted"
           /\ job'[w] = NoJob /\ fate'[w] = "retrying" /\ todo'[w] = {}
           /\ UNCHANGED <<stream, nextId, delivered, pel, stale, delayed, due, deadList, status,
                          caller, done, buried, torn, crashes, errors, slow>>
           /\ exits' = exits + 1
BY DEF HandlerExits, Goto, Others, ThreadTypeOK, redis, history

\* What a crash and such a handler do to the threads.
LEMMA EndedThreads ==
    ASSUME ThreadTypeOK,
           \/ \E p \in Process : Crash(p)
           \/ \E w \in Worker : HandlerExits(w)
    PROVE  \A v \in Worker :
             \/ pc'[v] = pc[v] /\ job'[v] = job[v] /\ fate'[v] = fate[v] /\ todo'[v] = todo[v]
             \/ pc'[v] \in {"halted", "loop"} /\ job'[v] = NoJob /\ todo'[v] = {}
<1>1. CASE \E p \in Process : Crash(p)
  BY <1>1 DEF Crash
<1>2. ASSUME NEW w \in Worker, HandlerExits(w), NEW v \in Worker
      PROVE  \/ pc'[v] = pc[v] /\ job'[v] = job[v] /\ fate'[v] = fate[v] /\ todo'[v] = todo[v]
             \/ pc'[v] \in {"halted", "loop"} /\ job'[v] = NoJob /\ todo'[v] = {}
  BY <1>2, ExitsAlone DEF Others
<1> QED BY <1>1, <1>2

-----------------------------------------------------------------------------
(* Each part of the code keeps LossInv. *)

LEMMA EnqueueLoss ==
    ASSUME TypeOK, LossInv, NEW t \in Task, Enqueue(t) \/ RecordQueued(t) PROVE LossInv'
<1> USE DEF LossInv
<1>1. ThreadSound'
  BY DEF ThreadSound, Enqueue, RecordQueued, threads, history, JobTask
<1>2. IdsSound'
  <2>1. \A w \in Worker : \A m \in todo'[w] \cup {job'[w]} : Cites(m, delivered)
    BY CitedThreads DEF Enqueue, RecordQueued, threads
  <2>2. \/ stream' \subseteq stream /\ nextId' = nextId
        \/ /\ stream' = stream \cup {[id |-> nextId, env |-> NewEnvelope(t)]}
           /\ nextId' = nextId + 1
    BY DEF Enqueue, RecordQueued, XAdd
  <2>3. UNCHANGED <<delivered, pel, stale>>
    BY DEF Enqueue, RecordQueued
  <2>4. /\ delivered' \in Nat /\ delivered <= delivered' /\ delivered' < nextId
        /\ pel' \subseteq pel /\ stale' \subseteq pel'
    BY <2>3 DEF TypeOK, RedisTypeOK, IdsSound
  <2>5. \A w \in Worker : \A m \in todo'[w] \cup {job'[w]} : Cites(m, delivered')
    BY <2>1, <2>3
  <2> DEFINE env == NewEnvelope(t)
  <2>6. \/ stream' \subseteq stream /\ nextId' = nextId
        \/ stream' = stream \cup {[id |-> nextId, env |-> env]} /\ nextId' = nextId + 1
    BY <2>2
  <2> HIDE DEF env
  <2> QED BY <2>4, <2>5, <2>6, IdsKept
<1>3. NothingLost'
  <2>1. \A s \in Task : Safe(s) => Safe(s)'
    <3>1. Undelivered \cup pel \subseteq (Undelivered \cup pel)' /\ delayed \subseteq delayed'
      BY DEF Enqueue, RecordQueued, XAdd, ZAdd, Undelivered
    <3> QED
      BY <3>1 DEF Safe, Owed, InStream, InDelayed, Carried, Carries, JobTask,
         Enqueue, RecordQueued, threads, history
  <2>2. ASSUME NEW s \in Task, Taken(s)', ~Taken(s) PROVE Safe(s)'
    <3>1. Enqueue(t) /\ s = t
      BY <2>2 DEF Enqueue, RecordQueued, Taken, TypeOK
    <3>2. PICK r \in Reply, delay \in Delays : Enqueue(t)!2!(r, delay)
      BY <3>1 DEF Enqueue
    <3>3. r = "ok"
      BY <2>2, <3>1, <3>2 DEF Taken, TypeOK
    <3>4. CASE delay
      <4>1. NewEnvelope(t) \in delayed'
        BY <3>2, <3>3, <3>4 DEF ZAdd, Applied
      <4> QED BY <3>1, <4>1 DEF Safe, Owed, InDelayed, NewEnvelope
    <3>5. CASE ~delay
      <4>1. [id |-> nextId, env |-> NewEnvelope(t)] \in Undelivered'
        BY <3>1, <3>2, <3>3, <3>5
        DEF Enqueue, XAdd, Applied, Undelivered, IdsSound, TypeOK, RedisTypeOK
      <4> QED BY <3>1, <4>1 DEF Safe, Owed, InStream, NewEnvelope
    <3> QED BY <3>4, <3>5
  <2> QED BY <2>1, <2>2, NothingLostIsSafe DEF NothingLost, Safe
<1> QED BY <1>1, <1>2, <1>3

LEMMA ReserveLoss ==
    ASSUME TypeOK, LossInv, NEW w \in Worker, Reserve(w) PROVE LossInv'
<1> USE DEF LossInv
<1>0. TypeOK' /\ w \in Worker /\ ThreadTypeOK
  BY ReserveType DEF TypeOK
<1>1. CASE Halt(w) \/ SkipPromote(w) \/ ReadNothing(w) \/ ReadFails(w) \/ MarkRunning(w)
  <2>1. /\ Quiet(w) /\ ~Carries(w) /\ pc'[w] \in {"halted", "read", "idle", "loop", "run"}
        /\ UNCHANGED <<stream, nextId, delivered, delayed, pel, stale, caller,
                       done, buried, torn>>
    BY <1>0, <1>1 DEF Halt, SkipPromote, ReadNothing, ReadFails, MarkRunning, Goto,
       Quiet, Others, Carries, ThreadTypeOK, redis, history, bounds
  <2>2. NothingLost'
    BY <2>1, PlacesKept DEF Quiet
  <2>3. IdsSound'
    BY <2>1, QuietCites, IdsKept DEF TypeOK, RedisTypeOK, IdsSound
  <2>4. ThreadSound'
    BY <2>1, ThreadsKept DEF Quiet
  <2> QED BY <2>2, <2>3, <2>4
<1>2. CASE PromoteScan(w)
  <2>1. /\ Others(w) /\ ~Carries(w) /\ pc'[w] = "promote"
        /\ UNCHANGED <<stream, nextId, delivered, delayed, pel, stale, caller,
                       done, buried, torn, job>>
        /\ todo'[w] = {[id |-> 0, env |-> e] : e \in due}
    BY <1>0, <1>2 DEF PromoteScan, Goto, Others, Carries, ThreadTypeOK, redis, history, bounds
  <2>2. NothingLost'
    BY <2>1, PlacesKept
  <2>3. \A m \in todo'[w] \cup {job'[w]} : Cites(m, delivered)
    BY <2>1, CitedThreads DEF Cites
  <2>4. IdsSound'
    BY <2>1, <2>3, IdsUntouched DEF IdsSound
  <2>5. ThreadSound'
    BY <2>1, ThreadsKept
  <2> QED BY <2>2, <2>4, <2>5
<1>3. CASE PromoteTake(w)
  <2>1. PICK m \in todo[w], r \in Reply : PromoteTake(w)!2!(m, r)
    BY <1>3 DEF PromoteTake
  <2>2. /\ UNCHANGED <<stream, nextId, delivered, pel, stale, caller, done, buried, fate>>
        /\ torn \subseteq torn' /\ pc[w] = "promote" /\ ~Carries(w)
    BY <1>3, <2>1 DEF PromoteTake, Carries
  <2>3. /\ Others(w)
        /\ pc'[w] \in {"loop", "readd", "read", "promote"}
        /\ \A n \in todo'[w] \cup {job'[w]} : n \in todo[w] \cup {job[w], NoJob}
    BY <1>0, <2>1, <2>2 DEF Raise, NextMember, Goto, Others, ThreadTypeOK, Won
  <2>4. \A n \in todo'[w] \cup {job'[w]} : Cites(n, delivered)
    BY <2>3, CitedThreads DEF Cites, NoJob
  <2>5. \A e \in delayed : e \in delayed' \/ Safe(e.task)'
    <3> SUFFICES ASSUME NEW e \in delayed, e \notin delayed' PROVE Safe(e.task)'
      OBVIOUS
    <3>1. e = m.env /\ Applied(r)
      BY <2>1 DEF ZRem
    <3>2. CASE r = "lost"
      BY <2>1, <3>1, <3>2 DEF Safe
    <3>3. CASE r = "ok"
      <4>1. job'[w] = m /\ pc'[w] = "readd"
        BY <1>0, <2>1, <3>1, <3>3 DEF Goto, ThreadTypeOK, Won
      <4> QED BY <4>1, <3>1 DEF Safe, Owed, Carried, Carries, JobTask
    <3> QED BY <3>1, <3>2, <3>3 DEF Reply, Applied
  <2>6. NothingLost'
    <3>1. \A t \in Task : Safe(t) => Safe(t)'
      BY <2>2, <2>3, <2>5, SafeKept DEF Undelivered
    <3> QED BY <3>1, <2>2, NothingLostIsSafe DEF NothingLost, Safe, Taken
  <2>7. IdsSound'
    BY <2>2, <2>3, <2>4, IdsUntouched DEF IdsSound
  <2>8. ThreadSound'
    BY <2>2, <2>3, ThreadsKept
  <2> QED BY <2>6, <2>7, <2>8
<1>4. CASE PromoteAdd(w)
  <2>1. PICK r \in Reply : PromoteAdd(w)!2!(r)
    BY <1>4 DEF PromoteAdd
  <2>2. /\ UNCHANGED <<delivered, pel, stale, delayed, caller, done, buried, torn, fate>>
        /\ pc[w] = "readd"
    BY <1>4 DEF PromoteAdd, history
  <2>3. Quiet(w)
    BY <1>0, <2>1, <2>2, QuietSteps
  <2>4. pc'[w] \in {"read", "promote", "giveback"}
    BY <1>0, <2>1 DEF NextMember, Goto, ThreadTypeOK
  <2>5. PICK env : env = job[w].env
    OBVIOUS
  <2>6. /\ \/ stream' \subseteq stream /\ nextId' = nextId
           \/ stream' = stream \cup {[id |-> nextId, env |-> env]} /\ nextId' = nextId + 1
        /\ stream \subseteq stream'
    BY <2>1, <2>5 DEF XAdd
  <2>7. IdsSound'
    <3>1. /\ delivered' \in Nat /\ delivered <= delivered' /\ delivered' < nextId
          /\ pel' \subseteq pel /\ stale' \subseteq pel'
      BY <2>2 DEF TypeOK, RedisTypeOK, IdsSound
    <3>2. \A v \in Worker : \A m \in todo'[v] \cup {job'[v]} : Cites(m, delivered')
      BY <2>2, <2>3, QuietCites
    <3> QED BY <2>6, <3>1, <3>2, IdsKept
  <2>8. \A t \in Task : JobTask(w) = t => Safe(t)'
    <3>1. CASE r = "ok"
      <4>1. [id |-> nextId, env |-> job[w].env] \in Undelivered'
        BY <2>1, <2>2, <3>1
        DEF XAdd, Applied, Undelivered, IdsSound, TypeOK, RedisTypeOK
      <4> QED BY <4>1 DEF Safe, Owed, InStream, JobTask
    <3>2. CASE r # "ok"
      <4>1. pc'[w] = "giveback" /\ job' = job
        BY <1>0, <2>1, <3>2 DEF Goto, ThreadTypeOK
      <4> QED BY <4>1 DEF Safe, Owed, Carried, Carries, JobTask
    <3> QED BY <3>1, <3>2
  <2>9. NothingLost'
    <3>1. \A t \in Task : Safe(t) => Safe(t)'
      BY <2>2, <2>3, <2>6, <2>8, SafeKept DEF Undelivered, Quiet
    <3> QED BY <3>1, <2>2, NothingLostIsSafe DEF NothingLost, Safe, Taken
  <2>10. ThreadSound'
    BY <2>2, <2>3, <2>4, ThreadsKept DEF Quiet
  <2> QED BY <2>7, <2>9, <2>10
<1>5. CASE PromoteBack(w)
  <2>1. PICK r \in Reply : PromoteBack(w)!2!(r)
    BY <1>5 DEF PromoteBack
  <2>2. /\ UNCHANGED <<stream, nextId, delivered, pel, stale, caller, done, buried, fate>>
        /\ torn \subseteq torn' /\ delayed \subseteq delayed'
    BY <1>5, <2>1 DEF PromoteBack, ZAdd
  <2>3. Quiet(w)
    BY <1>0, <2>1, <2>2, QuietSteps
  <2>4. pc'[w] \in {"read", "promote", "loop"}
    BY <1>0, <2>1 DEF NextMember, Raise, Goto, ThreadTypeOK
  <2>5. IdsSound'
    BY <2>2, <2>3, CitedThreads, IdsUntouched DEF Quiet, IdsSound, Cites, NoJob
  <2>6. \A t \in Task : JobTask(w) = t => Safe(t)'
    <3>1. CASE r = "refused"
      BY <2>1, <3>1 DEF Safe
    <3>2. CASE r # "refused"
      BY <2>1, <3>2 DEF Applied, ZAdd, Safe, Owed, InDelayed, JobTask
    <3> QED BY <3>1, <3>2
  <2>7. NothingLost'
    <3>1. \A t \in Task : Safe(t) => Safe(t)'
      BY <2>2, <2>3, <2>6, SafeKept DEF Undelivered, Quiet
    <3> QED BY <3>1, <2>2, NothingLostIsSafe DEF NothingLost, Safe, Taken
  <2>8. ThreadSound'
    BY <2>2, <2>3, <2>4, ThreadsKept DEF Quiet
  <2> QED BY <2>5, <2>7, <2>8
<1>6. CASE Read(w)
  <2>1. PICK m \in Undelivered, r \in {"ok", "lost"} : Read(w)!2!(m, r)
    BY <1>6 DEF Read
  <2>2. /\ UNCHANGED <<stream, nextId, stale, delayed, caller, done, buried, torn, todo>>
        /\ pc[w] = "read" /\ ~Carries(w)
    BY <1>6 DEF Read, history, Carries
  <2>3. /\ m \in Entry /\ m \in stream /\ m.id \in Nat /\ delivered < m.id
        /\ m.id < nextId /\ delivered \in Nat
    BY EntryFields DEF Undelivered, IdsSound, TypeOK, RedisTypeOK
  <2>4. /\ Others(w)
        /\ job'[w] \in {job[w], m}
        /\ pc'[w] \in {"loop", "mark", "xack"}
        /\ pc'[w] = "xack" => fate'[w] = "dead"
    BY <1>0, <2>1, <2>2 DEF Goto, Others, ThreadTypeOK
  <2>5. \A v \in Worker : \A n \in todo'[v] \cup {job'[v]} : Cites(n, delivered')
    <3>1. Cites(m, delivered')
      BY <2>1, <2>3 DEF Cites, Cited
    <3>2. \A n \in todo[w] \cup {job[w]} : Cites(n, delivered')
      <4> SUFFICES ASSUME NEW n \in todo[w] \cup {job[w]} PROVE Cites(n, delivered')
        OBVIOUS
      <4>1. n.id \in Nat
        BY EntryFields DEF TypeOK, ThreadTypeOK
      <4> QED BY <2>1, <2>3, <4>1, CitedThreads DEF Cites
    <3>3. \A n \in todo'[w] \cup {job'[w]} : Cites(n, delivered')
      BY <2>2, <2>4, <3>1, <3>2
    <3>4. delivered' \in Nat /\ delivered <= delivered'
      BY <2>1, <2>3
    <3> QED BY <2>4, <3>3, <3>4, OthersCite
  <2>6. IdsSound'
    <3>1. pel' \subseteq pel \cup {n \in stream : n.id <= delivered'}
      BY <2>1, <2>3
    <3>2. stale' \subseteq pel'
      BY <2>1, <2>2 DEF IdsSound
    <3>3. delivered' \in Nat /\ delivered <= delivered' /\ delivered' < nextId
      BY <2>1, <2>3
    <3> QED BY <2>2, <2>5, <3>1, <3>2, <3>3, IdsKept
  <2>7. \A n \in Undelivered \cup pel : n \in (Undelivered \cup pel)' \/ Safe(n.env.task)'
    <3> SUFFICES ASSUME NEW n \in Undelivered, n \notin (Undelivered \cup pel)'
                 PROVE  Safe(n.env.task)'
      BY <2>1
    <3>1. n \in stream /\ n.id \in Nat /\ m.id <= n.id
      BY <2>1, EntryFields DEF Undelivered, TypeOK, RedisTypeOK
    <3>2. n.id = m.id
      BY <2>1, <2>2, <2>3, <3>1 DEF Undelivered
    <3>3. n.env.task = m.env.task
      BY <2>3, <3>1, <3>2 DEF IdsSound, Cited
    <3>4. m \in pel'
      BY <2>1
    <3> QED BY <3>3, <3>4 DEF Safe, Owed, InStream
  <2>8. NothingLost'
    <3>1. \A t \in Task : Safe(t) => Safe(t)'
      BY <2>2, <2>4, <2>7, SafeKept
    <3> QED BY <3>1, <2>2, NothingLostIsSafe DEF NothingLost, Safe, Taken
  <2>9. ThreadSound'
    BY <2>2, <2>4, ThreadsKept
  <2> QED BY <2>6, <2>8, <2>9
<1> QED BY <1>1, <1>2, <1>3, <1>4, <1>5, <1>6 DEF Reserve

LEMMA HandleLoss ==
    ASSUME TypeOK, LossInv, NEW w \in Worker, Handle(w) PROVE LossInv'
<1> USE DEF LossInv, Handle
<1>1. /\ ThreadTypeOK /\ job[w] \in Entry
      /\ UNCHANGED <<stream, nextId, delivered, delayed, pel, stale, caller, todo, buried, torn>>
      /\ done \subseteq done' /\ pc[w] = "run" /\ ~Carries(w)
  BY DEF HandlerReturns, HandlerRaises, NoHandler, Resolve, redis, bounds, Carries,
     TypeOK, ThreadTypeOK
<1>2. /\ Others(w) /\ pc'[w] = "xack"
      /\ fate'[w] = "succeeded" => JobTask(w) \in done' /\ job' = job
  BY <1>1 DEF HandlerReturns, HandlerRaises, NoHandler, Resolve, Goto, Others, ThreadTypeOK
<1>3. job'[w].id = job[w].id /\ job'[w].env.task = job[w].env.task
  BY <1>1 DEF HandlerReturns, HandlerRaises, NoHandler, Attempted, ThreadTypeOK
<1>4. \A m \in todo'[w] \cup {job'[w]} : Cites(m, delivered)
  <2>1. Cites(job'[w], delivered)
    BY <1>3, CitedThreads DEF Cites
  <2> QED BY <1>1, <2>1, CitedThreads
<1>5. IdsSound'
  BY <1>1, <1>2, <1>4, IdsUntouched DEF IdsSound
<1>6. NothingLost'
  BY <1>1, <1>2, PlacesKept
<1>7. ThreadSound'
  BY <1>1, <1>2, ThreadsKept DEF JobTask
<1> QED BY <1>5, <1>6, <1>7

\* What every step of ack, retry and dead has in common.
LEMMA SettleCommon ==
    ASSUME TypeOK, NEW w \in Worker, NEW r \in Reply, Answer(r), NEW l, Continue(w, r, l)
    PROVE  /\ Quiet(w)
           /\ r = "ok" => pc'[w] = l /\ UNCHANGED <<job, fate>>
           /\ r # "ok" => pc'[w] \in {"claim", "idle", "loop"}
BY ContinueQuiet DEF Continue, Leave, Goto, TypeOK, ThreadTypeOK

LEMMA SettleLoss ==
    ASSUME TypeOK, LossInv, NEW w \in Worker, Settle(w) PROVE LossInv'
<1> USE DEF LossInv
<1>0. ThreadTypeOK /\ fate[w] \in Fate
  BY DEF TypeOK, ThreadTypeOK
<1>1. CASE XAck(w)
  <2>1. PICK r \in Reply : XAck(w)!2!(r)
    BY <1>1 DEF XAck
  <2>2. /\ UNCHANGED <<stream, nextId, delivered, delayed, caller, done, buried>>
        /\ torn \subseteq torn' /\ pc[w] = "xack" /\ ~Carries(w)
    BY <1>1, <2>1 DEF XAck, TearIf, Carries
  <2>3. /\ Quiet(w)
        /\ r = "ok" => pc'[w] = "xdel" /\ UNCHANGED <<job, fate>>
        /\ r # "ok" => pc'[w] \in {"claim", "idle", "loop"}
    BY <2>1, SettleCommon
  <2>4. IdsSound'
    <3>1. pel' \subseteq pel /\ stale' \subseteq pel'
      BY <2>1 DEF Without, IdsSound
    <3>2. \A v \in Worker : \A m \in todo'[v] \cup {job'[v]} : Cites(m, delivered')
      BY <2>2, <2>3, QuietCites
    <3>3. delivered' \in Nat /\ delivered <= delivered' /\ delivered' < nextId
      BY <2>2 DEF TypeOK, RedisTypeOK, IdsSound
    <3> QED BY <2>2, <3>1, <3>2, <3>3, IdsKept
  <2>5. \A m \in Undelivered \cup pel : m \in (Undelivered \cup pel)' \/ Safe(m.env.task)'
    <3> SUFFICES ASSUME NEW m \in pel, m \notin pel' PROVE Safe(m.env.task)'
      BY <2>2 DEF Undelivered
    <3>1. m.id = job[w].id /\ Applied(r)
      BY <2>1 DEF Without
    <3>2. m.env.task = JobTask(w)
      BY <3>1 DEF IdsSound, Cited, JobTask, TypeOK, RedisTypeOK
    <3>3. CASE fate[w] = "succeeded"
      BY <2>2, <3>2, <3>3 DEF ThreadSound, Safe
    <3>4. CASE fate[w] # "succeeded" /\ r = "lost"
      BY <2>1, <3>2, <3>4 DEF TearIf, Safe
    <3>5. CASE fate[w] # "succeeded" /\ r = "ok"
      BY <2>3, <3>2, <3>5 DEF Safe, Owed, Carried, Carries, JobTask
    <3> QED BY <3>1, <3>3, <3>4, <3>5 DEF Reply, Applied
  <2>6. NothingLost'
    <3>1. \A t \in Task : Safe(t) => Safe(t)'
      BY <2>2, <2>3, <2>5, SafeKept DEF Quiet
    <3> QED BY <3>1, <2>2, NothingLostIsSafe DEF NothingLost, Safe, Taken
  <2>7. ThreadSound'
    <3>1. pc'[w] \in {"xack", "xdel"} /\ fate'[w] = "succeeded" => job'[w].env.task \in done'
      BY <2>2, <2>3 DEF ThreadSound, JobTask
    <3> QED BY <2>2, <2>3, <3>1, ThreadsKept DEF Quiet
  <2> QED BY <2>4, <2>6, <2>7
<1>2. CASE XDel(w)
  <2>1. PICK r \in Reply : XDel(w)!2!(r)
    BY <1>2 DEF XDel
  <2>2. /\ UNCHANGED <<nextId, delivered, pel, stale, delayed, caller, done, buried>>
        /\ torn \subseteq torn' /\ pc[w] = "xdel"
    BY <1>2, <2>1 DEF XDel, TearIf
  <2>3. /\ Quiet(w)
        /\ r = "ok" => pc'[w] = NextPlace[fate[w]] /\ UNCHANGED <<job, fate>>
        /\ r # "ok" => pc'[w] \in {"claim", "idle", "loop"}
    BY <2>1, SettleCommon
  <2>4. \/ fate[w] = "succeeded" /\ NextPlace[fate[w]] = "record"
        \/ fate[w] # "succeeded" /\ NextPlace[fate[w]] \in {"zadd", "lpush"}
    BY <1>0 DEF Fate, NextPlace
  <2>5. IdsSound'
    <3>1. stream' \subseteq stream /\ pel' \subseteq pel /\ stale' \subseteq pel'
      BY <2>1, <2>2 DEF Without, Erase, IdsSound
    <3>2. \A v \in Worker : \A m \in todo'[v] \cup {job'[v]} : Cites(m, delivered')
      BY <2>2, <2>3, QuietCites
    <3>3. delivered' \in Nat /\ delivered <= delivered' /\ delivered' < nextId
      BY <2>2 DEF TypeOK, RedisTypeOK, IdsSound
    <3> QED BY <2>2, <3>1, <3>2, <3>3, IdsKept
  <2>6. \A m \in Undelivered \cup pel : m \in (Undelivered \cup pel)'
    <3>1. job[w].id <= delivered /\ job[w].id \in Nat /\ delivered \in Nat
      BY EntryFields DEF IdsSound, TypeOK, RedisTypeOK, ThreadTypeOK
    <3>2. \A m \in Undelivered : m.id # job[w].id
      BY <3>1 DEF Undelivered
    <3> QED BY <2>1, <2>2, <3>2 DEF Undelivered, Without, Erase
  <2>7. \A t \in Task : Carries(w) /\ JobTask(w) = t => Safe(t)'
    <3>1. CASE r = "ok" /\ Carries(w)
      BY <2>2, <2>3, <2>4, <3>1 DEF Safe, Owed, Carried, Carries, JobTask
    <3>2. CASE r # "ok" /\ Carries(w)
      BY <2>1, <2>2, <3>2 DEF TearIf, Safe, Carries
    <3> QED BY <3>1, <3>2
  <2>8. NothingLost'
    <3>1. \A t \in Task : Safe(t) => Safe(t)'
      BY <2>2, <2>3, <2>6, <2>7, SafeKept DEF Quiet
    <3> QED BY <3>1, <2>2, NothingLostIsSafe DEF NothingLost, Safe, Taken
  <2>9. ThreadSound'
    BY <2>2, <2>3, <2>4, ThreadsKept DEF Quiet
  <2> QED BY <2>5, <2>8, <2>9
<1>3. CASE ZAddRetry(w)
  <2>1. PICK r \in Reply : ZAddRetry(w)!2!(r)
    BY <1>3 DEF ZAddRetry
  <2>2. /\ UNCHANGED <<stream, nextId, delivered, pel, stale, caller, done, buried>>
        /\ torn \subseteq torn' /\ delayed \subseteq delayed' /\ pc[w] = "zadd"
    BY <1>3, <2>1 DEF ZAddRetry, TearIf, ZAdd
  <2>3. Quiet(w) /\ pc'[w] \in {"record", "claim", "idle", "loop"}
    BY <2>1, SettleCommon
  <2>4. IdsSound'
    BY <2>2, <2>3, QuietCites, IdsUntouched DEF Quiet, IdsSound
  <2>5. \A t \in Task : JobTask(w) = t => Safe(t)'
    <3>1. CASE r = "refused"
      BY <2>1, <2>2, <3>1 DEF TearIf, ThreadSound, Safe
    <3>2. CASE r # "refused"
      BY <2>1, <3>2 DEF Applied, ZAdd, Safe, Owed, InDelayed, JobTask
    <3> QED BY <3>1, <3>2
  <2>6. NothingLost'
    <3>1. \A t \in Task : Safe(t) => Safe(t)'
      BY <2>2, <2>3, <2>5, SafeKept DEF Quiet, Undelivered
    <3> QED BY <3>1, <2>2, NothingLostIsSafe DEF NothingLost, Safe, Taken
  <2>7. ThreadSound'
    BY <2>2, <2>3, ThreadsKept DEF Quiet
  <2> QED BY <2>4, <2>6, <2>7
<1>4. CASE LPush(w)
  <2>1. PICK r \in Reply : LPush(w)!2!(r)
    BY <1>4 DEF LPush
  <2>2. /\ UNCHANGED <<stream, nextId, delivered, pel, stale, delayed, caller, done>>
        /\ torn \subseteq torn' /\ buried \subseteq buried' /\ pc[w] = "lpush"
    BY <1>4, <2>1 DEF LPush, TearIf
  <2>3. Quiet(w) /\ pc'[w] \in {"ltrim", "claim", "idle", "loop"}
    BY <2>1, SettleCommon
  <2>4. IdsSound'
    BY <2>2, <2>3, QuietCites, IdsUntouched DEF Quiet, IdsSound
  <2>5. \A t \in Task : JobTask(w) = t => Safe(t)'
    <3>1. CASE r = "refused"
      BY <2>1, <2>2, <3>1 DEF TearIf, ThreadSound, Safe
    <3>2. CASE r # "refused"
      BY <2>1, <3>2 DEF Applied, Safe
    <3> QED BY <3>1, <3>2
  <2>6. NothingLost'
    <3>1. \A t \in Task : Safe(t) => Safe(t)'
      BY <2>2, <2>3, <2>5, SafeKept DEF Quiet, Undelivered
    <3> QED BY <3>1, <2>2, NothingLostIsSafe DEF NothingLost, Safe, Taken
  <2>7. ThreadSound'
    BY <2>2, <2>3, ThreadsKept DEF Quiet
  <2> QED BY <2>4, <2>6, <2>7
<1>5. CASE LTrim(w) \/ RecordFate(w)
  <2>1. /\ Quiet(w) /\ ~Carries(w) /\ pc'[w] \in {"record", "claim", "idle", "loop"}
        /\ UNCHANGED <<stream, nextId, delivered, delayed, pel, stale, caller,
                       done, buried, torn>>
    <3>1. CASE LTrim(w)
      <4>1. PICK r \in Reply : LTrim(w)!2!(r)
        BY <3>1 DEF LTrim
      <4>2. Quiet(w) /\ pc'[w] \in {"record", "claim", "idle", "loop"}
        BY <1>0, <4>1, QuietSteps, ContinueQuiet DEF Leave, Continue, Goto, ThreadTypeOK
      <4> QED BY <3>1, <4>2 DEF LTrim, Carries, history
    <3>2. CASE RecordFate(w)
      BY <1>0, <3>2, QuietSteps DEF RecordFate, Leave, Goto, ThreadTypeOK, Carries, history
    <3> QED BY <1>5, <3>1, <3>2
  <2>2. NothingLost'
    BY <2>1, PlacesKept DEF Quiet
  <2>3. IdsSound'
    BY <2>1, QuietCites, IdsUntouched DEF Quiet, IdsSound
  <2>4. ThreadSound'
    BY <2>1, ThreadsKept DEF Quiet
  <2> QED BY <2>2, <2>3, <2>4
<1> QED BY <1>1, <1>2, <1>3, <1>4, <1>5 DEF Settle

LEMMA ReclaimLoss ==
    ASSUME TypeOK, LossInv, NEW w \in Worker, MaybeReclaim(w) PROVE LossInv'
<1> USE DEF LossInv
<1>0. ThreadTypeOK
  BY DEF TypeOK
<1>1. CASE SkipReclaim(w)
  <2>1. /\ Quiet(w) /\ ~Carries(w) /\ pc'[w] = "loop"
        /\ UNCHANGED <<stream, nextId, delivered, delayed, pel, stale, caller,
                       done, buried, torn>>
    BY <1>0, <1>1 DEF SkipReclaim, Goto, Quiet, Others, Carries, ThreadTypeOK,
       redis, history, bounds
  <2> QED
    BY <2>1, PlacesKept, QuietCites, IdsUntouched, ThreadsKept DEF Quiet, IdsSound
<1>2. CASE Reclaim(w)
  <2>1. PICK r \in {"ok", "lost"} : Reclaim(w)!2!(r)
    BY <1>2 DEF Reclaim
  <2>2. /\ UNCHANGED <<stream, nextId, delivered, pel, delayed, caller, job, done, buried, torn>>
        /\ stale' = {} /\ ~Carries(w)
    BY <1>2 DEF Reclaim, Reclaimable, history, Carries
  <2>3. Others(w) /\ pc'[w] \in {"claim", "loop"} /\ todo'[w] \subseteq todo[w] \cup stale
    BY <1>0, <1>2, <2>1 DEF Reclaim, Reclaimable, Goto, Others, ThreadTypeOK
  <2>4. \A m \in todo'[w] \cup {job'[w]} : Cites(m, delivered)
    BY <2>2, <2>3, CitedThreads DEF Cites, IdsSound, Cited
  <2>5. IdsSound'
    BY <2>2, <2>3, <2>4, IdsUntouched
  <2>6. NothingLost'
    BY <2>2, <2>3, PlacesKept
  <2>7. ThreadSound'
    BY <2>2, <2>3, ThreadsKept
  <2> QED BY <2>5, <2>6, <2>7
<1>3. CASE Claim(w)
  <2>1. PICK m \in todo[w] : Claim(w)!2!(m)
    BY <1>3 DEF Claim
  <2>2. /\ UNCHANGED <<stream, nextId, delivered, pel, stale, delayed, caller, todo,
                       done, buried, torn>>
        /\ ~Carries(w)
    BY <1>3 DEF Claim, redis, history, bounds, Carries
  <2>3. Others(w) /\ pc'[w] = "xack" /\ fate'[w] \in {"dead", "retrying"}
    BY <1>0, <1>3, <2>1 DEF Claim, Goto, Others, ThreadTypeOK
  <2>4. job'[w].id = m.id /\ job'[w].env.task = m.env.task
    BY <1>0, <2>1 DEF ThreadTypeOK, Attempted
  <2>5. \A n \in todo'[w] \cup {job'[w]} : Cites(n, delivered)
    <3>1. Cites(job'[w], delivered)
      BY <2>4, CitedThreads DEF Cites
    <3> QED BY <2>2, <3>1, CitedThreads
  <2>6. IdsSound'
    BY <2>2, <2>3, <2>5, IdsUntouched DEF IdsSound
  <2>7. NothingLost'
    BY <2>2, <2>3, PlacesKept
  <2>8. ThreadSound'
    BY <2>2, <2>3, ThreadsKept
  <2> QED BY <2>6, <2>7, <2>8
<1> QED BY <1>1, <1>2, <1>3 DEF MaybeReclaim

LEMMA EnvironmentLoss ==
    ASSUME TypeOK, LossInv,
           \/ \E e \in delayed : ComeDue(e)
           \/ \E m \in pel : BecomeStale(m)
           \/ \E p \in Process : Crash(p) \/ Stop(p)
           \/ \E w \in Worker : HandlerExits(w)
    PROVE  LossInv'
<1> USE DEF LossInv
<1>1. CASE \/ \E e \in delayed : ComeDue(e)
           \/ \E m \in pel : BecomeStale(m)
           \/ \E p \in Process : Stop(p)
  <2>1. /\ UNCHANGED <<stream, nextId, delivered, delayed, pel, caller, pc, job, fate, todo,
                       done, buried, torn>>
        /\ stale' \subseteq pel'
    BY <1>1 DEF ComeDue, BecomeStale, Stop, threads, redis, history, IdsSound
  <2>2. IdsSound' /\ ThreadSound'
    BY <2>1 DEF IdsSound, Cited, ThreadSound, JobTask
  <2>3. NothingLost'
    BY <2>1 DEF NothingLost, Owed, InStream, InDelayed, Carried, Carries, JobTask, Taken,
       Undelivered
  <2> QED BY <2>2, <2>3
<1>2. ASSUME NEW p \in Process, Crash(p) PROVE LossInv'
  <2>1. /\ UNCHANGED <<stream, nextId, delivered, delayed, pel, stale, caller, done, buried>>
        /\ torn \subseteq torn'
    BY <1>2 DEF Crash, redis
  <2>2. \A v \in Worker :
            \/ /\ Host(v) # p
               /\ pc'[v] = pc[v] /\ job'[v] = job[v] /\ fate'[v] = fate[v] /\ todo'[v] = todo[v]
            \/ /\ Host(v) = p
               /\ pc'[v] \in {"halted", "loop"} /\ job'[v] = NoJob /\ todo'[v] = {}
    BY <1>2 DEF Crash
  <2>3. IdsSound'
    <3>1. \A v \in Worker : \A m \in todo'[v] \cup {job'[v]} : Cites(m, delivered)
      <4> SUFFICES ASSUME NEW v \in Worker, NEW m \in todo'[v] \cup {job'[v]}
                   PROVE  Cites(m, delivered)
        OBVIOUS
      <4>1. CASE m \in todo[v] \cup {job[v]}
        BY <4>1, CitedThreads
      <4>2. CASE m = NoJob
        BY <4>2 DEF Cites, NoJob
      <4> QED BY <2>2, <4>1, <4>2
    <3>2. delivered' \in Nat /\ delivered <= delivered' /\ delivered' < nextId
      BY <2>1 DEF TypeOK, RedisTypeOK, IdsSound
    <3>3. stale' \subseteq pel' /\ pel' \subseteq pel /\ stream' \subseteq stream
      BY <2>1 DEF IdsSound
    <3> QED BY <2>1, <3>1, <3>2, <3>3, IdsKept
  <2>4. ThreadSound'
    BY <2>1, <2>2 DEF ThreadSound, JobTask
  <2>5. \A t \in Task : Safe(t) => Safe(t)'
    <3> SUFFICES ASSUME NEW t \in Task, Safe(t) PROVE Safe(t)'
      OBVIOUS
    <3>1. CASE Carried(t)
      <4>1. PICK v \in Worker : Carries(v) /\ JobTask(v) = t
        BY <3>1 DEF Carried
      <4>2. CASE Host(v) = p
        BY <1>2, <4>1, <4>2 DEF Crash, Safe
      <4>3. CASE Host(v) # p
        BY <2>2, <4>1, <4>3 DEF Safe, Owed, Carried, Carries, JobTask
      <4> QED BY <4>2, <4>3
    <3>2. CASE ~Carried(t)
      BY <2>1, <3>2 DEF Safe, Owed, InStream, InDelayed, Undelivered
    <3> QED BY <3>1, <3>2
  <2>6. NothingLost'
    BY <2>1, <2>5, NothingLostIsSafe DEF NothingLost, Safe, Taken
  <2> QED BY <2>3, <2>4, <2>6
<1>3. ASSUME NEW w \in Worker, HandlerExits(w) PROVE LossInv'
  <2>0. ThreadTypeOK
    BY DEF TypeOK
  <2>1. /\ Others(w) /\ ~Carries(w) /\ pc'[w] = "halted" /\ job'[w] = NoJob /\ todo'[w] = {}
        /\ UNCHANGED <<stream, nextId, delivered, pel, stale, delayed, caller, done, buried, torn>>
    BY <1>3, <2>0, ExitsAlone DEF Carries
  <2>2. IdsSound'
    <3>1. \A m \in todo'[w] \cup {job'[w]} : Cites(m, delivered)
      BY <2>1 DEF Cites, NoJob
    <3>2. stale' \subseteq pel
      BY <2>1 DEF IdsSound
    <3> QED BY <2>1, <3>1, <3>2, IdsUntouched
  <2>3. ThreadSound'
    BY <2>1, ThreadsKept
  <2>4. NothingLost'
    BY <2>1, PlacesKept
  <2> QED BY <2>2, <2>3, <2>4
<1> QED BY <1>1, <1>2, <1>3

LEMMA LossAlways == Spec => [](TypeOK /\ LossInv)
<1>1. Init => LossInv
  <2> SUFFICES ASSUME Init PROVE LossInv
    OBVIOUS
  <2>1. \A m \in Cited : m.id = 0
    BY DEF Init, Cited, NoJob
  <2> QED
    BY <2>1 DEF Init, LossInv, IdsSound, ThreadSound, NothingLost, Taken, NoJob
<1>2. TypeOK /\ LossInv /\ [Next]_vars => LossInv'
  <2> SUFFICES ASSUME TypeOK, LossInv, [Next]_vars PROVE LossInv'
    OBVIOUS
  <2>1. CASE UNCHANGED vars
    <3>1. UNCHANGED <<redis, threads, caller, history>>
      BY <2>1 DEF vars
    <3>2. IdsSound' /\ ThreadSound'
      BY <3>1 DEF LossInv, IdsSound, Cited, ThreadSound, JobTask, redis, threads, history
    <3>3. NothingLost'
      BY <3>1 DEF LossInv, NothingLost, Owed, InStream, InDelayed, Carried, Carries, JobTask,
         Taken, Undelivered, redis, threads, history
    <3> QED BY <3>2, <3>3 DEF LossInv
  <2> QED
    BY <2>1, EnqueueLoss, ReserveLoss, HandleLoss, SettleLoss, ReclaimLoss, EnvironmentLoss
    DEF Next
<1> QED BY <1>1, <1>2, TypeCorrect, PTL DEF Spec

\* A task whose enqueue was answered is never lost but for a fault that hits the step that
\* carries it from one place in Redis to the next: for any number of tasks, processes and
\* threads, and any number of crashes, failed commands and visibility timeouts.
THEOREM NoTaskLost == Spec => []NothingLost
<1>1. LossInv => NothingLost
  BY DEF LossInv
<1> QED BY <1>1, LossAlways, PTL

-----------------------------------------------------------------------------
(* What a step of thread w changes, command by command and outcome by outcome.  The     *)
(* invariants below are proved from these summaries, not from the actions.              *)

Keeps(w) == job'[w] = job[w] /\ fate'[w] = fate[w] /\ todo'[w] = todo[w]

\* The thread has done with its entry (Leave).
Drops(w) ==
    /\ job'[w] = NoJob /\ fate'[w] = "retrying"
    /\ todo'[w] = Without(todo[w], job[w].id)
    /\ pc'[w] \in {"claim", "idle", "loop"} /\ (pc'[w] # "claim" => todo'[w] = {})

Fault(f) == errors' = errors + f
Tears(w, f) == torn' = IF f THEN torn \cup {JobTask(w)} ELSE torn

Passes(w) ==
    /\ <<pc[w], pc'[w]>> \in
          {<<"loop", "halted">>, <<"loop", "read">>, <<"read", "idle">>,
           <<"read", "loop">>, <<"mark", "run">>, <<"idle", "loop">>}
    /\ Keeps(w)
    /\ \/ Fault(0)
       \/ Fault(1)
    /\ \/ UNCHANGED status
       \/ pc[w] = "mark" /\ status' = [status EXCEPT ![JobTask(w)] = "running"]
    /\ UNCHANGED <<stream, nextId, delivered, pel, stale, delayed, due, deadList, history>>

Scans(w) ==
    /\ pc[w] = "loop" /\ pc'[w] = "promote"
    /\ job'[w] = job[w] /\ fate'[w] = fate[w]
    /\ todo'[w] = {[id |-> 0, env |-> e] : e \in due}
    /\ Fault(0)
    /\ UNCHANGED <<redis, history>>

Takes(w) ==
    /\ pc[w] = "promote" /\ fate'[w] = fate[w]
    /\ \E m \in todo[w] :
         \/ /\ m.env \in delayed /\ ZRem(m.env)
            /\ pc'[w] = "readd" /\ job'[w] = m /\ todo'[w] = todo[w]
            /\ Fault(0) /\ UNCHANGED torn
         \/ /\ m.env \notin delayed /\ ZRem(m.env)
            /\ pc'[w] \in {"read", "promote"} /\ (pc'[w] = "read" => todo'[w] = {})
            /\ job'[w] = NoJob /\ todo'[w] = todo[w] \ {m}
            /\ Fault(0) /\ UNCHANGED torn
         \/ /\ ZRem(m.env) \/ UNCHANGED <<delayed, due>>
            /\ pc'[w] = "loop" /\ job'[w] = NoJob /\ todo'[w] = {}
            /\ Fault(1)
            /\ torn' = IF m.env \in delayed \ delayed' THEN torn \cup {m.env.task} ELSE torn
    /\ UNCHANGED <<stream, nextId, delivered, pel, stale, deadList, status, done, buried>>

Adds(w) ==
    /\ pc[w] = "readd" /\ fate'[w] = fate[w]
    /\ \/ /\ XAdd(job[w].env)
          /\ pc'[w] \in {"read", "promote"} /\ (pc'[w] = "read" => todo'[w] = {})
          /\ job'[w] = NoJob /\ todo'[w] = todo[w] \ {job[w]}
          /\ Fault(0)
       \/ /\ XAdd(job[w].env) \/ UNCHANGED <<stream, nextId>>
          /\ pc'[w] = "giveback" /\ job'[w] = job[w] /\ todo'[w] = todo[w]
          /\ Fault(1)
    /\ UNCHANGED <<delivered, pel, stale, delayed, due, deadList, status, history>>

GivesBack(w) ==
    /\ pc[w] = "giveback" /\ fate'[w] = fate[w]
    /\ pc'[w] \in {"read", "promote", "loop"} /\ (pc'[w] # "promote" => todo'[w] = {})
    /\ job'[w] = NoJob /\ todo'[w] \subseteq todo[w]
    /\ \/ ZAdd(job[w].env) /\ (Fault(0) \/ Fault(1)) /\ UNCHANGED torn
       \/ UNCHANGED <<delayed, due>> /\ Fault(1) /\ torn' = torn \cup {JobTask(w)}
    /\ UNCHANGED <<stream, nextId, delivered, pel, stale, deadList, status, done, buried>>

Reads(w) ==
    /\ pc[w] = "read" /\ todo'[w] = todo[w]
    /\ \E m \in Undelivered :
         /\ \A n \in Undelivered : m.id <= n.id
         /\ delivered' = m.id /\ pel' = pel \cup {m}
         /\ \/ /\ pc'[w] = "loop" /\ job'[w] = job[w] /\ fate'[w] = fate[w]
               /\ Fault(1)
            \/ /\ m.env.task \in Corrupt /\ job'[w] = m
               /\ pc'[w] = "xack" /\ fate'[w] = "dead"
               /\ Fault(0)
            \/ /\ m.env.task \notin Corrupt /\ job'[w] = m
               /\ pc'[w] = "mark" /\ fate'[w] = fate[w]
               /\ Fault(0)
    /\ UNCHANGED <<stream, nextId, stale, delayed, due, deadList, status, history>>

Handles(w) ==
    /\ pc[w] = "run" /\ pc'[w] = "xack" /\ todo'[w] = todo[w]
    /\ \/ /\ fate'[w] = "succeeded" /\ job'[w] = job[w]
          /\ done' = done \cup {JobTask(w)}
       \/ /\ fate'[w] = "retrying" /\ MayRetry(job[w].env)
          /\ job'[w] = [id |-> job[w].id, env |-> Attempted(job[w].env, "handler")]
          /\ UNCHANGED done
       \/ /\ fate'[w] = "dead" /\ job'[w] = job[w]
          /\ ~MayRetry(job[w].env) \/ JobTask(w) \in Unregistered
          /\ UNCHANGED done
    /\ Fault(0)
    /\ UNCHANGED <<redis, buried, torn>>

Acks(w) ==
    /\ pc[w] = "xack"
    /\ \/ /\ pel' = Without(pel, job[w].id) /\ stale' = Without(stale, job[w].id)
          /\ \/ pc'[w] = "xdel" /\ Keeps(w) /\ Fault(0) /\ UNCHANGED torn
             \/ Drops(w) /\ Fault(1) /\ Tears(w, fate[w] # "succeeded")
       \/ UNCHANGED <<pel, stale, torn>> /\ Drops(w) /\ Fault(1)
    /\ UNCHANGED <<stream, nextId, delivered, delayed, due, deadList, status, done, buried>>

Dels(w) ==
    /\ pc[w] = "xdel"
    /\ \/ /\ Erase(job[w].id) /\ UNCHANGED torn
          /\ pc'[w] = NextPlace[fate[w]] /\ Keeps(w) /\ Fault(0)
       \/ /\ Erase(job[w].id) \/ UNCHANGED stream
          /\ Drops(w) /\ Fault(1) /\ Tears(w, fate[w] # "succeeded")
    /\ UNCHANGED <<nextId, delivered, pel, stale, delayed, due, deadList, status, done, buried>>

Retries(w) ==
    /\ pc[w] = "zadd"
    /\ \/ /\ ZAdd(job[w].env) /\ UNCHANGED torn
          /\ \/ pc'[w] = "record" /\ Keeps(w) /\ Fault(0)
             \/ Drops(w) /\ Fault(1)
       \/ /\ UNCHANGED <<delayed, due>> /\ Tears(w, fate[w] # "succeeded")
          /\ Drops(w) /\ Fault(1)
    /\ UNCHANGED <<stream, nextId, delivered, pel, stale, deadList, status, done, buried>>

Pushes(w) ==
    /\ pc[w] = "lpush"
    /\ \/ /\ deadList' = <<job[w].env>> \o deadList
          /\ buried' = buried \cup {JobTask(w)} /\ UNCHANGED torn
          /\ \/ pc'[w] = "ltrim" /\ Keeps(w) /\ Fault(0)
             \/ Drops(w) /\ Fault(1)
       \/ /\ UNCHANGED <<deadList, buried>> /\ Tears(w, fate[w] # "succeeded")
          /\ Drops(w) /\ Fault(1)
    /\ UNCHANGED <<stream, nextId, delivered, pel, stale, delayed, due, status, done>>

Trims(w) ==
    /\ pc[w] = "ltrim"
    /\ \/ pc'[w] = "record" /\ Keeps(w) /\ Fault(0) /\ deadList' = Trimmed(deadList)
       \/ /\ JobTask(w) \in Corrupt
          /\ Drops(w) /\ Fault(0) /\ deadList' = Trimmed(deadList)
       \/ Drops(w) /\ Fault(1) /\ deadList' \in {deadList, Trimmed(deadList)}
    /\ UNCHANGED <<stream, nextId, delivered, pel, stale, delayed, due, status, history>>

Records(w) ==
    /\ pc[w] = "record" /\ Drops(w)
    /\ Fault(0) \/ Fault(1)
    /\ UNCHANGED status \/ status' = [status EXCEPT ![JobTask(w)] = fate[w]]
    /\ UNCHANGED <<stream, nextId, delivered, pel, stale, delayed, due, deadList, history>>

Reclaims(w) ==
    /\ pc[w] = "idle" /\ stale' = {} /\ stale # {}
    /\ job'[w] = job[w] /\ fate'[w] = fate[w]
    /\ \/ pc'[w] = "claim" /\ todo'[w] = stale /\ Fault(0)
       \/ pc'[w] = "loop" /\ todo'[w] = todo[w] /\ Fault(1)
    /\ UNCHANGED <<stream, nextId, delivered, pel, delayed, due, deadList, status, history>>

Claims(w) ==
    /\ pc[w] = "claim" /\ pc'[w] = "xack" /\ todo'[w] = todo[w]
    /\ \E m \in todo[w] :
         \/ m.env.task \in Corrupt /\ job'[w] = m /\ fate'[w] = "dead"
         \/ /\ m.env.task \notin Corrupt /\ fate'[w] = "retrying"
            /\ job'[w] = [id |-> m.id, env |-> Attempted(m.env, "reclaimed")]
    /\ Fault(0)
    /\ UNCHANGED <<redis, history>>

Step(w) ==
    \/ Passes(w) \/ Scans(w) \/ Takes(w) \/ Adds(w) \/ GivesBack(w) \/ Reads(w)
    \/ Handles(w) \/ Acks(w) \/ Dels(w) \/ Retries(w) \/ Pushes(w) \/ Trims(w) \/ Records(w)
    \/ Reclaims(w) \/ Claims(w)

LEMMA AnswerCases ==
    ASSUME errors \in Nat, NEW r \in Reply, Answer(r)
    PROVE  \/ r = "ok" /\ Fault(0) /\ Applied(r)
           \/ r = "refused" /\ Fault(1) /\ ~Applied(r)
           \/ r = "lost" /\ Fault(1) /\ Applied(r)
BY DEF Answer, Reply, Applied, Fault

LEMMA LeaveDrops ==
    ASSUME ThreadTypeOK, NEW w \in Worker, Leave(w) PROVE Drops(w)
<1>1. /\ job'[w] = NoJob /\ fate'[w] = "retrying"
      /\ todo'[w] = Without(todo[w], job[w].id)
  BY DEF Leave, ThreadTypeOK
<1>2. pc'[w] = IF Without(todo[w], job[w].id) # {} THEN "claim"
               ELSE IF todo[w] = {} /\ JobTask(w) \in Corrupt THEN "idle" ELSE "loop"
  BY DEF Leave, Goto, ThreadTypeOK
<1> QED BY <1>1, <1>2 DEF Drops

LEMMA ContinueSteps ==
    ASSUME ThreadTypeOK, NEW w \in Worker, NEW r, NEW l, Continue(w, r, l)
    PROVE  \/ r = "ok" /\ pc'[w] = l /\ Keeps(w)
           \/ r # "ok" /\ Drops(w)
<1>1. CASE r = "ok"
  BY <1>1 DEF Continue, Goto, Keeps, ThreadTypeOK
<1>2. CASE r # "ok"
  BY <1>2, LeaveDrops DEF Continue
<1> QED BY <1>1, <1>2

LEMMA StepsAlone ==
    ASSUME ThreadTypeOK, NEW w \in Worker,
           Reserve(w) \/ Handle(w) \/ Settle(w) \/ MaybeReclaim(w)
    PROVE  Others(w) /\ UNCHANGED <<caller, crashes, slow, exits>>
<1>1. CASE Reserve(w)
  BY <1>1 DEF Reserve, Halt, SkipPromote, PromoteScan, PromoteTake, PromoteAdd, PromoteBack,
     Read, ReadNothing, ReadFails, MarkRunning, Raise, NextMember, Goto, Others,
     ThreadTypeOK, bounds, Won
<1>2. CASE Handle(w)
  BY <1>2 DEF Handle, HandlerReturns, HandlerRaises, NoHandler, Resolve, Goto, Others,
     ThreadTypeOK, bounds
<1>3. CASE Settle(w)
  BY <1>3 DEF Settle, XAck, XDel, ZAddRetry, LPush, LTrim, RecordFate, Continue, Leave, Goto,
     Others, ThreadTypeOK
<1>4. CASE MaybeReclaim(w)
  BY <1>4 DEF MaybeReclaim, SkipReclaim, Reclaim, Claim, Goto, Others, ThreadTypeOK, bounds
<1> QED BY <1>1, <1>2, <1>3, <1>4

LEMMA ReserveSteps ==
    ASSUME TypeOK, NEW w \in Worker, Reserve(w) PROVE Step(w)
<1>0. ThreadTypeOK /\ errors \in Nat /\ w \in Worker
  BY DEF TypeOK, HistoryTypeOK
<1>1. CASE Halt(w) \/ SkipPromote(w) \/ ReadNothing(w)
  <2>1. Passes(w)
    BY <1>0, <1>1 DEF Halt, SkipPromote, ReadNothing, Goto, Passes, Keeps, ThreadTypeOK,
       redis, bounds, Fault
  <2> QED BY <2>1 DEF Step
<1>2. CASE ReadFails(w)
  <2>1. Fault(1)
    BY <1>0, <1>2 DEF ReadFails, Answer, Fault
  <2>2. Passes(w)
    BY <1>0, <1>2, <2>1 DEF ReadFails, Goto, Passes, Keeps, ThreadTypeOK, redis
  <2> QED BY <2>2 DEF Step
<1>3. CASE MarkRunning(w)
  <2>1. PICK r \in Reply : Answer(r) /\ SetStatus(JobTask(w), "running", r)
    BY <1>3 DEF MarkRunning
  <2>2. /\ Fault(0) \/ Fault(1)
        /\ UNCHANGED status \/ status' = [status EXCEPT ![JobTask(w)] = "running"]
    BY <1>0, <2>1, AnswerCases DEF SetStatus
  <2>3. Passes(w)
    BY <1>0, <1>3, <2>2 DEF MarkRunning, Goto, Passes, Keeps, ThreadTypeOK
  <2> QED BY <2>3 DEF Step
<1>4. CASE PromoteScan(w)
  BY <1>0, <1>4 DEF PromoteScan, Goto, Scans, Step, ThreadTypeOK, redis, bounds, Fault
<1>5. CASE PromoteTake(w)
  <2>1. PICK m \in todo[w], r \in Reply : PromoteTake(w)!2!(m, r)
    BY <1>5 DEF PromoteTake
  <2>2. \/ r = "ok" /\ Fault(0) /\ Applied(r)
        \/ r = "refused" /\ Fault(1) /\ ~Applied(r)
        \/ r = "lost" /\ Fault(1) /\ Applied(r)
    BY <1>0, <2>1, AnswerCases
  <2>3. CASE r = "ok" /\ m.env \in delayed
    <3>1. /\ m.env \in delayed /\ ZRem(m.env)
          /\ pc'[w] = "readd" /\ job'[w] = m /\ todo'[w] = todo[w]
          /\ Fault(0) /\ UNCHANGED torn
      BY <1>0, <2>1, <2>2, <2>3 DEF Won, Goto, ThreadTypeOK
    <3> QED BY <1>0, <1>5, <3>1 DEF PromoteTake, Takes, Step
  <2>4. CASE r = "ok" /\ m.env \notin delayed
    <3>1. NextMember(w, m) /\ ZRem(m.env) /\ Fault(0) /\ UNCHANGED torn
      BY <2>1, <2>2, <2>4 DEF Won
    <3>2. /\ m.env \notin delayed /\ ZRem(m.env)
          /\ pc'[w] \in {"read", "promote"} /\ (pc'[w] = "read" => todo'[w] = {})
          /\ job'[w] = NoJob /\ todo'[w] = todo[w] \ {m}
          /\ Fault(0) /\ UNCHANGED torn
      BY <1>0, <2>4, <3>1 DEF NextMember, Goto, ThreadTypeOK
    <3> QED BY <1>0, <1>5, <3>2 DEF PromoteTake, Takes, Step
  <2>5. CASE r # "ok"
    <3>1. Raise(w) /\ Fault(1) /\ (ZRem(m.env) \/ UNCHANGED <<delayed, due>>)
      BY <2>1, <2>2, <2>5
    <3>2. torn' = IF m.env \in delayed \ delayed' THEN torn \cup {m.env.task} ELSE torn
      BY <2>1, <2>2, <2>5 DEF ZRem
    <3>3. /\ ZRem(m.env) \/ UNCHANGED <<delayed, due>>
          /\ pc'[w] = "loop" /\ job'[w] = NoJob /\ todo'[w] = {}
          /\ Fault(1)
          /\ torn' = IF m.env \in delayed \ delayed' THEN torn \cup {m.env.task} ELSE torn
      BY <1>0, <3>1, <3>2 DEF Raise, Goto, ThreadTypeOK
    <3> QED BY <1>0, <1>5, <3>3 DEF PromoteTake, Takes, Step
  <2> QED BY <2>2, <2>3, <2>4, <2>5
<1>6. CASE PromoteAdd(w)
  <2>1. PICK r \in Reply : PromoteAdd(w)!2!(r)
    BY <1>6 DEF PromoteAdd
  <2>2. CASE r = "ok"
    <3>1. /\ XAdd(job[w].env) /\ Fault(0)
          /\ pc'[w] \in {"read", "promote"} /\ (pc'[w] = "read" => todo'[w] = {})
          /\ job'[w] = NoJob /\ todo'[w] = todo[w] \ {job[w]}
      BY <1>0, <2>1, <2>2, AnswerCases DEF NextMember, Goto, ThreadTypeOK
    <3> QED BY <1>0, <1>6, <3>1 DEF PromoteAdd, Adds, Step
  <2>3. CASE r # "ok"
    <3>1. /\ XAdd(job[w].env) \/ UNCHANGED <<stream, nextId>>
          /\ pc'[w] = "giveback" /\ job'[w] = job[w] /\ todo'[w] = todo[w]
          /\ Fault(1)
      BY <1>0, <2>1, <2>3, AnswerCases DEF Goto, ThreadTypeOK
    <3> QED BY <1>0, <1>6, <3>1 DEF PromoteAdd, Adds, Step
  <2> QED BY <2>2, <2>3
<1>7. CASE PromoteBack(w)
  <2>1. PICK r \in Reply : PromoteBack(w)!2!(r)
    BY <1>7 DEF PromoteBack
  <2>2. /\ pc'[w] \in {"read", "promote", "loop"} /\ (pc'[w] # "promote" => todo'[w] = {})
        /\ job'[w] = NoJob /\ todo'[w] \subseteq todo[w]
    BY <1>0, <2>1 DEF NextMember, Raise, Goto, ThreadTypeOK
  <2>3. \/ ZAdd(job[w].env) /\ (Fault(0) \/ Fault(1)) /\ UNCHANGED torn
        \/ UNCHANGED <<delayed, due>> /\ Fault(1) /\ torn' = torn \cup {JobTask(w)}
    BY <1>0, <2>1, AnswerCases
  <2> QED BY <1>0, <1>7, <2>2, <2>3 DEF PromoteBack, GivesBack, Step
<1>8. CASE Read(w)
  <2>1. PICK m \in Undelivered, r \in {"ok", "lost"} : Read(w)!2!(m, r)
    BY <1>8 DEF Read
  <2>2. Fault(IF r = "ok" THEN 0 ELSE 1)
    BY <1>0, <2>1, AnswerCases DEF Reply
  <2>3. \/ /\ pc'[w] = "loop" /\ job'[w] = job[w] /\ fate'[w] = fate[w]
           /\ Fault(1)
        \/ /\ m.env.task \in Corrupt /\ job'[w] = m
           /\ pc'[w] = "xack" /\ fate'[w] = "dead"
           /\ Fault(0)
        \/ /\ m.env.task \notin Corrupt /\ job'[w] = m
           /\ pc'[w] = "mark" /\ fate'[w] = fate[w]
           /\ Fault(0)
    BY <1>0, <2>1, <2>2 DEF Goto, ThreadTypeOK
  <2> QED BY <1>0, <1>8, <2>1, <2>3 DEF Read, Reads, Step
<1> QED BY <1>1, <1>2, <1>3, <1>4, <1>5, <1>6, <1>7, <1>8 DEF Reserve

LEMMA HandleSteps ==
    ASSUME TypeOK, NEW w \in Worker, Handle(w) PROVE Step(w)
<1>1. /\ pc[w] = "run" /\ pc'[w] = "xack" /\ todo'[w] = todo[w] /\ Fault(0)
      /\ UNCHANGED <<redis, buried, torn>>
  BY DEF Handle, HandlerReturns, HandlerRaises, NoHandler, Resolve, Goto, TypeOK,
     ThreadTypeOK, HistoryTypeOK, bounds, Fault
<1>2. CASE HandlerReturns(w)
  BY <1>1, <1>2 DEF HandlerReturns, Resolve, TypeOK, ThreadTypeOK, Handles, Step
<1>3. CASE HandlerRaises(w)
  BY <1>1, <1>3 DEF HandlerRaises, Resolve, TypeOK, ThreadTypeOK, Handles, Step
<1>4. CASE NoHandler(w)
  BY <1>1, <1>4 DEF NoHandler, Resolve, TypeOK, ThreadTypeOK, Handles, Step
<1> QED BY <1>2, <1>3, <1>4 DEF Handle

LEMMA SettleSteps ==
    ASSUME TypeOK, NEW w \in Worker, Settle(w) PROVE Step(w)
<1>0. ThreadTypeOK /\ errors \in Nat /\ w \in Worker
  BY DEF TypeOK, HistoryTypeOK
<1>1. CASE XAck(w)
  <2>1. PICK r \in Reply : XAck(w)!2!(r)
    BY <1>1 DEF XAck
  <2>2. \/ r = "ok" /\ pc'[w] = "xdel" /\ Keeps(w)
        \/ r # "ok" /\ Drops(w)
    BY <1>0, <2>1, ContinueSteps
  <2>3. \/ /\ pel' = Without(pel, job[w].id) /\ stale' = Without(stale, job[w].id)
           /\ \/ pc'[w] = "xdel" /\ Keeps(w) /\ Fault(0) /\ UNCHANGED torn
              \/ Drops(w) /\ Fault(1) /\ Tears(w, fate[w] # "succeeded")
        \/ UNCHANGED <<pel, stale, torn>> /\ Drops(w) /\ Fault(1)
    BY <1>0, <2>1, <2>2, AnswerCases DEF TearIf, Tears
  <2> QED BY <1>1, <2>3 DEF XAck, Acks, Step
<1>2. CASE XDel(w)
  <2>1. PICK r \in Reply : XDel(w)!2!(r)
    BY <1>2 DEF XDel
  <2>2. \/ r = "ok" /\ pc'[w] = NextPlace[fate[w]] /\ Keeps(w)
        \/ r # "ok" /\ Drops(w)
    BY <1>0, <2>1, ContinueSteps
  <2>3. \/ /\ Erase(job[w].id) /\ UNCHANGED torn
           /\ pc'[w] = NextPlace[fate[w]] /\ Keeps(w) /\ Fault(0)
        \/ /\ Erase(job[w].id) \/ UNCHANGED stream
           /\ Drops(w) /\ Fault(1) /\ Tears(w, fate[w] # "succeeded")
    BY <1>0, <2>1, <2>2, AnswerCases DEF TearIf, Tears
  <2> QED BY <1>2, <2>3 DEF XDel, Dels, Step
<1>3. CASE ZAddRetry(w)
  <2>1. PICK r \in Reply : ZAddRetry(w)!2!(r)
    BY <1>3 DEF ZAddRetry
  <2>2. \/ r = "ok" /\ pc'[w] = "record" /\ Keeps(w)
        \/ r # "ok" /\ Drops(w)
    BY <1>0, <2>1, ContinueSteps
  <2>3. \/ /\ ZAdd(job[w].env) /\ UNCHANGED torn
           /\ \/ pc'[w] = "record" /\ Keeps(w) /\ Fault(0)
              \/ Drops(w) /\ Fault(1)
        \/ /\ UNCHANGED <<delayed, due>> /\ Tears(w, fate[w] # "succeeded")
           /\ Drops(w) /\ Fault(1)
    BY <1>0, <2>1, <2>2, AnswerCases DEF TearIf, Tears
  <2> QED BY <1>3, <2>3 DEF ZAddRetry, Retries, Step
<1>4. CASE LPush(w)
  <2>1. PICK r \in Reply : LPush(w)!2!(r)
    BY <1>4 DEF LPush
  <2>2. \/ r = "ok" /\ pc'[w] = "ltrim" /\ Keeps(w)
        \/ r # "ok" /\ Drops(w)
    BY <1>0, <2>1, ContinueSteps
  <2>3. \/ /\ deadList' = <<job[w].env>> \o deadList
           /\ buried' = buried \cup {JobTask(w)} /\ UNCHANGED torn
           /\ \/ pc'[w] = "ltrim" /\ Keeps(w) /\ Fault(0)
              \/ Drops(w) /\ Fault(1)
        \/ /\ UNCHANGED <<deadList, buried>> /\ Tears(w, fate[w] # "succeeded")
           /\ Drops(w) /\ Fault(1)
    BY <1>0, <2>1, <2>2, AnswerCases DEF TearIf, Tears
  <2> QED BY <1>4, <2>3 DEF LPush, Pushes, Step
<1>5. CASE LTrim(w)
  <2>1. PICK r \in Reply : LTrim(w)!2!(r)
    BY <1>5 DEF LTrim
  <2>2. \/ r = "ok" /\ pc'[w] = "record" /\ Keeps(w)
        \/ r # "ok" /\ Drops(w)
        \/ JobTask(w) \in Corrupt /\ Drops(w)
    BY <1>0, <2>1, ContinueSteps, LeaveDrops
  <2>3. \/ pc'[w] = "record" /\ Keeps(w) /\ Fault(0) /\ deadList' = Trimmed(deadList)
        \/ /\ JobTask(w) \in Corrupt
           /\ Drops(w) /\ Fault(0) /\ deadList' = Trimmed(deadList)
        \/ Drops(w) /\ Fault(1) /\ deadList' \in {deadList, Trimmed(deadList)}
    BY <1>0, <2>1, <2>2, AnswerCases
  <2> QED BY <1>5, <2>3 DEF LTrim, Trims, Step
<1>6. CASE RecordFate(w)
  <2>1. PICK r \in Reply : Answer(r) /\ SetStatus(JobTask(w), fate[w], r)
    BY <1>6 DEF RecordFate
  <2>2. /\ Fault(0) \/ Fault(1)
        /\ UNCHANGED status \/ status' = [status EXCEPT ![JobTask(w)] = fate[w]]
    BY <1>0, <2>1, AnswerCases DEF SetStatus
  <2>3. Drops(w)
    BY <1>0, <1>6, LeaveDrops DEF RecordFate
  <2> QED BY <1>6, <2>2, <2>3 DEF RecordFate, Records, Step
<1> QED BY <1>1, <1>2, <1>3, <1>4, <1>5, <1>6 DEF Settle

LEMMA ReclaimSteps ==
    ASSUME TypeOK, NEW w \in Worker, MaybeReclaim(w) PROVE Step(w)
<1>0. ThreadTypeOK /\ errors \in Nat /\ w \in Worker
  BY DEF TypeOK, HistoryTypeOK
<1>1. CASE SkipReclaim(w)
  BY <1>0, <1>1 DEF SkipReclaim, Goto, Passes, Keeps, Step, ThreadTypeOK, redis, bounds, Fault
<1>2. CASE Reclaim(w)
  <2>1. PICK r \in {"ok", "lost"} : Reclaim(w)!2!(r)
    BY <1>2 DEF Reclaim
  <2>2. Fault(IF r = "ok" THEN 0 ELSE 1)
    BY <1>0, <2>1, AnswerCases DEF Reply
  <2>3. stale' = {} /\ stale # {}
    BY <1>2 DEF Reclaim, Reclaimable
  <2>4. \/ pc'[w] = "claim" /\ todo'[w] = stale /\ Fault(0)
        \/ pc'[w] = "loop" /\ todo'[w] = todo[w] /\ Fault(1)
    BY <1>0, <2>1, <2>2 DEF Goto, Reclaimable, ThreadTypeOK
  <2> QED BY <1>0, <1>2, <2>3, <2>4 DEF Reclaim, Reclaims, Step
<1>3. CASE Claim(w)
  <2>1. PICK m \in todo[w] : Claim(w)!2!(m)
    BY <1>3 DEF Claim
  <2>2. \/ m.env.task \in Corrupt /\ job'[w] = m /\ fate'[w] = "dead"
        \/ /\ m.env.task \notin Corrupt /\ fate'[w] = "retrying"
           /\ job'[w] = [id |-> m.id, env |-> Attempted(m.env, "reclaimed")]
    BY <1>0, <2>1 DEF ThreadTypeOK
  <2>3. pc'[w] = "xack" /\ Fault(0)
    BY <1>0, <1>3 DEF Claim, Goto, ThreadTypeOK, bounds, Fault
  <2> QED BY <1>3, <2>2, <2>3 DEF Claim, Claims, Step
<1> QED BY <1>1, <1>2, <1>3 DEF MaybeReclaim

LEMMA ThreadSteps ==
    ASSUME TypeOK, NEW w \in Worker,
           Reserve(w) \/ Handle(w) \/ Settle(w) \/ MaybeReclaim(w)
    PROVE  Step(w) /\ Others(w) /\ UNCHANGED <<caller, crashes, slow, exits>>
BY ReserveSteps, HandleSteps, SettleSteps, ReclaimSteps, StepsAlone DEF TypeOK

-----------------------------------------------------------------------------
(* The queue implements TaskDelivery.  What the abstract queue knows is what is safe    *)
(* here; a thread works only on such tasks, and a task nobody submitted is none.        *)

KnownInv ==
    /\ due \subseteq delayed
    /\ \A t \in Task : caller[t] = "new" => ~Safe(t)
    /\ \A w \in Worker :
         /\ pc[w] \in {"mark", "run", "xack"} => Safe(JobTask(w))
         /\ \A m \in todo[w] : Safe(m.env.task)

Own == {t \in Task : Owed(t)}

\* A step of the abstract queue that takes no new task.
Advance ==
    \/ UNCHANGED <<Own, done, buried, torn>>
    \/ \E t \in Task : \/ Delivery!Succeed(t) \/ Delivery!Revive(t)
                       \/ Delivery!Release(t) \/ Delivery!Bury(t)
    \/ \E S \in SUBSET Task : Delivery!Tear(S)

LEMMA KnownIsSafe ==
    ASSUME HistoryTypeOK PROVE Delivery!Known = {t \in Task : Safe(t)}
BY DEF Delivery!Known, Safe, HistoryTypeOK

LEMMA AdvanceSimulates == Advance => [Delivery!Next]_(Delivery!vars)
BY DEF Advance, Own, Delivery!Next, Delivery!vars

\* An Advance neither learns of a task nor forgets one.
LEMMA AdvanceKnows ==
    ASSUME HistoryTypeOK, HistoryTypeOK', Advance
    PROVE  \A t \in Task : Safe(t)' <=> Safe(t)
<1>1. Delivery!Known' = Delivery!Known
  <2>1. CASE UNCHANGED <<Own, done, buried, torn>>
    BY <2>1 DEF Own, Delivery!Known
  <2>2. ASSUME NEW t \in Task, Delivery!Succeed(t) \/ Delivery!Revive(t)
        PROVE  Delivery!Known' = Delivery!Known
    BY <2>2 DEF Delivery!Known, Delivery!Succeed, Delivery!Revive
  <2>3. ASSUME NEW t \in Task, Delivery!Release(t) \/ Delivery!Bury(t)
        PROVE  Delivery!Known' = Delivery!Known
    BY <2>3 DEF Delivery!Known, Delivery!Release, Delivery!Bury
  <2>4. ASSUME NEW S \in SUBSET Task, Delivery!Tear(S)
        PROVE  Delivery!Known' = Delivery!Known
    BY <2>4 DEF Delivery!Known, Delivery!Tear
  <2> QED BY <2>1, <2>2, <2>3, <2>4 DEF Advance
<1> QED BY <1>1, KnownIsSafe DEF Delivery!Known, Safe, HistoryTypeOK

\* A step concerns one known task s; what happens to it decides what the step is.
LEMMA Classified ==
    ASSUME HistoryTypeOK, NEW s \in Task, Safe(s),
           \A t \in Task : t # s => (Owed(t)' <=> Owed(t)),
           \/ /\ UNCHANGED history
              /\ Owed(s)' \/ ~Owed(s) \/ s \in done \cup buried
           \/ /\ done' = done \cup {s} /\ UNCHANGED <<buried, torn>>
              /\ Owed(s)' <=> Owed(s)
           \/ /\ buried' = buried \cup {s} /\ UNCHANGED <<done, torn>>
              /\ Owed(s)
           \/ /\ torn' = torn \cup {s} /\ UNCHANGED <<done, buried>>
              /\ Owed(s)' => Owed(s)
    PROVE  Advance
<1>1. s \in Delivery!Known
  BY KnownIsSafe
<1>2. Own' \in {Own, Own \cup {s}, Own \ {s}}
  BY DEF Own
<1>3. CASE UNCHANGED history /\ (Owed(s)' \/ ~Owed(s) \/ s \in done \cup buried)
  <2>1. CASE Owed(s)' <=> Owed(s)
    BY <1>3, <2>1 DEF Advance, Own, history
  <2>2. CASE Owed(s)' /\ ~Owed(s)
    <3>1. Delivery!Revive(s)
      BY <1>1, <1>2, <1>3, <2>2 DEF Delivery!Revive, Own, history
    <3> QED BY <3>1 DEF Advance
  <2>3. CASE ~Owed(s)' /\ Owed(s)
    <3>1. Delivery!Release(s)
      BY <1>2, <1>3, <2>3 DEF Delivery!Release, Own, history
    <3> QED BY <3>1 DEF Advance
  <2> QED BY <2>1, <2>2, <2>3
<1>4. CASE done' = done \cup {s} /\ UNCHANGED <<buried, torn>> /\ (Owed(s)' <=> Owed(s))
  <2>1. Delivery!Succeed(s)
    BY <1>1, <1>4 DEF Delivery!Succeed
  <2> QED BY <2>1 DEF Advance
<1>5. CASE buried' = buried \cup {s} /\ UNCHANGED <<done, torn>> /\ Owed(s)
  <2>1. Delivery!Bury(s)
    BY <1>2, <1>5 DEF Delivery!Bury, Own
  <2> QED BY <2>1 DEF Advance
<1>6. CASE torn' = torn \cup {s} /\ UNCHANGED <<done, buried>> /\ (Owed(s)' => Owed(s))
  <2>1. Own' = Own \/ Own' = Own \ {s}
    BY <1>2, <1>6 DEF Own
  <2>2. \E gone \in SUBSET {s} : Own' = Own \ gone
    <3>1. {} \in SUBSET {s} /\ {s} \in SUBSET {s} /\ Own = Own \ {}
      OBVIOUS
    <3> QED BY <2>1, <3>1, Zenon
  <2>3. Delivery!Tear({s})
    BY <1>1, <1>6, <2>2 DEF Delivery!Tear, Own
  <2> QED BY <2>3 DEF Advance
<1> QED BY <1>3, <1>4, <1>5, <1>6

\* Thread w has the only hold on the task t.
Bears(w, t) == Carries(w) /\ JobTask(w) = t
Elsewhere(w, t) == \E v \in Worker \ {w} : Bears(v, t)

LEMMA OwedByParts ==
    ASSUME NEW w \in Worker, NEW t
    PROVE  Owed(t) <=> InStream(t) \/ InDelayed(t) \/ Bears(w, t) \/ Elsewhere(w, t)
BY DEF Owed, Carried, Bears, Elsewhere

LEMMA ElsewhereKept ==
    ASSUME NEW w \in Worker, NEW t, Others(w) PROVE Elsewhere(w, t)' <=> Elsewhere(w, t)
BY DEF Others, Elsewhere, Bears, Carries, JobTask

\* The places, seen from the thread that moves.
LEMMA OwedAfter ==
    ASSUME NEW w \in Worker, NEW t, Others(w)
    PROVE  /\ Owed(t) <=> InStream(t) \/ InDelayed(t) \/ Bears(w, t) \/ Elsewhere(w, t)
           /\ Owed(t)' <=> \/ InStream(t)' \/ InDelayed(t)' \/ Bears(w, t)'
                           \/ Elsewhere(w, t)
<1>1. Owed(t)' <=> InStream(t)' \/ InDelayed(t)' \/ Bears(w, t)' \/ Elsewhere(w, t)'
  BY DEF Owed, Carried, Bears, Elsewhere
<1> QED BY <1>1, OwedByParts, ElsewhereKept

LEMMA Unmoved ==
    ASSUME NEW w \in Worker, Others(w), UNCHANGED <<stream, delivered, pel, delayed>>,
           \A t \in Task : Bears(w, t)' <=> Bears(w, t)
    PROVE  \A t \in Task : Owed(t)' <=> Owed(t)
<1>1. \A t \in Task : (InStream(t)' <=> InStream(t)) /\ (InDelayed(t)' <=> InDelayed(t))
  BY DEF InStream, InDelayed, Undelivered
<1> QED BY <1>1, OwedAfter

LEMMA UnmovedAdvance ==
    ASSUME \A t \in Task : Owed(t)' <=> Owed(t), UNCHANGED <<done, buried, torn>>
    PROVE  Advance
BY DEF Advance, Own

LEMMA IdleAdvances ==
    ASSUME TypeOK, LossInv, KnownInv, NEW w \in Worker, Others(w),
           Passes(w) \/ Scans(w) \/ Trims(w) \/ Records(w) \/ Reclaims(w) \/ Claims(w)
    PROVE  Advance
<1>1. /\ UNCHANGED <<stream, delivered, pel, delayed, done, buried, torn>>
      /\ pc[w] \in {"loop", "read", "mark", "idle", "ltrim", "record", "claim"}
      /\ pc'[w] \in {"halted", "read", "idle", "loop", "run", "promote", "record", "claim", "xack"}
  BY DEF Passes, Scans, Trims, Records, Reclaims, Claims, Drops, redis, history
<1>2. \A t \in Task : Bears(w, t)' <=> Bears(w, t)
  BY <1>1 DEF Bears, Carries
<1> QED BY <1>1, <1>2, Unmoved, UnmovedAdvance

LEMMA TakesAdvances ==
    ASSUME TypeOK, LossInv, KnownInv, NEW w \in Worker, Others(w), Takes(w)
    PROVE  Advance
<1>1. PICK m \in todo[w] : Takes(w)!2!(m)
  BY DEF Takes
<1> DEFINE s == m.env.task
<1>2. /\ s \in Task /\ Safe(s)
      /\ pc[w] = "promote" /\ ~Carries(w)
      /\ UNCHANGED <<stream, delivered, pel, done, buried>>
  BY EntryFields DEF Takes, Carries, KnownInv, TypeOK, ThreadTypeOK
<1>3. CASE m.env \notin delayed \/ UNCHANGED delayed
  <2>1. UNCHANGED <<delayed, torn>> /\ pc'[w] \in {"read", "promote", "loop"}
    BY <1>1, <1>3 DEF ZRem
  <2> QED BY <1>2, <2>1, Unmoved, UnmovedAdvance DEF Bears, Carries
<1>4. CASE m.env \in delayed /\ delayed' = delayed \ {m.env}
  <2>1. \A t \in Task : InStream(t)' <=> InStream(t)
    BY <1>2 DEF InStream, Undelivered
  <2>2. \A t \in Task : t # s => (InDelayed(t)' <=> InDelayed(t))
    BY <1>4 DEF InDelayed
  <2>3. Owed(s)
    BY <1>4 DEF Owed, InDelayed
  <2>4. CASE pc'[w] = "readd"
    <3>1. Bears(w, s)' /\ \A t \in Task : t # s => ~Bears(w, t)'
      BY <1>1, <2>4 DEF Bears, Carries, JobTask
    <3>2. Owed(s)' /\ \A t \in Task : t # s => (Owed(t)' <=> Owed(t))
      BY <1>2, <2>1, <2>2, <3>1, OwedAfter DEF Bears
    <3>3. UNCHANGED history
      BY <1>1, <1>2, <2>4 DEF history
    <3> QED BY <1>2, <3>2, <3>3, Classified DEF TypeOK
  <2>5. CASE pc'[w] # "readd"
    <3>1. pc'[w] = "loop" /\ torn' = torn \cup {s}
      BY <1>1, <1>4, <2>5
    <3>2. \A t \in Task : t # s => (Owed(t)' <=> Owed(t))
      BY <1>2, <2>1, <2>2, <3>1, OwedAfter DEF Bears, Carries
    <3> QED BY <1>2, <2>3, <3>1, <3>2, Classified DEF TypeOK
  <2> QED BY <2>4, <2>5
<1> QED BY <1>1, <1>3, <1>4 DEF ZRem

\* An entry that was just added is undelivered.
LEMMA AddedEntry ==
    ASSUME TypeOK, IdsSound, NEW env, XAdd(env), UNCHANGED <<delivered, pel>>
    PROVE  \A t \in Task : InStream(t)' <=> InStream(t) \/ t = env.task
<1>1. Undelivered' = Undelivered \cup {[id |-> nextId, env |-> env]}
  BY DEF XAdd, Undelivered, IdsSound, TypeOK, RedisTypeOK
<1> DEFINE new == [id |-> nextId, env |-> env]
<1>2. new.env.task = env.task /\ (Undelivered \cup pel)' = (Undelivered \cup pel) \cup {new}
  BY <1>1
<1> HIDE DEF new
<1> QED BY <1>2 DEF InStream

LEMMA AddsAdvances ==
    ASSUME TypeOK, LossInv, KnownInv, NEW w \in Worker, Others(w), Adds(w)
    PROVE  Advance
<1>0. PICK s \in Task : s = JobTask(w)
  BY JobTaskType DEF TypeOK
<1>1. /\ s \in Task /\ Carries(w) /\ Bears(w, s) /\ Safe(s)
      /\ UNCHANGED <<delivered, pel, delayed, history>>
  BY <1>0, JobTaskType DEF Adds, Carries, Bears, Safe, Owed, Carried, TypeOK
<1>2. \A t \in Task : InDelayed(t)' <=> InDelayed(t)
  BY <1>0, <1>1 DEF InDelayed
<1>3. \A t \in Task : t # s => (InStream(t)' <=> InStream(t))
  BY <1>0, <1>1, AddedEntry DEF Adds, InStream, Undelivered, LossInv, JobTask
<1>4. \A t \in Task : t # s => ~Bears(w, t)' /\ ~Bears(w, t)
  <2>1. job'[w] = job[w] \/ pc'[w] \in {"read", "promote"}
    BY DEF Adds
  <2> QED BY <1>0, <2>1 DEF Bears, Carries, JobTask
<1>5. Owed(s)'
  <2>1. CASE XAdd(job[w].env)
    BY <1>0, <1>1, <2>1, AddedEntry DEF LossInv, JobTask, Owed
  <2>2. CASE pc'[w] = "giveback" /\ job'[w] = job[w]
    BY <1>0, <2>2 DEF Owed, Carried, Carries, JobTask
  <2> QED BY <1>0, <2>1, <2>2 DEF Adds
<1>6. \A t \in Task : t # s => (Owed(t)' <=> Owed(t))
  BY <1>2, <1>3, <1>4, OwedAfter
<1> QED BY <1>1, <1>5, <1>6, Classified DEF TypeOK

LEMMA ReturnAdvances ==
    ASSUME TypeOK, LossInv, KnownInv, NEW w \in Worker, Others(w),
           GivesBack(w) \/ Retries(w)
    PROVE  Advance
<1>0. PICK s \in Task : s = JobTask(w)
  BY JobTaskType DEF TypeOK
<1>1. /\ s \in Task /\ Carries(w) /\ Bears(w, s) /\ Safe(s) /\ Owed(s)
      /\ UNCHANGED <<stream, delivered, pel, done, buried>>
  BY <1>0, JobTaskType DEF GivesBack, Retries, Carries, Bears, Safe, Owed, Carried, TypeOK
<1>2. \A t \in Task : InStream(t)' <=> InStream(t)
  BY <1>0, <1>1 DEF InStream, Undelivered
<1>3. \/ ZAdd(job[w].env) /\ UNCHANGED torn
      \/ UNCHANGED delayed /\ torn' = torn \cup {s}
  BY <1>0 DEF GivesBack, Retries, Tears, LossInv, ThreadSound
<1>4. \A t \in Task : t # s => (InDelayed(t)' <=> InDelayed(t))
  BY <1>0, <1>3 DEF ZAdd, InDelayed, JobTask
<1>5. ~Carries(w)'
  BY <1>0 DEF GivesBack, Retries, Drops, Carries
<1>6. \A t \in Task : t # s => (Owed(t)' <=> Owed(t))
  BY <1>0, <1>2, <1>4, <1>5, OwedAfter DEF Bears
<1>7. CASE ZAdd(job[w].env) /\ UNCHANGED torn
  <2>1. Owed(s)'
    BY <1>0, <1>7 DEF ZAdd, Owed, InDelayed, JobTask
  <2> QED BY <1>0, <1>1, <1>6, <1>7, <2>1, Classified DEF TypeOK, history
<1>8. CASE torn' = torn \cup {s}
  BY <1>1, <1>6, <1>8, Classified DEF TypeOK
<1> QED BY <1>3, <1>7, <1>8

LEMMA ReadsAdvances ==
    ASSUME TypeOK, LossInv, KnownInv, NEW w \in Worker, Others(w), Reads(w)
    PROVE  Advance
<1>1. PICK m \in Undelivered : Reads(w)!2!(m)
  BY DEF Reads
<1>2. /\ UNCHANGED <<stream, delayed, done, buried, torn>>
      /\ ~Carries(w) /\ ~Carries(w)'
  BY <1>1 DEF Reads, history, Carries
<1>3. \A t \in Task : InStream(t)' <=> InStream(t)
  <2>1. \A n \in stream \cup pel : n.id \in Nat /\ n \in Cited
    BY EntryFields DEF TypeOK, RedisTypeOK, Cited
  <2>2. m \in stream /\ delivered < m.id /\ delivered \in Nat
    BY DEF Undelivered, TypeOK, RedisTypeOK
  <2>3. \A n \in (Undelivered \cup pel)' : n \in Undelivered \cup pel
    BY <1>1, <1>2, <2>1, <2>2 DEF Undelivered
  <2>4. \A n \in Undelivered \cup pel : n \in (Undelivered \cup pel)' \/ n.env.task = m.env.task
    <3> SUFFICES ASSUME NEW n \in Undelivered, n \notin Undelivered'
                 PROVE  n.env.task = m.env.task
      BY <1>1
    <3>1. n \in stream /\ n.id = m.id
      BY <1>1, <1>2, <2>1, <2>2 DEF Undelivered
    <3> QED BY <2>1, <2>2, <3>1 DEF LossInv, IdsSound
  <2>5. m \in (Undelivered \cup pel)'
    BY <1>1
  <2> QED BY <2>3, <2>4, <2>5 DEF InStream
<1>4. \A t \in Task : InDelayed(t)' <=> InDelayed(t)
  BY <1>2 DEF InDelayed
<1>5. \A t \in Task : Owed(t)' <=> Owed(t)
  BY <1>2, <1>3, <1>4, OwedAfter DEF Bears
<1> QED BY <1>2, <1>5, UnmovedAdvance

LEMMA HandlesAdvances ==
    ASSUME TypeOK, LossInv, KnownInv, NEW w \in Worker, Others(w), Handles(w)
    PROVE  Advance
<1>1. /\ JobTask(w) \in Task /\ Safe(JobTask(w))
      /\ UNCHANGED <<stream, delivered, pel, delayed, buried, torn>>
      /\ ~Carries(w) /\ ~Carries(w)'
  BY JobTaskType DEF Handles, KnownInv, Carries, TypeOK, redis
<1>2. \A t \in Task : Owed(t)' <=> Owed(t)
  BY <1>1, Unmoved DEF Bears
<1>3. CASE UNCHANGED done
  BY <1>1, <1>2, <1>3, UnmovedAdvance
<1>4. CASE done' = done \cup {JobTask(w)}
  BY <1>1, <1>2, <1>4, Classified DEF TypeOK
<1> QED BY <1>3, <1>4 DEF Handles

LEMMA AcksAdvances ==
    ASSUME TypeOK, LossInv, KnownInv, NEW w \in Worker, Others(w), Acks(w)
    PROVE  Advance
<1>0. PICK s \in Task : s = JobTask(w)
  BY JobTaskType DEF TypeOK
<1>1. /\ s \in Task /\ Safe(s) /\ ~Carries(w) /\ pc[w] = "xack"
      /\ UNCHANGED <<stream, delivered, delayed, done, buried>>
  BY <1>0, JobTaskType DEF Acks, KnownInv, Carries, TypeOK
<1>2. \A t \in Task : InDelayed(t)' <=> InDelayed(t)
  BY <1>0, <1>1 DEF InDelayed
<1>3. CASE pel' = Without(pel, job[w].id)
  <2>1. \A m \in pel : m \in pel' \/ m.env.task = s
    <3> SUFFICES ASSUME NEW m \in pel, m.id = job[w].id PROVE m.env.task = s
      BY <1>3 DEF Without
    <3> QED BY <1>0 DEF LossInv, IdsSound, Cited, JobTask, TypeOK, RedisTypeOK
  <2>2. /\ \A t \in Task : t # s => (InStream(t)' <=> InStream(t))
        /\ InStream(s)' => InStream(s)
    BY <1>1, <1>3, <2>1 DEF InStream, Undelivered, Without
  <2>3. \A t \in Task : t # s => ~Bears(w, t)'
    <3>1. job'[w] = job[w] \/ pc'[w] \in {"claim", "idle", "loop"}
      BY DEF Acks, Keeps, Drops
    <3> QED BY <1>0, <3>1 DEF Bears, Carries, JobTask
  <2>4. \A t \in Task : t # s => (Owed(t)' <=> Owed(t))
    BY <1>0, <1>1, <1>2, <2>2, <2>3, OwedAfter DEF Bears
  <2>5. CASE fate[w] = "succeeded"
    <3>1. UNCHANGED history
      BY <1>1, <2>5 DEF Acks, Tears, history
    <3>2. s \in done
      BY <1>0, <1>1, <2>5 DEF LossInv, ThreadSound
    <3> QED BY <1>0, <1>1, <2>4, <3>1, <3>2, Classified DEF TypeOK
  <2>6. CASE fate[w] # "succeeded" /\ pc'[w] = "xdel"
    <3>1. UNCHANGED history /\ fate'[w] # "succeeded" /\ job'[w] = job[w]
      BY <1>1, <2>6 DEF Acks, Keeps, Drops, history
    <3>2. Owed(s)'
      BY <1>0, <2>6, <3>1 DEF Owed, Carried, Carries, JobTask
    <3> QED BY <1>0, <1>1, <2>4, <3>1, <3>2, Classified DEF TypeOK
  <2>7. CASE fate[w] # "succeeded" /\ pc'[w] # "xdel" /\ torn' # torn
    <3>1. torn' = torn \cup {s} /\ ~Carries(w)'
      BY <1>0, <2>7 DEF Acks, Tears, Drops, Carries
    <3>2. Owed(s)' => Owed(s)
      BY <1>0, <1>1, <1>2, <2>2, <3>1, OwedAfter DEF Bears
    <3> QED BY <1>1, <2>4, <3>1, <3>2, Classified DEF TypeOK
  <2>8. CASE fate[w] # "succeeded" /\ pc'[w] # "xdel" /\ torn' = torn
    <3>1. s \in torn \/ UNCHANGED pel
      BY <1>0, <2>8 DEF Acks, Tears
    <3>2. ~Carries(w)'
      BY <1>0, <2>8 DEF Acks, Drops, Carries
    <3>3. Owed(s)' => Owed(s)
      BY <1>1, <1>2, <2>2, <3>2, OwedAfter DEF Bears
    <3>4. CASE s \in torn
      <4>1. torn' = torn \cup {s}
        BY <2>8, <3>4
      <4> QED BY <1>1, <2>4, <3>3, <4>1, Classified DEF TypeOK
    <3>5. CASE UNCHANGED pel
      <4>1. \A t \in Task : Owed(t)' <=> Owed(t)
        BY <1>1, <3>2, <3>5, Unmoved DEF Bears
      <4> QED BY <1>1, <2>8, <4>1, UnmovedAdvance
    <3> QED BY <3>1, <3>4, <3>5
  <2> QED BY <2>5, <2>6, <2>7, <2>8
<1>4. CASE UNCHANGED <<pel, torn>> /\ Drops(w)
  <2>1. ~Carries(w)'
    BY <1>4 DEF Drops, Carries
  <2> QED BY <1>1, <1>4, <2>1, Unmoved, UnmovedAdvance DEF Bears
<1> QED BY <1>3, <1>4 DEF Acks

LEMMA DelsAdvances ==
    ASSUME TypeOK, LossInv, KnownInv, NEW w \in Worker, Others(w), Dels(w)
    PROVE  Advance
<1>0. PICK s \in Task : s = JobTask(w)
  BY JobTaskType DEF TypeOK
<1>1. /\ s \in Task /\ pc[w] = "xdel"
      /\ UNCHANGED <<delivered, pel, delayed, done, buried>>
  BY JobTaskType DEF Dels, TypeOK
<1>2. Undelivered' = Undelivered
  <2>1. job[w].id <= delivered /\ job[w].id \in Nat /\ delivered \in Nat
    BY EntryFields DEF LossInv, IdsSound, TypeOK, RedisTypeOK, ThreadTypeOK
  <2>2. stream' = stream \/ stream' = Without(stream, job[w].id)
    BY DEF Dels, Erase
  <2> QED BY <1>1, <2>1, <2>2 DEF Undelivered, Without
<1>3. \A t \in Task : (InStream(t)' <=> InStream(t)) /\ (InDelayed(t)' <=> InDelayed(t))
  BY <1>1, <1>2 DEF InStream, InDelayed
<1>4. CASE UNCHANGED torn /\ pc'[w] = NextPlace[fate[w]] /\ Keeps(w)
  <2>1. Carries(w)' <=> Carries(w)
    BY <1>1, <1>4 DEF Keeps, NextPlace, Carries, TypeOK, ThreadTypeOK, Fate
  <2>2. \A t \in Task : Bears(w, t)' <=> Bears(w, t)
    BY <1>4, <2>1 DEF Bears, JobTask, Keeps
  <2>3. \A t \in Task : Owed(t)' <=> Owed(t)
    BY <1>3, <2>2, OwedAfter
  <2> QED BY <1>1, <1>4, <2>3, UnmovedAdvance
<1>5. CASE Drops(w) /\ Tears(w, fate[w] # "succeeded")
  <2>1. ~Carries(w)'
    BY <1>5 DEF Drops, Carries
  <2>2. \A t \in Task : t # s => (Owed(t)' <=> Owed(t))
    BY <1>0, <1>3, <2>1, OwedAfter DEF Bears
  <2>3. CASE fate[w] = "succeeded"
    <3>1. ~Carries(w) /\ torn' = torn
      BY <1>1, <1>5, <2>3 DEF Carries, Tears
    <3>2. \A t \in Task : Owed(t)' <=> Owed(t)
      BY <1>3, <2>1, <3>1, OwedAfter DEF Bears
    <3> QED BY <1>1, <3>1, <3>2, UnmovedAdvance
  <2>4. CASE fate[w] # "succeeded"
    <3>1. Owed(s) /\ Safe(s) /\ torn' = torn \cup {s}
      BY <1>0, <1>1, <1>5, <2>4 DEF Carries, Tears, Owed, Carried, Safe
    <3> QED BY <1>0, <1>1, <2>2, <3>1, Classified DEF TypeOK
  <2> QED BY <1>0, <2>3, <2>4
<1> QED BY <1>4, <1>5 DEF Dels

LEMMA PushesAdvances ==
    ASSUME TypeOK, LossInv, KnownInv, NEW w \in Worker, Others(w), Pushes(w)
    PROVE  Advance
<1>0. PICK s \in Task : s = JobTask(w)
  BY JobTaskType DEF TypeOK
<1>1. /\ s \in Task /\ Owed(s) /\ Safe(s) /\ fate[w] # "succeeded" /\ Bears(w, s)
      /\ UNCHANGED <<stream, delivered, pel, delayed, done>>
  BY <1>0, JobTaskType
  DEF Pushes, TypeOK, LossInv, ThreadSound, Carries, Owed, Carried, Safe, Bears
<1>2. ~Carries(w)'
  BY DEF Pushes, Drops, Carries
<1>3. \A t \in Task : (InStream(t)' <=> InStream(t)) /\ (InDelayed(t)' <=> InDelayed(t))
  BY <1>1 DEF InStream, InDelayed, Undelivered
<1>4. \A t \in Task : t # s => (Owed(t)' <=> Owed(t))
  BY <1>0, <1>2, <1>3, OwedAfter DEF Bears
<1>5. \/ buried' = buried \cup {s} /\ UNCHANGED torn
      \/ UNCHANGED buried /\ torn' = torn \cup {s}
  BY <1>0, <1>1 DEF Pushes, Tears
<1> QED BY <1>0, <1>1, <1>4, <1>5, Classified DEF TypeOK

LEMMA StepAdvances ==
    ASSUME TypeOK, LossInv, KnownInv, NEW w \in Worker, Others(w), Step(w)
    PROVE  Advance
BY IdleAdvances, TakesAdvances, AddsAdvances, ReturnAdvances, ReadsAdvances,
   HandlesAdvances, AcksAdvances, DelsAdvances, PushesAdvances DEF Step

\* Threads go on working on known tasks only.
LEMMA WorkKept ==
    ASSUME TypeOK, KnownInv, NEW w \in Worker, Others(w), UNCHANGED caller,
           \A t \in Task : Safe(t)' <=> Safe(t),
           due' \subseteq delayed',
           pc'[w] \in {"mark", "run", "xack"} => Safe(job'[w].env.task) /\ job'[w] \in Entry,
           \A m \in todo'[w] : m \in Entry /\ Safe(m.env.task)
    PROVE  KnownInv'
<1>1. \A t \in Task : caller'[t] = "new" => ~Safe(t)'
  BY DEF KnownInv
<1>2. ASSUME NEW v \in Worker
      PROVE  /\ pc'[v] \in {"mark", "run", "xack"} => Safe(JobTask(v))'
             /\ \A m \in todo'[v] : Safe(m.env.task)'
  <2>1. CASE v = w
    <3>1. ASSUME pc'[w] \in {"mark", "run", "xack"} PROVE Safe(JobTask(w))'
      <4>1. PICK t \in Task : t = job'[w].env.task
        BY <3>1, EntryFields
      <4> QED BY <3>1, <4>1 DEF JobTask
    <3>2. ASSUME NEW m \in todo'[w] PROVE Safe(m.env.task)'
      BY <3>2, EntryFields
    <3> QED BY <2>1, <3>1, <3>2
  <2>2. CASE v # w
    <3>1. pc'[v] = pc[v] /\ job'[v] = job[v] /\ todo'[v] = todo[v]
      BY <2>2 DEF Others
    <3>2. JobTask(v) \in Task /\ todo[v] \subseteq Entry
      BY JobTaskType DEF TypeOK, ThreadTypeOK
    <3>3. ASSUME pc[v] \in {"mark", "run", "xack"} PROVE Safe(JobTask(v))'
      <4>1. PICK t \in Task : t = JobTask(v) /\ Safe(t)
        BY <3>2, <3>3 DEF KnownInv
      <4> QED BY <3>1, <4>1 DEF JobTask
    <3>4. ASSUME NEW m \in todo[v] PROVE Safe(m.env.task)'
      BY <3>2, <3>4, EntryFields DEF KnownInv
    <3> QED BY <3>1, <3>3, <3>4
  <2> QED BY <2>1, <2>2
<1> QED BY <1>1, <1>2 DEF KnownInv

LEMMA StepKnown ==
    ASSUME TypeOK, TypeOK', LossInv, KnownInv, NEW w \in Worker, Others(w), UNCHANGED caller,
           Step(w)
    PROVE  KnownInv'
<1>1. \A t \in Task : Safe(t)' <=> Safe(t)
  BY StepAdvances, AdvanceKnows DEF TypeOK
<1>2. due' \subseteq delayed'
  BY DEF KnownInv, Step, Passes, Scans, Takes, Adds, GivesBack, Reads, Handles, Acks, Dels,
     Retries, Pushes, Trims, Records, Reclaims, Claims, ZRem, ZAdd, redis
<1>3. ASSUME pc'[w] \in {"mark", "run", "xack"}
      PROVE  Safe(job'[w].env.task) /\ job'[w] \in Entry
  <2>1. job'[w] \in Entry
    BY DEF TypeOK, ThreadTypeOK
  <2>2. Passes(w) \/ Reads(w) \/ Handles(w) \/ Claims(w)
    BY <1>3 DEF Step, Scans, Takes, Adds, GivesBack, Acks, Dels, Retries, Pushes, Trims,
       Records, Reclaims, Drops, NextPlace, TypeOK, ThreadTypeOK, Fate
  <2>3. CASE Passes(w)
    BY <1>3, <2>1, <2>3 DEF Passes, Keeps, KnownInv, JobTask
  <2>4. CASE Reads(w)
    <3>1. PICK m \in Undelivered : job'[w] = m
      BY <1>3, <2>4 DEF Reads
    <3> QED BY <2>1, <3>1 DEF Safe, Owed, InStream
  <2>5. CASE Handles(w)
    <3>1. job'[w].env.task = JobTask(w) /\ Safe(JobTask(w))
      BY <2>5 DEF Handles, Attempted, JobTask, KnownInv
    <3> QED BY <2>1, <3>1
  <2>6. CASE Claims(w)
    <3>1. PICK m \in todo[w] : job'[w].env.task = m.env.task
      BY <2>6 DEF Claims, Attempted
    <3> QED BY <2>1, <3>1 DEF KnownInv
  <2> QED BY <2>2, <2>3, <2>4, <2>5, <2>6
<1>4. ASSUME NEW m \in todo'[w] PROVE m \in Entry /\ Safe(m.env.task)
  <2>1. m \in Entry
    BY DEF TypeOK, ThreadTypeOK
  <2>2. m \in todo[w] \/ m.env \in due \/ m \in stale
    BY DEF Step, Passes, Scans, Takes, Adds, GivesBack, Reads, Handles, Acks, Dels, Retries,
       Pushes, Trims, Records, Reclaims, Claims, Keeps, Drops, Without
  <2>3. CASE m \in todo[w]
    BY <2>1, <2>3 DEF KnownInv
  <2>4. CASE m.env \in due
    BY <2>1, <2>4 DEF KnownInv, Safe, Owed, InDelayed
  <2>5. CASE m \in stale
    BY <2>1, <2>5 DEF LossInv, IdsSound, Safe, Owed, InStream
  <2> QED BY <2>2, <2>3, <2>4, <2>5
<1> QED BY <1>1, <1>2, <1>3, <1>4, WorkKept

\* A submission is that of the abstract queue, or without effect.
LEMMA EnqueueAdvances ==
    ASSUME TypeOK, TypeOK', LossInv, KnownInv, NEW t \in Task, Enqueue(t) \/ RecordQueued(t)
    PROVE  /\ Advance \/ Delivery!Submit(t)
           /\ \A s \in Task : Safe(s) => Safe(s)'
           /\ \A s \in Task : Safe(s)' => Safe(s) \/ s = t
<1>1. UNCHANGED <<delivered, pel, threads, history>>
  BY DEF Enqueue, RecordQueued
<1>2. \A s \in Task : Carried(s)' <=> Carried(s)
  BY <1>1 DEF Carried, Carries, JobTask, threads
<1>3. CASE UNCHANGED <<stream, delayed>>
  <2>1. \A s \in Task : Owed(s)' <=> Owed(s)
    BY <1>1, <1>2, <1>3 DEF Owed, InStream, InDelayed, Undelivered
  <2> QED BY <1>1, <2>1 DEF Advance, Own, Safe, history
<1>4. CASE ~UNCHANGED <<stream, delayed>>
  <2>1. PICK r \in Reply, delay \in Delays : Enqueue(t)!2!(r, delay)
    BY <1>4 DEF Enqueue, RecordQueued
  <2>2. \/ XAdd(NewEnvelope(t)) /\ UNCHANGED delayed
        \/ ZAdd(NewEnvelope(t)) /\ UNCHANGED stream
    BY <1>4, <2>1
  <2>3. \A s \in Task : Owed(s)' <=> Owed(s) \/ s = t
    <3>1. CASE XAdd(NewEnvelope(t)) /\ UNCHANGED delayed
      <4>1. PICK env : env = NewEnvelope(t)
        OBVIOUS
      <4>2. XAdd(env) /\ env.task = t
        BY <3>1, <4>1 DEF NewEnvelope
      <4>3. \A s \in Task : InStream(s)' <=> InStream(s) \/ s = t
        BY <1>1, <4>2, AddedEntry DEF LossInv
      <4> QED BY <1>2, <3>1, <4>3 DEF Owed, InDelayed
    <3>2. CASE ZAdd(NewEnvelope(t)) /\ UNCHANGED stream
      <4>1. PICK env : env = NewEnvelope(t)
        OBVIOUS
      <4>2. delayed' = delayed \cup {env} /\ env.task = t
        BY <3>2, <4>1 DEF ZAdd, NewEnvelope
      <4>3. \A s \in Task : InDelayed(s)' <=> InDelayed(s) \/ s = t
        BY <4>2 DEF InDelayed
      <4>4. \A s \in Task : InStream(s)' <=> InStream(s)
        BY <1>1, <3>2 DEF InStream, Undelivered
      <4> QED BY <1>2, <4>3, <4>4 DEF Owed
    <3> QED BY <2>2, <3>1, <3>2
  <2>4. ~Safe(t)
    BY <1>4 DEF Enqueue, RecordQueued, KnownInv
  <2>5. Delivery!Submit(t)
    <3>1. t \notin Delivery!Known
      BY <2>4, KnownIsSafe DEF TypeOK
    <3> QED BY <1>1, <2>3, <3>1 DEF Delivery!Submit, history
  <2> QED BY <1>1, <2>3, <2>5 DEF Safe, history
<1> QED BY <1>3, <1>4

LEMMA EnqueueKnown ==
    ASSUME TypeOK, TypeOK', LossInv, KnownInv, NEW t \in Task, Enqueue(t) \/ RecordQueued(t)
    PROVE  KnownInv'
<1>1. /\ \A s \in Task : Safe(s) => Safe(s)'
      /\ \A s \in Task : Safe(s)' => Safe(s) \/ s = t
  BY EnqueueAdvances
<1>2. due' \subseteq delayed' /\ UNCHANGED threads
  BY DEF KnownInv, Enqueue, RecordQueued, ZAdd
<1>3. \A s \in Task : caller'[s] = "new" => caller[s] = "new" /\ s # t
  BY DEF Enqueue, RecordQueued, TypeOK, Caller
<1>4. \A s \in Task : caller'[s] = "new" => ~Safe(s)'
  BY <1>1, <1>3 DEF KnownInv
<1>5. ASSUME NEW w \in Worker
      PROVE  /\ pc'[w] \in {"mark", "run", "xack"} => Safe(JobTask(w))'
             /\ \A m \in todo'[w] : Safe(m.env.task)'
  <2>1. PICK s \in Task : s = JobTask(w)
    BY JobTaskType DEF TypeOK
  <2>2. pc[w] \in {"mark", "run", "xack"} => Safe(s)'
    BY <1>1, <2>1 DEF KnownInv
  <2>3. \A m \in todo[w] : Safe(m.env.task)'
    BY <1>1, EntryFields DEF KnownInv, TypeOK, ThreadTypeOK
  <2>4. pc' = pc /\ job'[w].env.task = s /\ todo' = todo
    BY <1>2, <2>1 DEF threads, JobTask
  <2> QED BY <2>2, <2>3, <2>4 DEF JobTask
<1> QED BY <1>2, <1>4, <1>5 DEF KnownInv

\* The environment: time and stop change no place, a crash tears what was carried.
LEMMA EnvironmentAdvances ==
    ASSUME TypeOK, TypeOK', LossInv, KnownInv,
           \/ \E e \in delayed : ComeDue(e)
           \/ \E m \in pel : BecomeStale(m)
           \/ \E p \in Process : Crash(p) \/ Stop(p)
           \/ \E w \in Worker : HandlerExits(w)
    PROVE  Advance /\ KnownInv'
<1>1. CASE \/ \E e \in delayed : ComeDue(e)
           \/ \E m \in pel : BecomeStale(m)
           \/ \E p \in Process : Stop(p)
  <2>1. /\ UNCHANGED <<stream, delivered, delayed, pel, caller, threads, history>>
        /\ due' \subseteq delayed
    BY <1>1 DEF ComeDue, BecomeStale, Stop, redis, KnownInv
  <2>2. \A t \in Task : Owed(t)' <=> Owed(t)
    BY <2>1 DEF Owed, InStream, InDelayed, Undelivered, Carried, Carries, JobTask, threads
  <2>3. Advance
    BY <2>1, <2>2, UnmovedAdvance DEF history
  <2>4. \A t \in Task : Safe(t)' <=> Safe(t)
    BY <2>3, AdvanceKnows DEF TypeOK
  <2>5. ASSUME NEW w \in Worker
        PROVE  /\ pc'[w] \in {"mark", "run", "xack"} => Safe(JobTask(w))'
               /\ \A m \in todo'[w] : Safe(m.env.task)'
    <3>1. PICK s \in Task : s = JobTask(w)
      BY JobTaskType DEF TypeOK
    <3>2. pc[w] \in {"mark", "run", "xack"} => Safe(s)'
      BY <2>4, <3>1 DEF KnownInv
    <3>3. \A m \in todo[w] : Safe(m.env.task)'
      BY <2>4, EntryFields DEF KnownInv, TypeOK, ThreadTypeOK
    <3>4. pc' = pc /\ job'[w].env.task = s /\ todo' = todo
      BY <2>1, <3>1 DEF threads, JobTask
    <3> QED BY <3>2, <3>3, <3>4 DEF JobTask
  <2> QED BY <2>1, <2>3, <2>4, <2>5 DEF KnownInv
<1>2. ASSUME NEW p \in Process, Crash(p) PROVE Advance /\ KnownInv'
  <2>1. UNCHANGED <<stream, delivered, delayed, due, pel, caller, done, buried>>
    BY <1>2 DEF Crash, redis
  <2>2. /\ \A v \in Worker : Host(v) = p => ~Carries(v)' /\ todo'[v] = {}
                                           /\ pc'[v] \in {"halted", "loop"}
        /\ \A v \in Worker : Host(v) # p =>
             pc'[v] = pc[v] /\ job'[v] = job[v] /\ fate'[v] = fate[v] /\ todo'[v] = todo[v]
    BY <1>2 DEF Crash, Carries
  <2> DEFINE S == {JobTask(v) : v \in {u \in Worker : Host(u) = p /\ Carries(u)}}
  <2>3. S \in SUBSET Task /\ \A t \in S : Owed(t)
    BY JobTaskType DEF TypeOK, Owed, Carried
  <2>4. torn' = torn \cup S
    BY <1>2 DEF Crash
  <2>5. PICK T \in SUBSET Task : T = S
    BY <2>3
  <2>6. \A t \in Task : /\ InStream(t)' <=> InStream(t)
                        /\ InDelayed(t)' <=> InDelayed(t)
    BY <2>1 DEF InStream, InDelayed, Undelivered
  <2>7. \A t \in Task : Carried(t)' => Carried(t)
    BY <2>2 DEF Carried, Carries, JobTask
  <2>8. \A t \in Task \ S : Carried(t) => Carried(t)'
    <3> SUFFICES ASSUME NEW t \in Task \ S, NEW v \in Worker, Carries(v), JobTask(v) = t
                 PROVE  Carried(t)'
      BY DEF Carried
    <3>1. Host(v) # p
      OBVIOUS
    <3>2. pc'[v] = pc[v] /\ job'[v] = job[v] /\ fate'[v] = fate[v]
      BY <2>2, <3>1
    <3> QED BY <3>2 DEF Carried, Carries, JobTask
  <2>9. \E gone \in SUBSET T : Own' = Own \ gone
    <3> DEFINE gone == {t \in T : ~Owed(t)'}
    <3>1. \A t \in Task : Owed(t)' <=> Owed(t) /\ t \notin gone
      BY <2>3, <2>5, <2>6, <2>7, <2>8 DEF Owed
    <3> HIDE DEF gone
    <3>2. Own' = Own \ gone
      BY <3>1 DEF Own
    <3>3. gone \in SUBSET T
      BY DEF gone
    <3> QED BY <3>2, <3>3
  <2>10. Delivery!Tear(T)
    <3>1. T \subseteq Delivery!Known
      BY <2>3, <2>5, KnownIsSafe DEF TypeOK, Safe
    <3> QED BY <2>1, <2>4, <2>5, <2>9, <3>1 DEF Delivery!Tear, Own
  <2>11. Advance
    BY <2>10 DEF Advance
  <2>12. \A t \in Task : Safe(t)' <=> Safe(t)
    BY <2>11, AdvanceKnows DEF TypeOK
  <2>13. ASSUME NEW w \in Worker
         PROVE  /\ pc'[w] \in {"mark", "run", "xack"} => Safe(JobTask(w))'
                /\ \A m \in todo'[w] : Safe(m.env.task)'
    <3>1. CASE Host(w) = p
      BY <2>2, <3>1
    <3>2. CASE Host(w) # p
      <4>1. PICK s \in Task : s = JobTask(w)
        BY JobTaskType DEF TypeOK
      <4>2. pc[w] \in {"mark", "run", "xack"} => Safe(s)'
        BY <2>12, <4>1 DEF KnownInv
      <4>3. \A m \in todo[w] : Safe(m.env.task)'
        BY <2>12, EntryFields DEF KnownInv, TypeOK, ThreadTypeOK
      <4>4. pc'[w] = pc[w] /\ job'[w].env.task = s /\ todo'[w] = todo[w]
        BY <2>2, <3>2, <4>1 DEF JobTask
      <4> QED BY <4>2, <4>3, <4>4 DEF JobTask
    <3> QED BY <3>1, <3>2
  <2> QED BY <2>1, <2>11, <2>12, <2>13 DEF KnownInv
<1>3. ASSUME NEW w \in Worker, HandlerExits(w) PROVE Advance /\ KnownInv'
  <2>0. ThreadTypeOK
    BY DEF TypeOK
  <2>1. /\ Others(w) /\ pc[w] = "run" /\ pc'[w] = "halted" /\ todo'[w] = {}
        /\ UNCHANGED <<stream, delivered, pel, delayed, due, caller, done, buried, torn>>
    BY <1>3, <2>0, ExitsAlone
  <2>2. \A t \in Task : Bears(w, t)' <=> Bears(w, t)
    BY <2>1 DEF Bears, Carries
  <2>3. Advance
    BY <2>1, <2>2, Unmoved, UnmovedAdvance
  <2>4. \A t \in Task : Safe(t)' <=> Safe(t)
    BY <2>3, AdvanceKnows DEF TypeOK
  <2>5. due' \subseteq delayed'
    BY <2>1 DEF KnownInv
  <2> QED BY <2>1, <2>3, <2>4, <2>5, WorkKept
<1> QED BY <1>1, <1>2, <1>3

LEMMA KnownInit == Init => KnownInv /\ Delivery!Init
<1> SUFFICES ASSUME Init PROVE KnownInv /\ Delivery!Init
  OBVIOUS
<1>1. \A t \in Task : ~Owed(t)
  BY DEF Init, Owed, InStream, InDelayed, Carried, Carries, Undelivered
<1>2. KnownInv
  BY <1>1 DEF Init, KnownInv, Safe
<1> QED BY <1>1, <1>2 DEF Init, Delivery!Init

LEMMA KnownNext ==
    ASSUME TypeOK, TypeOK', LossInv, KnownInv, [Next]_vars
    PROVE  KnownInv' /\ [Delivery!Next]_(Delivery!vars)
<1>1. CASE UNCHANGED vars
  <2>1. UNCHANGED <<redis, threads, caller, history>>
    BY <1>1 DEF vars
  <2>2. UNCHANGED <<stream, delivered, pel, delayed, due, pc, job, fate, todo, caller, history>>
    BY <2>1 DEF redis, threads
  <2>3. KnownInv'
    BY <2>2 DEF KnownInv, Safe, Owed, InStream, InDelayed, Carried, Carries, JobTask,
       Undelivered, history
  <2>4. \A t \in Task : Owed(t)' <=> Owed(t)
    BY <2>2 DEF Owed, InStream, InDelayed, Carried, Carries, JobTask, Undelivered
  <2> QED BY <2>2, <2>3, <2>4, UnmovedAdvance, AdvanceSimulates DEF history
<1>2. ASSUME NEW t \in Task, Enqueue(t) \/ RecordQueued(t)
      PROVE  KnownInv' /\ [Delivery!Next]_(Delivery!vars)
  <2>1. CASE Advance
    BY <1>2, <2>1, EnqueueKnown, AdvanceSimulates
  <2>2. CASE Delivery!Submit(t)
    BY <1>2, <2>2, EnqueueKnown DEF Delivery!Next
  <2> QED BY <1>2, <2>1, <2>2, EnqueueAdvances
<1>3. ASSUME NEW w \in Worker, Reserve(w) \/ Handle(w) \/ Settle(w) \/ MaybeReclaim(w)
      PROVE  KnownInv' /\ [Delivery!Next]_(Delivery!vars)
  <2>1. Step(w) /\ Others(w) /\ UNCHANGED caller
    BY <1>3, ThreadSteps
  <2> QED BY <2>1, StepAdvances, StepKnown, AdvanceSimulates
<1>4. CASE \/ \E e \in delayed : ComeDue(e)
           \/ \E m \in pel : BecomeStale(m)
           \/ \E p \in Process : Crash(p) \/ Stop(p)
           \/ \E w \in Worker : HandlerExits(w)
  BY <1>4, EnvironmentAdvances, AdvanceSimulates
<1> QED BY <1>1, <1>2, <1>3, <1>4 DEF Next

LEMMA KnownAlways == Spec => []KnownInv
<1>1. TypeOK /\ TypeOK' /\ LossInv /\ KnownInv /\ [Next]_vars => KnownInv'
  BY KnownNext
<1> QED BY <1>1, KnownInit, LossAlways, PTL DEF Spec

\* The Redis queue and its workers implement TaskDelivery: a submitted task leaves the
\* queue only when its handler returned, when it is dead-lettered, or by a fault that hit
\* a copy on its way; nothing succeeds or is buried that was not submitted.
THEOREM KeepsItsPromise == Spec => DeliveryPromise
<1>1. TypeOK /\ TypeOK' /\ LossInv /\ KnownInv /\ [Next]_vars
        => [Delivery!Next]_(Delivery!vars)
  BY KnownNext
<1>2. Init => Delivery!Init
  BY KnownInit
<1> QED BY <1>1, <1>2, KnownAlways, LossAlways, PTL DEF Spec, DeliveryPromise, Delivery!Spec

-----------------------------------------------------------------------------
(* The retry budget.  reclaim_stale adds an attempt without looking at the budget, so   *)
(* what it may take must have been exempted by a fault before: a pending entry is       *)
(* either tended by the thread that read it or has a fault to its credit.               *)

Faults == crashes + errors + slow + exits
Within(e) == e.attempts <= Budget[e.task] + Faults
Slack(e)  == e.attempts < Budget[e.task] + Faults

Tends(w, m) == pc[w] \in {"mark", "run", "xack"} /\ job[w].id = m.id

PlacesWithin ==
    /\ \A m \in stream \cup pel : Within(m.env)
    /\ \A e \in delayed : Within(e)
ThreadsWithin ==
    \A w \in Worker : Within(job[w].env) /\ \A m \in todo[w] : Within(m.env)
\* Outside the promotion a thread's list holds entries it reclaimed.
ReclaimedHaveSlack ==
    \A w \in Worker : pc[w] \notin {"promote", "readd", "giveback"}
                        => \A m \in todo[w] : Slack(m.env)
PendingHaveSlack ==
    /\ \A m \in pel : Slack(m.env) \/ \E w \in Worker : Tends(w, m)
    /\ \A m \in stale : Slack(m.env)

BudgetInv ==
    due \subseteq delayed
    /\ PlacesWithin /\ ThreadsWithin /\ ReclaimedHaveSlack /\ PendingHaveSlack

LEMMA BudgetType == \A e \in Envelope : e.attempts \in Nat /\ Budget[e.task] \in Nat
BY QueueAssumption DEF Envelope

LEMMA FaultsType == ASSUME TypeOK PROVE Faults \in Nat
BY DEF TypeOK, HistoryTypeOK, Faults

LEMMA SumType == \A i, j, k, l \in Nat : i + j + k + l \in Nat
OBVIOUS

LEMMA SumGrows ==
    \A i, j, k, l \in Nat : /\ (i + 1) + j + k + l = i + j + k + l + 1
                            /\ i + (j + 1) + k + l = i + j + k + l + 1
                            /\ i + j + (k + 1) + l = i + j + k + l + 1
OBVIOUS

LEMMA FaultsTypeNext == ASSUME TypeOK' PROVE Faults' \in Nat
<1>1. PICK i, j, k, l \in Nat : i = crashes' /\ j = errors' /\ k = slow' /\ l = exits'
  BY DEF TypeOK, HistoryTypeOK
<1>2. Faults' = i + j + k + l
  BY <1>1 DEF Faults
<1> QED BY <1>2, SumType

LEMMA FaultsCounted ==
    ASSUME TypeOK, UNCHANGED <<crashes, slow, exits>>, Fault(0) \/ Fault(1)
    PROVE  Faults <= Faults' /\ (Fault(1) => Faults # Faults')
<1>1. Fault(0) => Faults' = Faults
  BY DEF TypeOK, HistoryTypeOK, Faults, Fault
<1>2. Fault(1) => Faults' = Faults + 1
  BY SumGrows DEF TypeOK, HistoryTypeOK, Faults, Fault
<1>3. Faults \in Nat
  BY FaultsType
<1> QED BY <1>1, <1>2, <1>3

\* What is within the budget stays so, and any further fault gives it slack.
LEMMA FaultsExcuse ==
    ASSUME TypeOK, Faults' \in Nat, Faults <= Faults', NEW e \in Envelope
    PROVE  /\ Within(e) => Within(e)'
           /\ Slack(e) => Slack(e)' /\ Within(e)
           /\ Within(e) /\ Faults # Faults' => Slack(e)'
<1>1. PICK f, g \in Nat : f = Faults /\ g = Faults'
  BY FaultsType
<1>2. Within(e) <=> e.attempts <= Budget[e.task] + f
  BY <1>1 DEF Within
<1>3. Slack(e) <=> e.attempts < Budget[e.task] + f
  BY <1>1 DEF Slack
<1>4. Within(e)' <=> e.attempts <= Budget[e.task] + g
  BY <1>1 DEF Within
<1>5. Slack(e)' <=> e.attempts < Budget[e.task] + g
  BY <1>1 DEF Slack
<1> QED BY <1>1, <1>2, <1>3, <1>4, <1>5, BudgetType

LEMMA FreshWithin ==
    ASSUME TypeOK, NEW t \in Task PROVE NewEnvelope(t) \in Envelope /\ Within(NewEnvelope(t))
BY NewEnvelopeType, FaultsType, BudgetType DEF NewEnvelope, Within

LEMMA NoJobWithin == ASSUME TypeOK PROVE NoJob.env \in Envelope /\ Within(NoJob.env)
BY FreshWithin, QueueAssumption DEF NoJob, SomeTask

LEMMA AttemptedWithin ==
    ASSUME TypeOK, NEW e \in Envelope, NEW x \in Error, Slack(e) \/ MayRetry(e)
    PROVE  Attempted(e, x) \in Envelope /\ Within(Attempted(e, x))
<1>1. e.attempts < Budget[e.task] + Faults
  BY FaultsType, BudgetType DEF Slack, MayRetry
<1> QED BY <1>1, AttemptedType, FaultsType, BudgetType DEF Attempted, Within

\* The bounded envelopes a step of w may put at a thread or a place.
LEMMA BudgetKept ==
    ASSUME TypeOK, TypeOK', BudgetInv, Faults <= Faults', NEW w \in Worker, Others(w),
           due' \subseteq delayed',
           \A m \in (stream \cup pel)' : m \in stream \cup pel \/ Within(m.env),
           \A e \in delayed' : e \in delayed \/ Within(e),
           Within(job'[w].env), \A m \in todo'[w] : Within(m.env),
           pc'[w] \notin {"promote", "readd", "giveback"}
              => \A m \in todo'[w] : Slack(m.env),
           \A m \in pel' : \/ m \in pel /\ Slack(m.env)
                           \/ Within(m.env) /\ Faults # Faults'
                           \/ m \in pel /\ \E v \in Worker \ {w} : Tends(v, m)
                           \/ Tends(w, m)',
           stale' \subseteq stale
    PROVE  BudgetInv'
<1>1. Faults' \in Nat
  BY FaultsType, FaultsTypeNext
<1>2. /\ \A m \in (stream \cup pel)' : m.env \in Envelope
      /\ \A e \in delayed' : e \in Envelope
      /\ \A v \in Worker : job'[v].env \in Envelope /\ \A m \in todo'[v] : m.env \in Envelope
  BY EntryFields DEF TypeOK, RedisTypeOK, ThreadTypeOK
<1>3. PlacesWithin'
  BY <1>1, <1>2, FaultsExcuse DEF BudgetInv, PlacesWithin
<1>4. ThreadsWithin'
  <2> SUFFICES ASSUME NEW v \in Worker
               PROVE  Within(job[v].env)' /\ \A m \in todo'[v] : Within(m.env)'
    BY DEF ThreadsWithin
  <2>1. Within(job'[v].env) /\ \A m \in todo'[v] : Within(m.env)
    BY DEF Others, BudgetInv, ThreadsWithin
  <2>2. PICK e \in Envelope : e = job'[v].env
    BY <1>2
  <2>3. Within(e)'
    BY <1>1, <2>1, <2>2, FaultsExcuse
  <2> QED BY <1>1, <1>2, <2>1, <2>2, <2>3, FaultsExcuse DEF Within
<1>5. ReclaimedHaveSlack'
  <2> SUFFICES ASSUME NEW v \in Worker, pc'[v] \notin {"promote", "readd", "giveback"},
                      NEW m \in todo'[v]
               PROVE  Slack(m.env)'
    BY DEF ReclaimedHaveSlack
  <2>1. Slack(m.env)
    BY DEF Others, BudgetInv, ReclaimedHaveSlack
  <2> QED BY <1>1, <1>2, <2>1, FaultsExcuse
<1>6. PendingHaveSlack'
  <2>1. ASSUME NEW m \in pel' PROVE Slack(m.env)' \/ \E v \in Worker : Tends(v, m)'
    <3>1. CASE Slack(m.env) \/ (Within(m.env) /\ Faults # Faults')
      BY <1>1, <1>2, <2>1, <3>1, FaultsExcuse
    <3>2. ASSUME NEW v \in Worker \ {w}, Tends(v, m) PROVE Tends(v, m)'
      BY <3>2 DEF Others, Tends
    <3> QED BY <2>1, <3>1, <3>2
  <2>2. ASSUME NEW m \in stale' PROVE Slack(m.env)'
    <3>1. Slack(m.env) /\ m.env \in Envelope
      BY <2>2, EntryFields DEF BudgetInv, PendingHaveSlack, TypeOK, RedisTypeOK
    <3> QED BY <1>1, <3>1, FaultsExcuse
  <2> QED BY <2>1, <2>2 DEF PendingHaveSlack
<1> QED BY <1>3, <1>4, <1>5, <1>6 DEF BudgetInv

LEMMA StepBudget ==
    ASSUME TypeOK, TypeOK', LossInv, BudgetInv, NEW w \in Worker, Others(w),
           UNCHANGED <<crashes, slow, exits>>, Step(w)
    PROVE  BudgetInv'
<1>1. Fault(0) \/ Fault(1)
  BY DEF Step, Passes, Scans, Takes, Adds, GivesBack, Reads, Handles, Acks, Dels, Retries,
     Pushes, Trims, Records, Reclaims, Claims
<1>2. Faults <= Faults' /\ (Fault(1) => Faults # Faults')
  BY <1>1, FaultsCounted
<1>3. due' \subseteq delayed'
  BY DEF BudgetInv, Step, Passes, Scans, Takes, Adds, GivesBack, Reads, Handles, Acks, Dels,
     Retries, Pushes, Trims, Records, Reclaims, Claims, ZRem, ZAdd, redis
<1>4. Within(job[w].env) /\ \A m \in todo[w] : Within(m.env)
  BY DEF BudgetInv, ThreadsWithin
<1>5. \A m \in (stream \cup pel)' : m \in stream \cup pel \/ m.env = job[w].env
  BY DEF Step, Passes, Scans, Takes, Adds, GivesBack, Reads, Handles, Acks, Dels,
     Retries, Pushes, Trims, Records, Reclaims, Claims, XAdd, Erase, Without, redis, Undelivered
<1>6. \A e \in delayed' : e \in delayed \/ e = job[w].env
  BY DEF Step, Passes, Scans, Takes, Adds, GivesBack, Reads, Handles, Acks, Dels,
     Retries, Pushes, Trims, Records, Reclaims, Claims, ZRem, ZAdd, redis
<1>7. Within(job'[w].env)
  <2>1. \/ job'[w] = job[w] \/ job'[w] = NoJob
        \/ job'[w] \in todo[w] \cup stream
        \/ MayRetry(job[w].env) /\ job'[w].env = Attempted(job[w].env, "handler")
        \/ pc[w] = "claim" /\ \E m \in todo[w] : job'[w].env = Attempted(m.env, "reclaimed")
    <3>1. CASE Handles(w)
      BY <3>1 DEF Handles
    <3>2. CASE Claims(w)
      BY <3>2 DEF Claims
    <3>3. CASE Reads(w)
      BY <3>3 DEF Reads, Undelivered
    <3> QED
      BY <3>1, <3>2, <3>3 DEF Step, Passes, Scans, Takes, Adds, GivesBack, Acks, Dels, Retries,
         Pushes, Trims, Records, Reclaims, Keeps, Drops
  <2>2. CASE job'[w] = job[w] \/ job'[w] = NoJob
    BY <1>4, <2>2, NoJobWithin
  <2>3. CASE job'[w] \in todo[w] \cup stream
    BY <1>4, <2>3 DEF BudgetInv, PlacesWithin
  <2>4. CASE MayRetry(job[w].env) /\ job'[w].env = Attempted(job[w].env, "handler")
    BY <2>4, AttemptedWithin, EntryFields DEF TypeOK, ThreadTypeOK, Error
  <2>5. ASSUME pc[w] = "claim", NEW m \in todo[w], job'[w].env = Attempted(m.env, "reclaimed")
        PROVE  Within(job'[w].env)
    <3>1. m.env \in Envelope /\ Slack(m.env)
      BY <2>5, EntryFields DEF TypeOK, ThreadTypeOK, BudgetInv, ReclaimedHaveSlack
    <3> QED BY <2>5, <3>1, AttemptedWithin DEF Error
  <2> QED BY <2>1, <2>2, <2>3, <2>4, <2>5
<1>8. \A m \in todo'[w] : Within(m.env)
  <2>1. \A m \in todo'[w] : m \in todo[w] \/ m.env \in due \/ m \in stale
    BY DEF Step, Passes, Scans, Takes, Adds, GivesBack, Reads, Handles, Acks, Dels, Retries,
       Pushes, Trims, Records, Reclaims, Claims, Keeps, Drops, Without
  <2>2. \A m \in stale : m \in pel
    BY DEF LossInv, IdsSound
  <2> QED BY <1>4, <2>1, <2>2 DEF BudgetInv, PlacesWithin
<1>9. ASSUME pc'[w] \notin {"promote", "readd", "giveback"}, NEW m \in todo'[w]
      PROVE  Slack(m.env)
  <2>1. m \in stale \/ (m \in todo[w] /\ pc[w] \notin {"promote", "readd", "giveback"})
    BY <1>9 DEF Step, Passes, Scans, Takes, Adds, GivesBack, Reads, Handles, Acks, Dels, Retries,
       Pushes, Trims, Records, Reclaims, Claims, Keeps, Drops, Without
  <2> QED BY <2>1 DEF BudgetInv, ReclaimedHaveSlack, PendingHaveSlack
<1>10. ASSUME NEW m \in pel'
       PROVE  \/ m \in pel /\ Slack(m.env)
              \/ Within(m.env) /\ Faults # Faults'
              \/ m \in pel /\ \E v \in Worker \ {w} : Tends(v, m)
              \/ Tends(w, m)'
  <2>1. m \in pel \/ (m \in Undelivered /\ Reads(w))
    BY <1>10 DEF Step, Passes, Scans, Takes, Adds, GivesBack, Reads, Handles, Acks, Dels,
       Retries, Pushes, Trims, Records, Reclaims, Claims, Without, redis
  <2>2. Within(m.env)
    BY <2>1 DEF BudgetInv, PlacesWithin, Undelivered
  <2>3. CASE m \in pel /\ Tends(w, m)
    <3>1. Passes(w) \/ Handles(w) \/ Acks(w)
      BY <2>3 DEF Tends, Step, Scans, Takes, Adds, GivesBack, Reads, Dels, Retries, Pushes,
         Trims, Records, Reclaims, Claims
    <3>2. Tends(w, m)' \/ Fault(1)
      BY <1>10, <2>3, <3>1 DEF Tends, Passes, Handles, Acks, Keeps, Without
    <3> QED BY <1>2, <2>2, <3>2
  <2>4. CASE m \in pel /\ ~Tends(w, m)
    BY <2>4 DEF BudgetInv, PendingHaveSlack
  <2>5. CASE m \notin pel
    <3>1. PICK n \in Undelivered : Reads(w)!2!(n)
      BY <2>1, <2>5 DEF Reads
    <3>2. m = n
      BY <1>10, <2>5, <3>1
    <3>3. Tends(w, m)' \/ Fault(1)
      BY <3>1, <3>2 DEF Tends
    <3> QED BY <1>2, <2>2, <3>3
  <2> QED BY <2>3, <2>4, <2>5
<1>11. stale' \subseteq stale
  BY DEF Step, Passes, Scans, Takes, Adds, GivesBack, Reads, Handles, Acks, Dels, Retries,
     Pushes, Trims, Records, Reclaims, Claims, Without, redis
<1>12. /\ \A m \in (stream \cup pel)' : m \in stream \cup pel \/ Within(m.env)
       /\ \A e \in delayed' : e \in delayed \/ Within(e)
  BY <1>4, <1>5, <1>6
<1> QED BY <1>2, <1>3, <1>7, <1>8, <1>9, <1>10, <1>11, <1>12, BudgetKept

\* A thread loses what it worked on: each such step is a fault.
Dies ==
    \/ \E p \in Process : Crash(p)
    \/ \E w \in Worker : HandlerExits(w)

LEMMA BudgetInit == Init => BudgetInv
<1> SUFFICES ASSUME Init PROVE BudgetInv
  OBVIOUS
<1>1. \A w \in Worker : Within(job[w].env)
  <2>1. Faults = 0
    BY DEF Init, Faults
  <2>2. NoJob.env.attempts = 0 /\ NoJob.env.task \in Task
    BY NoJobIsEntry DEF NoJob, NewEnvelope, Entry, Envelope
  <2> QED BY <2>1, <2>2, QueueAssumption DEF Init, Within
<1> QED
  BY <1>1 DEF Init, BudgetInv, PlacesWithin, ThreadsWithin, ReclaimedHaveSlack, PendingHaveSlack

\* Outside the threads: a submission starts at zero attempts, and a visibility timeout or
\* a crash is a fault that every pending entry may be retried for.
LEMMA EnvironmentBudget ==
    ASSUME TypeOK, TypeOK', LossInv, BudgetInv,
           \/ \E t \in Task : Enqueue(t) \/ RecordQueued(t)
           \/ \E e \in delayed : ComeDue(e)
           \/ \E m \in pel : BecomeStale(m)
           \/ \E p \in Process : Crash(p) \/ Stop(p)
           \/ \E w \in Worker : HandlerExits(w)
    PROVE  BudgetInv'
<1>0. Faults' \in Nat
  BY FaultsTypeNext
<1>1. /\ UNCHANGED pel /\ due' \subseteq delayed'
      /\ \A m \in stream' : m \in stream \/ \E t \in Task : m.env = NewEnvelope(t)
      /\ \A e \in delayed' : e \in delayed \/ \E t \in Task : e = NewEnvelope(t)
  BY DEF Enqueue, RecordQueued, ComeDue, BecomeStale, Crash, Stop, HandlerExits, redis, XAdd,
     ZAdd, BudgetInv
<1>2. \A w \in Worker :
         \/ pc'[w] = pc[w] /\ job'[w] = job[w] /\ todo'[w] = todo[w]
         \/ pc'[w] \in {"halted", "loop"} /\ job'[w] = NoJob /\ todo'[w] = {}
  <2>1. CASE Dies
    BY <2>1, EndedThreads DEF Dies, TypeOK
  <2>2. CASE ~Dies
    BY <2>2 DEF Dies, Enqueue, RecordQueued, ComeDue, BecomeStale, Stop, threads
  <2> QED BY <2>1, <2>2
<1>3. Faults <= Faults' /\ (Dies => Faults # Faults')
  <2>0. /\ crashes \in Nat /\ errors \in Nat /\ slow \in Nat /\ exits \in Nat
        /\ Faults \in Nat
    BY FaultsType DEF TypeOK, HistoryTypeOK
  <2>1. CASE Dies
    <3>1. CASE \E p \in Process : Crash(p)
      <4>1. crashes' = crashes + 1 /\ UNCHANGED <<errors, slow, exits>>
        BY <3>1 DEF Crash
      <4>2. Faults' = Faults + 1
        BY <2>0, <4>1, SumGrows DEF Faults
      <4> QED BY <2>0, <4>2
    <3>2. CASE \E w \in Worker : HandlerExits(w)
      <4>1. exits' = exits + 1 /\ UNCHANGED <<crashes, errors, slow>>
        BY <3>2 DEF HandlerExits
      <4>2. Faults' = Faults + 1
        BY <2>0, <4>1 DEF Faults
      <4> QED BY <2>0, <4>2
    <3> QED BY <2>1, <3>1, <3>2 DEF Dies
  <2>2. CASE ~Dies /\ \E m \in pel : BecomeStale(m)
    <3>1. UNCHANGED <<crashes, errors, exits>> /\ (slow' = slow \/ slow' = slow + 1)
      BY <2>2 DEF BecomeStale
    <3>2. Faults' = Faults \/ Faults' = Faults + 1
      BY <2>0, <3>1, SumGrows DEF Faults
    <3> QED BY <2>0, <2>2, <3>2
  <2>3. CASE ~Dies /\ ~\E m \in pel : BecomeStale(m)
    <3>1. UNCHANGED <<crashes, slow, exits>> /\ (Fault(0) \/ Fault(1))
      BY <2>3, AnswerCases
      DEF Dies, Enqueue, RecordQueued, ComeDue, Stop, bounds, TypeOK, HistoryTypeOK, Fault
    <3> QED BY <2>3, <3>1, FaultsCounted
  <2> QED BY <2>1, <2>2, <2>3
<1>4. PlacesWithin'
  <2>1. \A m \in (stream \cup pel)' : m.env \in Envelope /\ Within(m.env)
    BY <1>1, FreshWithin, EntryFields DEF BudgetInv, PlacesWithin, TypeOK, RedisTypeOK
  <2>2. \A e \in delayed' : e \in Envelope /\ Within(e)
    BY <1>1, FreshWithin DEF BudgetInv, PlacesWithin, TypeOK, RedisTypeOK
  <2> QED BY <1>0, <1>3, <2>1, <2>2, FaultsExcuse DEF PlacesWithin
<1>5. ASSUME NEW w \in Worker
      PROVE  Within(job[w].env)' /\ \A m \in todo'[w] : Within(m.env)'
  <2>1. PICK e \in Envelope : e = job'[w].env /\ Within(e)
    BY <1>2, NoJobWithin, EntryFields DEF BudgetInv, ThreadsWithin, TypeOK, ThreadTypeOK
  <2>2. \A m \in todo'[w] : m.env \in Envelope /\ Within(m.env)
    BY <1>2, EntryFields DEF BudgetInv, ThreadsWithin, TypeOK, ThreadTypeOK
  <2>3. Within(e)'
    BY <1>0, <1>3, <2>1, FaultsExcuse
  <2> QED BY <1>0, <1>3, <2>1, <2>2, <2>3, FaultsExcuse DEF Within
<1>6. ReclaimedHaveSlack'
  <2> SUFFICES ASSUME NEW w \in Worker, pc'[w] \notin {"promote", "readd", "giveback"},
                      NEW m \in todo'[w]
               PROVE  Slack(m.env)'
    BY DEF ReclaimedHaveSlack
  <2>1. Slack(m.env) /\ m.env \in Envelope
    BY <1>2, EntryFields DEF BudgetInv, ReclaimedHaveSlack, TypeOK, ThreadTypeOK
  <2> QED BY <1>0, <1>3, <2>1, FaultsExcuse
<1>7. ASSUME NEW m \in pel PROVE Slack(m.env)' \/ \E w \in Worker : Tends(w, m)'
  <2>1. m.env \in Envelope /\ Within(m.env)
    BY EntryFields DEF BudgetInv, PlacesWithin, TypeOK, RedisTypeOK
  <2>2. CASE Slack(m.env) \/ Dies
    BY <1>0, <1>3, <2>1, <2>2, FaultsExcuse
  <2>3. CASE ~Slack(m.env) /\ ~Dies
    <3>1. PICK w \in Worker : Tends(w, m)
      BY <2>3 DEF BudgetInv, PendingHaveSlack
    <3>2. pc' = pc /\ job' = job
      BY <2>3 DEF Dies, Enqueue, RecordQueued, ComeDue, BecomeStale, Stop, threads
    <3> QED BY <3>1, <3>2 DEF Tends
  <2> QED BY <2>2, <2>3
<1>8. ASSUME NEW m \in stale' PROVE Slack(m.env)'
  <2>1. m.env \in Envelope
    BY EntryFields DEF TypeOK, RedisTypeOK
  <2>2. CASE m \in stale
    <3>1. Slack(m.env)
      BY <2>2 DEF BudgetInv, PendingHaveSlack
    <3> QED BY <1>0, <1>3, <2>1, <3>1, FaultsExcuse
  <2>3. CASE m \notin stale
    <3>1. m \in pel /\ BecomeStale(m)
      BY <1>8, <2>3
      DEF Enqueue, RecordQueued, ComeDue, BecomeStale, Crash, Stop, HandlerExits, redis
    <3>2. Within(m.env)
      BY <3>1 DEF BudgetInv, PlacesWithin
    <3>3. CASE Held(m)
      <4>1. slow' = slow + 1 /\ UNCHANGED <<crashes, errors, exits>>
        BY <3>1, <3>3 DEF BecomeStale
      <4>2. Faults' = Faults + 1
        BY <4>1, SumGrows DEF Faults, TypeOK, HistoryTypeOK
      <4> QED BY <1>0, <1>3, <2>1, <3>2, <4>2, FaultsType, FaultsExcuse
    <3>4. CASE ~Held(m)
      <4>1. Slack(m.env)
        BY <3>1, <3>4 DEF BudgetInv, PendingHaveSlack, Held, Tends
      <4> QED BY <1>0, <1>3, <2>1, <4>1, FaultsExcuse
    <3> QED BY <3>3, <3>4
  <2> QED BY <2>2, <2>3
<1>9. ThreadsWithin' /\ PendingHaveSlack'
  BY <1>1, <1>5, <1>7, <1>8 DEF ThreadsWithin, PendingHaveSlack
<1> QED BY <1>1, <1>4, <1>6, <1>9 DEF BudgetInv

\* No task is attempted more often than its budget but for the faults there were: one
\* attempt per crash, failed command, handler slower than the visibility timeout or handler
\* that ended its thread, and not one per copy.
THEOREM BudgetHolds == Spec => []BudgetUpToFaults
<1>1. TypeOK /\ TypeOK' /\ LossInv /\ BudgetInv /\ [Next]_vars => BudgetInv'
  <2> SUFFICES ASSUME TypeOK, TypeOK', LossInv, BudgetInv, [Next]_vars PROVE BudgetInv'
    OBVIOUS
  <2>1. CASE UNCHANGED vars
    <3>1. UNCHANGED <<stream, pel, stale, delayed, due, pc, job, todo, crashes, errors,
                     slow, exits>>
      BY <2>1 DEF vars, redis, threads, bounds
    <3> QED
      BY <3>1 DEF BudgetInv, PlacesWithin, ThreadsWithin, ReclaimedHaveSlack,
         PendingHaveSlack, Within, Slack, Faults, Tends
  <2>2. ASSUME NEW w \in Worker, Reserve(w) \/ Handle(w) \/ Settle(w) \/ MaybeReclaim(w)
        PROVE  BudgetInv'
    BY <2>2, ThreadSteps, StepBudget
  <2> QED BY <2>1, <2>2, EnvironmentBudget DEF Next
<1>2. TypeOK /\ BudgetInv => BudgetUpToFaults
  <2> SUFFICES ASSUME TypeOK, BudgetInv, NEW e \in Envelopes
               PROVE  e.attempts <= Budget[e.task] + crashes + errors + slow + exits
    BY DEF BudgetUpToFaults
  <2>1. Within(e) /\ e \in Envelope
    BY EntryFields DEF Envelopes, BudgetInv, PlacesWithin, ThreadsWithin, Undelivered, TypeOK,
       RedisTypeOK, ThreadTypeOK
  <2>2. PICK i, j, k, l \in Nat : i = crashes /\ j = errors /\ k = slow /\ l = exits
    BY DEF TypeOK, HistoryTypeOK
  <2>3. e.attempts <= Budget[e.task] + (i + j + k + l)
    BY <2>1, <2>2 DEF Within, Faults
  <2>4. e.attempts <= Budget[e.task] + i + j + k + l
    BY <2>1, <2>3, BudgetType
  <2> QED BY <2>2, <2>4
<1> QED BY <1>1, <1>2, BudgetInit, LossAlways, PTL DEF Spec

-----------------------------------------------------------------------------
(* The dead-letter list.  A thread that buries an entry has found it exhausted, and      *)
(* every letter beyond the limit has a thread before its LTRIM, or a fault, behind it.   *)

Exhausted(e) == e.task \in Unregistered \cup Corrupt \/ e.attempts >= Budget[e.task]
Trimming == {w \in Worker : pc[w] = "ltrim"}

BuriersSound ==
    \A w \in Worker :
        /\ pc[w] \in {"xack", "xdel", "lpush"} /\ fate[w] = "dead" => Exhausted(job[w].env)
        /\ pc[w] = "lpush" => fate[w] = "dead"
        /\ pc[w] = "zadd" => fate[w] = "retrying"
LettersExhausted == \A i \in 1 .. Len(deadList) : Exhausted(deadList[i])
LettersBounded ==
    Len(deadList) <= DeadMax + Cardinality(Trimming) + crashes * Cardinality(Slot) + errors

DeadInv == BuriersSound /\ LettersExhausted /\ LettersBounded

LEMMA BuriersKept ==
    ASSUME TypeOK, BuriersSound, NEW w \in Worker, Others(w), Step(w) PROVE BuriersSound'
<1>1. ASSUME NEW v \in Worker \ {w}
      PROVE  /\ pc'[v] \in {"xack", "xdel", "lpush"} /\ fate'[v] = "dead"
                   => Exhausted(job'[v].env)
             /\ pc'[v] = "lpush" => fate'[v] = "dead"
             /\ pc'[v] = "zadd" => fate'[v] = "retrying"
  BY DEF BuriersSound, Others
<1>2. /\ pc'[w] \in {"xack", "xdel", "lpush"} /\ fate'[w] = "dead" => Exhausted(job'[w].env)
      /\ pc'[w] = "lpush" => fate'[w] = "dead"
      /\ pc'[w] = "zadd" => fate'[w] = "retrying"
  <2>1. CASE Reads(w) \/ Claims(w)
    BY <2>1 DEF Reads, Claims, Exhausted
  <2>2. CASE Handles(w)
    <3>1. job[w].env.attempts \in Nat /\ Budget[JobTask(w)] \in Nat
      BY EntryFields, QueueAssumption DEF TypeOK, ThreadTypeOK, Envelope, JobTask
    <3> QED BY <2>2, <3>1 DEF Handles, Exhausted, MayRetry, JobTask
  <2>3. CASE Acks(w) \/ Dels(w)
    <3>1. fate[w] \in Fate
      BY DEF TypeOK, ThreadTypeOK
    <3> QED
      BY <2>3, <3>1 DEF Acks, Dels, Keeps, Drops, NextPlace, Fate, BuriersSound
  <2>4. CASE ~(Reads(w) \/ Claims(w) \/ Handles(w) \/ Acks(w) \/ Dels(w))
    <3>1. pc'[w] \notin {"xack", "xdel", "lpush", "zadd"}
      BY <2>4 DEF Step, Passes, Scans, Takes, Adds, GivesBack, Retries, Pushes, Trims, Records,
         Reclaims, Drops
    <3> QED BY <3>1
  <2> QED BY <2>1, <2>2, <2>3, <2>4
<1> QED BY <1>1, <1>2 DEF BuriersSound

LEMMA PushedLetters ==
    ASSUME NEW list \in Seq(Envelope), NEW e \in Envelope
    PROVE  /\ Len(<<e>> \o list) = Len(list) + 1
           /\ \A i \in 1 .. Len(<<e>> \o list) :
                (<<e>> \o list)[i] = e \/ \E j \in 1 .. Len(list) : (<<e>> \o list)[i] = list[j]
OBVIOUS

LEMMA TrimmedLetters ==
    ASSUME NEW list \in Seq(Envelope)
    PROVE  /\ Len(Trimmed(list)) <= DeadMax
           /\ \A i \in 1 .. Len(Trimmed(list)) :
                i \in 1 .. Len(list) /\ Trimmed(list)[i] = list[i]
BY QueueAssumption DEF Trimmed

LEMMA LettersKept ==
    ASSUME TypeOK, DeadInv, NEW w \in Worker, Step(w) PROVE LettersExhausted'
<1>0. deadList \in Seq(Envelope)
  BY DEF TypeOK, RedisTypeOK
<1>1. CASE Pushes(w)
  <2>1. job[w].env \in Envelope /\ Exhausted(job[w].env)
    BY <1>1, EntryFields DEF Pushes, DeadInv, BuriersSound, TypeOK, ThreadTypeOK
  <2> QED
    BY <1>0, <1>1, <2>1, PushedLetters DEF Pushes, DeadInv, LettersExhausted
<1>2. CASE Trims(w)
  BY <1>0, <1>2, TrimmedLetters DEF Trims, DeadInv, LettersExhausted
<1>3. CASE ~(Pushes(w) \/ Trims(w))
  <2>1. deadList' = deadList
    BY <1>3 DEF Step, Passes, Scans, Takes, Adds, GivesBack, Reads, Handles, Acks, Dels,
       Retries, Records, Reclaims, Claims, redis
  <2> QED BY <2>1 DEF DeadInv, LettersExhausted
<1> QED BY <1>1, <1>2, <1>3

\* The bound grows by one with each thread that starts to trim and each fault.
LEMMA BoundSteps ==
    \A n, d, t, c, s, e \in Nat :
        n <= d + t + c * s + e
          => /\ n + 1 <= d + (t + 1) + c * s + e
             /\ n + 1 <= d + t + c * s + (e + 1)
             /\ n <= d + (t - 1) + c * s + (e + 1)
             /\ n <= d + t + c * s + (e + 1)
<1> SUFFICES ASSUME NEW n \in Nat, NEW d \in Nat, NEW t \in Nat, NEW c \in Nat, NEW s \in Nat,
                    NEW e \in Nat, n <= d + t + c * s + e
             PROVE  /\ n + 1 <= d + (t + 1) + c * s + e
                    /\ n + 1 <= d + t + c * s + (e + 1)
                    /\ n <= d + (t - 1) + c * s + (e + 1)
                    /\ n <= d + t + c * s + (e + 1)
  OBVIOUS
<1>1. PICK k \in Nat : k = c * s
  OBVIOUS
<1> QED BY <1>1

LEMMA BoundKept ==
    ASSUME TypeOK, TypeOK', DeadInv, IsFiniteSet(Worker), IsFiniteSet(Slot),
           NEW w \in Worker, Others(w), UNCHANGED <<crashes, slow>>, Step(w)
    PROVE  LettersBounded'
<1> DEFINE s == Cardinality(Slot)
<1>0. /\ deadList \in Seq(Envelope) /\ Len(deadList) \in Nat
      /\ DeadMax \in Nat /\ crashes \in Nat /\ errors \in Nat /\ s \in Nat
  BY QueueAssumption, FS_CardinalityType DEF TypeOK, RedisTypeOK, HistoryTypeOK
<1>1. IsFiniteSet(Trimming) /\ Cardinality(Trimming) \in Nat
  BY FS_Subset, FS_CardinalityType DEF Trimming
<1>2. Len(deadList) <= DeadMax + Cardinality(Trimming) + crashes * s + errors
  BY DEF DeadInv, LettersBounded
<1>3. /\ pc'[w] = "ltrim" /\ pc[w] # "ltrim" => Trimming' = Trimming \cup {w}
      /\ pc'[w] # "ltrim" => Trimming' = Trimming \ {w}
  BY DEF Trimming, Others
<1>4. /\ Cardinality(Trimming \cup {w}) = IF pc[w] = "ltrim" THEN Cardinality(Trimming)
                                          ELSE Cardinality(Trimming) + 1
      /\ Cardinality(Trimming \ {w}) = IF pc[w] = "ltrim" THEN Cardinality(Trimming) - 1
                                       ELSE Cardinality(Trimming)
      /\ IsFiniteSet(Trimming \cup {w}) /\ IsFiniteSet(Trimming \ {w})
  BY <1>1, FS_AddElement, FS_RemoveElement DEF Trimming
<1>5. Cardinality(Trimming \cup {w}) \in Nat /\ Cardinality(Trimming \ {w}) \in Nat
  BY <1>4, FS_CardinalityType
<1>6. CASE Pushes(w)
  <2>1. job[w].env \in Envelope
    BY EntryFields DEF TypeOK, ThreadTypeOK
  <2>2. \/ /\ Len(deadList') = Len(deadList) + 1 /\ pc'[w] = "ltrim" /\ errors' = errors
        \/ /\ Len(deadList') = Len(deadList) + 1 /\ pc'[w] # "ltrim" /\ errors' = errors + 1
        \/ /\ deadList' = deadList /\ pc'[w] # "ltrim" /\ errors' = errors + 1
    BY <1>0, <1>6, <2>1, PushedLetters DEF Pushes, Drops, Fault
  <2>3. \/ Cardinality(Trimming') = Cardinality(Trimming) + 1 /\ pc'[w] = "ltrim"
        \/ Cardinality(Trimming') = Cardinality(Trimming) /\ pc'[w] # "ltrim"
    BY <1>3, <1>4, <1>6 DEF Pushes
  <2>4. PICK k \in Nat : k = crashes * s
    BY <1>0
  <2>5. Len(deadList) <= DeadMax + Cardinality(Trimming) + k + errors
    BY <1>2, <2>4
  <2>6. Len(deadList') <= DeadMax + Cardinality(Trimming') + k + errors'
    BY <1>0, <1>1, <2>2, <2>3, <2>5
  <2> QED BY <2>4, <2>6 DEF LettersBounded, s
<1>7. CASE Trims(w)
  <2>1. Cardinality(Trimming') \in Nat /\ errors' \in Nat /\ crashes' \in Nat
    BY <1>0, <1>3, <1>4, <1>5, <1>7 DEF TypeOK, HistoryTypeOK, Trims, Drops
  <2>2. CASE deadList' = Trimmed(deadList)
    <3>1. Len(deadList') <= DeadMax /\ Len(deadList') \in Nat
      BY <1>0, <2>2, TrimmedLetters DEF TypeOK, RedisTypeOK
    <3>2. crashes' * s \in Nat
      BY <1>0, <2>1
    <3> QED BY <1>0, <2>1, <3>1, <3>2 DEF LettersBounded
  <2>3. CASE deadList' # Trimmed(deadList)
    <3>1. deadList' = deadList /\ errors' = errors + 1 /\ pc'[w] # "ltrim"
      BY <1>7, <2>3 DEF Trims, Drops, Fault
    <3>2. Cardinality(Trimming') = Cardinality(Trimming) - 1
      BY <1>3, <1>4, <1>7, <3>1 DEF Trims
    <3> HIDE DEF s
    <3> QED BY <1>0, <1>1, <1>2, <3>1, <3>2, BoundSteps DEF LettersBounded, s
  <2> QED BY <2>2, <2>3
<1>8. CASE ~(Pushes(w) \/ Trims(w))
  <2>1. deadList' = deadList /\ (errors' = errors \/ errors' = errors + 1)
    BY <1>0, <1>8 DEF Step, Passes, Scans, Takes, Adds, GivesBack, Reads, Handles, Acks, Dels,
       Retries, Records, Reclaims, Claims, redis, Fault
  <2>2. pc[w] # "ltrim" /\ pc'[w] # "ltrim"
    <3>1. fate[w] \in Fate
      BY DEF TypeOK, ThreadTypeOK
    <3> QED
      BY <1>8, <3>1 DEF Step, Passes, Scans, Takes, Adds, GivesBack, Reads, Handles, Acks, Dels,
         Retries, Records, Reclaims, Claims, Drops, NextPlace, Fate
  <2>3. Cardinality(Trimming') = Cardinality(Trimming)
    BY <1>3, <1>4, <2>2
  <2> HIDE DEF s
  <2> QED BY <1>0, <1>1, <1>2, <2>1, <2>3, BoundSteps DEF LettersBounded, s
<1> QED BY <1>6, <1>7, <1>8

\* A crash stops at most the threads of one process.
LEMMA CrashLetters ==
    ASSUME TypeOK, DeadInv, IsFiniteSet(Worker), IsFiniteSet(Slot),
           NEW p \in Process, Crash(p)
    PROVE  DeadInv'
<1> DEFINE s == Cardinality(Slot)
           gone == {w \in Worker : Host(w) = p}
<1>0. /\ Len(deadList) \in Nat /\ DeadMax \in Nat
      /\ crashes \in Nat /\ errors \in Nat /\ s \in Nat
  BY QueueAssumption, FS_CardinalityType DEF TypeOK, RedisTypeOK, HistoryTypeOK
<1>1. /\ deadList' = deadList /\ crashes' = crashes + 1 /\ errors' = errors
      /\ \A w \in Worker : IF Host(w) = p THEN pc'[w] \in {"halted", "loop"}
                           ELSE pc'[w] = pc[w] /\ job'[w] = job[w] /\ fate'[w] = fate[w]
  BY DEF Crash, redis
<1>2. IsFiniteSet(gone) /\ Cardinality(gone) = s
  <2>1. gone = {p} \X Slot
    BY DEF Worker, Host
  <2>2. IsFiniteSet({p}) /\ Cardinality({p}) = 1
    BY FS_Singleton
  <2>3. IsFiniteSet(gone) /\ Cardinality(gone) = 1 * s
    BY <2>1, <2>2, FS_Product
  <2> QED BY <1>0, <2>3
<1>3. /\ IsFiniteSet(Trimming) /\ IsFiniteSet(Trimming')
      /\ Cardinality(Trimming) \in Nat /\ Cardinality(Trimming') \in Nat
  <2>1. Trimming \subseteq Worker /\ Trimming' \subseteq Worker
    BY DEF Trimming
  <2> QED BY <2>1, FS_Subset, FS_CardinalityType
<1>4. Cardinality(Trimming) <= Cardinality(Trimming') + s
  <2>1. Trimming \subseteq Trimming' \cup gone
    BY <1>1 DEF Trimming
  <2>2. /\ IsFiniteSet(Trimming' \cup gone)
        /\ Cardinality(Trimming' \cup gone)
             = Cardinality(Trimming') + Cardinality(gone) - Cardinality(Trimming' \cap gone)
    BY <1>2, <1>3, FS_Union
  <2>3. Cardinality(Trimming' \cap gone) \in Nat
    BY <1>3, FS_Intersection, FS_CardinalityType
  <2>4. /\ Cardinality(Trimming) <= Cardinality(Trimming' \cup gone)
        /\ Cardinality(Trimming' \cup gone) \in Nat
    BY <2>1, <2>2, FS_Subset, FS_CardinalityType
  <2> QED BY <1>0, <1>2, <1>3, <2>2, <2>3, <2>4
<1>5. LettersBounded'
  <2>1. \A n, d, t, u, c, k, e \in Nat :
           n <= d + t + c * k + e /\ t <= u + k => n <= d + u + (c + 1) * k + e
    <3> SUFFICES ASSUME NEW n \in Nat, NEW d \in Nat, NEW t \in Nat, NEW u \in Nat, NEW c \in Nat,
                        NEW k \in Nat, NEW e \in Nat, n <= d + t + c * k + e, t <= u + k
                 PROVE  n <= d + u + (c + 1) * k + e
      OBVIOUS
    <3>1. (c + 1) * k = c * k + k /\ c * k \in Nat
      OBVIOUS
    <3> QED BY <3>1
  <2>2. Len(deadList) <= DeadMax + Cardinality(Trimming) + crashes * s + errors
    BY DEF DeadInv, LettersBounded
  <2> HIDE DEF s, gone
  <2>3. Len(deadList) <= DeadMax + Cardinality(Trimming') + (crashes + 1) * s + errors
    BY <1>0, <1>3, <1>4, <2>1, <2>2
  <2> QED BY <1>1, <2>3 DEF LettersBounded, s
<1>6. BuriersSound' /\ LettersExhausted'
  BY <1>1 DEF DeadInv, BuriersSound, LettersExhausted
<1> QED BY <1>5, <1>6 DEF DeadInv

LEMMA EnvironmentLetters ==
    ASSUME TypeOK, TypeOK', DeadInv, IsFiniteSet(Worker), IsFiniteSet(Slot),
           \/ UNCHANGED vars
           \/ \E t \in Task : Enqueue(t) \/ RecordQueued(t)
           \/ \E e \in delayed : ComeDue(e)
           \/ \E m \in pel : BecomeStale(m)
           \/ \E p \in Process : Crash(p) \/ Stop(p)
           \/ \E w \in Worker : HandlerExits(w)
    PROVE  DeadInv'
<1>1. CASE ~Dies
  <2>0. /\ Len(deadList) \in Nat /\ DeadMax \in Nat
        /\ crashes \in Nat /\ errors \in Nat /\ Cardinality(Slot) \in Nat
        /\ Cardinality(Trimming) \in Nat
    BY QueueAssumption, FS_Subset, FS_CardinalityType
    DEF TypeOK, RedisTypeOK, HistoryTypeOK, Trimming
  <2>1. UNCHANGED <<deadList, pc, job, fate, crashes>>
    BY <1>1
    DEF Dies, vars, Enqueue, RecordQueued, ComeDue, BecomeStale, Stop, redis, threads, bounds
  <2>2. errors' = errors \/ errors' = errors + 1
    <3>1. ASSUME NEW r \in Reply, Answer(r) PROVE errors' = errors \/ errors' = errors + 1
      BY <3>1 DEF Answer
    <3> QED
      BY <1>1, <3>1 DEF Dies, vars, Enqueue, RecordQueued, ComeDue, BecomeStale, Stop, bounds
  <2>3. Trimming' = Trimming
    BY <2>1 DEF Trimming
  <2>4. LettersBounded'
    BY <2>0, <2>1, <2>2, <2>3, BoundSteps DEF DeadInv, LettersBounded
  <2> QED
    BY <2>1, <2>4 DEF DeadInv, BuriersSound, LettersExhausted
<1>2. ASSUME NEW w \in Worker, HandlerExits(w) PROVE DeadInv'
  <2>0. ThreadTypeOK
    BY DEF TypeOK
  <2>1. /\ Others(w) /\ pc[w] = "run" /\ pc'[w] = "halted"
        /\ UNCHANGED <<deadList, crashes, errors>>
    BY <1>2, <2>0, ExitsAlone
  <2>2. Trimming' = Trimming
    BY <2>1 DEF Trimming, Others
  <2>3. BuriersSound'
    BY <2>1 DEF DeadInv, BuriersSound, Others
  <2> QED BY <2>1, <2>2, <2>3 DEF DeadInv, LettersExhausted, LettersBounded
<1> QED BY <1>1, <1>2, CrashLetters DEF Dies

\* The dead-letter list holds only what another try cannot help, and no more than its limit
\* but for letters whose pusher has not trimmed yet, was stopped by a crash, or whose LTRIM
\* failed.
THEOREM LettersStayWithin ==
    ASSUME IsFiniteSet(Process), IsFiniteSet(Slot) PROVE Spec => []DeadLettersExhausted
<1>0. IsFiniteSet(Worker)
  BY FS_Product DEF Worker
<1>1. Init => DeadInv
  <2> SUFFICES ASSUME Init PROVE DeadInv
    OBVIOUS
  <2>1. Trimming = {}
    BY DEF Init, Trimming
  <2>2. Cardinality(Trimming) = 0 /\ Cardinality(Slot) \in Nat
    BY <2>1, FS_EmptySet, FS_CardinalityType
  <2>3. 0 * Cardinality(Slot) = 0
    BY <2>2
  <2> QED
    BY <2>2, <2>3, QueueAssumption
    DEF Init, DeadInv, BuriersSound, LettersExhausted, LettersBounded
<1>2. TypeOK /\ TypeOK' /\ DeadInv /\ [Next]_vars => DeadInv'
  <2> SUFFICES ASSUME TypeOK, TypeOK', DeadInv, [Next]_vars PROVE DeadInv'
    OBVIOUS
  <2>1. ASSUME NEW w \in Worker, Reserve(w) \/ Handle(w) \/ Settle(w) \/ MaybeReclaim(w)
        PROVE  DeadInv'
    BY <1>0, <2>1, ThreadSteps, BuriersKept, LettersKept, BoundKept DEF DeadInv
  <2> QED BY <1>0, <2>1, EnvironmentLetters DEF Next
<1>3. DeadInv => DeadLettersExhausted
  BY DEF DeadInv, LettersExhausted, LettersBounded, DeadLettersExhausted, Exhausted, Trimming
<1> QED BY <1>1, <1>2, <1>3, TypeCorrect, PTL DEF Spec

-----------------------------------------------------------------------------
(* One copy, one worker.  While no command has failed and no handler has outlived the   *)
(* visibility timeout, a task is in one place, a pending entry is in one thread's hands  *)
(* and a stale one in nobody's.                                                          *)

\* What a thread has in its hands at each point of its loop, whatever failed.
InHand(w) ==
    /\ pc[w] \in {"loop", "promote", "read", "idle", "claim", "halted"} => job[w] = NoJob
    /\ pc[w] \in {"loop", "read", "mark", "run", "idle", "halted"} => todo[w] = {}
    /\ pc[w] \in {"mark", "run", "xack"} => job[w].id # 0
    /\ pc[w] \notin {"promote", "readd", "giveback"} => \A m \in todo[w] : m.id # 0

HandsInv == \A w \in Worker : InHand(w)

LEMMA HandsStep ==
    ASSUME TypeOK, IdsSound, NEW w \in Worker, InHand(w), Step(w) PROVE InHand(w)'
<1>1. CASE Passes(w) \/ Scans(w)
  BY <1>1 DEF Passes, Scans, Keeps, InHand
<1>2. CASE Takes(w) \/ Adds(w) \/ GivesBack(w)
  BY <1>2 DEF Takes, Adds, GivesBack, InHand
<1>3. CASE Reads(w)
  <2>1. \A m \in Undelivered : m.id # 0
    BY DEF IdsSound, Undelivered, TypeOK, RedisTypeOK, Entry
  <2> QED BY <1>3, <2>1 DEF Reads, InHand
<1>4. CASE Handles(w)
  BY <1>4 DEF Handles, InHand
<1>5. CASE Drops(w) /\ pc[w] \in {"xack", "xdel", "zadd", "lpush", "ltrim", "record"}
  BY <1>5 DEF Drops, Without, InHand
<1>6. CASE Keeps(w) /\ pc[w] \in {"xack", "xdel", "zadd", "lpush", "ltrim", "record"}
           /\ pc'[w] \in {"xdel", "zadd", "lpush", "ltrim", "record"}
  BY <1>6 DEF Keeps, InHand
<1>7. CASE Acks(w) \/ Dels(w) \/ Retries(w) \/ Pushes(w) \/ Trims(w) \/ Records(w)
  <2>1. NextPlace[fate[w]] \in {"zadd", "lpush", "record"}
    BY DEF TypeOK, ThreadTypeOK, Fate, NextPlace
  <2> QED
    BY <1>5, <1>6, <1>7, <2>1 DEF Acks, Dels, Retries, Pushes, Trims, Records
<1>8. CASE Reclaims(w)
  <2>1. \A m \in stale : m.id # 0
    BY DEF IdsSound, TypeOK, RedisTypeOK, Entry
  <2> QED BY <1>8, <2>1 DEF Reclaims, InHand
<1>9. CASE Claims(w)
  BY <1>9 DEF Claims, InHand
<1> QED BY <1>1, <1>2, <1>3, <1>4, <1>7, <1>8, <1>9 DEF Step

LEMMA HandsAlways == Spec => []HandsInv
<1>1. Init => HandsInv
  BY DEF Init, HandsInv, InHand
<1>2. TypeOK /\ LossInv /\ HandsInv /\ [Next]_vars => HandsInv'
  <2> SUFFICES ASSUME TypeOK, LossInv, HandsInv, [Next]_vars PROVE HandsInv'
    OBVIOUS
  <2>1. ASSUME NEW w \in Worker, Reserve(w) \/ Handle(w) \/ Settle(w) \/ MaybeReclaim(w)
        PROVE  HandsInv'
    <3>1. Step(w) /\ Others(w)
      BY <2>1, ThreadSteps
    <3>2. InHand(w)'
      BY <3>1, HandsStep DEF HandsInv, LossInv
    <3>3. \A v \in Worker \ {w} : InHand(v)'
      BY <3>1 DEF Others, HandsInv, InHand
    <3> QED BY <3>2, <3>3 DEF HandsInv
  <2>2. CASE UNCHANGED <<pc, job, todo>>
    BY <2>2 DEF HandsInv, InHand
  <2>3. CASE Dies
    <3>1. \A w \in Worker : \/ pc'[w] = pc[w] /\ job'[w] = job[w] /\ todo'[w] = todo[w]
                            \/ /\ pc'[w] \in {"halted", "loop"}
                               /\ job'[w] = NoJob /\ todo'[w] = {}
      BY <2>3, EndedThreads DEF Dies, TypeOK
    <3> QED BY <3>1 DEF HandsInv, InHand
  <2>4. CASE \/ UNCHANGED vars \/ \E t \in Task : Enqueue(t) \/ RecordQueued(t)
             \/ \E e \in delayed : ComeDue(e)
             \/ \E m \in pel : BecomeStale(m)
             \/ \E p \in Process : Stop(p)
    BY <2>2, <2>4 DEF vars, threads, Enqueue, RecordQueued, ComeDue, BecomeStale, Stop
  <2> QED BY <2>1, <2>3, <2>4 DEF Next, Dies
<1> QED BY <1>1, <1>2, LossAlways, PTL DEF Spec

\* Every copy of a task is the same copy.
Sole == \A t \in Task : \A c, d \in Copies(t) : c = d

\* The pending entries a thread works on or will turn to.
Holds(w, i) ==
    /\ pc[w] \in {"mark", "run", "xack", "claim", "xdel", "zadd", "lpush", "ltrim", "record"}
    /\ IF job[w].id = i THEN pc[w] \in {"mark", "run", "xack"}
       ELSE \E n \in todo[w] : n.id = i
Free(i) == \A w \in Worker : ~Holds(w, i)
Id == Nat \ {0}

OneHolder   == \A i \in Id : \A v, w \in Worker : Holds(v, i) /\ Holds(w, i) => v = w
HeldPending == \A i \in Id : Free(i) \/ \E m \in pel : m.id = i
StaleFree   == \A m \in stale : Free(m.id)

SoleInv == Sole /\ OneHolder /\ HeldPending /\ StaleFree

LEMMA CopyOf ==
    ASSUME NEW t, NEW c
    PROVE  c \in Copies(t)
             <=> \/ \E m \in Undelivered \cup pel : m.env.task = t /\ c = <<"stream", m.id>>
                 \/ \E e \in delayed : e.task = t /\ c = <<"delayed", e>>
                 \/ \E w \in Worker : Carries(w) /\ JobTask(w) = t /\ c = <<"carried", w>>
BY DEF Copies

\* The copies of t after a step, from its places: no new one but those in S.
LEMMA CopiesWithin ==
    ASSUME NEW t, NEW S,
           \A m \in (Undelivered \cup pel)' :
               m.env.task = t => m \in Undelivered \cup pel \/ <<"stream", m.id>> \in S,
           \A e \in delayed' : e.task = t => e \in delayed \/ <<"delayed", e>> \in S,
           \A w \in Worker : Carries(w)' /\ JobTask(w)' = t
               => (Carries(w) /\ JobTask(w) = t) \/ <<"carried", w>> \in S
    PROVE  Copies(t)' \subseteq Copies(t) \cup S
BY DEF Copies

NoneFromNothing == \A t \in Task : Copies(t) = {} => Copies(t)' = {}

LEMMA SoleShrinks ==
    ASSUME Sole, \A t \in Task : Copies(t)' \subseteq Copies(t)
    PROVE  Sole' /\ NoneFromNothing
BY DEF Sole, NoneFromNothing

\* The step takes the one copy of s away and puts another somewhere.
LEMMA SoleMoves ==
    ASSUME Sole, NEW s \in Task, NEW old \in Copies(s), old \notin Copies(s)', NEW c,
           \A t \in Task : Copies(t)' \subseteq Copies(t) \cup (IF t = s THEN {c} ELSE {})
    PROVE  Sole' /\ NoneFromNothing
<1>1. ASSUME NEW t \in Task, NEW x \in Copies(t)', NEW y \in Copies(t)' PROVE x = y
  <2>1. CASE t # s
    BY <1>1, <2>1 DEF Sole
  <2>2. CASE t = s
    <3>1. Copies(s) = {old}
      BY DEF Sole
    <3> QED BY <1>1, <2>2, <3>1
  <2> QED BY <2>1, <2>2
<1>2. NoneFromNothing
  BY DEF NoneFromNothing
<1> QED BY <1>1, <1>2 DEF Sole

\* What a step of thread w must respect so that held entries stay held by one thread.
LEMMA HoldersKept ==
    ASSUME OneHolder, HeldPending, StaleFree, NEW w \in Worker, Others(w),
           \A i \in Id : Holds(w, i)'
               => Holds(w, i) \/ (Free(i) /\ \E m \in pel' : m.id = i),
           \A m \in pel : m \in pel' \/ Free(m.id)',
           \A m \in stale' : m \in stale /\ ~Holds(w, m.id)'
    PROVE  OneHolder' /\ HeldPending' /\ StaleFree'
<1>1. \A v \in Worker \ {w} : \A i : Holds(v, i)' <=> Holds(v, i)
  BY DEF Others, Holds
<1>2. OneHolder'
  BY <1>1 DEF OneHolder, Free
<1>3. HeldPending'
  <2> SUFFICES ASSUME NEW i \in Id, ~Free(i)' PROVE \E m \in pel' : m.id = i
    BY DEF HeldPending
  <2>1. CASE ~Free(i)
    BY <2>1 DEF HeldPending
  <2>2. CASE Free(i)
    <3>1. Holds(w, i)'
      BY <1>1, <2>2 DEF Free
    <3> QED BY <2>2, <3>1 DEF Free
  <2> QED BY <2>1, <2>2
<1>4. StaleFree'
  BY <1>1 DEF StaleFree, Free
<1> QED BY <1>2, <1>3, <1>4

LEMMA NoFault == ASSUME TypeOK, errors' = 0 PROVE ~Fault(1)
BY DEF TypeOK, HistoryTypeOK, Fault

\* Of the other threads nothing changes, so that w alone can carry a task it did not carry.
LEMMA CarriedByOne ==
    ASSUME NEW w \in Worker, Others(w), NEW t, NEW S,
           Carries(w)' /\ JobTask(w)' = t
               => (Carries(w) /\ JobTask(w) = t) \/ <<"carried", w>> \in S
    PROVE  \A v \in Worker : Carries(v)' /\ JobTask(v)' = t
               => (Carries(v) /\ JobTask(v) = t) \/ <<"carried", v>> \in S
BY DEF Others, Carries, JobTask

LEMMA QuietSole ==
    ASSUME Sole, NEW w \in Worker, Others(w),
           (Undelivered \cup pel)' \subseteq Undelivered \cup pel, delayed' \subseteq delayed,
           Carries(w)' => Carries(w) /\ JobTask(w)' = JobTask(w)
    PROVE  Sole' /\ NoneFromNothing
<1>1. ASSUME NEW t \in Task PROVE Copies(t)' \subseteq Copies(t)
  <2>1. \A v \in Worker : Carries(v)' /\ JobTask(v)' = t
            => (Carries(v) /\ JobTask(v) = t) \/ <<"carried", v>> \in {}
    BY DEF Others, Carries, JobTask
  <2>2. Copies(t)' \subseteq Copies(t) \cup {}
    BY <2>1, CopiesWithin
  <2> QED BY <2>2
<1> QED BY <1>1, SoleShrinks

\* XACK takes the one copy of the task out of the stream.
LEMMA AckedCopy ==
    ASSUME TypeOK, IdsSound, HeldPending, NEW w \in Worker, InHand(w), errors' = 0, Acks(w),
           NEW s \in Task, s = JobTask(w)
    PROVE  \E old \in Copies(s) : old \notin Copies(s)'
<1>0. ~Fault(1)
  BY NoFault
<1>1. PICK i \in Id : i = job[w].id
  BY EntryFields DEF Acks, InHand, Id, TypeOK, ThreadTypeOK
<1>2. pel' = Without(pel, i) /\ UNCHANGED <<stream, delivered>>
  BY <1>0, <1>1 DEF Acks
<1>3. PICK m \in pel : m.id = i
  <2>1. Holds(w, i)
    BY <1>1 DEF Acks, Holds
  <2> QED BY <2>1 DEF HeldPending, Free
<1>4. m.env.task = s
  <2>1. m \in Cited /\ job[w] \in Cited
    BY DEF Cited
  <2> QED BY <1>1, <1>3, <2>1 DEF IdsSound, Id, JobTask
<1>5. <<"stream", i>> \in Copies(s)
  BY <1>3, <1>4 DEF Copies
<1>6. <<"stream", i>> \notin Copies(s)'
  <2>1. i <= delivered
    BY <1>3 DEF IdsSound
  <2>2. \A n \in (Undelivered \cup pel)' : n.id # i
    BY <1>1, <1>2, <2>1, EntryFields DEF Undelivered, Without, Id, TypeOK, RedisTypeOK
  <2> QED BY <2>2 DEF Copies
<1> QED BY <1>5, <1>6

LEMMA StepSole ==
    ASSUME TypeOK, TypeOK', IdsSound, Sole, HeldPending, NEW w \in Worker, InHand(w), Others(w),
           errors' = 0, Step(w)
    PROVE  Sole' /\ NoneFromNothing
<1>0. ~Fault(1)
  BY NoFault
<1>1. CASE Passes(w) \/ Scans(w) \/ Handles(w) \/ Dels(w) \/ Pushes(w) \/ Trims(w)
           \/ Records(w) \/ Reclaims(w) \/ Claims(w)
  <2>1. (Undelivered \cup pel)' \subseteq Undelivered \cup pel /\ delayed' \subseteq delayed
    BY <1>1 DEF Passes, Scans, Handles, Dels, Pushes, Trims, Records, Reclaims, Claims, redis,
       Undelivered, Erase, Without
  <2>2. Carries(w)' => Carries(w) /\ JobTask(w)' = JobTask(w)
    <3>1. CASE Dels(w)
      <4>1. fate[w] \in Fate
        BY DEF TypeOK, ThreadTypeOK
      <4> QED
        BY <1>0, <3>1, <4>1 DEF Dels, Keeps, NextPlace, Fate, Carries, JobTask
    <3>2. CASE ~Dels(w)
      BY <1>1, <3>2 DEF Passes, Scans, Handles, Pushes, Trims, Records, Reclaims, Claims, Drops,
         Keeps, Carries
    <3> QED BY <3>1, <3>2
  <2> QED BY <2>1, <2>2, QuietSole
<1>2. CASE Takes(w)
  <2>1. PICK m \in todo[w] :
           \/ /\ m.env \in delayed /\ ZRem(m.env)
              /\ pc'[w] = "readd" /\ job'[w] = m
           \/ ZRem(m.env) /\ pc'[w] \in {"read", "promote"} /\ job'[w] = NoJob
    BY <1>0, <1>2 DEF Takes
  <2>2. UNCHANGED <<stream, pel, delivered>> /\ delayed' = delayed \ {m.env}
    BY <1>2, <2>1 DEF Takes, ZRem
  <2>3. CASE pc'[w] # "readd"
    BY <2>1, <2>2, <2>3, QuietSole DEF Undelivered, Carries
  <2>4. CASE pc'[w] = "readd"
    <3>1. PICK s \in Task : s = m.env.task
      BY EntryFields DEF TypeOK, ThreadTypeOK
    <3>2. m.env \in delayed /\ job'[w] = m
      BY <2>1, <2>4
    <3>3. <<"delayed", m.env>> \in Copies(s)
      BY <3>1, <3>2 DEF Copies
    <3>4. Copies(s) = {<<"delayed", m.env>>}
      BY <3>3 DEF Sole
    <3>5. <<"delayed", m.env>> \notin Copies(s)'
      BY <2>2 DEF Copies
    <3>6. ASSUME NEW t \in Task
          PROVE  Copies(t)' \subseteq Copies(t) \cup (IF t = s THEN {<<"carried", w>>} ELSE {})
      <4> DEFINE S == IF t = s THEN {<<"carried", w>>} ELSE {}
      <4>1. Carries(w)' /\ JobTask(w)' = t => <<"carried", w>> \in S
        BY <3>1, <3>2 DEF JobTask
      <4>2. \A v \in Worker : Carries(v)' /\ JobTask(v)' = t
               => (Carries(v) /\ JobTask(v) = t) \/ <<"carried", v>> \in S
        BY <4>1, CarriedByOne
      <4>3. (Undelivered \cup pel)' = Undelivered \cup pel
        BY <2>2 DEF Undelivered
      <4> QED BY <2>2, <4>2, <4>3, CopiesWithin
    <3> QED BY <3>3, <3>5, <3>6, SoleMoves
  <2> QED BY <2>3, <2>4
<1>3. CASE Adds(w)
  <2>1. PICK s \in Task : s = JobTask(w)
    BY JobTaskType DEF TypeOK
  <2>2. PICK n \in Nat : n = nextId
    BY DEF TypeOK, RedisTypeOK
  <2>3. /\ stream' = stream \cup {[id |-> n, env |-> job[w].env]} /\ pc'[w] \in {"read", "promote"}
        /\ UNCHANGED <<pel, delivered, delayed>>
    BY <1>0, <1>3, <2>2 DEF Adds, XAdd
  <2>4. <<"carried", w>> \in Copies(s)
    BY <1>3, <2>1 DEF Adds, Carries, Copies
  <2>5. <<"carried", w>> \notin Copies(s)'
    BY <2>3 DEF Carries, Copies
  <2>6. ASSUME NEW t \in Task
        PROVE  Copies(t)' \subseteq Copies(t) \cup (IF t = s THEN {<<"stream", n>>} ELSE {})
    <3> DEFINE S == IF t = s THEN {<<"stream", n>>} ELSE {}
    <3>1. \A m \in (Undelivered \cup pel)' :
               m.env.task = t => m \in Undelivered \cup pel \/ <<"stream", m.id>> \in S
      BY <2>1, <2>3 DEF Undelivered, JobTask
    <3>2. ~Carries(w)'
      BY <2>3 DEF Carries
    <3>3. \A v \in Worker : Carries(v)' /\ JobTask(v)' = t
               => (Carries(v) /\ JobTask(v) = t) \/ <<"carried", v>> \in S
      BY <3>2, CarriedByOne
    <3> QED BY <2>3, <3>1, <3>3, CopiesWithin
  <2> QED BY <2>4, <2>5, <2>6, SoleMoves
<1>4. CASE GivesBack(w) \/ Retries(w)
  <2>1. PICK s \in Task : s = JobTask(w)
    BY JobTaskType DEF TypeOK
  <2>2. PICK e \in Envelope : e = job[w].env
    BY EntryFields DEF TypeOK, ThreadTypeOK
  <2>3. /\ delayed' = delayed \cup {e} /\ pc'[w] \in {"read", "promote", "loop", "record"}
        /\ UNCHANGED <<pel, delivered, stream>>
    BY <1>0, <1>4, <2>2 DEF GivesBack, Retries, ZAdd
  <2>4. <<"carried", w>> \in Copies(s)
    BY <1>4, <2>1 DEF GivesBack, Retries, Carries, Copies
  <2>5. <<"carried", w>> \notin Copies(s)'
    BY <2>3 DEF Carries, Copies
  <2>6. ASSUME NEW t \in Task
        PROVE  Copies(t)' \subseteq Copies(t) \cup (IF t = s THEN {<<"delayed", e>>} ELSE {})
    <3> DEFINE S == IF t = s THEN {<<"delayed", e>>} ELSE {}
    <3>1. \A f \in delayed' : f.task = t => f \in delayed \/ <<"delayed", f>> \in S
      BY <2>1, <2>2, <2>3 DEF JobTask
    <3>2. ~Carries(w)'
      BY <2>3 DEF Carries
    <3>3. \A v \in Worker : Carries(v)' /\ JobTask(v)' = t
               => (Carries(v) /\ JobTask(v) = t) \/ <<"carried", v>> \in S
      BY <3>2, CarriedByOne
    <3>4. (Undelivered \cup pel)' = Undelivered \cup pel
      BY <2>3 DEF Undelivered
    <3> QED BY <3>1, <3>3, <3>4, CopiesWithin
  <2> QED BY <2>4, <2>5, <2>6, SoleMoves
<1>5. CASE Reads(w)
  <2>1. PICK m \in Undelivered : delivered' = m.id /\ pel' = pel \cup {m} /\ m.id > delivered
    BY <1>5 DEF Reads, Undelivered
  <2>2. (Undelivered \cup pel)' \subseteq Undelivered \cup pel
    <3>1. \A n \in stream : n.id \in Nat
      BY EntryFields DEF TypeOK, RedisTypeOK
    <3>2. m.id \in Nat /\ delivered \in Nat
      BY <3>1 DEF Undelivered, TypeOK, RedisTypeOK
    <3> QED BY <1>5, <2>1, <3>1, <3>2 DEF Reads, Undelivered
  <2>3. delayed' = delayed /\ ~Carries(w)'
    BY <1>0, <1>5 DEF Reads, Carries
  <2> QED BY <2>2, <2>3, QuietSole
<1>6. CASE Acks(w)
  <2>1. PICK s \in Task : s = JobTask(w)
    BY JobTaskType DEF TypeOK
  <2>2. /\ (Undelivered \cup pel)' \subseteq Undelivered \cup pel /\ delayed' = delayed
        /\ pc'[w] = "xdel" /\ Keeps(w)
    BY <1>0, <1>6 DEF Acks, Undelivered, Without
  <2>3. CASE fate[w] = "succeeded"
    BY <2>2, <2>3, QuietSole DEF Keeps, Carries
  <2>4. CASE fate[w] # "succeeded"
    <3>1. PICK old \in Copies(s) : old \notin Copies(s)'
      BY <1>6, <2>1, AckedCopy
    <3>2. ASSUME NEW t \in Task
          PROVE  Copies(t)' \subseteq Copies(t) \cup (IF t = s THEN {<<"carried", w>>} ELSE {})
      <4> DEFINE S == IF t = s THEN {<<"carried", w>>} ELSE {}
      <4>1. Carries(w)' /\ JobTask(w)' = t => <<"carried", w>> \in S
        BY <2>1, <2>2 DEF JobTask, Keeps
      <4>2. \A v \in Worker : Carries(v)' /\ JobTask(v)' = t
               => (Carries(v) /\ JobTask(v) = t) \/ <<"carried", v>> \in S
        BY <4>1, CarriedByOne
      <4> QED BY <2>2, <4>2, CopiesWithin
    <3> QED BY <3>1, <3>2, SoleMoves
  <2> QED BY <2>3, <2>4
<1> QED BY <1>1, <1>2, <1>3, <1>4, <1>5, <1>6 DEF Step

LEMMA StepHolders ==
    ASSUME TypeOK, TypeOK', IdsSound, OneHolder, HeldPending, StaleFree,
           NEW w \in Worker, InHand(w), Others(w), errors' = 0, Step(w)
    PROVE  OneHolder' /\ HeldPending' /\ StaleFree'
<1>0. ~Fault(1)
  BY NoFault
<1>1. /\ \A m \in pel : m.id \in Id /\ m.id <= delivered
      /\ stale \subseteq pel
  BY EntryFields DEF IdsSound, Id, TypeOK, RedisTypeOK
<1>2. ASSUME UNCHANGED <<pel, stale>>, \A i \in Id : Holds(w, i)' => Holds(w, i)
      PROVE  OneHolder' /\ HeldPending' /\ StaleFree'
  <2>1. \A m \in stale' : m \in stale /\ ~Holds(w, m.id)'
    BY <1>1, <1>2 DEF StaleFree, Free
  <2> QED BY <1>2, <2>1, HoldersKept
<1>3. CASE Takes(w) \/ Adds(w) \/ GivesBack(w)
  <2>1. UNCHANGED <<pel, stale>> /\ pc'[w] \in {"read", "promote", "readd", "giveback", "loop"}
    BY <1>3 DEF Takes, Adds, GivesBack
  <2>2. \A i \in Id : ~Holds(w, i)'
    BY <2>1 DEF Holds
  <2> QED BY <1>2, <2>1, <2>2
<1>4. CASE Passes(w) \/ Scans(w) \/ Handles(w)
  <2>1. \A i \in Id : Holds(w, i)' => Holds(w, i)
    BY <1>4 DEF Passes, Scans, Handles, Keeps, Holds, InHand
  <2> QED BY <1>2, <1>4, <2>1 DEF Passes, Scans, Handles, redis
<1>5. CASE Dels(w) \/ Retries(w) \/ Pushes(w) \/ Trims(w) \/ Records(w)
  <2>1. UNCHANGED <<pel, stale>>
    BY <1>5 DEF Dels, Retries, Pushes, Trims, Records
  <2>2. \/ Keeps(w) /\ pc'[w] \in {"zadd", "lpush", "record", "ltrim"}
        \/ Drops(w)
    <3>1. NextPlace[fate[w]] \in {"zadd", "lpush", "record"}
      BY DEF TypeOK, ThreadTypeOK, Fate, NextPlace
    <3> QED BY <1>0, <1>5, <3>1 DEF Dels, Retries, Pushes, Trims, Records
  <2>3. pc[w] \in {"xdel", "zadd", "lpush", "ltrim", "record"}
    BY <1>5 DEF Dels, Retries, Pushes, Trims, Records
  <2>4. \A i \in Id : Holds(w, i)' => Holds(w, i)
    <3>1. CASE Keeps(w) /\ pc'[w] \in {"zadd", "lpush", "record", "ltrim"}
      BY <2>3, <3>1 DEF Keeps, Holds
    <3>2. CASE Drops(w)
      BY <2>3, <3>2 DEF Drops, Without, Holds
    <3> QED BY <2>2, <3>1, <3>2
  <2> QED BY <1>2, <2>1, <2>4
<1>6. CASE Claims(w)
  <2>1. \A i \in Id : Holds(w, i)' => Holds(w, i)
    <3>1. job[w] = NoJob /\ NoJob.id = 0
      BY <1>6 DEF Claims, InHand, NoJob
    <3> QED BY <1>6, <3>1 DEF Claims, Holds, Id
  <2> QED BY <1>2, <1>6, <2>1 DEF Claims, redis
<1>7. CASE Reads(w)
  <2>1. PICK m \in Undelivered : /\ pel' = pel \cup {m} /\ job'[w] = m
                                 /\ pc'[w] \in {"xack", "mark"}
    BY <1>0, <1>7 DEF Reads
  <2>2. m.id \in Id /\ m.id > delivered
    BY EntryFields DEF Undelivered, Id, IdsSound, TypeOK, RedisTypeOK
  <2>3. Free(m.id)
    <3>1. ~\E n \in pel : n.id = m.id
      BY <1>1, <2>2 DEF Id, TypeOK, RedisTypeOK
    <3> QED BY <2>2, <3>1 DEF HeldPending
  <2>4. todo'[w] = {} /\ stale' = stale
    BY <1>7 DEF Reads, InHand
  <2>5. \A i \in Id : Holds(w, i)' => i = m.id
    BY <2>1, <2>4 DEF Holds
  <2>6. \A i \in Id : Holds(w, i)' => Holds(w, i) \/ (Free(i) /\ \E n \in pel' : n.id = i)
    BY <2>1, <2>3, <2>5
  <2>7. \A n \in stale' : n \in stale /\ ~Holds(w, n.id)'
    BY <1>1, <2>2, <2>4, <2>5 DEF Id, TypeOK, RedisTypeOK
  <2>8. \A n \in pel : n \in pel' \/ Free(n.id)'
    BY <2>1
  <2> QED BY <2>6, <2>7, <2>8, HoldersKept
<1>8. CASE Acks(w)
  <2>1. PICK i \in Id : i = job[w].id
    BY <1>8, EntryFields DEF Acks, InHand, Id, TypeOK, ThreadTypeOK
  <2>2. /\ pel' = Without(pel, i) /\ stale' = Without(stale, i)
        /\ pc'[w] = "xdel" /\ Keeps(w)
    BY <1>0, <1>8, <2>1 DEF Acks
  <2>3. Holds(w, i)
    BY <1>8, <2>1 DEF Acks, Holds
  <2>4. \A k \in Id : Holds(w, k)' => Holds(w, k) /\ k # i
    BY <1>8, <2>1, <2>2 DEF Acks, Keeps, Holds
  <2>5. Free(i)'
    <3>1. ASSUME NEW v \in Worker PROVE ~Holds(v, i)'
      <4>1. CASE v = w
        BY <2>4, <4>1
      <4>2. CASE v # w
        <5>1. ~Holds(v, i)
          BY <2>3, <4>2 DEF OneHolder
        <5> QED BY <4>2, <5>1 DEF Others, Holds
      <4> QED BY <4>1, <4>2
    <3> QED BY <3>1 DEF Free
  <2>6. \A n \in pel : n \in pel' \/ Free(n.id)'
    BY <2>2, <2>5 DEF Without
  <2>7. \A n \in stale' : n \in stale /\ ~Holds(w, n.id)'
    BY <1>1, <2>2, <2>4 DEF Without, StaleFree, Free
  <2> QED BY <2>4, <2>6, <2>7, HoldersKept
<1>9. CASE Reclaims(w)
  <2>1. /\ pc'[w] = "claim" /\ todo'[w] = stale /\ stale' = {} /\ pel' = pel
        /\ job'[w] = NoJob /\ NoJob.id = 0
    BY <1>0, <1>9 DEF Reclaims, InHand, NoJob
  <2>2. \A i \in Id : Holds(w, i)' => Holds(w, i) \/ (Free(i) /\ \E n \in pel' : n.id = i)
    BY <1>1, <2>1 DEF Holds, StaleFree, Id
  <2> QED BY <2>1, <2>2, HoldersKept
<1> QED BY <1>3, <1>4, <1>5, <1>6, <1>7, <1>8, <1>9 DEF Step

LEMMA SoleStarts ==
    ASSUME Sole, NEW s \in Task, Copies(s) = {}, NEW c,
           \A t \in Task : Copies(t)' \subseteq Copies(t) \cup (IF t = s THEN {c} ELSE {})
    PROVE  Sole' /\ \A t \in Task \ {s} : Copies(t) = {} => Copies(t)' = {}
<1>1. ASSUME NEW t \in Task, NEW x \in Copies(t)', NEW y \in Copies(t)' PROVE x = y
  <2>1. CASE t # s
    BY <1>1, <2>1 DEF Sole
  <2>2. CASE t = s
    BY <1>1, <2>2
  <2> QED BY <2>1, <2>2
<1> QED BY <1>1 DEF Sole

LEMMA EnqueueSole ==
    ASSUME TypeOK, KnownInv, Sole, NEW s \in Task, Enqueue(s)
    PROVE  Sole' /\ \A t \in Task \ {s} : Copies(t) = {} => Copies(t)' = {}
<1>1. Copies(s) = {}
  <2>1. ~Owed(s)
    BY DEF Enqueue, KnownInv, Safe
  <2> QED BY <2>1 DEF Owed, InStream, InDelayed, Carried, Copies
<1>2. PICK n \in Nat, e \in Envelope : n = nextId /\ e = NewEnvelope(s) /\ e.task = s
  BY NewEnvelopeType DEF TypeOK, RedisTypeOK, NewEnvelope
<1>3. /\ UNCHANGED <<delivered, pel, pc, job, fate>>
      /\ \/ stream' = stream \cup {[id |-> n, env |-> e]} /\ delayed' = delayed
         \/ stream' = stream /\ delayed' = delayed \cup {e}
         \/ stream' = stream /\ delayed' = delayed
  BY <1>2 DEF Enqueue, XAdd, ZAdd, threads
<1>4. ASSUME NEW c, \/ c = <<"stream", n>> /\ delayed' = delayed
                    \/ c = <<"delayed", e>> /\ stream' = stream,
             NEW t \in Task
      PROVE  Copies(t)' \subseteq Copies(t) \cup (IF t = s THEN {c} ELSE {})
  <2> DEFINE S == IF t = s THEN {c} ELSE {}
  <2>1. \A m \in (Undelivered \cup pel)' :
             m.env.task = t => m \in Undelivered \cup pel \/ <<"stream", m.id>> \in S
    BY <1>2, <1>3, <1>4 DEF Undelivered
  <2>2. \A f \in delayed' : f.task = t => f \in delayed \/ <<"delayed", f>> \in S
    BY <1>2, <1>3, <1>4
  <2>3. \A v \in Worker : Carries(v)' /\ JobTask(v)' = t
             => (Carries(v) /\ JobTask(v) = t) \/ <<"carried", v>> \in S
    BY <1>3 DEF Carries, JobTask
  <2> QED BY <2>1, <2>2, <2>3, CopiesWithin
<1>5. CASE delayed' = delayed
  <2>1. \A t \in Task :
           Copies(t)' \subseteq Copies(t) \cup (IF t = s THEN {<<"stream", n>>} ELSE {})
    BY <1>4, <1>5
  <2> QED BY <1>1, <2>1, SoleStarts
<1>6. CASE stream' = stream
  <2>1. \A t \in Task :
           Copies(t)' \subseteq Copies(t) \cup (IF t = s THEN {<<"delayed", e>>} ELSE {})
    BY <1>4, <1>6
  <2> QED BY <1>1, <2>1, SoleStarts
<1> QED BY <1>3, <1>5, <1>6

\* No step outside the threads but a submission makes a copy.
LEMMA EnvironmentCopies ==
    ASSUME ThreadTypeOK, NEW t \in Task,
           \/ UNCHANGED vars
           \/ \E s \in Task : RecordQueued(s)
           \/ \E e \in delayed : ComeDue(e)
           \/ \E m \in pel : BecomeStale(m)
           \/ \E p \in Process : Crash(p) \/ Stop(p)
           \/ \E w \in Worker : HandlerExits(w)
    PROVE  Copies(t)' \subseteq Copies(t)
<1>1. UNCHANGED <<stream, delivered, pel, delayed>>
  BY DEF vars, redis, RecordQueued, ComeDue, BecomeStale, Stop, Crash, HandlerExits
<1>2. (Undelivered \cup pel)' = Undelivered \cup pel
  BY <1>1 DEF Undelivered
<1>3. \A v \in Worker : Carries(v)' => Carries(v) /\ JobTask(v)' = JobTask(v)
  <2>1. CASE Dies
    <3>1. \A w \in Worker :
             \/ pc'[w] = pc[w] /\ job'[w] = job[w] /\ fate'[w] = fate[w]
             \/ pc'[w] \in {"halted", "loop"}
      BY <2>1, EndedThreads DEF Dies
    <3> QED BY <3>1 DEF Carries, JobTask
  <2>2. CASE ~Dies
    <3>1. UNCHANGED <<pc, job, fate>>
      BY <2>2 DEF Dies, vars, threads, RecordQueued, ComeDue, BecomeStale, Stop
    <3> QED BY <3>1 DEF Carries, JobTask
  <2> QED BY <2>1, <2>2
<1>4. Copies(t)' \subseteq Copies(t) \cup {}
  BY <1>1, <1>2, <1>3, CopiesWithin
<1> QED BY <1>4

\* Outside the threads: a crash takes entries out of hands, and without a slow handler only
\* what nobody holds becomes stale.
LEMMA EnvironmentSole ==
    ASSUME TypeOK, TypeOK', IdsSound, KnownInv, SoleInv, slow' = 0,
           \/ UNCHANGED vars
           \/ \E t \in Task : Enqueue(t) \/ RecordQueued(t)
           \/ \E e \in delayed : ComeDue(e)
           \/ \E m \in pel : BecomeStale(m)
           \/ \E p \in Process : Crash(p) \/ Stop(p)
           \/ \E w \in Worker : HandlerExits(w)
    PROVE  SoleInv'
<1>1. UNCHANGED pel /\ \A w \in Worker, i \in Id : Holds(w, i)' => Holds(w, i)
  <2>1. CASE Dies
    <3>1. \A w \in Worker :
             \/ pc'[w] = pc[w] /\ job'[w] = job[w] /\ todo'[w] = todo[w]
             \/ pc'[w] \in {"halted", "loop"}
      BY <2>1, EndedThreads DEF Dies, TypeOK
    <3>2. UNCHANGED pel
      BY <2>1 DEF Dies, Crash, HandlerExits, redis
    <3> QED BY <3>1, <3>2 DEF Holds
  <2>2. CASE ~Dies
    <3>1. UNCHANGED <<pel, pc, job, todo>>
      BY <2>2 DEF Dies, vars, redis, threads, Enqueue, RecordQueued, ComeDue, BecomeStale, Stop
    <3> QED BY <3>1 DEF Holds
  <2> QED BY <2>1, <2>2
<1>2. \A m \in pel : m.id \in Id
  BY EntryFields DEF IdsSound, Id, TypeOK, RedisTypeOK
<1>3. OneHolder' /\ HeldPending'
  BY <1>1 DEF SoleInv, OneHolder, HeldPending, Free
<1>4. StaleFree'
  <2>1. \A m \in stale' : m \in stale \/ (m \in pel /\ BecomeStale(m))
    BY DEF vars, redis, Enqueue, RecordQueued, ComeDue, BecomeStale, Stop, Crash, HandlerExits
  <2>2. ASSUME NEW m \in pel, BecomeStale(m) PROVE Free(m.id)
    <3>1. ~Held(m)
      BY <2>2 DEF BecomeStale, TypeOK, HistoryTypeOK
    <3> QED BY <3>1 DEF Held, Free, Holds
  <2>3. \A m \in stale' : Free(m.id) /\ m.id \in Id
    BY <1>2, <2>1, <2>2 DEF SoleInv, StaleFree, IdsSound
  <2> QED BY <1>1, <2>3 DEF StaleFree, Free
<1>5. Sole'
  <2>1. CASE \E t \in Task : Enqueue(t)
    BY <2>1, EnqueueSole DEF SoleInv
  <2>2. CASE ~\E t \in Task : Enqueue(t)
    BY <2>2, EnvironmentCopies, SoleShrinks DEF SoleInv, TypeOK
  <2> QED BY <2>1, <2>2
<1> QED BY <1>3, <1>4, <1>5 DEF SoleInv

LEMMA AtMostOne ==
    ASSUME NEW S, \A x, y \in S : x = y PROVE IsFiniteSet(S) /\ Cardinality(S) <= 1
<1>1. CASE S = {}
  BY <1>1, FS_EmptySet
<1>2. CASE S # {}
  <2>1. PICK x \in S : S = {x}
    BY <1>2
  <2>2. IsFiniteSet({x}) /\ Cardinality({x}) = 1
    BY FS_Singleton
  <2>3. IsFiniteSet(S) /\ Cardinality(S) = 1
    BY <2>1, <2>2
  <2> QED BY <2>3
<1> QED BY <1>1, <1>2

LEMMA SoleAlways == Spec => [](errors = 0 /\ slow = 0 => SoleInv)
<1> DEFINE Calm == errors = 0 /\ slow = 0
<1>1. Init => SoleInv
  <2> SUFFICES ASSUME Init PROVE SoleInv
    OBVIOUS
  <2>1. \A t \in Task : Copies(t) = {}
    BY DEF Init, Copies, Undelivered, Carries
  <2>2. \A w \in Worker, i \in Id : ~Holds(w, i)
    BY DEF Init, Holds
  <2> QED
    BY <2>1, <2>2 DEF Init, SoleInv, Sole, OneHolder, HeldPending, StaleFree, Free
<1>2. /\ TypeOK /\ TypeOK' /\ LossInv /\ KnownInv /\ HandsInv
      /\ (Calm => SoleInv) /\ [Next]_vars
      => (Calm => SoleInv)'
  <2> SUFFICES ASSUME TypeOK, TypeOK', LossInv, KnownInv, HandsInv, Calm => SoleInv,
                      [Next]_vars, errors' = 0, slow' = 0
               PROVE  SoleInv'
    OBVIOUS
  <2>1. ASSUME NEW w \in Worker, Reserve(w) \/ Handle(w) \/ Settle(w) \/ MaybeReclaim(w)
        PROVE  SoleInv'
    <3>1. Step(w) /\ Others(w) /\ slow' = slow
      BY <2>1, ThreadSteps
    <3>2. Fault(0) \/ Fault(1)
      BY <3>1 DEF Step, Passes, Scans, Takes, Adds, GivesBack, Reads, Handles, Acks, Dels,
         Retries, Pushes, Trims, Records, Reclaims, Claims
    <3>3. errors = 0
      BY <3>2 DEF Fault, TypeOK, HistoryTypeOK
    <3>4. SoleInv
      BY <3>1, <3>3
    <3>5. Sole'
      BY <3>1, <3>4, StepSole DEF SoleInv, LossInv, HandsInv
    <3>6. OneHolder' /\ HeldPending' /\ StaleFree'
      BY <3>1, <3>4, StepHolders DEF SoleInv, LossInv, HandsInv
    <3> QED BY <3>5, <3>6 DEF SoleInv
  <2>2. ASSUME \/ UNCHANGED vars
               \/ \E t \in Task : Enqueue(t) \/ RecordQueued(t)
               \/ \E e \in delayed : ComeDue(e)
               \/ \E m \in pel : BecomeStale(m)
               \/ \E p \in Process : Crash(p) \/ Stop(p)
               \/ \E w \in Worker : HandlerExits(w)
        PROVE  SoleInv'
    <3>1. errors = 0
      <4>1. ASSUME NEW r \in Reply, Answer(r) PROVE errors = 0
        BY <4>1 DEF Answer, TypeOK, HistoryTypeOK
      <4> QED
        BY <2>2, <4>1
        DEF vars, bounds, Enqueue, RecordQueued, ComeDue, BecomeStale, Crash, Stop, HandlerExits
    <3>2. slow = 0
      BY <2>2
      DEF vars, bounds, Enqueue, RecordQueued, ComeDue, BecomeStale, Crash, Stop, HandlerExits,
          TypeOK, HistoryTypeOK
    <3> QED BY <2>2, <3>1, <3>2, EnvironmentSole DEF LossInv
  <2> QED BY <2>1, <2>2 DEF Next
<1> QED BY <1>1, <1>2, LossAlways, KnownAlways, HandsAlways, PTL DEF Spec

\* "A task is taken by one worker only": until a command fails or a handler outlives the
\* visibility timeout, through any number of crashes and takeovers, a task has one copy and
\* one thread runs its handler.
THEOREM OneWorkerEach == Spec => [](errors = 0 /\ slow = 0 => SoleCopy)
<1>1. TypeOK /\ LossInv /\ HandsInv /\ SoleInv => SoleCopy
  <2> SUFFICES ASSUME TypeOK, LossInv, HandsInv, SoleInv, NEW t \in Task
               PROVE  /\ Cardinality(Copies(t)) <= 1
                      /\ Cardinality({w \in Worker : pc[w] = "run" /\ JobTask(w) = t}) <= 1
    BY DEF SoleCopy
  <2>1. Cardinality(Copies(t)) <= 1
    BY AtMostOne DEF SoleInv, Sole
  <2>2. ASSUME NEW v \in Worker, NEW w \in Worker, pc[v] = "run", pc[w] = "run",
               JobTask(v) = t, JobTask(w) = t
        PROVE  v = w
    <3>1. PICK i \in Id, k \in Id : i = job[v].id /\ k = job[w].id
      BY <2>2, EntryFields DEF HandsInv, InHand, Id, TypeOK, ThreadTypeOK
    <3>2. Holds(v, i) /\ Holds(w, k)
      BY <2>2, <3>1 DEF Holds
    <3>3. PICK m \in pel, n \in pel : m.id = i /\ n.id = k
      BY <3>2 DEF SoleInv, HeldPending, Free
    <3>4. m.env.task = t /\ n.env.task = t
      <4>1. m \in Cited /\ n \in Cited /\ job[v] \in Cited /\ job[w] \in Cited
        BY DEF Cited
      <4> QED BY <2>2, <3>1, <3>3, <4>1 DEF LossInv, IdsSound, Id, JobTask
    <3>5. <<"stream", i>> \in Copies(t) /\ <<"stream", k>> \in Copies(t)
      BY <3>3, <3>4 DEF Copies
    <3>6. i = k
      BY <3>5 DEF SoleInv, Sole
    <3> QED BY <3>2, <3>6 DEF SoleInv, OneHolder
  <2>3. Cardinality({w \in Worker : pc[w] = "run" /\ JobTask(w) = t}) <= 1
    BY <2>2, AtMostOne
  <2> QED BY <2>1, <2>3
<1> QED BY <1>1, LossAlways, HandsAlways, SoleAlways, PTL

LEMMA CalmAlways ==
    ASSUME MaxErrors = 0, MaxSlow = 0 PROVE Spec => [](errors = 0 /\ slow = 0)
<1> DEFINE Calm == errors = 0 /\ slow = 0
<1>1. Init => Calm
  BY DEF Init
<1>2. Calm /\ [Next]_vars => Calm'
  <2> SUFFICES ASSUME Calm, [Next]_vars PROVE Calm'
    OBVIOUS
  <2>1. errors' = errors
    <3>1. \A r \in Reply : Answer(r) => errors' = errors
      BY DEF Answer
    <3>2. Answer("refused") => errors' = errors
      BY DEF Answer
    <3>3. \A w \in Worker :
             Reserve(w) \/ Handle(w) \/ Settle(w) \/ MaybeReclaim(w) => errors' = errors
      BY <3>1, <3>2
      DEF Reply, Reserve, Halt, SkipPromote, PromoteScan, PromoteTake, PromoteAdd, PromoteBack,
          Read, ReadNothing, ReadFails, MarkRunning, Handle, HandlerReturns, HandlerRaises,
          NoHandler, Resolve, Settle, XAck, XDel, ZAddRetry, LPush, LTrim, RecordFate,
          MaybeReclaim, SkipReclaim, Reclaim, Claim, bounds
    <3> QED
      BY <3>1, <3>3
      DEF Next, vars, bounds, Enqueue, RecordQueued, ComeDue, BecomeStale, Crash, Stop,
          HandlerExits
  <2>2. slow' = slow
    <3>1. \A w \in Worker :
             Reserve(w) \/ Handle(w) \/ Settle(w) \/ MaybeReclaim(w) => slow' = slow
      BY DEF Reserve, Halt, SkipPromote, PromoteScan, PromoteTake, PromoteAdd, PromoteBack,
          Read, ReadNothing, ReadFails, MarkRunning, Handle, HandlerReturns, HandlerRaises,
          NoHandler, Resolve, Settle, XAck, XDel, ZAddRetry, LPush, LTrim, RecordFate,
          MaybeReclaim, SkipReclaim, Reclaim, Claim, bounds
    <3> QED
      BY <3>1
      DEF Next, vars, bounds, Enqueue, RecordQueued, ComeDue, BecomeStale, Crash, Stop,
          HandlerExits
  <2> QED BY <2>1, <2>2
<1> QED BY <1>1, <1>2, PTL DEF Spec

\* The same for the queue whose commands all succeed and whose handlers are all in time.
THEOREM OneWorkerWithoutFaults ==
    ASSUME MaxErrors = 0, MaxSlow = 0 PROVE Spec => []SoleCopy
BY CalmAlways, OneWorkerEach, PTL

-----------------------------------------------------------------------------
(* The end of a task.  A task that ended, and one a thread is about to record as ended,  *)
(* has no copy left that could be read again.                                            *)

LEMMA BuriersAlways == Spec => []BuriersSound
<1>1. Init => BuriersSound
  BY DEF Init, BuriersSound
<1>2. TypeOK /\ BuriersSound /\ [Next]_vars => BuriersSound'
  <2> SUFFICES ASSUME TypeOK, BuriersSound, [Next]_vars PROVE BuriersSound'
    OBVIOUS
  <2>1. ASSUME NEW w \in Worker, Reserve(w) \/ Handle(w) \/ Settle(w) \/ MaybeReclaim(w)
        PROVE  BuriersSound'
    BY <2>1, ThreadSteps, BuriersKept
  <2>2. CASE Dies
    <3>1. \A w \in Worker : \/ pc'[w] = pc[w] /\ job'[w] = job[w] /\ fate'[w] = fate[w]
                            \/ pc'[w] \in {"halted", "loop"}
      BY <2>2, EndedThreads DEF Dies, TypeOK
    <3> QED BY <3>1 DEF BuriersSound
  <2>3. CASE \/ UNCHANGED vars \/ \E t \in Task : Enqueue(t) \/ RecordQueued(t)
             \/ \E e \in delayed : ComeDue(e)
             \/ \E m \in pel : BecomeStale(m)
             \/ \E p \in Process : Stop(p)
    <3>1. UNCHANGED <<pc, job, fate>>
      BY <2>3 DEF vars, threads, Enqueue, RecordQueued, ComeDue, BecomeStale, Stop
    <3> QED BY <3>1 DEF BuriersSound
  <2> QED BY <2>1, <2>2, <2>3 DEF Next, Dies
<1> QED BY <1>1, <1>2, TypeCorrect, PTL DEF Spec

\* What a task has instead of a copy at its end: a thread that is about to record it, and
\* then the record.
Finishing(w) ==
    \/ pc[w] = "xdel" /\ fate[w] = "succeeded"
    \/ pc[w] \in {"ltrim", "record"} /\ fate[w] # "retrying"
Ending(t) ==
    {<<"finishing", w>> : w \in {v \in Worker : Finishing(v) /\ JobTask(v) = t}}
    \cup {<<"ended", s>> : s \in {status[t]} \cap {"succeeded", "dead"}}

EndInv ==
    \A t \in Task :
        /\ \A c, d \in Ending(t) : c = d
        /\ Ending(t) # {} => Copies(t) = {} /\ t \in done \cup buried \cup torn

LEMMA EndingWithin ==
    ASSUME NEW t, NEW S,
           \A w \in Worker : Finishing(w)' /\ JobTask(w)' = t
               => (Finishing(w) /\ JobTask(w) = t) \/ <<"finishing", w>> \in S,
           status'[t] \in {"succeeded", "dead"}
               => status'[t] = status[t] \/ <<"ended", status'[t]>> \in S
    PROVE  Ending(t)' \subseteq Ending(t) \cup S
BY DEF Ending

LEMMA EndShrinks ==
    ASSUME EndInv, \A t \in Task : Ending(t)' \subseteq Ending(t), NoneFromNothing,
           done \subseteq done', buried \subseteq buried', torn \subseteq torn'
    PROVE  EndInv'
BY DEF EndInv, NoneFromNothing

\* The step brings s to its end, or on from one step of it to the next.
LEMMA EndMoves ==
    ASSUME EndInv, NEW s \in Task, Copies(s)' = {}, s \in (done \cup buried \cup torn)', NEW c,
           Ending(s)' \subseteq {c},
           \A t \in Task \ {s} : Ending(t)' \subseteq Ending(t), NoneFromNothing,
           done \subseteq done', buried \subseteq buried', torn \subseteq torn'
    PROVE  EndInv'
<1> SUFFICES ASSUME NEW t \in Task
             PROVE  /\ \A x, y \in Ending(t)' : x = y
                    /\ Ending(t)' # {} => Copies(t)' = {} /\ t \in (done \cup buried \cup torn)'
  BY DEF EndInv
<1>1. CASE t = s
  BY <1>1
<1>2. CASE t # s
  BY <1>2 DEF EndInv, NoneFromNothing
<1> QED BY <1>1, <1>2

LEMMA FinishingByOne ==
    ASSUME NEW w \in Worker, Others(w), NEW t, NEW S,
           Finishing(w)' /\ JobTask(w)' = t
               => (Finishing(w) /\ JobTask(w) = t) \/ <<"finishing", w>> \in S
    PROVE  \A v \in Worker : Finishing(v)' /\ JobTask(v)' = t
               => (Finishing(v) /\ JobTask(v) = t) \/ <<"finishing", v>> \in S
BY DEF Others, Finishing, JobTask

LEMMA HistoryGrows ==
    ASSUME NEW w \in Worker, Step(w)
    PROVE  done \subseteq done' /\ buried \subseteq buried' /\ torn \subseteq torn'
BY DEF Step, Passes, Scans, Takes, Adds, GivesBack, Reads, Handles, Acks, Dels, Retries, Pushes,
   Trims, Records, Reclaims, Claims, Tears, history

LEMMA StepEnds ==
    ASSUME TypeOK, TypeOK', IdsSound, ThreadSound, BuriersSound, Sole, HeldPending, EndInv,
           NEW w \in Worker, InHand(w), Others(w), errors' = 0, Step(w)
    PROVE  EndInv'
<1>0. ~Fault(1)
  BY NoFault
<1>1. NoneFromNothing
  BY StepSole
<1>2. done \subseteq done' /\ buried \subseteq buried' /\ torn \subseteq torn'
  BY HistoryGrows
<1>3. PICK s \in Task : s = JobTask(w)
  BY JobTaskType DEF TypeOK
<1>4. ASSUME Finishing(w)' => Finishing(w) /\ JobTask(w)' = s,
             \A t \in Task : status'[t] \in {"succeeded", "dead"} => status'[t] = status[t]
      PROVE  EndInv'
  <2>1. ASSUME NEW t \in Task PROVE Ending(t)' \subseteq Ending(t)
    <3>1. \A v \in Worker : Finishing(v)' /\ JobTask(v)' = t
             => (Finishing(v) /\ JobTask(v) = t) \/ <<"finishing", v>> \in {}
      BY <1>3, <1>4 DEF Others, Finishing, JobTask
    <3>2. Ending(t)' \subseteq Ending(t) \cup {}
      BY <1>4, <3>1, EndingWithin
    <3> QED BY <3>2
  <2> QED BY <1>1, <1>2, <2>1, EndShrinks
<1>5. CASE Passes(w)
  <2>1. ~Finishing(w)'
    BY <1>5 DEF Passes, Finishing
  <2>2. \A t \in Task : status'[t] \in {"succeeded", "dead"} => status'[t] = status[t]
    BY <1>5 DEF Passes, TypeOK, RedisTypeOK
  <2> QED BY <1>4, <2>1, <2>2
<1>6. CASE Scans(w) \/ Takes(w) \/ Adds(w) \/ GivesBack(w) \/ Reads(w) \/ Handles(w)
           \/ Retries(w) \/ Reclaims(w) \/ Claims(w)
  <2>1. status' = status
    BY <1>6 DEF Scans, Takes, Adds, GivesBack, Reads, Handles, Retries, Reclaims, Claims, redis
  <2>2. ~Finishing(w)'
    <3>1. CASE Retries(w)
      <4>1. fate[w] = "retrying"
        BY <3>1 DEF Retries, BuriersSound
      <4> QED BY <1>0, <3>1, <4>1 DEF Retries, Keeps, Finishing
    <3>2. CASE ~Retries(w)
      BY <1>6, <3>2 DEF Scans, Takes, Adds, GivesBack, Reads, Handles, Reclaims, Claims,
         Finishing
    <3> QED BY <3>1, <3>2
  <2> QED BY <1>4, <2>1, <2>2
<1>7. CASE Dels(w) \/ Trims(w)
  <2>1. status' = status
    BY <1>7 DEF Dels, Trims
  <2>2. Finishing(w)' => Finishing(w) /\ JobTask(w)' = s
    <3>1. CASE Dels(w)
      <4>1. fate[w] \in Fate
        BY DEF TypeOK, ThreadTypeOK
      <4> QED
        BY <1>0, <1>3, <3>1, <4>1 DEF Dels, Keeps, NextPlace, Fate, Finishing, JobTask
    <3>2. CASE Trims(w)
      BY <1>0, <1>3, <3>2 DEF Trims, Keeps, Drops, Finishing, JobTask
    <3> QED BY <1>7, <3>1, <3>2
  <2> QED BY <1>4, <2>1, <2>2
\* The last copy becomes the end: XACK of a success, LPUSH of a dead letter.
<1>8. ASSUME \E old \in Copies(s) : old \notin Copies(s)', Copies(s)' \subseteq Copies(s),
             s \in (done \cup buried \cup torn)', JobTask(w)' = s, status' = status
      PROVE  EndInv'
  <2>1. Copies(s)' = {} /\ Ending(s) = {}
    BY <1>8 DEF Sole, EndInv
  <2>2. ASSUME NEW t \in Task
        PROVE  Ending(t)' \subseteq Ending(t) \cup (IF t = s THEN {<<"finishing", w>>} ELSE {})
    <3> DEFINE S == IF t = s THEN {<<"finishing", w>>} ELSE {}
    <3>1. \A v \in Worker : Finishing(v)' /\ JobTask(v)' = t
             => (Finishing(v) /\ JobTask(v) = t) \/ <<"finishing", v>> \in S
      BY <1>8, FinishingByOne
    <3> QED BY <1>8, <3>1, EndingWithin
  <2>3. Ending(s)' \subseteq {<<"finishing", w>>}
    BY <2>1, <2>2
  <2>4. \A t \in Task \ {s} : Ending(t)' \subseteq Ending(t)
    BY <2>2
  <2> QED BY <1>1, <1>2, <1>8, <2>1, <2>3, <2>4, EndMoves
<1>9. CASE Acks(w)
  <2>1. pc[w] = "xack" /\ pc'[w] = "xdel" /\ Keeps(w) /\ status' = status
    BY <1>0, <1>9 DEF Acks
  <2>2. CASE fate[w] # "succeeded"
    BY <1>4, <2>1, <2>2 DEF Keeps, Finishing
  <2>3. CASE fate[w] = "succeeded"
    <3>1. \E old \in Copies(s) : old \notin Copies(s)'
      BY <1>3, <1>9, AckedCopy
    <3>2. Copies(s)' \subseteq Copies(s)
      <4>1. (Undelivered \cup pel)' \subseteq Undelivered \cup pel /\ delayed' = delayed
        BY <1>0, <1>9 DEF Acks, Undelivered, Without
      <4>2. ~Carries(w)'
        BY <2>1, <2>3 DEF Keeps, Carries
      <4>3. \A v \in Worker : Carries(v)' => Carries(v) /\ JobTask(v)' = JobTask(v)
        BY <4>2 DEF Others, Carries, JobTask
      <4>4. Copies(s)' \subseteq Copies(s) \cup {}
        BY <4>1, <4>3, CopiesWithin
      <4> QED BY <4>4
    <3>3. s \in done
      BY <1>3, <2>1, <2>3 DEF ThreadSound
    <3>4. JobTask(w)' = s
      BY <1>3, <2>1 DEF Keeps, JobTask
    <3> QED BY <1>2, <1>8, <2>1, <3>1, <3>2, <3>3, <3>4
  <2> QED BY <2>2, <2>3
<1>10. CASE Pushes(w)
  <2>1. /\ pc[w] = "lpush" /\ pc'[w] = "ltrim" /\ Keeps(w) /\ s \in buried'
        /\ UNCHANGED <<stream, pel, delivered, delayed, status>>
    BY <1>0, <1>3, <1>10 DEF Pushes
  <2>2. <<"carried", w>> \in Copies(s) /\ <<"carried", w>> \notin Copies(s)'
    BY <1>3, <2>1 DEF Carries, Copies
  <2>3. Copies(s)' \subseteq Copies(s)
    <3>1. (Undelivered \cup pel)' \subseteq Undelivered \cup pel /\ delayed' = delayed
      BY <2>1 DEF Undelivered
    <3>2. \A v \in Worker : Carries(v)' => Carries(v) /\ JobTask(v)' = JobTask(v)
      BY <2>1 DEF Others, Carries, JobTask
    <3>3. Copies(s)' \subseteq Copies(s) \cup {}
      BY <3>1, <3>2, CopiesWithin
    <3> QED BY <3>3
  <2>4. JobTask(w)' = s
    BY <1>3, <2>1 DEF Keeps, JobTask
  <2> QED BY <1>8, <2>1, <2>2, <2>3, <2>4
<1>11. CASE Records(w)
  <2>1. /\ pc[w] = "record" /\ ~Finishing(w)' /\ Drops(w)
        /\ UNCHANGED <<stream, pel, delivered, delayed>>
        /\ status' = status \/ status' = [status EXCEPT ![s] = fate[w]]
    BY <1>3, <1>11 DEF Records, Drops, Finishing
  <2>2. CASE status' = status \/ fate[w] = "retrying"
    <3>1. \A t \in Task : status'[t] \in {"succeeded", "dead"} => status'[t] = status[t]
      BY <2>1, <2>2 DEF TypeOK, RedisTypeOK
    <3> QED BY <1>4, <2>1, <3>1
  <2>3. CASE status' = [status EXCEPT ![s] = fate[w]] /\ fate[w] # "retrying"
    <3>1. <<"finishing", w>> \in Ending(s)
      BY <1>3, <2>1, <2>3 DEF Ending, Finishing
    <3>2. Ending(s) = {<<"finishing", w>>} /\ Copies(s) = {} /\ s \in done \cup buried \cup torn
      BY <3>1 DEF EndInv
    <3>3. <<"finishing", w>> \notin Ending(s)'
      BY <2>1 DEF Ending
    <3>4. ASSUME NEW t \in Task
          PROVE  Ending(t)' \subseteq Ending(t) \cup (IF t = s THEN {<<"ended", fate[w]>>} ELSE {})
      <4> DEFINE S == IF t = s THEN {<<"ended", fate[w]>>} ELSE {}
      <4>1. \A v \in Worker : Finishing(v)' /\ JobTask(v)' = t
               => (Finishing(v) /\ JobTask(v) = t) \/ <<"finishing", v>> \in S
        BY <2>1, FinishingByOne
      <4>2. status'[t] \in {"succeeded", "dead"}
               => status'[t] = status[t] \/ <<"ended", status'[t]>> \in S
        BY <2>3 DEF TypeOK, RedisTypeOK
      <4> QED BY <4>1, <4>2, EndingWithin
    <3>5. Ending(s)' \subseteq {<<"ended", fate[w]>>}
      BY <3>2, <3>3, <3>4
    <3>6. Copies(s)' = {}
      BY <1>1, <3>2 DEF NoneFromNothing
    <3>7. \A t \in Task \ {s} : Ending(t)' \subseteq Ending(t)
      BY <3>4
    <3>8. s \in (done \cup buried \cup torn)'
      BY <1>2, <3>2
    <3> QED BY <1>1, <1>2, <3>5, <3>6, <3>7, <3>8, EndMoves
  <2> QED BY <2>1, <2>2, <2>3
<1> QED BY <1>5, <1>6, <1>7, <1>9, <1>10, <1>11 DEF Step

LEMMA EnvironmentEnds ==
    ASSUME TypeOK, KnownInv, Sole, EndInv,
           \/ UNCHANGED vars
           \/ \E t \in Task : Enqueue(t) \/ RecordQueued(t)
           \/ \E e \in delayed : ComeDue(e)
           \/ \E m \in pel : BecomeStale(m)
           \/ \E p \in Process : Crash(p) \/ Stop(p)
           \/ \E w \in Worker : HandlerExits(w)
    PROVE  EndInv'
<1>1. done \subseteq done' /\ buried \subseteq buried' /\ torn \subseteq torn'
  BY DEF vars, history, Enqueue, RecordQueued, ComeDue, BecomeStale, Crash, Stop, HandlerExits
<1>2. ASSUME NEW t \in Task PROVE Ending(t)' \subseteq Ending(t)
  <2>1. \A w \in Worker : Finishing(w)' => Finishing(w) /\ JobTask(w)' = JobTask(w)
    <3>1. CASE Dies
      <4>1. \A w \in Worker :
               \/ pc'[w] = pc[w] /\ job'[w] = job[w] /\ fate'[w] = fate[w]
               \/ pc'[w] \in {"halted", "loop"}
        BY <3>1, EndedThreads DEF Dies, TypeOK
      <4> QED BY <4>1 DEF Finishing, JobTask
    <3>2. CASE ~Dies
      <4>1. UNCHANGED <<pc, job, fate>>
        BY <3>2 DEF Dies, vars, threads, Enqueue, RecordQueued, ComeDue, BecomeStale, Stop
      <4> QED BY <4>1 DEF Finishing, JobTask
    <3> QED BY <3>1, <3>2
  <2>2. status'[t] \in {"succeeded", "dead"} => status'[t] = status[t]
    <3>1. CASE \E s \in Task : RecordQueued(s)
      BY <3>1 DEF RecordQueued, TypeOK, RedisTypeOK
    <3>2. CASE ~\E s \in Task : RecordQueued(s)
      BY <3>2 DEF vars, redis, Enqueue, ComeDue, BecomeStale, Crash, Stop, HandlerExits
    <3> QED BY <3>1, <3>2
  <2>3. \A w \in Worker : Finishing(w)' /\ JobTask(w)' = t
           => (Finishing(w) /\ JobTask(w) = t) \/ <<"finishing", w>> \in {}
    BY <2>1
  <2>4. Ending(t)' \subseteq Ending(t) \cup {}
    BY <2>2, <2>3, EndingWithin
  <2> QED BY <2>4
<1>3. CASE \E s \in Task : Enqueue(s)
  <2>1. PICK s \in Task : Enqueue(s)
    BY <1>3
  <2>2. \A t \in Task \ {s} : Copies(t) = {} => Copies(t)' = {}
    BY <2>1, EnqueueSole
  <2>3. Ending(s) = {}
    BY <2>1 DEF Enqueue, KnownInv, Safe, EndInv
  <2> QED BY <1>1, <1>2, <2>2, <2>3 DEF EndInv
<1>4. CASE ~\E s \in Task : Enqueue(s)
  <2>1. NoneFromNothing
    BY <1>4, EnvironmentCopies DEF NoneFromNothing, TypeOK
  <2> QED BY <1>1, <1>2, <2>1, EndShrinks
<1> QED BY <1>3, <1>4

LEMMA EndAlways == ASSUME MaxErrors = 0, MaxSlow = 0 PROVE Spec => []EndInv
<1> DEFINE Calm == errors = 0 /\ slow = 0
<1>1. Init => EndInv
  BY DEF Init, EndInv, Ending, Finishing
<1>2. /\ TypeOK /\ TypeOK' /\ LossInv /\ KnownInv /\ HandsInv /\ BuriersSound
      /\ Calm /\ Calm' /\ (Calm => SoleInv) /\ EndInv /\ [Next]_vars
      => EndInv'
  <2> SUFFICES ASSUME TypeOK, TypeOK', LossInv, KnownInv, HandsInv, BuriersSound, SoleInv,
                      errors' = 0, EndInv, [Next]_vars
               PROVE  EndInv'
    OBVIOUS
  <2>1. ASSUME NEW w \in Worker, Reserve(w) \/ Handle(w) \/ Settle(w) \/ MaybeReclaim(w)
        PROVE  EndInv'
    <3>1. Step(w) /\ Others(w)
      BY <2>1, ThreadSteps
    <3> QED BY <3>1, StepEnds DEF LossInv, HandsInv, SoleInv
  <2> QED BY <2>1, EnvironmentEnds DEF Next, SoleInv
<1> QED
  BY <1>1, <1>2, CalmAlways, SoleAlways, LossAlways, KnownAlways, HandsAlways, BuriersAlways,
     PTL DEF Spec

\* The end of a task is final but for the two late writes of enqueue and retry: as long as
\* commands succeed and handlers are in time, no worker, whatever it took over and however
\* many have died, reports an ended task as running or as ended otherwise.
THEOREM EndIsFinal == ASSUME MaxErrors = 0, MaxSlow = 0 PROVE Spec => OnlyLateWritesReopen
<1> DEFINE Calm == errors = 0 /\ slow = 0
<1>1. ASSUME TypeOK, LossInv, HandsInv, SoleInv, EndInv, Next, NEW t \in Task,
             status[t] \in {"succeeded", "dead"}, status'[t] # status[t]
      PROVE  LateWrite(t)
  <2>1. <<"ended", status[t]>> \in Ending(t) /\ Copies(t) = {}
    <3>1. status[t] \in {status[t]} \cap {"succeeded", "dead"}
      BY <1>1
    <3>2. <<"ended", status[t]>> \in Ending(t)
      BY <3>1, Zenon DEF Ending
    <3>3. Ending(t) # {} => Copies(t) = {}
      BY <1>1 DEF EndInv
    <3> QED BY <3>2, <3>3
  <2>2. ASSUME NEW w \in Worker, Reserve(w) \/ Handle(w) \/ Settle(w) \/ MaybeReclaim(w)
        PROVE  LateWrite(t)
    <3>1. PICK s \in Task : s = JobTask(w)
      BY <1>1, JobTaskType DEF TypeOK
    <3>2. \/ pc[w] = "mark" /\ status' = [status EXCEPT ![s] = "running"]
          \/ pc[w] = "record" /\ status' = [status EXCEPT ![s] = fate[w]]
      <4>1. Step(w) /\ status' # status
        BY <1>1, <2>2, ThreadSteps
      <4> QED
        BY <3>1, <4>1 DEF Step, Passes, Scans, Takes, Adds, GivesBack, Reads, Handles, Acks,
           Dels, Retries, Pushes, Trims, Records, Reclaims, Claims, redis
    <3>3. t = s
      BY <1>1, <3>2 DEF TypeOK, RedisTypeOK
    <3>4. pc[w] # "mark"
      <4> SUFFICES ASSUME pc[w] = "mark" PROVE FALSE
        OBVIOUS
      <4>1. PICK i \in Id : i = job[w].id
        BY <1>1, EntryFields DEF HandsInv, InHand, Id, TypeOK, ThreadTypeOK
      <4>2. PICK m \in pel : m.id = i
        <5>1. Holds(w, i)
          BY <4>1 DEF Holds
        <5> QED BY <1>1, <5>1 DEF SoleInv, HeldPending, Free
      <4>3. m.env.task = t
        <5>1. m \in Cited /\ job[w] \in Cited
          BY DEF Cited
        <5> QED BY <1>1, <3>1, <3>3, <4>1, <4>2, <5>1 DEF LossInv, IdsSound, Id, JobTask
      <4>4. <<"stream", m.id>> \in Copies(t)
        BY <4>3 DEF Copies
      <4> QED BY <2>1, <4>4
    <3>5. CASE fate[w] = "retrying"
      BY <3>1, <3>2, <3>3, <3>4, <3>5 DEF LateWrite
    <3>6. CASE fate[w] # "retrying"
      <4>1. <<"finishing", w>> \in Ending(t)
        BY <3>1, <3>2, <3>3, <3>4, <3>6 DEF Ending, Finishing
      <4>2. <<"finishing", w>> = <<"ended", status[t]>>
        BY <1>1, <2>1, <4>1 DEF EndInv
      <4> QED BY <4>2
    <3> QED BY <3>5, <3>6
  <2>3. ASSUME NEW s \in Task, RecordQueued(s) PROVE LateWrite(t)
    BY <1>1, <2>3 DEF RecordQueued, LateWrite, TypeOK, RedisTypeOK
  <2>4. CASE \/ \E s \in Task : Enqueue(s)
             \/ \E e \in delayed : ComeDue(e)
             \/ \E m \in pel : BecomeStale(m)
             \/ \E p \in Process : Crash(p) \/ Stop(p)
             \/ \E w \in Worker : HandlerExits(w)
    BY <1>1, <2>4 DEF Enqueue, ComeDue, BecomeStale, Crash, Stop, HandlerExits, redis
  <2> QED BY <1>1, <2>2, <2>3, <2>4 DEF Next
<1>2. TypeOK /\ LossInv /\ HandsInv /\ Calm /\ (Calm => SoleInv) /\ EndInv /\ [Next]_vars
      => [\A t \in Task :
            status[t] \in {"succeeded", "dead"} /\ status'[t] # status[t] => LateWrite(t)]_vars
  BY <1>1
<1> QED
  BY <1>2, TypeCorrect, CalmAlways, SoleAlways, LossAlways, HandsAlways, EndAlways, PTL
  DEF Spec, OnlyLateWritesReopen
-----------------------------------------------------------------------------
(* What stays in the stream.  An entry that was confirmed is being deleted, or its       *)
(* thread never got to the XDEL; what is pending was not deleted by anybody.             *)

EntriesSound ==
    /\ IsFiniteSet(stream) /\ pel \subseteq stream
    /\ \A m, n \in stream : m.id = n.id => m = n
    /\ \A w \in Worker : pc[w] = "xdel" => \A m \in pel : m.id # job[w].id
OrphansBounded ==
    IsFiniteSet(Orphans) /\ Cardinality(Orphans) <= crashes * Cardinality(Slot) + errors

LEMMA StepEntries ==
    ASSUME TypeOK, IdsSound, EntriesSound, NEW w \in Worker, InHand(w), Others(w), Step(w)
    PROVE  EntriesSound'
<1>1. CASE Adds(w)
  <2>1. stream' = stream \/ XAdd(job[w].env)
    BY <1>1 DEF Adds
  <2>2. IsFiniteSet(stream')
    <3>1. PICK m : stream' = stream \/ stream' = stream \cup {m}
      BY <2>1 DEF XAdd
    <3>2. IsFiniteSet(stream) /\ IsFiniteSet(stream \cup {m})
      BY FS_AddElement DEF EntriesSound
    <3> QED BY <3>1, <3>2
  <2>3. \A m, n \in stream' : m.id = n.id => m = n
    BY <2>1, EntryFields DEF EntriesSound, IdsSound, XAdd, TypeOK, RedisTypeOK
  <2>4. pel' = pel /\ pc'[w] # "xdel" /\ stream \subseteq stream'
    BY <1>1, <2>1 DEF Adds, XAdd
  <2> QED BY <2>2, <2>3, <2>4 DEF EntriesSound, Others
<1>2. CASE Reads(w)
  <2>1. PICK m \in Undelivered : pel' = pel \cup {m} /\ pc'[w] # "xdel" /\ stream' = stream
    BY <1>2 DEF Reads
  <2>2. \A v \in Worker : job[v].id <= delivered
    BY DEF IdsSound
  <2>3. \A v \in Worker : m.id # job[v].id
    BY <2>2, EntryFields DEF Undelivered, TypeOK, RedisTypeOK, ThreadTypeOK
  <2>4. m \in stream
    BY DEF Undelivered
  <2> QED BY <2>1, <2>3, <2>4 DEF EntriesSound, Others
<1>3. CASE Acks(w)
  <2>1. /\ stream' = stream /\ pel' \subseteq pel
        /\ pc'[w] = "xdel" => job'[w] = job[w] /\ pel' = Without(pel, job[w].id)
    BY <1>3 DEF Acks, Without, Keeps, Drops
  <2> QED BY <2>1 DEF EntriesSound, Others, Without
<1>4. CASE Dels(w)
  <2>1. (stream' = stream \/ stream' = Without(stream, job[w].id)) /\ pel' = pel
    BY <1>4 DEF Dels, Erase
  <2>2. IsFiniteSet(stream')
    BY <2>1, FS_Subset DEF EntriesSound, Without
  <2>3. pel' \subseteq stream'
    BY <1>4, <2>1 DEF EntriesSound, Without, Dels
  <2>4. pc'[w] # "xdel"
    <3>1. fate[w] \in Fate
      BY DEF TypeOK, ThreadTypeOK
    <3> QED BY <1>4, <3>1 DEF Dels, Drops, NextPlace, Fate
  <2> QED BY <2>1, <2>2, <2>3, <2>4 DEF EntriesSound, Others, Without
<1>5. CASE ~(Adds(w) \/ Reads(w) \/ Acks(w) \/ Dels(w))
  <2>1. UNCHANGED <<stream, pel>> /\ pc'[w] # "xdel"
    BY <1>5 DEF Step, Passes, Scans, Takes, GivesBack, Handles, Retries, Pushes, Trims, Records,
       Reclaims, Claims, Drops, redis
  <2> QED BY <2>1 DEF EntriesSound, Others
<1> QED BY <1>1, <1>2, <1>3, <1>4, <1>5

\* One more orphan at most, and only by a fault.
LEMMA StepOrphans ==
    ASSUME TypeOK, TypeOK', IdsSound, EntriesSound, EntriesSound',
           NEW w \in Worker, Others(w), Step(w)
    PROVE  \/ Orphans' \subseteq Orphans
           \/ Fault(1) /\ \E m : Orphans' \subseteq Orphans \cup {m}
<1>1. PICK i \in Nat : i = job[w].id
  BY EntryFields DEF TypeOK, ThreadTypeOK
<1>2. /\ pc'[w] = "xdel" /\ job'[w] = job[w] => Deleting \subseteq Deleting'
      /\ pc[w] # "xdel" => Deleting \subseteq Deleting'
      /\ Deleting \subseteq Deleting' \cup {i}
  BY <1>1 DEF Deleting, Others
<1>3. CASE Reads(w)
  <2>1. PICK m \in Undelivered : /\ pel' = pel \cup {m} /\ stream' = stream /\ delivered' = m.id
                                 /\ \A n \in Undelivered : m.id <= n.id
    BY <1>3 DEF Reads
  <2>2. \A n \in stream : n.id <= m.id => n.id <= delivered \/ n = m
    BY <2>1, EntryFields DEF Undelivered, EntriesSound, TypeOK, RedisTypeOK
  <2>3. Deleting \subseteq Deleting'
    BY <1>2, <1>3 DEF Reads
  <2> QED BY <2>1, <2>2, <2>3 DEF Orphans
<1>4. CASE Adds(w)
  <2>1. /\ stream' = stream \/ \E m : stream' = stream \cup {m} /\ m.id = nextId
        /\ pel' = pel /\ delivered' = delivered
    BY <1>4 DEF Adds, XAdd
  <2>2. Deleting \subseteq Deleting'
    BY <1>2, <1>4 DEF Adds
  <2>3. ~(nextId <= delivered)
    BY DEF IdsSound, TypeOK, RedisTypeOK
  <2> QED BY <2>1, <2>2, <2>3 DEF Orphans
<1>5. CASE Acks(w)
  <2>1. stream' = stream /\ delivered' = delivered /\ Deleting \subseteq Deleting'
    BY <1>2, <1>5 DEF Acks
  <2>2. pel' = pel \/ pel' = Without(pel, i)
    BY <1>1, <1>5 DEF Acks
  <2>3. CASE i \in Deleting'
    BY <2>1, <2>2, <2>3 DEF Orphans, Without
  <2>4. CASE pel' = pel
    BY <2>1, <2>4 DEF Orphans
  <2>5. CASE i \notin Deleting'
    <3>1. Fault(1)
      <4>1. pc'[w] # "xdel" \/ job'[w] # job[w]
        BY <1>1, <2>5 DEF Deleting
      <4> QED BY <1>5, <4>1 DEF Acks, Keeps
    <3>2. Orphans' \subseteq Orphans \cup {m \in stream : m.id = i}
      BY <2>1, <2>2 DEF Orphans, Without
    <3>3. \E m : {n \in stream : n.id = i} \subseteq {m}
      BY DEF EntriesSound
    <3> QED BY <3>1, <3>2, <3>3
  <2> QED BY <2>3, <2>5
<1>6. CASE Dels(w)
  <2>1. pel' = pel /\ delivered' = delivered /\ Deleting \subseteq Deleting' \cup {i}
    BY <1>2, <1>6 DEF Dels
  <2>2. CASE stream' = Without(stream, i)
    BY <2>1, <2>2 DEF Orphans, Without
  <2>3. CASE stream' # Without(stream, i)
    <3>1. stream' = stream /\ Fault(1)
      BY <1>1, <1>6, <2>3 DEF Dels, Erase
    <3>2. Orphans' \subseteq Orphans \cup {m \in stream : m.id = i}
      BY <2>1, <3>1 DEF Orphans
    <3>3. \E m : {n \in stream : n.id = i} \subseteq {m}
      BY DEF EntriesSound
    <3> QED BY <3>1, <3>2, <3>3
  <2> QED BY <2>2, <2>3
<1>7. CASE ~(Adds(w) \/ Reads(w) \/ Acks(w) \/ Dels(w))
  <2>1. UNCHANGED <<stream, pel, delivered>> /\ pc[w] # "xdel"
    BY <1>7 DEF Step, Passes, Scans, Takes, GivesBack, Handles, Retries, Pushes, Trims, Records,
       Reclaims, Claims, redis
  <2>2. Deleting \subseteq Deleting'
    BY <1>2, <2>1
  <2> QED BY <2>1, <2>2 DEF Orphans
<1> QED BY <1>3, <1>4, <1>5, <1>6, <1>7

LEMMA ByOwner ==
    ASSUME NEW S, NEW T, IsFiniteSet(T), NEW f \in [S -> T],
           \A a, b \in S : f[a] = f[b] => a = b
    PROVE  IsFiniteSet(S) /\ Cardinality(S) <= Cardinality(T)
<1>1. f \in Injection(S, T)
  BY DEF Injection, IsInjective
<1> QED BY <1>1, FS_Injection

LEMMA Grown ==
    ASSUME NEW S, NEW T, NEW m, IsFiniteSet(S), T \subseteq S \cup {m}
    PROVE  IsFiniteSet(T) /\ Cardinality(T) <= Cardinality(S) + 1
<1>1. /\ IsFiniteSet(S \cup {m})
      /\ Cardinality(S \cup {m}) = IF m \in S THEN Cardinality(S) ELSE Cardinality(S) + 1
  BY FS_AddElement
<1>2. IsFiniteSet(T) /\ Cardinality(T) <= Cardinality(S \cup {m})
  BY <1>1, FS_Subset
<1>3. Cardinality(S) \in Nat /\ Cardinality(T) \in Nat /\ Cardinality(S \cup {m}) \in Nat
  BY <1>1, <1>2, FS_CardinalityType
<1> QED BY <1>1, <1>2, <1>3

\* What StepOrphans says is within the bound.
LEMMA OrphansKept ==
    ASSUME TypeOK, TypeOK', OrphansBounded, IsFiniteSet(Slot), crashes' = crashes,
           \/ Orphans' \subseteq Orphans /\ (Fault(0) \/ Fault(1))
           \/ Fault(1) /\ \E m : Orphans' \subseteq Orphans \cup {m}
    PROVE  OrphansBounded'
<1>1. /\ Cardinality(Slot) \in Nat /\ crashes \in Nat /\ errors \in Nat
      /\ IsFiniteSet(Orphans) /\ Cardinality(Orphans) \in Nat
  BY FS_CardinalityType DEF TypeOK, HistoryTypeOK, OrphansBounded
<1>2. PICK k \in Nat : k = crashes * Cardinality(Slot)
  BY <1>1
<1>3. CASE Orphans' \subseteq Orphans /\ (Fault(0) \/ Fault(1))
  <2>1. IsFiniteSet(Orphans') /\ Cardinality(Orphans') <= Cardinality(Orphans)
    BY <1>1, <1>3, FS_Subset
  <2>2. Cardinality(Orphans') \in Nat /\ (errors' = errors \/ errors' = errors + 1)
    BY <1>1, <1>3, <2>1, FS_CardinalityType DEF Fault
  <2> QED BY <1>1, <1>2, <2>1, <2>2 DEF OrphansBounded
<1>4. CASE Fault(1) /\ \E m : Orphans' \subseteq Orphans \cup {m}
  <2>1. IsFiniteSet(Orphans') /\ Cardinality(Orphans') <= Cardinality(Orphans) + 1
    BY <1>1, <1>4, Grown
  <2>2. Cardinality(Orphans') \in Nat /\ errors' = errors + 1
    BY <1>1, <1>4, <2>1, FS_CardinalityType DEF Fault
  <2> QED BY <1>1, <1>2, <2>1, <2>2 DEF OrphansBounded
<1> QED BY <1>3, <1>4

\* A crash leaves one for each thread of the process that was deleting.
LEMMA CrashOrphans ==
    ASSUME TypeOK, EntriesSound, OrphansBounded, IsFiniteSet(Slot), NEW p \in Process, Crash(p)
    PROVE  EntriesSound' /\ OrphansBounded'
<1> DEFINE s == Cardinality(Slot)
           gone == {w \in Worker : Host(w) = p}
           left == {m \in stream : \E w \in gone : job[w].id = m.id}
<1>1. /\ UNCHANGED <<stream, pel, delivered>> /\ crashes' = crashes + 1 /\ errors' = errors
      /\ \A w \in Worker : IF Host(w) = p THEN pc'[w] \in {"halted", "loop"}
                           ELSE pc'[w] = pc[w] /\ job'[w] = job[w]
  BY DEF Crash, redis
<1>2. IsFiniteSet(gone) /\ Cardinality(gone) = s /\ s \in Nat
  <2>1. gone = {p} \X Slot
    BY DEF Worker, Host
  <2>2. IsFiniteSet({p}) /\ Cardinality({p}) = 1 /\ s \in Nat
    BY FS_Singleton, FS_CardinalityType
  <2>3. IsFiniteSet(gone) /\ Cardinality(gone) = 1 * s
    BY <2>1, <2>2, FS_Product
  <2> QED BY <2>2, <2>3
<1>3. IsFiniteSet(left) /\ Cardinality(left) <= s
  <2> DEFINE f == [m \in left |-> CHOOSE w \in gone : job[w].id = m.id]
  <2>1. \A m \in left : f[m] \in gone /\ job[f[m]].id = m.id
    OBVIOUS
  <2>2. f \in [left -> gone]
    BY <2>1
  <2>3. \A a, b \in left : f[a] = f[b] => a = b
    <3> HIDE DEF f
    <3> QED BY <2>1 DEF EntriesSound
  <2> HIDE DEF f, left, gone, s
  <2>4. IsFiniteSet(left) /\ Cardinality(left) <= Cardinality(gone)
    BY <1>2, <2>2, <2>3, ByOwner
  <2> QED BY <1>2, <2>4
<1>4. Orphans' \subseteq Orphans \cup left
  <2>1. ASSUME NEW i \in Deleting PROVE i \in Deleting' \/ \E w \in gone : job[w].id = i
    BY <1>1 DEF Deleting
  <2> QED BY <1>1, <2>1 DEF Orphans
<1>5. IsFiniteSet(Orphans') /\ Cardinality(Orphans') <= Cardinality(Orphans) + s
  <2> HIDE DEF left, gone, s
  <2>0. IsFiniteSet(Orphans)
    BY DEF OrphansBounded
  <2>1. /\ IsFiniteSet(Orphans \cup left)
        /\ Cardinality(Orphans \cup left)
             = Cardinality(Orphans) + Cardinality(left) - Cardinality(Orphans \cap left)
    BY <1>3, <2>0, FS_Union
  <2>2. /\ Cardinality(Orphans) \in Nat /\ Cardinality(left) \in Nat
        /\ Cardinality(Orphans \cap left) \in Nat
    BY <1>3, <2>0, FS_Intersection, FS_CardinalityType
  <2>3. IsFiniteSet(Orphans') /\ Cardinality(Orphans') <= Cardinality(Orphans \cup left)
    BY <1>4, <2>1, FS_Subset
  <2>4. Cardinality(Orphans') \in Nat
    BY <2>3, FS_CardinalityType
  <2> QED BY <1>2, <1>3, <2>1, <2>2, <2>3, <2>4
<1>6. OrphansBounded'
  <2> HIDE DEF left, gone, s
  <2>1. \A n, u, c, e \in Nat :
           n <= c * s + e /\ u <= n + s => u <= (c + 1) * s + e
    <3> SUFFICES ASSUME NEW n \in Nat, NEW u \in Nat, NEW c \in Nat, NEW e \in Nat,
                        n <= c * s + e, u <= n + s
                 PROVE  u <= (c + 1) * s + e
      OBVIOUS
    <3>1. (c + 1) * s = c * s + s /\ c * s \in Nat
      BY <1>2
    <3> QED BY <1>2, <3>1
  <2>2. /\ crashes \in Nat /\ errors \in Nat
        /\ Cardinality(Orphans) \in Nat /\ Cardinality(Orphans') \in Nat
    BY <1>5, FS_CardinalityType DEF OrphansBounded, TypeOK, HistoryTypeOK
  <2>3. Cardinality(Orphans) <= crashes * s + errors
    BY DEF OrphansBounded, s
  <2>4. Cardinality(Orphans') <= (crashes + 1) * s + errors
    BY <1>5, <2>1, <2>2, <2>3
  <2> QED BY <1>1, <1>5, <2>4 DEF OrphansBounded, s
<1>7. EntriesSound'
  BY <1>1 DEF EntriesSound
<1> QED BY <1>6, <1>7
\* Callers, the clock and signals leave the orphans as they are.
LEMMA EnvironmentOrphans ==
    ASSUME TypeOK, TypeOK', IdsSound, EntriesSound, OrphansBounded, IsFiniteSet(Slot),
           \/ UNCHANGED vars
           \/ \E t \in Task : Enqueue(t) \/ RecordQueued(t)
           \/ \E e \in delayed : ComeDue(e)
           \/ \E m \in pel : BecomeStale(m)
           \/ \E p \in Process : Crash(p) \/ Stop(p)
           \/ \E w \in Worker : HandlerExits(w)
    PROVE  EntriesSound' /\ OrphansBounded'
<1>1. CASE ~Dies
  <2>1. /\ UNCHANGED <<pel, delivered, pc, job, crashes>>
        /\ \/ stream' = stream
           \/ \E m : stream' = stream \cup {m} /\ m.id = nextId
    <3>1. ASSUME NEW t \in Task, Enqueue(t) \/ RecordQueued(t)
          PROVE  /\ UNCHANGED <<pel, delivered, pc, job, crashes>>
                 /\ \/ stream' = stream
                    \/ \E m : stream' = stream \cup {m} /\ m.id = nextId
      <4>1. UNCHANGED <<pel, delivered, pc, job, crashes>>
        BY <3>1 DEF Enqueue, RecordQueued, threads
      <4>2. XAdd(NewEnvelope(t)) \/ stream' = stream
        BY <3>1 DEF Enqueue, RecordQueued
      <4> QED BY <4>1, <4>2 DEF XAdd
    <3>2. ASSUME UNCHANGED vars \/ (\E e \in delayed : ComeDue(e))
                 \/ (\E m \in pel : BecomeStale(m)) \/ (\E p \in Process : Stop(p))
          PROVE  UNCHANGED <<stream, pel, delivered, pc, job, crashes>>
      BY <3>2 DEF vars, ComeDue, BecomeStale, Stop, redis, threads, bounds
    <3> QED BY <1>1, <3>1, <3>2 DEF Dies
  <2>2. Fault(0) \/ Fault(1)
    <3>1. ASSUME NEW r \in Reply, Answer(r) PROVE Fault(0) \/ Fault(1)
      BY <3>1 DEF Answer, Fault, TypeOK, HistoryTypeOK
    <3>2. UNCHANGED errors => Fault(0)
      BY DEF Fault, TypeOK, HistoryTypeOK
    <3> QED
      BY <1>1, <3>1, <3>2
      DEF Dies, vars, Enqueue, RecordQueued, ComeDue, BecomeStale, Stop, bounds
  <2>3. IsFiniteSet(stream')
    <3>1. \A m : IsFiniteSet(stream) /\ IsFiniteSet(stream \cup {m})
      BY FS_AddElement DEF EntriesSound
    <3> QED BY <2>1, <3>1
  <2>4. \A m, n \in stream' : m.id = n.id => m = n
    BY <2>1, EntryFields DEF EntriesSound, IdsSound, TypeOK, RedisTypeOK
  <2>5. EntriesSound'
    BY <2>1, <2>3, <2>4 DEF EntriesSound
  <2>6. Orphans' \subseteq Orphans
    <3>1. Deleting' = Deleting
      BY <2>1 DEF Deleting
    <3>2. ~(nextId <= delivered)
      BY DEF IdsSound, TypeOK, RedisTypeOK
    <3> QED BY <2>1, <3>1, <3>2 DEF Orphans
  <2> QED BY <2>1, <2>2, <2>5, <2>6, OrphansKept
<1>2. ASSUME NEW w \in Worker, HandlerExits(w) PROVE EntriesSound' /\ OrphansBounded'
  <2>0. ThreadTypeOK
    BY DEF TypeOK
  <2>1. /\ Others(w) /\ pc[w] = "run" /\ pc'[w] = "halted"
        /\ UNCHANGED <<stream, pel, delivered, crashes, errors>>
    BY <1>2, <2>0, ExitsAlone
  <2>2. Deleting' = Deleting
    BY <2>1 DEF Deleting, Others
  <2>3. EntriesSound'
    BY <2>1 DEF EntriesSound, Others
  <2>4. Orphans' = Orphans
    BY <2>1, <2>2 DEF Orphans
  <2> QED BY <2>1, <2>3, <2>4 DEF OrphansBounded
<1> QED BY <1>1, <1>2, CrashOrphans DEF Dies

LEMMA StepFaults == ASSUME NEW w \in Worker, Step(w) PROVE Fault(0) \/ Fault(1)
<1>1. CASE Passes(w) \/ Scans(w) \/ GivesBack(w) \/ Records(w) \/ Reclaims(w) \/ Claims(w)
  BY <1>1 DEF Passes, Scans, GivesBack, Records, Reclaims, Claims
<1>2. CASE Takes(w) \/ Adds(w) \/ Reads(w) \/ Handles(w)
  BY <1>2 DEF Takes, Adds, Reads, Handles
<1>3. CASE Acks(w) \/ Dels(w) \/ Retries(w) \/ Pushes(w) \/ Trims(w)
  BY <1>3 DEF Acks, Dels, Retries, Pushes, Trims
<1> QED BY <1>1, <1>2, <1>3 DEF Step

LEMMA EntriesAlways ==
    ASSUME IsFiniteSet(Process), IsFiniteSet(Slot) PROVE Spec => [](EntriesSound /\ OrphansBounded)
<1>1. Init => EntriesSound /\ OrphansBounded
  <2> SUFFICES ASSUME Init PROVE EntriesSound /\ OrphansBounded
    OBVIOUS
  <2>1. Orphans = {} /\ IsFiniteSet({}) /\ Cardinality({}) = 0 /\ Cardinality(Slot) \in Nat
    BY FS_EmptySet, FS_CardinalityType DEF Init, Orphans
  <2>2. 0 * Cardinality(Slot) = 0
    BY <2>1
  <2> QED BY <2>1, <2>2 DEF Init, EntriesSound, OrphansBounded
<1>2. TypeOK /\ TypeOK' /\ IdsSound /\ HandsInv /\ EntriesSound /\ OrphansBounded /\ [Next]_vars
        => (EntriesSound /\ OrphansBounded)'
  <2> SUFFICES ASSUME TypeOK, TypeOK', IdsSound, HandsInv, EntriesSound, OrphansBounded,
                      [Next]_vars
               PROVE  (EntriesSound /\ OrphansBounded)'
    OBVIOUS
  <2>1. ASSUME NEW w \in Worker, Reserve(w) \/ Handle(w) \/ Settle(w) \/ MaybeReclaim(w)
        PROVE  (EntriesSound /\ OrphansBounded)'
    <3>1. Others(w) /\ Step(w) /\ InHand(w) /\ crashes' = crashes
      BY <2>1, ThreadSteps DEF HandsInv
    <3>2. EntriesSound'
      BY <3>1, StepEntries
    <3>3. OrphansBounded'
      BY <3>1, <3>2, StepOrphans, StepFaults, OrphansKept
    <3> QED BY <3>2, <3>3
  <2> QED BY <2>1, EnvironmentOrphans DEF Next
<1>3. LossInv => IdsSound
  BY DEF LossInv
<1> QED BY <1>1, <1>2, <1>3, LossAlways, HandsAlways, PTL DEF Spec

\* Nothing but a fault between XACK and XDEL leaves a confirmed entry in the stream: at most
\* one per thread a crash stopped and one per failed command.  And no XDEL takes away the
\* data of an entry that is still pending, whoever took it over from whom.
THEOREM OrphansByFaultsOnly ==
    ASSUME IsFiniteSet(Process), IsFiniteSet(Slot) PROVE Spec => []ConfirmedIsDeleted
<1>1. EntriesSound /\ OrphansBounded => ConfirmedIsDeleted
  BY DEF EntriesSound, OrphansBounded, ConfirmedIsDeleted
<1> QED BY <1>1, EntriesAlways, PTL
=============================================================================
