------------------------- MODULE KeyGeneratorProofs -------------------------
(***************************************************************************)
(* Identifiers are unique for any number of processes and threads, any     *)
(* sizes of the fields and any behaviour of the clock.                     *)
(*                                                                         *)
(* The argument: an identifier is a number of three digits, so that it     *)
(* grows with its time and, in one millisecond, with its sequence          *)
(* (PackLater, PackSame), and its middle digit is the worker's             *)
(* (PackWorker).  The invariant says that nothing a process issued is      *)
(* above what its worker stands at; who waits for the next millisecond has *)
(* used the last sequence of this one.                                     *)
(***************************************************************************)
EXTENDS KeyGenerator, TLAPS

Digits == 0..(SequenceSize - 1)
Workers == 0..(Machines - 1)

-----------------------------------------------------------------------------
(* Arithmetic. *)

LEMMA TimesMonotone ==
    ASSUME NEW n \in Nat, NEW i \in Int, NEW j \in Int, i <= j
    PROVE  i * n \in Int /\ j * n \in Int /\ i * n <= j * n
<1>1. (j - i) * n \in Int /\ (j - i) * n >= 0 /\ i * n \in Int
  BY SMT
<1>2. j * n = i * n + (j - i) * n
  BY SMT
<1> QED BY <1>1, <1>2

\* A number of two digits, the lower one below n.
LEMMA HigherDigit ==
    ASSUME NEW n \in Nat \ {0}, NEW i \in Int, NEW j \in Int, i < j,
           NEW r \in 0..(n - 1), NEW s \in 0..(n - 1)
    PROVE  i * n + r \in Int /\ j * n + s \in Int /\ i * n + r < j * n + s
<1>1. (i + 1) * n <= j * n /\ j * n \in Int
  BY TimesMonotone
<1>2. (i + 1) * n = i * n + n /\ i * n \in Int
  BY SMT
<1> QED BY <1>1, <1>2

LEMMA SameDigits ==
    ASSUME NEW n \in Nat \ {0}, NEW i \in Int, NEW j \in Int,
           NEW r \in 0..(n - 1), NEW s \in 0..(n - 1), i * n + r = j * n + s
    PROVE  i = j /\ r = s
<1>1. ~(i < j) /\ ~(j < i)
  BY HigherDigit
<1>2. i = j
  BY <1>1
<1>3. i * n \in Int
  BY SMT
<1> QED BY <1>2, <1>3

LEMMA PackType ==
    ASSUME NEW t \in Int, NEW w \in Workers, NEW s \in Digits
    PROVE  /\ Pack(t, w, s) \in Int
           /\ t \in Nat => Pack(t, w, s) \in Nat
<1>1. t * Machines \in Int /\ (t \in Nat => t * Machines \in Nat)
  BY KeyAssumption, SMT
<1> DEFINE high == t * Machines + w
<1>2. high \in Int /\ (t \in Nat => high \in Nat)
  BY <1>1, KeyAssumption DEF Workers
<1> HIDE DEF high
<1>3. high * SequenceSize \in Int /\ (high \in Nat => high * SequenceSize \in Nat)
  BY <1>2, KeyAssumption, SMT
<1>4. Pack(t, w, s) = high * SequenceSize + s
  BY DEF Pack, high
<1> QED BY <1>2, <1>3, <1>4, KeyAssumption DEF Digits

LEMMA PackLater ==
    ASSUME NEW t \in Int, NEW u \in Int, t < u, NEW w \in Workers,
           NEW r \in Digits, NEW s \in Digits
    PROVE  Pack(t, w, r) < Pack(u, w, s)
<1> DEFINE i == t * Machines + w
           j == u * Machines + w
<1>1. i \in Int /\ j \in Int /\ i < j
  BY HigherDigit, KeyAssumption DEF Workers
<1> HIDE DEF i, j
<1>2. i * SequenceSize + r < j * SequenceSize + s
  BY <1>1, HigherDigit, KeyAssumption DEF Digits
<1> QED BY <1>2 DEF Pack, i, j

LEMMA PackSame ==
    ASSUME NEW t \in Int, NEW w \in Workers, NEW r \in Digits, NEW s \in Digits, r <= s
    PROVE  /\ Pack(t, w, r) <= Pack(t, w, s)
           /\ r < s => Pack(t, w, r) < Pack(t, w, s)
<1> DEFINE high == (t * Machines + w) * SequenceSize
<1>1. t * Machines + w \in Int
  BY KeyAssumption, SMT DEF Workers
<1>2. high \in Int
  BY <1>1, KeyAssumption, SMT
<1> HIDE DEF high
<1>3. high + r <= high + s /\ (r < s => high + r < high + s)
  BY <1>2, KeyAssumption DEF Digits
<1> QED BY <1>3 DEF Pack, high

LEMMA PackWorker ==
    ASSUME NEW t \in Int, NEW u \in Int, NEW v \in Workers, NEW w \in Workers,
           NEW r \in Digits, NEW s \in Digits, Pack(t, v, r) = Pack(u, w, s)
    PROVE  v = w
<1> DEFINE i == t * Machines + v
           j == u * Machines + w
<1>1. i \in Int /\ j \in Int
  BY KeyAssumption, SMT DEF Workers
<1>2. i * SequenceSize + r = j * SequenceSize + s
  BY DEF Pack
<1> HIDE DEF i, j
<1>3. i = j
  BY <1>1, <1>2, SameDigits, KeyAssumption DEF Digits
<1>4. t * Machines + v = u * Machines + w
  BY <1>3 DEF i, j
<1> QED BY <1>4, SameDigits, KeyAssumption DEF Workers

LEMMA WorkerIdType == \A h \in Process : WorkerId(h) \in Workers
<1> SUFFICES ASSUME NEW h \in Process PROVE WorkerId(h) \in Workers
  OBVIOUS
<1>1. CASE Configured[h] # Unset
  BY <1>1, KeyAssumption DEF WorkerId, Workers
<1>2. CASE Configured[h] = Unset
  BY <1>2, KeyAssumption, SMT DEF WorkerId, Workers
<1> QED BY <1>1, <1>2

-----------------------------------------------------------------------------
(* The invariant. *)

\* What the worker of a process stands at: the highest identifier it may have issued.
Top(h) == Pack(last[h], WorkerId(h), IF Holder(h) # {} THEN SequenceSize - 1 ELSE sequence[h])

Bounded == \A h \in Process : \A i \in 1..Len(issued[h]) : issued[h][i] <= Top(h)

\* Each identifier is a time, the worker's id and a sequence.
Decoded ==
    \A h \in Process : \A i \in 1..Len(issued[h]) :
      \E t \in Nat, s \in Digits : issued[h][i] = Pack(t, WorkerId(h), s)

\* Only who has the worker goes on, and a worker that does not exist issued nothing.
Fresh ==
    /\ \A h \in Process \ created : issued[h] = <<>>
    /\ \A t \in Thread : stage[t] \in {"ready", "spin"} => Home[t] \in created

IInv == TypeOK /\ Fresh /\ Bounded /\ Decoded /\ IdsIncrease

LEMMA TopType == ASSUME TypeOK, NEW h \in Process PROVE Top(h) \in Int
<1>1. last[h] \in Int /\ sequence[h] \in Digits /\ SequenceSize - 1 \in Digits
  BY KeyAssumption DEF TypeOK, Digits
<1> QED BY <1>1, PackType, WorkerIdType DEF Top

\* A thread that does not wait for a millisecond, before or after, does not change who does.
LEMMA HolderKept ==
    ASSUME TypeOK, NEW t \in Thread, NEW s \in {"idle", "unset", "ready"}, stage[t] # "spin",
           Proceed(t, s)
    PROVE  \A h \in Process : Holder(h)' = Holder(h)
BY DEF TypeOK, Proceed, Holder

LEMMA InitInv == Init => IInv
<1> SUFFICES ASSUME Init PROVE IInv
  OBVIOUS
<1>1. TypeOK
  BY KeyAssumption DEF Init, TypeOK
<1>2. \A h \in Process : issued[h] = <<>> /\ Len(issued[h]) = 0
  BY DEF Init
<1> QED BY <1>1, <1>2 DEF Init, IInv, Fresh, Bounded, Decoded, IdsIncrease

\* The clock is read by next_id only.
LEMMA ClockInv == ASSUME IInv, Tick \/ SetBack PROVE IInv'
<1>1. TypeOK'
  BY KeyAssumption DEF IInv, TypeOK, Tick, SetBack
<1>2. UNCHANGED <<created, last, sequence, stage, issued>>
  BY DEF Tick, SetBack
<1> QED BY <1>1, <1>2 DEF IInv, Fresh, Bounded, Decoded, IdsIncrease, Top, Holder

\* A step that moves one thread, not into or out of its wait, and issues nothing.
LEMMA MoveInv ==
    ASSUME IInv, TypeOK', NEW t \in Thread, NEW s \in {"idle", "unset", "ready"},
           stage[t] # "spin", Proceed(t, s), s = "ready" => Home[t] \in created',
           created \subseteq created', UNCHANGED issued,
           \A h \in created : last'[h] = last[h] /\ sequence'[h] = sequence[h]
    PROVE  IInv'
<1>1. Fresh'
  BY DEF IInv, TypeOK, Fresh, Proceed
<1>2. Bounded'
  <2> SUFFICES ASSUME NEW h \in Process, NEW i \in 1..Len(issued[h])
               PROVE  issued[h][i] <= Top(h)'
    BY DEF Bounded
  <2>1. h \in created
    BY DEF IInv, Fresh
  <2>2. Top(h)' = Top(h)
    BY <2>1, HolderKept DEF IInv, Top
  <2> QED BY <2>2 DEF IInv, Bounded
<1> QED BY <1>1, <1>2 DEF IInv, Decoded, IdsIncrease

\* An identifier above all earlier ones.
LEMMA IssueInv ==
    ASSUME IInv, NEW t \in Thread, NEW s \in Digits, Issue(t, s), Home[t] \in created,
           Top(Home[t]) < Pack(clock, WorkerId(Home[t]), s)
    PROVE  IInv'
<1> DEFINE p == Home[t]
           id == Pack(clock, WorkerId(p), s)
<1>1. p \in Process /\ clock \in Nat /\ WorkerId(p) \in Workers /\ id \in Nat
  BY KeyAssumption, WorkerIdType, PackType DEF IInv, TypeOK
<1>2. issued' = [issued EXCEPT ![p] = Append(issued[p], id)]
  BY DEF Issue
<1>3. TypeOK'
  BY <1>1 DEF IInv, TypeOK, Issue, Proceed, Digits
<1>4. Fresh'
  BY <1>1 DEF IInv, TypeOK, Fresh, Issue, Proceed
<1>5. \A h \in Process \ {p} : Top(h)' = Top(h)
  BY <1>1, KeyAssumption DEF IInv, TypeOK, Issue, Proceed, Top, Holder
<1>6. id <= Top(p)'
  <2>1. last'[p] = clock /\ sequence'[p] = s
    BY <1>1 DEF IInv, TypeOK, Issue
  <2>2. SequenceSize - 1 \in Digits /\ s <= SequenceSize - 1
    BY KeyAssumption DEF Digits
  <2>3. id <= Pack(clock, WorkerId(p), SequenceSize - 1) /\ id <= id
    BY <1>1, <2>2, PackSame
  <2> QED BY <2>1, <2>3 DEF Top
<1>7. \A i \in 1..Len(issued[p]) : issued[p][i] \in Nat /\ issued[p][i] < id
  <2>1. Top(p) \in Int
    BY <1>1, TopType DEF IInv
  <2>2. \A i \in 1..Len(issued[p]) : issued[p][i] \in Nat /\ issued[p][i] <= Top(p)
    BY <1>1 DEF IInv, Bounded, TypeOK
  <2> QED BY <1>1, <2>1, <2>2
<1>8. Top(p)' \in Int
  <2>1. last'[p] \in Int /\ sequence'[p] \in Digits /\ SequenceSize - 1 \in Digits
    BY <1>1, <1>3, KeyAssumption DEF TypeOK, Digits
  <2> QED BY <1>1, <2>1, PackType DEF Top
<1>9. /\ issued[p] \in Seq(Nat) /\ issued'[p] = Append(issued[p], id)
      /\ \A h \in Process \ {p} : issued'[h] = issued[h]
  BY <1>1, <1>2 DEF IInv, TypeOK
<1> HIDE DEF id
<1>10. /\ Len(issued'[p]) = Len(issued[p]) + 1
       /\ Len(issued[p]) \in Nat
       /\ \A i \in 1..Len(issued[p]) : issued'[p][i] = issued[p][i]
       /\ issued'[p][Len(issued[p]) + 1] = id
  BY <1>1, <1>9
<1>11. Bounded'
  <2> SUFFICES ASSUME NEW h \in Process, NEW i \in 1..Len(issued'[h])
               PROVE  issued'[h][i] <= Top(h)'
    BY DEF Bounded
  <2>1. CASE h # p
    BY <2>1, <1>5, <1>9 DEF IInv, Bounded
  <2>2. CASE h = p /\ i \in 1..Len(issued[p])
    BY <2>2, <1>1, <1>6, <1>7, <1>8, <1>10
  <2>3. CASE h = p /\ i = Len(issued[p]) + 1
    BY <2>3, <1>6, <1>10
  <2> QED BY <2>1, <2>2, <2>3, <1>10
<1>12. Decoded'
  <2> SUFFICES ASSUME NEW h \in Process, NEW i \in 1..Len(issued'[h])
               PROVE  \E u \in Nat, r \in Digits : issued'[h][i] = Pack(u, WorkerId(h), r)
    BY DEF Decoded
  <2>1. CASE h # p
    BY <2>1, <1>9 DEF IInv, Decoded
  <2>2. CASE h = p /\ i \in 1..Len(issued[p])
    BY <2>2, <1>1, <1>10 DEF IInv, Decoded
  <2>3. CASE h = p /\ i = Len(issued[p]) + 1
    BY <2>3, <1>1, <1>10 DEF id
  <2> QED BY <2>1, <2>2, <2>3, <1>10
<1>13. IdsIncrease'
  <2> SUFFICES ASSUME NEW h \in Process, NEW i \in 1..Len(issued'[h]),
                      NEW j \in 1..Len(issued'[h]), i < j
               PROVE  issued'[h][i] < issued'[h][j]
    BY DEF IdsIncrease
  <2>1. CASE h # p
    BY <2>1, <1>9 DEF IInv, IdsIncrease
  <2>2. CASE h = p /\ j \in 1..Len(issued[p])
    <3>1. i \in 1..Len(issued[p])
      BY <2>2, <1>10
    <3> QED BY <2>2, <3>1, <1>1, <1>10 DEF IInv, IdsIncrease
  <2>3. CASE h = p /\ j = Len(issued[p]) + 1
    <3>1. i \in 1..Len(issued[p])
      BY <2>3, <1>10
    <3> QED BY <2>3, <3>1, <1>7, <1>10
  <2> QED BY <2>1, <2>2, <2>3, <1>10
<1> QED BY <1>3, <1>4, <1>11, <1>12, <1>13 DEF IInv

-----------------------------------------------------------------------------
(* The steps. *)

LEMMA GenerateInv == ASSUME IInv, NEW t \in Thread, Generate(t) PROVE IInv'
<1>1. TypeOK'
  BY KeyAssumption DEF IInv, TypeOK, Generate, Proceed
<1>2. CASE Home[t] \in created
  BY <1>1, <1>2, MoveInv DEF Generate
<1>3. CASE Home[t] \notin created
  BY <1>1, <1>3, MoveInv DEF Generate
<1> QED BY <1>2, <1>3

\* Without the second check a new worker would start again from nothing.
LEMMA GetWorkerInv == ASSUME IInv, NEW t \in Thread, GetWorker(t) PROVE IInv'
<1>1. Home[t] \in Process
  BY KeyAssumption
<1>2. TypeOK'
  BY <1>1, KeyAssumption DEF IInv, TypeOK, GetWorker, Proceed
<1>3. \A h \in created : last'[h] = last[h] /\ sequence'[h] = sequence[h]
  BY <1>1 DEF IInv, TypeOK, GetWorker, MustCreate
<1> QED BY <1>1, <1>2, <1>3, MoveInv DEF GetWorker

LEMMA RefuseInv == ASSUME IInv, NEW t \in Thread, Refuse(t) PROVE IInv'
<1>1. TypeOK'
  BY DEF IInv, TypeOK, Refuse, Proceed
<1> QED BY <1>1, MoveInv DEF Refuse

LEMMA NextIdInv == ASSUME IInv, NEW t \in Thread, NextId(t) PROVE IInv'
<1> DEFINE p == Home[t]
<1>1. /\ p \in Process /\ p \in created /\ Holder(p) = {}
      /\ clock \in Nat /\ last[p] \in Int /\ sequence[p] \in Digits
      /\ clock >= last[p]
  BY KeyAssumption DEF IInv, TypeOK, Fresh, NextId, Free, WentBack, Digits
<1>2. WorkerId(p) \in Workers /\ 0 \in Digits /\ Top(p) = Pack(last[p], WorkerId(p), sequence[p])
  BY <1>1, WorkerIdType, KeyAssumption DEF Top, Digits
<1>3. CASE clock = last[p]
  <2>1. Issue(t, NextInSequence(p)) /\ NextInSequence(p) # 0
    BY <1>3 DEF NextId
  <2>2. NextInSequence(p) \in Digits /\ NextInSequence(p) > sequence[p]
    <3>1. CASE sequence[p] + 1 = SequenceSize
      BY <3>1, <2>1, KeyAssumption DEF NextInSequence
    <3>2. CASE sequence[p] + 1 < SequenceSize
      BY <3>2, <1>1, KeyAssumption DEF NextInSequence, Digits
    <3> QED BY <3>1, <3>2, <1>1, KeyAssumption DEF Digits
  <2>3. sequence[p] <= NextInSequence(p)
    BY <1>1, <2>2 DEF Digits
  <2>4. Top(p) < Pack(clock, WorkerId(p), NextInSequence(p))
    BY <1>1, <1>2, <1>3, <2>2, <2>3, PackSame
  <2> QED BY <1>1, <2>1, <2>2, <2>4, IssueInv
<1>4. CASE clock # last[p]
  <2>1. Issue(t, 0) /\ last[p] < clock
    BY <1>1, <1>4 DEF NextId
  <2>2. Top(p) < Pack(clock, WorkerId(p), 0)
    BY <1>1, <1>2, <2>1, PackLater
  <2> QED BY <1>1, <1>2, <2>1, <2>2, IssueInv
<1> QED BY <1>3, <1>4

\* The sequence starts again, yet what was issued stays below the end of the millisecond.
LEMMA OverflowInv == ASSUME IInv, NEW t \in Thread, Overflow(t) PROVE IInv'
<1> DEFINE p == Home[t]
<1>0. p \in Process /\ Holder(p) = {} /\ t \in Holder(p)'
  BY KeyAssumption DEF IInv, TypeOK, Overflow, Free, Proceed, Holder
<1>1. /\ p \in Process /\ Holder(p) = {} /\ t \in Holder(p)' /\ sequence[p] \in Digits
      /\ last[p] \in Int /\ SequenceSize - 1 \in Digits /\ sequence[p] <= SequenceSize - 1
  BY <1>0, KeyAssumption DEF IInv, TypeOK, Digits
<1>2. TypeOK'
  BY <1>1, KeyAssumption DEF IInv, TypeOK, Overflow, Proceed, Digits
<1>3. Fresh'
  BY DEF IInv, TypeOK, Fresh, Overflow, Proceed
<1>4. Top(p)' = Pack(last[p], WorkerId(p), SequenceSize - 1)
  BY <1>1 DEF Top, Overflow
<1>5. Top(p) <= Top(p)' /\ Top(p) \in Int /\ Top(p)' \in Int
  <2>1. Top(p) = Pack(last[p], WorkerId(p), sequence[p]) /\ WorkerId(p) \in Workers
    BY <1>1, WorkerIdType DEF Top
  <2> QED BY <1>1, <1>4, <2>1, PackSame, PackType
<1>6. \A h \in Process \ {p} : Top(h)' = Top(h)
  BY <1>1, KeyAssumption DEF IInv, TypeOK, Overflow, Proceed, Top, Holder
<1>7. Bounded'
  <2> SUFFICES ASSUME NEW h \in Process, NEW i \in 1..Len(issued[h])
               PROVE  issued[h][i] <= Top(h)'
    BY DEF Bounded, Overflow
  <2>1. issued[h][i] <= Top(h) /\ issued[h][i] \in Nat
    BY DEF IInv, Bounded, TypeOK
  <2> QED BY <2>1, <1>5, <1>6
<1> QED BY <1>2, <1>3, <1>7 DEF IInv, Decoded, IdsIncrease, Overflow

\* Whatever the clock did meanwhile, who waited goes on in a later millisecond.
LEMMA SpinInv == ASSUME IInv, NEW t \in Thread, Spin(t) PROVE IInv'
<1> DEFINE p == Home[t]
<1>1. /\ p \in Process /\ p \in created /\ t \in Holder(p)
      /\ clock \in Nat /\ last[p] \in Int /\ sequence[p] \in Digits /\ last[p] < clock
      /\ SequenceSize - 1 \in Digits
  BY KeyAssumption DEF IInv, TypeOK, Fresh, Spin, Holder, NextMilli, Digits
<1>2. Top(p) = Pack(last[p], WorkerId(p), SequenceSize - 1) /\ WorkerId(p) \in Workers
  BY <1>1, WorkerIdType DEF Top
<1>3. Top(p) < Pack(clock, WorkerId(p), sequence[p])
  BY <1>1, <1>2, PackLater
<1> QED BY <1>1, <1>3, IssueInv DEF Spin

LEMMA StepInv == IInv /\ [Next]_vars => IInv'
<1> SUFFICES ASSUME IInv, [Next]_vars PROVE IInv'
  OBVIOUS
<1>1. CASE TimePasses \/ TimePassesForWaiter \/ SetBack
  BY <1>1, ClockInv DEF TimePasses, TimePassesForWaiter
<1>2. ASSUME NEW t \in Thread, Generate(t) PROVE IInv'
  BY <1>2, GenerateInv
<1>3. ASSUME NEW t \in Thread, GetWorker(t) PROVE IInv'
  BY <1>3, GetWorkerInv
<1>4. ASSUME NEW t \in Thread, Refuse(t) PROVE IInv'
  BY <1>4, RefuseInv
<1>5. ASSUME NEW t \in Thread, NextId(t) PROVE IInv'
  BY <1>5, NextIdInv
<1>6. ASSUME NEW t \in Thread, Overflow(t) PROVE IInv'
  BY <1>6, OverflowInv
<1>7. ASSUME NEW t \in Thread, Spin(t) PROVE IInv'
  BY <1>7, SpinInv
<1>8. CASE UNCHANGED vars
  <2>1. TypeOK'
    BY <1>8 DEF vars, IInv, TypeOK
  <2>2. UNCHANGED <<created, last, sequence, stage, issued>>
    BY <1>8 DEF vars
  <2> QED BY <2>1, <2>2 DEF IInv, Fresh, Bounded, Decoded, IdsIncrease, Top, Holder
<1> QED BY <1>1, <1>2, <1>3, <1>4, <1>5, <1>6, <1>7, <1>8 DEF Next, Finish

\* The identifiers of two workers differ in their middle digit.
LEMMA DistinctFromDecoded == IInv => IdsDistinct
<1> SUFFICES ASSUME IInv, NEW p \in Process, NEW q \in Process, WorkerId(p) # WorkerId(q),
                    NEW i \in 1..Len(issued[p]), NEW j \in 1..Len(issued[q]),
                    issued[p][i] = issued[q][j]
             PROVE  FALSE
  BY DEF IdsDistinct
<1>1. PICK t \in Nat, r \in Digits : issued[p][i] = Pack(t, WorkerId(p), r)
  BY DEF IInv, Decoded
<1>2. PICK u \in Nat, s \in Digits : issued[q][j] = Pack(u, WorkerId(q), s)
  BY DEF IInv, Decoded
<1>3. WorkerId(p) \in Workers /\ WorkerId(q) \in Workers
  BY WorkerIdType
<1>4. t \in Int /\ u \in Int
  OBVIOUS
<1>5. Pack(t, WorkerId(p), r) = Pack(u, WorkerId(q), s)
  BY <1>1, <1>2, Zenon
<1>6. WorkerId(p) = WorkerId(q)
  BY <1>3, <1>4, <1>5, PackWorker
<1> QED BY <1>6

-----------------------------------------------------------------------------
(* The theorems. *)

LEMMA Invariance == Spec => []IInv
<1>1. Init => IInv
  BY InitInv
<1>2. IInv /\ [Next]_vars => IInv'
  BY StepInv
<1> QED BY <1>1, <1>2, PTL DEF Spec

\* The types: the sequence of a worker never leaves its twelve bits (key_generator.py:33-53).
THEOREM TypeCorrect == Spec => []TypeOK
<1>1. IInv => TypeOK
  BY DEF IInv
<1> QED BY <1>1, Invariance, PTL

\* Each process issues its identifiers in increasing order, and processes with different
\* worker ids never issue the same one, whatever the clock does, however many threads make
\* the worker together and however often a millisecond is used up (key_generator.py:62-126).
THEOREM IdsNeverRepeat == Spec => []IdsUnique
<1>1. IInv => IdsUnique
  BY DistinctFromDecoded DEF IInv, IdsUnique
<1> QED BY <1>1, Invariance, PTL
=============================================================================
