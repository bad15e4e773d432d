------------------------ MODULE TaskQueueMemoryProofs ------------------------
(***************************************************************************)
(* Theorems about TaskQueueMemory, for every set of tasks and threads and  *)
(* every bound.  A step is first summarised as a move of one task between  *)
(* the places it can be in (Enters, Picks, Finishes, Confirms, PutsBack,   *)
(* Buries, Exits, or Rests); the invariants about places, records, letters *)
(* and the refinement of TaskDelivery need no more than that.  The wait    *)
(* list and the wake-ups come last.                                        *)
(***************************************************************************)
EXTENDS TaskQueueMemory, FiniteSetTheorems, TLAPS

-----------------------------------------------------------------------------
(* Sequences: what the queue's moves do to the elements, and that no task comes twice. *)

Distinct(s) == \A i, j \in DOMAIN s : s[i].task = s[j].task => i = j
Apart(S, T) == \A e \in S, f \in T : e.task # f.task

LEMMA AppendSet ==
    ASSUME NEW S, NEW s \in Seq(S), NEW e \in S
    PROVE  /\ Append(s, e) \in Seq(S) /\ ToSet(Append(s, e)) = ToSet(s) \cup {e}
           /\ Len(Append(s, e)) = Len(s) + 1
<1>1. /\ Append(s, e) \in Seq(S) /\ Len(Append(s, e)) = Len(s) + 1
      /\ DOMAIN Append(s, e) = DOMAIN s \cup {Len(s) + 1}
      /\ Append(s, e)[Len(s) + 1] = e
      /\ \A i \in DOMAIN s : Append(s, e)[i] = s[i]
  OBVIOUS
<1> QED BY <1>1, Zenon DEF ToSet

LEMMA AppendDistinct ==
    ASSUME NEW S, NEW s \in Seq(S), NEW e \in S, Distinct(s), Apart(ToSet(s), {e})
    PROVE  Distinct(Append(s, e))
BY DEF ToSet, Distinct, Apart

LEMMA ConcatSet ==
    ASSUME NEW S, NEW s \in Seq(S), NEW t \in Seq(S)
    PROVE  /\ s \o t \in Seq(S) /\ ToSet(s \o t) = ToSet(s) \cup ToSet(t)
           /\ Len(s \o t) = Len(s) + Len(t)
<1>1. s \o t \in Seq(S) /\ Len(s \o t) = Len(s) + Len(t)
  OBVIOUS
<1>2. \A i \in DOMAIN s : (s \o t)[i] = s[i] /\ i \in DOMAIN (s \o t)
  OBVIOUS
<1>3. \A i \in DOMAIN t : (s \o t)[Len(s) + i] = t[i] /\ Len(s) + i \in DOMAIN (s \o t)
  OBVIOUS
<1>4. \A i \in DOMAIN (s \o t) :
         \/ i \in DOMAIN s /\ (s \o t)[i] = s[i]
         \/ \E j \in DOMAIN t : (s \o t)[i] = t[j]
  <2> SUFFICES ASSUME NEW i \in DOMAIN (s \o t), i \notin DOMAIN s
               PROVE  \E j \in DOMAIN t : (s \o t)[i] = t[j]
    BY <1>2
  <2>1. i - Len(s) \in DOMAIN t /\ (s \o t)[i] = t[i - Len(s)]
    BY <1>1
  <2> QED BY <2>1
<1>5. ToSet(s \o t) \subseteq ToSet(s) \cup ToSet(t)
  BY <1>4, Zenon DEF ToSet
<1>6. ToSet(s) \subseteq ToSet(s \o t)
  BY <1>2, Zenon DEF ToSet
<1>7. ToSet(t) \subseteq ToSet(s \o t)
  BY <1>3, Zenon DEF ToSet
<1> QED BY <1>1, <1>5, <1>6, <1>7

LEMMA ConcatDistinct ==
    ASSUME NEW S, NEW s \in Seq(S), NEW t \in Seq(S), Distinct(s), Distinct(t),
           Apart(ToSet(s), ToSet(t))
    PROVE  Distinct(s \o t)
<1>1. \A i \in DOMAIN (s \o t) :
         /\ i \in Nat
         /\ \/ i \in DOMAIN s /\ i <= Len(s) /\ (s \o t)[i] = s[i]
            \/ i - Len(s) \in DOMAIN t /\ i > Len(s) /\ (s \o t)[i] = t[i - Len(s)]
  OBVIOUS
<1>2. \A i, j \in Nat : i - Len(s) = j - Len(s) => i = j
  OBVIOUS
<1>3. \A i \in DOMAIN s, j \in DOMAIN t : s[i].task # t[j].task
  BY DEF Apart, ToSet
<1> QED BY <1>1, <1>2, <1>3 DEF Distinct

LEMMA PartSet ==
    ASSUME NEW S, NEW s \in Seq(S), NEW i \in 1 .. Len(s) + 1, NEW j \in 0 .. Len(s), i <= j + 1
    PROVE  /\ SubSeq(s, i, j) \in Seq(S) /\ Len(SubSeq(s, i, j)) = j - i + 1
           /\ ToSet(SubSeq(s, i, j)) = {s[k] : k \in i .. j}
<1>1. SubSeq(s, i, j) \in Seq(S) /\ Len(SubSeq(s, i, j)) = j - i + 1
  OBVIOUS
<1>2. \A k \in DOMAIN SubSeq(s, i, j) : SubSeq(s, i, j)[k] = s[i + k - 1] /\ i + k - 1 \in i .. j
  OBVIOUS
<1>3. \A k \in i .. j : k - i + 1 \in DOMAIN SubSeq(s, i, j) /\ SubSeq(s, i, j)[k - i + 1] = s[k]
  OBVIOUS
<1>4. ToSet(SubSeq(s, i, j)) \subseteq {s[k] : k \in i .. j}
  BY <1>2, Zenon DEF ToSet
<1>5. {s[k] : k \in i .. j} \subseteq ToSet(SubSeq(s, i, j))
  <2> SUFFICES ASSUME NEW k \in i .. j PROVE s[k] \in ToSet(SubSeq(s, i, j))
    OBVIOUS
  <2> QED BY <1>3, Zenon DEF ToSet
<1> QED BY <1>1, <1>4, <1>5

LEMMA PartDistinct ==
    ASSUME NEW S, NEW s \in Seq(S), NEW i \in 1 .. Len(s) + 1, NEW j \in 0 .. Len(s), i <= j + 1,
           Distinct(s)
    PROVE  Distinct(SubSeq(s, i, j))
<1>1. PICK q : q = SubSeq(s, i, j)
  OBVIOUS
<1>2. \A k \in DOMAIN q : q[k] = s[i + k - 1] /\ i + k - 1 \in DOMAIN s /\ k \in Nat
  BY <1>1
<1>3. \A k, l \in Nat : i + k - 1 = i + l - 1 => k = l
  OBVIOUS
<1>4. ASSUME NEW k \in DOMAIN q, NEW l \in DOMAIN q, q[k].task = q[l].task PROVE k = l
  <2>1. s[i + k - 1].task = s[i + l - 1].task
    BY <1>2, <1>4
  <2>2. i + k - 1 = i + l - 1
    BY <1>2, <2>1 DEF Distinct
  <2> QED BY <1>2, <1>3, <2>2
<1> QED BY <1>1, <1>4 DEF Distinct

LEMMA TailSet ==
    ASSUME NEW S, NEW s \in Seq(S), s # << >>, Distinct(s)
    PROVE  /\ Tail(s) \in Seq(S) /\ Head(s) \in ToSet(s) /\ Len(Tail(s)) = Len(s) - 1
           /\ ToSet(Tail(s)) = ToSet(s) \ {Head(s)}
           /\ Distinct(Tail(s)) /\ Apart(ToSet(Tail(s)), {Head(s)})
<1>1. /\ Tail(s) \in Seq(S) /\ Len(Tail(s)) = Len(s) - 1 /\ Head(s) = s[1] /\ 1 \in DOMAIN s
  OBVIOUS
<1>2. \A i \in DOMAIN Tail(s) :
         Tail(s)[i] = s[i + 1] /\ i + 1 \in DOMAIN s /\ i + 1 # 1 /\ i \in Nat
  OBVIOUS
<1>3. \A i \in DOMAIN s : i # 1 => i - 1 \in DOMAIN Tail(s) /\ Tail(s)[i - 1] = s[i]
  OBVIOUS
<1>4. \A i, j \in Nat : i + 1 = j + 1 => i = j
  OBVIOUS
<1>5. \A i \in DOMAIN s : i # 1 => s[i].task # s[1].task
  BY <1>1 DEF Distinct
<1>6. Distinct(Tail(s))
  BY <1>2, <1>4 DEF Distinct
<1>7. ToSet(Tail(s)) = ToSet(s) \ {Head(s)}
  <2>1. ToSet(Tail(s)) \subseteq ToSet(s) \ {Head(s)}
    BY <1>1, <1>2, <1>5 DEF ToSet
  <2>2. ToSet(s) \ {Head(s)} \subseteq ToSet(Tail(s))
    BY <1>1, <1>3 DEF ToSet
  <2> QED BY <2>1, <2>2
<1>8. Apart(ToSet(Tail(s)), {Head(s)})
  BY <1>1, <1>2, <1>5 DEF Apart, ToSet
<1> QED BY <1>1, <1>6, <1>7, <1>8 DEF ToSet

LEMMA InsertSet ==
    ASSUME NEW S, NEW s \in Seq(S), NEW e \in S, NEW i \in 1 .. Len(s) + 1
    PROVE  /\ InsertAt(s, i, e) \in Seq(S) /\ Len(InsertAt(s, i, e)) = Len(s) + 1
           /\ ToSet(InsertAt(s, i, e)) = ToSet(s) \cup {e}
<1> DEFINE l == SubSeq(s, 1, i - 1)
           r == SubSeq(s, i, Len(s))
<1>1. /\ l \in Seq(S) /\ Len(l) = i - 1 /\ ToSet(l) = {s[k] : k \in 1 .. i - 1}
      /\ r \in Seq(S) /\ Len(r) = Len(s) - i + 1 /\ ToSet(r) = {s[k] : k \in i .. Len(s)}
  <2>1. i - 1 \in 0 .. Len(s) /\ 1 \in 1 .. Len(s) + 1 /\ 1 <= i - 1 + 1 /\ i - 1 - 1 + 1 = i - 1
    OBVIOUS
  <2>2. Len(s) \in 0 .. Len(s) /\ i <= Len(s) + 1
    OBVIOUS
  <2>3. /\ l \in Seq(S) /\ Len(l) = i - 1 - 1 + 1 /\ ToSet(l) = {s[k] : k \in 1 .. i - 1}
    BY <2>1, PartSet
  <2>4. /\ r \in Seq(S) /\ Len(r) = Len(s) - i + 1 /\ ToSet(r) = {s[k] : k \in i .. Len(s)}
    BY <2>2, PartSet
  <2> QED BY <2>1, <2>3, <2>4
<1> HIDE DEF l, r
<1>2. PICK m : m = <<e>> /\ m \in Seq(S) /\ Len(m) = 1 /\ ToSet(m) = {e}
  <2>1. <<e>> \in Seq(S) /\ Len(<<e>>) = 1 /\ DOMAIN <<e>> = {1} /\ <<e>>[1] = e
    OBVIOUS
  <2>2. ToSet(<<e>>) = {e}
    BY <2>1, Zenon DEF ToSet
  <2> QED BY <2>1, <2>2
<1>3. /\ l \o m \in Seq(S) /\ ToSet(l \o m) = ToSet(l) \cup ToSet(m)
      /\ Len(l \o m) = Len(l) + Len(m)
  <2>1. l \in Seq(S) /\ m \in Seq(S)
    BY <1>1, <1>2
  <2> QED BY <2>1, ConcatSet
<1>4. /\ (l \o m) \o r \in Seq(S) /\ ToSet((l \o m) \o r) = ToSet(l \o m) \cup ToSet(r)
      /\ Len((l \o m) \o r) = Len(l \o m) + Len(r)
  BY <1>1, <1>3, ConcatSet, Zenon
<1>5. ToSet(l) \cup ToSet(r) = ToSet(s)
  <2>0. DOMAIN s = 1 .. Len(s) /\ Len(s) \in Nat
    OBVIOUS
  <2>1. (1 .. i - 1) \cup (i .. Len(s)) = DOMAIN s
    BY <2>0
  <2> QED BY <1>1, <2>1, Zenon DEF ToSet
<1>6. InsertAt(s, i, e) = (l \o m) \o r
  BY <1>2 DEF InsertAt, l, r
<1>7. Len(l \o m) + Len(r) = Len(s) + 1
  <2>1. Len(s) \in Nat /\ i \in Int
    OBVIOUS
  <2>2. Len(l) = i - 1 /\ Len(r) = Len(s) - i + 1 /\ Len(l \o m) = Len(l) + 1
    BY <1>1, <1>2, <1>3
  <2> QED BY <2>1, <2>2
<1>8. ToSet(l \o m) \cup ToSet(r) = ToSet(s) \cup {e}
  BY <1>2, <1>3, <1>5
<1> QED BY <1>4, <1>6, <1>7, <1>8, Zenon

LEMMA InsertDistinct ==
    ASSUME NEW S, NEW s \in Seq(S), NEW e \in S, NEW i \in 1 .. Len(s) + 1,
           Distinct(s), Apart(ToSet(s), {e})
    PROVE  Distinct(InsertAt(s, i, e))
<1>1. Len(InsertAt(s, i, e)) = Len(s) + 1 /\ InsertAt(s, i, e) \in Seq(S)
  BY InsertSet
<1>2. \A k \in DOMAIN InsertAt(s, i, e) :
         /\ k \in Nat
         /\ \/ k < i /\ k \in DOMAIN s /\ InsertAt(s, i, e)[k] = s[k]
            \/ k = i /\ InsertAt(s, i, e)[k] = e
            \/ k > i /\ k - 1 \in DOMAIN s /\ InsertAt(s, i, e)[k] = s[k - 1]
  <2> SUFFICES ASSUME NEW k \in 1 .. Len(s) + 1
               PROVE  \/ k < i /\ k \in DOMAIN s /\ InsertAt(s, i, e)[k] = s[k]
                      \/ k = i /\ InsertAt(s, i, e)[k] = e
                      \/ k > i /\ k - 1 \in DOMAIN s /\ InsertAt(s, i, e)[k] = s[k - 1]
    BY <1>1
  <2>0. Len(s) \in Nat /\ DOMAIN s = 1 .. Len(s)
    OBVIOUS
  <2>1. PICK l : l = SubSeq(s, 1, i - 1)
    OBVIOUS
  <2>2. l \in Seq(S) /\ Len(l) = i - 1 /\ \A j \in 1 .. i - 1 : l[j] = s[j]
    BY <2>0, <2>1
  <2>3. PICK r : r = SubSeq(s, i, Len(s))
    OBVIOUS
  <2>4. r \in Seq(S) /\ Len(r) = Len(s) - i + 1 /\ \A j \in 1 .. Len(r) : r[j] = s[i + j - 1]
    BY <2>0, <2>3
  <2>5. PICK m : m = l \o <<e>>
    OBVIOUS
  <2>6. m \in Seq(S) /\ Len(m) = i /\ m[i] = e /\ \A j \in 1 .. i - 1 : m[j] = s[j]
    BY <2>2, <2>5
  <2>7. InsertAt(s, i, e) = m \o r
    BY <2>1, <2>3, <2>5 DEF InsertAt
  <2>8. \A j \in 1 .. Len(s) + 1 : (m \o r)[j] = IF j <= i THEN m[j] ELSE r[j - i]
    BY <2>0, <2>4, <2>6
  <2>9. CASE k <= i
    BY <2>0, <2>6, <2>7, <2>8, <2>9
  <2>10. CASE k > i
    <3>1. k - i \in 1 .. Len(r) /\ i + (k - i) - 1 = k - 1 /\ k - 1 \in DOMAIN s
      BY <2>0, <2>4, <2>10
    <3>0. ~(k <= i)
      BY <2>10
    <3>2. InsertAt(s, i, e)[k] = r[k - i]
      BY <2>7, <2>8, <3>0, Zenon
    <3>3. r[k - i] = s[i + (k - i) - 1]
      BY <2>4, <3>1
    <3> QED BY <2>10, <3>1, <3>2, <3>3
  <2> QED BY <2>9, <2>10
<1>3. \A k \in DOMAIN s : s[k].task # e.task
  BY DEF Apart, ToSet
<1>4. \A k, l \in Nat : k < i /\ l > i => k # l - 1
  OBVIOUS
<1>5. \A k, l \in Nat : k - 1 = l - 1 => k = l
  OBVIOUS
<1> QED BY <1>2, <1>3, <1>4, <1>5 DEF Distinct
LEMMA ConcatAt ==
    ASSUME NEW S, NEW s \in Seq(S), NEW t \in Seq(S), NEW k \in 1 .. Len(s) + Len(t)
    PROVE  k \in Nat /\ (s \o t)[k] = IF k <= Len(s) THEN s[k] ELSE t[k - Len(s)]
OBVIOUS

\* Taking out the only element that is at one of the places I.
LEMMA RemovedPart ==
    ASSUME NEW S, NEW s \in Seq(S), NEW I, I \subseteq DOMAIN s, \A i, j \in I : i = j
    PROVE  /\ Removed(s, I) \in Seq(S) /\ Len(Removed(s, I)) <= Len(s)
           /\ (I # {} => Len(Removed(s, I)) = Len(s) - 1)
           /\ \E f \in [DOMAIN Removed(s, I) -> DOMAIN s \ I] :
                 /\ \A k \in DOMAIN Removed(s, I) : Removed(s, I)[k] = s[f[k]]
                 /\ \A k, l \in DOMAIN Removed(s, I) : f[k] = f[l] => k = l
                 /\ \A j \in DOMAIN s \ I : \E k \in DOMAIN Removed(s, I) : f[k] = j
<1>0. Len(s) \in Nat /\ DOMAIN s = 1 .. Len(s)
  OBVIOUS
<1>1. CASE I = {}
  <2>1. Removed(s, I) = s
    BY <1>1 DEF Removed
  <2> DEFINE f == [k \in DOMAIN s |-> k]
  <2>2. f \in [DOMAIN s -> DOMAIN s \ I] /\ \A k \in DOMAIN s : f[k] = k
    BY <1>1
  <2> HIDE DEF f
  <2> QED BY <1>0, <1>1, <2>1, <2>2
<1>2. CASE I # {}
  <2>1. PICK i \in DOMAIN s : i = (CHOOSE j \in I : TRUE) /\ I = {i}
    BY <1>2
  <2>2. PICK l : l = SubSeq(s, 1, i - 1)
    OBVIOUS
  <2>3. l \in Seq(S) /\ Len(l) = i - 1 /\ \A j \in 1 .. i - 1 : l[j] = s[j]
    BY <1>0, <2>2
  <2>4. PICK r : r = SubSeq(s, i + 1, Len(s))
    OBVIOUS
  <2>5. r \in Seq(S) /\ Len(r) = Len(s) - i /\ \A j \in 1 .. Len(r) : r[j] = s[i + 1 + j - 1]
    BY <1>0, <2>4
  <2>6. Removed(s, I) = l \o r
    BY <1>2, <2>1, <2>2, <2>4 DEF Removed, RemoveAt
  <2>7. PICK q : q = l \o r
    OBVIOUS
  <2>01. i \in Nat /\ 1 <= i /\ i <= Len(s)
    BY <1>0, <2>1
  <2>02. Len(l) \in Nat /\ Len(r) \in Nat /\ Len(l) = i - 1 /\ Len(r) = Len(s) - i
    BY <2>3, <2>5
  <2>0. /\ i \in Nat /\ 1 <= i /\ i <= Len(s)
        /\ Len(l) \in Nat /\ Len(r) \in Nat /\ Len(l) + Len(r) = Len(s) - 1
        /\ \A k \in Nat : k < i <=> k <= Len(l)
    BY <1>0, <2>01, <2>02
  <2>71. q \in Seq(S) /\ Len(q) = Len(l) + Len(r) /\ DOMAIN q = 1 .. Len(q)
    BY <2>3, <2>5, <2>7
  <2>72. \A k \in 1 .. Len(l) + Len(r) :
            k \in Nat /\ q[k] = IF k <= Len(l) THEN l[k] ELSE r[k - Len(l)]
    <3>1. /\ Len(l) \in Nat /\ Len(r) \in Nat /\ l \in Seq(S) /\ r \in Seq(S)
      BY <2>0, <2>3, <2>5
    <3> QED BY <2>7, <3>1, ConcatAt
  <2>8. /\ q \in Seq(S) /\ Len(q) = Len(s) - 1 /\ DOMAIN q = 1 .. Len(s) - 1
        /\ \A k \in DOMAIN q : /\ k \in Nat /\ 1 <= k /\ k <= Len(s) - 1
                                /\ q[k] = IF k < i THEN l[k] ELSE r[k - (i - 1)]
    BY <1>0, <2>0, <2>3, <2>71, <2>72
  <2> DEFINE f == [k \in DOMAIN q |-> IF k < i THEN k ELSE k + 1]
  <2>9. f \in [DOMAIN q -> DOMAIN s \ I]
    <3> SUFFICES ASSUME NEW k \in DOMAIN q
                 PROVE  (IF k < i THEN k ELSE k + 1) \in DOMAIN s \ I
      OBVIOUS
    <3>1. /\ k \in Nat /\ 1 <= k /\ k <= Len(s) - 1 /\ i \in Nat /\ Len(s) \in Nat
          /\ \A j : j \in DOMAIN s \ I <=> j \in 1 .. Len(s) /\ j # i
      BY <1>0, <2>0, <2>1, <2>8
    <3>2. IF k < i THEN k \in 1 .. Len(s) /\ k # i ELSE k + 1 \in 1 .. Len(s) /\ k + 1 # i
      BY <3>1
    <3> QED BY <3>1, <3>2, Zenon
  <2>10. \A k \in DOMAIN q : f[k] = IF k < i THEN k ELSE k + 1
    OBVIOUS
  <2> HIDE DEF f
  <2>11. ASSUME NEW k \in DOMAIN q PROVE q[k] = s[f[k]]
    <3>1. CASE k < i
      <4>1. k \in 1 .. i - 1
        BY <1>0, <2>1, <2>8, <3>1
      <4> QED BY <2>3, <2>8, <2>10, <3>1, <4>1
    <3>2. CASE ~(k < i)
      <4>1. k - (i - 1) \in 1 .. Len(r) /\ i + 1 + (k - (i - 1)) - 1 = k + 1
        <5>1. /\ k \in Nat /\ i \in Nat /\ Len(s) \in Nat /\ k <= Len(s) - 1 /\ i <= k
              /\ i <= Len(s)
          BY <1>0, <2>0, <2>8, <3>2
        <5>2. Len(r) = Len(s) - i
          BY <2>5, <5>1
        <5> QED BY <5>1, <5>2
      <4>2. r[k - (i - 1)] = s[i + 1 + (k - (i - 1)) - 1]
        BY <2>5, <4>1
      <4>3. q[k] = r[k - (i - 1)]
        BY <2>8, <3>2
      <4> QED BY <2>10, <3>2, <4>1, <4>2, <4>3
    <3> QED BY <3>1, <3>2
  <2>12. \A k, m \in DOMAIN q : f[k] = f[m] => k = m
    BY <2>0, <2>8, <2>10
  <2>13. ASSUME NEW j \in DOMAIN s \ I PROVE \E k \in DOMAIN q : f[k] = j
    <3>1. CASE j < i
      <4>1. j \in DOMAIN q
        BY <1>0, <2>1, <2>8, <3>1
      <4> QED BY <2>10, <3>1, <4>1
    <3>2. CASE ~(j < i)
      <4>1. j - 1 \in DOMAIN q /\ ~(j - 1 < i) /\ j - 1 + 1 = j
        BY <1>0, <2>1, <2>8, <3>2
      <4> QED BY <2>10, <4>1
    <3> QED BY <3>1, <3>2
  <2>14. /\ q \in Seq(S) /\ Len(q) <= Len(s) /\ Len(q) = Len(s) - 1
         /\ \E g \in [DOMAIN q -> DOMAIN s \ I] :
                 /\ \A k \in DOMAIN q : q[k] = s[g[k]]
                 /\ \A k, m \in DOMAIN q : g[k] = g[m] => k = m
                 /\ \A j \in DOMAIN s \ I : \E k \in DOMAIN q : g[k] = j
    BY <1>0, <2>8, <2>9, <2>11, <2>12, <2>13
  <2>15. Removed(s, I) = q
    BY <2>6, <2>7
  <2> QED BY <1>2, <2>14, <2>15
<1> QED BY <1>1, <1>2

Once(s) == \A i, j \in DOMAIN s : s[i] = s[j] => i = j

LEMMA WithoutSet ==
    ASSUME NEW S, NEW s \in Seq(S), NEW e, Once(s)
    PROVE  /\ Without(s, e) \in Seq(S) /\ Once(Without(s, e))
           /\ ToSet(Without(s, e)) = ToSet(s) \ {e}
<1> DEFINE I == {i \in DOMAIN s : s[i] = e}
           q == Removed(s, I)
<1>1. I \subseteq DOMAIN s /\ \A i, j \in I : i = j
  BY DEF Once
<1>2. Without(s, e) = q
  BY DEF Without
<1>3. \A i \in DOMAIN s : i \in I <=> s[i] = e
  OBVIOUS
<1> HIDE DEF I
<1>4. q \in Seq(S)
  BY <1>1, RemovedPart
<1>5. PICK f \in [DOMAIN q -> DOMAIN s \ I] :
         /\ \A k \in DOMAIN q : q[k] = s[f[k]]
         /\ \A k, l \in DOMAIN q : f[k] = f[l] => k = l
         /\ \A j \in DOMAIN s \ I : \E k \in DOMAIN q : f[k] = j
  BY <1>1, RemovedPart
<1> HIDE DEF q
<1>51. \A k \in DOMAIN q : f[k] \in DOMAIN s /\ s[f[k]] # e
  BY <1>3, <1>5
<1>6. Once(q)
  BY <1>5, <1>51 DEF Once
<1>7. ToSet(q) \subseteq ToSet(s) \ {e}
  BY <1>5, <1>51 DEF ToSet
<1>8. ToSet(s) \ {e} \subseteq ToSet(q)
  BY <1>3, <1>5 DEF ToSet
<1> QED BY <1>2, <1>4, <1>6, <1>7, <1>8

LEMMA AppendOnce ==
    ASSUME NEW S, NEW s \in Seq(S), NEW e \in S, Once(s), e \notin ToSet(s)
    PROVE  Once(Append(s, e))
BY DEF ToSet, Once

LEMMA TailOnce ==
    ASSUME NEW S, NEW s \in Seq(S), s # << >>, Once(s)
    PROVE  /\ Tail(s) \in Seq(S) /\ Head(s) \in S /\ Once(Tail(s)) /\ Head(s) \in ToSet(s)
           /\ ToSet(Tail(s)) = ToSet(s) \ {Head(s)}
<1>1. /\ Tail(s) \in Seq(S) /\ Head(s) = s[1] /\ 1 \in DOMAIN s /\ Head(s) \in S
  OBVIOUS
<1>2. \A i \in DOMAIN Tail(s) :
         Tail(s)[i] = s[i + 1] /\ i + 1 \in DOMAIN s /\ i + 1 # 1 /\ i \in Nat
  OBVIOUS
<1>3. \A i \in DOMAIN s : i # 1 => i - 1 \in DOMAIN Tail(s) /\ Tail(s)[i - 1] = s[i]
  OBVIOUS
<1>4. \A i, j \in Nat : i + 1 = j + 1 => i = j
  OBVIOUS
<1>5. \A i \in DOMAIN s : i # 1 => s[i] # s[1]
  BY <1>1 DEF Once
<1>6. Once(Tail(s))
  BY <1>2, <1>4 DEF Once
<1>7. ToSet(Tail(s)) \subseteq ToSet(s) \ {Head(s)}
  BY <1>1, <1>2, <1>5 DEF ToSet
<1>8. ToSet(s) \ {Head(s)} \subseteq ToSet(Tail(s))
  BY <1>1, <1>3 DEF ToSet
<1>9. Head(s) \in ToSet(s)
  BY <1>1 DEF ToSet
<1> QED BY <1>1, <1>6, <1>7, <1>8, <1>9

\* What a bounded list keeps is within the bound and was in it before.
LEMMA KeepPart ==
    ASSUME NEW S, NEW s \in Seq(S), NEW n \in Nat
    PROVE  /\ Keep(s, n) \in Seq(S) /\ Len(Keep(s, n)) <= n
           /\ ToSet(Keep(s, n)) \subseteq ToSet(s) /\ (Distinct(s) => Distinct(Keep(s, n)))
<1>0. Len(s) \in Nat /\ DOMAIN s = 1 .. Len(s)
  OBVIOUS
<1>1. CASE Len(s) <= n
  BY <1>0, <1>1 DEF Keep
<1>2. CASE ~(Len(s) <= n)
  <2> DEFINE i == Len(s) - n + 1
             j == Len(s)
  <2>1. i \in 1 .. Len(s) + 1 /\ j \in 0 .. Len(s) /\ i <= j + 1 /\ j - i + 1 = n
    BY <1>0, <1>2
  <2>2. Keep(s, n) = SubSeq(s, i, j)
    BY <1>0, <1>2 DEF Keep
  <2>3. {s[k] : k \in i .. j} \subseteq ToSet(s)
    <3>1. i .. j \subseteq DOMAIN s
      BY <1>0, <2>1
    <3> QED BY <3>1, Zenon DEF ToSet
  <2> HIDE DEF i, j
  <2>4. /\ SubSeq(s, i, j) \in Seq(S) /\ Len(SubSeq(s, i, j)) = j - i + 1
        /\ ToSet(SubSeq(s, i, j)) = {s[k] : k \in i .. j}
    BY <2>1, PartSet
  <2>5. Distinct(s) => Distinct(SubSeq(s, i, j))
    BY <2>1, PartDistinct
  <2> QED BY <2>1, <2>2, <2>3, <2>4, <2>5
<1> QED BY <1>1, <1>2
-----------------------------------------------------------------------------
(* Types, the status table as a set of records with one for each task, and the wait list: *)
(* a sleeper is on it once, and whoever is on it sleeps or has just been woken by its     *)
(* timeout.                                                                              *)

TypeOK ==
    /\ ready \in Seq(Envelope) /\ delayed \in Seq(Envelope)
    /\ due \in Nat /\ due <= Len(delayed)
    /\ deadList \in Seq(Envelope) /\ table \in Seq(Record) /\ closed \in BOOLEAN
    /\ waiters \in Seq(Thread) /\ pc \in [Thread -> Pc] /\ job \in [Thread -> Envelope]
    /\ stopping \in BOOLEAN
    /\ done \subseteq Task /\ dead \subseteq Task /\ torn \subseteq Task /\ unnotified \in Nat

TableSound == Distinct(table) /\ Len(table) <= StatusMax

Listed(list, at) ==
    /\ Once(list)
    /\ \A w \in Thread : at[w] = "waiting" => w \in ToSet(list)
    /\ \A w \in ToSet(list) : at[w] \in {"waiting", "reserve"}
WaitersSound == Listed(waiters, pc)

Base == TypeOK /\ TableSound /\ WaitersSound

LEMMA EnvelopeFields ==
    /\ \A e \in Envelope : e.task \in Task /\ e.attempts \in Nat
    /\ \A t \in Task, n \in Nat : [task |-> t, attempts |-> n] \in Envelope
BY DEF Envelope

LEMMA StatusPart ==
    ASSUME table \in Seq(Record), TableSound, NEW env \in Envelope, NEW s \in Status,
           SetStatus(env, s)
    PROVE  /\ table' \in Seq(Record) /\ TableSound' /\ RecordOf(env, s) \in Record
           /\ \A r \in ToSet(table') :
                 r = RecordOf(env, s) \/ (r \in ToSet(table) /\ r.task # env.task)
<1> DEFINE I == {i \in DOMAIN table : table[i].task = env.task}
           q == Removed(table, I)
<1>1. I \subseteq DOMAIN table /\ \A i, j \in I : i = j
  BY DEF TableSound, Distinct
<1>2. \A i \in DOMAIN table : i \in I <=> table[i].task = env.task
  OBVIOUS
<1>3. table' = Keep(Append(q, RecordOf(env, s)), StatusMax)
  BY DEF SetStatus
<1>4. RecordOf(env, s) \in Record /\ RecordOf(env, s).task = env.task
  BY EnvelopeFields DEF RecordOf, Record
<1> HIDE DEF I
<1>5. q \in Seq(Record)
  BY <1>1, RemovedPart
<1>6. PICK f \in [DOMAIN q -> DOMAIN table \ I] :
         /\ \A k \in DOMAIN q : q[k] = table[f[k]]
         /\ \A k, l \in DOMAIN q : f[k] = f[l] => k = l
  BY <1>1, RemovedPart
<1> HIDE DEF q
<1>7. \A k \in DOMAIN q : f[k] \in DOMAIN table /\ table[f[k]].task # env.task
  BY <1>2, <1>6
<1>8. Distinct(q)
  BY <1>6, <1>7 DEF TableSound, Distinct
<1>9. \A r \in ToSet(q) : r \in ToSet(table) /\ r.task # env.task
  BY <1>6, <1>7 DEF ToSet
<1> DEFINE p == Append(q, RecordOf(env, s))
<1>10. p \in Seq(Record) /\ ToSet(p) = ToSet(q) \cup {RecordOf(env, s)}
  BY <1>4, <1>5, AppendSet
<1>11. Distinct(p)
  BY <1>4, <1>5, <1>8, <1>9, AppendDistinct DEF Apart
<1> HIDE DEF p
<1>12. StatusMax \in Nat
  BY MemoryAssumption
<1>13. /\ Keep(p, StatusMax) \in Seq(Record) /\ Len(Keep(p, StatusMax)) <= StatusMax
       /\ ToSet(Keep(p, StatusMax)) \subseteq ToSet(p) /\ Distinct(Keep(p, StatusMax))
  BY <1>10, <1>11, <1>12, KeepPart
<1>14. table' = Keep(p, StatusMax)
  BY <1>3 DEF p
<1>15. TableSound'
  BY <1>13, <1>14 DEF TableSound
<1>16. ASSUME NEW r \in ToSet(table')
       PROVE  r = RecordOf(env, s) \/ (r \in ToSet(table) /\ r.task # env.task)
  <2>1. ToSet(table') = ToSet(Keep(p, StatusMax))
    BY <1>14
  <2>2. r \in ToSet(q) \cup {RecordOf(env, s)}
    BY <1>10, <1>13, <2>1, <1>16
  <2> QED BY <1>9, <2>2
<1> QED BY <1>4, <1>13, <1>14, <1>15, <1>16

\* notify either wakes the head of the list or finds nobody on it.
Wakes(at) ==
    \/ waiters' = waiters /\ pc' = at /\ ~\E w \in Thread : at[w] = "waiting"
    \/ \E h \in ToSet(waiters) :
          /\ ToSet(waiters') = ToSet(waiters) \ {h}
          /\ at[h] \in {"waiting", "reserve"} /\ pc' = [at EXCEPT ![h] = "reserve"]

LEMMA NotifyPart ==
    ASSUME waiters \in Seq(Thread), NEW at \in [Thread -> Pc], Listed(waiters, at), Notify(at)
    PROVE  /\ waiters' \in Seq(Thread) /\ pc' \in [Thread -> Pc] /\ WaitersSound'
           /\ Wakes(at)
<1>1. CASE waiters = << >>
  <2>1. ToSet(waiters) = {}
    BY <1>1 DEF ToSet
  <2>2. waiters' = waiters /\ pc' = at
    BY <1>1 DEF Notify
  <2> QED BY <2>1, <2>2 DEF Listed, WaitersSound, Wakes
<1>2. CASE waiters # << >>
  <2>1. PICK h : h = Head(waiters)
    OBVIOUS
  <2>2. waiters' = Tail(waiters) /\ pc' = [at EXCEPT ![h] = "reserve"]
    BY <1>2, <2>1 DEF Notify
  <2>3. /\ waiters' \in Seq(Thread) /\ h \in Thread /\ Once(waiters') /\ h \in ToSet(waiters)
        /\ ToSet(waiters') = ToSet(waiters) \ {h}
    BY <1>2, <2>1, <2>2, TailOnce DEF Listed
  <2>4. at[h] \in {"waiting", "reserve"} /\ "reserve" \in Pc
    BY <2>3 DEF Listed, Pc
  <2>5. pc' \in [Thread -> Pc] /\ \A w \in Thread : pc'[w] = IF w = h THEN "reserve" ELSE at[w]
    BY <2>2, <2>3, <2>4
  <2>6. ToSet(waiters) \subseteq Thread
    BY DEF ToSet
  <2>7. WaitersSound'
    BY <2>3, <2>5, <2>6 DEF Listed, WaitersSound
  <2> QED BY <2>2, <2>3, <2>4, <2>5, <2>7 DEF Wakes
<1> QED BY <1>1, <1>2

\* A step after which one thread is elsewhere, and the list the same.
LEMMA GoesOn ==
    ASSUME TypeOK, WaitersSound, NEW w \in Thread, NEW l \in Pc, pc' = [pc EXCEPT ![w] = l],
           l # "waiting", w \notin ToSet(waiters) \/ l = "reserve", waiters' = waiters
    PROVE  waiters' \in Seq(Thread) /\ pc' \in [Thread -> Pc] /\ WaitersSound'
BY DEF TypeOK, WaitersSound, Listed

LEMMA Awake ==
    ASSUME TypeOK, WaitersSound, NEW w \in Thread, pc[w] \notin {"waiting", "reserve"}
    PROVE  w \notin ToSet(waiters)
BY DEF WaitersSound, Listed

\* A step that takes the thread off the list.
LEMMA LeavesList ==
    ASSUME TypeOK, WaitersSound, NEW w \in Thread, NEW l \in Pc, pc' = [pc EXCEPT ![w] = l],
           l # "waiting", waiters' = Without(waiters, w)
    PROVE  waiters' \in Seq(Thread) /\ pc' \in [Thread -> Pc] /\ WaitersSound'
           /\ ToSet(waiters') = ToSet(waiters) \ {w}
<1>1. /\ Without(waiters, w) \in Seq(Thread) /\ Once(Without(waiters, w))
      /\ ToSet(Without(waiters, w)) = ToSet(waiters) \ {w}
  BY WithoutSet DEF TypeOK, WaitersSound, Listed
<1> QED BY <1>1 DEF TypeOK, WaitersSound, Listed

\* What is due moves to the ready queue.
LEMMA PromotedPart ==
    ASSUME TypeOK
    PROVE  /\ Promoted \in Seq(Envelope) /\ LeftDelayed \in Seq(Envelope)
           /\ ToSet(Promoted) \cup ToSet(LeftDelayed) = Waiting
           /\ Len(Promoted) = Len(ready) + due
<1>0. /\ Len(delayed) \in Nat /\ DOMAIN delayed = 1 .. Len(delayed)
      /\ due \in Nat /\ due <= Len(delayed)
  BY DEF TypeOK
<1> DEFINE p == SubSeq(delayed, 1, due)
<1>1. p \in Seq(Envelope) /\ Len(p) = due - 1 + 1 /\ ToSet(p) = {delayed[k] : k \in 1 .. due}
  <2>1. 1 \in 1 .. Len(delayed) + 1 /\ due \in 0 .. Len(delayed) /\ 1 <= due + 1
    BY <1>0
  <2> QED BY <2>1, PartSet DEF TypeOK
<1>2. /\ LeftDelayed \in Seq(Envelope)
      /\ ToSet(LeftDelayed) = {delayed[k] : k \in due + 1 .. Len(delayed)}
  <2>1. /\ due + 1 \in 1 .. Len(delayed) + 1 /\ Len(delayed) \in 0 .. Len(delayed)
        /\ due + 1 <= Len(delayed) + 1
    BY <1>0
  <2>2. PICK i : i = due + 1
    OBVIOUS
  <2>3. PICK j : j = Len(delayed)
    OBVIOUS
  <2>4. /\ SubSeq(delayed, i, j) \in Seq(Envelope)
        /\ ToSet(SubSeq(delayed, i, j)) = {delayed[k] : k \in i .. j}
    <3>1. /\ i \in 1 .. Len(delayed) + 1 /\ j \in 0 .. Len(delayed) /\ i <= j + 1
          /\ delayed \in Seq(Envelope)
      BY <2>1, <2>2, <2>3 DEF TypeOK
    <3> QED BY <3>1, PartSet
  <2> QED BY <2>2, <2>3, <2>4 DEF LeftDelayed
<1> HIDE DEF p
<1>3. Promoted = ready \o p
  BY DEF Promoted, p
<1>4. /\ ready \o p \in Seq(Envelope) /\ ToSet(ready \o p) = ToSet(ready) \cup ToSet(p)
      /\ Len(ready \o p) = Len(ready) + Len(p)
  BY <1>1, ConcatSet DEF TypeOK
<1>5. ToSet(p) \cup ToSet(LeftDelayed) = ToSet(delayed)
  <2>1. (1 .. due) \cup (due + 1 .. Len(delayed)) = DOMAIN delayed
    BY <1>0
  <2> QED BY <1>1, <1>2, <2>1, Zenon DEF ToSet
<1>6. Len(p) = due
  BY <1>0, <1>1
<1> QED BY <1>2, <1>3, <1>4, <1>5, <1>6 DEF Waiting

LEMMA PushPart ==
    ASSUME TypeOK, NEW env \in Envelope, PushDelayed(env)
    PROVE  /\ delayed' \in Seq(Envelope) /\ Len(delayed') = Len(delayed) + 1
           /\ ToSet(delayed') = ToSet(delayed) \cup {env}
           /\ Distinct(delayed) /\ Apart(ToSet(delayed), {env}) => Distinct(delayed')
<1>1. PICK i \in due + 1 .. Len(delayed) + 1 : delayed' = InsertAt(delayed, i, env)
  BY DEF PushDelayed
<1>2. i \in 1 .. Len(delayed) + 1 /\ delayed \in Seq(Envelope)
  BY DEF TypeOK
<1>3. /\ InsertAt(delayed, i, env) \in Seq(Envelope)
      /\ Len(InsertAt(delayed, i, env)) = Len(delayed) + 1
      /\ ToSet(InsertAt(delayed, i, env)) = ToSet(delayed) \cup {env}
  BY <1>2, InsertSet
<1>4. Distinct(delayed) /\ Apart(ToSet(delayed), {env}) => Distinct(InsertAt(delayed, i, env))
  BY <1>2, InsertDistinct
<1> QED BY <1>1, <1>3, <1>4
-----------------------------------------------------------------------------
(* What each step does, for the rest of the module: which envelopes wait, which threads   *)
(* have one in hand, what is recorded.  The two lists and the wait list are done with      *)
(* here, the invariants below are proved from these summaries.                             *)

LineSound ==
    Distinct(ready) /\ Distinct(delayed) /\ Apart(ToSet(ready), ToSet(delayed))
HandsSound ==
    /\ \A w \in Thread : Holds(w) => Apart(Waiting, {job[w]})
    /\ \A v, w \in Thread : Holds(v) /\ Holds(w) /\ job[v].task = job[w].task => v = w

\* The threads of T have in hand what they had before.
SameHands(T) ==
    \A v \in T : IF Holds(v) THEN pc'[v] = pc[v] /\ job'[v] = job[v] ELSE ~Holds(v)'
Others(w) == SameHands(Thread \ {w})

Fresh(t) == [task |-> t, attempts |-> 0]
Again(env) == [task |-> env.task, attempts |-> env.attempts + 1]

Enters(t) ==
    /\ ~Taken(t) /\ Waiting' = Waiting \cup {Fresh(t)} /\ SetStatus(Fresh(t), "queued")
    /\ SameHands(Thread) /\ UNCHANGED <<deadList, done, dead, torn>>
Rests ==
    /\ Waiting' = Waiting /\ SameHands(Thread)
    /\ UNCHANGED <<table, deadList, done, dead, torn>>
Picks(w) ==
    /\ ~Holds(w) /\ pc'[w] = "run" /\ job'[w] \in Waiting /\ Waiting' = Waiting \ {job'[w]}
    /\ SetStatus(job'[w], "running") /\ Others(w) /\ UNCHANGED <<deadList, done, dead, torn>>
Finishes(w) ==
    /\ pc[w] = "run" /\ pc'[w] = "ack" /\ job'[w] = job[w] /\ done' = done \cup {job[w].task}
    /\ Waiting' = Waiting /\ Others(w) /\ UNCHANGED <<table, deadList, dead, torn>>
Confirms(w) ==
    /\ pc[w] = "ack" /\ ~Holds(w)' /\ SetStatus(job[w], "succeeded")
    /\ Waiting' = Waiting /\ Others(w) /\ UNCHANGED <<deadList, done, dead, torn>>
PutsBack(w) ==
    /\ pc[w] = "run" /\ ~Holds(w)' /\ SetStatus(Again(job[w]), "retrying")
    /\ Waiting' = Waiting \cup {Again(job[w])} /\ Others(w)
    /\ UNCHANGED <<deadList, done, dead, torn>>
Buries(w) ==
    /\ pc[w] = "run" /\ ~Holds(w)' /\ SetStatus(job[w], "dead") /\ Exhausted(job[w])
    /\ deadList' = Keep(Append(deadList, job[w]), DeadMax) /\ dead' = dead \cup {job[w].task}
    /\ Waiting' = Waiting /\ Others(w) /\ UNCHANGED <<done, torn>>
Exits(w) ==
    /\ pc[w] = "run" /\ ~Holds(w)' /\ torn' = torn \cup {job[w].task}
    /\ Waiting' = Waiting /\ Others(w) /\ UNCHANGED <<table, deadList, done, dead>>

Move ==
    \/ Rests \/ \E t \in Task : Enters(t)
    \/ \E w \in Thread : \/ Picks(w) \/ Finishes(w) \/ Confirms(w) \/ PutsBack(w)
                         \/ Buries(w) \/ Exits(w)

Sound == Base /\ LineSound

LEMMA EnqueueMoves ==
    ASSUME Sound, NEW t \in Task, Enqueue(t)
    PROVE  Sound' /\ Enters(t) /\ Wakes(pc) /\ Len(ready') <= Len(ready) + 1 /\ Len(ready') \in Nat
           /\ unnotified' = unnotified
<1> DEFINE env == Fresh(t)
<1>1. env \in Envelope /\ env.task = t
  BY EnvelopeFields DEF Fresh
<1>2. /\ ~Taken(t) /\ SetStatus(env, "queued") /\ Notify(pc)
      /\ \/ PushDelayed(env) /\ ready' = ready
         \/ ready' = Append(ready, env) /\ delayed' = delayed
      /\ UNCHANGED <<due, deadList, closed, job, stopping, done, dead, torn, unnotified>>
  BY DEF Enqueue, Fresh, history
<1> HIDE DEF env
<1>3. Apart(ToSet(ready), {env}) /\ Apart(ToSet(delayed), {env})
  BY <1>1, <1>2 DEF Taken, Owed, Waiting, Apart
<1>4. /\ ready' \in Seq(Envelope) /\ delayed' \in Seq(Envelope) /\ Len(delayed) <= Len(delayed')
      /\ Waiting' = Waiting \cup {env} /\ LineSound'
      /\ Len(ready') <= Len(ready) + 1
  <2>0. Len(delayed) \in Nat /\ Len(ready) \in Nat
    BY DEF Sound, Base, TypeOK
  <2>1. CASE PushDelayed(env) /\ ready' = ready
    <3>1. /\ delayed' \in Seq(Envelope) /\ Len(delayed') = Len(delayed) + 1
          /\ ToSet(delayed') = ToSet(delayed) \cup {env} /\ Distinct(delayed')
      BY <1>1, <1>3, <2>1, PushPart DEF Sound, Base, LineSound
    <3>2. LineSound'
      BY <1>3, <2>1, <3>1 DEF LineSound, Sound, Apart
    <3> QED BY <2>0, <2>1, <3>1, <3>2 DEF Sound, Base, TypeOK, Waiting
  <2>2. CASE ready' = Append(ready, env) /\ delayed' = delayed
    <3>1. /\ ready' \in Seq(Envelope) /\ ToSet(ready') = ToSet(ready) \cup {env}
          /\ Len(ready') = Len(ready) + 1
      BY <1>1, <2>2, AppendSet DEF Sound, Base, TypeOK
    <3>2. Distinct(ready')
      BY <1>1, <1>3, <2>2, AppendDistinct DEF Sound, Base, TypeOK, LineSound
    <3>3. LineSound'
      BY <1>3, <2>2, <3>1, <3>2 DEF LineSound, Sound, Apart
    <3> QED BY <2>0, <2>2, <3>1, <3>3 DEF Sound, Base, TypeOK, Waiting
  <2> QED BY <1>2, <2>1, <2>2
<1>5. waiters' \in Seq(Thread) /\ pc' \in [Thread -> Pc] /\ WaitersSound' /\ Wakes(pc)
  BY <1>2, NotifyPart DEF Sound, Base, TypeOK, WaitersSound
<1>6. table' \in Seq(Record) /\ TableSound'
  BY <1>1, <1>2, StatusPart DEF Sound, Base, TypeOK, Status
<1>7. SameHands(Thread)
  BY <1>2, <1>5 DEF SameHands, Holds, Wakes, Sound, Base, TypeOK
<1>8. TypeOK'
  BY <1>2, <1>4, <1>5, <1>6 DEF Sound, Base, TypeOK
<1> QED BY <1>2, <1>4, <1>5, <1>6, <1>7, <1>8 DEF Sound, Base, Enters, env, TypeOK

\* Moving what is due from one list to the other.
LEMMA PromotedSound ==
    ASSUME TypeOK, LineSound
    PROVE  Distinct(Promoted) /\ Distinct(LeftDelayed) /\ Apart(ToSet(Promoted), ToSet(LeftDelayed))
<1>0. /\ Len(delayed) \in Nat /\ DOMAIN delayed = 1 .. Len(delayed)
      /\ due \in Nat /\ due <= Len(delayed)
  BY DEF TypeOK
<1>1. PICK p : p = SubSeq(delayed, 1, due)
  OBVIOUS
<1>2. /\ p \in Seq(Envelope) /\ ToSet(p) = {delayed[k] : k \in 1 .. due} /\ Distinct(p)
  <2>1. 1 \in 1 .. Len(delayed) + 1 /\ due \in 0 .. Len(delayed) /\ 1 <= due + 1
    BY <1>0
  <2>2. delayed \in Seq(Envelope) /\ Distinct(delayed)
    BY DEF TypeOK, LineSound
  <2>3. p \in Seq(Envelope) /\ ToSet(p) = {delayed[k] : k \in 1 .. due}
    BY <1>1, <2>1, <2>2, PartSet
  <2>4. Distinct(p)
    BY <1>1, <2>1, <2>2, PartDistinct
  <2> QED BY <2>3, <2>4
<1>3. PICK i : i = due + 1
  OBVIOUS
<1>4. PICK j : j = Len(delayed)
  OBVIOUS
<1>5. /\ ToSet(LeftDelayed) = {delayed[k] : k \in i .. j} /\ Distinct(LeftDelayed)
  <2>1. /\ i \in 1 .. Len(delayed) + 1 /\ j \in 0 .. Len(delayed) /\ i <= j + 1
        /\ delayed \in Seq(Envelope) /\ Distinct(delayed)
    BY <1>0, <1>3, <1>4 DEF TypeOK, LineSound
  <2>2. LeftDelayed = SubSeq(delayed, i, j)
    BY <1>3, <1>4 DEF LeftDelayed
  <2>3. ToSet(SubSeq(delayed, i, j)) = {delayed[k] : k \in i .. j}
    BY <2>1, PartSet
  <2>4. Distinct(SubSeq(delayed, i, j))
    BY <2>1, PartDistinct
  <2> QED BY <2>2, <2>3, <2>4
<1>6. ToSet(p) \subseteq ToSet(delayed) /\ ToSet(LeftDelayed) \subseteq ToSet(delayed)
  <2>1. 1 .. due \subseteq DOMAIN delayed /\ i .. j \subseteq DOMAIN delayed
    BY <1>0, <1>3, <1>4
  <2> QED BY <1>2, <1>5, <2>1, Zenon DEF ToSet
<1>7. Apart(ToSet(p), ToSet(LeftDelayed))
  <2> SUFFICES ASSUME NEW k \in 1 .. due, NEW l \in i .. j PROVE delayed[k].task # delayed[l].task
    BY <1>2, <1>5 DEF Apart
  <2>1. k \in DOMAIN delayed /\ l \in DOMAIN delayed /\ k # l
    BY <1>0, <1>3, <1>4
  <2> QED BY <2>1 DEF LineSound, Distinct
<1>8. Promoted = ready \o p
  BY <1>1 DEF Promoted
<1>9. Distinct(ready \o p)
  <2>1. Apart(ToSet(ready), ToSet(p))
    BY <1>6 DEF LineSound, Apart
  <2> QED BY <1>2, <2>1, ConcatDistinct DEF TypeOK, LineSound
<1>10. ToSet(ready \o p) = ToSet(ready) \cup ToSet(p)
  BY <1>2, ConcatSet DEF TypeOK
<1> QED BY <1>5, <1>6, <1>7, <1>8, <1>9, <1>10 DEF LineSound, Apart
LEMMA StatsMoves == ASSUME Sound, Stats PROVE Sound' /\ Rests
<1>1. /\ ready' = Promoted /\ delayed' = LeftDelayed /\ due' = 0
      /\ unnotified' = unnotified + due
      /\ UNCHANGED <<deadList, table, closed, waiters, pc, job, stopping, done, dead, torn>>
  BY DEF Stats, PromoteDue, threads
<1>2. /\ ready' \in Seq(Envelope) /\ delayed' \in Seq(Envelope) /\ 0 <= Len(delayed')
      /\ Waiting' = Waiting /\ unnotified' \in Nat
  BY <1>1, PromotedPart DEF Sound, Base, TypeOK, Waiting
<1>3. LineSound'
  BY <1>1, PromotedSound DEF Sound, Base, LineSound
<1>4. TypeOK'
  BY <1>1, <1>2 DEF Sound, Base, TypeOK
<1>5. TableSound' /\ WaitersSound' /\ SameHands(Thread)
  BY <1>1 DEF Sound, Base, TableSound, WaitersSound, Listed, SameHands, Holds
<1> QED BY <1>1, <1>2, <1>3, <1>4, <1>5 DEF Sound, Base, Rests

LEMMA CloseMoves == ASSUME Sound, Close PROVE Sound' /\ Rests
<1>1. /\ closed' = TRUE /\ waiters' = << >>
      /\ pc' = [w \in Thread |-> IF w \in ToSet(waiters) THEN "reserve" ELSE pc[w]]
      /\ UNCHANGED <<ready, delayed, due, deadList, table, job, stopping, done, dead, torn,
                     unnotified>>
  BY DEF Close, history
<1>2. waiters' \in Seq(Thread) /\ ToSet(waiters') = {} /\ Once(waiters')
  BY <1>1 DEF ToSet, Once
<1>3. /\ pc' \in [Thread -> Pc]
      /\ \A w \in Thread : pc'[w] # "waiting" /\ (pc'[w] = pc[w] \/ ~Holds(w))
  BY <1>1 DEF Sound, Base, TypeOK, WaitersSound, Listed, Pc, Holds
<1>4. SameHands(Thread)
  BY <1>1, <1>3 DEF SameHands, Holds, Sound, Base, WaitersSound, Listed
<1>5. TypeOK' /\ TableSound' /\ WaitersSound' /\ LineSound'
  BY <1>1, <1>2, <1>3 DEF Sound, Base, TypeOK, TableSound, WaitersSound, Listed, LineSound
<1> QED BY <1>1, <1>4, <1>5 DEF Sound, Base, Rests, Waiting

LEMMA PassingMoves ==
    ASSUME Sound, Stop \/ ComeDue \/ UNCHANGED vars
    PROVE  Sound' /\ Rests /\ UNCHANGED <<ready, waiters, pc, unnotified>>
<1>1. /\ due' \in Nat /\ due' <= Len(delayed) /\ stopping' \in BOOLEAN
      /\ UNCHANGED <<ready, delayed, deadList, table, closed, waiters, pc, job, done, dead, torn,
                     unnotified>>
  <2>0. /\ due \in Nat /\ due <= Len(delayed) /\ Len(delayed) \in Nat /\ stopping \in BOOLEAN
    BY DEF Sound, Base, TypeOK
  <2>1. CASE Stop \/ UNCHANGED vars
    BY <2>0, <2>1 DEF Stop, vars, queue, threads, history
  <2>2. CASE ComeDue
    BY <2>0, <2>2 DEF ComeDue, threads, history
  <2> QED BY <2>1, <2>2
<1>2. Sound'
  BY <1>1 DEF Sound, Base, TypeOK, TableSound, WaitersSound, Listed, LineSound
<1> QED BY <1>1, <1>2 DEF Rests, SameHands, Holds, Waiting

\* The loop, the wait and the return from it.
LEMMA IdleMoves ==
    ASSUME Sound, NEW w \in Thread,
           Begin(w) \/ ReserveNothing(w) \/ Wait(w) \/ Timeout(w)
    PROVE  Sound' /\ Rests
<1>1. /\ UNCHANGED <<queue, job, stopping, history>>
      /\ pc[w] \in {"loop", "reserve", "waiting"}
      /\ \E l \in Pc \ {"run", "ack"} : pc' = [pc EXCEPT ![w] = l]
  BY DEF Begin, ReserveNothing, Wait, Timeout, Goto, Pc
<1>2. waiters' \in Seq(Thread) /\ pc' \in [Thread -> Pc] /\ WaitersSound'
  <2>1. CASE Begin(w)
    BY <2>1, Awake, GoesOn DEF Begin, Goto, Pc, Sound, Base
  <2>2. CASE ReserveNothing(w)
    BY <2>2, LeavesList DEF ReserveNothing, Goto, Pc, Sound, Base
  <2>3. CASE Wait(w)
    <3>1. /\ Without(waiters, w) \in Seq(Thread) /\ Once(Without(waiters, w))
          /\ ToSet(Without(waiters, w)) = ToSet(waiters) \ {w}
      BY WithoutSet DEF Sound, Base, TypeOK, WaitersSound, Listed
    <3>2. /\ waiters' \in Seq(Thread) /\ ToSet(waiters') = ToSet(waiters) \cup {w}
          /\ Once(waiters')
      BY <2>3, <3>1, AppendSet, AppendOnce DEF Wait
    <3>3. pc' = [pc EXCEPT ![w] = "waiting"]
      BY <2>3 DEF Wait, Goto
    <3> QED BY <3>2, <3>3 DEF Sound, Base, TypeOK, WaitersSound, Listed, Pc
  <2>4. CASE Timeout(w)
    BY <2>4, GoesOn DEF Timeout, Goto, Pc, Sound, Base
  <2> QED BY <2>1, <2>2, <2>3, <2>4
<1>3. Sound'
  BY <1>1, <1>2 DEF Sound, Base, TypeOK, TableSound, LineSound, queue, history
<1>4. SameHands(Thread)
  BY <1>1 DEF SameHands, Holds, Sound, Base, TypeOK
<1> QED BY <1>1, <1>3, <1>4 DEF Rests, Waiting, queue, history

LEMMA ReserveMoves ==
    ASSUME Sound, NEW w \in Thread, Reserve(w)
    PROVE  /\ Sound' /\ Picks(w) /\ ToSet(waiters') = ToSet(waiters) \ {w}
           /\ pc' = [pc EXCEPT ![w] = "run"] /\ Len(ready') = Len(ready) + due - 1
<1>1. PICK env : env = Head(Promoted)
  OBVIOUS
<1>2. /\ Promoted # << >> /\ pc[w] = "reserve" /\ ready' = Tail(Promoted) /\ delayed' = LeftDelayed
      /\ due' = 0 /\ unnotified' = unnotified + due /\ job' = [job EXCEPT ![w] = env]
      /\ SetStatus(env, "running") /\ waiters' = Without(waiters, w)
      /\ pc' = [pc EXCEPT ![w] = "run"]
      /\ UNCHANGED <<deadList, closed, stopping, done, dead, torn>>
  BY <1>1 DEF Reserve, PromoteDue, Goto
<1>3. /\ Promoted \in Seq(Envelope) /\ LeftDelayed \in Seq(Envelope)
      /\ ToSet(Promoted) \cup ToSet(LeftDelayed) = Waiting /\ Len(Promoted) = Len(ready) + due
  BY PromotedPart DEF Sound, Base
<1>4. /\ Distinct(Promoted) /\ Distinct(LeftDelayed)
      /\ Apart(ToSet(Promoted), ToSet(LeftDelayed))
  BY PromotedSound DEF Sound, Base
<1>5. /\ ready' \in Seq(Envelope) /\ env \in ToSet(Promoted) /\ Len(ready') = Len(Promoted) - 1
      /\ ToSet(ready') = ToSet(Promoted) \ {env} /\ Distinct(ready')
  BY <1>1, <1>2, <1>3, <1>4, TailSet
<1>6. env \in Envelope
  BY <1>3, <1>5 DEF ToSet
<1>7. env \in Waiting /\ Waiting' = Waiting \ {env}
  <2>1. env \notin ToSet(LeftDelayed)
    BY <1>4, <1>5 DEF Apart
  <2> QED BY <1>2, <1>3, <1>5, <2>1 DEF Waiting
<1>8. LineSound'
  BY <1>2, <1>4, <1>5 DEF LineSound, Apart
<1>9. /\ waiters' \in Seq(Thread) /\ pc' \in [Thread -> Pc] /\ WaitersSound'
      /\ ToSet(waiters') = ToSet(waiters) \ {w}
  BY <1>2, LeavesList DEF Sound, Base, Pc
<1>10. table' \in Seq(Record) /\ TableSound'
  BY <1>2, <1>6, StatusPart DEF Sound, Base, TypeOK, Status
<1>11. TypeOK'
  BY <1>2, <1>3, <1>5, <1>6, <1>9, <1>10 DEF Sound, Base, TypeOK
<1>12. job'[w] = env /\ pc'[w] = "run" /\ ~Holds(w) /\ Others(w)
  BY <1>2 DEF Sound, Base, TypeOK, Holds, Others, SameHands
<1>13. Len(ready') = Len(ready) + due - 1
  <2>1. Len(ready) \in Nat /\ due \in Nat
    BY DEF Sound, Base, TypeOK
  <2> QED BY <1>3, <1>5, <2>1
<1> QED BY <1>2, <1>7, <1>8, <1>9, <1>10, <1>11, <1>12, <1>13 DEF Sound, Base, Picks

LEMMA SettleMoves ==
    ASSUME Sound, NEW w \in Thread,
           HandlerReturns(w) \/ Ack(w) \/ Bury(w) \/ HandlerExits(w)
    PROVE  /\ Sound' /\ (Finishes(w) \/ Confirms(w) \/ Buries(w) \/ Exits(w))
           /\ pc[w] \in {"run", "ack"}
           /\ UNCHANGED <<ready, waiters, unnotified>>
           /\ \E l \in {"ack", "loop", "halted"} : pc' = [pc EXCEPT ![w] = l]
<1>1. /\ UNCHANGED <<ready, delayed, due, closed, waiters, job, stopping, unnotified>>
      /\ pc[w] \in {"run", "ack"}
      /\ \E l \in {"ack", "loop", "halted"} : pc' = [pc EXCEPT ![w] = l]
  <2>1. CASE HandlerReturns(w)
    BY <2>1 DEF HandlerReturns, Goto, queue
  <2>2. CASE Ack(w)
    BY <2>2 DEF Ack, Goto, history
  <2>3. CASE Bury(w)
    BY <2>3 DEF Bury, Goto
  <2>4. CASE HandlerExits(w)
    BY <2>4 DEF HandlerExits, Goto, queue
  <2> QED BY <2>1, <2>2, <2>3, <2>4
<1>2. waiters' \in Seq(Thread) /\ pc' \in [Thread -> Pc] /\ WaitersSound'
  BY <1>1, Awake, GoesOn DEF Sound, Base, Pc
<1>3. job[w] \in Envelope /\ job[w].task \in Task
  BY EnvelopeFields DEF Sound, Base, TypeOK
<1>4. table' \in Seq(Record) /\ TableSound'
  <2>1. CASE UNCHANGED table
    BY <2>1 DEF Sound, Base, TypeOK, TableSound
  <2>2. CASE SetStatus(job[w], "succeeded") \/ SetStatus(job[w], "dead")
    BY <1>3, <2>2, StatusPart DEF Sound, Base, TypeOK, Status
  <2> QED BY <2>1, <2>2 DEF HandlerReturns, Ack, Bury, HandlerExits, queue
<1>5. deadList' \in Seq(Envelope)
  <2>1. CASE UNCHANGED deadList
    BY <2>1 DEF Sound, Base, TypeOK
  <2>2. CASE deadList' = Keep(Append(deadList, job[w]), DeadMax)
    <3>1. Append(deadList, job[w]) \in Seq(Envelope) /\ DeadMax \in Nat
      BY <1>3, MemoryAssumption DEF Sound, Base, TypeOK
    <3> QED BY <2>2, <3>1, KeepPart
  <2> QED BY <2>1, <2>2 DEF HandlerReturns, Ack, Bury, HandlerExits, queue
<1>6. done' \subseteq Task /\ dead' \subseteq Task /\ torn' \subseteq Task
  BY <1>3 DEF HandlerReturns, Ack, Bury, HandlerExits, history, Sound, Base, TypeOK
<1>7. Sound'
  BY <1>1, <1>2, <1>4, <1>5, <1>6 DEF Sound, Base, TypeOK, LineSound
<1>8. Others(w) /\ Waiting' = Waiting
  BY <1>1 DEF Others, SameHands, Holds, Sound, Base, TypeOK, Waiting
<1>9. /\ pc \in [Thread -> Pc] /\ pc' \in [Thread -> Pc]
  BY <1>2 DEF Sound, Base, TypeOK
<1>10. ASSUME HandlerReturns(w) PROVE Finishes(w)
  BY <1>8, <1>9, <1>10 DEF HandlerReturns, Goto, Finishes, queue
<1>11. ASSUME Ack(w) PROVE Confirms(w)
  BY <1>8, <1>9, <1>11 DEF Ack, Goto, Confirms, Holds, history
<1>12. ASSUME Bury(w) PROVE Buries(w)
  <2>1. Exhausted(job[w])
    <3>1. job[w].attempts \in Nat /\ Budget[job[w].task] \in Nat
      BY <1>3, EnvelopeFields, MemoryAssumption
    <3> QED BY <1>12, <3>1 DEF Bury, Registered, MayRetry, Exhausted
  <2> QED BY <1>8, <1>9, <1>12, <2>1 DEF Bury, Goto, Buries, Holds
<1>13. ASSUME HandlerExits(w) PROVE Exits(w)
  BY <1>8, <1>9, <1>13 DEF HandlerExits, Goto, Exits, Holds, queue
<1> QED BY <1>1, <1>7, <1>10, <1>11, <1>12, <1>13

LEMMA RetryMoves ==
    ASSUME Sound, HandsSound, NEW w \in Thread, Retry(w)
    PROVE  /\ Sound' /\ PutsBack(w) /\ pc[w] = "run" /\ UNCHANGED <<ready, unnotified>>
           /\ Wakes([pc EXCEPT ![w] = "loop"])
<1> DEFINE env == Again(job[w])
           at == [pc EXCEPT ![w] = "loop"]
<1>1. job[w] \in Envelope /\ env \in Envelope /\ env.task = job[w].task
  <2>1. job[w] \in Envelope
    BY DEF Sound, Base, TypeOK
  <2>2. job[w].task \in Task /\ job[w].attempts + 1 \in Nat
    BY <2>1, EnvelopeFields
  <2> QED BY <2>1, <2>2, EnvelopeFields DEF Again
<1>2. env = [job[w] EXCEPT !.attempts = @ + 1]
  BY <1>1 DEF Again, Envelope
<1>3. /\ pc[w] = "run" /\ PushDelayed(env) /\ SetStatus(env, "retrying") /\ Notify(at)
      /\ UNCHANGED <<ready, due, deadList, closed, job, stopping, done, dead, torn, unnotified>>
  BY <1>2 DEF Retry, history
<1> HIDE DEF env
<1>4. /\ at \in [Thread -> Pc] /\ at[w] = "loop"
      /\ \A v \in Thread \ {w} : at[v] = pc[v]
  BY DEF Sound, Base, TypeOK, Pc
<1> HIDE DEF at
<1>5. Listed(waiters, at)
  <2>1. w \notin ToSet(waiters)
    BY <1>3, Awake DEF Sound, Base
  <2>2. ToSet(waiters) \subseteq Thread
    BY DEF Sound, Base, TypeOK, ToSet
  <2> QED BY <1>3, <1>4, <2>1, <2>2 DEF Sound, Base, WaitersSound, Listed
<1>6. waiters' \in Seq(Thread) /\ pc' \in [Thread -> Pc] /\ WaitersSound' /\ Wakes(at)
  BY <1>3, <1>4, <1>5, NotifyPart DEF Sound, Base, TypeOK
<1>7. Apart(Waiting, {env})
  BY <1>1, <1>3 DEF HandsSound, Holds, Apart
<1>8. /\ delayed' \in Seq(Envelope) /\ Len(delayed') = Len(delayed) + 1
      /\ ToSet(delayed') = ToSet(delayed) \cup {env} /\ Distinct(delayed')
  <2>1. Apart(ToSet(delayed), {env})
    BY <1>7 DEF Apart, Waiting
  <2> QED BY <1>1, <1>3, <2>1, PushPart DEF Sound, Base, LineSound
<1>9. LineSound' /\ Waiting' = Waiting \cup {env}
  BY <1>3, <1>7, <1>8 DEF LineSound, Sound, Apart, Waiting
<1>10. table' \in Seq(Record) /\ TableSound'
  BY <1>1, <1>3, StatusPart DEF Sound, Base, TypeOK, Status
<1>11. TypeOK'
  <2>1. Len(delayed) \in Nat
    BY DEF Sound, Base, TypeOK
  <2> QED BY <1>3, <1>6, <1>8, <1>10, <2>1 DEF Sound, Base, TypeOK
<1>12. ~Holds(w)' /\ Others(w)
  BY <1>3, <1>4, <1>6 DEF Holds, Others, SameHands, Wakes
<1> QED BY <1>3, <1>6, <1>9, <1>10, <1>11, <1>12 DEF Sound, Base, PutsBack, env, at

LEMMA NextMoves == ASSUME Sound, HandsSound, [Next]_vars PROVE Sound' /\ Move
<1>1. ASSUME NEW w \in Thread, Consume(w) PROVE Sound' /\ Move
  BY <1>1, IdleMoves, ReserveMoves, SettleMoves, RetryMoves DEF Consume, Move
<1> QED BY <1>1, EnqueueMoves, StatsMoves, CloseMoves, PassingMoves DEF Next, Move
-----------------------------------------------------------------------------
(* A task is in one place: it waits once or is in one thread's hand, and when it has an   *)
(* outcome it is in none.                                                                 *)

EndsSound ==
    /\ \A t \in dead \cup torn : ~Owed(t) /\ t \notin done
    /\ \A w \in Thread : pc[w] = "ack" => job[w].task \in done
    /\ \A w \in Thread : pc[w] = "run" => job[w].task \notin done
    /\ \A e \in Waiting : e.task \notin done
OnceEach == \A e, f \in Waiting : e.task = f.task => e = f

LEMMA WaitingOnce == ASSUME Sound PROVE OnceEach /\ Waiting \subseteq Envelope
<1>1. \A s \in Seq(Envelope) : \A e, f \in ToSet(s) : Distinct(s) /\ e.task = f.task => e = f
  BY DEF ToSet, Distinct
<1>2. \A s \in Seq(Envelope) : ToSet(s) \subseteq Envelope
  BY DEF ToSet
<1> QED BY <1>1, <1>2 DEF Sound, Base, TypeOK, LineSound, Apart, Waiting, OnceEach

LEMMA HeldSame ==
    ASSUME SameHands(Thread) PROVE Held' = Held
BY DEF SameHands, Held, Holds

LEMMA HeldTaken ==
    ASSUME NEW w \in Thread, Others(w), ~Holds(w), Holds(w)' PROVE Held' = Held \cup {job'[w]}
BY DEF Others, SameHands, Held, Holds

LEMMA HeldLeft ==
    ASSUME HandsSound, NEW w \in Thread, Others(w), Holds(w), ~Holds(w)'
    PROVE  Held' = Held \ {job[w]} /\ \A e \in Held' : e.task # job[w].task
<1>1. \A v \in Thread \ {w} : Holds(v) => job[v].task # job[w].task
  BY DEF HandsSound
<1>2. \A v \in Thread : Holds(v)' => v # w /\ Holds(v) /\ job'[v] = job[v]
  BY DEF Others, SameHands, Holds
<1>3. \A v \in Thread \ {w} : Holds(v) => Holds(v)' /\ job'[v] = job[v]
  BY DEF Others, SameHands, Holds
<1>4. ASSUME NEW e \in Held' PROVE e \in Held /\ e.task # job[w].task
  BY <1>1, <1>2, <1>4 DEF Held
<1>5. ASSUME NEW e \in Held, e # job[w] PROVE e \in Held'
  BY <1>3, <1>5 DEF Held
<1> QED BY <1>4, <1>5

LEMMA HeldKept ==
    ASSUME NEW w \in Thread, Others(w), Holds(w), Holds(w)', job'[w] = job[w] PROVE Held' = Held
<1>1. \A v \in Thread : (Holds(v)' <=> Holds(v)) /\ (Holds(v) => job'[v] = job[v])
  BY DEF Others, SameHands, Holds
<1> QED BY <1>1 DEF Held

\* A step on one task: the others are where they were, with the same outcome.
Only(t) ==
    /\ \A e : e.task # t => /\ e \in Waiting' <=> e \in Waiting
                            /\ e \in Held' <=> e \in Held
    /\ \A u : u # t => /\ u \in done' <=> u \in done
                       /\ u \in dead' <=> u \in dead
                       /\ u \in torn' <=> u \in torn

\* Afterwards the task is nowhere.
Gone(t) == \A e \in Waiting' \cup Held' : e.task # t

LEMMA GoneOwed == ASSUME NEW t, Gone(t) PROVE ~Owed(t)'
BY DEF Gone, Owed

LEMMA OnlyOwed == ASSUME NEW t, Only(t) PROVE \A u : u # t => (Owed(u)' <=> Owed(u))
BY DEF Only, Owed

\* Where the task of a step is before and after it.
LEMMA EntersPlaces ==
    ASSUME NEW t, Enters(t)
    PROVE  Only(t) /\ ~Owed(t) /\ Waiting' = Waiting \cup {Fresh(t)} /\ Held' = Held
BY HeldSame DEF Enters, Only, Fresh, Taken

LEMMA MovePlaces ==
    ASSUME Sound, HandsSound, NEW w \in Thread
    PROVE  /\ Picks(w) => /\ Only(job'[w].task) /\ job'[w] \in Waiting
                          /\ Held' = Held \cup {job'[w]}
                          /\ \A e \in Waiting' : e.task # job'[w].task
           /\ Finishes(w) => Only(job[w].task) /\ Waiting' = Waiting /\ Held' = Held
           /\ Confirms(w) \/ Buries(w) \/ Exits(w) =>
                 Only(job[w].task) /\ Gone(job[w].task) /\ Waiting' = Waiting
           /\ PutsBack(w) => /\ Only(job[w].task) /\ Waiting' = Waiting \cup {Again(job[w])}
                             /\ \A e \in Held' : e.task # job[w].task
<1>1. ASSUME Picks(w)
      PROVE  /\ Only(job'[w].task) /\ job'[w] \in Waiting /\ Held' = Held \cup {job'[w]}
             /\ \A e \in Waiting' : e.task # job'[w].task
  <2>1. Held' = Held \cup {job'[w]}
    BY <1>1, HeldTaken DEF Picks, Holds
  <2> QED BY <1>1, <2>1, WaitingOnce DEF Picks, Only, OnceEach
<1>2. ASSUME Finishes(w) PROVE Only(job[w].task) /\ Waiting' = Waiting /\ Held' = Held
  <2>1. Held' = Held
    BY <1>2, HeldKept DEF Finishes, Holds
  <2> QED BY <1>2, <2>1 DEF Finishes, Only
<1>3. ASSUME Confirms(w) \/ Buries(w) \/ Exits(w)
      PROVE  Only(job[w].task) /\ Gone(job[w].task) /\ Waiting' = Waiting
  <2>1. Holds(w) /\ ~Holds(w)' /\ Others(w) /\ Waiting' = Waiting
    BY <1>3 DEF Confirms, Buries, Exits, Holds
  <2>2. Held' = Held \ {job[w]} /\ \A e \in Held' : e.task # job[w].task
    BY <2>1, HeldLeft
  <2>3. \A e \in Waiting : e.task # job[w].task
    BY <2>1 DEF HandsSound, Apart
  <2>4. \A u : u # job[w].task => /\ u \in done' <=> u \in done
                                  /\ u \in dead' <=> u \in dead
                                  /\ u \in torn' <=> u \in torn
    BY <1>3 DEF Confirms, Buries, Exits
  <2>5. \A e : e.task # job[w].task => (e \in Held' <=> e \in Held)
    BY <2>2
  <2>6. Only(job[w].task)
    BY <2>1, <2>4, <2>5 DEF Only
  <2>7. Gone(job[w].task)
    BY <2>1, <2>2, <2>3 DEF Gone
  <2> QED BY <2>1, <2>6, <2>7
<1>4. ASSUME PutsBack(w)
      PROVE  /\ Only(job[w].task) /\ Waiting' = Waiting \cup {Again(job[w])}
             /\ \A e \in Held' : e.task # job[w].task
  <2>1. Held' = Held \ {job[w]} /\ \A e \in Held' : e.task # job[w].task
    BY <1>4, HeldLeft DEF PutsBack, Holds
  <2>2. Again(job[w]).task = job[w].task
    BY DEF Again
  <2> QED BY <1>4, <2>1, <2>2 DEF PutsBack, Only
<1> QED BY <1>1, <1>2, <1>3, <1>4

LEMMA MoveHands == ASSUME Sound, HandsSound, EndsSound, Move PROVE HandsSound'
<1>1. CASE Rests
  BY <1>1 DEF Rests, HandsSound, SameHands, Holds
<1>2. ASSUME NEW t \in Task, Enters(t) PROVE HandsSound'
  <2>1. \A v \in Thread : Holds(v) => job[v].task # t
    BY <1>2 DEF Enters, Taken, Owed, Held
  <2> QED BY <1>2, <2>1 DEF Enters, HandsSound, SameHands, Holds, Apart, Fresh
<1>3. ASSUME NEW w \in Thread, Picks(w) PROVE HandsSound'
  <2>1. \A e \in Waiting' : e.task # job'[w].task
    BY <1>3, WaitingOnce DEF Picks, OnceEach
  <2>2. \A v \in Thread \ {w} : Holds(v)' => Holds(v) /\ job'[v] = job[v]
    BY <1>3 DEF Picks, Others, SameHands
  <2>3. \A v \in Thread \ {w} : Holds(v)' => job'[v].task # job'[w].task
    BY <1>3, <2>2 DEF Picks, HandsSound, Apart
  <2>4. \A v \in Thread : Holds(v)' => Apart(Waiting', {job'[v]})
    BY <1>3, <2>1, <2>2 DEF Picks, HandsSound, Apart
  <2>5. \A v, u \in Thread : Holds(v)' /\ Holds(u)' /\ job'[v].task = job'[u].task => v = u
    BY <2>2, <2>3 DEF HandsSound
  <2> QED BY <2>4, <2>5 DEF HandsSound
<1>4. ASSUME NEW w \in Thread,
             Finishes(w) \/ Confirms(w) \/ Buries(w) \/ Exits(w)
      PROVE  HandsSound'
  <2>1. \A v \in Thread : Holds(v)' => Holds(v) /\ job'[v] = job[v]
    BY <1>4 DEF Finishes, Confirms, Buries, Exits, Others, SameHands, Holds
  <2>2. Waiting' = Waiting
    BY <1>4 DEF Finishes, Confirms, Buries, Exits
  <2> QED BY <2>1, <2>2 DEF HandsSound
<1>5. ASSUME NEW w \in Thread, PutsBack(w) PROVE HandsSound'
  <2>1. \A v \in Thread : Holds(v)' => v # w /\ Holds(v) /\ job'[v] = job[v]
    BY <1>5 DEF PutsBack, Others, SameHands, Holds
  <2>2. Holds(w) /\ Again(job[w]).task = job[w].task /\ Waiting' = Waiting \cup {Again(job[w])}
    BY <1>5 DEF PutsBack, Holds, Again
  <2>3. \A v \in Thread : Holds(v)' => Apart(Waiting', {job'[v]})
    BY <2>1, <2>2 DEF HandsSound, Apart
  <2> QED BY <2>1, <2>3 DEF HandsSound
<1> QED BY <1>1, <1>2, <1>3, <1>4, <1>5 DEF Move

LEMMA MoveEnds == ASSUME Sound, HandsSound, EndsSound, Move PROVE EndsSound'
<1>1. CASE Rests
  <2>1. Waiting' = Waiting /\ Held' = Held
    BY <1>1, HeldSame DEF Rests
  <2> QED BY <1>1, <2>1 DEF Rests, EndsSound, SameHands, Holds, Owed
<1>2. ASSUME NEW t \in Task, Enters(t) PROVE EndsSound'
  <2>1. Waiting' = Waiting \cup {Fresh(t)} /\ Held' = Held /\ Fresh(t).task = t
    BY <1>2, EntersPlaces DEF Fresh
  <2>2. t \notin done \cup dead \cup torn
    BY <1>2 DEF Enters, Taken
  <2> QED BY <1>2, <2>1, <2>2 DEF Enters, EndsSound, SameHands, Holds, Owed
<1>3. ASSUME NEW w \in Thread, Picks(w) PROVE EndsSound'
  <2>1. Only(job'[w].task) /\ job'[w] \in Waiting /\ Held' = Held \cup {job'[w]}
    BY <1>3, MovePlaces
  <2>2. \A t : Owed(t)' => Owed(t)
    BY <1>3, <2>1 DEF Picks, Owed
  <2>3. \A v \in Thread \ {w} : Holds(v)' => pc'[v] = pc[v] /\ job'[v] = job[v]
    BY <1>3 DEF Picks, Others, SameHands
  <2> QED BY <1>3, <2>1, <2>2, <2>3 DEF Picks, EndsSound, Holds
<1>4. ASSUME NEW w \in Thread, Finishes(w) PROVE EndsSound'
  <2>1. Waiting' = Waiting /\ Held' = Held
    BY <1>4, MovePlaces
  <2>2. \A v \in Thread \ {w} : Holds(v)' => /\ pc'[v] = pc[v] /\ job'[v] = job[v] /\ Holds(v)
                                             /\ job[v].task # job[w].task
    BY <1>4 DEF Finishes, Others, SameHands, HandsSound, Holds
  <2>3. Owed(job[w].task) /\ \A e \in Waiting : e.task # job[w].task
    BY <1>4 DEF Finishes, Owed, Held, Holds, HandsSound, Apart
  <2> QED BY <1>4, <2>1, <2>2, <2>3 DEF Finishes, EndsSound, Owed, Holds
<1>5. ASSUME NEW w \in Thread, Confirms(w) \/ Buries(w) \/ Exits(w) PROVE EndsSound'
  <2>1. Only(job[w].task) /\ Gone(job[w].task) /\ Waiting' = Waiting
    BY <1>5, MovePlaces
  <2>2. \A v \in Thread : Holds(v)' => pc'[v] = pc[v] /\ job'[v] = job[v]
    BY <1>5 DEF Confirms, Buries, Exits, Others, SameHands, Holds
  <2>3. PICK j : j = job[w].task
    OBVIOUS
  <2>31. ~Owed(j)' /\ \A t : Owed(t)' => Owed(t)
    BY <2>1, <2>3, GoneOwed, OnlyOwed
  <2>4. done' = done /\ (dead' \cup torn') \subseteq (dead \cup torn) \cup {job[w].task}
        /\ (pc[w] = "ack" => dead' = dead /\ torn' = torn)
        /\ pc[w] \in {"run", "ack"}
    BY <1>5 DEF Confirms, Buries, Exits
  <2>5. pc[w] = "run" => j \notin done
    BY <2>3 DEF EndsSound
  <2> QED BY <2>1, <2>2, <2>3, <2>31, <2>4, <2>5 DEF EndsSound, Holds
<1>6. ASSUME NEW w \in Thread, PutsBack(w) PROVE EndsSound'
  <2>1. /\ Only(job[w].task) /\ Waiting' = Waiting \cup {Again(job[w])}
        /\ Again(job[w]).task = job[w].task
    BY <1>6, MovePlaces DEF Again
  <2>2. \A v \in Thread : Holds(v)' => pc'[v] = pc[v] /\ job'[v] = job[v]
    BY <1>6 DEF PutsBack, Others, SameHands, Holds
  <2>3. Owed(job[w].task) /\ job[w].task \notin done
    BY <1>6 DEF PutsBack, Owed, Held, Holds, EndsSound
  <2>4. \A t : Owed(t)' => Owed(t)
    <3>0. PICK j : j = job[w].task
      OBVIOUS
    <3>1. \A t : t # j => (Owed(t)' <=> Owed(t))
      BY <2>1, <3>0, OnlyOwed
    <3> QED BY <2>3, <3>0, <3>1
  <2> QED BY <1>6, <2>1, <2>2, <2>3, <2>4 DEF PutsBack, EndsSound, Holds
<1> QED BY <1>1, <1>2, <1>3, <1>4, <1>5, <1>6 DEF Move
-----------------------------------------------------------------------------
(* The status table tells where the task is, and the dead-letter list what cannot be       *)
(* helped.                                                                                 *)

RecordsAgree == \A r \in ToSet(table) : Agrees(r)
LettersSound == Len(deadList) <= DeadMax /\ \A e \in ToSet(deadList) : Exhausted(e)

LEMMA OnlyAgrees ==
    ASSUME NEW t, Only(t), NEW r \in Record, r.task # t, Agrees(r) PROVE Agrees(r)'
<1>1. Owed(r.task)' <=> Owed(r.task)
  BY OnlyOwed
<1>2. \A n : LET env == [task |-> r.task, attempts |-> n]
             IN  (env \in Waiting' <=> env \in Waiting) /\ (env \in Held' <=> env \in Held)
  BY DEF Only
<1>3. /\ r.task \in done' <=> r.task \in done
      /\ r.task \in dead' <=> r.task \in dead
      /\ r.task \in torn' <=> r.task \in torn
  BY DEF Only
<1>4. r.status \in Status
  BY DEF Record
<1> QED BY <1>1, <1>2, <1>3, <1>4 DEF Agrees, Status

LEMMA RunningRecord ==
    ASSUME HandsSound, EndsSound, NEW w \in Thread, pc[w] = "run",
           NEW r \in Record, Agrees(r), r.task = job[w].task
    PROVE  r.status = "running"
<1>1. \A e \in Waiting : e.task # r.task
  BY DEF HandsSound, Apart, Holds
<1>2. Owed(r.task) /\ r.task \notin done
  BY DEF Owed, Held, Holds, EndsSound
<1>3. r.status \in Status
  BY DEF Record
<1> QED BY <1>1, <1>2, <1>3 DEF Agrees, Status, EndsSound

LEMMA MoveRecords ==
    ASSUME Sound, HandsSound, EndsSound, EndsSound', RecordsAgree, Move PROVE RecordsAgree'
<1>0. /\ ToSet(table) \subseteq Record
      /\ \A w \in Thread : job[w] \in Envelope /\ job[w].task \in Task /\ job[w].attempts \in Nat
  BY EnvelopeFields DEF Sound, Base, TypeOK, ToSet
<1>1. CASE Rests
  <2>1. Waiting' = Waiting /\ Held' = Held
    BY <1>1, HeldSame DEF Rests
  <2> QED BY <1>1, <2>1 DEF Rests, RecordsAgree, Agrees, Owed
<1>2. ASSUME NEW env \in Envelope, NEW s \in Status, NEW t, t = env.task, SetStatus(env, s), Only(t),
             Agrees(RecordOf(env, s))'
      PROVE  RecordsAgree'
  <2>1. \A r \in ToSet(table') :
           r = RecordOf(env, s) \/ (r \in ToSet(table) /\ r.task # env.task)
    BY <1>2, StatusPart DEF Sound, Base, TypeOK
  <2>2. ASSUME NEW r \in ToSet(table') PROVE Agrees(r)'
    <3>1. CASE r = RecordOf(env, s)
      BY <1>2, <3>1
    <3>2. CASE r \in ToSet(table) /\ r.task # t
      BY <1>0, <1>2, <3>2, OnlyAgrees DEF RecordsAgree
    <3> QED BY <1>2, <2>1, <3>1, <3>2
  <2> QED BY <2>2 DEF RecordsAgree
<1>3. ASSUME NEW t \in Task, Enters(t) PROVE RecordsAgree'
  <2>0. Fresh(t) \in Envelope /\ Fresh(t).task = t /\ Fresh(t).attempts = 0
    BY DEF Fresh, Envelope
  <2>1. PICK env \in Envelope : env = Fresh(t) /\ env.task = t /\ env.attempts = 0
    BY <2>0
  <2>2. Only(t) /\ env \in Waiting'
    BY <1>3, <2>1, EntersPlaces
  <2>3. Agrees(RecordOf(env, "queued"))'
    BY <2>1, <2>2 DEF Agrees, RecordOf, Fresh
  <2> QED BY <1>2, <1>3, <2>1, <2>2, <2>3 DEF Enters, Status
<1>4. ASSUME NEW w \in Thread, Picks(w) PROVE RecordsAgree'
  <2>1. PICK env \in Envelope : env = job'[w]
    BY <1>4, WaitingOnce DEF Picks
  <2>2. Only(env.task) /\ env \in Held'
    BY <1>4, <2>1, MovePlaces
  <2>3. Agrees(RecordOf(env, "running"))'
    BY <2>1, <2>2 DEF Agrees, RecordOf, Envelope
  <2> QED BY <1>2, <1>4, <2>1, <2>2, <2>3 DEF Picks, Status
<1>5. ASSUME NEW w \in Thread, Confirms(w) PROVE RecordsAgree'
  <2>1. PICK env \in Envelope : env = job[w]
    BY <1>0
  <2>2. Only(env.task) /\ Gone(env.task)
    BY <1>5, <2>1, MovePlaces
  <2>3. env.task \in done'
    BY <1>5, <2>1 DEF Confirms, EndsSound
  <2>4. ~Owed(env.task)'
    BY <2>2, GoneOwed
  <2>5. Agrees(RecordOf(env, "succeeded"))'
    BY <2>3, <2>4 DEF Agrees, RecordOf
  <2> QED BY <1>2, <1>5, <2>1, <2>2, <2>5 DEF Confirms, Status
<1>6. ASSUME NEW w \in Thread, Buries(w) PROVE RecordsAgree'
  <2>1. PICK env \in Envelope : env = job[w]
    BY <1>0
  <2>2. Only(env.task) /\ Gone(env.task)
    BY <1>6, <2>1, MovePlaces
  <2>3. env.task \in dead' /\ Exhausted(env)
    BY <1>6, <2>1 DEF Buries
  <2>4. ~Owed(env.task)'
    BY <2>2, GoneOwed
  <2>5. Agrees(RecordOf(env, "dead"))'
    BY <2>3, <2>4 DEF Agrees, RecordOf, Exhausted
  <2> QED BY <1>2, <1>6, <2>1, <2>2, <2>5 DEF Buries, Status
<1>7. ASSUME NEW w \in Thread, PutsBack(w) PROVE RecordsAgree'
  <2>0. /\ Again(job[w]) \in Envelope /\ Again(job[w]).task = job[w].task
        /\ Again(job[w]).attempts > 0
    BY <1>0 DEF Again, Envelope
  <2>1. PICK env \in Envelope : env = Again(job[w]) /\ env.task = job[w].task /\ env.attempts > 0
    BY <2>0
  <2>2. Only(env.task) /\ env \in Waiting'
    BY <1>7, <2>1, MovePlaces
  <2>3. Agrees(RecordOf(env, "retrying"))'
    BY <2>1, <2>2 DEF Agrees, RecordOf, Envelope
  <2> QED BY <1>2, <1>7, <2>1, <2>2, <2>3 DEF PutsBack, Status
<1>8. ASSUME NEW w \in Thread, Finishes(w) \/ Exits(w) PROVE RecordsAgree'
  <2>1. PICK t : t = job[w].task
    OBVIOUS
  <2>2. Only(t) /\ table' = table /\ pc[w] = "run"
    BY <1>8, <2>1, MovePlaces DEF Finishes, Exits
  <2>3. ASSUME NEW r \in ToSet(table) PROVE Agrees(r)'
    <3>0. r \in Record /\ Agrees(r)
      BY <1>0 DEF RecordsAgree
    <3>1. CASE r.task # t
      BY <2>2, <3>0, <3>1, OnlyAgrees
    <3>2. CASE r.task = t
      <4>1. r.status = "running"
        BY <2>1, <2>2, <3>0, <3>2, RunningRecord
      <4>2. \/ [task |-> r.task, attempts |-> r.attempts] \in Held
            \/ r.task \in torn
        BY <3>0, <4>1 DEF Agrees
      <4>3. \/ [task |-> r.task, attempts |-> r.attempts] \in Held'
            \/ r.task \in torn'
        <5>1. CASE Finishes(w)
          BY <4>2, <5>1, MovePlaces DEF Finishes
        <5>2. CASE Exits(w)
          BY <2>1, <3>2, <5>2 DEF Exits
        <5> QED BY <1>8, <5>1, <5>2
      <4> QED BY <4>1, <4>3 DEF Agrees
    <3> QED BY <3>1, <3>2
  <2> QED BY <2>2, <2>3 DEF RecordsAgree
<1> QED BY <1>1, <1>3, <1>4, <1>5, <1>6, <1>7, <1>8 DEF Move

LEMMA MoveLetters == ASSUME Sound, LettersSound, Move PROVE LettersSound'
<1>1. CASE deadList' = deadList
  BY <1>1 DEF LettersSound
<1>2. ASSUME NEW w \in Thread, Buries(w) PROVE LettersSound'
  <2>1. PICK env \in Envelope : env = job[w] /\ Exhausted(env)
    BY <1>2 DEF Buries, Sound, Base, TypeOK
  <2>2. PICK p : p = Append(deadList, env)
    OBVIOUS
  <2>3. p \in Seq(Envelope) /\ ToSet(p) = ToSet(deadList) \cup {env}
    BY <2>1, <2>2, AppendSet DEF Sound, Base, TypeOK
  <2>4. DeadMax \in Nat
    BY MemoryAssumption
  <2>5. Len(Keep(p, DeadMax)) <= DeadMax /\ ToSet(Keep(p, DeadMax)) \subseteq ToSet(p)
    BY <2>3, <2>4, KeepPart
  <2>6. deadList' = Keep(p, DeadMax)
    BY <1>2, <2>1, <2>2 DEF Buries
  <2> QED BY <2>1, <2>3, <2>5, <2>6 DEF LettersSound
<1> QED BY <1>1, <1>2 DEF Move, Rests, Enters, Picks, Finishes, Confirms, PutsBack, Exits
-----------------------------------------------------------------------------
(* The invariant, and what follows from it. *)

Inv == Sound /\ HandsSound /\ EndsSound /\ RecordsAgree /\ LettersSound

LEMMA InitInv == Init => Inv
<1> SUFFICES ASSUME Init PROVE Inv
  OBVIOUS
<1>1. \E t : t \in Task
  BY MemoryAssumption
<1>2. (CHOOSE t \in Task : TRUE) \in Task
  BY <1>1
<1>3. job \in [Thread -> Envelope]
  BY <1>2, EnvelopeFields DEF Init
<1>4. /\ ToSet(ready) = {} /\ ToSet(delayed) = {} /\ ToSet(table) = {} /\ ToSet(deadList) = {}
      /\ ToSet(waiters) = {} /\ Len(table) = 0 /\ Len(deadList) = 0 /\ Len(delayed) = 0
  BY DEF Init, ToSet
<1>5. Distinct(ready) /\ Distinct(delayed) /\ Distinct(table) /\ Once(waiters)
  BY DEF Init, Distinct, Once
<1>6. TypeOK
  <2>1. /\ ready \in Seq(Envelope) /\ delayed \in Seq(Envelope) /\ deadList \in Seq(Envelope)
        /\ table \in Seq(Record) /\ waiters \in Seq(Thread)
    BY DEF Init
  <2>2. pc \in [Thread -> Pc]
    BY DEF Init, Pc
  <2>3. due = 0 /\ unnotified = 0 /\ closed \in BOOLEAN /\ stopping \in BOOLEAN
    BY DEF Init
  <2>4. done \subseteq Task /\ dead \subseteq Task /\ torn \subseteq Task
    BY DEF Init
  <2> QED BY <1>3, <2>1, <2>2, <2>3, <2>4 DEF TypeOK
<1>7. StatusMax >= 0 /\ DeadMax >= 0
  BY MemoryAssumption
<1>8. Waiting = {} /\ Held = {}
  BY <1>4 DEF Init, Waiting, Held, Holds
<1>9. Sound
  BY <1>4, <1>5, <1>6, <1>7
  DEF Init, Sound, Base, TableSound, WaitersSound, Listed, LineSound, Apart
<1>10. HandsSound /\ EndsSound
  BY <1>8 DEF Init, HandsSound, EndsSound, Holds, Owed
<1>11. RecordsAgree /\ LettersSound
  BY <1>4, <1>7 DEF RecordsAgree, LettersSound
<1> QED BY <1>9, <1>10, <1>11 DEF Inv

LEMMA InvStep == Inv /\ [Next]_vars => Inv' /\ Move
<1> SUFFICES ASSUME Inv, [Next]_vars PROVE Inv' /\ Move
  OBVIOUS
<1>1. Sound' /\ Move
  BY NextMoves DEF Inv
<1>2. HandsSound' /\ EndsSound'
  BY <1>1, MoveHands, MoveEnds DEF Inv
<1>3. RecordsAgree' /\ LettersSound'
  BY <1>1, <1>2, MoveRecords, MoveLetters DEF Inv
<1> QED BY <1>1, <1>2, <1>3 DEF Inv

LEMMA InvAlways == Spec => []Inv
BY InitInv, InvStep, PTL DEF Spec

\* Every variable of the queue keeps its type.
THEOREM TypeCorrect == Spec => []TypeOK
<1>1. Inv => TypeOK
  BY DEF Inv, Sound, Base
<1> QED BY <1>1, InvAlways, PTL

LEMMA AtMostOne ==
    ASSUME NEW S, \A x, y \in S : x = y
    PROVE  Cardinality(S) = IF S = {} THEN 0 ELSE 1
<1>1. CASE S = {}
  BY <1>1, FS_EmptySet
<1>2. CASE S # {}
  <2>1. PICK x \in S : S = {x}
    BY <1>2
  <2>2. Cardinality({x}) = 1
    BY FS_Singleton
  <2> QED BY <1>2, <2>1, <2>2
<1> QED BY <1>1, <1>2

LEMMA PlacesCounted == ASSUME Inv, NEW t \in Task PROVE OnePlace(t)
<1> DEFINE A == {i \in DOMAIN ready : ready[i].task = t}
           B == {i \in DOMAIN delayed : delayed[i].task = t}
           C == {w \in Thread : Holds(w) /\ job[w].task = t}
<1>0. Copies(t) = Cardinality(A) + Cardinality(B) + Cardinality(C)
  BY DEF Copies
<1>1. (\A x, y \in A : x = y) /\ (\A x, y \in B : x = y)
  BY DEF Inv, Sound, LineSound, Distinct
<1>2. \A x, y \in C : x = y
  BY DEF Inv, HandsSound
<1>3. A = {} \/ B = {}
  BY DEF Inv, Sound, LineSound, Apart, ToSet
<1>4. C = {} \/ (A = {} /\ B = {})
  BY DEF Inv, HandsSound, Apart, Waiting, ToSet
<1>5. \A x \in A \cup B \cup C : Owed(t)
  BY DEF Owed, Waiting, Held, ToSet
<1>6. t \in done => A = {} /\ B = {} /\ \A w \in C : pc[w] = "ack"
  BY DEF Inv, EndsSound, Waiting, ToSet, Holds
<1>7. t \in dead \cup torn => ~Owed(t) /\ t \notin done
  BY DEF Inv, EndsSound
<1> HIDE DEF A, B, C
<1>8. /\ Cardinality(A) = IF A = {} THEN 0 ELSE 1
      /\ Cardinality(B) = IF B = {} THEN 0 ELSE 1
      /\ Cardinality(C) = IF C = {} THEN 0 ELSE 1
  BY <1>1, <1>2, AtMostOne
<1>9. Copies(t) <= 1
  BY <1>0, <1>3, <1>4, <1>8
<1>10. t \in dead \cup torn => Copies(t) = 0 /\ t \notin done
  BY <1>0, <1>5, <1>7, <1>8
<1>11. t \in done /\ Copies(t) = 1 => \E w \in Thread : pc[w] = "ack" /\ job[w].task = t
  <2> SUFFICES ASSUME t \in done, Copies(t) = 1
               PROVE  \E w \in Thread : pc[w] = "ack" /\ job[w].task = t
    OBVIOUS
  <2>1. C # {}
    BY <1>0, <1>6, <1>8
  <2> QED BY <1>6, <2>1 DEF C
<1> QED BY <1>9, <1>10, <1>11 DEF OnePlace

\* A task is in one place at most and in none when it has an outcome; each status record
\* that is kept tells where its task is; the dead-letter list holds only what another try
\* cannot help, and no more than its limit.
THEOREM StatusIsTrue == Spec => []StatusAgrees
<1>1. Inv => StatusAgrees
  <2> SUFFICES ASSUME Inv PROVE StatusAgrees
    OBVIOUS
  <2>1. \A t \in Task : OnePlace(t)
    BY PlacesCounted
  <2>2. Len(table) <= StatusMax /\ \A i \in DOMAIN table : Agrees(table[i])
    BY DEF Inv, Sound, Base, TableSound, RecordsAgree, ToSet
  <2>3. Len(deadList) <= DeadMax /\ \A i \in DOMAIN deadList : Exhausted(deadList[i])
    BY DEF Inv, LettersSound, ToSet
  <2> QED BY <2>1, <2>2, <2>3 DEF StatusAgrees
<1> QED BY <1>1, InvAlways, PTL

-----------------------------------------------------------------------------
(* The queue implements TaskDelivery. *)

Own == {t \in Task : Owed(t)}

LEMMA MoveSimulates ==
    ASSUME Inv, Inv', Move PROVE [Delivery!Next]_(Delivery!vars)
<1>0. /\ \A w \in Thread : job[w].task \in Task
      /\ done \subseteq Task /\ dead \subseteq Task /\ torn \subseteq Task
  BY EnvelopeFields DEF Inv, Sound, Base, TypeOK
<1>1. CASE Own' = Own /\ UNCHANGED <<done, dead, torn>>
  BY <1>1 DEF Own, Delivery!vars
<1>2. CASE Rests
  <2>1. Own' = Own
    BY <1>2, HeldSame DEF Rests, Own, Owed
  <2> QED BY <1>1, <1>2, <2>1 DEF Rests
<1>3. ASSUME NEW t \in Task, Enters(t) PROVE Delivery!Submit(t)
  <2>1. Only(t) /\ Waiting' = Waiting \cup {Fresh(t)} /\ Fresh(t).task = t
    BY <1>3, EntersPlaces DEF Fresh
  <2>2. Owed(t)' /\ \A u : u # t => (Owed(u)' <=> Owed(u))
    BY <2>1, OnlyOwed DEF Owed
  <2>3. Own' = Own \cup {t}
    BY <2>2 DEF Own
  <2>4. t \notin Own \cup done \cup dead \cup torn
    BY <1>3 DEF Enters, Taken, Own
  <2> QED BY <1>3, <2>3, <2>4 DEF Enters, Delivery!Submit, Delivery!Known, Own
<1>4. ASSUME NEW w \in Thread, Picks(w) PROVE Own' = Own
  <2>1. PICK e : e = job'[w]
    OBVIOUS
  <2>2. Only(e.task) /\ e \in Waiting /\ e \in Held'
    BY <1>4, <2>1, MovePlaces DEF Inv
  <2>3. \A u : u # e.task => (Owed(u)' <=> Owed(u))
    BY <2>2, OnlyOwed
  <2>4. Owed(e.task) /\ Owed(e.task)'
    BY <2>2 DEF Owed
  <2> QED BY <2>3, <2>4 DEF Own
<1>5. ASSUME NEW w \in Thread, PutsBack(w) PROVE Own' = Own
  <2>1. PICK t : t = job[w].task
    OBVIOUS
  <2>2. PICK e : e = Again(job[w])
    OBVIOUS
  <2>3. e.task = t
    BY <2>1, <2>2 DEF Again
  <2>4. e \in Waiting' /\ Only(t)
    BY <1>5, <2>1, <2>2, MovePlaces DEF Inv
  <2>5. \A u : u # t => (Owed(u)' <=> Owed(u))
    BY <2>4, OnlyOwed
  <2>6. Owed(t) /\ Owed(t)'
    BY <1>5, <2>1, <2>3, <2>4 DEF PutsBack, Owed, Held, Holds
  <2> QED BY <2>5, <2>6 DEF Own
<1>6. ASSUME NEW w \in Thread, Finishes(w) PROVE Delivery!Succeed(job[w].task)
  <2>1. Own' = Own
    BY <1>6, MovePlaces DEF Inv, Own, Owed
  <2>2. job[w].task \in Own
    BY <1>0, <1>6 DEF Finishes, Own, Owed, Held, Holds
  <2> QED BY <1>6, <2>1, <2>2 DEF Finishes, Delivery!Succeed, Delivery!Known, Own
<1>7. ASSUME NEW w \in Thread, Confirms(w) \/ Buries(w) \/ Exits(w)
      PROVE  \E t \in Task : Delivery!Release(t) \/ Delivery!Bury(t) \/ Delivery!Tear({t})
  <2>1. PICK t \in Task : t = job[w].task
    BY <1>0
  <2>2. Only(t) /\ Gone(t)
    BY <1>7, <2>1, MovePlaces DEF Inv
  <2>3. ~Owed(t)' /\ \A u : u # t => (Owed(u)' <=> Owed(u))
    BY <2>2, GoneOwed, OnlyOwed
  <2>4. Own' = Own \ {t}
    BY <2>3 DEF Own
  <2>5. t \in Own
    BY <1>7, <2>1 DEF Confirms, Buries, Exits, Own, Owed, Held, Holds
  <2>6. ASSUME Confirms(w) PROVE Delivery!Release(t)
    <3>1. t \in done
      BY <2>1, <2>6 DEF Confirms, Inv, EndsSound
    <3> QED BY <2>4, <2>5, <2>6, <3>1 DEF Confirms, Delivery!Release, Own
  <2>7. ASSUME Buries(w) PROVE Delivery!Bury(t)
    BY <2>1, <2>4, <2>5, <2>7 DEF Buries, Delivery!Bury, Own
  <2>8. ASSUME Exits(w) PROVE Delivery!Tear({t})
    <3>1. {t} \in SUBSET {t}
      OBVIOUS
    <3>2. \E gone \in SUBSET {t} : Own' = Own \ gone
      BY <2>4, <3>1
    <3>3. {t} \subseteq Own /\ torn' = torn \cup {t} /\ UNCHANGED <<done, dead>>
      BY <2>1, <2>5, <2>8 DEF Exits
    <3> QED BY <3>2, <3>3 DEF Delivery!Tear, Delivery!Known, Own
  <2> QED BY <1>7, <2>6, <2>7, <2>8
<1>8. \A t \in Task : {t} \in SUBSET Task
  OBVIOUS
<1>9. ASSUME NEW w \in Thread, Picks(w) \/ PutsBack(w) PROVE UNCHANGED Delivery!vars
  BY <1>4, <1>5, <1>9 DEF Picks, PutsBack, Own, Delivery!vars
<1>10. (\E t \in Task : Enters(t)) => Delivery!Next
  BY <1>3 DEF Delivery!Next
<1>11. ASSUME NEW w \in Thread, Finishes(w) PROVE Delivery!Next
  BY <1>0, <1>6, <1>11 DEF Delivery!Next
<1>12. ASSUME NEW w \in Thread, Confirms(w) \/ Buries(w) \/ Exits(w) PROVE Delivery!Next
  BY <1>7, <1>8, <1>12 DEF Delivery!Next
<1> QED BY <1>2, <1>9, <1>10, <1>11, <1>12 DEF Move

LEMMA InitDelivers == Init => Delivery!Init
<1> SUFFICES ASSUME Init PROVE Delivery!Init
  OBVIOUS
<1>1. Waiting = {} /\ Held = {}
  BY DEF Init, Waiting, Held, Holds, ToSet
<1>2. {t \in Task : Owed(t)} = {}
  BY <1>1 DEF Owed
<1> QED BY <1>2 DEF Init, Delivery!Init

\* The in-process queue implements TaskDelivery: a submitted task leaves it only when its
\* handler returned, when it is dead-lettered, or with a thread that a BaseException ended.
THEOREM KeepsItsPromise == Spec => DeliveryPromise
<1>1. Inv /\ [Next]_vars => [Delivery!Next]_(Delivery!vars)
  BY InvStep, MoveSimulates
<1> QED BY <1>1, InitDelivers, InvAlways, PTL DEF Spec, DeliveryPromise, Delivery!Spec
-----------------------------------------------------------------------------
(* Wake-ups.  A thread that its timeout woke is still on the wait list, so that another   *)
(* notification may be spent on it: only those off the list count as on their way.        *)

Coming == {x \in Thread : pc[x] = "reserve" /\ x \notin ToSet(waiters)}
Sleeping == \E x \in Thread : pc[x] = "waiting"
Covered == Sleeping => Len(ready) <= Cardinality(Coming) + unnotified

LEMMA SubsetCounted ==
    ASSUME IsFiniteSet(Thread), NEW A, NEW B, A \subseteq B, B \subseteq Thread
    PROVE  Cardinality(A) \in Nat /\ Cardinality(B) \in Nat /\ Cardinality(A) <= Cardinality(B)
<1>1. IsFiniteSet(B)
  BY FS_Subset
<1> QED BY <1>1, FS_Subset, FS_CardinalityType

LEMMA OneLess ==
    ASSUME IsFiniteSet(Thread), NEW A, A \subseteq Thread, NEW B, B \subseteq Thread, NEW x,
           A \ {x} \subseteq B
    PROVE  Cardinality(A) \in Nat /\ Cardinality(B) \in Nat /\ Cardinality(A) - 1 <= Cardinality(B)
<1>1. IsFiniteSet(A)
  BY FS_Subset
<1>2. Cardinality(A) \in Nat /\ Cardinality(A \ {x}) >= Cardinality(A) - 1
  BY <1>1, FS_CardinalityType, FS_RemoveElement
<1>3. /\ Cardinality(A \ {x}) \in Nat /\ Cardinality(B) \in Nat
      /\ Cardinality(A \ {x}) <= Cardinality(B)
  BY SubsetCounted
<1> QED BY <1>2, <1>3

\* A step that leaves the tasks where they are and takes nobody off their way.
LEMMA StillCovered ==
    ASSUME IsFiniteSet(Thread), Sound, Covered, Coming \subseteq Coming', Sleeping' => Sleeping,
           UNCHANGED <<ready, unnotified>>
    PROVE  Covered'
<1>1. Cardinality(Coming) \in Nat /\ Cardinality(Coming') \in Nat
      /\ Cardinality(Coming) <= Cardinality(Coming')
  BY SubsetCounted DEF Coming
<1>2. Len(ready) \in Nat /\ unnotified \in Nat
  BY DEF Sound, Base, TypeOK
<1> QED BY <1>1, <1>2 DEF Covered

\* A notification.
LEMMA WakesOne ==
    ASSUME Sound, NEW at \in [Thread -> Pc], Wakes(at), Sleeping',
           \A x \in Coming : at[x] = "reserve", \A x \in Thread : at[x] = "waiting" => Sleeping
    PROVE  /\ Sleeping
           /\ \E h \in Thread : h \in Coming' /\ h \notin Coming /\ Coming \subseteq Coming'
<1>1. \E x \in Thread : pc'[x] = "waiting"
  BY DEF Sleeping
<1>2. PICK h \in ToSet(waiters) :
         /\ ToSet(waiters') = ToSet(waiters) \ {h}
         /\ at[h] \in {"waiting", "reserve"} /\ pc' = [at EXCEPT ![h] = "reserve"]
  BY <1>1 DEF Wakes
<1>3. h \in Thread
  BY DEF Sound, Base, TypeOK, ToSet
<1>4. \A x \in Thread : pc'[x] = IF x = h THEN "reserve" ELSE at[x]
  BY <1>2, <1>3
<1>5. Sleeping
  BY <1>1, <1>4
<1>6. h \in Coming' /\ h \notin Coming
  BY <1>2, <1>3, <1>4 DEF Coming
<1>7. Coming \subseteq Coming'
  BY <1>2, <1>4 DEF Coming
<1> QED BY <1>3, <1>5, <1>6, <1>7

LEMMA EnqueueCovers ==
    ASSUME IsFiniteSet(Thread), Sound, Covered, NEW t \in Task, Enqueue(t) PROVE Covered'
<1>1. /\ Wakes(pc) /\ Len(ready') <= Len(ready) + 1 /\ Len(ready') \in Nat
      /\ unnotified' = unnotified
  BY EnqueueMoves
<1>2. SUFFICES ASSUME Sleeping' PROVE Len(ready') <= Cardinality(Coming') + unnotified'
  BY DEF Covered
<1>3. pc \in [Thread -> Pc] /\ Len(ready) \in Nat /\ unnotified \in Nat
  BY DEF Sound, Base, TypeOK
<1>4. (\A x \in Coming : pc[x] = "reserve") /\ \A x \in Thread : pc[x] = "waiting" => Sleeping
  BY DEF Coming, Sleeping
<1>5. Sleeping /\ \E h \in Thread : h \in Coming' /\ h \notin Coming /\ Coming \subseteq Coming'
  BY <1>1, <1>2, <1>3, <1>4, WakesOne
<1>6. PICK h \in Thread : h \in Coming' /\ h \notin Coming /\ Coming \subseteq Coming'
  BY <1>5
<1>7. PICK B : B = Coming'
  OBVIOUS
<1>8. B \subseteq Thread /\ Coming \subseteq B \ {h} /\ h \in B
  BY <1>6, <1>7 DEF Coming
<1>9. IsFiniteSet(B)
  BY <1>8, FS_Subset
<1>10. Cardinality(B) \in Nat /\ Cardinality(B \ {h}) = Cardinality(B) - 1
  BY <1>8, <1>9, FS_RemoveElement, FS_CardinalityType
<1>11. Cardinality(Coming) \in Nat /\ Cardinality(Coming) <= Cardinality(B \ {h})
  BY <1>8, SubsetCounted
<1>12. Len(ready) <= Cardinality(Coming) + unnotified
  BY <1>5 DEF Covered
<1> QED BY <1>1, <1>3, <1>7, <1>10, <1>11, <1>12

LEMMA RetryCovers ==
    ASSUME IsFiniteSet(Thread), Sound, HandsSound, Covered, NEW w \in Thread, Retry(w)
    PROVE  Covered'
<1>1. PICK at : at = [pc EXCEPT ![w] = "loop"]
  OBVIOUS
<1>2. Wakes(at) /\ pc[w] = "run" /\ UNCHANGED <<ready, unnotified>>
  BY <1>1, RetryMoves
<1>3. at \in [Thread -> Pc] /\ at[w] = "loop" /\ \A x \in Thread \ {w} : at[x] = pc[x]
  BY <1>1 DEF Sound, Base, TypeOK, Pc
<1>4. (\A x \in Coming : at[x] = "reserve") /\ \A x \in Thread : at[x] = "waiting" => Sleeping
  BY <1>2, <1>3 DEF Coming, Sleeping
<1>5. CASE ~Sleeping'
  BY <1>5 DEF Covered
<1>6. CASE Sleeping'
  <2>1. Sleeping /\ Coming \subseteq Coming'
    BY <1>2, <1>3, <1>4, <1>6, WakesOne
  <2> QED BY <1>2, <2>1, StillCovered
<1> QED BY <1>5, <1>6

LEMMA StatsCovers ==
    ASSUME IsFiniteSet(Thread), Sound, Covered, Stats PROVE Covered'
<1>1. /\ ready' = Promoted /\ unnotified' = unnotified + due /\ pc' = pc /\ waiters' = waiters
  BY DEF Stats, PromoteDue, threads
<1>2. Len(ready') = Len(ready) + due
  BY <1>1, PromotedPart DEF Sound, Base
<1>3. Len(ready) \in Nat /\ due \in Nat /\ unnotified \in Nat
  BY DEF Sound, Base, TypeOK
<1>4. Coming' = Coming /\ (Sleeping' <=> Sleeping)
  BY <1>1 DEF Coming, Sleeping
<1>5. Cardinality(Coming) \in Nat
  BY SubsetCounted DEF Coming
<1> QED BY <1>1, <1>2, <1>3, <1>4, <1>5 DEF Covered

LEMMA CloseCovers == ASSUME Sound, Close PROVE Covered'
<1>1. pc' = [x \in Thread |-> IF x \in ToSet(waiters) THEN "reserve" ELSE pc[x]]
  BY DEF Close
<1>2. \A x \in Thread : pc[x] = "waiting" => x \in ToSet(waiters)
  BY DEF Sound, Base, WaitersSound, Listed
<1>3. \A x \in Thread : pc'[x] # "waiting"
  BY <1>1, <1>2
<1> QED BY <1>3 DEF Covered, Sleeping

\* A round begins, or a wait is over: one more on the way, or as many as before.
LEMMA RoundCovers ==
    ASSUME IsFiniteSet(Thread), Sound, Covered, NEW w \in Thread, Begin(w) \/ Timeout(w)
    PROVE  Covered'
<1>1. /\ pc[w] \in {"loop", "waiting"} /\ waiters' = waiters /\ UNCHANGED <<ready, unnotified>>
      /\ \E l \in {"halted", "reserve"} : pc' = [pc EXCEPT ![w] = l]
  BY DEF Begin, Timeout, Goto, queue, history
<1>2. pc'[w] # "waiting" /\ \A x \in Thread \ {w} : pc'[x] = pc[x]
  BY <1>1 DEF Sound, Base, TypeOK
<1>3. Sleeping' => Sleeping
  BY <1>2 DEF Sleeping
<1>4. Coming \subseteq Coming'
  BY <1>1, <1>2 DEF Coming
<1> QED BY <1>1, <1>3, <1>4, StillCovered

\* The queue is empty.
LEMMA NothingCovers ==
    ASSUME IsFiniteSet(Thread), Sound, NEW w \in Thread, ReserveNothing(w) \/ Wait(w)
    PROVE  Covered'
<1>1. Promoted = << >> /\ ready' = ready /\ unnotified' = unnotified
  BY DEF ReserveNothing, Wait, queue, history
<1>2. Len(Promoted) = Len(ready) + due
  BY PromotedPart DEF Sound, Base
<1>3. Len(ready) \in Nat /\ due \in Nat /\ unnotified \in Nat
  BY DEF Sound, Base, TypeOK
<1>4. Len(Promoted) = 0
  BY <1>1
<1>5. Len(ready') = 0
  BY <1>1, <1>2, <1>3, <1>4
<1>6. Cardinality(Coming') \in Nat
  BY SubsetCounted DEF Coming
<1> QED BY <1>1, <1>3, <1>5, <1>6 DEF Covered

\* The thread that takes a task is no longer on its way, and the task is no longer ready.
LEMMA ReserveCovers ==
    ASSUME IsFiniteSet(Thread), Sound, Covered, NEW w \in Thread, Reserve(w) PROVE Covered'
<1>1. /\ ToSet(waiters') = ToSet(waiters) \ {w} /\ pc' = [pc EXCEPT ![w] = "run"]
      /\ Len(ready') = Len(ready) + due - 1
  BY ReserveMoves
<1>2. unnotified' = unnotified + due
  BY DEF Reserve, PromoteDue
<1>3. Len(ready) \in Nat /\ due \in Nat /\ unnotified \in Nat
  BY DEF Sound, Base, TypeOK
<1>4. pc'[w] = "run" /\ \A x \in Thread \ {w} : pc'[x] = pc[x]
  BY <1>1 DEF Sound, Base, TypeOK
<1>5. Sleeping' => Sleeping
  BY <1>4 DEF Sleeping
<1>6. Coming \ {w} \subseteq Coming' /\ Coming \subseteq Thread /\ Coming' \subseteq Thread
  BY <1>1, <1>4 DEF Coming
<1>7. /\ Cardinality(Coming) \in Nat /\ Cardinality(Coming') \in Nat
      /\ Cardinality(Coming) - 1 <= Cardinality(Coming')
  BY <1>6, OneLess
<1> QED BY <1>1, <1>2, <1>3, <1>5, <1>7 DEF Covered

LEMMA SettleCovers ==
    ASSUME IsFiniteSet(Thread), Sound, Covered, NEW w \in Thread,
           HandlerReturns(w) \/ Ack(w) \/ Bury(w) \/ HandlerExits(w)
    PROVE  Covered'
<1>1. /\ pc[w] \in {"run", "ack"} /\ UNCHANGED <<ready, waiters, unnotified>>
      /\ \E l \in {"ack", "loop", "halted"} : pc' = [pc EXCEPT ![w] = l]
  BY SettleMoves
<1>2. pc'[w] # "waiting" /\ \A x \in Thread \ {w} : pc'[x] = pc[x]
  BY <1>1 DEF Sound, Base, TypeOK
<1>3. (Sleeping' => Sleeping) /\ Coming \subseteq Coming'
  BY <1>1, <1>2 DEF Sleeping, Coming
<1> QED BY <1>1, <1>3, StillCovered

LEMMA CoveredStep ==
    ASSUME IsFiniteSet(Thread), Inv, Covered, [Next]_vars PROVE Covered'
<1>0. Sound /\ HandsSound
  BY DEF Inv
<1>1. CASE Stop \/ ComeDue \/ UNCHANGED vars
  <2>1. UNCHANGED <<ready, waiters, pc, unnotified>>
    BY <1>0, <1>1, PassingMoves
  <2>2. Coming' = Coming /\ (Sleeping' <=> Sleeping)
    BY <2>1 DEF Coming, Sleeping
  <2> QED BY <1>0, <2>1, <2>2, StillCovered
<1>2. ASSUME NEW w \in Thread, Consume(w) PROVE Covered'
  BY <1>0, <1>2, RoundCovers, NothingCovers, ReserveCovers, SettleCovers, RetryCovers
  DEF Consume
<1> QED BY <1>0, <1>1, <1>2, EnqueueCovers, StatsCovers, CloseCovers DEF Next

\* No wake-up is lost: while a thread sleeps, every ready task has another thread on its
\* way to it, except for those that became ready without a notification.
THEOREM NoWakeupLost == ASSUME IsFiniteSet(Thread) PROVE Spec => []WakeupsCoverReady
<1>1. Init => Covered
  BY DEF Init, Covered, Sleeping
<1>2. Inv /\ Covered /\ [Next]_vars => Covered'
  BY CoveredStep
<1>3. Inv /\ Covered => WakeupsCoverReady
  <2> SUFFICES ASSUME Inv, Covered, Sleeping
               PROVE  Len(ready) <= Cardinality({w \in Thread : pc[w] = "reserve"}) + unnotified
    BY DEF WakeupsCoverReady, Sleeping
  <2>1. Len(ready) \in Nat /\ unnotified \in Nat
    BY DEF Inv, Sound, Base, TypeOK
  <2>2. Coming \subseteq {w \in Thread : pc[w] = "reserve"}
    BY DEF Coming
  <2>3. /\ Cardinality(Coming) \in Nat /\ Cardinality({w \in Thread : pc[w] = "reserve"}) \in Nat
        /\ Cardinality(Coming) <= Cardinality({w \in Thread : pc[w] = "reserve"})
    BY <2>2, SubsetCounted
  <2> QED BY <2>1, <2>3 DEF Covered
<1> QED BY <1>1, <1>2, <1>3, InvAlways, PTL DEF Spec
=============================================================================
