-------------------------- MODULE TcpFramingProofs --------------------------
(***************************************************************************)
(* Theorems about TcpFraming: for every stream, however it is chunked, and *)
(* every configuration that FramingAssumption allows.                      *)
(***************************************************************************)
EXTENDS TcpFraming, SequenceTheorems, FiniteSetTheorems, WellFoundedInduction, TLAPS

(* Facts about numbers and about Find. *)

\* The least-number principle, from the well-foundedness of < on Nat.
LEMMA Least ==
    ASSUME NEW T \in SUBSET Nat, T # {}
    PROVE  \E m \in T : \A k \in T : m <= k
<1> DEFINE R == OpToRel(<, Nat)
<1>1. IsWellFoundedOn(R, Nat)
  BY NatLessThanWellFounded
<1>2. \A x, y \in Nat : x < y => <<x, y>> \in R
  BY DEF OpToRel
<1> HIDE DEF R
<1>3. PICK m \in T : \A k \in T : <<k, m>> \notin R
  BY <1>1, WFMin
<1>4. m \in Nat /\ \A k \in T : k \in Nat /\ ~(k < m)
  BY <1>2, <1>3
<1>5. \A k \in T : m <= k
  BY <1>4
<1> QED BY <1>5

LEMMA FindNone ==
    ASSUME NEW s, NEW p, NEW i, \A k \in i .. Len(s) - Len(p) + 1 : ~At(s, p, k)
    PROVE  Find(s, p, i) = 0
BY DEF Find

LEMMA FindFirst ==
    ASSUME NEW s \in Seq(Byte), NEW p \in Seq(Byte), NEW i \in Nat \ {0}
    PROVE  /\ Find(s, p, i) \in Nat
           /\ Find(s, p, i) = 0 => \A k \in i .. Len(s) - Len(p) + 1 : ~At(s, p, k)
           /\ Find(s, p, i) # 0 =>
                /\ i <= Find(s, p, i) /\ Find(s, p, i) + Len(p) - 1 <= Len(s)
                /\ At(s, p, Find(s, p, i))
                /\ \A k \in i .. Find(s, p, i) - 1 : ~At(s, p, k)
<1> DEFINE hits == {j \in i .. Len(s) - Len(p) + 1 : At(s, p, j)}
           first == CHOOSE j \in hits : \A k \in hits : j <= k
<1>1. Find(s, p, i) = IF hits = {} THEN 0 ELSE first
  BY DEF Find
<1>2. Len(s) \in Nat /\ Len(p) \in Nat
  OBVIOUS
<1>3. CASE hits = {}
  BY <1>1, <1>3
<1>4. CASE hits # {}
  <2>1. hits \in SUBSET Nat
    BY <1>2
  <2>2. \E j \in hits : \A k \in hits : j <= k
    BY <1>4, <2>1, Least
  <2>3. first \in hits /\ \A k \in hits : first <= k
    BY <2>2
  <2> HIDE DEF first
  <2>4. first \in i .. Len(s) - Len(p) + 1 /\ At(s, p, first)
    BY <2>3
  <2>5. first \in Nat \ {0} /\ i <= first /\ first + Len(p) - 1 <= Len(s)
    BY <1>2, <2>4
  <2>6. ASSUME NEW k \in i .. first - 1 PROVE ~At(s, p, k)
    <3>1. k \in i .. Len(s) - Len(p) + 1 /\ ~(first <= k)
      BY <1>2, <2>4
    <3> QED BY <2>3, <3>1
  <2> QED BY <1>1, <1>4, <2>4, <2>5, <2>6
<1> QED BY <1>3, <1>4

\* What is at a place depends on the bytes there.
LEMMA AtShift ==
    ASSUME NEW s \in Seq(Byte), NEW t \in Seq(Byte), NEW p \in Seq(Byte),
           NEW i \in Int, NEW d \in Int,
           1 <= i, i + Len(p) - 1 <= Len(s), 1 <= i + d, i + d + Len(p) - 1 <= Len(t),
           \A m \in i .. i + Len(p) - 1 : s[m] = t[m + d]
    PROVE  At(s, p, i) <=> At(t, p, i + d)
<1> DEFINE n == Len(p)
           u == SubSeq(s, i, i + n - 1)
           v == SubSeq(t, i + d, i + d + n - 1)
<1>1. n \in Nat /\ Len(s) \in Nat /\ Len(t) \in Nat
  OBVIOUS
<1>2. \A m \in i .. i + n - 1 : s[m] \in Byte
  BY <1>1, ElementOfSeq
<1>3. \A m \in i + d .. i + d + n - 1 : t[m] \in Byte
  BY <1>1, ElementOfSeq
<1>4. /\ u \in Seq(Byte) /\ Len(u) = n
      /\ \A m \in 1 .. n : u[m] = s[i + m - 1]
  BY <1>1, <1>2, SubSeqProperties
<1>5. /\ v \in Seq(Byte) /\ Len(v) = n
      /\ \A m \in 1 .. n : v[m] = t[i + d + m - 1]
  BY <1>1, <1>3, SubSeqProperties
<1> HIDE DEF u, v
<1>6. ASSUME NEW m \in 1 .. n PROVE u[m] = v[m]
  <2>1. i + m - 1 \in i .. i + n - 1 /\ (i + m - 1) + d = i + d + m - 1
    BY <1>1
  <2> QED BY <1>4, <1>5, <2>1
<1>7. u = v
  BY <1>4, <1>5, <1>6, SeqEqual
<1> QED BY <1>7 DEF At, u, v

(* A sequence that is a part of another one, as the buffer is of the stream. *)

\* s is what follows the first d elements of t.
View(s, t, d) ==
    d + Len(s) <= Len(t) /\ \A m \in 1 .. Len(s) : s[m] = t[d + m]

LEMMA ViewAt ==
    ASSUME NEW s \in Seq(Byte), NEW t \in Seq(Byte), NEW p \in Seq(Byte),
           NEW d \in Nat, View(s, t, d),
           NEW i \in Nat \ {0}, i + Len(p) - 1 <= Len(s)
    PROVE  At(s, p, i) <=> At(t, p, d + i)
<1>1. Len(s) \in Nat /\ Len(t) \in Nat /\ Len(p) \in Nat
  OBVIOUS
<1>2. 1 <= i + d /\ i + d + Len(p) - 1 <= Len(t)
  BY <1>1 DEF View
<1>3. \A m \in i .. i + Len(p) - 1 : s[m] = t[m + d]
  BY <1>1 DEF View
<1>4. i \in Int /\ d \in Int /\ 1 <= i /\ i + d = d + i
  OBVIOUS
<1>5. At(s, p, i) <=> At(t, p, i + d)
  BY <1>2, <1>3, <1>4, AtShift
<1> QED BY <1>4, <1>5

LEMMA ViewOfSlice ==
    ASSUME NEW s \in Seq(Byte), NEW i \in Nat \ {0}, NEW j \in 0 .. Len(s), i <= j + 1
    PROVE  /\ SubSeq(s, i, j) \in Seq(Byte) /\ Len(SubSeq(s, i, j)) = j - i + 1
           /\ View(SubSeq(s, i, j), s, i - 1)
<1>1. Len(s) \in Nat
  OBVIOUS
<1>2. \A m \in i .. j : s[m] \in Byte
  BY <1>1, ElementOfSeq
<1>3. /\ SubSeq(s, i, j) \in Seq(Byte) /\ Len(SubSeq(s, i, j)) = j - i + 1
      /\ \A m \in 1 .. j - i + 1 : SubSeq(s, i, j)[m] = s[i + m - 1]
  BY <1>1, <1>2, SubSeqProperties
<1>4. \A m \in 1 .. j - i + 1 : i + m - 1 = i - 1 + m
  BY <1>1
<1> QED BY <1>1, <1>3, <1>4 DEF View

\* What Find says of a part, in places of the whole.
LEMMA FindInView ==
    ASSUME NEW s \in Seq(Byte), NEW t \in Seq(Byte), NEW p \in Seq(Byte),
           NEW d \in Nat, View(s, t, d), NEW i \in Nat \ {0}
    PROVE  /\ Find(s, p, i) \in Nat
           /\ Find(s, p, i) = 0 =>
                \A k \in d + i .. d + Len(s) - Len(p) + 1 : ~At(t, p, k)
           /\ Find(s, p, i) # 0 =>
                /\ i <= Find(s, p, i) /\ Find(s, p, i) + Len(p) - 1 <= Len(s)
                /\ At(t, p, d + Find(s, p, i))
                /\ \A k \in d + i .. d + Find(s, p, i) - 1 : ~At(t, p, k)
<1> DEFINE f == Find(s, p, i)
<1>1. Len(s) \in Nat /\ Len(p) \in Nat /\ f \in Nat
  BY FindFirst
<1>2. ASSUME NEW k \in Int, d + i <= k, k + Len(p) - 1 <= d + Len(s), ~At(s, p, k - d)
      PROVE  ~At(t, p, k)
  <2>1. k - d \in Nat \ {0} /\ k - d + Len(p) - 1 <= Len(s) /\ d + (k - d) = k
    BY <1>1, <1>2
  <2> QED BY <1>2, <2>1, ViewAt
<1>3. CASE f = 0
  <2>1. \A k \in i .. Len(s) - Len(p) + 1 : ~At(s, p, k)
    BY <1>3, FindFirst
  <2>2. ASSUME NEW k \in d + i .. d + Len(s) - Len(p) + 1 PROVE ~At(t, p, k)
    <3>1. k - d \in i .. Len(s) - Len(p) + 1 /\ d + i <= k /\ k + Len(p) - 1 <= d + Len(s)
      BY <1>1
    <3> QED BY <1>2, <2>1, <3>1
  <2> QED BY <1>1, <1>3, <2>2
<1>4. CASE f # 0
  <2>1. /\ i <= f /\ f + Len(p) - 1 <= Len(s) /\ At(s, p, f)
        /\ \A k \in i .. f - 1 : ~At(s, p, k)
    BY <1>4, FindFirst
  <2>2. At(t, p, d + f)
    BY <1>1, <1>4, <2>1, ViewAt
  <2>3. ASSUME NEW k \in d + i .. d + f - 1 PROVE ~At(t, p, k)
    <3>1. k - d \in i .. f - 1 /\ d + i <= k /\ k + Len(p) - 1 <= d + Len(s)
      BY <1>1, <2>1
    <3> QED BY <1>2, <2>1, <3>1
  <2> QED BY <1>1, <1>4, <2>1, <2>2, <2>3
<1> QED BY <1>3, <1>4

\* What is nowhere in the range is not found in the slice.
LEMMA NoneInSlice ==
    ASSUME NEW s \in Seq(Byte), NEW p \in Seq(Byte),
           NEW i \in Nat \ {0}, NEW j \in 0 .. Len(s), i <= j + 1, NEW b \in Nat \ {0},
           \A k \in i + b - 1 .. j - Len(p) + 1 : ~At(s, p, k)
    PROVE  Find(SubSeq(s, i, j), p, b) = 0
<1> DEFINE u == SubSeq(s, i, j)
           f == Find(u, p, b)
           d == i - 1
<1>1. Len(s) \in Nat /\ Len(p) \in Nat
  OBVIOUS
<1>2. u \in Seq(Byte) /\ Len(u) = j - i + 1 /\ View(u, s, d) /\ d \in Nat
  BY ViewOfSlice
<1> HIDE DEF u, d
<1>3. SUFFICES ASSUME Find(u, p, b) # 0 PROVE FALSE
  BY DEF u
<1> HIDE DEF f
<1>6. /\ f \in Nat
      /\ f # 0 => b <= f /\ f + Len(p) - 1 <= Len(u) /\ At(s, p, d + f)
  BY <1>2, FindInView DEF f
<1>4. f \in Nat /\ b <= f /\ f + Len(p) - 1 <= j - i + 1 /\ At(s, p, d + f)
  BY <1>2, <1>3, <1>6 DEF f
<1>5. d + f \in i + b - 1 .. j - Len(p) + 1
  BY <1>1, <1>4 DEF d
<1> QED BY <1>4, <1>5

-----------------------------------------------------------------------------
(* The buffer is the part of the stream that was received and not cut. *)

LEMMA Delimiters ==
    ASSUME NEW f \in Framing
    PROVE  /\ f.mode \in {"line", "fixed", "head_tail"}
           /\ f.mode = "line" => f.sep \in Seq(Byte) /\ Len(f.sep) \in Nat \ {0}
           /\ f.mode = "fixed" => f.length \in Nat \ {0}
           /\ f.mode = "head_tail" =>
                /\ f.head \in Seq(Byte) /\ Len(f.head) \in Nat \ {0}
                /\ f.tail \in Seq(Byte) /\ Len(f.tail) \in Nat \ {0}
<1>1. \A s \in Seq(Byte) \ {<< >>} : s \in Seq(Byte) /\ Len(s) \in Nat \ {0}
  BY EmptySeq
<1>2. CASE f.mode = "line" /\ f.sep \in Seq(Byte) \ {<< >>}
  BY <1>1, <1>2
<1>3. CASE f.mode = "fixed" /\ f.length \in Nat \ {0}
  BY <1>3
<1>4. CASE /\ f.mode = "head_tail"
           /\ f.head \in Seq(Byte) \ {<< >>} /\ f.tail \in Seq(Byte) \ {<< >>}
  BY <1>1, <1>4
<1> QED BY <1>2, <1>3, <1>4, FramingAssumption

TypeOK ==
    /\ framing \in Framing /\ stream \in Seq(Byte)
    /\ received \in 0 .. Len(stream)
    /\ buffer \in Seq(Byte) /\ Len(buffer) <= received
    /\ frames \in Seq([first : Nat, last : Nat])
    /\ resyncs \in Nat /\ status \in {"open", "failed", "closed"}

Mirror == View(buffer, stream, Cut)

Buffered == TypeOK /\ Mirror

LEMMA Numbers ==
    ASSUME TypeOK
    PROVE  /\ Len(stream) \in Nat /\ Len(buffer) \in Nat /\ received \in Nat
           /\ Cut \in Nat /\ Cut + Len(buffer) = received /\ received <= Len(stream)
BY DEF TypeOK, Cut

LEMMA DropFacts ==
    ASSUME Buffered, NEW n \in 0 .. Len(buffer), Drop(n), UNCHANGED <<stream, received>>
    PROVE  /\ buffer' \in Seq(Byte) /\ Len(buffer') = Len(buffer) - n /\ Len(buffer') <= received'
           /\ Cut' = Cut + n /\ Mirror'
<1>1. /\ Len(stream) \in Nat /\ Len(buffer) \in Nat /\ received \in Nat
      /\ Cut \in Nat /\ Cut + Len(buffer) = received /\ received <= Len(stream)
      /\ buffer \in Seq(Byte) /\ stream \in Seq(Byte)
  BY Numbers DEF Buffered, TypeOK
<1>2. /\ buffer' \in Seq(Byte) /\ Len(buffer') = Len(buffer) - n
      /\ \A m \in 1 .. Len(buffer) - n : buffer'[m] = buffer[n + m]
  BY <1>1 DEF Drop
<1>3. Cut' = Cut + n
  BY <1>1, <1>2 DEF Cut
<1>4. \A m \in 1 .. Len(buffer) : buffer[m] = stream[Cut + m]
  BY DEF Buffered, Mirror, View
<1>5. ASSUME NEW m \in 1 .. Len(buffer') PROVE buffer'[m] = stream[Cut' + m]
  <2>1. n + m \in 1 .. Len(buffer) /\ Cut + (n + m) = Cut' + m
    BY <1>1, <1>2, <1>3
  <2> QED BY <1>2, <1>4, <2>1
<1>6. Mirror'
  BY <1>1, <1>2, <1>3, <1>5 DEF Mirror, View
<1> QED BY <1>1, <1>2, <1>3, <1>6

LEMMA RecvFacts ==
    ASSUME Buffered, RecvMore
    PROVE  Buffered' /\ Cut' = Cut /\ Len(buffer') <= Len(buffer) + Chunk
<1>1. /\ Len(stream) \in Nat /\ Len(buffer) \in Nat /\ received \in Nat
      /\ Cut \in Nat /\ Cut + Len(buffer) = received /\ received <= Len(stream)
      /\ buffer \in Seq(Byte) /\ stream \in Seq(Byte)
  BY Numbers DEF Buffered, TypeOK
<1>2. PICK n \in 1 .. Chunk :
         /\ received + n <= Len(stream)
         /\ received' = received + n
         /\ buffer' = buffer \o SubSeq(stream, received + 1, received + n)
  BY DEF RecvMore
<1>3. UNCHANGED <<framing, stream, frames, resyncs, status>>
  BY DEF RecvMore
<1>4. n \in Nat /\ n <= Chunk
  BY FramingAssumption
<1> DEFINE more == SubSeq(stream, received + 1, received + n)
<1>5. /\ more \in Seq(Byte) /\ Len(more) = n
      /\ \A m \in 1 .. n : more[m] = stream[received + m]
  <2>1. received + 1 \in Nat \ {0} /\ received + n \in 0 .. Len(stream)
        /\ received + 1 <= received + n + 1
        /\ received + n - (received + 1) + 1 = n /\ received + 1 - 1 = received
    BY <1>1, <1>2, <1>4
  <2> QED BY <1>1, <2>1, ViewOfSlice DEF View
<1> HIDE DEF more
<1>6. /\ buffer' \in Seq(Byte) /\ Len(buffer') = Len(buffer) + n
      /\ \A m \in 1 .. Len(buffer) : buffer'[m] = buffer[m]
      /\ \A m \in 1 .. n : buffer'[Len(buffer) + m] = stream[received + m]
  BY <1>1, <1>2, <1>4, <1>5 DEF more
<1>7. Cut' = Cut
  BY <1>1, <1>2, <1>4, <1>6 DEF Cut
<1>8. \A m \in 1 .. Len(buffer) : buffer[m] = stream[Cut + m]
  BY DEF Buffered, Mirror, View
<1>9. ASSUME NEW m \in 1 .. Len(buffer') PROVE buffer'[m] = stream[Cut' + m]
  <2>1. CASE m \in 1 .. Len(buffer)
    BY <1>6, <1>7, <1>8, <2>1
  <2>2. CASE m \notin 1 .. Len(buffer)
    <3>1. m \in Nat /\ m > Len(buffer) /\ m <= Len(buffer) + n
      BY <1>1, <1>4, <1>6, <2>2
    <3> HIDE DEF Cut
    <3>2. m - Len(buffer) \in 1 .. n /\ Len(buffer) + (m - Len(buffer)) = m
          /\ received + (m - Len(buffer)) = Cut' + m
      BY <1>1, <1>4, <1>7, <3>1
    <3> QED BY <1>6, <3>2
  <2> QED BY <2>1, <2>2
<1>10. Mirror'
  <2>1. Cut' + Len(buffer') <= Len(stream')
    BY <1>1, <1>2, <1>3, <1>4, <1>6, <1>7
  <2> QED BY <1>3, <1>9, <2>1 DEF Mirror, View
<1>11. TypeOK'
  BY <1>1, <1>2, <1>3, <1>4, <1>6 DEF Buffered, TypeOK
<1>12. Chunk \in Nat
  BY FramingAssumption
<1>13. Len(buffer') <= Len(buffer) + Chunk
  BY <1>1, <1>4, <1>6, <1>12
<1> QED BY <1>7, <1>10, <1>11, <1>13 DEF Buffered

\* f is the place in the buffer where Find found p at place i or later, 0 for nowhere.
FoundAt(p, i, f) ==
    /\ f \in Nat
    /\ f = 0 => \A k \in Cut + i .. received - Len(p) + 1 : ~At(stream, p, k)
    /\ f # 0 =>
         /\ i <= f /\ Cut + f + Len(p) - 1 <= received /\ At(stream, p, Cut + f)
         /\ \A k \in Cut + i .. Cut + f - 1 : ~At(stream, p, k)

LEMMA FindInBuffer ==
    ASSUME Buffered, NEW p \in Seq(Byte), NEW i \in Nat \ {0}
    PROVE  FoundAt(p, i, Find(buffer, p, i))
<1> DEFINE f == Find(buffer, p, i)
<1>1. /\ buffer \in Seq(Byte) /\ stream \in Seq(Byte) /\ View(buffer, stream, Cut)
      /\ Cut \in Nat /\ Cut + Len(buffer) = received /\ Len(buffer) \in Nat /\ received \in Nat
  BY Numbers DEF Buffered, TypeOK, Mirror
<1>2. /\ f \in Nat
      /\ f = 0 =>
           \A k \in Cut + i .. Cut + Len(buffer) - Len(p) + 1 : ~At(stream, p, k)
      /\ f # 0 =>
           /\ i <= f /\ f + Len(p) - 1 <= Len(buffer)
           /\ At(stream, p, Cut + f)
           /\ \A k \in Cut + i .. Cut + f - 1 : ~At(stream, p, k)
  BY <1>1, FindInView
<1> HIDE DEF f, Cut
<1>3. Cut + Len(buffer) - Len(p) = received - Len(p)
  BY <1>1
<1>4. f # 0 => Cut + f + Len(p) - 1 <= received
  BY <1>1, <1>2
<1> QED BY <1>2, <1>3, <1>4 DEF f, FoundAt

LEMMA SeparatorFacts ==
    ASSUME Buffered, framing.mode = "line"
    PROVE  /\ framing.sep \in Seq(Byte) /\ Len(framing.sep) \in Nat \ {0}
           /\ FoundAt(framing.sep, 1, Separator)
<1>1. framing.sep \in Seq(Byte) /\ Len(framing.sep) \in Nat \ {0}
  BY Delimiters DEF Buffered, TypeOK
<1>2. 1 \in Nat \ {0}
  OBVIOUS
<1> QED BY <1>1, <1>2, FindInBuffer DEF Separator

LEMMA HeadTailFacts ==
    ASSUME Buffered, framing.mode = "head_tail"
    PROVE  /\ framing.head \in Seq(Byte) /\ Len(framing.head) \in Nat \ {0}
           /\ framing.tail \in Seq(Byte) /\ Len(framing.tail) \in Nat \ {0}
           /\ FoundAt(framing.head, 1, Head1)
           /\ FoundAt(framing.tail, Len(framing.head) + 1, Tail1)
           /\ FoundAt(framing.head, Len(framing.head) + 1, Head2)
<1>1. /\ framing.head \in Seq(Byte) /\ Len(framing.head) \in Nat \ {0}
      /\ framing.tail \in Seq(Byte) /\ Len(framing.tail) \in Nat \ {0}
  BY Delimiters DEF Buffered, TypeOK
<1>2. 1 \in Nat \ {0} /\ Len(framing.head) + 1 \in Nat \ {0}
  BY <1>1
<1> QED BY <1>1, <1>2, FindInBuffer DEF Head1, Tail1, Head2
-----------------------------------------------------------------------------
(* What a step does to the messages. *)

\* Where what was not delivered begins.
LastStart == GapStart(Len(frames) + 1)

\* Nothing was lost before a message that was delivered.
ClosedGaps ==
    Apart => \A k \in 1 .. Len(frames) : Empty(Between(GapStart(k), GapEnd(k)))

LEMMA SizesFacts ==
    ASSUME TypeOK
    PROVE  DelimiterBefore \in Nat /\ DelimiterAfter \in Nat /\ LastStart \in Nat \ {0}
<1>1. DelimiterBefore \in Nat /\ DelimiterAfter \in Nat
  <2>1. framing \in Framing
    BY DEF TypeOK
  <2>2. CASE framing.mode = "line"
    BY <2>1, <2>2, Delimiters DEF DelimiterBefore, DelimiterAfter
  <2>3. CASE framing.mode = "fixed"
    BY <2>3 DEF DelimiterBefore, DelimiterAfter
  <2>4. CASE framing.mode = "head_tail"
    BY <2>1, <2>4, Delimiters DEF DelimiterBefore, DelimiterAfter
  <2>5. framing.mode \in {"line", "fixed", "head_tail"}
    BY <2>1, Delimiters
  <2> QED BY <2>2, <2>3, <2>4, <2>5
<1>2. CASE Len(frames) = 0
  BY <1>1, <1>2 DEF LastStart, GapStart
<1>3. CASE Len(frames) # 0
  <2>1. Len(frames) \in 1 .. Len(frames) /\ Len(frames) + 1 # 1
        /\ Len(frames) + 1 - 1 = Len(frames)
    BY <1>3 DEF TypeOK
  <2>2. frames[Len(frames)].last \in Nat
    <3>1. frames \in Seq([first : Nat, last : Nat])
      BY DEF TypeOK
    <3>2. frames[Len(frames)] \in [first : Nat, last : Nat]
      BY <2>1, <3>1, ElementOfSeq
    <3> QED BY <3>2
  <2>3. LastStart = frames[Len(frames)].last + DelimiterAfter + 1
    BY <2>1 DEF LastStart, GapStart
  <2> HIDE DEF LastStart
  <2> QED BY <1>1, <2>2, <2>3
<1> QED BY <1>1, <1>2, <1>3

LEMMA QuietStep ==
    ASSUME TypeOK, UNCHANGED <<framing, stream, frames>>, FramesSound, ClosedGaps
    PROVE  LastStart' = LastStart /\ FramesSound' /\ ClosedGaps'
<1>1. LastStart' = LastStart
  BY DEF LastStart, GapStart, DelimiterAfter
<1>2. FramesSound'
  BY DEF FramesSound, FrameSound, Payload, Between
<1>3. ASSUME NEW k \in 1 .. Len(frames)
      PROVE  /\ GapStart(k)' = GapStart(k) /\ GapEnd(k)' = GapEnd(k)
             /\ Empty(Between(GapStart(k), GapEnd(k)))' = Empty(Between(GapStart(k), GapEnd(k)))
  <2>1. ~(k > Len(frames))
    BY DEF TypeOK
  <2>2. /\ GapStart(k)' = GapStart(k) /\ GapEnd(k)' = GapEnd(k)
    BY <2>1 DEF GapStart, GapEnd, DelimiterAfter, DelimiterBefore
  <2> QED BY <2>2 DEF Empty, Between
<1>4. Apart' = Apart
  BY DEF Apart
<1>5. ClosedGaps'
  BY <1>3, <1>4 DEF ClosedGaps
<1> QED BY <1>1, <1>2, <1>5

LEMMA DeliverStep ==
    ASSUME TypeOK, UNCHANGED <<framing, stream>>, FramesSound, ClosedGaps, NEW n \in Nat,
           NEW last, last = Len(frames) + 1,
           Deliver(DelimiterBefore, n), Cut' = Cut + DelimiterBefore + n + DelimiterAfter,
           FrameSound(last)', Apart => Empty(Between(LastStart, Cut))
    PROVE  /\ frames' \in Seq([first : Nat, last : Nat])
           /\ LastStart' = Cut' + 1 /\ FramesSound' /\ ClosedGaps'
<1> DEFINE i == Cut + DelimiterBefore + 1
           j == Cut + DelimiterBefore + n
           new == [first |-> i, last |-> j]
<1>1. Cut \in Nat /\ DelimiterBefore \in Nat /\ DelimiterAfter \in Nat /\ LastStart \in Nat
  BY Numbers, SizesFacts
<1>2. new \in [first : Nat, last : Nat] /\ new.first = i /\ new.last = j
  <2>1. i \in Nat /\ j \in Nat
    BY <1>1
  <2> HIDE DEF i, j
  <2> QED BY <2>1
<1>3. frames' = Append(frames, new)
  BY DEF Deliver
<1> HIDE DEF new
<1>4. /\ frames' \in Seq([first : Nat, last : Nat]) /\ Len(frames') = Len(frames) + 1
      /\ \A k \in 1 .. Len(frames) : frames'[k] = frames[k]
      /\ frames'[last] = new /\ Len(frames) \in Nat
      /\ DOMAIN frames' = 1 .. last /\ DOMAIN frames = 1 .. Len(frames)
      /\ last \in Nat /\ Len(frames') = last
  BY <1>2, <1>3 DEF TypeOK
<1>5. DelimiterAfter' = DelimiterAfter /\ DelimiterBefore' = DelimiterBefore /\ Apart' = Apart
  BY DEF DelimiterAfter, DelimiterBefore, Apart
<1>6. LastStart' = Cut' + 1
  <2>1. LastStart' = frames'[Len(frames)' + 1 - 1].last + DelimiterAfter + 1
    BY <1>4, <1>5 DEF LastStart, GapStart
  <2>2. LastStart' = j + DelimiterAfter + 1
    BY <1>2, <1>4, <2>1
  <2> HIDE DEF LastStart, Cut
  <2> QED BY <1>1, <2>2
<1>7. FramesSound'
  <2>1. ASSUME NEW k \in 1 .. Len(frames) PROVE FrameSound(k)'
    <3>1. FrameSound(k) /\ frames'[k] = frames[k]
      BY <1>4 DEF FramesSound
    <3> QED BY <3>1 DEF FrameSound, Payload, Between
  <2>2. ASSUME NEW k \in 1 .. last PROVE FrameSound(k)'
    BY <1>4, <2>1
  <2> QED BY <1>4, <2>2 DEF FramesSound
<1>8. ASSUME NEW k \in 1 .. Len(frames), Apart
      PROVE  Empty(Between(GapStart(k), GapEnd(k)))'
  <2>1. k \in Nat /\ k <= Len(frames) /\ (k # 1 => k-1 \in 1 .. Len(frames))
    BY <1>4
  <2>2. ~(k > Len(frames)) /\ ~(k > Len(frames')) /\ frames'[k] = frames[k]
    BY <1>4, <2>1
  <2>3. k # 1 => frames'[k-1] = frames[k-1]
    BY <1>4, <2>1
  <2>4. /\ GapStart(k)' = GapStart(k) /\ GapEnd(k)' = GapEnd(k)
    BY <1>5, <2>2, <2>3 DEF GapStart, GapEnd
  <2>5. Empty(Between(GapStart(k), GapEnd(k)))
    BY <1>8 DEF ClosedGaps
  <2> QED BY <2>4, <2>5 DEF Empty, Between
<1>9. ASSUME Apart
      PROVE  Empty(Between(GapStart(last), GapEnd(last)))'
  <2>1. ~(last > Len(frames')) /\ frames'[last] = new
    BY <1>4
  <2>2. last # 1 => frames'[last - 1] = frames[last - 1]
    <3>1. last # 1 => last - 1 \in 1 .. Len(frames)
      BY <1>4
    <3> QED BY <1>4, <3>1
  <2>3. GapStart(last)' = LastStart
    BY <1>5, <2>2 DEF GapStart, LastStart
  <2>4. GapEnd(last)' = i - DelimiterBefore - 1
    BY <1>2, <1>5, <2>1 DEF GapEnd
  <2>5. i - DelimiterBefore - 1 = Cut
    BY <1>1
  <2> HIDE DEF i
  <2> QED BY <1>9, <2>3, <2>4, <2>5 DEF Empty, Between
<1>10. ClosedGaps'
  <2>1. ASSUME NEW k \in 1 .. last, Apart PROVE Empty(Between(GapStart(k), GapEnd(k)))'
    BY <1>4, <1>8, <1>9, <2>1
  <2> QED BY <1>4, <1>5, <2>1 DEF ClosedGaps
<1> QED BY <1>4, <1>6, <1>7, <1>10
-----------------------------------------------------------------------------
(* What was dropped since the last message, in each mode. *)

\* Separators and nothing else.
LineGap ==
    \E q \in Nat :
      /\ Cut + 1 = LastStart + q * Len(framing.sep)
      /\ \A r \in 0 .. q - 1 : At(stream, framing.sep, LastStart + r * Len(framing.sep))

FixedGap == LastStart = Cut + 1

\* If anything, up to the head that the buffer begins with; and after a head no tail, up
\* to the end of that one.
HeadTailGap ==
    /\ LastStart <= Cut + 1
    /\ LastStart <= Cut =>
         Cut + Len(framing.head) <= received /\ At(stream, framing.head, Cut + 1)
    /\ \A h \in LastStart .. Cut : At(stream, framing.head, h) =>
         \A p \in h + Len(framing.head) .. Cut + Len(framing.head) - Len(framing.tail) + 1 :
           ~At(stream, framing.tail, p)

\* The heads that were given up since the last message.
Chain ==
    resyncs > 0 =>
      \E i \in LastStart .. Cut :
        At(stream, framing.head, i) /\ Cardinality(Heads \cap (i + 1 .. Cut + 1)) >= resyncs

OpenGap ==
    /\ framing.mode = "line" => LineGap
    /\ framing.mode = "fixed" => FixedGap
    /\ framing.mode = "head_tail" /\ Apart => HeadTailGap /\ Chain

IInv ==
    /\ Buffered /\ BufferBounded /\ FramesSound /\ ClosedGaps
    /\ status # "failed" => OpenGap
    /\ FailsForCause
-----------------------------------------------------------------------------
(* Arithmetic of a gap made of q separators of n bytes. *)

LEMMA Multiple ==
    ASSUME NEW n \in Nat \ {0}, NEW q \in Nat
    PROVE  (q * n) % n = 0 /\ q * n \in Nat
BY SMT

LEMMA Earlier ==
    ASSUME NEW n \in Nat \ {0}, NEW q \in Nat, NEW r \in Nat, r < q
    PROVE  r * n \in Nat /\ q * n \in Nat /\ r * n + n <= q * n
<1>1. (q - (r + 1)) * n \in Nat /\ r * n \in Nat /\ q * n \in Nat
  BY SMT
<1>2. q * n = (r + 1) * n + (q - (r + 1)) * n /\ (r + 1) * n = r * n + n
  BY SMT
<1> QED BY <1>1, <1>2

LEMMA WithinMultiple ==
    ASSUME NEW n \in Nat \ {0}, NEW q \in Nat, NEW r \in Nat, 1 + r * n <= q * n
    PROVE  r < q
<1>1. SUFFICES ASSUME r >= q PROVE FALSE
  OBVIOUS
<1>2. (r - q) * n \in Nat /\ r * n \in Nat /\ q * n \in Nat
  BY <1>1, SMT
<1>3. r * n = q * n + (r - q) * n
  BY SMT
<1> QED BY <1>1, <1>2, <1>3

LEMMA AfterMultiple ==
    ASSUME NEW n \in Nat \ {0}, NEW i \in Nat \ {0}, i % n = 1 % n
    PROVE  \E r \in Nat : i = 1 + r * n
<1> DEFINE r == i \div n
<1>1. r \in Nat /\ i % n \in 0 .. n - 1 /\ i = r * n + (i % n)
  BY SMT
<1>2. CASE n = 1
  <2>1. i - 1 \in Nat /\ i = 1 + (i - 1) * n
    BY <1>2
  <2> QED BY <2>1
<1>3. CASE n > 1
  <2>1. 1 % n = 1
    BY <1>3, SMT
  <2>2. i = 1 + r * n
    BY <1>1, <2>1
  <2> QED BY <1>1, <2>2
<1> QED BY <1>2, <1>3

LEMMA LineGapEmpty ==
    ASSUME Buffered, framing.mode = "line", LineGap
    PROVE  LastStart <= Cut + 1 /\ Empty(Between(LastStart, Cut))
<1> DEFINE sep == framing.sep
           n == Len(sep)
           gap == Between(LastStart, Cut)
           d == LastStart - 1
<1>1. /\ sep \in Seq(Byte) /\ n \in Nat \ {0}
      /\ stream \in Seq(Byte) /\ Cut \in 0 .. Len(stream) /\ LastStart \in Nat \ {0}
  BY SeparatorFacts, Numbers, SizesFacts DEF Buffered, TypeOK
<1>2. PICK q \in Nat : /\ Cut + 1 = LastStart + q * n
                       /\ \A r \in 0 .. q - 1 : At(stream, sep, LastStart + r * n)
  BY DEF LineGap
<1> HIDE DEF n, sep, gap, Cut, LastStart
<1>3. q * n \in Nat /\ (q * n) % n = 0
  BY <1>1, Multiple
<1>4. LastStart <= Cut + 1
  BY <1>1, <1>2, <1>3
<1>5. gap \in Seq(Byte) /\ Len(gap) = q * n /\ View(gap, stream, d) /\ d \in Nat
  <2>1. Cut - LastStart + 1 = q * n
    BY <1>1, <1>2, <1>3
  <2> QED BY <1>1, <1>4, <2>1, ViewOfSlice DEF gap, Between
<1> HIDE DEF d
<1>6. ASSUME NEW i \in 1 .. q * n, i % n = 1 % n PROVE At(gap, sep, i)
  <2>1. i \in Nat \ {0} /\ i <= q * n
    BY <1>3
  <2>2. PICK r \in Nat : i = 1 + r * n
    BY <1>1, <1>6, <2>1, AfterMultiple
  <2>3. r < q
    BY <1>1, <2>1, <2>2, WithinMultiple
  <2>4. r * n \in Nat /\ r * n + n <= q * n
    BY <1>1, <2>3, Earlier
  <2>5. At(stream, sep, LastStart + r * n)
    BY <1>2, <2>3
  <2>6. d + i = LastStart + r * n /\ i + n - 1 <= Len(gap)
    BY <1>1, <1>3, <1>5, <2>2, <2>4 DEF d
  <2> QED BY <1>1, <1>5, <2>1, <2>5, <2>6, ViewAt DEF n
<1>7. Empty(gap)
  BY <1>3, <1>5, <1>6 DEF Empty, n, sep
<1> QED BY <1>4, <1>7 DEF gap

LEMMA FixedGapEmpty ==
    ASSUME Buffered, framing.mode = "fixed", FixedGap
    PROVE  LastStart <= Cut + 1 /\ Empty(Between(LastStart, Cut))
<1>1. Cut \in Nat /\ stream \in Seq(Byte) /\ Cut <= Len(stream) /\ LastStart = Cut + 1
  BY Numbers DEF Buffered, TypeOK, FixedGap
<1> HIDE DEF Cut, LastStart
<1>2. Between(Cut + 1, Cut) = << >>
  BY <1>1 DEF Between
<1> QED BY <1>1, <1>2 DEF Empty

LEMMA HeadTailGapEmpty ==
    ASSUME Buffered, framing.mode = "head_tail", HeadTailGap
    PROVE  LastStart <= Cut + 1 /\ Empty(Between(LastStart, Cut))
<1> DEFINE head == framing.head
           tail == framing.tail
           gap == Between(LastStart, Cut)
           d == LastStart - 1
           f == Find(gap, head, 1)
<1>1. /\ head \in Seq(Byte) /\ Len(head) \in Nat \ {0}
      /\ tail \in Seq(Byte) /\ Len(tail) \in Nat \ {0}
      /\ stream \in Seq(Byte) /\ Cut \in 0 .. Len(stream) /\ LastStart \in Nat \ {0}
      /\ LastStart <= Cut + 1
  BY HeadTailFacts, Numbers, SizesFacts DEF Buffered, TypeOK, HeadTailGap
<1>2. \A h \in LastStart .. Cut : At(stream, head, h) =>
         \A p \in h + Len(head) .. Cut + Len(head) - Len(tail) + 1 : ~At(stream, tail, p)
  BY DEF HeadTailGap
<1> HIDE DEF head, tail, gap, Cut, LastStart
<1>3. gap \in Seq(Byte) /\ Len(gap) = Cut - LastStart + 1 /\ View(gap, stream, d) /\ d \in Nat
  BY <1>1, ViewOfSlice DEF gap, Between
<1> HIDE DEF d
<1>4. ASSUME f > 0 PROVE Find(gap, tail, f + Len(head)) = 0
  <2> HIDE DEF f
  <2>1. f \in Nat /\ (f # 0 => f + Len(head) - 1 <= Len(gap) /\ At(stream, head, d + f))
    <3>1. 1 \in Nat \ {0}
      OBVIOUS
    <3> QED BY <1>1, <1>3, <3>1, FindInView DEF f
  <2> DEFINE h == d + f
  <2>2. f + Len(head) - 1 <= Cut - LastStart + 1 /\ At(stream, head, h)
    BY <1>3, <1>4, <2>1
  <2>3. h \in LastStart .. Cut
    BY <1>1, <1>4, <2>1, <2>2 DEF d
  <2>4. ASSUME NEW p \in LastStart + (f + Len(head)) - 1 .. Cut - Len(tail) + 1
        PROVE  ~At(stream, tail, p)
    <3>1. p \in h + Len(head) .. Cut + Len(head) - Len(tail) + 1
      BY <1>1, <1>4, <2>1, <2>3, <2>4 DEF d
    <3> HIDE DEF h
    <3> QED BY <1>2, <2>2, <2>3, <3>1
  <2>5. f + Len(head) \in Nat \ {0}
    BY <1>1, <2>1
  <2> QED BY <1>1, <2>4, <2>5, NoneInSlice DEF gap, Between
<1>5. Empty(gap)
  BY <1>4 DEF Empty, head, tail
<1> QED BY <1>1, <1>5 DEF gap

\* While the connection is not failed, what was dropped since the last message is empty.
LEMMA OpenGapEmpty ==
    ASSUME Buffered, OpenGap, Apart
    PROVE  Empty(Between(LastStart, Cut))
<1>1. framing.mode \in {"line", "fixed", "head_tail"}
  BY Delimiters DEF Buffered, TypeOK
<1>2. CASE framing.mode = "line"
  BY <1>2, LineGapEmpty DEF OpenGap
<1>3. CASE framing.mode = "fixed"
  BY <1>3, FixedGapEmpty DEF OpenGap
<1>4. CASE framing.mode = "head_tail"
  BY <1>4, HeadTailGapEmpty DEF OpenGap
<1> QED BY <1>1, <1>2, <1>3, <1>4
-----------------------------------------------------------------------------
(* What every step needs. *)

LEMMA BoundKept ==
    ASSUME Buffered, Buffered', BufferBounded, framing' = framing, Len(buffer') <= Len(buffer)
    PROVE  BufferBounded'
<1> DEFINE bound == Chunk + (IF framing.mode = "fixed" THEN framing.length - 1 ELSE MaxLength)
<1>1. bound \in Int
  BY Delimiters, FramingAssumption DEF Buffered, TypeOK
<1>2. Len(buffer) <= bound /\ Len(buffer) \in Nat /\ Len(buffer') \in Nat
  BY DEF BufferBounded, Buffered, TypeOK
<1> HIDE DEF bound
<1>3. Len(buffer') <= bound
  BY <1>1, <1>2
<1> QED BY <1>3 DEF bound, BufferBounded

LEMMA CauseKept ==
    ASSUME UNCHANGED <<framing, stream>>
    PROVE  CauseToFail' = CauseToFail /\ Apart' = Apart /\ Heads' = Heads
BY DEF CauseToFail, Windows, Heads, TooManyHeads, Between, Apart

\* The first bytes of the buffer, as many as no message may have, are a window.
LEMMA FirstWindow ==
    ASSUME Buffered, Len(buffer) > MaxLength
    PROVE  /\ Between(Cut + 1, Cut + 1 + MaxLength) \in Windows
           /\ Cut + 1 \in Nat \ {0} /\ Cut + 1 + MaxLength \in 0 .. Len(stream)
           /\ Cut + 1 <= Cut + 1 + MaxLength + 1
<1>1. /\ Cut \in Nat /\ MaxLength \in Nat /\ Len(stream) \in Nat
      /\ Cut + Len(buffer) = received /\ received <= Len(stream) /\ Len(buffer) \in Nat
      /\ received \in Nat
  BY Numbers, FramingAssumption DEF Buffered
<1> HIDE DEF Cut
<1>2. Cut + 1 \in 1 .. Len(stream) - MaxLength
  BY <1>1
<1> QED BY <1>1, <1>2 DEF Windows

LEMMA LineWindow ==
    ASSUME Buffered, framing.mode = "line", Len(buffer) > MaxLength,
           \A k \in Cut + 1 .. Cut + 1 + MaxLength - Len(framing.sep) + 1 :
             ~At(stream, framing.sep, k)
    PROVE  CauseToFail
<1> DEFINE i == Cut + 1
           j == Cut + 1 + MaxLength
<1>1. /\ framing.sep \in Seq(Byte) /\ Len(framing.sep) \in Nat \ {0} /\ stream \in Seq(Byte)
      /\ Between(i, j) \in Windows
      /\ i \in Nat \ {0} /\ j \in 0 .. Len(stream) /\ i <= j + 1
  BY SeparatorFacts, FirstWindow DEF Buffered, TypeOK
<1>2. ASSUME NEW k \in i .. j - Len(framing.sep) + 1 PROVE ~At(stream, framing.sep, k)
  <2>1. Cut \in Nat /\ MaxLength \in Nat /\ Len(framing.sep) \in Nat
    BY <1>1, Numbers, FramingAssumption DEF Buffered
  <2> HIDE DEF Cut
  <2> QED BY <1>1, <2>1
<1> HIDE DEF i, j
<1>3. i + 1 - 1 = i /\ 1 \in Nat \ {0}
  BY <1>1
<1>4. Find(Between(i, j), framing.sep, 1) = 0
  BY <1>1, <1>2, <1>3, NoneInSlice DEF Between
<1> QED BY <1>1, <1>4 DEF CauseToFail, Occurs

\* No head in it, or the buffer begins with a head and no tail follows it there.
LEMMA HeadTailWindow ==
    ASSUME Buffered, framing.mode = "head_tail", Len(buffer) > MaxLength,
           \/ \A k \in Cut + 1 .. Cut + 1 + MaxLength - Len(framing.head) + 1 :
                ~At(stream, framing.head, k)
           \/ /\ At(stream, framing.head, Cut + 1)
              /\ \A k \in Cut + 1 + Len(framing.head)
                            .. Cut + 1 + MaxLength - Len(framing.tail) + 1 :
                   ~At(stream, framing.tail, k)
    PROVE  CauseToFail
<1> DEFINE head == framing.head
           tail == framing.tail
           i == Cut + 1
           j == Cut + 1 + MaxLength
           w == Between(i, j)
<1>1. /\ head \in Seq(Byte) /\ Len(head) \in Nat \ {0}
      /\ tail \in Seq(Byte) /\ Len(tail) \in Nat \ {0} /\ stream \in Seq(Byte)
      /\ w \in Windows
      /\ i \in Nat \ {0} /\ j \in 0 .. Len(stream) /\ i <= j + 1
  BY HeadTailFacts, FirstWindow DEF Buffered, TypeOK
<1>2. MaxLength \in Nat /\ Cut \in Nat
  BY Numbers, FramingAssumption DEF Buffered
<1>3. SUFFICES \/ Find(w, head, 1) = 0
               \/ At(w, head, 1) /\ Find(w, tail, Len(head) + 1) = 0
  BY <1>1 DEF CauseToFail, Occurs
<1> HIDE DEF Cut, head, tail, w
<1>4. CASE \A k \in i .. j - Len(head) + 1 : ~At(stream, head, k)
  <2>1. i + 1 - 1 = i /\ 1 \in Nat \ {0}
    BY <1>1
  <2> HIDE DEF i, j
  <2> QED BY <1>1, <1>4, <2>1, NoneInSlice DEF w, Between
<1>5. CASE /\ At(stream, head, i)
           /\ \A k \in i + Len(head) .. j - Len(tail) + 1 : ~At(stream, tail, k)
  <2>1. CASE Len(head) > MaxLength + 1
    <3>1. i + 1 - 1 .. j - Len(head) + 1 = {}
      <4>1. i \in Nat /\ j = i + MaxLength /\ Len(head) \in Nat
        BY <1>1
      <4> HIDE DEF i, j
      <4>2. j - Len(head) + 1 < i + 1 - 1 /\ j - Len(head) + 1 \in Int /\ i + 1 - 1 \in Int
        BY <1>2, <2>1, <4>1
      <4> QED BY <4>2
    <3>2. 1 \in Nat \ {0}
      OBVIOUS
    <3> HIDE DEF i, j
    <3>3. \A k \in i + 1 - 1 .. j - Len(head) + 1 : ~At(stream, head, k)
      BY <3>1
    <3>4. Find(w, head, 1) = 0
      BY <1>1, <3>2, <3>3, NoneInSlice DEF w, Between
    <3> QED BY <3>4
  <2>2. CASE Len(head) <= MaxLength + 1
    <3>1. /\ i + (Len(head) + 1) - 1 = i + Len(head) /\ Len(head) + 1 \in Nat \ {0}
          /\ j - i + 1 = MaxLength + 1 /\ i - 1 \in Nat /\ (i - 1) + 1 = i /\ 1 \in Nat \ {0}
      <4>1. i \in Nat \ {0} /\ Len(head) \in Nat
        BY <1>1
      <4>2. j = i + MaxLength
        OBVIOUS
      <4> HIDE DEF i, j
      <4> QED BY <1>2, <4>1, <4>2
    <3> HIDE DEF i, j
    <3>2. Find(w, tail, Len(head) + 1) = 0
      BY <1>1, <1>5, <3>1, NoneInSlice DEF w, Between
    <3>3. w \in Seq(Byte) /\ Len(w) = MaxLength + 1 /\ View(w, stream, i - 1)
      BY <1>1, <3>1, ViewOfSlice DEF w, Between
    <3>4. 1 + Len(head) - 1 <= Len(w)
      BY <1>1, <1>2, <2>2, <3>3
    <3>5. At(w, head, 1) <=> At(stream, head, (i - 1) + 1)
      BY <1>1, <3>1, <3>3, <3>4, ViewAt
    <3> QED BY <1>5, <3>1, <3>2, <3>5
  <2>3. Len(head) > MaxLength + 1 \/ Len(head) <= MaxLength + 1
    BY <1>1, <1>2
  <2> QED BY <2>1, <2>2, <2>3
<1>6. CASE \A k \in Cut + 1 .. Cut + 1 + MaxLength - Len(head) + 1 : ~At(stream, head, k)
  BY <1>1, <1>2, <1>4, <1>6
<1>7. CASE /\ At(stream, head, Cut + 1)
           /\ \A k \in Cut + 1 + Len(head) .. Cut + 1 + MaxLength - Len(tail) + 1 :
                ~At(stream, tail, k)
  BY <1>1, <1>2, <1>5, <1>7
<1> QED BY <1>6, <1>7 DEF head, tail

\* The buffer and the messages stay as they are.
LEMMA CloseStep ==
    ASSUME IInv, status = "open", status' \in {"failed", "closed"},
           UNCHANGED <<framing, stream, received, buffer, frames, resyncs>>,
           status' = "failed" => CauseToFail
    PROVE  IInv'
<1>1. Buffered'
  BY DEF IInv, Buffered, TypeOK, Mirror, View, Cut
<1>2. /\ BufferBounded' /\ LastStart' = LastStart /\ FramesSound' /\ ClosedGaps'
      /\ Heads' = Heads /\ Apart' = Apart /\ Cut' = Cut
  BY QuietStep, CauseKept DEF IInv, Buffered, BufferBounded, Cut
<1>3. OpenGap'
  <2>1. OpenGap
    BY DEF IInv
  <2>2. LineGap => LineGap'
    BY <1>2 DEF LineGap
  <2>3. FixedGap => FixedGap'
    BY <1>2 DEF FixedGap
  <2>4. HeadTailGap => HeadTailGap'
    BY <1>2 DEF HeadTailGap
  <2>5. Chain => Chain'
    BY <1>2 DEF Chain
  <2> QED BY <1>2, <2>1, <2>2, <2>3, <2>4, <2>5 DEF OpenGap
<1> QED BY <1>1, <1>2, <1>3, CauseKept DEF IInv, FailsForCause

-----------------------------------------------------------------------------
(* Lines. *)

LEMMA SkipEmptyStep == IInv /\ SkipEmpty => IInv'
<1> SUFFICES ASSUME IInv, SkipEmpty PROVE IInv'
  OBVIOUS
<1> DEFINE n == Len(framing.sep)
<1>1. /\ Buffered /\ framing.mode = "line" /\ Separator = 1
      /\ Drop(n) /\ UNCHANGED <<framing, stream, received, frames, resyncs, status>>
      /\ status = "open"
  BY DEF IInv, SkipEmpty, LineMode
<1>2. /\ n \in Nat \ {0} /\ At(stream, framing.sep, Cut + 1) /\ Cut + n <= received
      /\ Cut \in Nat /\ Cut + Len(buffer) = received /\ Len(buffer) \in Nat /\ received \in Nat
      /\ LastStart \in Nat \ {0}
  <2>1. /\ Cut + 1 + n - 1 <= received /\ At(stream, framing.sep, Cut + 1)
        /\ n \in Nat \ {0}
    BY <1>1, SeparatorFacts DEF FoundAt
  <2>2. /\ Cut \in Nat /\ Cut + Len(buffer) = received /\ Len(buffer) \in Nat
        /\ received \in Nat /\ LastStart \in Nat \ {0}
    BY <1>1, Numbers, SizesFacts DEF Buffered
  <2> HIDE DEF Cut, LastStart, n
  <2> QED BY <2>1, <2>2
<1> HIDE DEF n, Cut, LastStart
<1>3. n \in 0 .. Len(buffer)
  BY <1>2
<1>4. /\ buffer' \in Seq(Byte) /\ Len(buffer') = Len(buffer) - n /\ Len(buffer') <= received'
      /\ Cut' = Cut + n /\ Mirror'
  BY <1>1, <1>3, DropFacts
<1>5. Buffered'
  BY <1>1, <1>4 DEF Buffered, TypeOK
<1>6. BufferBounded'
  BY <1>1, <1>2, <1>4, <1>5, BoundKept DEF IInv
<1>7. LastStart' = LastStart /\ FramesSound' /\ ClosedGaps'
  BY <1>1, QuietStep DEF IInv, Buffered
<1>8. LineGap'
  <2>1. PICK q \in Nat :
          /\ Cut + 1 = LastStart + q * n
          /\ \A r \in 0 .. q - 1 : At(stream, framing.sep, LastStart + r * n)
    BY <1>1 DEF IInv, OpenGap, LineGap, n
  <2>2. (q + 1) * n = q * n + n /\ q * n \in Nat /\ q + 1 \in Nat
    BY <1>2, SMT
  <2>3. Cut' + 1 = LastStart' + (q + 1) * n
    BY <1>2, <1>4, <1>7, <2>1, <2>2
  <2>4. ASSUME NEW r \in 0 .. (q + 1) - 1 PROVE At(stream, framing.sep, LastStart + r * n)
    <3>1. r \in 0 .. q - 1 \/ r = q
      OBVIOUS
    <3> QED BY <1>2, <2>1, <3>1
  <2> QED BY <1>1, <1>7, <2>2, <2>3, <2>4 DEF LineGap, n
<1> QED BY <1>1, <1>5, <1>6, <1>7, <1>8 DEF IInv, OpenGap, FailsForCause

LEMMA LineTooLongStep == IInv /\ LineTooLong => IInv'
<1> SUFFICES ASSUME IInv, LineTooLong PROVE IInv'
  OBVIOUS
<1>1. /\ Buffered /\ framing.mode = "line" /\ Separator = 0 /\ Len(buffer) > MaxLength
      /\ status = "open" /\ status' = "failed"
      /\ UNCHANGED <<framing, stream, received, buffer, frames, resyncs>>
  BY DEF IInv, LineTooLong, LineMode, Fail
<1>2. CauseToFail
  <2>1. \A k \in Cut + 1 .. received - Len(framing.sep) + 1 : ~At(stream, framing.sep, k)
    BY <1>1, SeparatorFacts DEF FoundAt
  <2>2. /\ Cut \in Nat /\ Cut + Len(buffer) = received /\ Len(buffer) \in Nat
        /\ received \in Nat /\ Len(framing.sep) \in Nat /\ MaxLength \in Nat
    BY <1>1, Numbers, SeparatorFacts, FramingAssumption DEF Buffered
  <2>3. \A k \in Cut + 1 .. Cut + 1 + MaxLength - Len(framing.sep) + 1 :
          k \in Cut + 1 .. received - Len(framing.sep) + 1
    <3> HIDE DEF Cut
    <3> QED BY <1>1, <2>2
  <2> QED BY <1>1, <2>1, <2>3, LineWindow
<1> QED BY <1>1, <1>2, CloseStep

LEMMA CutLineStep == IInv /\ CutLine => IInv'
<1> SUFFICES ASSUME IInv, CutLine PROVE IInv'
  OBVIOUS
<1> DEFINE sep == framing.sep
           n == Separator - 1
<1>1. /\ Buffered /\ framing.mode = "line" /\ Separator > 1 /\ Drop(n + Len(sep))
      /\ UNCHANGED <<framing, stream, received, resyncs>> /\ status = "open"
      /\ \/ n <= MaxLength /\ Deliver(0, n) /\ UNCHANGED status
         \/ n > MaxLength /\ status' = "failed" /\ UNCHANGED frames
  <2>1. Separator \in Nat /\ MaxLength \in Nat
    BY SeparatorFacts, FramingAssumption DEF IInv, CutLine, LineMode, FoundAt
  <2> QED BY <2>1 DEF IInv, CutLine, LineMode, LineFits, Fail
<1>2. /\ sep \in Seq(Byte) /\ Len(sep) \in Nat \ {0} /\ FoundAt(sep, 1, Separator)
      /\ stream \in Seq(Byte) /\ MaxLength \in Nat
  BY <1>1, SeparatorFacts, FramingAssumption DEF Buffered, TypeOK
<1>3. /\ Cut \in Nat /\ Cut + Len(buffer) = received /\ Len(buffer) \in Nat
      /\ received \in Nat /\ received <= Len(stream) /\ Len(stream) \in Nat
  BY <1>1, Numbers DEF Buffered
<1> HIDE DEF Cut, LastStart, sep
<1>4. /\ n \in Nat \ {0} /\ Cut + n + Len(sep) <= received
      /\ At(stream, sep, Cut + n + 1)
      /\ \A k \in Cut + 1 .. Cut + n : ~At(stream, sep, k)
  <2>1. /\ Separator \in Nat /\ Cut + Separator + Len(sep) - 1 <= received
        /\ At(stream, sep, Cut + Separator)
        /\ \A k \in Cut + 1 .. Cut + Separator - 1 : ~At(stream, sep, k)
    BY <1>1, <1>2 DEF FoundAt
  <2>2. Cut + n + 1 = Cut + Separator /\ Cut + n = Cut + Separator - 1
    BY <1>3, <2>1
  <2> HIDE DEF Separator
  <2> QED BY <1>1, <1>2, <1>3, <2>1, <2>2
<1> HIDE DEF n
<1>5. n + Len(sep) \in 0 .. Len(buffer)
  BY <1>2, <1>3, <1>4
<1>6. /\ buffer' \in Seq(Byte) /\ Len(buffer') = Len(buffer) - (n + Len(sep))
      /\ Len(buffer') <= received' /\ Cut' = Cut + (n + Len(sep)) /\ Mirror'
  BY <1>1, <1>5, DropFacts
<1>7. CASE n <= MaxLength /\ Deliver(0, n) /\ UNCHANGED status
  <2>1. DelimiterBefore = 0 /\ DelimiterAfter = Len(sep)
    BY <1>1 DEF DelimiterBefore, DelimiterAfter, sep
  <2>2. PICK last : last = Len(frames) + 1
    OBVIOUS
  <2>3. FrameSound(last)'
    <3> DEFINE i == Cut + 1
               j == Cut + n
    <3>1. frames'[last].first = i /\ frames'[last].last = j
      <4>1. frames' = Append(frames, [first |-> Cut + 0 + 1, last |-> Cut + 0 + n])
        BY <1>7 DEF Deliver
      <4>2. Cut + 0 + 1 = i /\ Cut + 0 + n = j
        BY <1>3
      <4> HIDE DEF i, j
      <4> QED BY <1>1, <2>2, <4>1, <4>2 DEF Buffered, TypeOK
    <3>2. i \in Nat \ {0} /\ j \in 0 .. Len(stream) /\ i <= j + 1 /\ j - i + 1 = n
          /\ 1 \in Nat \ {0}
      BY <1>2, <1>3, <1>4
    <3>3. Len(SubSeq(stream, i, j)) = n
      BY <1>2, <3>2, ViewOfSlice
    <3>4. \A k \in i + 1 - 1 .. j - Len(sep) + 1 : ~At(stream, sep, k)
      BY <1>2, <1>3, <1>4
    <3>5. At(stream, sep, j + 1)
      BY <1>4
    <3> HIDE DEF i, j
    <3>6. Find(SubSeq(stream, i, j), sep, 1) = 0
      BY <1>2, <3>2, <3>4, NoneInSlice
    <3>7. 1 <= n
      BY <1>4
    <3> QED BY <1>1, <1>7, <3>1, <3>3, <3>5, <3>6, <3>7
            DEF FrameSound, Payload, Between, Occurs, sep
  <2>4. Apart => Empty(Between(LastStart, Cut))
    BY <1>1, OpenGapEmpty DEF IInv
  <2>5. Cut' = Cut + DelimiterBefore + n + DelimiterAfter /\ n \in Nat
    BY <1>2, <1>3, <1>4, <1>6, <2>1
  <2>6. /\ frames' \in Seq([first : Nat, last : Nat])
        /\ LastStart' = Cut' + 1 /\ FramesSound' /\ ClosedGaps'
    BY <1>1, <1>7, <2>1, <2>2, <2>3, <2>4, <2>5, DeliverStep DEF IInv, Buffered
  <2>7. Buffered'
    BY <1>1, <1>6, <1>7, <2>6 DEF Buffered, TypeOK
  <2>8. BufferBounded'
    BY <1>1, <1>2, <1>3, <1>4, <1>6, <2>7, BoundKept DEF IInv
  <2>9. LineGap'
    <3>1. Cut' + 1 = LastStart' + 0 * Len(sep)'
      BY <1>1, <1>2, <1>3, <1>4, <1>6, <2>6 DEF sep
    <3> QED BY <3>1 DEF LineGap, sep
  <2> QED BY <1>1, <1>7, <2>6, <2>7, <2>8, <2>9 DEF IInv, OpenGap, FailsForCause
<1>8. CASE n > MaxLength /\ status' = "failed" /\ UNCHANGED frames
  <2>1. FramesSound' /\ ClosedGaps'
    BY <1>1, <1>8, QuietStep DEF IInv, Buffered
  <2>2. Buffered'
    BY <1>1, <1>6, <1>8 DEF Buffered, TypeOK
  <2>3. BufferBounded'
    BY <1>1, <1>2, <1>3, <1>4, <1>6, <2>2, BoundKept DEF IInv
  <2>4. CauseToFail
    <3>1. \A k \in Cut + 1 .. Cut + 1 + MaxLength - Len(sep) + 1 : k \in Cut + 1 .. Cut + n
      BY <1>2, <1>3, <1>4, <1>8
    <3>2. Len(buffer) > MaxLength
      BY <1>2, <1>3, <1>4, <1>8
    <3> QED BY <1>1, <1>4, <3>1, <3>2, LineWindow DEF sep
  <2> QED BY <1>1, <1>8, <2>1, <2>2, <2>3, <2>4, CauseKept DEF IInv, FailsForCause
<1> QED BY <1>1, <1>7, <1>8
-----------------------------------------------------------------------------
(* Fixed lengths, and the connection. *)

LEMMA CutFixedStep == IInv /\ CutFixed => IInv'
<1> SUFFICES ASSUME IInv, CutFixed PROVE IInv'
  OBVIOUS
<1> DEFINE n == framing.length
<1>1. /\ Buffered /\ framing.mode = "fixed" /\ Len(buffer) >= n /\ Deliver(0, n) /\ Drop(n)
      /\ UNCHANGED <<framing, stream, received, resyncs, status>> /\ status = "open"
  BY DEF IInv, CutFixed, FixedMode
<1>2. /\ Cut \in Nat /\ Cut + Len(buffer) = received /\ Len(buffer) \in Nat
      /\ received \in Nat /\ n \in Nat \ {0}
  BY <1>1, Numbers, Delimiters DEF Buffered, TypeOK
<1> HIDE DEF n, Cut, LastStart
<1>3. n \in 0 .. Len(buffer)
  BY <1>1, <1>2
<1>4. /\ buffer' \in Seq(Byte) /\ Len(buffer') = Len(buffer) - n
      /\ Len(buffer') <= received' /\ Cut' = Cut + n /\ Mirror'
  BY <1>1, <1>3, DropFacts
<1>5. DelimiterBefore = 0 /\ DelimiterAfter = 0
  BY <1>1 DEF DelimiterBefore, DelimiterAfter
<1>6. PICK last : last = Len(frames) + 1
  OBVIOUS
<1>7. FrameSound(last)'
  <2> DEFINE i == Cut + 1
             j == Cut + n
  <2>1. frames'[last].first = i /\ frames'[last].last = j
    <3>1. frames' = Append(frames, [first |-> Cut + 0 + 1, last |-> Cut + 0 + n])
      BY <1>1 DEF Deliver
    <3>2. Cut + 0 + 1 = i /\ Cut + 0 + n = j
      BY <1>2
    <3> HIDE DEF i, j
    <3> QED BY <1>1, <1>6, <3>1, <3>2 DEF Buffered, TypeOK
  <2>2. j - i + 1 = n
    BY <1>2
  <2> HIDE DEF i, j
  <2> QED BY <1>1, <2>1, <2>2 DEF FrameSound, n
<1>8. Apart => Empty(Between(LastStart, Cut))
  BY <1>1, OpenGapEmpty DEF IInv
<1>9. Cut' = Cut + DelimiterBefore + n + DelimiterAfter /\ n \in Nat
  BY <1>2, <1>4, <1>5
<1>10. /\ frames' \in Seq([first : Nat, last : Nat])
       /\ LastStart' = Cut' + 1 /\ FramesSound' /\ ClosedGaps'
  BY <1>1, <1>5, <1>6, <1>7, <1>8, <1>9, DeliverStep DEF IInv, Buffered
<1>11. Buffered'
  BY <1>1, <1>4, <1>10 DEF Buffered, TypeOK
<1>12. BufferBounded'
  BY <1>1, <1>2, <1>4, <1>11, BoundKept DEF IInv
<1> QED BY <1>1, <1>10, <1>11, <1>12 DEF IInv, OpenGap, FixedGap, FailsForCause

LEMMA RecvMoreStep == IInv /\ RecvMore => IInv'
<1> SUFFICES ASSUME IInv, RecvMore PROVE IInv'
  OBVIOUS
<1>1. Buffered /\ UNCHANGED <<framing, stream, frames, resyncs, status>> /\ NeedMore
  BY DEF IInv, RecvMore
<1>2. Buffered' /\ Cut' = Cut /\ Len(buffer') <= Len(buffer) + Chunk
  BY <1>1, RecvFacts
<1>3. received \in Nat /\ received' \in Nat /\ received <= received'
  <2>1. received \in Nat /\ received' \in Nat
    BY <1>1, <1>2, Numbers DEF Buffered, TypeOK
  <2> QED BY <2>1, FramingAssumption DEF RecvMore
<1>4. BufferBounded'
  <2>1. /\ Len(buffer) \in Nat /\ Len(buffer') \in Nat
        /\ MaxLength \in Nat /\ Chunk \in Nat
    BY <1>1, <1>2, FramingAssumption DEF Buffered, TypeOK
  <2>2. CASE framing.mode = "fixed"
    <3>1. Len(buffer) < framing.length /\ framing.length \in Nat
      BY <1>1, <2>2, Delimiters
         DEF NeedMore, LineMode, FixedMode, HeadTailMode, Buffered, TypeOK
    <3> QED BY <1>1, <1>2, <2>1, <2>2, <3>1 DEF BufferBounded
  <2>3. CASE framing.mode # "fixed"
    <3>1. Len(buffer) <= MaxLength
      BY <1>1, <2>3 DEF NeedMore, FixedMode, MayGrow
    <3> QED BY <1>1, <1>2, <2>1, <2>3, <3>1 DEF BufferBounded
  <2> QED BY <2>2, <2>3
<1>5. LastStart' = LastStart /\ FramesSound' /\ ClosedGaps' /\ Heads' = Heads /\ Apart' = Apart
  BY <1>1, QuietStep, CauseKept DEF IInv, Buffered
<1>6. status = "open"
  BY <1>1 DEF NeedMore, LineMode, FixedMode, HeadTailMode
<1>7. LineGap => LineGap'
  BY <1>1, <1>2, <1>5 DEF LineGap
<1>8. FixedGap => FixedGap'
  BY <1>2, <1>5 DEF FixedGap
<1>9. framing.mode = "head_tail" /\ HeadTailGap => HeadTailGap'
  <2> SUFFICES ASSUME framing.mode = "head_tail", HeadTailGap PROVE HeadTailGap'
    OBVIOUS
  <2>1. Cut + Len(framing.head) <= received => Cut + Len(framing.head) <= received'
    <3>1. Cut + Len(framing.head) \in Nat
      BY <1>1, Numbers, HeadTailFacts DEF Buffered
    <3> HIDE DEF Cut
    <3> QED BY <1>3, <3>1
  <2> QED BY <1>1, <1>2, <1>5, <2>1 DEF HeadTailGap
<1>10. Chain => Chain'
  BY <1>1, <1>2, <1>5 DEF Chain
<1>11. OpenGap'
  BY <1>1, <1>5, <1>6, <1>7, <1>8, <1>9, <1>10 DEF IInv, OpenGap
<1> QED BY <1>1, <1>2, <1>4, <1>5, <1>6, <1>11 DEF IInv, FailsForCause

LEMMA PeerDoneStep == IInv /\ PeerDone => IInv'
<1> SUFFICES ASSUME IInv, PeerDone PROVE IInv'
  OBVIOUS
<1>1. status = "open" /\ status' = "closed"
      /\ UNCHANGED <<framing, stream, received, buffer, frames, resyncs>>
  BY DEF PeerDone, NeedMore, LineMode, FixedMode, HeadTailMode
<1> QED BY <1>1, CloseStep
-----------------------------------------------------------------------------
(* Heads and tails. *)

LEMMA HeadTailTooLongStep == IInv /\ HeadTailTooLong => IInv'
<1> SUFFICES ASSUME IInv, HeadTailTooLong PROVE IInv'
  OBVIOUS
<1> DEFINE head == framing.head
           tail == framing.tail
<1>1. /\ Buffered /\ framing.mode = "head_tail" /\ Len(buffer) > MaxLength
      /\ Head1 = 0 \/ (Head1 = 1 /\ Tail1 = 0)
      /\ status = "open" /\ status' = "failed"
      /\ UNCHANGED <<framing, stream, received, buffer, frames, resyncs>>
  BY DEF IInv, HeadTailTooLong, HeadTailMode, Incomplete, Fail
<1>2. /\ FoundAt(head, 1, Head1) /\ FoundAt(tail, Len(head) + 1, Tail1)
      /\ Len(head) \in Nat /\ Len(tail) \in Nat
      /\ Cut \in Nat /\ Cut + Len(buffer) = received /\ Len(buffer) \in Nat
      /\ received \in Nat /\ MaxLength \in Nat
  BY <1>1, Numbers, HeadTailFacts, FramingAssumption DEF Buffered
<1>3. CauseToFail
  <2>1. CASE Head1 = 0
    <3>1. \A k \in Cut + 1 .. received - Len(head) + 1 : ~At(stream, head, k)
      BY <1>2, <2>1 DEF FoundAt
    <3>2. \A k \in Cut + 1 .. Cut + 1 + MaxLength - Len(head) + 1 :
            k \in Cut + 1 .. received - Len(head) + 1
      <4> HIDE DEF Cut, head
      <4> QED BY <1>1, <1>2
    <3> QED BY <1>1, <3>1, <3>2, HeadTailWindow
  <2>2. CASE Head1 = 1 /\ Tail1 = 0
    <3>1. At(stream, head, Cut + 1)
      BY <1>2, <2>2 DEF FoundAt
    <3>2. \A k \in Cut + (Len(head) + 1) .. received - Len(tail) + 1 : ~At(stream, tail, k)
      BY <1>2, <2>2 DEF FoundAt
    <3>3. \A k \in Cut + 1 + Len(head) .. Cut + 1 + MaxLength - Len(tail) + 1 :
            k \in Cut + (Len(head) + 1) .. received - Len(tail) + 1
      <4> HIDE DEF Cut, head, tail
      <4> QED BY <1>1, <1>2
    <3> QED BY <1>1, <3>1, <3>2, <3>3, HeadTailWindow
  <2> QED BY <1>1, <2>1, <2>2
<1> QED BY <1>1, <1>3, CloseStep

LEMMA DropGarbageStep == IInv /\ DropGarbage => IInv'
<1> SUFFICES ASSUME IInv, DropGarbage PROVE IInv'
  OBVIOUS
<1> DEFINE head == framing.head
           n == Head1 - 1
<1>1. /\ Buffered /\ framing.mode = "head_tail" /\ Head1 > 1 /\ Drop(n) /\ status = "open"
      /\ UNCHANGED <<framing, stream, received, frames, resyncs, status>>
  BY DEF IInv, DropGarbage, HeadTailMode
<1>2. /\ Len(head) \in Nat \ {0} /\ LastStart \in Nat \ {0}
      /\ Cut \in Nat /\ Cut + Len(buffer) = received /\ Len(buffer) \in Nat
      /\ received \in Nat
  BY <1>1, Numbers, HeadTailFacts, SizesFacts DEF Buffered
<1>3. /\ Head1 \in Nat /\ Cut + Head1 + Len(head) - 1 <= received
      /\ At(stream, head, Cut + Head1)
      /\ \A k \in Cut + 1 .. Cut + Head1 - 1 : ~At(stream, head, k)
  BY <1>1, HeadTailFacts DEF FoundAt
<1> HIDE DEF Cut, Head1, head, LastStart
<1>4. n \in 0 .. Len(buffer) /\ n \in Nat \ {0}
  BY <1>1, <1>2, <1>3
<1>5. /\ buffer' \in Seq(Byte) /\ Len(buffer') = Len(buffer) - n
      /\ Len(buffer') <= received' /\ Cut' = Cut + n /\ Mirror'
  BY <1>1, <1>4, DropFacts
<1>6. Buffered'
  BY <1>1, <1>5 DEF Buffered, TypeOK
<1>7. BufferBounded'
  BY <1>1, <1>2, <1>4, <1>5, <1>6, BoundKept DEF IInv
<1>8. LastStart' = LastStart /\ FramesSound' /\ ClosedGaps'
  BY <1>1, QuietStep DEF IInv, Buffered
<1>9. ASSUME Apart PROVE HeadTailGap' /\ Chain'
  <2>1. HeadTailGap /\ Chain
    BY <1>1, <1>9 DEF IInv, OpenGap
  <2>2. ~At(stream, head, Cut + 1)
    BY <1>1, <1>2, <1>3
  <2>3. LastStart = Cut + 1
    BY <1>2, <2>1, <2>2 DEF HeadTailGap, head
  <2>4. /\ LastStart' <= Cut' + 1 /\ Cut' + Len(head)' <= received'
        /\ At(stream', head', Cut' + 1)
    <3>1. Cut + n + 1 = Cut + Head1 /\ head' = head
      BY <1>1, <1>2, <1>3 DEF head
    <3> QED BY <1>1, <1>2, <1>3, <1>4, <1>5, <1>8, <2>3, <3>1
  <2>5. \A h \in LastStart .. Cut' : ~At(stream, head, h)
    BY <1>2, <1>3, <1>5, <2>3
  <2>6. HeadTailGap'
    BY <1>1, <1>8, <2>4, <2>5 DEF HeadTailGap, head
  <2>7. resyncs = 0
    <3>1. LastStart .. Cut = {}
      BY <1>2, <2>3
    <3>2. ~(resyncs > 0)
      BY <2>1, <3>1 DEF Chain
    <3> QED BY <1>1, <3>2 DEF Buffered, TypeOK
  <2> QED BY <1>1, <2>6, <2>7 DEF Chain
<1> QED BY <1>1, <1>6, <1>7, <1>8, <1>9, CauseKept DEF IInv, OpenGap, FailsForCause

LEMMA CutHeadTailStep == IInv /\ CutHeadTail => IInv'
<1> SUFFICES ASSUME IInv, CutHeadTail PROVE IInv'
  OBVIOUS
<1> DEFINE head == framing.head
           tail == framing.tail
           n == Tail1 - 1 - Len(head)
           dropped == Tail1 - 1 + Len(tail)
<1>1. /\ Buffered /\ framing.mode = "head_tail" /\ Head1 = 1 /\ Tail1 > 0 /\ status = "open"
      /\ Drop(dropped) /\ UNCHANGED <<framing, stream, received>>
      /\ \/ n <= MaxLength /\ Deliver(Len(head), n) /\ resyncs' = 0 /\ UNCHANGED status
         \/ ~(n <= MaxLength) /\ status' = "failed" /\ UNCHANGED <<frames, resyncs>>
  BY DEF IInv, CutHeadTail, HeadTailMode, ResyncsAfterFrame, Fail
<1>2. /\ head \in Seq(Byte) /\ Len(head) \in Nat \ {0}
      /\ tail \in Seq(Byte) /\ Len(tail) \in Nat \ {0}
      /\ stream \in Seq(Byte) /\ MaxLength \in Nat
      /\ Cut \in Nat /\ Cut + Len(buffer) = received /\ Len(buffer) \in Nat
      /\ received \in Nat /\ received <= Len(stream) /\ Len(stream) \in Nat
  BY <1>1, Numbers, HeadTailFacts, FramingAssumption DEF Buffered, TypeOK
<1>3. /\ Tail1 \in Nat /\ Len(head) + 1 <= Tail1 /\ Cut + Tail1 + Len(tail) - 1 <= received
      /\ At(stream, tail, Cut + Tail1) /\ At(stream, head, Cut + 1)
      /\ \A k \in Cut + (Len(head) + 1) .. Cut + Tail1 - 1 : ~At(stream, tail, k)
  BY <1>1, HeadTailFacts DEF FoundAt
<1> HIDE DEF Cut, Tail1, head, tail, LastStart
<1>4. /\ n \in Nat /\ dropped \in 0 .. Len(buffer) /\ dropped = Len(head) + n + Len(tail)
      /\ Cut + Len(head) + n + 1 = Cut + Tail1
      /\ Cut + Len(head) + n + Len(tail) <= received
  BY <1>2, <1>3
<1>5. \A k \in Cut + Len(head) + 1 .. Cut + Len(head) + n : ~At(stream, tail, k)
  <2>1. Cut + (Len(head) + 1) = Cut + Len(head) + 1 /\ Cut + Tail1 - 1 = Cut + Len(head) + n
    BY <1>2, <1>3
  <2> HIDE DEF n
  <2> QED BY <1>3, <2>1
<1> HIDE DEF n, dropped
<1>6. /\ buffer' \in Seq(Byte) /\ Len(buffer') = Len(buffer) - dropped
      /\ Len(buffer') <= received' /\ Cut' = Cut + dropped /\ Mirror'
  BY <1>1, <1>4, DropFacts
<1>7. CASE n <= MaxLength /\ Deliver(Len(head), n) /\ resyncs' = 0 /\ UNCHANGED status
  <2>1. DelimiterBefore = Len(head) /\ DelimiterAfter = Len(tail)
    BY <1>1 DEF DelimiterBefore, DelimiterAfter, head, tail
  <2>2. PICK last : last = Len(frames) + 1
    OBVIOUS
  <2>3. FrameSound(last)'
    <3> DEFINE i == Cut + Len(head) + 1
               j == Cut + Len(head) + n
    <3>1. frames'[last].first = i /\ frames'[last].last = j
      <4> HIDE DEF i, j
      <4> QED BY <1>1, <1>7, <2>2 DEF Deliver, i, j, Buffered, TypeOK
    <3>2. /\ i \in Nat \ {0} /\ j \in 0 .. Len(stream) /\ i <= j + 1 /\ j - i + 1 = n
          /\ 1 \in Nat \ {0} /\ i - Len(head) = Cut + 1 /\ j + 1 = Cut + Tail1
      BY <1>2, <1>4
    <3>3. Len(SubSeq(stream, i, j)) = n
      BY <1>2, <3>2, ViewOfSlice
    <3>4. \A k \in i + 1 - 1 .. j - Len(tail) + 1 : ~At(stream, tail, k)
      <4>1. \A k \in i + 1 - 1 .. j - Len(tail) + 1 :
              k \in Cut + Len(head) + 1 .. Cut + Len(head) + n
        BY <1>2, <1>4
      <4> QED BY <1>5, <4>1
    <3> HIDE DEF i, j
    <3>5. Find(SubSeq(stream, i, j), tail, 1) = 0
      BY <1>2, <3>2, <3>4, NoneInSlice
    <3>6. At(stream, tail, j + 1) /\ At(stream, head, i - Len(head))
      BY <1>3, <3>2
    <3> QED BY <1>1, <1>7, <3>1, <3>3, <3>5, <3>6
            DEF FrameSound, Payload, Between, Occurs, head, tail
  <2>4. Apart => Empty(Between(LastStart, Cut))
    BY <1>1, OpenGapEmpty DEF IInv
  <2>5. Cut' = Cut + DelimiterBefore + n + DelimiterAfter /\ n \in Nat
    BY <1>2, <1>4, <1>6, <2>1
  <2>6. /\ frames' \in Seq([first : Nat, last : Nat])
        /\ LastStart' = Cut' + 1 /\ FramesSound' /\ ClosedGaps'
    BY <1>1, <1>7, <2>1, <2>2, <2>3, <2>4, <2>5, DeliverStep DEF IInv, Buffered
  <2>7. Buffered'
    BY <1>1, <1>6, <1>7, <2>6 DEF Buffered, TypeOK
  <2>8. BufferBounded'
    BY <1>1, <1>2, <1>4, <1>6, <2>7, BoundKept DEF IInv
  <2>9. HeadTailGap' /\ Chain'
    <3>1. Cut' \in Nat
      BY <1>2, <1>4, <1>6
    <3>2. \A c \in Nat : c + 1 <= c + 1 /\ ~(c + 1 <= c) /\ (c + 1) .. c = {}
      OBVIOUS
    <3>3. LastStart' <= Cut' + 1 /\ ~(LastStart' <= Cut') /\ LastStart' .. Cut' = {}
      BY <2>6, <3>1, <3>2
    <3>4. HeadTailGap'
      BY <3>3 DEF HeadTailGap
    <3>5. Chain'
      BY <1>7 DEF Chain
    <3> QED BY <3>4, <3>5
  <2> QED BY <1>1, <1>7, <2>6, <2>7, <2>8, <2>9 DEF IInv, OpenGap, FailsForCause
<1>8. CASE ~(n <= MaxLength) /\ status' = "failed" /\ UNCHANGED <<frames, resyncs>>
  <2>1. FramesSound' /\ ClosedGaps'
    BY <1>1, <1>8, QuietStep DEF IInv, Buffered
  <2>2. Buffered'
    BY <1>1, <1>6, <1>8 DEF Buffered, TypeOK
  <2>3. BufferBounded'
    BY <1>1, <1>2, <1>4, <1>6, <2>2, BoundKept DEF IInv
  <2>4. CauseToFail
    <3>1. \A k \in Cut + 1 + Len(head) .. Cut + 1 + MaxLength - Len(tail) + 1 :
            k \in Cut + Len(head) + 1 .. Cut + Len(head) + n
      BY <1>2, <1>4, <1>8
    <3>2. Len(buffer) > MaxLength
      BY <1>2, <1>4, <1>8
    <3>3. \A k \in Cut + 1 + Len(head) .. Cut + 1 + MaxLength - Len(tail) + 1 :
            ~At(stream, tail, k)
      BY <1>5, <3>1
    <3> QED BY <1>1, <1>3, <3>2, <3>3, HeadTailWindow DEF head, tail
  <2> QED BY <1>1, <1>8, <2>1, <2>2, <2>3, <2>4, CauseKept DEF IInv, FailsForCause
<1> QED BY <1>1, <1>7, <1>8

LEMMA AtElement ==
    ASSUME NEW s \in Seq(Byte), NEW p \in Seq(Byte), NEW i \in Nat \ {0},
           i + Len(p) - 1 <= Len(s), At(s, p, i), NEW k \in 1 .. Len(p)
    PROVE  s[i + k - 1] = p[k]
<1> DEFINE u == SubSeq(s, i, i + Len(p) - 1)
<1>1. Len(s) \in Nat /\ Len(p) \in Nat
  OBVIOUS
<1>2. i + Len(p) - 1 \in 0 .. Len(s) /\ i <= i + Len(p) - 1 + 1
      /\ i + Len(p) - 1 - i + 1 = Len(p) /\ i - 1 + k = i + k - 1
  BY <1>1
<1>3. u = p
  BY DEF At
<1>4. Len(u) = Len(p) /\ View(u, s, i - 1)
  BY <1>2, ViewOfSlice
<1> HIDE DEF u
<1>5. u[k] = s[i - 1 + k]
  BY <1>4 DEF View
<1> QED BY <1>2, <1>3, <1>5

\* With delimiters apart, no tail begins in a head and ends after it.
LEMMA NoStraddle ==
    ASSUME TypeOK, framing.mode = "head_tail", Apart, NEW c \in Nat,
           At(stream, framing.head, c + 1), c + Len(framing.head) <= Len(stream),
           NEW p \in Nat \ {0}, p <= c + Len(framing.head),
           p + Len(framing.tail) - 1 > c + Len(framing.head),
           p + Len(framing.tail) - 1 <= Len(stream)
    PROVE  ~At(stream, framing.tail, p)
<1> DEFINE head == framing.head
           tail == framing.tail
           n == c + Len(head) - p + 1
<1>1. /\ head \in Seq(Byte) /\ Len(head) \in Nat \ {0}
      /\ tail \in Seq(Byte) /\ Len(tail) \in Nat \ {0} /\ stream \in Seq(Byte)
      /\ Len(stream) \in Nat
  BY Delimiters DEF TypeOK
<1>2. /\ At(stream, head, c + 1) /\ c + Len(head) <= Len(stream)
      /\ p <= c + Len(head) /\ p + Len(tail) - 1 > c + Len(head)
      /\ p + Len(tail) - 1 <= Len(stream)
  OBVIOUS
<1> HIDE DEF head, tail
<1>3. n \in 1 .. Len(tail) - 1
  BY <1>1, <1>2
<1>4. PICK m \in 0 .. n - 1 : m < Len(head) /\ tail[n - m] # head[Len(head) - m]
  BY <1>3 DEF Apart, head, tail
<1>5. SUFFICES ASSUME At(stream, tail, p) PROVE FALSE
  BY DEF tail
<1>6. stream[c + Len(head) - m] = head[Len(head) - m]
  <2> DEFINE k == Len(head) - m
  <2>1. m \in Nat /\ m < Len(head)
    BY <1>3, <1>4
  <2>2. k \in 1 .. Len(head) /\ (c + 1) + k - 1 = c + Len(head) - m
        /\ c + 1 \in Nat \ {0} /\ (c + 1) + Len(head) - 1 <= Len(stream)
    BY <1>1, <1>2, <2>1
  <2> HIDE DEF k
  <2>3. stream[(c + 1) + k - 1] = head[k]
    BY <1>1, <1>2, <2>2, AtElement
  <2> QED BY <2>2, <2>3 DEF k
<1>7. stream[c + Len(head) - m] = tail[n - m]
  <2> DEFINE k == n - m
  <2>1. k \in 1 .. Len(tail) /\ p + k - 1 = c + Len(head) - m
    BY <1>1, <1>2, <1>3, <1>4
  <2> HIDE DEF k
  <2>2. stream[p + k - 1] = tail[k]
    BY <1>1, <1>2, <1>5, <2>1, AtElement
  <2> QED BY <2>1, <2>2 DEF k
<1> QED BY <1>4, <1>6, <1>7

LEMMA OneMoreHead ==
    ASSUME NEW i \in Int, NEW a \in Int, NEW b \in Int, i <= b, a < b, b \in Heads
    PROVE  /\ Cardinality(Heads \cap (i .. a)) \in Nat
           /\ Cardinality(Heads \cap (i .. b)) \in Nat
           /\ Cardinality(Heads \cap (i .. b)) >= Cardinality(Heads \cap (i .. a)) + 1
<1> DEFINE S == Heads \cap (i .. a)
           T == Heads \cap (i .. b)
<1>1. IsFiniteSet(i .. a) /\ IsFiniteSet(i .. b)
  BY FS_Interval
<1>2. IsFiniteSet(S) /\ IsFiniteSet(T)
  <2>1. S \in SUBSET (i .. a) /\ T \in SUBSET (i .. b)
    OBVIOUS
  <2> HIDE DEF S, T
  <2> QED BY <1>1, <2>1, FS_Subset
<1>3. b \notin S /\ S \cup {b} \in SUBSET T
  <2> HIDE DEF Heads
  <2>1. b \in T /\ b \notin S
    OBVIOUS
  <2>2. i .. a \subseteq i .. b
    OBVIOUS
  <2> QED BY <2>1, <2>2
<1> HIDE DEF S, T
<1>4. Cardinality(S \cup {b}) = Cardinality(S) + 1
  BY <1>2, <1>3, FS_AddElement
<1>5. Cardinality(S \cup {b}) <= Cardinality(T)
  BY <1>2, <1>3, FS_Subset
<1>6. Cardinality(S) \in Nat /\ Cardinality(T) \in Nat
  BY <1>2, FS_CardinalityType
<1> QED BY <1>4, <1>5, <1>6 DEF S, T

LEMMA ResyncStep == IInv /\ Resync => IInv'
<1> SUFFICES ASSUME IInv, Resync PROVE IInv'
  OBVIOUS
<1> DEFINE head == framing.head
           tail == framing.tail
           n == Head2 - 1
<1>1. /\ Buffered /\ framing.mode = "head_tail" /\ Head1 = 1 /\ Tail1 = 0 /\ Head2 > 0
      /\ status = "open" /\ Drop(n) /\ UNCHANGED <<framing, stream, received, frames>>
      /\ resyncs' = resyncs + 1
      /\ \/ UNCHANGED status
         \/ resyncs' > MaxResyncs /\ status' = "failed"
  <2>1. resyncs \in Nat /\ MaxResyncs \in Nat
    BY FramingAssumption DEF IInv, Buffered, TypeOK
  <2> QED BY <2>1 DEF IInv, Resync, HeadTailMode, ResyncsFit, Fail
<1>2. /\ head \in Seq(Byte) /\ Len(head) \in Nat \ {0}
      /\ tail \in Seq(Byte) /\ Len(tail) \in Nat \ {0}
      /\ stream \in Seq(Byte) /\ LastStart \in Nat \ {0}
      /\ Cut \in Nat /\ Cut + Len(buffer) = received /\ Len(buffer) \in Nat
      /\ received \in Nat /\ received <= Len(stream) /\ Len(stream) \in Nat
      /\ resyncs \in Nat /\ MaxResyncs \in Nat
  BY <1>1, Numbers, HeadTailFacts, SizesFacts, FramingAssumption DEF Buffered, TypeOK
<1>3. /\ At(stream, head, Cut + 1)
      /\ \A k \in Cut + (Len(head) + 1) .. received - Len(tail) + 1 : ~At(stream, tail, k)
      /\ Head2 \in Nat /\ Len(head) + 1 <= Head2 /\ Cut + Head2 + Len(head) - 1 <= received
      /\ At(stream, head, Cut + Head2)
  BY <1>1, HeadTailFacts DEF FoundAt
<1> HIDE DEF Cut, Head2, head, tail, LastStart
<1>4. n \in Nat /\ n \in 0 .. Len(buffer) /\ Len(head) <= n /\ Cut + n + 1 = Cut + Head2
      /\ Cut + n + Len(head) <= received
  BY <1>1, <1>2, <1>3
<1> HIDE DEF n
<1>5. /\ buffer' \in Seq(Byte) /\ Len(buffer') = Len(buffer) - n
      /\ Len(buffer') <= received' /\ Cut' = Cut + n /\ Mirror'
  BY <1>1, <1>4, DropFacts
<1>6. Buffered'
  BY <1>1, <1>2, <1>5 DEF Buffered, TypeOK
<1>7. BufferBounded'
  BY <1>1, <1>2, <1>4, <1>5, <1>6, BoundKept DEF IInv
<1>8. LastStart' = LastStart /\ FramesSound' /\ ClosedGaps' /\ Heads' = Heads /\ Apart' = Apart
  BY <1>1, QuietStep, CauseKept DEF IInv, Buffered
<1> DEFINE c == Cut + n
<1>9. /\ c \in Nat /\ Cut < c /\ Cut + Len(head) <= c /\ c + Len(head) <= received
      /\ c + Len(head) <= Len(stream) /\ At(stream, head, c + 1) /\ Cut' = c
  <2>1. c + 1 = Cut + Head2 /\ Cut' = c
    BY <1>4, <1>5
  <2>2. At(stream, head, c + 1)
    BY <1>3, <2>1
  <2>3. c \in Nat /\ Cut < c /\ Cut + Len(head) <= c /\ c + Len(head) <= received
    BY <1>2, <1>4
  <2> HIDE DEF c
  <2>4. c + Len(head) <= Len(stream)
    BY <1>2, <2>3
  <2> QED BY <2>1, <2>2, <2>3, <2>4
<1> HIDE DEF c
<1>10. ASSUME Apart
       PROVE  HeadTailGap' /\ Chain' /\ (resyncs' > MaxResyncs => CauseToFail)
  <2>1. HeadTailGap /\ Chain
    BY <1>1, <1>10 DEF IInv, OpenGap
  <2>2. /\ LastStart <= Cut + 1
        /\ \A h \in LastStart .. Cut : At(stream, head, h) =>
             \A p \in h + Len(head) .. Cut + Len(head) - Len(tail) + 1 : ~At(stream, tail, p)
    BY <2>1 DEF HeadTailGap, head, tail
  <2>3. ASSUME NEW h \in LastStart .. c, At(stream, head, h),
               NEW p \in h + Len(head) .. c + Len(head) - Len(tail) + 1
        PROVE  ~At(stream, tail, p)
    <3>1. /\ h \in Nat \ {0} /\ p \in Nat \ {0} /\ h + Len(head) <= p
          /\ p + Len(tail) - 1 <= c + Len(head) /\ p + Len(tail) - 1 <= received
      BY <1>2, <1>9
    <3>2. CASE p >= Cut + Len(head) + 1
      BY <1>2, <1>3, <3>1, <3>2
    <3>3. CASE p + Len(tail) - 1 <= Cut + Len(head)
      <4>1. h \in LastStart .. Cut
            /\ p \in h + Len(head) .. Cut + Len(head) - Len(tail) + 1
        BY <1>2, <3>1, <3>3
      <4> QED BY <2>2, <2>3, <4>1
    <3>4. CASE p <= Cut + Len(head) /\ p + Len(tail) - 1 > Cut + Len(head)
      <4>1. Cut + Len(head) <= Len(stream) /\ p + Len(tail) - 1 <= Len(stream)
        BY <1>2, <1>9, <3>1
      <4> QED BY <1>1, <1>2, <1>3, <1>10, <3>1, <3>4, <4>1, NoStraddle
              DEF Buffered, head, tail
    <3> QED BY <1>2, <3>1, <3>2, <3>3, <3>4
  <2>4. HeadTailGap'
    <3>1. LastStart <= c + 1
      BY <1>2, <1>9, <2>2
    <3> QED BY <1>1, <1>8, <1>9, <2>3, <3>1 DEF HeadTailGap, head, tail
  <2>5. c + 1 \in Heads
    <3>1. c + 1 \in 1 .. Len(stream) - Len(head) + 1
      BY <1>2, <1>9
    <3> QED BY <1>9, <3>1 DEF Heads, head
  <2>6. PICK i \in LastStart .. c :
          /\ At(stream, head, i)
          /\ Cardinality(Heads \cap (i + 1 .. c + 1)) >= resyncs + 1
    <3>1. CASE resyncs = 0
      <4>1. Cut + 1 \in LastStart .. c
        BY <1>2, <1>9, <2>2
      <4>2. /\ Cut + 1 + 1 \in Int /\ Cut + 1 \in Int /\ c + 1 \in Int
            /\ Cut + 1 + 1 <= c + 1 /\ Cut + 1 < c + 1
        BY <1>2, <1>9
      <4>3. /\ Cardinality(Heads \cap (Cut + 1 + 1 .. Cut + 1)) \in Nat
            /\ Cardinality(Heads \cap (Cut + 1 + 1 .. c + 1)) \in Nat
            /\ Cardinality(Heads \cap (Cut + 1 + 1 .. c + 1))
                 >= Cardinality(Heads \cap (Cut + 1 + 1 .. Cut + 1)) + 1
        BY <2>5, <4>2, OneMoreHead
      <4>4. Cardinality(Heads \cap (Cut + 1 + 1 .. c + 1)) >= resyncs + 1
        BY <3>1, <4>3
      <4> QED BY <1>3, <4>1, <4>4
    <3>2. CASE resyncs # 0
      <4>1. PICK i \in LastStart .. Cut :
              /\ At(stream, head, i)
              /\ Cardinality(Heads \cap (i + 1 .. Cut + 1)) >= resyncs
        <5>1. resyncs > 0
          BY <1>2, <3>2
        <5> QED BY <2>1, <5>1 DEF Chain, head
      <4>2. /\ i + 1 \in Int /\ Cut + 1 \in Int /\ c + 1 \in Int
            /\ i + 1 <= c + 1 /\ Cut + 1 < c + 1 /\ i \in LastStart .. c
        BY <1>2, <1>9
      <4>3. /\ Cardinality(Heads \cap (i + 1 .. Cut + 1)) \in Nat
            /\ Cardinality(Heads \cap (i + 1 .. c + 1)) \in Nat
            /\ Cardinality(Heads \cap (i + 1 .. c + 1))
                 >= Cardinality(Heads \cap (i + 1 .. Cut + 1)) + 1
        BY <2>5, <4>2, OneMoreHead
      <4>4. Cardinality(Heads \cap (i + 1 .. c + 1)) >= resyncs + 1
        BY <1>2, <4>1, <4>3
      <4> QED BY <4>1, <4>2, <4>4
    <3> QED BY <3>1, <3>2
  <2>7. Chain'
    BY <1>1, <1>8, <1>9, <2>6 DEF Chain, head
  <2>8. ASSUME resyncs' > MaxResyncs PROVE CauseToFail
    <3> DEFINE j == c + 1
               a == i + Len(head)
               b == j - 1 + Len(head)
    <3>1. /\ i \in Nat \ {0} /\ i <= c /\ a \in Nat \ {0} /\ b = c + Len(head)
          /\ b \in 0 .. Len(stream) /\ a <= b + 1 /\ 1 \in Nat \ {0}
      BY <1>2, <1>9
    <3>2. i \in Heads /\ j \in Heads
      <4>1. i \in 1 .. Len(stream) - Len(head) + 1
        BY <1>2, <1>9, <3>1
      <4> QED BY <2>5, <2>6, <4>1 DEF Heads, head
    <3>3. \A k \in a + 1 - 1 .. b - Len(tail) + 1 : ~At(stream, tail, k)
      <4>1. \A k \in a + 1 - 1 .. b - Len(tail) + 1 :
              k \in i + Len(head) .. c + Len(head) - Len(tail) + 1
        BY <1>2, <1>9, <3>1
      <4> QED BY <2>3, <2>6, <4>1
    <3>4. Find(SubSeq(stream, a, b), tail, 1) = 0
      <4> HIDE DEF a, b
      <4> QED BY <1>2, <3>1, <3>3, NoneInSlice
    <3>5. Cardinality(Heads \cap (i + 1 .. j)) > MaxResyncs
      <4>1. /\ i + 1 \in Int /\ i \in Int /\ j \in Int /\ i + 1 <= j /\ i < j
        BY <1>9, <3>1
      <4>2. Cardinality(Heads \cap (i + 1 .. j)) \in Nat
        BY <3>2, <4>1, OneMoreHead
      <4> QED BY <1>1, <1>2, <2>6, <2>8, <4>2
    <3>6. TooManyHeads(i, j)
      BY <3>4, <3>5 DEF TooManyHeads, Occurs, Between, head, tail
    <3> QED BY <1>1, <3>2, <3>6 DEF CauseToFail
  <2> QED BY <2>4, <2>7, <2>8
<1> QED BY <1>1, <1>6, <1>7, <1>8, <1>10, CauseKept DEF IInv, OpenGap, FailsForCause
-----------------------------------------------------------------------------
(* The theorems. *)

LEMMA InitHolds == Init => IInv
<1> SUFFICES ASSUME Init PROVE IInv
  OBVIOUS
<1>1. /\ framing \in Framing /\ stream \in Streams
      /\ received = 0 /\ buffer = << >> /\ frames = << >> /\ resyncs = 0 /\ status = "open"
  BY DEF Init
<1>2. stream \in Seq(Byte)
  BY <1>1, FramingAssumption DEF Streams
<1>3. Len(buffer) = 0 /\ Cut = 0 /\ Len(frames) = 0 /\ LastStart = 1
  <2>1. Len(buffer) = 0 /\ Len(frames) = 0 /\ Len(frames) + 1 = 1
    BY <1>1
  <2>2. Cut = 0
    <3>1. received = 0
      BY <1>1
    <3> QED BY <2>1, <3>1 DEF Cut
  <2>3. LastStart = 1
    BY <2>1 DEF LastStart, GapStart
  <2> QED BY <2>1, <2>2, <2>3
<1>4. Buffered
  BY <1>1, <1>2, <1>3 DEF Buffered, TypeOK, Mirror, View
<1>5. BufferBounded
  BY <1>1, <1>3, Delimiters, FramingAssumption DEF BufferBounded
<1>6. FramesSound /\ ClosedGaps /\ FailsForCause
  BY <1>1, <1>3 DEF FramesSound, ClosedGaps, FailsForCause
<1>7. framing.mode = "line" => LineGap
  <2> SUFFICES ASSUME framing.mode = "line" PROVE LineGap
    OBVIOUS
  <2>1. Len(framing.sep) \in Nat
    BY <1>1, Delimiters
  <2>2. Cut + 1 = LastStart + 0 * Len(framing.sep)
    BY <1>3, <2>1
  <2> QED BY <2>2 DEF LineGap
<1>8. OpenGap
  BY <1>1, <1>3, <1>7 DEF OpenGap, FixedGap, HeadTailGap, Chain
<1> QED BY <1>1, <1>4, <1>5, <1>6, <1>8 DEF IInv

LEMMA StepHolds == IInv /\ [Next]_vars => IInv'
<1> SUFFICES ASSUME IInv, [Next]_vars PROVE IInv'
  OBVIOUS
<1>1. CASE SkipEmpty
  BY <1>1, SkipEmptyStep
<1>2. CASE CutLine
  BY <1>2, CutLineStep
<1>3. CASE LineTooLong
  BY <1>3, LineTooLongStep
<1>4. CASE CutFixed
  BY <1>4, CutFixedStep
<1>5. CASE DropGarbage
  BY <1>5, DropGarbageStep
<1>6. CASE CutHeadTail
  BY <1>6, CutHeadTailStep
<1>7. CASE Resync
  BY <1>7, ResyncStep
<1>8. CASE HeadTailTooLong
  BY <1>8, HeadTailTooLongStep
<1>9. CASE RecvMore
  BY <1>9, RecvMoreStep
<1>10. CASE PeerDone
  BY <1>10, PeerDoneStep
<1>11. CASE UNCHANGED vars
  <2>1. UNCHANGED <<framing, stream, received, buffer, frames, resyncs, status>>
    BY <1>11 DEF vars
  <2>2. Buffered' /\ BufferBounded' /\ Cut' = Cut
    BY <2>1 DEF IInv, Buffered, BufferBounded, TypeOK, Mirror, View, Cut
  <2>3. /\ LastStart' = LastStart /\ FramesSound' /\ ClosedGaps'
        /\ Heads' = Heads /\ Apart' = Apart /\ CauseToFail' = CauseToFail
    BY <2>1, QuietStep, CauseKept DEF IInv, Buffered
  <2>4. OpenGap => OpenGap'
    BY <2>1, <2>2, <2>3 DEF OpenGap, LineGap, FixedGap, HeadTailGap, Chain
  <2> QED BY <2>1, <2>2, <2>3, <2>4 DEF IInv, FailsForCause
<1> QED BY <1>1, <1>2, <1>3, <1>4, <1>5, <1>6, <1>7, <1>8, <1>9, <1>10, <1>11
        DEF Next, ReadFrame

LEMMA Implied == IInv => NoMessageLost
<1> SUFFICES ASSUME IInv, status # "failed", Apart,
                    NEW k \in 1 .. Len(frames) + 1
             PROVE  Empty(Between(GapStart(k), GapEnd(k)))
  BY DEF NoMessageLost
<1>1. Len(frames) \in Nat
  BY DEF IInv, Buffered, TypeOK
<1>2. CASE k \in 1 .. Len(frames)
  BY <1>2 DEF IInv, ClosedGaps
<1>3. CASE k = Len(frames) + 1
  <2>1. k > Len(frames)
    BY <1>1, <1>3
  <2>2. GapStart(k) = LastStart /\ GapEnd(k) = Cut
    BY <1>3, <2>1 DEF GapEnd, LastStart
  <2>3. Empty(Between(LastStart, Cut))
    BY OpenGapEmpty DEF IInv
  <2> QED BY <2>2, <2>3
<1> QED BY <1>1, <1>2, <1>3

\* The invariant behind the theorems holds in every reachable state.
THEOREM Invariance == Spec => []IInv
<1>1. Init => IInv
  BY InitHolds
<1>2. IInv /\ [Next]_vars => IInv'
  BY StepHolds
<1> QED BY <1>1, <1>2, PTL DEF Spec

\* Whatever the stream and its chunks, a delivered message is delimited on both sides, holds
\* no delimiter that would have ended it and is not longer than the limit: the three loops
\* of tcp_server.py:254-329.
THEOREM MessagesAreFrames == Spec => []FramesSound
<1>1. IInv => FramesSound
  BY DEF IInv
<1> QED BY <1>1, Invariance, PTL

\* While the connection is not failed, everything dropped between messages and before the
\* buffer holds no message, if the end of a head is not the end of a beginning of the tail:
\* what tcp_server.py:254-329 drop with del buffer[:n].
THEOREM NothingDropped == Spec => []NoMessageLost
BY Invariance, Implied, PTL

\* The buffer never holds more than the limit and one chunk: the checks before _recv_more
\* (tcp_server.py:234-247).
THEOREM MemoryBounded == Spec => []BufferBounded
<1>1. IInv => BufferBounded
  BY DEF IInv
<1> QED BY <1>1, Invariance, PTL

\* A connection fails only if the stream, however it is chunked, is too long somewhere or
\* repeats its heads too often: the places of tcp_server.py:249-329 that return None.
THEOREM FailuresHaveCause == Spec => []FailsForCause
<1>1. IInv => FailsForCause
  BY DEF IInv
<1> QED BY <1>1, Invariance, PTL

(***************************************************************************)
(* What makes FramingAssumption true of a configured server: whatever the  *)
(* environment says, the settings satisfy what the rest of the program,    *)
(* and the constants of the other modules, take for granted.               *)
(***************************************************************************)

C == INSTANCE Configuration

NonEmpty == Seq(Byte) \ {<<>>}

LEMMA ParsedType ==
    ASSUME NEW raw \in C!Numeric, NEW default \in Int
    PROVE  /\ C!Parsed(raw, default) \in Int
           /\ raw.is = "value" => C!Parsed(raw, default) = raw.value
BY DEF C!Numeric, C!Unset, C!Bad, C!Says, C!Parsed

LEMMA DelimiterType ==
    ASSUME NEW raw \in C!Word(Seq(Byte)), NEW default \in Seq(Byte)
    PROVE  /\ C!Delimiter(raw, default) \in Seq(Byte)
           /\ default # <<>> => C!Delimiter(raw, default) \in NonEmpty
BY DEF C!Word, C!Unset, C!Bad, C!Says, C!Delimiter, NonEmpty

\* A number that is not set, is no number or is too low is replaced, one in range is kept:
\* no setting of the limited kind leaves its range (config.py:120-126, 229-332).
THEOREM SettledWithinLimits ==
    ASSUME NEW limits,
           \A name \in DOMAIN limits :
             limits[name].least \in Int /\ limits[name].default \in Int
             /\ limits[name].default >= limits[name].least,
           NEW env \in [DOMAIN limits -> C!Numeric],
           NEW name \in DOMAIN limits
    PROVE  /\ C!Settled(limits, env)[name] >= limits[name].least
           /\ env[name].is = "value" /\ env[name].value >= limits[name].least
                => C!Settled(limits, env)[name] = env[name].value
<1> DEFINE limit == limits[name]
           n == C!Parsed(env[name], limit.default)
<1>1. limit.least \in Int /\ limit.default \in Int /\ limit.default >= limit.least
  OBVIOUS
<1>2. n \in Int /\ (env[name].is = "value" => n = env[name].value)
  BY <1>1, ParsedType
<1>3. C!Settled(limits, env)[name] = IF n < limit.least THEN limit.default ELSE n
  BY DEF C!Settled, C!Clamped
<1> HIDE DEF n
<1> QED BY <1>1, <1>2, <1>3

\* A server is never configured with an empty delimiter or a frame of no bytes, which would
\* cut frames for ever: a mode that lacks what it needs is "line" (config.py:97-119).
THEOREM FramingIsUsable ==
    ASSUME NEW env \in C!FramingEnv, NEW newline \in NonEmpty
    PROVE  LET f == C!FramingOf(env, newline) IN
             \/ f.mode = "line" /\ f.sep \in NonEmpty
             \/ f.mode = "fixed" /\ f.length \in Nat \ {0}
             \/ f.mode = "head_tail" /\ f.head \in NonEmpty /\ f.tail \in NonEmpty
             \/ f.mode = "raw"
<1>1. /\ env.length \in C!Numeric
      /\ env.separator \in C!Word(Seq(Byte))
      /\ env.head \in C!Word(Seq(Byte)) /\ env.tail \in C!Word(Seq(Byte))
  BY DEF C!FramingEnv
<1>2. C!Mode(env) \in C!Modes /\ C!Usable(C!Mode(env), env)
  <2>1. "line" \in C!Modes /\ C!Usable("line", env)
    BY DEF C!Modes, C!Usable
  <2>2. CASE C!Usable(C!Parsed(env.mode, "line"), env)
    BY <2>2 DEF C!Mode, C!Usable
  <2>3. CASE ~C!Usable(C!Parsed(env.mode, "line"), env)
    BY <2>1, <2>3 DEF C!Mode
  <2> QED BY <2>2, <2>3
<1>3. CASE C!Mode(env) = "line"
  <2>1. C!Delimiter(env.separator, newline) \in NonEmpty
    BY <1>1, DelimiterType DEF NonEmpty
  <2> QED BY <1>3, <2>1 DEF C!FramingOf
<1>4. CASE C!Mode(env) = "fixed"
  <2>1. C!FrameLength(env) \in Int /\ C!FrameLength(env) > 0
    BY <1>1, <1>2, <1>4, ParsedType DEF C!FrameLength, C!Usable
  <2> QED BY <1>4, <2>1 DEF C!FramingOf
<1>5. CASE C!Mode(env) = "head_tail"
  <2>1. C!FrameHead(env) \in Seq(Byte) /\ C!FrameTail(env) \in Seq(Byte)
    <3>1. <<>> \in Seq(Byte)
      OBVIOUS
    <3> QED BY <3>1, <1>1, DelimiterType DEF C!FrameHead, C!FrameTail
  <2>2. C!FrameHead(env) \in NonEmpty /\ C!FrameTail(env) \in NonEmpty
    BY <1>2, <1>5, <2>1 DEF C!Usable, NonEmpty
  <2>3. C!FramingOf(env, newline) =
          [mode |-> "head_tail", head |-> C!FrameHead(env), tail |-> C!FrameTail(env)]
    BY <1>5 DEF C!FramingOf
  <2> QED BY <2>2, <2>3
<1>6. CASE C!Mode(env) = "raw"
  BY <1>6 DEF C!FramingOf
<1> QED BY <1>2, <1>3, <1>4, <1>5, <1>6 DEF C!Modes
=============================================================================
