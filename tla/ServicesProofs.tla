--------------------------- MODULE ServicesProofs ---------------------------
(***************************************************************************)
(* The invariants of the parts of Services, for any number of threads,     *)
(* tasks, calls, requests, datagrams and signals and any sizes and limits. *)
(* Each section proves one part from its own specification, by an          *)
(* inductive invariant that is named after the part's instance (DInv for   *)
(* D, and so on); the last section puts the parts together.                *)
(***************************************************************************)
EXTENDS Services, FiniteSetTheorems, SequenceTheorems, TLAPS

-----------------------------------------------------------------------------
(* The UDP server.  The invariant is the property with the types of what it *)
(* counts; each step leaves the set of datagrams being worked on alone, or  *)
(* adds or removes one and takes or gives back one slot.                    *)

LEMMA DFinite ==
    \A X : D!Cardinality(X) = Cardinality(X) /\ (D!IsFiniteSet(X) <=> IsFiniteSet(X))
BY DEF D!Cardinality, Cardinality, D!IsFiniteSet, IsFiniteSet

LEMMA DConstants == IsFiniteSet(Datagram) /\ MaxConcurrency \in Nat
BY ServicesAssumption, DFinite DEF ServicesAssumption, D!UdpAssumption

DStages == {"new", "accepted", "dropped", "handling", "reply", "done", "gone", "lost"}
DInv == datagram \in [Datagram -> DStages] /\ D!DatagramSlots

LEMMA DInitInv == D!Init => DInv
<1> USE DConstants
<1> SUFFICES ASSUME D!Init PROVE DInv
  OBVIOUS
<1>1. D!Working = {} /\ datagram \in [Datagram -> DStages]
  BY DEF D!Init, D!Working, DStages
<1> QED BY <1>1, FS_EmptySet, DFinite DEF D!Init, DInv, D!DatagramSlots

\* A step of one datagram that changes nothing of what is worked on.
LEMMA DMoveInv ==
    ASSUME DInv, NEW d \in Datagram, NEW s \in DStages, D!Move(d, s), UNCHANGED slots,
           (d \in D!Working) <=> (s \in {"accepted", "handling", "reply", "done"})
    PROVE  DInv'
<1>1. datagram' \in [Datagram -> DStages] /\ D!Working' = D!Working
  BY DEF DInv, D!Move, D!Working
<1> QED BY <1>1 DEF DInv, D!DatagramSlots

\* A slot is taken for one datagram more.
LEMMA DTakeInv ==
    ASSUME DInv, NEW d \in Datagram, d \notin D!Working,
           D!Move(d, "accepted"), slots > 0, slots' = slots - 1
    PROVE  DInv'
<1>1. datagram' \in [Datagram -> DStages] /\ D!Working' = D!Working \cup {d}
  BY DEF DInv, D!Move, D!Working, DStages
<1>2. IsFiniteSet(D!Working)
  BY DConstants, FS_Subset DEF D!Working
<1>3. Cardinality(D!Working') = Cardinality(D!Working) + 1 /\ Cardinality(D!Working) \in Nat
  BY <1>1, <1>2, FS_AddElement, FS_CardinalityType
<1> QED BY <1>1, <1>3, DFinite DEF DInv, D!DatagramSlots

\* A slot comes back from one that is done with.
LEMMA DGiveInv ==
    ASSUME DInv, NEW d \in D!Working, NEW s \in {"gone", "lost"},
           D!Move(d, s), slots' = D!Release
    PROVE  DInv'
<1>1. datagram' \in [Datagram -> DStages] /\ D!Working' = D!Working \ {d} /\ d \in Datagram
  BY DEF DInv, D!Move, D!Working, DStages
<1>2. IsFiniteSet(D!Working)
  BY DConstants, FS_Subset DEF D!Working
<1>3. Cardinality(D!Working') = Cardinality(D!Working) - 1 /\ Cardinality(D!Working) \in Nat
  BY <1>1, <1>2, FS_RemoveElement, FS_CardinalityType
<1> QED BY <1>1, <1>3, DFinite DEF DInv, D!DatagramSlots, D!Release

LEMMA DKeepInv == ASSUME DInv, UNCHANGED <<slots, datagram>> PROVE DInv'
BY DEF DInv, D!DatagramSlots, D!Working

LEMMA DStepInv == DInv /\ [D!Next]_(D!vars) => DInv'
<1> SUFFICES ASSUME DInv, [D!Next]_(D!vars) PROVE DInv'
  OBVIOUS
<1>1. CASE D!Start \/ D!StopBegins \/ UNCHANGED D!vars
  BY <1>1, DKeepInv DEF D!Start, D!StopBegins, D!vars
<1>2. ASSUME NEW g \in loops \cup open, D!LoopEnds(g) \/ D!Close(g) PROVE DInv'
  BY <1>2, DKeepInv DEF D!LoopEnds, D!Close
<1>3. ASSUME NEW g \in loops \cup open, NEW d \in Datagram, D!Receive(g, d) PROVE DInv'
  <2>1. d \notin D!Working
    BY <1>3 DEF D!Receive, D!Working
  <2>2. CASE slots > 0
    BY <1>3, <2>1, <2>2, DTakeInv DEF D!Receive
  <2>3. CASE ~(slots > 0)
    BY <1>3, <2>1, <2>3, DMoveInv DEF D!Receive, DStages
  <2> QED BY <2>2, <2>3
<1>4. ASSUME NEW d \in Datagram, D!Spawn(d) PROVE DInv'
  BY <1>4, DMoveInv DEF D!Spawn, D!Working, DStages
<1>5. ASSUME NEW d \in Datagram, D!SpawnFails(d) PROVE DInv'
  BY <1>5, DGiveInv DEF D!SpawnFails, D!Working
<1>6. ASSUME NEW d \in Datagram, D!Handle(d) PROVE DInv'
  BY <1>6, DMoveInv DEF D!Handle, D!Working, DStages
<1>7. ASSUME NEW d \in Datagram, D!Reply(d) PROVE DInv'
  BY <1>7, DMoveInv DEF D!Reply, D!Working, DStages
<1>8. ASSUME NEW d \in Datagram, D!ThreadEnds(d) PROVE DInv'
  BY <1>8, DGiveInv DEF D!ThreadEnds, D!Working
<1>9. ASSUME NEW k \in Sender, D!SendLooks(k) \/ D!SendTo(k) PROVE DInv'
  BY <1>9, DKeepInv DEF D!SendLooks, D!SendTo
<1> QED BY <1>1, <1>2, <1>3, <1>4, <1>5, <1>6, <1>7, <1>8, <1>9 DEF D!Next

\* Every slot of the UDP server is free or with one datagram that is worked on, over
\* floods, threads that do not start and restarts (udp_server.py:59-79).
THEOREM SlotsNeverLost ==
    D!Spec => []D!DatagramSlots
<1>1. D!Init => DInv
  BY DInitInv
<1>2. DInv /\ [D!Next]_(D!vars) => DInv'
  BY DStepInv
<1>3. DInv => D!DatagramSlots
  BY DEF DInv
<1> QED BY <1>1, <1>2, <1>3, PTL DEF D!Spec
-----------------------------------------------------------------------------
(* The login lock.  What a state may still add to the guesses without a new *)
(* limit: when the lock is seen, the threads already past the check; when   *)
(* it is not, the failures up to the limit and one more by every thread     *)
(* that neither has a failure to count nor sets the lock.                   *)

LEMMA LFinite ==
    \A X : L!Cardinality(X) = Cardinality(X) /\ (L!IsFiniteSet(X) <=> IsFiniteSet(X))
BY DEF L!Cardinality, Cardinality, L!IsFiniteSet, IsFiniteSet

LEMMA LConstants ==
    /\ IsFiniteSet(Guesser) /\ MaxFails \in Nat \ {0}
    /\ MaxLogins \in Nat /\ MaxExpiries \in Nat /\ MaxChanges \in Nat
BY ServicesAssumption, LFinite DEF ServicesAssumption, L!LockAssumption

LAt(Z) == {t \in Guesser : guess[t] \in Z}
LNumber(Z) == Cardinality(LAt(Z))
LLimit == MaxFails + Cardinality(Guesser) - 1
LMissing == IF fails[L!Used] < MaxFails THEN MaxFails - 1 - fails[L!Used] ELSE 0
LSlack == IF L!SeenLock = "live"
          THEN LNumber({"clear", "hash"})
          ELSE LMissing + Cardinality(Guesser) - LNumber({"lock"}) - LNumber({"fail"})
LBound == LLimit * (1 + forgiven + changes)
LInv == L!TypeOK /\ guesses + LSlack <= LBound

LEMMA LNumbers ==
           /\ Cardinality(Guesser) \in Nat
           /\ LNumber({"clear", "hash"}) \in Nat /\ LNumber({"lock"}) \in Nat
           /\ LNumber({"fail"}) \in Nat
           /\ LNumber({"clear", "hash"}) + LNumber({"lock"}) + LNumber({"fail"})
                <= Cardinality(Guesser)
<1> DEFINE h == LAt({"clear", "hash"})
           l == LAt({"lock"})
           f == LAt({"fail"})
<1>1. /\ h \subseteq Guesser /\ l \subseteq Guesser /\ f \subseteq Guesser
      /\ h \cap l = {} /\ (h \cup l) \cap f = {} /\ (h \cup l) \cup f \subseteq Guesser
  BY DEF LAt
<1>2. /\ IsFiniteSet(Guesser) /\ IsFiniteSet(h) /\ IsFiniteSet(l) /\ IsFiniteSet(f)
      /\ IsFiniteSet(h \cup l) /\ IsFiniteSet((h \cup l) \cup f)
  BY LConstants, <1>1, FS_Subset, FS_Union
<1>3. /\ Cardinality(Guesser) \in Nat /\ Cardinality(h) \in Nat /\ Cardinality(l) \in Nat
      /\ Cardinality(f) \in Nat /\ Cardinality(h \cup l) \in Nat
  BY <1>2, FS_CardinalityType
<1>4. Cardinality(h \cup l) = Cardinality(h) + Cardinality(l) - Cardinality(h \cap l)
  BY <1>2, FS_Union
<1>5. Cardinality((h \cup l) \cup f)
        = Cardinality(h \cup l) + Cardinality(f) - Cardinality((h \cup l) \cap f)
  BY <1>2, FS_Union
<1>6. Cardinality(h \cap l) = 0 /\ Cardinality((h \cup l) \cap f) = 0
  BY <1>1, FS_EmptySet
<1>7. Cardinality((h \cup l) \cup f) <= Cardinality(Guesser)
  BY LConstants, <1>1, <1>2, FS_Subset
<1> HIDE DEF h, l, f
<1>8. Cardinality(h) + Cardinality(l) + Cardinality(f) <= Cardinality(Guesser)
  BY <1>3, <1>4, <1>5, <1>6, <1>7
<1> QED BY <1>3, <1>8 DEF LNumber, h, l, f

\* A step of one thread moves it from one count to another.
LEMMA LMove ==
    ASSUME L!TypeOK, NEW t \in Guesser, NEW s, L!Proceed(t, s), NEW Z
    PROVE  LNumber(Z)' = LNumber(Z) - (IF guess[t] \in Z THEN 1 ELSE 0)
                           + (IF s \in Z THEN 1 ELSE 0)
<1> DEFINE before == LAt(Z)
           after == LAt(Z)'
<1>1. /\ before \subseteq Guesser
      /\ (guess[t] \in Z <=> t \in before) /\ (s \in Z <=> t \in after)
      /\ before \ {t} = after \ {t}
  BY DEF LAt, L!Proceed, L!TypeOK
<1>2. IsFiniteSet(before) /\ Cardinality(before) \in Nat
  BY LConstants, <1>1, FS_Subset, FS_CardinalityType
<1> HIDE DEF before, after
<1>3. /\ IsFiniteSet(before \ {t})
      /\ t \in before => Cardinality(before \ {t}) = Cardinality(before) - 1
      /\ t \notin before => Cardinality(before \ {t}) = Cardinality(before)
  BY <1>2, FS_RemoveElement
<1>4. Cardinality((before \ {t}) \cup {t}) = Cardinality(before \ {t}) + 1
  BY <1>3, FS_AddElement
<1>5. /\ t \in after => Cardinality(after) = Cardinality(before \ {t}) + 1
      /\ t \notin after => Cardinality(after) = Cardinality(before \ {t})
  <2>1. /\ t \in after => after = (before \ {t}) \cup {t}
        /\ t \notin after => after = before \ {t}
    BY <1>1
  <2> QED BY <2>1, <1>4
<1>9. Cardinality(before \ {t}) \in Nat /\ Cardinality(after) \in Nat
 BY <1>2, <1>3, <1>5, FS_CardinalityType
<1>6. Cardinality(after) = Cardinality(before) - (IF t \in before THEN 1 ELSE 0)
                             + (IF t \in after THEN 1 ELSE 0)
  BY <1>2, <1>3, <1>5, <1>9
<1>7. LNumber(Z)' = Cardinality(after) /\ LNumber(Z) = Cardinality(before)
  BY DEF LNumber, before, after
<1> QED BY <1>1, <1>6, <1>7

LRanges ==
    /\ LSlack \in 0..LLimit /\ LLimit \in Nat /\ LMissing \in 0..(MaxFails - 1)
    /\ guesses \in Nat /\ 1 + forgiven + changes \in Nat \ {0}
    /\ LBound \in Nat /\ LBound >= LLimit

LEMMA LTypes == L!TypeOK => LRanges
<1> SUFFICES ASSUME L!TypeOK PROVE LRanges
  OBVIOUS
<1>1. LMissing \in 0..(MaxFails - 1)
  BY LConstants DEF LMissing, L!TypeOK, L!Used, L!Store
<1>2. LSlack \in 0..LLimit /\ LLimit \in Nat
  BY <1>1, LConstants, LNumbers DEF LSlack, LLimit
<1>3. guesses \in Nat /\ 1 + forgiven + changes \in Nat \ {0}
  BY DEF L!TypeOK
<1>4. \A m \in Nat, k \in Nat \ {0} : m * k \in Nat /\ m * k >= m
  OBVIOUS
<1> QED BY <1>1, <1>2, <1>3, <1>4 DEF LBound, LRanges

LEMMA LTypesNext == L!TypeOK' => LRanges'
BY LTypes, PTL

LEMMA LInitInv == L!Init => LInv
<1> SUFFICES ASSUME L!Init PROVE LInv
  OBVIOUS
<1>1. L!TypeOK
  BY LConstants DEF L!Init, L!TypeOK, L!Store
<1> QED BY <1>1, LTypes DEF LInv, L!Init, LRanges

\* The three ways a step keeps the bound: it makes no slack, it adds a limit, or the
\* count of guesses begins again.
LEMMA LGain ==
    ASSUME LInv, L!TypeOK', guesses' = guesses,
           \/ forgiven' = forgiven + 1 /\ changes' = changes
           \/ forgiven' = forgiven /\ changes' = changes + 1
    PROVE  LInv' /\ LBound' = LBound + LLimit
<1>1. \A m \in Nat, k \in Nat : m * (k + 1) = m * k + m
  OBVIOUS
<1>2. LRanges /\ LRanges' /\ LLimit' = LLimit
  BY LTypes, LTypesNext DEF LInv, LLimit
<1>3. forgiven \in Nat /\ changes \in Nat
  BY LConstants DEF LInv, L!TypeOK
<1>4. 1 + forgiven' + changes' = (1 + forgiven + changes) + 1
  BY <1>3
<1>5. LBound' = LBound + LLimit
  BY <1>1, <1>2, <1>4 DEF LBound, LRanges
<1>6. guesses' + LSlack' <= LBound'
  <2>1. guesses + LSlack <= LBound
    BY DEF LInv
  <2>2. /\ LSlack' <= LLimit /\ LSlack' \in Nat /\ LSlack \in Nat /\ guesses \in Nat
        /\ guesses' \in Nat /\ LBound \in Nat /\ LBound' \in Nat /\ LLimit \in Nat
    BY <1>2 DEF LRanges
  <2>3. \A g, x, y, b, l, c \in Nat : g + x <= b /\ y <= l /\ c = b + l => g + y <= c
    OBVIOUS
  <2> QED BY <2>1, <2>2, <2>3, <1>5, Zenon
<1> QED BY <1>5, <1>6 DEF LInv

LEMMA LKeep ==
    ASSUME LInv, L!TypeOK', guesses' + LSlack' <= guesses + LSlack,
           forgiven' = forgiven /\ changes' = changes
    PROVE  LInv'
<1>1. LRanges /\ LRanges'
  BY LTypes, LTypesNext DEF LInv
<1>2. LBound' = LBound
  BY DEF LBound, LLimit
<1>3. /\ LBound \in Nat /\ LSlack \in Nat /\ LSlack' \in Nat
      /\ guesses \in Nat /\ guesses' \in Nat /\ guesses + LSlack <= LBound
  BY <1>1 DEF LRanges, LInv
<1>4. \A g, x, h, y, b \in Nat : g + x <= b /\ h + y <= g + x => h + y <= b
  OBVIOUS
<1>5. guesses' + LSlack' <= LBound
  BY <1>3, <1>4, Zenon
<1> QED BY <1>2, <1>5, Zenon DEF LInv

LEMMA LFresh ==
    ASSUME L!TypeOK', guesses' = 0
    PROVE  LInv'
BY LTypesNext DEF LInv, LRanges

LEMMA LTypeStep ==
    ASSUME L!TypeOK, L!Next PROVE L!TypeOK'
<1> USE LConstants DEF L!TypeOK, L!Store, L!Proceed
<1>1. ASSUME NEW t \in Guesser, L!Login(t) \/ L!ClearLock(t) PROVE L!TypeOK'
  BY <1>1 DEF L!Login, L!ClearLock
<1>2. ASSUME NEW t \in Guesser, L!WrongPassword(t) \/ L!RightPassword(t) PROVE L!TypeOK'
  BY <1>2 DEF L!WrongPassword, L!RightPassword
<1>3. ASSUME NEW t \in Guesser, L!CountFail(t) \/ L!SetLock(t) PROVE L!TypeOK'
  BY <1>3 DEF L!CountFail, L!SetLock, L!Used
<1>4. ASSUME NEW t \in Guesser, L!ResetFails(t) \/ L!ClearFails(t) PROVE L!TypeOK'
  BY <1>4 DEF L!ResetFails, L!ClearFails, L!ForgetFails
<1>5. ASSUME NEW s \in L!Store, L!LockEnds(s) \/ L!LockKeyExpires(s) \/ L!FailsExpire(s)
      PROVE L!TypeOK'
  BY <1>5 DEF L!LockEnds, L!LockKeyExpires, L!FailsExpire
<1>6. CASE L!Flip
  BY <1>6 DEF L!Flip
<1> QED BY <1>1, <1>2, <1>3, <1>4, <1>5, <1>6 DEF L!Next, L!Attempt

\* What a state says of the lock and the counter, and what a step leaves as it is.
LEMMA LSeen ==
    ASSUME reachable' = reachable, lock' = lock
    PROVE  L!SeenLock' = L!SeenLock /\ L!Used' = L!Used
BY DEF L!SeenLock, L!Used

LEMMA LSame ==
    ASSUME LInv, L!TypeOK', guesses' = guesses, LSlack' <= LSlack,
           forgiven' = forgiven, changes' = changes
    PROVE  LInv'
<1>1. guesses \in Nat /\ LSlack \in Nat /\ LSlack' \in Nat
  BY LTypes, LTypesNext DEF LInv, LRanges
<1>2. \A g, x, y \in Nat : x <= y => g + x <= g + y
  OBVIOUS
<1>3. guesses' + LSlack' <= guesses + LSlack
  BY <1>1, <1>2, Zenon
<1> QED BY <1>3, LKeep

LEMMA LLoginInv ==
    ASSUME LInv, L!TypeOK', NEW t \in Guesser, L!Login(t) PROVE LInv'
<1>1. L!SeenLock' = L!SeenLock /\ LMissing' = LMissing
  BY LSeen DEF L!Login, LMissing
<1>2. L!TypeOK /\ guess[t] = "idle"
  BY DEF LInv, L!Login
<1>3. PICK s \in {"idle", "clear", "hash"} :
         L!Proceed(t, s) /\ (L!SeenLock = "live" => s = "idle")
  BY DEF L!Login, L!Locked
<1>4. \A Z : LNumber(Z)' = LNumber(Z) - (IF guess[t] \in Z THEN 1 ELSE 0)
                             + (IF s \in Z THEN 1 ELSE 0)
  BY <1>2, <1>3, LMove
<1>5. /\ LNumber({"lock"})' = LNumber({"lock"}) /\ LNumber({"fail"})' = LNumber({"fail"})
      /\ L!SeenLock = "live" => LNumber({"clear", "hash"})' = LNumber({"clear", "hash"})
  BY <1>2, <1>3, <1>4, LNumbers
<1>6. LSlack' = LSlack
  BY <1>1, <1>5 DEF LSlack
<1>7. LSlack' <= LSlack
  BY <1>2, <1>6, LTypes DEF LRanges
<1> QED BY <1>7, LSame DEF L!Login

\* A lock is thrown away: when it was live, a limit is added.
LEMMA LClearLockInv ==
    ASSUME LInv, L!TypeOK', NEW t \in Guesser, L!ClearLock(t) PROVE LInv'
<1>1. /\ L!TypeOK /\ guess[t] = "clear" /\ L!Proceed(t, "hash")
      /\ L!SeenLock' = "none" /\ LMissing' = LMissing
  BY DEF LInv, L!ClearLock, L!SeenLock, L!Used, L!Reached, L!Store, LMissing
<1>2. CASE forgiven' = forgiven + 1
  BY <1>2, LGain DEF L!ClearLock
<1>3. CASE forgiven' = forgiven
  <2>1. L!SeenLock # "live"
    <3>1. forgiven + 1 # forgiven
      BY <1>1 DEF L!TypeOK
    <3>2. \A s \in L!Reached : lock[s] # "live"
      BY <1>3, <3>1 DEF L!ClearLock
    <3> QED BY <3>2 DEF L!SeenLock, L!Reached
  <2>2. /\ LNumber({"lock"})' = LNumber({"lock"}) /\ LNumber({"fail"})' = LNumber({"fail"})
    BY <1>1, LMove, LNumbers
  <2>3. LSlack' = LSlack
    BY <1>1, <2>1, <2>2 DEF LSlack
  <2>4. LSlack' <= LSlack
    BY <1>1, <2>3, LTypes DEF LRanges
  <2> QED BY <1>3, <2>4, LSame DEF L!ClearLock
<1> QED BY <1>2, <1>3 DEF L!ClearLock

LEMMA LPasswordInv ==
    ASSUME LInv, L!TypeOK', NEW t \in Guesser, L!WrongPassword(t) \/ L!RightPassword(t)
    PROVE  LInv'
<1>1. /\ L!TypeOK /\ guess[t] = "hash" /\ L!SeenLock' = L!SeenLock /\ LMissing' = LMissing
      /\ forgiven' = forgiven /\ changes' = changes
  BY LSeen DEF LInv, L!WrongPassword, L!RightPassword, LMissing
<1>2. CASE L!WrongPassword(t)
  <2>1. L!Proceed(t, "fail") /\ guesses' = guesses + 1
    BY <1>2 DEF L!WrongPassword
  <2>2. /\ LNumber({"lock"})' = LNumber({"lock"})
        /\ LNumber({"fail"})' = LNumber({"fail"}) + 1
        /\ LNumber({"clear", "hash"})' = LNumber({"clear", "hash"}) - 1
    BY <1>1, <2>1, LMove, LNumbers
  <2>3. LSlack' = LSlack - 1
    BY <1>1, <2>2, LNumbers, LTypes DEF LSlack, LRanges
  <2>4. guesses \in Nat /\ LSlack \in Nat
    BY <1>1, LTypes DEF LRanges
  <2>5. \A g, x \in Nat : (g + 1) + (x - 1) <= g + x
    OBVIOUS
  <2>6. guesses' + LSlack' <= guesses + LSlack
    BY <2>1, <2>3, <2>4, <2>5, Zenon
  <2> QED BY <1>1, <2>6, LKeep
<1>3. CASE L!RightPassword(t)
  <2>1. L!Proceed(t, "succeed") /\ guesses' = guesses
    BY <1>3 DEF L!RightPassword
  <2>2. /\ LNumber({"lock"})' = LNumber({"lock"})
        /\ LNumber({"fail"})' = LNumber({"fail"})
        /\ LNumber({"clear", "hash"})' = LNumber({"clear", "hash"}) - 1
    BY <1>1, <2>1, LMove, LNumbers
  <2>3. LSlack' = LSlack \/ LSlack' = LSlack - 1
    BY <1>1, <2>2, LNumbers, LTypes DEF LSlack, LRanges
  <2>4. LSlack' <= LSlack
    BY <1>1, <2>3, LTypes DEF LRanges
  <2> QED BY <1>1, <2>1, <2>4, LSame
<1> QED BY <1>2, <1>3

\* One failure missing less, and one thread less that has a failure to count.
LEMMA LCountFailInv ==
    ASSUME LInv, L!TypeOK', NEW t \in Guesser, L!CountFail(t) PROVE LInv'
<1> DEFINE n == fails[L!Used]
<1>1. /\ L!TypeOK /\ guess[t] = "fail" /\ n \in Nat
      /\ L!SeenLock' = L!SeenLock /\ L!Used' = L!Used
      /\ fails'[L!Used] = n + 1
      /\ L!Proceed(t, IF n + 1 >= MaxFails THEN "lock" ELSE "idle")
  BY LSeen DEF LInv, L!CountFail, L!Enough, L!TypeOK, L!Store, L!Used
<1>2. LMissing' = IF n + 1 < MaxFails THEN MaxFails - 1 - (n + 1) ELSE 0
  BY <1>1 DEF LMissing
<1>3. LMissing = IF n < MaxFails THEN MaxFails - 1 - n ELSE 0
  BY DEF LMissing
<1> HIDE DEF n
<1>4. CASE n + 1 >= MaxFails
  <2>1. /\ LNumber({"lock"})' = LNumber({"lock"}) + 1
        /\ LNumber({"fail"})' = LNumber({"fail"}) - 1
        /\ LNumber({"clear", "hash"})' = LNumber({"clear", "hash"})
    BY <1>1, <1>4, LMove, LNumbers
  <2>2. LMissing' = 0 /\ LMissing = 0
    BY <1>1, <1>2, <1>3, <1>4, LConstants
  <2>3. LSlack' = LSlack
    BY <1>1, <2>1, <2>2, LNumbers DEF LSlack
  <2>4. LSlack' <= LSlack
    BY <1>1, <2>3, LTypes DEF LRanges
  <2> QED BY <2>4, LSame DEF L!CountFail
<1>5. CASE ~(n + 1 >= MaxFails)
  <2>1. /\ LNumber({"lock"})' = LNumber({"lock"})
        /\ LNumber({"fail"})' = LNumber({"fail"}) - 1
        /\ LNumber({"clear", "hash"})' = LNumber({"clear", "hash"})
    BY <1>1, <1>5, LMove, LNumbers
  <2>2. LMissing \in Nat /\ LMissing' = LMissing - 1
    BY <1>1, <1>2, <1>3, <1>5, LConstants
  <2>3. LSlack' = LSlack
    BY <1>1, <2>1, <2>2, LNumbers DEF LSlack
  <2>4. LSlack' <= LSlack
    BY <1>1, <2>3, LTypes DEF LRanges
  <2> QED BY <2>4, LSame DEF L!CountFail
<1> QED BY <1>4, <1>5

LEMMA LSetLockInv ==
    ASSUME LInv, L!TypeOK', NEW t \in Guesser, L!SetLock(t) PROVE LInv'
<1>1. /\ L!TypeOK /\ guess[t] = "lock" /\ L!Proceed(t, "reset") /\ L!SeenLock' = "live"
  BY DEF LInv, L!SetLock, L!SeenLock, L!Used, L!TypeOK, L!Store
<1>2. LNumber({"clear", "hash"})' = LNumber({"clear", "hash"})
  BY <1>1, LMove, LNumbers
<1>3. LSlack' = LNumber({"clear", "hash"})
  BY <1>1, <1>2 DEF LSlack
<1>4. LMissing \in Nat
  BY <1>1, LTypes, LConstants DEF LRanges
<1>5. LNumber({"clear", "hash"}) <= LSlack
  BY <1>4, LNumbers DEF LSlack
<1>6. LSlack' <= LSlack
  BY <1>3, <1>5
<1> QED BY <1>6, LSame DEF L!SetLock

\* The failures others have counted are thrown away: a limit is added.
LEMMA LResetFailsInv ==
    ASSUME LInv, L!TypeOK', NEW t \in Guesser, L!ResetFails(t) PROVE LInv'
<1>1. /\ L!TypeOK /\ guess[t] = "reset" /\ L!Proceed(t, "idle")
      /\ L!SeenLock' = L!SeenLock /\ L!Used' = L!Used
  BY LSeen DEF LInv, L!ResetFails
<1>2. /\ LNumber({"lock"})' = LNumber({"lock"})
      /\ LNumber({"fail"})' = LNumber({"fail"})
      /\ LNumber({"clear", "hash"})' = LNumber({"clear", "hash"})
  BY <1>1, LMove, LNumbers
<1>3. CASE forgiven' = forgiven + 1
  BY <1>3, LGain DEF L!ResetFails
<1>4. CASE forgiven' = forgiven
  <2>1. L!SeenLock = "live" \/ LMissing' = LMissing
    <3>1. forgiven + 1 # forgiven
      BY <1>1 DEF L!TypeOK
    <3>2. L!SeenLock = "live" \/ \A s \in L!Reached : ~(fails[s] > 0)
      BY <1>4, <3>1 DEF L!ResetFails
    <3>3. /\ L!Used \in L!Reached /\ L!Used \in L!Store
          /\ fails'[L!Used] = 0 /\ fails[L!Used] \in Nat
      BY <1>1 DEF L!ResetFails, L!ForgetFails, L!Reached, L!Used, L!Store, L!TypeOK
    <3>4. L!SeenLock = "live" \/ fails'[L!Used] = fails[L!Used]
      BY <3>2, <3>3
    <3> QED BY <1>1, <3>4 DEF LMissing
  <2>2. LSlack' = LSlack
    BY <1>1, <1>2, <2>1 DEF LSlack
  <2>3. LSlack' <= LSlack
    BY <1>1, <2>2, LTypes DEF LRanges
  <2> QED BY <1>4, <2>3, LSame DEF L!ResetFails
<1> QED BY <1>3, <1>4 DEF L!ResetFails

\* The key of a stale lock expires: the lock in the memory may be seen again.
LEMMA LKeyExpiresInv ==
    ASSUME LInv, L!TypeOK', NEW s \in L!Store, L!LockKeyExpires(s) PROVE LInv'
<1>1. /\ L!TypeOK /\ L!Used' = L!Used
      /\ L!SeenLock = "live" => L!SeenLock' = "live"
  BY DEF LInv, L!LockKeyExpires, L!SeenLock, L!Used, L!TypeOK, L!Store
<1>2. LMissing' = LMissing
  BY <1>1 DEF L!LockKeyExpires, LMissing
<1>3. \A Z : LNumber(Z)' = LNumber(Z)
  BY DEF LNumber, LAt, L!LockKeyExpires
<1>4. LMissing \in Nat
  BY <1>1, LTypes, LConstants DEF LRanges
<1>5. LNumber({"clear", "hash"}) <= LSlack /\ LSlack <= LSlack
  BY <1>1, <1>4, LTypes, LNumbers DEF LSlack, LRanges
<1>6. LSlack' = LSlack \/ LSlack' = LNumber({"clear", "hash"})
  BY <1>1, <1>2, <1>3 DEF LSlack
<1>7. LSlack' <= LSlack
  BY <1>5, <1>6
<1> QED BY <1>7, LSame DEF L!LockKeyExpires

LEMMA LStepInv == LInv /\ [L!Next]_(L!vars) => LInv'
<1> SUFFICES ASSUME LInv, [L!Next]_(L!vars) PROVE LInv'
  OBVIOUS
<1>1. CASE L!Next
  <2>1. L!TypeOK'
    BY <1>1, LTypeStep DEF LInv
  <2>2. ASSUME NEW t \in Guesser, L!Attempt(t) PROVE LInv'
    <3>1. CASE L!ClearFails(t)
      BY <2>1, <3>1, LFresh DEF L!ClearFails
    <3> QED BY <2>1, <2>2, <3>1, LLoginInv, LClearLockInv, LPasswordInv, LCountFailInv,
               LSetLockInv, LResetFailsInv DEF L!Attempt
  <2>3. ASSUME NEW s \in L!Store, L!LockEnds(s) \/ L!FailsExpire(s) PROVE LInv'
    BY <2>1, <2>3, LFresh DEF L!LockEnds, L!FailsExpire
  <2>4. ASSUME NEW s \in L!Store, L!LockKeyExpires(s) PROVE LInv'
    BY <2>1, <2>4, LKeyExpiresInv
  <2>5. CASE L!Flip
    BY <2>1, <2>5, LGain DEF L!Flip
  <2> QED BY <1>1, <2>2, <2>3, <2>4, <2>5 DEF L!Next
<1>2. CASE UNCHANGED L!vars
  <2>1. L!TypeOK' /\ LSlack' = LSlack /\ LBound' = LBound /\ guesses' = guesses
    BY <1>2 DEF LInv, L!vars, L!TypeOK, LSlack, LBound, LMissing, LNumber, LAt, L!SeenLock, L!Used
  <2> QED BY <2>1 DEF LInv
<1> QED BY <1>1, <1>2

\* Until a lock or a counter expires the wrong passwords stay within the limit, one more
\* by each other thread, and one limit more for each time a late login forgives and each
\* time Redis goes or comes, for any number of threads and logins (auth.py:265-328).
THEOREM LockBoundsGuesses == L!Spec => [](L!TypeOK /\ L!GuessesBounded)
<1>1. LInv => L!TypeOK /\ L!GuessesBounded
  <2> SUFFICES ASSUME LInv PROVE L!GuessesBounded
    BY DEF LInv
  <2>1. guesses + LSlack <= LBound /\ LSlack \in Nat /\ guesses \in Nat /\ LBound \in Nat
    BY LTypes DEF LInv, LRanges
  <2>2. guesses <= LBound
    BY <2>1
  <2> QED BY <2>2, LFinite DEF L!GuessesBounded, LBound, LLimit
<1> QED BY <1>1, LInitInv, LStepInv, PTL DEF L!Spec
-----------------------------------------------------------------------------
(* The rate limit.  A counter bounds the requests its store has admitted    *)
(* since any time less than a window ago: it is set again only when it has  *)
(* expired, and then nothing admitted is that recent.                       *)

LEMMA RFinite ==
    \A X : R!Cardinality(X) = Cardinality(X) /\ (R!IsFiniteSet(X) <=> IsFiniteSet(X))
BY DEF R!Cardinality, Cardinality, R!IsFiniteSet, IsFiniteSet

LEMMA RConstants ==
    /\ Requests \in Nat /\ Forged \subseteq Seq(R!Hop)
    /\ Quota \in Nat \ {0} /\ Window \in Nat \ {0} /\ MaxTime \in Nat /\ MaxFlips \in Nat
BY ServicesAssumption DEF ServicesAssumption, R!RateAssumption

\* What the last proxy saw is found behind whatever the client wrote.
LEMMA RNearest ==
    ASSUME NEW hops \in Seq(R!Hop), NEW n \in 1..Len(hops), hops[n] = R!Client,
           \A j \in 1..Len(hops) : j > n => hops[j] = R!Proxy
    PROVE  R!RealIp(R!Proxy, hops) = R!Client
<1> DEFINE outside == {i \in 1..Len(hops) : ~R!IsTrusted(hops[i]) /\ R!IsLiteral(hops[i])}
           nearest == CHOOSE i \in outside : \A j \in outside : j <= i
<1>1. n \in outside /\ \A j \in outside : j <= n
  BY DEF R!IsTrusted, R!IsLiteral, R!Client, R!Proxy, R!Garbage
<1>2. outside \subseteq Int
  OBVIOUS
<1> HIDE DEF outside
<1>3. nearest \in outside /\ \A j \in outside : j <= nearest
  BY <1>1
<1> HIDE DEF nearest
<1>4. nearest = n
  BY <1>1, <1>2, <1>3
<1>5. hops # <<>>
  OBVIOUS
<1> QED BY <1>1, <1>4, <1>5 DEF R!RealIp, R!IsTrusted, outside, nearest

LEMMA RClient ==
    ASSUME NEW forged \in Forged, NEW h \in R!Headers(forged)
    PROVE  R!RealIp(h[1], h[2]) = R!Client
<1> forged \in Seq(R!Hop) /\ Len(forged) \in Nat
  BY RConstants
<1>1. CASE h = <<R!Client, forged>>
  BY <1>1 DEF R!RealIp, R!IsTrusted, R!Client, R!Proxy
<1>2. CASE h = <<R!Proxy, forged \o <<R!Client>>>>
  <2> DEFINE hops == forged \o <<R!Client>>
  <2>1. /\ hops \in Seq(R!Hop) /\ Len(hops) = Len(forged) + 1
        /\ hops[Len(forged) + 1] = R!Client
    BY DEF R!Hop
  <2> HIDE DEF hops
  <2>2. R!RealIp(R!Proxy, hops) = R!Client
    BY <2>1, RNearest
  <2> QED BY <1>2, <2>2 DEF hops
<1>3. CASE h = <<R!Proxy, forged \o <<R!Client, R!Proxy>>>>
  <2> DEFINE hops == forged \o <<R!Client, R!Proxy>>
  <2>1. /\ hops \in Seq(R!Hop) /\ Len(hops) = Len(forged) + 2
        /\ hops[Len(forged) + 1] = R!Client /\ hops[Len(forged) + 2] = R!Proxy
    BY DEF R!Hop
  <2> HIDE DEF hops
  <2>2. R!RealIp(R!Proxy, hops) = R!Client
    BY <2>1, RNearest
  <2> QED BY <1>3, <2>2 DEF hops
<1> QED BY <1>1, <1>2, <1>3 DEF R!Headers

RKey == <<R!Client, R!All>>
RSince(s, i) == {r \in R!AdmittedBy(s) : decided[r] >= i}
RWithin(s, i) == {r \in R!AdmittedBy(s) : R!During(i, r)}
RStoreInv(s) ==
    /\ \A r \in R!AdmittedBy(s) : decided[r] <= now /\ decided[r] + Window <= expiry[s][RKey]
    /\ \A i \in Int : i + Window > now => Cardinality(RSince(s, i)) <= count[s][RKey]
    /\ \A i \in Int : Cardinality(RWithin(s, i)) <= Quota
RInv ==
    /\ R!TypeOK
    /\ \A r \in R!Request : step[r] = "address" => address[r] = R!Client
    /\ flips = 0 => up /\ R!AdmittedBy("memory") = {}
    /\ \A s \in R!Store : RStoreInv(s)

LEMMA RSets ==
    ASSUME NEW Z, Z \subseteq R!Request
    PROVE  IsFiniteSet(Z) /\ Cardinality(Z) \in Nat
<1>1. IsFiniteSet(R!Request)
  BY RConstants, FS_Interval DEF R!Request
<1> QED BY <1>1, FS_Subset, FS_CardinalityType

LEMMA RInitInv == R!Init => RInv
<1> SUFFICES ASSUME R!Init PROVE RInv
  OBVIOUS
<1>1. \A s : R!AdmittedBy(s) = {}
  BY DEF R!Init, R!AdmittedBy
<1>2. R!TypeOK
  BY RConstants DEF R!Init, R!TypeOK, R!Store, R!Key, R!Address, R!Never
<1>3. \A s, i : RSince(s, i) = {} /\ RWithin(s, i) = {}
  BY <1>1 DEF RSince, RWithin
<1>4. Cardinality({}) = 0
  BY FS_EmptySet
<1>5. RKey \in R!Key
  BY DEF RKey, R!Key, R!Address
<1>6. ASSUME NEW s \in R!Store PROVE RStoreInv(s)
  <2>1. count[s][RKey] \in Nat
    BY <1>2, <1>5 DEF R!TypeOK
  <2>2. \A i \in Int : Cardinality(RSince(s, i)) = 0 /\ Cardinality(RWithin(s, i)) = 0
    BY <1>3, <1>4
  <2>3. \A i \in Int : Cardinality(RSince(s, i)) <= count[s][RKey]
    BY <2>1, <2>2
  <2>4. \A i \in Int : Cardinality(RWithin(s, i)) <= Quota
    BY <2>2, RConstants
  <2> QED BY <1>1, <2>3, <2>4 DEF RStoreInv
<1> QED BY <1>1, <1>2, <1>6 DEF RInv, R!Init

\* One increment, of whatever key, and at most one request admitted by it.
LEMMA RIncrInv ==
    ASSUME RInv, R!TypeOK', NEW k \in R!Key, R!Incr(k), now' = now, NEW s \in R!Store,
           NEW r \in R!Request,
           \A q \in R!AdmittedBy(s)' :
             \/ q \in R!AdmittedBy(s) /\ decided'[q] = decided[q]
             \/ /\ q = r /\ s = R!Used /\ k = RKey /\ decided'[q] = now
                /\ ~R!OverLimit(R!NextCount(k))
    PROVE  RStoreInv(s)'
<1> DEFINE ours == s = R!Used /\ k = RKey
           c == count[s][RKey]
           e == expiry[s][RKey]
<1> USE RConstants
<1>1. /\ RKey \in R!Key /\ R!Used \in R!Store
      /\ c \in Nat /\ e \in Int /\ now \in Nat /\ RStoreInv(s)
  <2>1. RKey \in R!Key /\ R!Used \in R!Store
    BY DEF RKey, R!Key, R!Address, R!Used, R!Store
  <2> QED BY <2>1 DEF RInv, R!TypeOK
<1>2. ours => count'[s][RKey] = (IF now > e THEN 1 ELSE c + 1) /\ expiry'[s][RKey] = now + Window
  BY <1>1 DEF R!Incr, R!NextCount, R!Expired, RInv, R!TypeOK
<1>3. ~ours => count'[s][RKey] = c /\ expiry'[s][RKey] = e
  <2>1. CASE s # R!Used
    BY <1>1, <2>1 DEF R!Incr, RInv, R!TypeOK
  <2>2. CASE s = R!Used /\ k # RKey
    BY <1>1, <2>2 DEF R!Incr, RInv, R!TypeOK
  <2> QED BY <2>1, <2>2
<1>4. ours /\ ~R!OverLimit(R!NextCount(k)) => (IF now > e THEN 1 ELSE c + 1) <= Quota
  BY <1>1 DEF R!OverLimit, R!NextCount, R!Expired
<1>5. /\ R!AdmittedBy(s) \subseteq R!Request /\ R!AdmittedBy(s)' \subseteq R!Request
      /\ \A q \in R!Request : decided[q] \in Int /\ decided'[q] \in Int
  BY DEF R!AdmittedBy, RInv, R!TypeOK
<1>6. \A q \in R!AdmittedBy(s) : decided[q] <= now /\ decided[q] + Window <= e
  BY <1>1 DEF RStoreInv
<1> HIDE DEF ours, c, e
<1>7. \A q \in R!AdmittedBy(s)' : decided'[q] <= now /\ decided'[q] + Window <= expiry'[s][RKey]
  <2> TAKE q \in R!AdmittedBy(s)'
  <2>1. CASE q \in R!AdmittedBy(s) /\ decided'[q] = decided[q]
    BY <2>1, <1>1, <1>2, <1>3, <1>5, <1>6
  <2>2. CASE ours /\ decided'[q] = now
    BY <2>2, <1>1, <1>2
  <2> QED BY <2>1, <2>2 DEF ours
<1>8. ASSUME NEW i \in Int, i + Window > now
      PROVE  Cardinality(RSince(s, i)') <= count'[s][RKey]
  <2> DEFINE old == RSince(s, i)
             new == RSince(s, i)'
  <2>1. /\ old \subseteq R!Request /\ new \subseteq R!Request
        /\ new \subseteq old \cup {r} /\ (~ours => new \subseteq old)
        /\ now > e => old = {}
    <3>1. old \subseteq R!Request /\ new \subseteq R!Request
      BY <1>5 DEF RSince
    <3>2. new \subseteq old \cup {r} /\ (~ours => new \subseteq old)
      BY DEF RSince, ours
    <3>3. now > e => old = {}
      <4> SUFFICES ASSUME now > e, NEW q \in old PROVE FALSE
        OBVIOUS
      <4>1. q \in R!AdmittedBy(s) /\ decided[q] >= i /\ decided[q] \in Int
        BY <1>5 DEF RSince
      <4> QED BY <4>1, <1>1, <1>6, <1>8
    <3> QED BY <3>1, <3>2, <3>3
  <2>2. Cardinality(old) <= c
    BY <1>1, <1>8 DEF RStoreInv, c
  <2> HIDE DEF old, new
  <2>3. /\ IsFiniteSet(old) /\ Cardinality(old) \in Nat
        /\ IsFiniteSet(new) /\ Cardinality(new) \in Nat
    BY <2>1, RSets
  <2>4. IsFiniteSet(old \cup {r}) /\ Cardinality(old \cup {r}) <= Cardinality(old) + 1
    <3>1. IsFiniteSet(old \cup {r})
      BY <2>3, FS_AddElement
    <3>2. CASE r \in old
      <4>1. old \cup {r} = old
        BY <3>2
      <4>2. \A n \in Nat : n <= n + 1
        OBVIOUS
      <4> QED BY <4>1, <4>2, <2>3, Zenon
    <3>3. CASE r \notin old
      <4>1. Cardinality(old \cup {r}) = Cardinality(old) + 1
        BY <2>3, <3>3, FS_AddElement
      <4>2. Cardinality(old) + 1 <= Cardinality(old) + 1
        BY <2>3
      <4> QED BY <4>1, <4>2, <3>1, Zenon
    <3> QED BY <3>2, <3>3
  <2>5. Cardinality(old \cup {r}) \in Nat /\ Cardinality(new) <= Cardinality(old \cup {r})
        /\ (~ours => Cardinality(new) <= Cardinality(old))
        /\ (now > e => Cardinality(old) = 0)
    BY <2>1, <2>3, <2>4, FS_Subset, FS_CardinalityType, FS_EmptySet
  <2>6. CASE ours
    BY <2>2, <2>3, <2>4, <2>5, <2>6, <1>1, <1>2 DEF new, c, e
  <2>7. CASE ~ours
    BY <2>2, <2>3, <2>5, <2>7, <1>1, <1>3 DEF new, c, e
  <2> QED BY <2>6, <2>7
<1>9. ASSUME NEW i \in Int
      PROVE  Cardinality(RWithin(s, i)') <= Quota
  <2> DEFINE new == RWithin(s, i)'
  <2>1. CASE new \subseteq RWithin(s, i)
    <3>1. IsFiniteSet(RWithin(s, i)) /\ Cardinality(RWithin(s, i)) <= Quota
      BY <1>1, <1>5, RSets DEF RStoreInv, RWithin
    <3>2. Cardinality(new) <= Cardinality(RWithin(s, i))
      BY <2>1, <3>1, FS_Subset
    <3>3. Cardinality(RWithin(s, i)) \in Nat /\ Cardinality(new) \in Nat
      BY <1>5, RSets DEF RWithin
    <3> QED BY <3>1, <3>2, <3>3
  <2>2. CASE ~(new \subseteq RWithin(s, i))
    <3>1. PICK q \in new : q \notin RWithin(s, i)
      BY <2>2
    <3>2. q \in R!AdmittedBy(s)' /\ i <= decided'[q] /\ decided'[q] < i + Window
      BY <3>1 DEF RWithin, R!During
    <3>3. ~(q \in R!AdmittedBy(s) /\ decided'[q] = decided[q])
      BY <3>1, <3>2 DEF RWithin, R!During
    <3>4. ours /\ ~R!OverLimit(R!NextCount(k)) /\ decided'[q] = now
      BY <3>2, <3>3 DEF ours
    <3>5. i + Window > now
      BY <3>2, <3>4, <1>1
    <3>6. Cardinality(RSince(s, i)') <= count'[s][RKey]
      BY <3>5, <1>8
    <3>7. new \subseteq RSince(s, i)' /\ RSince(s, i)' \subseteq R!Request
      BY <1>5 DEF RWithin, RSince, R!During
    <3>8. Cardinality(new) <= Cardinality(RSince(s, i)')
      BY <3>7, RSets, FS_Subset
    <3>9. Cardinality(RSince(s, i)') \in Nat /\ Cardinality(new) \in Nat
      BY <3>7, RSets
    <3>10. count'[s][RKey] <= Quota /\ count'[s][RKey] \in Nat
      BY <3>4, <1>1, <1>2, <1>4
    <3> HIDE DEF new
    <3> QED BY <3>6, <3>8, <3>9, <3>10 DEF new
  <2> QED BY <2>1, <2>2
<1> QED BY <1>7, <1>8, <1>9 DEF RStoreInv

LEMMA RTypeStep == ASSUME RInv, R!Next PROVE R!TypeOK'
<1> USE RConstants DEF R!TypeOK
<1>1. RInv /\ R!Used \in R!Store
  BY DEF R!Used, R!Store
<1>2. ASSUME NEW k \in R!Key, R!Incr(k)
      PROVE  count' \in [R!Store -> [R!Key -> Nat]] /\ expiry' \in [R!Store -> [R!Key -> Int]]
  <2>1. R!NextCount(k) \in Nat
    BY <1>1 DEF RInv, R!NextCount
  <2>2. now + Window \in Int
    BY DEF RInv
  <2> QED BY <1>1, <1>2, <2>1, <2>2 DEF RInv, R!Incr
<1>3. ASSUME NEW r \in R!Request, R!CountPath(r) PROVE R!TypeOK'
  <2>1. PICK p \in Path, forged \in Forged : \E h \in R!Headers(forged) :
           /\ address' = [address EXCEPT ![r] = R!RealIp(h[1], h[2])]
           /\ R!Incr(<<R!RealIp(h[1], h[2]), p>>)
           /\ \E s \in {"refused", "address"} : R!Proceed(r, s)
           /\ decided' \in {decided, [decided EXCEPT ![r] = now]}
           /\ UNCHANGED <<now, up, flips, counted>>
    BY <1>3, Zenon DEF R!CountPath
  <2>2. /\ address' = [address EXCEPT ![r] = R!Client]
        /\ R!Incr(<<R!Client, p>>)
        /\ \E s \in {"refused", "address"} : R!Proceed(r, s)
        /\ decided' \in {decided, [decided EXCEPT ![r] = now]}
        /\ UNCHANGED <<now, up, flips, counted>>
    BY <2>1, RClient
  <2>3. R!Client \in R!Address /\ <<R!Client, p>> \in R!Key
    BY DEF R!Address, R!Key
  <2>4. count' \in [R!Store -> [R!Key -> Nat]] /\ expiry' \in [R!Store -> [R!Key -> Int]]
    BY <2>2, <2>3, <1>2
  <2> QED BY <2>2, <2>3, <2>4 DEF RInv, R!Proceed
<1>4. ASSUME NEW r \in R!Request, R!CountAddress(r) PROVE R!TypeOK'
  <2>1. <<address[r], R!All>> \in R!Key
    BY DEF RInv, R!Key
  <2>2. count' \in [R!Store -> [R!Key -> Nat]] /\ expiry' \in [R!Store -> [R!Key -> Int]]
    BY <2>1, <1>2, <1>4 DEF R!CountAddress
  <2> QED BY <1>1, <1>4, <2>2 DEF RInv, R!CountAddress, R!Proceed
<1>5. ASSUME NEW r \in R!Request, R!Pass(r) PROVE R!TypeOK'
  BY <1>5 DEF RInv, R!Pass, R!Proceed
<1>6. CASE R!Tick
  BY <1>6 DEF RInv, R!Tick
<1>7. CASE R!Flip
  BY <1>7 DEF RInv, R!Flip
<1> QED BY <1>3, <1>4, <1>5, <1>6, <1>7 DEF R!Next

\* A step that counts nothing leaves what was admitted; time makes "recent" less.
LEMMA RQuietInv ==
    ASSUME RInv, R!TypeOK', NEW s \in R!Store, R!AdmittedBy(s)' = R!AdmittedBy(s),
           decided' = decided, count' = count, expiry' = expiry, now' \in {now, now + 1}
    PROVE  RStoreInv(s)'
<1>1. /\ RStoreInv(s) /\ now \in Nat
      /\ R!AdmittedBy(s) \subseteq R!Request
      /\ \A q \in R!Request : decided[q] \in Int
  BY RConstants DEF RInv, R!TypeOK, R!AdmittedBy
<1>2. \A i : RSince(s, i)' = RSince(s, i) /\ RWithin(s, i)' = RWithin(s, i)
  BY DEF RSince, RWithin, R!During
<1>3. \A q \in R!AdmittedBy(s)' :
         decided'[q] <= now' /\ decided'[q] + Window <= expiry'[s][RKey]
  BY <1>1 DEF RStoreInv
<1>4. \A i \in Int : i + Window > now' => i + Window > now
  BY <1>1, RConstants
<1> QED BY <1>1, <1>2, <1>3, <1>4 DEF RStoreInv

LEMMA RStepInv == RInv /\ [R!Next]_(R!vars) => RInv'
<1> SUFFICES ASSUME RInv, [R!Next]_(R!vars) PROVE RInv'
  OBVIOUS
<1>1. CASE UNCHANGED R!vars
  <2>1. R!TypeOK' /\ \A s : R!AdmittedBy(s)' = R!AdmittedBy(s)
    BY <1>1 DEF RInv, R!TypeOK, R!vars, R!AdmittedBy
  <2>2. \A s \in R!Store : RStoreInv(s)'
    BY <1>1, <2>1, RQuietInv DEF R!vars
  <2> QED BY <1>1, <2>1, <2>2 DEF RInv, R!vars
<1> SUFFICES ASSUME R!Next PROVE RInv'
  BY <1>1
<1>2. R!TypeOK'
  BY RTypeStep
<1>3. CASE R!Tick \/ R!Flip
  <2>1. \A s : R!AdmittedBy(s)' = R!AdmittedBy(s)
    BY <1>3 DEF R!AdmittedBy, R!Tick, R!Flip
  <2>2. \A s \in R!Store : RStoreInv(s)'
    BY <1>2, <1>3, <2>1, RQuietInv DEF R!Tick, R!Flip
  <2>3. flips' = 0 => flips = 0 /\ up' = up
    BY <1>2, <1>3 DEF R!Tick, R!Flip, RInv, R!TypeOK
  <2> QED BY <1>2, <1>3, <2>1, <2>2, <2>3 DEF RInv, R!Tick, R!Flip
<1>4. ASSUME NEW r \in R!Request, R!Pass(r) PROVE RInv'
  <2>1. /\ \A s : R!AdmittedBy(s)' = R!AdmittedBy(s)
        /\ \A q \in R!Request : step'[q] = "address" => step[q] = "address"
    BY <1>4 DEF R!AdmittedBy, R!Pass, R!Arrives, R!Proceed, RInv, R!TypeOK
  <2>2. \A s \in R!Store : RStoreInv(s)'
    BY <1>2, <1>4, <2>1, RQuietInv DEF R!Pass
  <2> QED BY <1>2, <1>4, <2>1, <2>2 DEF RInv, R!Pass
<1>5. ASSUME NEW r \in R!Request, R!CountPath(r) PROVE RInv'
  <2>1. PICK p \in Path, forged \in Forged : \E h \in R!Headers(forged) :
           /\ R!Arrives(r)
           /\ address' = [address EXCEPT ![r] = R!RealIp(h[1], h[2])]
           /\ R!Incr(<<R!RealIp(h[1], h[2]), p>>)
           /\ \E s \in {"refused", "address"} : R!Proceed(r, s)
           /\ decided' \in {decided, [decided EXCEPT ![r] = now]}
           /\ UNCHANGED <<now, up, flips, counted>>
    BY <1>5, Zenon DEF R!CountPath
  <2>2. /\ R!Arrives(r)
        /\ address' = [address EXCEPT ![r] = R!Client]
        /\ R!Incr(<<R!Client, p>>)
        /\ \E s \in {"refused", "address"} : R!Proceed(r, s)
        /\ decided' \in {decided, [decided EXCEPT ![r] = now]}
        /\ UNCHANGED <<now, up, flips, counted>>
    BY <2>1, RClient
  <2>3. /\ \A s : R!AdmittedBy(s)' = R!AdmittedBy(s)
        /\ \A q \in R!Request : q # r => decided'[q] = decided[q]
        /\ \A s : r \notin R!AdmittedBy(s)
    BY <2>2 DEF R!AdmittedBy, R!Arrives, R!Proceed, RInv, R!TypeOK
  <2>4. <<R!Client, p>> \in R!Key
    BY DEF R!Address, R!Key
  <2>5. \A s \in R!Store : RStoreInv(s)'
    <3> TAKE s \in R!Store
    <3>1. \A q \in R!AdmittedBy(s)' : q \in R!AdmittedBy(s) /\ decided'[q] = decided[q]
      BY <2>3 DEF R!AdmittedBy
    <3> QED BY <1>2, <2>2, <2>4, <3>1, RIncrInv
  <2>6. \A q \in R!Request : step'[q] = "address" => address'[q] = R!Client
    BY <2>2 DEF RInv, R!TypeOK, R!Proceed
  <2> QED BY <1>2, <2>2, <2>3, <2>5, <2>6 DEF RInv
<1>6. ASSUME NEW r \in R!Request, R!CountAddress(r) PROVE RInv'
  <2>1. /\ address[r] = R!Client /\ step[r] = "address" /\ R!Incr(RKey) /\ RKey \in R!Key
        /\ \A s : r \notin R!AdmittedBy(s)
    BY <1>6 DEF R!CountAddress, RInv, RKey, R!Key, R!Address, R!AdmittedBy
  <2>2. R!Proceed(r, IF R!OverLimit(R!NextCount(RKey)) THEN "refused" ELSE "admitted")
    BY <1>6, <2>1 DEF R!CountAddress, RKey
  <2>3. \A s : \A q \in R!AdmittedBy(s)' :
           \/ q \in R!AdmittedBy(s) /\ decided'[q] = decided[q]
           \/ /\ q = r /\ s = R!Used /\ decided'[q] = now
              /\ ~R!OverLimit(R!NextCount(RKey))
    BY <1>6, <2>2 DEF R!CountAddress, R!AdmittedBy, R!Proceed, RInv, R!TypeOK
  <2>4. \A s \in R!Store : RStoreInv(s)'
    <3> TAKE s \in R!Store
    <3> QED BY <1>2, <1>6, <2>1, <2>3, RIncrInv DEF R!CountAddress
  <2>5. \A q \in R!Request : step'[q] = "address" => step[q] = "address"
    BY <2>2 DEF R!Proceed, RInv, R!TypeOK
  <2>6. flips' = 0 => up' /\ R!AdmittedBy("memory")' = {}
    BY <1>6, <2>3 DEF R!CountAddress, RInv, R!Used
  <2> QED BY <1>2, <1>6, <2>4, <2>5, <2>6 DEF RInv, R!CountAddress
<1> QED BY <1>3, <1>4, <1>5, <1>6 DEF R!Next

\* No window of time, wherever it begins, sees a store admit more than the limit, for any
\* number of requests, paths and forged headers; and the memory admits nobody while Redis
\* has always been there (rate_limit.py:55-95, common.py:167-181).
THEOREM RateBoundsAdmitted == R!Spec => [](R!TypeOK /\ R!AdmittedBounded)
<1>1. RInv => R!TypeOK /\ R!AdmittedBounded
  <2> SUFFICES ASSUME RInv PROVE R!AdmittedBounded
    BY DEF RInv
  <2>1. \A s \in R!Store : \A i \in 0..now : Cardinality(RWithin(s, i)) <= Quota
    BY RConstants DEF RInv, RStoreInv, R!TypeOK
  <2> QED BY <2>1, RFinite DEF R!AdmittedBounded, RInv, RWithin
<1> QED BY <1>1, RInitInv, RStepInv, PTL DEF R!Spec
-----------------------------------------------------------------------------
(* The executor.  A permit is free or held; a task in the pool holds one,   *)
(* or is one of those whose submission raised after they were queued.       *)

LEMMA AFinite ==
    \A X : A!Cardinality(X) = Cardinality(X) /\ (A!IsFiniteSet(X) <=> IsFiniteSet(X))
BY DEF A!Cardinality, Cardinality, A!IsFiniteSet, IsFiniteSet

LEMMA AConstants ==
    /\ IsFiniteSet(Task) /\ Command \subseteq Task /\ Keeper \subseteq Command
    /\ MaxWorkers \in Nat \ {0} /\ MaxPending \in Nat /\ MaxFailures \in Nat
    /\ A!Limit \in Nat
BY ServicesAssumption, AFinite DEF ServicesAssumption, A!PoolAssumption, A!Limit

ATypes ==
    /\ permits \in Nat
    /\ caller \in [Task -> {"new", "acquired", "rejected", "enqueued", "raised", "returned"}]
    /\ work \in [Task -> {"none", "queued", "done"} \cup A!Busy]
    /\ watched \subseteq Task
    /\ threads \in 0..MaxWorkers /\ closed \in BOOLEAN /\ failures \in 0..MaxFailures

\* Nothing runs before it was queued, and the callback is there once submit() returned.
AFlow ==
    /\ \A t \in Task : caller[t] \in {"new", "acquired", "rejected"} => work[t] = "none"
    /\ watched = {t \in Task : caller[t] = "returned"}

AStrays == {t \in Task : caller[t] = "raised" /\ work[t] # "none"}
ACounts ==
    /\ permits + Cardinality(A!Holding) = A!Limit
    /\ Cardinality(AStrays) <= failures
AInv == ATypes /\ AFlow /\ ACounts

LEMMA ASets ==
    ASSUME NEW Z, Z \subseteq Task
    PROVE  IsFiniteSet(Z) /\ Cardinality(Z) \in Nat
BY AConstants, FS_Subset, FS_CardinalityType

LEMMA ASubsets == A!Holding \subseteq Task /\ AStrays \subseteq Task /\ A!InPool \subseteq Task
BY DEF A!Holding, AStrays, A!InPool

LEMMA AInitInv == A!Init => AInv
<1> SUFFICES ASSUME A!Init PROVE AInv
  OBVIOUS
<1>1. A!Holding = {} /\ AStrays = {}
  BY DEF A!Init, A!Holding, AStrays
<1>2. ATypes /\ AFlow
  <2>1. permits \in Nat /\ threads \in 0..MaxWorkers /\ failures \in 0..MaxFailures
    BY AConstants DEF A!Init
  <2>2. AFlow
    BY DEF A!Init, AFlow
  <2> QED BY <2>1, <2>2 DEF A!Init, ATypes
<1>3. Cardinality({}) = 0
  BY FS_EmptySet
<1>4. permits = A!Limit /\ failures = 0
  BY DEF A!Init
<1> QED BY <1>1, <1>2, <1>3, <1>4, AConstants DEF AInv, ACounts

LEMMA AKeepCounts ==
    ASSUME AInv, permits' = permits, failures' = failures,
           A!Holding' = A!Holding, AStrays' = AStrays
    PROVE  ACounts'
BY DEF AInv, ACounts, A!Limit

LEMMA ATakeCounts ==
    ASSUME AInv, NEW t \in Task, t \notin A!Holding, A!Holding' = A!Holding \cup {t},
           permits > 0, permits' = permits - 1, failures' = failures, AStrays' = AStrays
    PROVE  ACounts'
<1>1. IsFiniteSet(A!Holding) /\ Cardinality(A!Holding) \in Nat
  BY ASets, ASubsets
<1>2. Cardinality(A!Holding') = Cardinality(A!Holding) + 1
  BY <1>1, FS_AddElement
<1>3. permits \in Nat /\ permits + Cardinality(A!Holding) = A!Limit
  BY DEF AInv, ATypes, ACounts
<1>4. (permits - 1) + (Cardinality(A!Holding) + 1) = A!Limit
  BY <1>1, <1>3, AConstants
<1>5. permits' + Cardinality(A!Holding') = A!Limit'
  BY <1>2, <1>4 DEF A!Limit
<1> QED BY <1>5 DEF AInv, ACounts

LEMMA AGiveCounts ==
    ASSUME AInv, NEW t \in A!Holding, A!Holding' = A!Holding \ {t}, permits' = permits + 1,
           \/ AStrays' = AStrays /\ failures' = failures
           \/ AStrays' = AStrays \cup {t} /\ failures' = failures + 1
    PROVE  ACounts'
<1>1. /\ IsFiniteSet(A!Holding) /\ Cardinality(A!Holding) \in Nat
      /\ IsFiniteSet(AStrays) /\ Cardinality(AStrays) \in Nat
  BY ASets, ASubsets
<1>2. Cardinality(A!Holding') = Cardinality(A!Holding) - 1
  BY <1>1, FS_RemoveElement
<1>3. /\ permits \in Nat /\ permits + Cardinality(A!Holding) = A!Limit
      /\ failures \in Nat /\ Cardinality(AStrays) <= failures
  BY AConstants DEF AInv, ATypes, ACounts
<1>4. (permits + 1) + (Cardinality(A!Holding) - 1) = A!Limit
  BY <1>1, <1>3, AConstants
<1>5. permits' + Cardinality(A!Holding') = A!Limit'
  BY <1>2, <1>4 DEF A!Limit
<1>6. CASE AStrays' = AStrays /\ failures' = failures
  BY <1>3, <1>5, <1>6 DEF ACounts
<1>7. CASE AStrays' = AStrays \cup {t} /\ failures' = failures + 1
  <2>1. \/ Cardinality(AStrays \cup {t}) = Cardinality(AStrays)
        \/ Cardinality(AStrays \cup {t}) = Cardinality(AStrays) + 1
    BY <1>1, FS_AddElement
  <2>2. Cardinality(AStrays \cup {t}) <= failures + 1
    BY <1>1, <1>3, <2>1
  <2> QED BY <1>5, <1>7, <2>2 DEF ACounts
<1> QED BY <1>6, <1>7

\* A step of the task inside the pool, up to the one that ends it.
LEMMA AWorkInv ==
    ASSUME AInv, NEW t \in Task, NEW s \in A!Busy, work[t] \in {"queued"} \cup A!Busy,
           work' = [work EXCEPT ![t] = s],
           UNCHANGED <<permits, caller, watched, threads, closed, failures>>
    PROVE  AInv'
<1> USE DEF AInv
<1>1. ATypes'
  BY DEF ATypes
<1>2. AFlow'
  BY DEF ATypes, AFlow, A!Busy
<1>3. A!Holding' = A!Holding /\ AStrays' = AStrays
  BY DEF ATypes, A!Holding, AStrays, A!Busy
<1> QED BY <1>1, <1>2, <1>3, AKeepCounts

LEMMA ADoneInv ==
    ASSUME AInv, NEW t \in Task, work[t] \in A!Busy, A!Done(t)
    PROVE  AInv'
<1> USE DEF AInv
<1>1. ATypes'
  BY DEF ATypes, A!Done, A!Work
<1>2. AFlow'
  BY DEF ATypes, AFlow, A!Done, A!Work, A!Busy
<1>3. AStrays' = AStrays
  BY DEF ATypes, AStrays, A!Done, A!Work, A!Busy
<1>4. CASE t \in watched
  <2>1. t \in A!Holding /\ A!Holding' = A!Holding \ {t}
    BY <1>4 DEF ATypes, AFlow, A!Holding, A!Done, A!Work, A!Busy
  <2> QED BY <1>1, <1>2, <1>3, <1>4, <2>1, AGiveCounts DEF A!Done
<1>5. CASE t \notin watched
  <2>1. A!Holding' = A!Holding
    BY <1>5 DEF ATypes, AFlow, A!Holding, A!Done, A!Work, A!Busy
  <2> QED BY <1>1, <1>2, <1>3, <1>5, <2>1, AKeepCounts DEF A!Done
<1> QED BY <1>4, <1>5

LEMMA ASubmitInv ==
    ASSUME AInv, NEW t \in Task, A!Acquire(t) \/ A!Reject(t) \/ A!Submit(t)
    PROVE  AInv'
<1> USE AConstants DEF AInv
<1>1. CASE A!Acquire(t)
  <2>1. ATypes' /\ AFlow'
    BY <1>1 DEF ATypes, AFlow, A!Acquire, A!Caller
  <2>2. t \notin A!Holding /\ A!Holding' = A!Holding \cup {t} /\ AStrays' = AStrays
    BY <1>1 DEF ATypes, A!Holding, AStrays, A!Acquire, A!Caller
  <2> QED BY <1>1, <2>1, <2>2, ATakeCounts DEF A!Acquire
<1>2. CASE A!Reject(t)
  <2>1. ATypes' /\ AFlow'
    BY <1>2 DEF ATypes, AFlow, A!Reject, A!Caller
  <2>2. A!Holding' = A!Holding /\ AStrays' = AStrays
    BY <1>2 DEF ATypes, A!Holding, AStrays, A!Reject, A!Caller
  <2> QED BY <1>2, <2>1, <2>2, AKeepCounts DEF A!Reject
<1>3. CASE A!Enqueue(t)
  <2>1. ATypes'
    <3>1. threads' \in 0..MaxWorkers
      BY <1>3 DEF ATypes, A!Enqueue, A!NeedsThread
    <3> QED BY <1>3, <3>1 DEF ATypes, A!Enqueue, A!Caller, A!Work
  <2>2. AFlow'
    BY <1>3 DEF ATypes, AFlow, A!Enqueue, A!Caller, A!Work
  <2>3. A!Holding' = A!Holding /\ AStrays' = AStrays
    BY <1>3 DEF ATypes, A!Holding, AStrays, A!Enqueue, A!Caller, A!Work
  <2> QED BY <1>3, <2>1, <2>2, <2>3, AKeepCounts DEF A!Enqueue
<1>4. CASE A!SubmitRaises(t)
  <2>1. ATypes'
    BY <1>4 DEF ATypes, A!SubmitRaises, A!Caller, A!Work, A!AfterException
  <2>2. AFlow'
    BY <1>4 DEF ATypes, AFlow, A!SubmitRaises, A!Caller, A!Work
  <2>3. t \in A!Holding /\ A!Holding' = A!Holding \ {t} /\ work[t] = "none"
    BY <1>4 DEF ATypes, AFlow, A!Holding, A!SubmitRaises, A!Caller, A!Work
  <2>4. \/ AStrays' = AStrays /\ failures' = failures
        \/ AStrays' = AStrays \cup {t} /\ failures' = failures + 1
    <3>1. CASE UNCHANGED <<work, failures>>
      BY <1>4, <2>3, <3>1 DEF ATypes, AStrays, A!SubmitRaises, A!Caller
    <3>2. CASE failures' = failures + 1 /\ A!Work(t, "queued")
      BY <1>4, <2>3, <3>2 DEF ATypes, AStrays, A!SubmitRaises, A!Caller, A!Work
    <3> QED BY <1>4, <3>1, <3>2 DEF A!SubmitRaises
  <2>5. permits' = permits + 1
    BY <1>4 DEF A!SubmitRaises, A!AfterException
  <2> QED BY <2>1, <2>2, <2>3, <2>4, <2>5, AGiveCounts
<1>5. CASE A!AddDoneCallback(t)
  <2>1. permits' = IF work[t] = "done" THEN permits + 1 ELSE permits
    BY <1>5 DEF A!AddDoneCallback, A!ReleasedAtOnce, ATypes
  <2>2. ATypes'
    BY <1>5, <2>1 DEF ATypes, A!AddDoneCallback, A!Caller
  <2>3. AFlow' /\ AStrays' = AStrays
    BY <1>5 DEF ATypes, AFlow, AStrays, A!AddDoneCallback, A!Caller
  <2>4. CASE work[t] = "done"
    <3>1. t \in A!Holding /\ A!Holding' = A!Holding \ {t}
      BY <1>5, <2>4 DEF ATypes, A!Holding, A!AddDoneCallback, A!Caller
    <3> QED BY <1>5, <2>1, <2>2, <2>3, <2>4, <3>1, AGiveCounts DEF A!AddDoneCallback
  <2>5. CASE work[t] # "done"
    <3>1. A!Holding' = A!Holding
      BY <1>5, <2>5 DEF ATypes, A!Holding, A!AddDoneCallback, A!Caller
    <3> QED BY <1>5, <2>1, <2>2, <2>3, <2>5, <3>1, AKeepCounts DEF A!AddDoneCallback
  <2> QED BY <2>4, <2>5
<1> QED BY <1>1, <1>2, <1>3, <1>4, <1>5 DEF A!Submit

LEMMA AExecuteInv ==
    ASSUME AInv, NEW t \in Task, A!Execute(t)
    PROVE  AInv'
<1>1. CASE A!Run(t) \/ A!Timeout(t)
  BY <1>1, AWorkInv DEF A!Run, A!Timeout, A!Work, A!Busy
<1>2. CASE A!Reap(t) \/ A!CommandEnds(t) \/ A!CallbackRaises(t)
  BY <1>2, AWorkInv DEF A!Reap, A!CommandEnds, A!CallbackRaises, A!Report, A!Work, A!Busy
<1>3. CASE A!FuncEnds(t) \/ A!CallbackReturns(t)
  BY <1>3, ADoneInv DEF A!FuncEnds, A!CallbackReturns, A!Busy
<1> QED BY <1>1, <1>2, <1>3 DEF A!Execute

LEMMA AStepInv == AInv /\ [A!Next]_(A!vars) => AInv'
<1> SUFFICES ASSUME AInv, [A!Next]_(A!vars) PROVE AInv'
  OBVIOUS
<1>1. CASE UNCHANGED A!vars \/ A!Shutdown
  <2>1. ATypes' /\ AFlow' /\ A!Holding' = A!Holding /\ AStrays' = AStrays
    BY <1>1 DEF AInv, ATypes, AFlow, A!Holding, AStrays, A!vars, A!Shutdown
  <2> QED BY <1>1, <2>1, AKeepCounts DEF AInv, A!vars, A!Shutdown
<1> QED BY <1>1, ASubmitInv, AExecuteInv DEF A!Next

\* Every permit is free or with one task, over exceptions of submit(), shutdown and tasks
\* done before their callback, and the pool exceeds its limit only by the tasks whose
\* thread could not be started, for any number of tasks (async_task_util.py:101-124).
THEOREM PoolConservesPermits == A!Spec => [](A!TypeOK /\ A!PermitsConserved)
<1>1. AInv => A!TypeOK /\ A!PermitsConserved
  <2> SUFFICES ASSUME AInv PROVE A!TypeOK /\ A!PermitsConserved
    OBVIOUS
  <2>1. /\ IsFiniteSet(A!Holding) /\ Cardinality(A!Holding) \in Nat
        /\ IsFiniteSet(AStrays) /\ Cardinality(AStrays) \in Nat
        /\ Cardinality(A!InPool) \in Nat
    BY ASets, ASubsets
  <2>2. /\ permits \in Nat /\ permits + Cardinality(A!Holding) = A!Limit
        /\ failures \in Nat /\ Cardinality(AStrays) <= failures
    BY AConstants DEF AInv, ATypes, ACounts
  <2>3. A!InPool \subseteq A!Holding \cup AStrays
    BY DEF AInv, ATypes, AFlow, A!InPool, A!Holding, AStrays, A!Busy
  <2>4. /\ IsFiniteSet(A!Holding \cup AStrays)
        /\ Cardinality(A!Holding \cup AStrays) = Cardinality(A!Holding) + Cardinality(AStrays)
                                                 - Cardinality(A!Holding \cap AStrays)
    BY <2>1, FS_Union
  <2>5. /\ Cardinality(A!InPool) <= Cardinality(A!Holding \cup AStrays)
        /\ Cardinality(A!Holding \cap AStrays) \in Nat
        /\ Cardinality(A!Holding \cup AStrays) \in Nat
    BY <2>3, <2>4, FS_Subset, FS_CardinalityType, ASets, ASubsets
  <2>6. Cardinality(A!InPool) <= A!Limit + failures
    BY <2>1, <2>2, <2>4, <2>5, AConstants
  <2>7. permits \in 0..A!Limit
    BY <2>1, <2>2, AConstants
  <2>8. A!TypeOK
    BY <2>7 DEF AInv, ATypes, A!TypeOK
  <2> QED BY <2>2, <2>6, <2>8, AFinite DEF A!PermitsConserved
<1> QED BY <1>1, AInitInv, AStepInv, PTL DEF A!Spec
-----------------------------------------------------------------------------
(* The user store.  A call that is not early found a store that nobody is   *)
(* about to replace, and works on that one.                                 *)

LEMMA UFinite ==
    \A X : U!Cardinality(X) = Cardinality(X) /\ (U!IsFiniteSet(X) <=> IsFiniteSet(X))
BY DEF U!Cardinality, Cardinality, U!IsFiniteSet, IsFiniteSet

LEMMA UConstants ==
    /\ IsFiniteSet(UserCall) /\ LoginCall \subseteq UserCall /\ NameOf \in [UserCall -> Name]
    /\ MaxFaults \in Nat /\ Cardinality(UserCall) \in Nat /\ U!Store = 0..Cardinality(UserCall)
    /\ U!Missing \in U!Store
BY ServicesAssumption, UFinite, FS_CardinalityType
   DEF ServicesAssumption, U!StoreAssumption, U!Store, U!Missing

UTypes ==
    /\ sql \in BOOLEAN
    /\ store \in U!Store
    /\ users \in [U!Store -> SUBSET Name]
    /\ phase \in [UserCall -> {"new", "make", "get", "got", "create", "select", "commit", "lookup",
                           "done"}]
    /\ held \in [UserCall -> U!Store]
    /\ faults \in 0..MaxFaults
    /\ result \in [UserCall -> {"none", "registered", "duplicate", "raised", "found", "unknown"}]
    /\ early \subseteq UserCall

UPast == {c \in UserCall : phase[c] \notin {"new", "make"}}
UMade == made = store /\ made \in Nat /\ made <= Cardinality(UPast)
UStable == store # U!Missing /\ \A c \in UserCall : phase[c] # "make"
UFlow ==
    \A c \in UserCall :
      /\ phase[c] \in {"select", "commit"} => sql
      /\ phase[c] = "create" => ~sql
      /\ result[c] = "registered" => phase[c] = "done"
      /\ c \notin early /\ phase[c] # "new" =>
           /\ UStable /\ phase[c] \notin {"make", "got"}
           /\ phase[c] # "get" => held[c] = store
UInv == UTypes /\ UMade /\ UFlow /\ U!OneOwner

LEMMA UInitInv == U!Init => UInv
<1> SUFFICES ASSUME U!Init PROVE UInv
  OBVIOUS
<1> USE DEF U!Init
<1>1. UTypes
  BY UConstants DEF UTypes, U!Missing
<1>2. UPast = {}
  BY DEF UPast
<1>3. UMade
  BY <1>2, FS_EmptySet DEF UMade, U!Missing
<1>4. UFlow /\ U!OneOwner
  BY DEF UFlow, U!OneOwner, U!Safe
<1> QED BY <1>1, <1>3, <1>4 DEF UInv

LEMMA UPastGrows ==
    ASSUME UPast \subseteq UPast', made' = made, store' = store, UMade
    PROVE  UMade'
<1>1. IsFiniteSet(UPast') /\ UPast' \subseteq UserCall
  BY UConstants, FS_Subset DEF UPast
<1>2. Cardinality(UPast) <= Cardinality(UPast')
  BY <1>1, FS_Subset
<1>3. Cardinality(UPast) \in Nat /\ Cardinality(UPast') \in Nat
  BY <1>1, FS_Subset, FS_CardinalityType
<1>4. \A x, y, z \in Nat : x <= y /\ y <= z => x <= z
  OBVIOUS
<1> QED BY <1>2, <1>3, <1>4, Zenon DEF UMade

LEMMA UTypeStep ==
    ASSUME UInv, NEW c \in UserCall, 
           \/ U!Begin(c) \/ U!GetStore(c) \/ U!CreateInMemory(c) \/ U!Select(c)
           \/ U!Commit(c) \/ U!CommitConflicts(c) \/ U!CommitFails(c) \/ U!Lookup(c)
    PROVE  UTypes' /\ UMade'
<1> USE UConstants DEF UInv, UTypes, U!Proceed, U!Returns
<1>1. U!Place(c) \in U!Store /\ NameOf[c] \in Name
  BY DEF U!Place, U!Missing
<1>2. ASSUME U!Add(c) PROVE users' \in [U!Store -> SUBSET Name]
  BY <1>1, <1>2 DEF U!Add
<1>3. CASE U!Begin(c)
  <2>1. UTypes'
    BY <1>3 DEF U!Begin
  <2>2. UPast \subseteq UPast'
    BY <1>3 DEF U!Begin, UPast
  <2> QED BY <1>3, <2>1, <2>2, UPastGrows DEF U!Begin
<1>4. CASE U!GetStore(c)
  <2>1. UTypes'
    BY <1>4 DEF U!GetStore
  <2>2. UPast \subseteq UPast'
    BY <1>4 DEF U!GetStore, UPast
  <2> QED BY <1>4, <2>1, <2>2, UPastGrows DEF U!GetStore
<1>5. CASE U!CreateInMemory(c)
  <2>1. UTypes'
    BY <1>2, <1>5 DEF U!CreateInMemory
  <2>2. UPast \subseteq UPast'
    BY <1>5 DEF U!CreateInMemory, UPast
  <2> QED BY <1>5, <2>1, <2>2, UPastGrows DEF U!CreateInMemory
<1>6. CASE U!Select(c)
  <2>1. UTypes'
    BY <1>6 DEF U!Select
  <2>2. UPast \subseteq UPast'
    BY <1>6 DEF U!Select, UPast
  <2> QED BY <1>6, <2>1, <2>2, UPastGrows DEF U!Select
<1>7. CASE U!Commit(c) \/ U!CommitConflicts(c) \/ U!CommitFails(c)
  <2>1. ASSUME U!Commit(c) PROVE UTypes'
    BY <1>2, <2>1 DEF U!Commit
  <2>2. ASSUME U!CommitConflicts(c) PROVE UTypes'
    BY <1>2, <2>2 DEF U!CommitConflicts
  <2>3. ASSUME U!CommitFails(c) PROVE UTypes'
    BY <1>2, <2>3 DEF U!CommitFails
  <2>4. UPast \subseteq UPast'
    BY <1>7 DEF U!Commit, U!CommitConflicts, U!CommitFails, UPast
  <2> QED BY <1>7, <2>1, <2>2, <2>3, <2>4, UPastGrows DEF U!Commit, U!CommitConflicts, U!CommitFails
<1>8. CASE U!Lookup(c)
  <2>1. UTypes'
    BY <1>8 DEF U!Lookup
  <2>2. UPast \subseteq UPast'
    BY <1>8 DEF U!Lookup, UPast
  <2> QED BY <1>8, <2>1, <2>2, UPastGrows DEF U!Lookup
<1> QED BY <1>3, <1>4, <1>5, <1>6, <1>7, <1>8

\* A store more, by a call more that is past its making.
LEMMA UMakeStep ==
    ASSUME UInv, NEW c \in UserCall, U!MakeStore(c)
    PROVE  UTypes' /\ UMade'
<1> USE UConstants DEF UInv
<1>1. UPast' = UPast \cup {c} /\ c \notin UPast /\ UPast' \subseteq UserCall
  BY DEF UPast, UTypes, U!MakeStore, U!Proceed
<1>2. IsFiniteSet(UPast) /\ Cardinality(UPast) \in Nat /\ IsFiniteSet(UPast')
  BY <1>1, FS_Subset, FS_CardinalityType DEF UPast
<1>3. Cardinality(UPast') = Cardinality(UPast) + 1
  BY <1>1, <1>2, FS_AddElement
<1>4. Cardinality(UPast') <= Cardinality(UserCall)
  BY <1>1, FS_Subset
<1>5. made + 1 <= Cardinality(UPast) + 1 /\ made \in Nat
  BY <1>2 DEF UMade
<1>6. UMade'
  BY <1>3, <1>5 DEF UMade, U!MakeStore
<1>7. store' \in 0..Cardinality(UserCall)
  BY <1>2, <1>3, <1>4, <1>5 DEF U!MakeStore
<1>8. UTypes'
  BY <1>7 DEF UTypes, U!MakeStore, U!Proceed
<1> QED BY <1>6, <1>8

\* A call finds its store, made and not about to be replaced, or is early.
LEMMA UBeginFlow ==
    ASSUME UInv, NEW c \in UserCall, U!Begin(c) \/ U!MakeStore(c) \/ U!GetStore(c)
    PROVE  UFlow'
<1> USE DEF UInv, UTypes, U!Proceed
<1>1. CASE U!Begin(c)
  <2>1. /\ store' = store /\ held' = held /\ result' = result /\ sql' = sql
        /\ phase' = [phase EXCEPT ![c] = IF store = U!Missing THEN "make" ELSE "get"]
        /\ phase[c] = "new"
        /\ U!Making => early' = early \cup {c}
        /\ ~U!Making => early' = early
    BY <1>1 DEF U!Begin
  <2>2. UStable <=> ~U!Making
    BY DEF UStable, U!Making
  <2>3. UStable => UStable' /\ phase'[c] = "get"
    BY <2>1 DEF UStable
  <2> SUFFICES ASSUME NEW d \in UserCall
               PROVE  /\ phase'[d] \in {"select", "commit"} => sql
                      /\ phase'[d] = "create" => ~sql
                      /\ result[d] = "registered" => phase'[d] = "done"
                      /\ d \notin early' /\ phase'[d] # "new" =>
                           /\ UStable' /\ phase'[d] \notin {"make", "got"}
                           /\ phase'[d] # "get" => held[d] = store
    BY <2>1 DEF UFlow
  <2>4. CASE d = c
    BY <2>1, <2>2, <2>3, <2>4 DEF UFlow
  <2>5. CASE d # c
    BY <2>1, <2>3, <2>5 DEF UFlow
  <2> QED BY <2>4, <2>5
<1>2. CASE U!MakeStore(c)
  <2>1. /\ phase[c] = "make" /\ phase' = [phase EXCEPT ![c] = "got"]
        /\ held' = held /\ result' = result /\ sql' = sql /\ early' = early
    BY <1>2 DEF U!MakeStore
  <2>2. ~UStable
    BY <2>1 DEF UStable
  <2>3. \A d \in UserCall : d \in early \/ phase[d] = "new"
    BY <2>2 DEF UFlow
  <2> SUFFICES ASSUME NEW d \in UserCall
               PROVE  /\ phase'[d] \in {"select", "commit"} => sql
                      /\ phase'[d] = "create" => ~sql
                      /\ result[d] = "registered" => phase'[d] = "done"
                      /\ d \notin early => phase'[d] = "new"
    BY <2>1 DEF UFlow
  <2>4. CASE d = c
    BY <2>1, <2>3, <2>4 DEF UFlow
  <2>5. CASE d # c
    BY <2>1, <2>3, <2>5 DEF UFlow
  <2> QED BY <2>4, <2>5
<1>3. CASE U!GetStore(c)
  <2>1. /\ phase[c] \in {"get", "got"} /\ held' = [held EXCEPT ![c] = store]
        /\ phase' = [phase EXCEPT ![c] = IF c \in LoginCall THEN "lookup"
                                         ELSE IF sql THEN "select" ELSE "create"]
        /\ store' = store /\ result' = result /\ sql' = sql /\ early' = early
    BY <1>3 DEF U!GetStore
  <2>2. UStable => UStable'
    BY <2>1 DEF UStable
  <2>3. ASSUME NEW d \in UserCall, d # c
        PROVE  /\ phase'[d] = phase[d] /\ held'[d] = held[d]
    BY <2>1, <2>3
  <2>4. /\ phase'[c] \notin {"new", "make", "got", "get"} /\ held'[c] = store
        /\ phase'[c] \in {"select", "commit"} => sql
        /\ phase'[c] = "create" => ~sql
        /\ phase'[c] # "done" /\ result[c] # "registered"
        /\ c \notin early => UStable
    BY <2>1 DEF UFlow
  <2> SUFFICES ASSUME NEW d \in UserCall
               PROVE  /\ phase'[d] \in {"select", "commit"} => sql
                      /\ phase'[d] = "create" => ~sql
                      /\ result[d] = "registered" => phase'[d] = "done"
                      /\ d \notin early /\ phase'[d] # "new" =>
                           /\ UStable' /\ phase'[d] \notin {"make", "got"}
                           /\ phase'[d] # "get" => held'[d] = store
    BY <2>1 DEF UFlow
  <2>5. CASE d = c
    BY <2>2, <2>4, <2>5
  <2>6. CASE d # c
    BY <2>2, <2>3, <2>6 DEF UFlow
  <2> QED BY <2>5, <2>6
<1> QED BY <1>1, <1>2, <1>3

LEMMA UReturnFlow ==
    ASSUME UInv, NEW c \in UserCall, NEW s \in {"commit", "done"}, NEW r,
           \/ phase[c] \in {"create", "commit", "lookup"} /\ s = "done"
           \/ phase[c] = "select" /\ s \in {"commit", "done"},
           phase' = [phase EXCEPT ![c] = s],
           \/ s = "done" /\ result' = [result EXCEPT ![c] = r]
           \/ result' = result,
           UNCHANGED <<sql, store, held, early>>
    PROVE  UFlow'
<1> USE DEF UInv, UTypes
<1>1. UStable => UStable'
  BY DEF UStable
<1>2. /\ phase[c] \in {"select", "commit"} => sql
      /\ phase[c] \notin {"new", "make", "get", "got", "done"} /\ phase'[c] = s
      /\ result[c] # "registered"
      /\ c \notin early => UStable /\ held[c] = store
  BY DEF UFlow
<1>3. \A d \in UserCall : d # c => phase'[d] = phase[d] /\ result'[d] = result[d]
  OBVIOUS
<1> SUFFICES ASSUME NEW d \in UserCall
             PROVE  /\ phase'[d] \in {"select", "commit"} => sql
                    /\ phase'[d] = "create" => ~sql
                    /\ result'[d] = "registered" => phase'[d] = "done"
                    /\ d \notin early /\ phase'[d] # "new" =>
                         /\ UStable' /\ phase'[d] \notin {"make", "got"}
                         /\ phase'[d] # "get" => held[d] = store
  BY DEF UFlow
<1>4. CASE d = c
  BY <1>1, <1>2, <1>4
<1>5. CASE d # c
  BY <1>1, <1>3, <1>5 DEF UFlow
<1> QED BY <1>4, <1>5

\* Nobody new has registered, and what is in the stores is not taken away.
LEMMA UOwnerKept ==
    ASSUME UInv, UTypes', \A d \in UserCall : U!Safe(d)' => U!Safe(d),
           \A s \in U!Store : users[s] \subseteq users'[s],
           sql' = sql, \A d \in UserCall : U!Safe(d) => sql \/ store' = store
    PROVE  U!OneOwner'
<1>1. \A d \in UserCall : U!Safe(d) => U!Current \subseteq U!Current'
  <2> SUFFICES ASSUME NEW d \in UserCall, U!Safe(d) PROVE U!Current \subseteq U!Current'
    OBVIOUS
  <2> DEFINE s == IF sql THEN U!Missing ELSE store
  <2>1. s \in U!Store /\ s' = s
    BY UConstants DEF UInv, UTypes
  <2> HIDE DEF s
  <2>2. users[s] \subseteq users'[s]
    BY <2>1
  <2>3. U!Current = users[s] /\ U!Current' = users'[s']
    BY DEF U!Current, s
  <2> QED BY <2>1, <2>2, <2>3
<1> QED BY <1>1 DEF UInv, U!OneOwner

\* Who registers was not there before.
LEMMA UOwnerAdded ==
    ASSUME UInv, UTypes', NEW c \in UserCall, ~U!Taken(c), U!Add(c),
           result' = [result EXCEPT ![c] = "registered"],
           sql \/ phase[c] = "create", UNCHANGED <<sql, store, held, early>>
    PROVE  U!OneOwner'
<1>1. \A d \in UserCall : d # c => (U!Safe(d)' <=> U!Safe(d))
  BY DEF UInv, UTypes, U!Safe
<1>2. \A s \in U!Store : users[s] \subseteq users'[s]
  BY DEF UInv, UTypes, U!Add
<1>3. \A d \in UserCall : d # c /\ U!Safe(d)' => NameOf[d] \in U!Current'
  <2>1. U!Current \subseteq U!Current'
    <3>1. CASE sql
      BY <1>2, <3>1, UConstants DEF U!Current
    <3>2. CASE ~sql
      BY <1>2, <3>2 DEF U!Current, UInv, UTypes
    <3> QED BY <3>1, <3>2
  <2> QED BY <1>1, <2>1 DEF UInv, U!OneOwner
<1>4. CASE ~U!Safe(c)'
  <2>1. \A d \in UserCall : U!Safe(d)' => U!Safe(d) /\ d # c
    BY <1>1, <1>4
  <2>2. \A d \in UserCall : U!Safe(d)' => NameOf[d] \in U!Current'
    BY <2>1, <1>3
  <2> QED BY <2>1, <2>2 DEF UInv, U!OneOwner
<1>5. CASE U!Safe(c)'
  <2>1. sql \/ c \notin early
    BY <1>5 DEF U!Safe
  <2>2. users[U!Place(c)] = U!Current /\ users'[U!Place(c)] = U!Current'
        /\ U!Place(c) \in U!Store
    <3>1. CASE sql
      BY <3>1, UConstants DEF U!Place, U!Current
    <3>2. CASE ~sql
      <4>1. held[c] = store /\ store \in U!Store
        BY <2>1, <3>2 DEF UInv, UTypes, UFlow
      <4> QED BY <3>2, <4>1 DEF U!Place, U!Current
    <3> QED BY <3>1, <3>2
  <2>3. NameOf[c] \notin U!Current
    BY <2>2 DEF U!Taken
  <2>4. NameOf[c] \in U!Current'
    BY <2>2 DEF U!Add, UInv, UTypes
  <2>5. \A d \in UserCall : U!Safe(d) => NameOf[d] # NameOf[c]
    BY <2>3 DEF UInv, U!OneOwner
  <2>6. \A d \in UserCall : U!Safe(d)' => NameOf[d] \in U!Current'
    BY <1>3, <2>4
  <2>7. \A d, e \in UserCall : U!Safe(d)' /\ U!Safe(e)' /\ d # e => NameOf[d] # NameOf[e]
    BY <1>1, <2>5 DEF UInv, U!OneOwner
  <2> QED BY <2>6, <2>7 DEF U!OneOwner
<1> QED BY <1>4, <1>5

LEMMA UStepInv == UInv /\ [U!Next]_(U!vars) => UInv'
<1> SUFFICES ASSUME UInv, [U!Next]_(U!vars) PROVE UInv'
  OBVIOUS
<1>1. CASE UNCHANGED U!vars
  <2>1. UTypes' /\ UMade' /\ UFlow' /\ U!OneOwner'
    BY <1>1 DEF UInv, UTypes, UMade, UPast, UFlow, UStable, U!OneOwner, U!Safe, U!Current,
                U!vars
  <2> QED BY <2>1 DEF UInv
<1>2. ASSUME NEW c \in UserCall, U!MakeStore(c) PROVE UInv'
  <2>1. UTypes' /\ UMade'
    BY <1>2, UMakeStep
  <2>2. UFlow'
    BY <1>2, UBeginFlow
  <2>3. \A d \in UserCall : (U!Safe(d)' <=> U!Safe(d)) /\ (U!Safe(d) => sql)
    BY <1>2 DEF U!MakeStore, U!Safe, UInv, UTypes, UFlow, UStable
  <2>4. U!OneOwner'
    BY <1>2, <2>1, <2>3, UOwnerKept DEF U!MakeStore
  <2> QED BY <2>1, <2>2, <2>4 DEF UInv
<1>3. ASSUME NEW c \in UserCall, U!Begin(c) \/ U!GetStore(c) PROVE UInv'
  <2>1. UTypes' /\ UMade'
    BY <1>3, UTypeStep
  <2>2. UFlow'
    BY <1>3, UBeginFlow
  <2>3. result' = result /\ users' = users /\ sql' = sql /\ store' = store /\ early \subseteq early'
    BY <1>3 DEF U!Begin, U!GetStore
  <2>4. U!OneOwner'
    BY <2>1, <2>3, UOwnerKept DEF U!Safe
  <2> QED BY <2>1, <2>2, <2>4 DEF UInv
<1>4. ASSUME NEW c \in UserCall, NEW r \in {"duplicate", "raised", "found", "unknown"},
             UTypes' /\ UMade', U!Returns(c, r),
             \A s \in U!Store : users[s] \subseteq users'[s],
             phase[c] \in {"create", "commit", "lookup", "select"},
             UNCHANGED <<sql, store, held, early>>
      PROVE  UInv'
  <2>1. UFlow'
    BY <1>4, UReturnFlow DEF U!Returns, U!Proceed
  <2>2. \A d \in UserCall : U!Safe(d)' => U!Safe(d)
    BY <1>4 DEF U!Safe, U!Returns, UInv, UTypes
  <2>3. U!OneOwner'
    BY <1>4, <2>2, UOwnerKept
  <2> QED BY <1>4, <2>1, <2>3 DEF UInv
<1>5. ASSUME NEW c \in UserCall, UTypes' /\ UMade', U!Returns(c, "registered"), ~U!Taken(c), U!Add(c),
             \/ phase[c] = "create" 
             \/ phase[c] = "commit",
             UNCHANGED <<sql, store, held, early>>
      PROVE  UInv'
  <2>1. UFlow'
    BY <1>5, UReturnFlow DEF U!Returns, U!Proceed
  <2>2. sql \/ phase[c] = "create"
    BY <1>5 DEF UInv, UFlow
  <2>3. U!OneOwner'
    BY <1>5, <2>2, UOwnerAdded DEF U!Returns
  <2> QED BY <1>5, <2>1, <2>3 DEF UInv
<1>6. \A c \in UserCall : U!Add(c) => \A s \in U!Store : users[s] \subseteq users'[s]
  BY DEF U!Add, UInv, UTypes
<1>7. ASSUME NEW c \in UserCall, U!CreateInMemory(c) PROVE UInv'
  <2>1. UTypes' /\ UMade'
    BY <1>7, UTypeStep
  <2>2. CASE U!Taken(c)
    BY <1>4, <1>7, <2>1, <2>2 DEF U!CreateInMemory
  <2>3. CASE ~U!Taken(c)
    BY <1>5, <1>7, <2>1, <2>3 DEF U!CreateInMemory
  <2> QED BY <2>2, <2>3
<1>8. ASSUME NEW c \in UserCall, U!Select(c) PROVE UInv'
  <2>1. UTypes' /\ UMade'
    BY <1>8, UTypeStep
  <2>2. CASE U!Taken(c)
    BY <1>4, <1>8, <2>1, <2>2 DEF U!Select
  <2>3. CASE ~U!Taken(c)
    <3>1. UFlow'
      BY <1>8, <2>3, UReturnFlow DEF U!Select, U!Proceed
    <3>2. U!OneOwner'
      BY <1>8, <2>1, <2>3, UOwnerKept DEF U!Select, U!Safe
    <3> QED BY <2>1, <3>1, <3>2 DEF UInv
  <2> QED BY <2>2, <2>3
<1>9. ASSUME NEW c \in UserCall, U!Commit(c) PROVE UInv'
  <2>1. UTypes' /\ UMade'
    BY <1>9, UTypeStep
  <2> QED BY <1>5, <1>9, <2>1 DEF U!Commit, U!Conflict
<1>10. ASSUME NEW c \in UserCall, U!CommitConflicts(c) \/ U!CommitFails(c) \/ U!Lookup(c)
       PROVE  UInv'
  <2>1. UTypes' /\ UMade'
    BY <1>10, UTypeStep
  <2>2. CASE U!CommitConflicts(c)
    BY <1>4, <2>1, <2>2 DEF U!CommitConflicts
  <2>3. CASE U!CommitFails(c)
    BY <1>4, <1>6, <2>1, <2>3 DEF U!CommitFails
  <2>4. CASE U!Lookup(c)
    BY <1>4, <2>1, <2>4 DEF U!Lookup
  <2> QED BY <1>10, <2>2, <2>3, <2>4
<1> QED BY <1>1, <1>2, <1>3, <1>7, <1>8, <1>9, <1>10 DEF U!Next

\* A username has one owner, who is known from then on, over queries and insertions that
\* interleave and commits that fail; in memory from when the store has been made
\* (auth.py:154-162, 187-206, 241-253).
THEOREM StoreHasOneOwner == U!Spec => [](U!TypeOK /\ U!OneOwner)
<1>1. UInv => U!TypeOK /\ U!OneOwner
  BY UConstants DEF UInv, UTypes, UMade, U!TypeOK
<1> QED BY <1>1, UInitInv, UStepInv, PTL DEF U!Spec
-----------------------------------------------------------------------------
(* The subprocess task. *)

LEMMA PTypeInit == P!Init => P!TypeOK
BY DEF P!Init, P!TypeOK, P!Stopper

LEMMA PTypeStep == P!TypeOK /\ [P!Next]_(P!vars) => P!TypeOK'
<1> SUFFICES ASSUME P!TypeOK, [P!Next]_(P!vars) PROVE P!TypeOK'
  OBVIOUS
<1> USE DEF P!TypeOK, P!Goes
<1>1. CASE P!Start
  BY <1>1 DEF P!Start, P!StartThread, P!StartChild, P!StartWatcher, P!StartFails
<1>2. CASE P!ChildStep \/ P!ChildRaises
  BY <1>2 DEF P!ChildStep, P!ChildEnds, P!ChildFlushed, P!ChildRaises
<1>3. ASSUME NEW s \in P!Stopper, P!Push(s) PROVE P!TypeOK'
  BY <1>3 DEF P!Push
<1>4. CASE P!ThreadStep \/ P!ThreadRaises
  <2>1. CASE P!OnCrash
    BY <1>3, <2>1 DEF P!OnCrash, P!Stopper
  <2>2. CASE P!ThreadEnds \/ P!ThreadDies \/ P!ThreadRaises
    BY <2>2 DEF P!ThreadEnds, P!ThreadDies, P!ThreadRaises
  <2> QED BY <1>4, <2>1, <2>2 DEF P!ThreadStep
<1>5. CASE P!WatcherStep
  <2>1. CASE P!OnSubprocessError
    BY <1>3, <2>1 DEF P!OnSubprocessError, P!Stopper
  <2>2. CASE P!Watch \/ P!WatcherEnds
    BY <2>2 DEF P!Watch, P!WatcherEnds
  <2> QED BY <1>5, <2>1, <2>2 DEF P!WatcherStep
<1>6. ASSUME NEW s \in P!Stopper, P!Stop(s) \/ P!Advance(s) PROVE P!TypeOK'
  <2>1. CASE P!Stop(s)
    BY <1>3, <2>1 DEF P!Stop
  <2>2. CASE P!JoinThread(s)
    BY <2>2 DEF P!JoinThread
  <2>3. CASE P!TerminateChild(s)
    BY <2>3 DEF P!TerminateChild
  <2> QED BY <1>6, <2>1, <2>2, <2>3 DEF P!Advance
<1>7. CASE UNCHANGED P!vars
  BY <1>7 DEF P!vars
<1> QED BY <1>1, <1>2, <1>4, <1>5, <1>6, <1>7 DEF P!Next

\* The types of the thread, the child, the watcher and whoever calls stop(), for any
\* number of callers (async_task_util.py:233-309).
THEOREM TaskTypes == P!Spec => []P!TypeOK
BY PTypeInit, PTypeStep, PTL DEF P!Spec
-----------------------------------------------------------------------------
(* SQLite.  What is in an open transaction is not in the file yet, and was  *)
(* left there by a commit that failed, but for the write under way.         *)

LEMMA QConstants ==
    /\ Violating \subseteq Write /\ Malformed \subseteq Write
    /\ Retries \in Nat /\ MaxReads \in Nat /\ Q!None \notin Connection
BY ServicesAssumption DEF ServicesAssumption, Q!SqliteAssumption

QIn(w, s) == \E i \in 1..Len(s) : s[i] = w

QTypes == Q!TypeOK /\ cause \in [Connection -> {"none", "constraint", "written", "uncommitted",
                                               "locked"}]
QBusy ==
    /\ \A t \in Connection : at[t] # "idle" => writing[t] \in Write /\ outcome[writing[t]] = "none"
    /\ \A t, u \in Connection : at[t] # "idle" /\ at[u] # "idle" /\ t # u => writing[t] # writing[u]
QOpen ==
    \A t \in Connection :
      /\ at[t] = "commit" => locker = t /\ QIn(writing[t], pending[t])
      /\ pending[t] # <<>> => locker = t
      /\ Q!IsInjective(pending[t])
      /\ \A w \in Write : QIn(w, pending[t]) =>
           /\ ~QIn(w, db)
           /\ \/ at[t] = "commit" /\ w = writing[t]
              \/ outcome[w] = "uncommitted" /\ ~wal
QWritten ==
    /\ Q!IsInjective(db)
    /\ \A w \in Write :
         /\ outcome[w] = "written" => QIn(w, db)
         /\ QIn(w, db) => outcome[w] = "written" \/ (outcome[w] = "uncommitted" /\ ~wal)
QInv == QTypes /\ QBusy /\ QOpen /\ QWritten /\ Q!LockLeftForCause

LEMMA QAppend ==
    ASSUME NEW s \in Seq(Write), NEW e \in Write
    PROVE  /\ Append(s, e) \in Seq(Write)
           /\ \A w : QIn(w, Append(s, e)) <=> QIn(w, s) \/ w = e
           /\ Q!IsInjective(s) /\ ~QIn(e, s) => Q!IsInjective(Append(s, e))
<1>1. /\ Append(s, e) \in Seq(Write) /\ Len(Append(s, e)) = Len(s) + 1 /\ Len(s) \in Nat
      /\ \A i \in 1..Len(s) : Append(s, e)[i] = s[i]
      /\ Append(s, e)[Len(s) + 1] = e
  OBVIOUS
<1> DEFINE n == Append(s, e)
<1> HIDE DEF n
<1>2. /\ n \in Seq(Write) /\ Len(n) = Len(s) + 1 /\ Len(s) \in Nat
      /\ \A i \in 1..Len(s) : n[i] = s[i]
      /\ n[Len(s) + 1] = e
  BY <1>1 DEF n
<1>3. \A w : QIn(w, n) <=> QIn(w, s) \/ w = e
  BY <1>2 DEF QIn
<1>4. ASSUME Q!IsInjective(s), ~QIn(e, s) PROVE Q!IsInjective(n)
  <2>1. DOMAIN n = 1..Len(n) /\ DOMAIN s = 1..Len(s)
    BY <1>2
  <2> QED BY <1>2, <1>4, <2>1 DEF Q!IsInjective, QIn
<1> QED BY <1>2, <1>3, <1>4 DEF n

LEMMA QConcat ==
    ASSUME NEW s \in Seq(Write), NEW p \in Seq(Write)
    PROVE  /\ s \o p \in Seq(Write)
           /\ \A w : QIn(w, s \o p) <=> QIn(w, s) \/ QIn(w, p)
           /\ Q!IsInjective(s) /\ Q!IsInjective(p) /\ (\A w \in Write : QIn(w, p) => ~QIn(w, s))
                => Q!IsInjective(s \o p)
<1> DEFINE n == s \o p
<1>1. /\ n \in Seq(Write) /\ Len(n) = Len(s) + Len(p) /\ Len(s) \in Nat /\ Len(p) \in Nat
      /\ \A i \in 1..Len(s) : n[i] = s[i]
      /\ \A i \in 1..Len(p) : n[Len(s) + i] = p[i]
  OBVIOUS
<1> HIDE DEF n
<1>2. ASSUME NEW i \in 1..Len(n), i \notin 1..Len(s)
      PROVE  i - Len(s) \in 1..Len(p) /\ n[i] = p[i - Len(s)]
  <2>1. i - Len(s) \in 1..Len(p) /\ Len(s) + (i - Len(s)) = i
    BY <1>1, <1>2
  <2> QED BY <1>1, <2>1
<1>3. \A i \in 1..Len(p) : Len(s) + i \in 1..Len(n)
  BY <1>1
<1>4. ASSUME NEW w PROVE QIn(w, n) <=> QIn(w, s) \/ QIn(w, p)
  <2>1. ASSUME QIn(w, n) PROVE QIn(w, s) \/ QIn(w, p)
    BY <1>2, <1>1, <2>1 DEF QIn
  <2>2. ASSUME QIn(w, s) PROVE QIn(w, n)
    BY <1>1, <2>2 DEF QIn
  <2>3. ASSUME QIn(w, p) PROVE QIn(w, n)
    BY <1>1, <1>3, <2>3 DEF QIn
  <2> QED BY <2>1, <2>2, <2>3
<1>5. ASSUME Q!IsInjective(s), Q!IsInjective(p), \A w \in Write : QIn(w, p) => ~QIn(w, s)
      PROVE  Q!IsInjective(n)
  <2>1. DOMAIN n = 1..Len(n) /\ DOMAIN s = 1..Len(s) /\ DOMAIN p = 1..Len(p)
    BY <1>1
  <2>2. SUFFICES ASSUME NEW a \in 1..Len(n), NEW b \in 1..Len(n), n[a] = n[b] PROVE a = b
    BY <2>1 DEF Q!IsInjective
  <2>3. \A i \in 1..Len(p), j \in 1..Len(s) : p[i] # s[j]
    BY <1>5 DEF QIn
  <2>4. CASE a \in 1..Len(s) /\ b \in 1..Len(s)
    BY <1>1, <1>5, <2>1, <2>2, <2>4 DEF Q!IsInjective
  <2>5. CASE a \notin 1..Len(s) /\ b \notin 1..Len(s)
    <3>1. a - Len(s) = b - Len(s)
      BY <1>2, <1>5, <2>1, <2>2, <2>5 DEF Q!IsInjective
    <3> QED BY <1>1, <3>1
  <2>6. CASE a \in 1..Len(s) /\ b \notin 1..Len(s)
    BY <1>1, <1>2, <2>2, <2>3, <2>6
  <2>7. CASE a \notin 1..Len(s) /\ b \in 1..Len(s)
    BY <1>1, <1>2, <2>2, <2>3, <2>7
  <2> QED BY <2>4, <2>5, <2>6, <2>7
<1> QED BY <1>1, <1>4, <1>5 DEF n

LEMMA QEmpty == <<>> \in Seq(Write) /\ Q!IsInjective(<<>>) /\ \A w : ~QIn(w, <<>>)
BY DEF Q!IsInjective, QIn

LEMMA QInitInv == Q!Init => QInv
<1> SUFFICES ASSUME Q!Init PROVE QInv
  OBVIOUS
<1> USE QConstants, QEmpty DEF Q!Init
<1>1. QTypes
  BY DEF QTypes, Q!TypeOK
<1>2. QBusy /\ QOpen
  BY DEF QBusy, QOpen
<1>3. QWritten
  BY DEF QWritten
<1>4. Q!LockLeftForCause
  BY DEF Q!LockLeftForCause
<1> QED BY <1>1, <1>2, <1>3, <1>4 DEF QInv

LEMMA QCallStep ==
    ASSUME QInv, NEW t \in Connection, NEW w \in Write, Q!Call(t, w) PROVE QInv'
<1> USE QConstants DEF QInv, QTypes, Q!TypeOK, Q!Call, Q!Proceed
<1>1. CASE w \in Malformed
  <2>1. /\ outcome' = [outcome EXCEPT ![w] = "invalid"] /\ outcome[w] = "none"
        /\ UNCHANGED <<wal, db, pending, locker, reading, reads, at, writing, attempt, cause>>
        /\ \A u \in Connection : at[u] # "idle" => writing[u] # w
    BY <1>1
  <2>2. QTypes'
    BY <2>1
  <2>3. QBusy'
    BY <2>1 DEF QBusy
  <2>4. QOpen'
    BY <2>1 DEF QOpen
  <2>5. QWritten'
    BY <2>1 DEF QWritten
  <2>6. Q!LockLeftForCause'
    BY <2>1 DEF Q!LockLeftForCause
  <2> QED BY <2>2, <2>3, <2>4, <2>5, <2>6
<1>2. CASE w \notin Malformed
  <2>1. /\ writing' = [writing EXCEPT ![t] = w] /\ attempt' = [attempt EXCEPT ![t] = 0]
        /\ at' = [at EXCEPT ![t] = "execute"] /\ at[t] = "idle" /\ outcome[w] = "none"
        /\ UNCHANGED <<wal, db, pending, locker, reading, reads, outcome, cause>>
        /\ \A u \in Connection : at[u] # "idle" => writing[u] # w
    BY <1>2
  <2>2. QTypes'
    BY <2>1
  <2>3. QBusy'
    BY <2>1 DEF QBusy
  <2>4. QOpen'
    BY <2>1 DEF QOpen
  <2>5. QWritten'
    BY <2>1 DEF QWritten
  <2>6. Q!LockLeftForCause'
    BY <2>1 DEF Q!LockLeftForCause
  <2> QED BY <2>2, <2>3, <2>4, <2>5, <2>6
<1> QED BY <1>1, <1>2

LEMMA QExecuteStep ==
    ASSUME QInv, NEW t \in Connection, Q!Execute(t) PROVE QInv'
<1> USE QConstants DEF QInv, QTypes, Q!TypeOK
<1>1. /\ at[t] = "execute" /\ locker \in {Q!None, t} /\ locker' = t
      /\ pending' = [pending EXCEPT ![t] = Append(pending[t], writing[t])]
      /\ at' = [at EXCEPT ![t] = "commit"]
      /\ UNCHANGED <<wal, db, reading, reads, writing, attempt, outcome, cause>>
  BY DEF Q!Execute, Q!MayWrite, Q!Proceed
<1>2. writing[t] \in Write /\ outcome[writing[t]] = "none" /\ pending[t] \in Seq(Write)
  BY <1>1 DEF QBusy
<1>3. \A w \in Write : QIn(w, pending[t]) => ~QIn(w, db) /\ outcome[w] = "uncommitted" /\ ~wal
  BY <1>1 DEF QOpen
<1>4. ~QIn(writing[t], pending[t]) /\ ~QIn(writing[t], db)
  BY <1>2, <1>3 DEF QWritten
<1>5. /\ pending'[t] \in Seq(Write) /\ Q!IsInjective(pending'[t])
      /\ \A w : QIn(w, pending'[t]) <=> QIn(w, pending[t]) \/ w = writing[t]
  BY <1>1, <1>2, <1>4, QAppend DEF QOpen
<1>6. QTypes'
  BY <1>1, <1>5
<1>7. QBusy'
  BY <1>1 DEF QBusy
<1>8. QOpen'
  <2> SUFFICES ASSUME NEW u \in Connection
               PROVE  /\ at'[u] = "commit" => locker' = u /\ QIn(writing[u], pending'[u])
                      /\ pending'[u] # <<>> => locker' = u
                      /\ Q!IsInjective(pending'[u])
                      /\ \A w \in Write : QIn(w, pending'[u]) =>
                           /\ ~QIn(w, db)
                           /\ \/ at'[u] = "commit" /\ w = writing[u]
                              \/ outcome[w] = "uncommitted" /\ ~wal
    BY <1>1 DEF QOpen
  <2>1. CASE u = t
    BY <1>1, <1>3, <1>4, <1>5, <2>1
  <2>2. CASE u # t
    <3>1. pending[u] = <<>> /\ at[u] # "commit" /\ at'[u] = at[u] /\ pending'[u] = pending[u]
      BY <1>1, <2>2 DEF QOpen
    <3> QED BY <3>1, QEmpty
  <2> QED BY <2>1, <2>2
<1>9. QWritten'
  BY <1>1 DEF QWritten
<1>10. Q!LockLeftForCause'
  BY <1>1 DEF Q!LockLeftForCause
<1> QED BY <1>6, <1>7, <1>8, <1>9, <1>10

\* A call ends with the file as it was.
LEMMA QReturnStep ==
    ASSUME QInv, NEW t \in Connection,
           NEW r \in {"constraint", "uncommitted", "locked"}, at[t] # "idle",
           Q!Returns(t, r), UNCHANGED <<wal, db, pending, reading, reads, writing, attempt>>,
           \/ r = "constraint" /\ locker' = t /\ locker \in {Q!None, t} /\ at[t] = "execute"
           \/ r = "locked" /\ locker' = locker /\ locker # t /\ at[t] = "execute"
           \/ r = "uncommitted" /\ locker' = locker /\ at[t] = "commit" /\ ~wal
    PROVE  QInv'
<1> USE QConstants DEF QInv, QTypes, Q!TypeOK
<1>1. /\ at' = [at EXCEPT ![t] = "idle"] /\ outcome' = [outcome EXCEPT ![writing[t]] = r]
      /\ cause' = [cause EXCEPT ![t] = r] /\ UNCHANGED <<wal, db, pending, writing>>
  BY DEF Q!Returns, Q!Proceed
<1>2. writing[t] \in Write /\ outcome[writing[t]] = "none" /\ ~QIn(writing[t], db)
  BY DEF QBusy, QWritten
<1>3. QTypes'
  BY <1>1, <1>2
<1>4. QBusy'
  BY <1>1, <1>2 DEF QBusy
<1>5. QOpen'
  <2> SUFFICES ASSUME NEW u \in Connection
               PROVE  /\ at'[u] = "commit" => locker' = u /\ QIn(writing[u], pending[u])
                      /\ pending[u] # <<>> => locker' = u
                      /\ Q!IsInjective(pending[u])
                      /\ \A w \in Write : QIn(w, pending[u]) =>
                           /\ ~QIn(w, db)
                           /\ \/ at'[u] = "commit" /\ w = writing[u]
                              \/ outcome'[w] = "uncommitted" /\ ~wal
    BY <1>1 DEF QOpen
  <2>1. \A w \in Write : w # writing[t] => outcome'[w] = outcome[w]
    BY <1>1, <1>2
  <2>2. CASE u = t
    <3>1. at'[t] = "idle" /\ (pending[t] # <<>> => locker' = t) /\ Q!IsInjective(pending[t])
      BY <1>1 DEF QOpen
    <3>2. ASSUME NEW w \in Write, QIn(w, pending[t])
          PROVE  ~QIn(w, db) /\ outcome'[w] = "uncommitted" /\ ~wal
      <4>1. CASE w = writing[t]
        BY <1>1, <1>2, <3>2, <4>1 DEF QOpen
      <4>2. CASE w # writing[t]
        BY <2>1, <3>2, <4>2 DEF QOpen
      <4> QED BY <4>1, <4>2
    <3> QED BY <2>2, <3>1, <3>2
  <2>3. CASE u # t
    <3>1. at'[u] = at[u] /\ (locker = u => locker' = u)
      BY <1>1, <2>3
    <3>2. ASSUME NEW w \in Write, QIn(w, pending[u])
          PROVE  /\ ~QIn(w, db)
                 /\ \/ at[u] = "commit" /\ w = writing[u]
                    \/ outcome'[w] = "uncommitted" /\ ~wal
      BY <1>2, <2>1, <3>2 DEF QOpen
    <3> QED BY <3>1, <3>2 DEF QOpen
  <2> QED BY <2>2, <2>3
<1>6. QWritten'
  BY <1>1, <1>2 DEF QWritten
<1>7. Q!LockLeftForCause'
  BY <1>1 DEF Q!LockLeftForCause
<1> QED BY <1>3, <1>4, <1>5, <1>6, <1>7

LEMMA QCommitStep ==
    ASSUME QInv, NEW t \in Connection, Q!Commit(t) PROVE QInv'
<1> USE QConstants DEF QInv, QTypes, Q!TypeOK
<1>1. /\ at[t] = "commit" /\ db' = db \o pending[t] /\ locker' = Q!None
      /\ pending' = [pending EXCEPT ![t] = <<>>] /\ at' = [at EXCEPT ![t] = "idle"]
      /\ outcome' = [outcome EXCEPT ![writing[t]] = "written"]
      /\ cause' = [cause EXCEPT ![t] = "written"]
      /\ UNCHANGED <<wal, reading, reads, writing, attempt>>
  BY DEF Q!Commit, Q!Returns, Q!Proceed
<1>2. /\ writing[t] \in Write /\ outcome[writing[t]] = "none" /\ pending[t] \in Seq(Write)
      /\ locker = t /\ QIn(writing[t], pending[t])
  BY <1>1 DEF QBusy, QOpen
<1>3. \A w \in Write : QIn(w, pending[t]) =>
        ~QIn(w, db) /\ (w = writing[t] \/ (outcome[w] = "uncommitted" /\ ~wal))
  BY DEF QOpen
<1>4. /\ db' \in Seq(Write) /\ Q!IsInjective(db')
      /\ \A w : QIn(w, db') <=> QIn(w, db) \/ QIn(w, pending[t])
  BY <1>1, <1>2, <1>3, QConcat DEF QOpen, QWritten
<1>5. \A w \in Write : w # writing[t] => outcome'[w] = outcome[w]
  BY <1>1, <1>2
<1>6. QTypes'
  BY <1>1, <1>2, <1>4, QEmpty
<1>7. QBusy'
  BY <1>1, <1>2 DEF QBusy
<1>8. QOpen'
  <2>1. \A u \in Connection : pending'[u] = <<>> /\ at'[u] # "commit"
    BY <1>1, <1>2 DEF QOpen
  <2> QED BY <2>1, QEmpty DEF QOpen
<1>9. QWritten'
  <2> SUFFICES ASSUME NEW w \in Write
               PROVE  /\ outcome'[w] = "written" => QIn(w, db')
                      /\ QIn(w, db') => \/ outcome'[w] = "written"
                                        \/ outcome'[w] = "uncommitted" /\ ~wal
    BY <1>1, <1>4 DEF QWritten
  <2>1. CASE w = writing[t]
    BY <1>1, <1>2, <1>4, <2>1
  <2>2. CASE w # writing[t]
    BY <1>3, <1>4, <1>5, <2>2 DEF QWritten
  <2> QED BY <2>1, <2>2
<1>10. Q!LockLeftForCause'
  BY <1>1 DEF Q!LockLeftForCause
<1> QED BY <1>6, <1>7, <1>8, <1>9, <1>10

LEMMA QRetryStep ==
    ASSUME QInv, NEW t \in Connection, Q!Retry(t) PROVE QInv'
<1> USE QConstants DEF QInv, QTypes, Q!TypeOK
<1>1. /\ at[t] # "idle" /\ attempt[t] < Retries
      /\ attempt' = [attempt EXCEPT ![t] = @ + 1]
      /\ pending' = [pending EXCEPT ![t] = <<>>] /\ at' = [at EXCEPT ![t] = "execute"]
      /\ locker' = IF locker = t THEN Q!None ELSE locker
      /\ UNCHANGED <<wal, db, reading, reads, writing, outcome, cause>>
  BY DEF Q!Retry, Q!Locked, Q!RolledBack, Q!Proceed
<1>2. QTypes'
  BY <1>1, QEmpty
<1>3. QBusy'
  BY <1>1 DEF QBusy
<1>4. QOpen'
  <2> SUFFICES ASSUME NEW u \in Connection
               PROVE  /\ at'[u] = "commit" => locker' = u /\ QIn(writing[u], pending'[u])
                      /\ pending'[u] # <<>> => locker' = u
                      /\ Q!IsInjective(pending'[u])
                      /\ \A w \in Write : QIn(w, pending'[u]) =>
                           /\ ~QIn(w, db)
                           /\ \/ at'[u] = "commit" /\ w = writing[u]
                              \/ outcome[w] = "uncommitted" /\ ~wal
    BY <1>1 DEF QOpen
  <2>1. CASE u = t
    BY <1>1, <2>1, QEmpty
  <2>2. CASE u # t
    <3>1. at'[u] = at[u] /\ pending'[u] = pending[u] /\ (locker = u => locker' = u)
      BY <1>1, <2>2
    <3> QED BY <3>1 DEF QOpen
  <2> QED BY <2>1, <2>2
<1>5. QWritten'
  BY <1>1 DEF QWritten
<1>6. Q!LockLeftForCause'
  BY <1>1 DEF Q!LockLeftForCause
<1> QED BY <1>2, <1>3, <1>4, <1>5, <1>6

LEMMA QStepInv == QInv /\ [Q!Next]_(Q!vars) => QInv'
<1> SUFFICES ASSUME QInv, [Q!Next]_(Q!vars) PROVE QInv'
  OBVIOUS
<1>1. ASSUME UNCHANGED <<wal, db, pending, locker, at, writing, attempt, outcome, cause>>,
             reads' \in 0..MaxReads, reading' \subseteq Connection
      PROVE  QInv'
  <2>1. QTypes'
    BY <1>1 DEF QInv, QTypes, Q!TypeOK
  <2>2. QBusy' /\ QOpen' /\ QWritten' /\ Q!LockLeftForCause'
    BY <1>1 DEF QInv, QBusy, QOpen, QWritten, Q!LockLeftForCause
  <2> QED BY <2>1, <2>2 DEF QInv
<1>2. CASE UNCHANGED Q!vars
  BY <1>1, <1>2 DEF Q!vars, QInv, QTypes, Q!TypeOK
<1>3. ASSUME NEW t \in Connection, Q!Fetch(t) \/ Q!FetchAll(t) PROVE QInv'
  BY <1>1, <1>3, QConstants DEF Q!Fetch, Q!FetchAll, QInv, QTypes, Q!TypeOK
<1>4. ASSUME NEW t \in Connection, Q!ViolatesConstraint(t) PROVE QInv'
  BY <1>4, QReturnStep DEF Q!ViolatesConstraint, Q!MayWrite
<1>5. ASSUME NEW t \in Connection, Q!GiveUp(t) PROVE QInv'
  <2>1. CASE at[t] = "commit"
    BY <1>5, <2>1, QReturnStep DEF Q!GiveUp, Q!Locked, Q!MayCommit
  <2>2. CASE at[t] # "commit"
    BY <1>5, <2>2, QReturnStep DEF Q!GiveUp, Q!Locked, Q!MayWrite
  <2> QED BY <2>1, <2>2
<1> QED BY <1>2, <1>3, <1>4, <1>5, QCallStep, QExecuteStep, QCommitStep, QRetryStep DEF Q!Next

\* No attempt writes twice, a write that returned is in the file, one that raised is not
\* but for a commit that failed without the write-ahead log, and the file stays locked
\* after a call only for a constraint or a commit that failed (sqlite.py:116-136).
THEOREM FileWritesOnce == Q!Spec => [](Q!TypeOK /\ Q!WrittenOnce /\ Q!LockLeftForCause)
<1>1. QInv => Q!TypeOK /\ Q!WrittenOnce /\ Q!LockLeftForCause
  BY DEF QInv, QTypes, QWritten, QIn, Q!WrittenOnce, Q!Committed
<1> QED BY <1>1, QInitInv, QStepInv, PTL DEF Q!Spec
-----------------------------------------------------------------------------
(* The life of a process.  In the web process a frame that is past stopping *)
(* an entry has stopped it, or found that another frame is doing so.        *)

SSteps(k) ==
    IF k = "web"
    THEN {"off", "tcp", "udp", "worker", "create", "install", "run", "handler", "close",
          "arm", "timer", "db", "redis", "pool", "exit"}
    ELSE {"off", "install", "worker", "run", "handler", "close", "arm", "timer", "queue", "exit"}
SEnding == {"enter", "held", "wait"}
SPart == SEnding \cup {"none", "start", "armed"}

STypes ==
    /\ program \in {"web", "worker"}
    /\ status \in {"starting", "running", "exited", "died"}
    /\ pc \in [S!Frame -> SSteps(program) \X SPart]
    /\ ref \subseteq S!Entry /\ works \subseteq S!Entry /\ stopping \subseteq S!Entry
    /\ mine \in [S!Frame -> SUBSET S!Entry]

\* Nobody but main() starts the entries, and before there is anybody else.
SStart ==
    /\ status = "starting" =>
         /\ depth = 0 /\ "db" \notin disposed
         /\ pc[0][1] \in {"tcp", "udp", "worker", "create", "install"} /\ pc[0][2] = "start"
         /\ \A f \in S!Frame : f # 0 => pc[f] = S!Off
    /\ status = "running" => pc[0] \notin {<<e, "start">> : e \in S!Entry}

\* Somebody stops entry e, or has.
SStops(e) == IF e = "worker" THEN e \in stopping ELSE \E f \in S!Frame : e \in mine[f]
SLater(e) == {"db", "redis", "pool", "exit"} \cup IF e = "worker" THEN {"tcp", "udp"}
                                               ELSE IF e = "tcp" THEN {"udp"} ELSE {}
SPast(f, e) == /\ pc[f][2] \in SEnding
               /\ pc[f] = <<e, "wait">> \/ pc[f][1] \in SLater(e)

SStopped ==
    /\ \A e \in works : e \in ref \/ SStops(e)
    /\ \A f \in S!Frame : \A e \in works : SPast(f, e) => SStops(e)
    /\ "db" \in disposed => \A e \in works : SStops(e)

SInv ==
    /\ STypes
    /\ program = "web" => SStart /\ SStopped
    /\ program = "worker" => "db" \notin disposed

LEMMA SFrames == MaxSignals \in Nat /\ 0 \in S!Frame /\ S!Dog \in S!Frame /\ S!Dog # 0
BY ServicesAssumption DEF ServicesAssumption, S!ProcessAssumption, S!Frame, S!Dog

LEMMA SAfterStep ==
    ASSUME NEW prog, NEW i \in 2..Len(prog), \A j \in 2..Len(prog) : j # i => prog[j - 1] # prog[i - 1]
    PROVE  S!After(prog, prog[i - 1]) = prog[i]
<1> DEFINE k == CHOOSE j \in 2..Len(prog) : prog[j - 1] = prog[i - 1]
<1>1. k \in 2..Len(prog) /\ prog[k - 1] = prog[i - 1]
  OBVIOUS
<1>2. k = i
  BY <1>1
<1> QED BY <1>2 DEF S!After

\* The step after each, in the order of the clean-up.
LEMMA SAfterEnding ==
    /\ S!After(S!Ending["web"], "worker") = "tcp"
    /\ S!After(S!Ending["web"], "tcp") = "udp"
    /\ S!After(S!Ending["web"], "udp") = "db"
    /\ S!After(S!Ending["web"], "db") = "redis"
    /\ S!After(S!Ending["web"], "redis") = "pool"
    /\ S!After(S!Ending["web"], "pool") = "exit"
    /\ S!After(S!Ending["worker"], "worker") = "queue"
    /\ S!After(S!Ending["worker"], "queue") = "exit"
    /\ S!First("web") = <<"worker", "enter">> /\ S!First("worker") = <<"worker", "enter">>
<1> DEFINE w == S!Ending["web"]
           q == S!Ending["worker"]
<1>1. /\ Len(w) = 7 /\ w[1] = "worker" /\ w[2] = "tcp" /\ w[3] = "udp" /\ w[4] = "db"
      /\ w[5] = "redis" /\ w[6] = "pool" /\ w[7] = "exit"
      /\ Len(q) = 3 /\ q[1] = "worker" /\ q[2] = "queue" /\ q[3] = "exit"
  BY DEF S!Ending, S!Cleanup
<1> HIDE DEF w, q
<1>2. \A i \in 2..7 : S!After(w, w[i - 1]) = w[i]
  <2> SUFFICES ASSUME NEW i \in 2..7 PROVE S!After(w, w[i - 1]) = w[i]
    OBVIOUS
  <2>1. \A j \in 2..7 : j # i => w[j - 1] # w[i - 1]
    BY <1>1
  <2> QED BY <1>1, <2>1, SAfterStep
<1>3. \A i \in 2..3 : S!After(q, q[i - 1]) = q[i]
  <2> SUFFICES ASSUME NEW i \in 2..3 PROVE S!After(q, q[i - 1]) = q[i]
    OBVIOUS
  <2>1. \A j \in 2..3 : j # i => q[j - 1] # q[i - 1]
    BY <1>1
  <2> QED BY <1>1, <2>1, SAfterStep
<1>4. /\ S!After(w, w[1]) = w[2] /\ S!After(w, w[2]) = w[3] /\ S!After(w, w[3]) = w[4]
      /\ S!After(w, w[4]) = w[5] /\ S!After(w, w[5]) = w[6] /\ S!After(w, w[6]) = w[7]
      /\ S!After(q, q[1]) = q[2] /\ S!After(q, q[2]) = q[3]
  BY <1>2, <1>3
<1> QED BY <1>1, <1>4 DEF w, q, S!First

LEMMA SAfterStartup ==
    /\ S!After(S!Startup["web"], "tcp") = "udp"
    /\ S!After(S!Startup["web"], "udp") = "worker"
    /\ S!After(S!Startup["web"], "worker") = "create"
    /\ S!After(S!Startup["web"], "create") = "install"
    /\ S!After(S!Startup["web"], "install") = "run"
    /\ S!After(S!Startup["worker"], "install") = "worker"
    /\ S!After(S!Startup["worker"], "worker") = "run"
<1> DEFINE w == S!Startup["web"]
           q == S!Startup["worker"]
<1>1. /\ Len(w) = 6 /\ w[1] = "tcp" /\ w[2] = "udp" /\ w[3] = "worker" /\ w[4] = "create"
      /\ w[5] = "install" /\ w[6] = "run"
      /\ Len(q) = 3 /\ q[1] = "install" /\ q[2] = "worker" /\ q[3] = "run"
  BY DEF S!Startup
<1> HIDE DEF w, q
<1>2. \A i \in 2..6 : S!After(w, w[i - 1]) = w[i]
  <2> SUFFICES ASSUME NEW i \in 2..6 PROVE S!After(w, w[i - 1]) = w[i]
    OBVIOUS
  <2>1. \A j \in 2..6 : j # i => w[j - 1] # w[i - 1]
    BY <1>1
  <2> QED BY <1>1, <2>1, SAfterStep
<1>3. \A i \in 2..3 : S!After(q, q[i - 1]) = q[i]
  <2> SUFFICES ASSUME NEW i \in 2..3 PROVE S!After(q, q[i - 1]) = q[i]
    OBVIOUS
  <2>1. \A j \in 2..3 : j # i => q[j - 1] # q[i - 1]
    BY <1>1
  <2> QED BY <1>1, <2>1, SAfterStep
<1>4. /\ S!After(w, w[1]) = w[2] /\ S!After(w, w[2]) = w[3] /\ S!After(w, w[3]) = w[4]
      /\ S!After(w, w[4]) = w[5] /\ S!After(w, w[5]) = w[6]
      /\ S!After(q, q[1]) = q[2] /\ S!After(q, q[2]) = q[3]
  BY <1>2, <1>3
<1> QED BY <1>1, <1>4 DEF w, q

LEMMA SEndsNext ==
    ASSUME STypes, NEW f \in S!Frame, NEW s \in S!Entry \cup {"db", "redis", "pool", "queue"},
           pc[f][1] = s
    PROVE  /\ S!After(S!Ending[program], s) \in SSteps(program)
           /\ program = "web" => \A e \in S!Entry :
                S!After(S!Ending[program], s) \in SLater(e) => s = e \/ s \in SLater(e)
<1>1. s \in SSteps(program) /\ program \in {"web", "worker"}
  BY DEF STypes
<1>2. CASE program = "web"
  BY <1>1, <1>2, SAfterEnding DEF SSteps, SLater, S!Entry, S!Server
<1>3. CASE program = "worker"
  BY <1>1, <1>3, SAfterEnding DEF SSteps, S!Entry, S!Server
<1> QED BY <1>1, <1>2, <1>3

LEMMA SStartsNext ==
    ASSUME STypes, pc[0][1] \in {"tcp", "udp", "worker", "create", "install"}
    PROVE  S!After(S!Startup[program], pc[0][1]) \in SSteps(program)
<1>1. pc[0][1] \in SSteps(program) /\ program \in {"web", "worker"}
  BY SFrames DEF STypes
<1>2. CASE program = "web"
  BY <1>1, <1>2, SAfterStartup DEF SSteps
<1>3. CASE program = "worker"
  BY <1>1, <1>3, SAfterStartup DEF SSteps
<1> QED BY <1>1, <1>2, <1>3

LEMMA SInitInv == S!Init => SInv
<1> SUFFICES ASSUME S!Init PROVE SInv
  OBVIOUS
<1> USE SFrames DEF S!Init
<1>1. S!Startup["web"][1] = "tcp" /\ S!Startup["worker"][1] = "install"
  BY DEF S!Startup
<1>2. \A f \in S!Frame : pc[f] = IF f = 0 THEN <<S!Startup[program][1], "start">> ELSE S!Off
  OBVIOUS
<1>3. S!Off[2] = "none" /\ S!Off = <<"off", "none">>
  BY DEF S!Off
<1>4. STypes
  BY <1>1, <1>3 DEF STypes, SSteps, SPart, SEnding
<1>5. program = "web" => SStart
  BY <1>1, <1>2 DEF SStart
<1>6. SStopped
  BY DEF SStopped
<1> QED BY <1>4, <1>5, <1>6 DEF SInv

\* Main() starts.
LEMMA SMainTypes ==
    ASSUME STypes, S!Main PROVE STypes' /\ ("db" \in disposed' => "db" \in disposed)
<1> USE SFrames DEF STypes, SPart, SEnding, S!At, S!Goto
<1>1. ASSUME NEW e \in S!Entry, S!StartEntry(e) PROVE STypes' /\ disposed' = disposed
  <2>1. pc[0][1] = e /\ e \in {"tcp", "udp", "worker"}
    BY <1>1 DEF S!StartEntry, S!Entry, S!Server
  <2>2. S!After(S!Startup[program], pc[0][1]) \in SSteps(program)
    BY <2>1, SStartsNext
  <2> QED BY <1>1, <2>2 DEF S!StartEntry, S!StartNext
<1>2. ASSUME S!CreateServer \/ S!InstallHandlers PROVE STypes' /\ disposed' = disposed
  <2>1. S!After(S!Startup[program], pc[0][1]) \in SSteps(program)
    BY <1>2, SStartsNext DEF S!CreateServer, S!InstallHandlers
  <2> QED BY <1>2, <2>1 DEF S!CreateServer, S!InstallHandlers, S!StartNext, S!entries
<1>3. ASSUME S!RunReturns \/ S!RunForever PROVE STypes' /\ disposed' = disposed
  <2>1. "worker" \in SSteps(program) /\ "run" \in SSteps(program)
        /\ S!First(program) = <<"worker", "enter">>
    BY SAfterEnding DEF SSteps
  <2> QED BY <1>3, <2>1 DEF S!RunReturns, S!RunForever, S!entries
<1> QED BY <1>1, <1>2, <1>3 DEF S!Main

\* A frame takes a step of the ending, or of a handler.
LEMMA SStepTypes ==
    ASSUME STypes, NEW f \in S!Frame, S!Step(f) \/ S!WatchdogFires
    PROVE  STypes'
<1> USE SFrames DEF STypes, SPart, SEnding, S!At, S!Goto
<1>1. /\ "worker" \in SSteps(program) /\ "close" \in SSteps(program) /\ "arm" \in SSteps(program)
      /\ "timer" \in SSteps(program) /\ "off" \in SSteps(program)
      /\ S!First(program) = <<"worker", "enter">>
  BY SAfterEnding DEF SSteps
<1>2. \A s \in S!Entry \cup {"db", "redis", "pool", "queue"} :
        pc[f][1] = s => S!After(S!Ending[program], s) \in SSteps(program)
  BY SEndsNext
<1>3. ASSUME S!Handler(f) \/ S!CloseListener(f) PROVE STypes'
  BY <1>1, <1>3 DEF S!Handler, S!CloseListener, S!entries
<1>4. ASSUME S!StartWatchdog(f) \/ S!WatchdogFires PROVE STypes'
  BY <1>1, <1>4 DEF S!StartWatchdog, S!Arm, S!Return, S!Off, S!WatchdogFires, S!entries
<1>5. ASSUME S!Exit(f) PROVE STypes'
  BY <1>5 DEF S!Exit, S!entries
<1>6. ASSUME NEW e \in S!Entry, S!StopEnter(f, e) PROVE STypes'
  <2>1. pc[f][1] = e
    BY <1>6 DEF S!StopEnter
  <2>2. e \in SSteps(program) /\ S!After(S!Ending[program], e) \in SSteps(program)
    BY <1>2, <2>1
  <2> QED BY <1>6, <2>2 DEF S!StopEnter, S!EndNext
<1>7. ASSUME NEW e \in S!Entry, S!StopHeld(f, e) PROVE STypes'
  <2>1. pc[f][1] = e
    BY <1>7 DEF S!StopHeld
  <2>2. e \in SSteps(program)
    BY <2>1
  <2> QED BY <1>7, <2>2 DEF S!StopHeld
<1>8. ASSUME NEW e \in S!Entry, S!Shutdown(f, e) PROVE STypes'
  BY <1>8 DEF S!Shutdown
<1>9. ASSUME NEW e \in S!Entry, S!StopWait(f, e) PROVE STypes'
  <2>1. pc[f][1] = e
    BY <1>9 DEF S!StopWait
  <2>2. S!After(S!Ending[program], e) \in SSteps(program)
    BY <1>2, <2>1
  <2> QED BY <1>9, <2>2 DEF S!StopWait, S!EndNext
<1>10. ASSUME NEW s \in {"db", "redis", "pool", "queue"}, S!Dispose(f, s) PROVE STypes'
  <2>1. pc[f][1] = s
    BY <1>10 DEF S!Dispose
  <2>2. S!After(S!Ending[program], s) \in SSteps(program)
    BY <1>2, <2>1
  <2>3. pc' \in [S!Frame -> SSteps(program) \X SPart]
    BY <1>1, <1>10, <2>2 DEF S!Dispose, S!EndNext, S!Return, S!Off
  <2> QED BY <1>10, <2>3 DEF S!Dispose, S!entries
<1> QED BY <1>3, <1>4, <1>5, <1>6, <1>7, <1>8, <1>9, <1>10 DEF S!Step

\* A step that stops nothing, and takes no frame past anything.
LEMMA SQuietStep ==
    ASSUME STypes, SStopped, UNCHANGED <<ref, works, stopping, mine, disposed>>,
           \A g \in S!Frame : \/ pc'[g] = pc[g] \/ pc'[g][2] \notin SEnding
                              \/ \E e \in S!Entry : /\ pc'[g] = <<e, "held">>
                                                     /\ pc[g][1] = e /\ pc[g][2] \in SEnding
                              \/ pc'[g] = <<"worker", "enter">>
    PROVE  SStopped'
<1>1. \A e \in works : SStops(e)' <=> SStops(e)
  BY DEF SStops
<1>2. ASSUME NEW g \in S!Frame, NEW e \in works, SPast(g, e)' PROVE SPast(g, e)
  <2>1. e \in {"tcp", "udp", "worker"}
    BY DEF STypes, S!Entry, S!Server
  <2> QED BY <1>2, <2>1 DEF SPast, SEnding, SLater
<1> QED BY <1>1, <1>2 DEF SStopped

\* Before the handlers are installed no frame but main() takes a step.
LEMMA SStarting ==
    ASSUME STypes, SStart, status = "starting", NEW f \in S!Frame, NEW s, NEW p, S!At(f, s, p)
    PROVE  \/ p = "start" /\ s \in {"tcp", "udp", "worker", "create", "install"} /\ f = 0
           \/ s = "off" /\ p = "none"
<1>1. pc[f] = <<s, p>> /\ (f = S!Dog \/ f = 0)
  BY DEF S!At, S!Active, SStart
<1>2. CASE f = 0
  BY <1>1, <1>2 DEF SStart
<1>3. CASE f # 0
  BY <1>1, <1>3 DEF SStart, S!Off
<1> QED BY <1>2, <1>3

LEMMA SRunningStart ==
    ASSUME STypes, SStart, status = "running", status' # "starting",
           \A g \in S!Frame : pc'[g] = pc[g] \/ pc'[g] \notin {<<e, "start">> : e \in S!Entry}
    PROVE  SStart'
BY SFrames DEF SStart

\* What the entries are.
LEMMA SEntries == S!Entry = {"tcp", "udp", "worker"} /\ S!Server = {"tcp", "udp"}
BY DEF S!Entry, S!Server

LEMMA SMainStart ==
    ASSUME STypes, program = "web", SStart, SStopped, S!Main
    PROVE  SStart' /\ SStopped'
<1> USE SFrames, SEntries
<1>0. STypes'
  BY SMainTypes
<1>1. ASSUME NEW e \in S!Entry, S!StartEntry(e) PROVE SStart' /\ SStopped'
  <2>1. /\ pc[0] = <<e, "start">> /\ status = "starting"
        /\ \/ status' = "starting" /\ pc' = [pc EXCEPT ![0] =
                <<S!After(S!Startup["web"], e), "start">>]
           \/ status' = "died" /\ pc' = pc
        /\ UNCHANGED <<depth, disposed>>
        /\ ref \subseteq ref'
    BY <1>1 DEF S!StartEntry, S!StartNext, S!Goto, S!At, S!Active, S!Alive, SStart
  <2>2. S!After(S!Startup["web"], e) \in {"udp", "worker", "create"}
    BY SAfterStartup
  <2>3. \A g \in S!Frame : pc[g][2] \notin SEnding
    BY <2>1 DEF SStart, SEnding, S!Off
  <2>4. \A g \in S!Frame : pc'[g][2] \notin SEnding
    BY <2>1, <2>3 DEF STypes, SEnding
  <2>5. SStart'
    BY <2>1, <2>2 DEF SStart, STypes
  <2>6. mine' = mine /\ stopping' = stopping
    BY <1>1 DEF S!StartEntry
  <2>7. ref \subseteq ref' /\ \A d \in works' : d \in works \/ d \in ref'
    BY <1>1 DEF S!StartEntry
  <2>8. "db" \notin disposed'
    BY <2>1 DEF SStart
  <2> QED BY <2>4, <2>5, <2>6, <2>7, <2>8 DEF SStopped, SPast, SStops
<1>2. ASSUME S!CreateServer \/ S!InstallHandlers PROVE SStart' /\ SStopped'
  <2>1. /\ pc[0] \in {<<"create", "start">>, <<"install", "start">>}
        /\ pc' = [pc EXCEPT ![0] = <<S!After(S!Startup["web"], pc[0][1]), "start">>]
        /\ \/ status' = status /\ pc[0] = <<"create", "start">>
           \/ status' = "running" /\ pc[0] = <<"install", "start">>
        /\ UNCHANGED <<program, depth, ref, works, stopping, mine, disposed>>
    BY <1>2 DEF S!CreateServer, S!InstallHandlers, S!StartNext, S!Goto, S!At, S!entries
  <2>2. pc[0][1] = "create" \/ pc[0][1] = "install"
    BY <2>1
  <2>3. pc'[0] = <<"install", "start">> \/ (pc'[0] = <<"run", "start">> /\ status' = "running")
    BY <2>1, <2>2, SAfterStartup DEF STypes
  <2>4. \A g \in S!Frame : g # 0 => pc'[g] = pc[g]
    BY <2>1 DEF STypes
  <2>5. pc'[0] = <<"install", "start">> => status' = status
    BY <2>1, <2>3, SAfterStartup DEF STypes
  <2>6. SStart'
    BY <2>1, <2>3, <2>4, <2>5 DEF SStart
  <2>7. SStopped'
    BY <2>1, <2>3, <2>4, SQuietStep DEF SEnding
  <2> QED BY <2>6, <2>7
<1>3. ASSUME S!RunReturns \/ S!RunForever PROVE SStart' /\ SStopped'
  <2>1. /\ pc[0] = <<"run", "start">> /\ status \in {"starting", "running"}
        /\ pc' = [pc EXCEPT ![0] = <<"worker", "enter">>]
        /\ UNCHANGED <<program, status, depth, ref, works, stopping, mine, disposed>>
    BY <1>3, SAfterEnding DEF S!RunReturns, S!RunForever, S!At, S!Active, S!Alive, S!entries
  <2>2. status = "running"
    BY <2>1 DEF SStart
  <2>3. \A g \in S!Frame : pc'[g] = pc[g] \/ pc'[g] = <<"worker", "enter">>
    BY <2>1 DEF STypes
  <2>4. SStart'
    BY <2>1, <2>2, <2>3, SRunningStart
  <2> QED BY <2>1, <2>3, <2>4, SQuietStep
<1> QED BY <1>1, <1>2, <1>3 DEF S!Main

\* The steps of a handler, of the watchdog and of the exit.
LEMMA SHandlerStep ==
    ASSUME STypes, program = "web", SStart, SStopped, NEW f \in S!Frame,
           \/ S!Handler(f) \/ S!CloseListener(f) \/ S!StartWatchdog(f) \/ S!WatchdogFires
           \/ S!Exit(f)
    PROVE  SStart' /\ SStopped'
<1> USE SFrames, SEntries
<1>1. status = "running"
  <2>1. \E g \in S!Frame : \/ S!At(g, "handler", "start") \/ S!At(g, "close", "start")
                           \/ S!At(g, "arm", "start") \/ S!At(g, "timer", "armed")
                           \/ S!At(g, "exit", "enter")
    BY DEF S!Handler, S!CloseListener, S!StartWatchdog, S!WatchdogFires, S!Exit
  <2>2. status # "starting"
    BY <2>1, SStarting
  <2> QED BY <2>1, <2>2 DEF S!At, S!Active, S!Alive
<1>2. UNCHANGED <<ref, works, stopping, mine, disposed>> /\ status' # "starting"
  BY <1>1 DEF S!Handler, S!CloseListener, S!StartWatchdog, S!WatchdogFires, S!Exit, S!entries
<1>3. \A g \in S!Frame : pc'[g] = pc[g] \/ pc'[g] \in {<<"close", "start">>, <<"arm", "start">>,
                           S!Off, <<"timer", "armed">>, <<"worker", "enter">>}
  BY SAfterEnding DEF STypes, S!Handler, S!CloseListener, S!StartWatchdog, S!WatchdogFires, S!Exit,
                      S!Arm,
                      S!Return, S!Goto
<1>4. SStart'
  BY <1>1, <1>2, <1>3, SRunningStart DEF S!Off
<1>5. SStopped'
  BY <1>2, <1>3, SQuietStep DEF S!Off, SEnding
<1> QED BY <1>4, <1>5

\* A frame enters an entry's lock, or leaves out the worker there is none of.
LEMMA SStopEnterStep ==
    ASSUME STypes, program = "web", SStart, SStopped, NEW f \in S!Frame, NEW e \in S!Entry,
           S!StopEnter(f, e)
    PROVE  SStart' /\ SStopped'
<1> USE SFrames, SEntries
<1>1. status = "running" /\ pc[f] = <<e, "enter">>
  BY SStarting DEF S!StopEnter, S!At, S!Active, S!Alive
<1>2. /\ UNCHANGED <<status, ref, works, stopping, mine, disposed>>
      /\ \/ /\ e = "worker" /\ e \notin ref
            /\ pc' = [pc EXCEPT ![f] = <<"tcp", "enter">>]
         \/ pc' = [pc EXCEPT ![f] = <<e, "held">>]
  BY SAfterEnding DEF S!StopEnter, S!EndNext, S!Goto
<1>3. \A g \in S!Frame : g # f => pc'[g] = pc[g]
  BY <1>2 DEF STypes
<1>4. pc'[f] \in {<<"tcp", "enter">>, <<e, "held">>}
  BY <1>2 DEF STypes
<1>5. SStart'
  BY <1>1, <1>2, <1>3, <1>4, SRunningStart
<1>6. CASE pc'[f] = <<e, "held">>
  <2>1. pc[f][1] = e /\ pc[f][2] \in SEnding
    BY <1>1 DEF SEnding
  <2>2. SStopped'
    BY <1>2, <1>3, <1>6, <2>1, SQuietStep
  <2> QED BY <1>5, <2>2
<1>7. CASE pc'[f] # <<e, "held">>
  <2>1. e = "worker" /\ e \notin ref /\ pc'[f] = <<"tcp", "enter">>
    BY <1>2, <1>7 DEF STypes
  <2>2. \A d \in works : SStops(d)' <=> SStops(d)
    BY <1>2 DEF SStops
  <2>3. "worker" \in works => SStops("worker")
    BY <2>1 DEF SStopped
  <2>4. ASSUME NEW g \in S!Frame, NEW d \in works, SPast(g, d)' PROVE SStops(d)
    <3>1. d \in {"tcp", "udp", "worker"}
      BY DEF STypes
    <3>2. CASE g # f
      BY <1>3, <2>4, <3>2 DEF SPast, SStopped
    <3>3. CASE g = f
      <4>1. d = "worker"
        BY <2>1, <2>4, <3>1, <3>3 DEF SPast, SLater
      <4> QED BY <2>3, <4>1
    <3> QED BY <3>2, <3>3
  <2>5. SStopped'
    BY <1>2, <2>2, <2>4 DEF SStopped
  <2> QED BY <1>5, <2>5
<1> QED BY <1>6, <1>7

\* A frame inside the lock tells the worker, or takes the reference to a server.
LEMMA SStopHeldStep ==
    ASSUME STypes, program = "web", SStart, SStopped, NEW f \in S!Frame, NEW e \in S!Entry,
           S!StopHeld(f, e)
    PROVE  SStart' /\ SStopped'
<1> USE SFrames, SEntries
<1>1. status = "running" /\ pc[f] = <<e, "held">>
  BY SStarting DEF S!StopHeld, S!At, S!Active, S!Alive
<1>2. /\ UNCHANGED <<status, works, disposed>>
      /\ pc' = [pc EXCEPT ![f] = <<e, "wait">>]
      /\ \/ e = "worker" /\ stopping' = stopping \cup {e} /\ UNCHANGED <<ref, mine>>
         \/ /\ e # "worker" /\ mine' = [mine EXCEPT ![f] = mine[f] \cup (ref \cap {e})]
            /\ ref' = ref \ {e} /\ stopping' = stopping
  BY DEF S!StopHeld, S!Goto
<1>3. \A g \in S!Frame : pc'[g] = IF g = f THEN <<e, "wait">> ELSE pc[g]
  BY <1>2 DEF STypes
<1>4. SStart'
  BY <1>1, <1>2, <1>3, SRunningStart
<1>5. \A g \in S!Frame : mine[g] \subseteq mine'[g]
  BY <1>2 DEF STypes
<1>6. \A d \in works : SStops(d) => SStops(d)'
  BY <1>2, <1>5 DEF SStops
<1>7. e \in works => SStops(e)'
  <2>1. CASE e = "worker"
    BY <1>2, <2>1 DEF SStops
  <2>2. CASE e # "worker"
    <3>1. e \in ref => e \in mine'[f]
      BY <1>2, <2>2 DEF STypes
    <3> QED BY <1>6, <2>2, <3>1 DEF SStops, SStopped
  <2> QED BY <2>1, <2>2
<1>8. \A d \in works : d \in ref' \/ SStops(d)'
  BY <1>2, <1>6, <1>7 DEF SStopped
<1>9. ASSUME NEW g \in S!Frame, NEW d \in works, SPast(g, d)' PROVE SStops(d)'
  <2>1. d \in {"tcp", "udp", "worker"}
    BY DEF STypes
  <2>2. CASE g # f
    BY <1>3, <1>6, <1>9, <2>2 DEF SPast, SStopped
  <2>3. CASE g = f
    <3>1. d = e \/ SPast(f, d)
      BY <1>1, <1>3, <1>9, <2>1, <2>3 DEF SPast, SLater, SEnding
    <3> QED BY <1>6, <1>7, <3>1 DEF SStopped
  <2> QED BY <2>2, <2>3
<1>10. SStopped'
  BY <1>2, <1>6, <1>8, <1>9 DEF SStopped
<1> QED BY <1>4, <1>10

\* A frame is past an entry when it has waited for it.
LEMMA SStopWaitStep ==
    ASSUME STypes, program = "web", SStart, SStopped, NEW f \in S!Frame, NEW e \in S!Entry,
           S!StopWait(f, e)
    PROVE  SStart' /\ SStopped'
<1> USE SFrames, SEntries
<1>1. status = "running" /\ pc[f] = <<e, "wait">> /\ pc[f][1] = e
  BY SStarting DEF S!StopWait, S!At, S!Active, S!Alive
<1> DEFINE n == S!After(S!Ending[program], e)
<1>2. /\ UNCHANGED <<status, works, stopping, disposed>>
      /\ pc' = [pc EXCEPT ![f] = <<n, "enter">>]
      /\ \/ e = "worker" /\ ref' = ref \ {e} /\ mine' = mine
         \/ ref' = ref /\ mine' = mine
         \/ ref' = ref /\ e \notin works /\ mine' = [mine EXCEPT ![f] = mine[f] \ {e}]
  BY DEF S!StopWait, S!EndNext, S!Goto
<1>3. \A d \in S!Entry : n \in SLater(d) => e = d \/ e \in SLater(d)
  BY <1>1, SEndsNext
<1> HIDE DEF n
<1>4. \A g \in S!Frame : pc'[g] = IF g = f THEN <<n, "enter">> ELSE pc[g]
  BY <1>2 DEF STypes
<1>5. SStart'
  BY <1>1, <1>2, <1>4, SRunningStart
<1>6. \A g \in S!Frame, d \in works : d \in mine[g] => d \in mine'[g]
  BY <1>2 DEF STypes
<1>7. \A d \in works : SStops(d) => SStops(d)'
  BY <1>2, <1>6 DEF SStops
<1>8. e \in works => SStops(e)
  BY <1>1 DEF SStopped, SPast, SEnding
<1>9. \A d \in works : d \in ref' \/ SStops(d)'
  BY <1>2, <1>7, <1>8 DEF SStopped
<1>10. ASSUME NEW g \in S!Frame, NEW d \in works, SPast(g, d)' PROVE SStops(d)'
  <2>1. d \in S!Entry
    BY DEF STypes
  <2>2. CASE g # f
    BY <1>4, <1>7, <1>10, <2>2 DEF SPast, SStopped
  <2>3. CASE g = f
    <3>1. d = e \/ SPast(f, d)
      BY <1>1, <1>3, <1>4, <1>10, <2>1, <2>3 DEF SPast, SEnding
    <3> QED BY <1>7, <1>8, <3>1 DEF SStopped
  <2> QED BY <2>2, <2>3
<1>11. SStopped'
  BY <1>2, <1>7, <1>9, <1>10 DEF SStopped
<1> QED BY <1>5, <1>11

\* A server is told, or the threads of an entry end.
LEMMA SThreadsStep ==
    ASSUME STypes, program = "web", SStart, SStopped, NEW e \in S!Entry,
           S!ThreadsEnd(e) \/ \E f \in S!Frame : S!Shutdown(f, e)
    PROVE  SStart' /\ SStopped'
<1>1. /\ UNCHANGED <<status, depth, pc, ref, mine, disposed>>
      /\ works' \subseteq works /\ stopping \subseteq stopping'
  BY DEF S!ThreadsEnd, S!Shutdown
<1>2. \A d \in works' : SStops(d) => SStops(d)'
  BY <1>1 DEF SStops
<1> QED BY <1>1, <1>2 DEF SStart, SStopped, SPast

\* The database is released by a frame that is past all the entries.
LEMMA SDisposeStep ==
    ASSUME STypes, program = "web", SStart, SStopped, NEW f \in S!Frame,
           NEW s \in {"db", "redis", "pool", "queue"}, S!Dispose(f, s)
    PROVE  SStart' /\ SStopped'
<1> USE SFrames, SEntries
<1>1. status = "running" /\ pc[f] = <<s, "enter">> /\ pc[f][1] = s
  BY SStarting DEF S!Dispose, S!At, S!Active, S!Alive
<1> DEFINE n == S!After(S!Ending[program], s)
<1>2. /\ UNCHANGED <<status, ref, works, stopping, mine>> /\ disposed' = disposed \cup {s}
      /\ pc' = [pc EXCEPT ![f] = <<n, "enter">>]
  BY DEF S!Dispose, S!EndNext, S!Goto, S!entries
<1>3. \A d \in S!Entry : n \in SLater(d) => s = d \/ s \in SLater(d)
  BY <1>1, SEndsNext
<1> HIDE DEF n
<1>4. \A g \in S!Frame : pc'[g] = IF g = f THEN <<n, "enter">> ELSE pc[g]
  BY <1>2 DEF STypes
<1>5. SStart'
  BY <1>1, <1>2, <1>4, SRunningStart
<1>6. \A d \in works : SStops(d)' <=> SStops(d)
  BY <1>2 DEF SStops
<1>7. \A d \in works : d \in ref' \/ SStops(d)'
  BY <1>2, <1>6 DEF SStopped
<1>8. ASSUME NEW g \in S!Frame, NEW d \in works, SPast(g, d)' PROVE SStops(d)
  <2>1. d \in S!Entry
    BY DEF STypes
  <2>2. CASE g # f
    BY <1>4, <1>8, <2>2 DEF SPast, SStopped
  <2>3. CASE g = f
    <3>1. SPast(f, d)
      BY <1>1, <1>3, <1>4, <1>8, <2>1, <2>3 DEF SPast, SEnding
    <3> QED BY <3>1 DEF SStopped
  <2> QED BY <2>2, <2>3
<1>9. s = "db" => \A d \in works : SStops(d)
  BY <1>1 DEF STypes, SStopped, SPast, SEnding, SLater
<1>10. SStopped'
  BY <1>2, <1>6, <1>7, <1>8, <1>9 DEF SStopped
<1> QED BY <1>5, <1>10

LEMMA SStepInv == SInv /\ [S!Next]_(S!vars) => SInv'
<1> SUFFICES ASSUME SInv, [S!Next]_(S!vars) PROVE SInv'
  OBVIOUS
<1> USE DEF SInv
<1>1. CASE UNCHANGED S!vars
  BY <1>1 DEF S!vars, S!http, S!entries, STypes, SStart, SStopped, SPast, SStops
<1>2. CASE S!Main
  <2>1. program' = program
    BY <1>2 DEF S!Main, S!StartEntry, S!CreateServer, S!InstallHandlers, S!RunReturns, S!RunForever
  <2> QED BY <1>2, <2>1, SMainTypes, SMainStart
<1>3. CASE S!Peers \/ S!Kill
  <2>1. /\ UNCHANGED <<program, pc, depth, ref, works, stopping, mine, disposed>>
        /\ status' = status \/ (status = "starting" /\ status' = "died")
    BY <1>3 DEF S!Peers, S!Kill, S!entries
  <2> QED BY <2>1 DEF STypes, SStart, SStopped, SPast, SStops
<1>4. CASE S!Signal
  <2>1. /\ UNCHANGED <<program, status, ref, works, stopping, mine, disposed>>
        /\ status = "running" /\ pc' = [pc EXCEPT ![depth + 1] = <<"handler", "start">>]
    BY <1>4 DEF S!Signal, S!entries
  <2>2. "handler" \in SSteps(program) /\ "start" \in SPart
    BY DEF SSteps, SPart
  <2>3. STypes'
    BY <2>1, <2>2 DEF STypes
  <2>4. \A g \in S!Frame : pc'[g] = pc[g] \/ pc'[g] = <<"handler", "start">>
    BY <2>1 DEF STypes
  <2>5. program = "web" => SStart'
    BY <2>1, <2>4, SRunningStart, SEntries
  <2>6. program = "web" => SStopped'
    BY <2>1, <2>4, SQuietStep DEF SEnding
  <2> QED BY <2>1, <2>3, <2>5, <2>6
<1>5. ASSUME NEW f \in S!Frame, S!Step(f) \/ S!WatchdogFires PROVE SInv'
  <2>1. STypes'
    BY <1>5, SStepTypes
  <2>2. program' = program
    BY <1>5 DEF S!Step, S!Handler, S!CloseListener, S!StartWatchdog, S!Exit, S!StopEnter, S!StopHeld,
                S!Shutdown, S!StopWait, S!Dispose, S!WatchdogFires
  <2>3. program = "web" => SStart' /\ SStopped'
    BY <1>5, SHandlerStep, SStopEnterStep, SStopHeldStep, SStopWaitStep, SThreadsStep, SDisposeStep
       DEF S!Step
  <2>4. program = "worker" => "db" \notin disposed'
    <3>1. CASE UNCHANGED disposed
      BY <3>1
    <3>2. ASSUME NEW s \in {"db", "redis", "pool", "queue"}, S!Dispose(f, s), program = "worker"
          PROVE  "db" \notin disposed'
      <4>1. pc[f][1] = s /\ disposed' = disposed \cup {s}
        BY <3>2 DEF S!Dispose, S!At
      <4> QED BY <3>2, <4>1 DEF STypes, SSteps
    <3> QED BY <1>5, <3>1, <3>2 DEF S!Step, S!Handler, S!CloseListener, S!StartWatchdog, S!Exit,
          S!StopEnter, S!StopHeld, S!Shutdown, S!StopWait, S!WatchdogFires
  <2> QED BY <2>1, <2>2, <2>3, <2>4
<1>6. ASSUME NEW e \in S!Entry, S!ThreadsEnd(e) PROVE SInv'
  <2>1. /\ UNCHANGED <<program, status, pc, ref, stopping, mine, disposed>>
        /\ works' \subseteq works
    BY <1>6 DEF S!ThreadsEnd
  <2>2. STypes'
    BY <2>1 DEF STypes
  <2>3. program = "web" => SStart' /\ SStopped'
    BY <1>6, SThreadsStep
  <2> QED BY <2>1, <2>2, <2>3
<1> QED BY <1>1, <1>2, <1>3, <1>4, <1>5, <1>6, SFrames DEF S!Next

\* The database is released when the servers are being waited for and the worker was told
\* to stop, whichever frames clean up and however they interleave (wsgi.py:28-76, 100-135).
THEOREM EntriesStopFirst == S!Init /\ [][S!Next]_(S!vars) => []S!EntryStopsFirst
<1>1. SInv => S!EntryStopsFirst
  BY SEntries DEF SInv, STypes, SStopped, SStops, S!EntryStopsFirst
<1> QED BY <1>1, SInitInv, SStepInv, PTL
-----------------------------------------------------------------------------
(* The parts together. *)

all == <<part, vars, pool, task, file, user, limit, login, process, deployment, udp>>

LEMMA EachPartSteps ==
    [StepOfOne]_all =>
        /\ [A!Next]_(A!vars) /\ [P!Next]_(P!vars) /\ [Q!Next]_(Q!vars) /\ [U!Next]_(U!vars)
        /\ [R!Next]_(R!vars) /\ [L!Next]_(L!vars) /\ [S!Next]_(S!vars) /\ [D!Next]_(D!vars)
<1> SUFFICES ASSUME [StepOfOne]_all
             PROVE  /\ [A!Next]_(A!vars) /\ [P!Next]_(P!vars)
                    /\ [Q!Next]_(Q!vars) /\ [U!Next]_(U!vars)
                    /\ [R!Next]_(R!vars) /\ [L!Next]_(L!vars)
                    /\ [S!Next]_(S!vars) /\ [D!Next]_(D!vars)
  OBVIOUS
<1>1. A!Next \/ UNCHANGED pool
  BY DEF StepOfOne, Rests, all
<1>2. P!Next \/ UNCHANGED task
  BY DEF StepOfOne, Rests, all
<1>3. Q!Next \/ UNCHANGED file
  BY DEF StepOfOne, Rests, all
<1>4. U!Next \/ UNCHANGED user
  BY DEF StepOfOne, Rests, all
<1>5. R!Next \/ UNCHANGED limit
  BY DEF StepOfOne, Rests, all
<1>6. L!Next \/ UNCHANGED login
  BY DEF StepOfOne, Rests, all
<1>7. S!Next \/ UNCHANGED process
  BY DEF StepOfOne, Rests, all
<1>8. D!Next \/ UNCHANGED udp
  BY DEF StepOfOne, Rests, all
<1>9. [A!Next]_(A!vars) /\ [P!Next]_(P!vars)
  BY <1>1, <1>2 DEF pool, A!vars, task, P!vars
<1>10. [Q!Next]_(Q!vars) /\ [U!Next]_(U!vars)
  BY <1>3, <1>4 DEF file, Q!vars, user, U!vars
<1>11. [R!Next]_(R!vars) /\ [L!Next]_(L!vars)
  BY <1>5, <1>6 DEF limit, R!vars, login, L!vars
<1>12. [S!Next]_(S!vars) /\ [D!Next]_(D!vars)
  BY <1>7, <1>8 DEF process, S!vars, S!http, S!entries, udp, D!vars
<1> QED BY <1>9, <1>10, <1>11, <1>12

\* Whatever part a behaviour has picked, each part behaves as its module says.
LEMMA EachPartBehaves ==
    SpecOfOne =>
        /\ A!Spec /\ P!Spec /\ Q!Spec /\ U!Spec /\ R!Spec /\ L!Spec /\ D!Spec
        /\ S!Init /\ [][S!Next]_(S!vars)
<1>1. StartOfAll =>
        /\ A!Init /\ P!Init /\ Q!Init /\ U!Init
        /\ R!Init /\ L!Init /\ S!Init /\ D!Init
  BY DEF StartOfAll
<1> QED BY <1>1, EachPartSteps, PTL
        DEF SpecOfOne, all, A!Spec, P!Spec, Q!Spec, U!Spec, R!Spec, L!Spec, D!Spec

\* No permit of the executor is lost or given back twice, whatever becomes of its tasks
\* (async_task_util.py:101-124).
THEOREM PermitsStayConserved == SpecOfOne => []PermitsConserved
BY EachPartBehaves, PoolConservesPermits, TaskTypes, PTL DEF PermitsConserved

\* A write that returned is in the file once, and one that raised is not, but for the
\* commit that failed without the write-ahead log (sqlite.py:116-136).
THEOREM WritesHappenOnce == SpecOfOne => []WrittenOnce
BY EachPartBehaves, FileWritesOnce, PTL DEF WrittenOnce

\* Between calls a thread keeps the file locked only for a constraint or a commit that
\* failed (sqlite.py:126-136).
THEOREM LockStaysExplained == SpecOfOne => []LockLeftForCause
BY EachPartBehaves, FileWritesOnce, PTL DEF LockLeftForCause

\* A username has one owner, for any number of calls (auth.py:154-162, 187-206, 241-253).
THEOREM OwnerStaysOne == SpecOfOne => []OneOwner
BY EachPartBehaves, StoreHasOneOwner, PTL DEF OneOwner

\* No store admits more than the limit in a window (rate_limit.py:55-95).
THEOREM AdmittedStayBounded == SpecOfOne => []AdmittedBounded
BY EachPartBehaves, RateBoundsAdmitted, PTL DEF AdmittedBounded

\* The wrong passwords of an account stay bounded, whatever the threads, the expiries and
\* Redis do (auth.py:265-328).
THEOREM GuessesStayBounded == SpecOfOne => []GuessesBounded
BY EachPartBehaves, LockBoundsGuesses, PTL DEF GuessesBounded

\* The entries are stopped before the database is released, for any number of signals
\* (wsgi.py:28-76, 100-135).
THEOREM EntriesStayFirst == SpecOfOne => []EntryStopsFirst
BY EachPartBehaves, EntriesStopFirst, PTL DEF EntryStopsFirst

\* No slot of the UDP server is lost, for any number of datagrams, senders and starts
\* (udp_server.py:59-79).
THEOREM SlotsStayConserved == SpecOfOne => []DatagramSlots
BY EachPartBehaves, SlotsNeverLost, PTL DEF DatagramSlots
=============================================================================
