---------------------------- MODULE Recovery_proofs ----------------------------
(***************************************************************************)
(* What a live hub keeps true of its rings, for any phases, cadence and    *)
(* ring size, any number of restarts and a kill between any two stores:    *)
(* the inductive invariant of the hub and its preservation.  The theorems  *)
(* that rest on it are in LiveReaders_proofs, whose specification has the  *)
(* hub for a component.                                                    *)
(***************************************************************************)
EXTENDS Recovery, WellFoundedInduction, TLAPS

-----------------------------------------------------------------------------
(* The inductive invariant *)

Booting == daemon \in {"quarantined", "moded", "booted"}
Committing(r) == committing /\ cur = PhaseOf[r]

(* The row of frame n is in its slot, or a later one has been begun there. *)
Held(r, n) == slotData[r][Slot(n)] = n \/ Lapped(r, n)

(* No two phases close together, as in every configuration shipped.        *)
DistinctOffsets == \A p, q \in Phases : Offset[p] = Offset[q] => p = q

(* The phases advance in step, the earliest first, not behind the last     *)
(* anchor published; what lies between the two was passed over.            *)
InvClock ==
  /\ \A p \in Phases : phaseNext[p] > 0 /\ lastWritten <= NextAnchorNS(p)
  /\ DistinctOffsets => \A p \in Phases : lastWritten < NextAnchorNS(p)
  /\ lastWritten = 0 \/ lastWritten >= Cadence
  /\ lastWritten <= (LastIndex + 1) * Cadence
  /\ Booting => lastWritten > 0
  /\ \A p, q \in Phases : NextAnchorNS(p) <= NextAnchorNS(q) + Cadence
  /\ committing => /\ daemon = "running" /\ status # "closed"
                   /\ phaseNext[cur] <= LastIndex
                   /\ \A q \in Phases : NextAnchorNS(cur) <= NextAnchorNS(q)
  /\ \A p \in Phases, n \in Nat :
       lastWritten < AnchorNS(p, n) /\ n < phaseNext[p] => <<p, n>> \in passedOver

(* The newest frame begun of a row is the one being committed, or one      *)
(* before it; a killed daemon may leave the one it was about to commit.    *)
InvNewest ==
  \A r \in Rows :
    LET m == phaseNext[PhaseOf[r]] IN
    /\ newest[r] <= m
    /\ Committing(r) /\ stage[r] # "todo" => newest[r] = m
    /\ Running /\ ~(Committing(r) /\ stage[r] # "todo") => newest[r] < m
    /\ Committing(r) /\ stage[r] \in {"copied", "stored"} => slotData[r][Slot(m)] = m

(* An anchor word, the row's or the frame's, is that of a frame which was  *)
(* begun and is still there, or has been lapped.                           *)
InvAnchors ==
  \A r \in Rows :
    /\ \A s \in Slots : slotAnchor[r][s] = Unset \/ Slot(slotAnchor[r][s]) = s
    /\ \A n \in Nat : \/ slotAnchor[r][Slot(n)] = n
                      \/ frameAnchor[PhaseOf[r]][Slot(n)] = n
                      => n <= newest[r] /\ Held(r, n)

(* Every frame that was due was begun and is there, or has been lapped,    *)
(* but for those passed over.                                              *)
InvFrames ==
  \A r \in Rows, n \in Nat :
    n < phaseNext[PhaseOf[r]] /\ <<PhaseOf[r], n>> \notin passedOver =>
      n <= newest[r] /\ Held(r, n)

(* While a restart within a cadence is under way, less than a cadence has  *)
(* passed since the last anchor, also for the frames that were begun.      *)
InvSub ==
  Booting /\ recovering = "sub" =>
    /\ bootNS < lastWritten + Cadence
    /\ \A r \in Rows : newest[r] # Unset =>
         AnchorNS(PhaseOf[r], newest[r]) < lastWritten + Cadence

(* Generation runs ahead of BootID until the latter is stored as well.     *)
InvGeneration ==
  bootID <= generation /\ (daemon = "moded" => bootID < generation)

HubTypeOK == LiveTypeOK /\ RecoveryTypeOK
HubInv == /\ HubTypeOK /\ InvClock /\ InvNewest /\ InvAnchors /\ InvFrames
          /\ InvSub /\ InvGeneration

-----------------------------------------------------------------------------
(* Arithmetic of anchors and slots *)

(* Cancelling a positive factor. *)
LEMMA FactorCancelled ==
  ASSUME NEW a \in Int, NEW b \in Int, NEW k \in Nat \ {0}, a * k < b * k
  PROVE  a < b
  BY SMT

(* Slot addresses stay inside the ring. *)
LEMMA SlotOfRing == ASSUME NEW n \in Nat PROVE Slot(n) \in Slots
  BY LiveRingAssumption, SMT DEF Slot, Slots

(* Numbers with one residue are a multiple of the divisor apart. *)
LEMMA SameResidue ==
  ASSUME NEW a \in Nat, NEW b \in Nat, NEW k \in Nat \ {0}, a < b, a % k = b % k
  PROVE  a + k <= b
<1> DEFINE qa == a \div k
           qb == b \div k
<1>1. /\ qa \in Int /\ a = (k * qa) + (a % k)
      /\ qb \in Int /\ b = (k * qb) + (b % k)
      /\ a % k \in Nat
  BY SMT
<1>2. b - a = (qb - qa) * k
  BY <1>1, SMT
<1>3. 0 * k < (qb - qa) * k
  BY <1>2, SMT
<1> HIDE DEF qa, qb
<1>4. 0 < qb - qa
  BY <1>3, <1>1, FactorCancelled
<1>5. (qb - qa) * k >= k
  BY <1>1, <1>4, SMT
<1> QED BY <1>2, <1>5, <1>1

(* The frames of one slot are whole laps apart. *)
LEMMA SameSlot ==
  ASSUME NEW a \in Nat, NEW b \in Nat, a < b, Slot(a) = Slot(b)
  PROVE  a + MaxFrames <= b
  BY SameResidue, LiveRingAssumption DEF Slot

(* Anchor times are naturals, positive from the first frame on, and one    *)
(* cadence apart.                                                          *)
LEMMA AnchorTimes ==
  ASSUME NEW p \in Phases, NEW n \in Nat
  PROVE  /\ AnchorNS(p, n) \in Nat
         /\ n > 0 => AnchorNS(p, n) >= Cadence
         /\ AnchorNS(p, n + 1) = AnchorNS(p, n) + Cadence
<1>1. Offset[p] \in Nat /\ Cadence \in Nat \ {0}
  BY LiveRingAssumption
<1> QED BY <1>1, SMT DEF AnchorNS

(* An anchor determines its frame, and its phase's offset.                 *)
LEMMA AnchorPhase ==
  ASSUME NEW p \in Phases, NEW q \in Phases, NEW m \in Nat, NEW n \in Nat,
         AnchorNS(p, m) = AnchorNS(q, n)
  PROVE  m = n /\ Offset[p] = Offset[q]
<1>1. /\ Offset[p] \in Nat /\ Offset[p] < Cadence /\ Cadence \in Nat \ {0}
      /\ Offset[q] \in Nat /\ Offset[q] < Cadence
  BY LiveRingAssumption
<1>2. m * Cadence + Offset[p] = n * Cadence + Offset[q]
  BY DEF AnchorNS
<1>3. m * Cadence < (n + 1) * Cadence /\ n * Cadence < (m + 1) * Cadence
  BY <1>1, <1>2, SMT
<1>4. m < n + 1 /\ n < m + 1
  BY <1>1, <1>3, FactorCancelled
<1>5. m = n
  BY <1>4
<1> QED BY <1>1, <1>2, <1>5

(* The lattice goes on below zero. *)
LEMMA AnchorSteps ==
  ASSUME NEW p \in Phases, NEW n \in Int
  PROVE  AnchorNS(p, n) \in Int /\ AnchorNS(p, n + 1) = AnchorNS(p, n) + Cadence
<1>1. Offset[p] \in Nat /\ Cadence \in Nat \ {0}
  BY LiveRingAssumption
<1> QED BY <1>1, SMT DEF AnchorNS

(* Less than a cadence is less than a frame. *)
LEMMA WithinCadence ==
  ASSUME NEW p \in Phases, NEW m \in Int, NEW n \in Int,
         AnchorNS(p, m) < AnchorNS(p, n) + Cadence
  PROVE  m < n + 1
<1>1. Offset[p] \in Nat /\ Cadence \in Nat \ {0}
  BY LiveRingAssumption
<1>2. m * Cadence < (n + 1) * Cadence
  BY <1>1, SMT DEF AnchorNS
<1> QED BY <1>1, <1>2, FactorCancelled

(* An earlier anchor of a phase is an earlier frame. *)
LEMMA EarlierFrame ==
  ASSUME NEW p \in Phases, NEW m \in Int, NEW n \in Int,
         AnchorNS(p, m) < AnchorNS(p, n)
  PROVE  m < n
<1>1. Offset[p] \in Nat /\ Cadence \in Nat \ {0}
  BY LiveRingAssumption
<1>2. m * Cadence < n * Cadence
  BY <1>1, SMT DEF AnchorNS
<1> QED BY <1>1, <1>2, FactorCancelled

(* An earlier frame has an earlier anchor. *)
LEMMA EarlierAnchor ==
  ASSUME NEW p \in Phases, NEW m \in Int, NEW n \in Int, m <= n
  PROVE  AnchorNS(p, m) <= AnchorNS(p, n)
<1>1. Offset[p] \in Nat /\ Cadence \in Nat \ {0}
  BY LiveRingAssumption
<1> QED BY <1>1, SMT DEF AnchorNS

(* Division rounds towards minus infinity, and leaves the remainder. *)
LEMMA Floor ==
  ASSUME NEW x \in Int, NEW c \in Nat \ {0}
  PROVE  /\ x \div c \in Int /\ (x \div c) * c <= x /\ x < ((x \div c) * c) + c
         /\ x % c = 0 => x = c * (x \div c)
  BY SMT

(* The last anchor of a phase not after an instant: the lattice formula    *)
(* that producer and readers share.                                        *)
LEMMA LastAnchor ==
  ASSUME NEW p \in Phases, NEW now \in Int
  PROVE  LET k == (now - Offset[p]) \div Cadence
         IN  k \in Int /\ AnchorNS(p, k) <= now /\ now < AnchorNS(p, k) + Cadence
<1> DEFINE k == (now - Offset[p]) \div Cadence
<1>1. Offset[p] \in Nat /\ Cadence \in Nat \ {0} /\ now - Offset[p] \in Int
  BY LiveRingAssumption
<1>2. k \in Int /\ k * Cadence <= now - Offset[p] /\ now - Offset[p] < k * Cadence + Cadence
  BY <1>1, Floor
<1> HIDE DEF k
<1>3. AnchorNS(p, k) <= now /\ now < AnchorNS(p, k) + Cadence
  BY <1>1, <1>2, SMT DEF AnchorNS
<1> QED BY <1>2, <1>3 DEF k

(* SetStartAnchor finds the first anchor strictly after an instant, and    *)
(* never the frame of index 0 once a cadence has passed.                   *)
LEMMA FirstAnchorAfter ==
  ASSUME NEW p \in Phases, NEW now \in Nat
  PROVE  /\ FirstAfter(p, now) \in Nat
         /\ now < AnchorNS(p, FirstAfter(p, now))
         /\ AnchorNS(p, FirstAfter(p, now)) <= now + Cadence
         /\ \A n \in Nat : AnchorNS(p, n) <= now => n < FirstAfter(p, now)
         /\ now >= Cadence => FirstAfter(p, now) > 0
<1> DEFINE k == (now - Offset[p]) \div Cadence
<1>1. Offset[p] \in 0 .. Cadence - 1 /\ Cadence \in Nat \ {0}
  BY LiveRingAssumption
<1>2. k \in Int /\ AnchorNS(p, k) <= now /\ now < AnchorNS(p, k) + Cadence
  BY LastAnchor
<1>3. FirstAfter(p, now) = k + 1
  BY DEF FirstAfter
<1> HIDE DEF k
<1>4. AnchorNS(p, k + 1) = AnchorNS(p, k) + Cadence /\ AnchorNS(p, k) \in Int
  BY <1>1, <1>2, SMT DEF AnchorNS
<1>5. -1 <= k /\ (now >= Cadence => 0 <= k)
  <2>1. (-2) * Cadence < k * Cadence
    BY <1>1, <1>2, SMT DEF AnchorNS
  <2>2. now >= Cadence => (-1) * Cadence < k * Cadence
    BY <1>1, <1>2, SMT DEF AnchorNS
  <2>3. -2 < k
    BY <2>1, <1>1, <1>2, FactorCancelled
  <2>4. now >= Cadence => -1 < k
    BY <2>2, <1>1, <1>2, FactorCancelled
  <2> QED BY <2>3, <2>4, <1>2
<1>6. ASSUME NEW n \in Nat, AnchorNS(p, n) <= now PROVE n < k + 1
  <2>1. AnchorNS(p, n) < AnchorNS(p, k + 1)
    BY <1>1, <1>2, <1>4, <1>6, AnchorTimes
  <2> QED BY <1>2, <2>1, EarlierFrame
<1> QED BY <1>1, <1>2, <1>3, <1>4, <1>5, <1>6

(* A set of frames has an earliest one: min over the history bars.         *)
LEMMA EarliestOf ==
  ASSUME NEW T \in SUBSET Nat, T # {}
  PROVE  \E x \in T : \A y \in T : x <= y
<1> DEFINE R == OpToRel(<, Nat)
<1>1. ASSUME NEW x \in T, NEW y \in T, y < x PROVE <<y, x>> \in R
  BY <1>1 DEF OpToRel
<1>2. IsWellFoundedOn(R, Nat)
  BY NatLessThanWellFounded
<1> HIDE DEF R
<1>3. PICK x \in T : \A y \in T : ~(<<y, x>> \in R)
  BY <1>2, WFMin
<1>4. \A y \in T : ~(y < x)
  BY <1>1, <1>3
<1> QED BY <1>4

-----------------------------------------------------------------------------
(* The types of the state and of the constants, as the steps below use     *)
(* them.                                                                   *)
LEMMA HubFacts ==
  ASSUME LiveTypeOK
  PROVE  /\ MaxFrames \in Nat \ {0} /\ Cadence \in Nat \ {0} /\ LastIndex \in Nat
         /\ lastWritten \in Nat /\ cur \in Phases
         /\ \A p \in Phases : phaseNext[p] \in Nat /\ NextAnchorNS(p) \in Nat
         /\ \A r \in Rows : PhaseOf[r] \in Phases /\ newest[r] \in Nat
  BY LiveRingAssumption, AnchorTimes DEF LiveTypeOK, NextAnchorNS

(* Initially nothing is written, and every frame before the hub's first is *)
(* passed over.                                                            *)
LEMMA InitHub == LiveInit /\ RecoveryInit => HubInv
<1> SUFFICES ASSUME LiveInit, RecoveryInit PROVE HubInv
  OBVIOUS
<1>1. PICK now \in StartNS : phaseNext = [p \in Phases |-> FirstAfter(p, now)]
  BY DEF LiveInit
<1>2. now \in Nat /\ now >= Cadence /\ Cadence \in Nat \ {0}
  BY LiveRingAssumption
<1>3. \A p \in Phases : /\ phaseNext[p] \in Nat /\ phaseNext[p] > 0
                        /\ now < NextAnchorNS(p) /\ NextAnchorNS(p) <= now + Cadence
                        /\ NextAnchorNS(p) \in Nat
  BY <1>1, <1>2, FirstAnchorAfter, AnchorTimes DEF NextAnchorNS
<1> DEFINE Start == /\ lastWritten = 0 /\ committing = FALSE
                    /\ newest = [r \in Rows |-> 0]
                    /\ slotAnchor = [r \in Rows |-> [s \in Slots |-> 0]]
                    /\ slotData = [r \in Rows |-> [s \in Slots |-> 0]]
                    /\ frameAnchor = [p \in Phases |-> [s \in Slots |-> 0]]
<1>start. Start /\ daemon = "running" /\ bootID = 1 /\ generation = 1
  BY DEF LiveInit, RecoveryInit, Unset
<1> HIDE DEF Start
<1>before. \A p \in Phases, n \in Nat : n < phaseNext[p] => <<p, n>> \in passedOver
  BY <1>3 DEF LiveInit
<1>4. LiveTypeOK
  <2>1. phaseNext \in [Phases -> Nat]
    BY <1>1, <1>3
  <2>2. cur \in Phases
    BY LiveRingAssumption DEF LiveInit
  <2>3. passedOver \subseteq Phases \X Nat
    BY <1>3 DEF LiveInit
  <2> QED BY <2>1, <2>2, <2>3 DEF LiveInit, LiveTypeOK, Unset, historyVars
<1>5. RecoveryTypeOK
  BY RecoveryAssumption DEF RecoveryInit, RecoveryTypeOK, NoPrices, NoBar
<1>6. InvClock
  <2>1. \A p, q \in Phases : NextAnchorNS(p) <= NextAnchorNS(q) + Cadence
    BY <1>2, <1>3
  <2>2. 0 <= (LastIndex + 1) * Cadence
    BY <1>2, LiveRingAssumption, SMT
  <2> QED BY <1>2, <1>3, <1>start, <1>before, <2>1, <2>2 DEF Start, InvClock, Booting
<1>7. InvNewest
  <2>1. \A r \in Rows : /\ phaseNext[PhaseOf[r]] \in Nat /\ phaseNext[PhaseOf[r]] > 0
                        /\ newest[r] = 0 /\ ~Committing(r)
    BY <1>3, <1>start, LiveRingAssumption DEF Start, Committing
  <2> QED BY <2>1 DEF InvNewest
<1>8. InvAnchors
  BY <1>start, SlotOfRing, LiveRingAssumption DEF Start, InvAnchors, Held, Unset
<1>9. InvFrames
  BY <1>3, <1>before, LiveRingAssumption DEF InvFrames
<1>10. InvSub /\ InvGeneration
  BY <1>start DEF InvSub, InvGeneration, Booting
<1> QED BY <1>4, <1>5, <1>6, <1>7, <1>8, <1>9, <1>10 DEF HubInv, HubTypeOK

-----------------------------------------------------------------------------
(* A frame that was begun stays in its slot until the next one there is    *)
(* begun; and no frame is ever begun after a later one of its row.         *)
LEMMA HeldStep ==
  ASSUME HubInv, Hub, NEW r \in Rows
  PROVE  /\ newest[r] <= newest'[r]
         /\ \A n \in Nat : n <= newest[r] /\ Held(r, n) => Held(r, n)'
<1>1. LiveTypeOK /\ InvNewest
  BY DEF HubInv, HubTypeOK
<1>2. \A q \in Rows : PhaseOf[q] \in Phases /\ newest[q] \in Nat
  BY <1>1, HubFacts
<1>3. CASE UNCHANGED <<slotData, newest>>
  BY <1>2, <1>3 DEF Held, Lapped
<1>4. ASSUME NEW q \in Rows, Running, CopyFirstHalf(q) \/ CopySecondHalf(q)
      PROVE  /\ newest[r] <= newest'[r]
             /\ \A n \in Nat : n <= newest[r] /\ Held(r, n) => Held(r, n)'
  <2> DEFINE m == phaseNext[PhaseOf[q]]
  <2>1. committing /\ cur = PhaseOf[q]
    BY <1>4 DEF CopyFirstHalf, CopySecondHalf
  <2>2. m \in Nat /\ Slot(m) \in Slots /\ MaxFrames \in Nat \ {0} /\ newest[q] <= m
    BY <1>1, <1>2, HubFacts, SlotOfRing DEF InvNewest
  <2>3. /\ \A s \in Slots : ~(r = q /\ s = Slot(m)) => slotData'[r][s] = slotData[r][s]
        /\ newest'[r] = IF r = q THEN m ELSE newest[r]
        /\ CopySecondHalf(q) => slotData'[q][Slot(m)] = m
        /\ CopyFirstHalf(q) => newest[q] < m
    <3>1. /\ slotData' \in {[slotData EXCEPT ![q][Slot(m)] = Torn],
                            [slotData EXCEPT ![q][Slot(m)] = m]}
          /\ CopySecondHalf(q) => slotData' = [slotData EXCEPT ![q][Slot(m)] = m]
      BY <1>4, <2>1 DEF CopyFirstHalf, CopySecondHalf
    <3>2. newest'[r] = IF r = q THEN m ELSE newest[r]
      BY <1>1, <1>4, <2>1
         DEF CopyFirstHalf, CopySecondHalf, historyVars, LiveTypeOK, InvNewest, Committing
    <3>3. CopyFirstHalf(q) => newest[q] < m
      BY <1>1, <1>4, <2>1 DEF CopyFirstHalf, InvNewest, Committing
    <3> QED BY <1>1, <2>2, <3>1, <3>2, <3>3 DEF LiveTypeOK
  <2> HIDE DEF m
  <2>4. newest[r] <= newest'[r]
    BY <1>2, <2>2, <2>3
  <2>5. ASSUME NEW n \in Nat, n <= newest[r], Held(r, n) PROVE Held(r, n)'
    <3>1. CASE r = q /\ Slot(n) = Slot(m)
      <4>1. n = m \/ n + MaxFrames <= m
        BY <1>2, <2>2, <2>5, <3>1, SameSlot
      <4>2. n = m => CopySecondHalf(q)
        BY <1>2, <1>4, <2>2, <2>3, <2>5, <3>1
      <4> QED BY <2>2, <2>3, <3>1, <4>1, <4>2 DEF Held, Lapped
    <3>2. CASE ~(r = q /\ Slot(n) = Slot(m))
      <4>1. slotData'[r][Slot(n)] = slotData[r][Slot(n)]
        BY <2>3, <3>2, SlotOfRing
      <4>2. Lapped(r, n) => Lapped(r, n)'
        BY <1>2, <2>2, <2>3, <2>4 DEF Lapped
      <4> QED BY <2>5, <4>1, <4>2 DEF Held
    <3> QED BY <3>1, <3>2
  <2> QED BY <2>4, <2>5
<1>5. \/ UNCHANGED <<slotData, newest>>
      \/ Running /\ \E q \in Rows : CopyFirstHalf(q) \/ CopySecondHalf(q)
  <2>1. CASE CommitStep
    BY <2>1 DEF CommitStep, StoreFrameAnchor, StoreFirstAnchor, CloseHub, StoreAnchor,
                historyVars
  <2>2. CASE ~CommitStep
    BY <2>2 DEF Hub, CloseBar, ClosePhase, SetFrameFlags, FinalizeFrame,
         CommitFrameFinalize, Kill, PublishRecovery, StoreMode, StoreBootID, Quarantine,
         Replace, SeedAndRun, liveVars, historyVars
  <2> QED BY <2>1, <2>2
<1> QED BY <1>3, <1>4, <1>5

-----------------------------------------------------------------------------
(* Each action of the hub preserves the invariant *)

(* CloseBar begins a commit: the frame's row is still to be copied. *)
LEMMA CloseBarStep == ASSUME HubInv, CloseBar PROVE HubInv'
<1>1. /\ LiveTypeOK /\ RecoveryTypeOK /\ InvClock /\ InvNewest /\ InvAnchors
      /\ InvFrames /\ InvSub /\ InvGeneration
  BY DEF HubInv, HubTypeOK
<1>2. PICK p \in Phases :
        /\ ~committing /\ committing' = TRUE /\ cur' = p /\ status # "closed"
        /\ phaseNext[p] <= LastIndex
        /\ \A q \in Phases : NextAnchorNS(p) <= NextAnchorNS(q)
        /\ stage' = [r \in Rows |-> "todo"]
        /\ UNCHANGED <<firstAnchor, lastWritten, status, slotAnchor, slotData,
                       frameAnchor, phaseNext, newest, passedOver>>
  BY DEF CloseBar, ClosePhase, Closed, historyVars
<1>3. daemon = "running" /\ UNCHANGED <<daemon, restarts, bootNS, recovering, generation,
                                        recMode, bootID, cold, phaseSlots>>
  BY DEF CloseBar, Running, bootVars, headerVars
<1>4. phaseNext[p] \in Nat /\ Slot(phaseNext[p]) \in Slots
  BY <1>1, <1>2, HubFacts, SlotOfRing
<1>5. LiveTypeOK'
  BY <1>1, <1>2 DEF LiveTypeOK
<1>6. RecoveryTypeOK'
  <2>1. prices' \in [Rows -> [0 .. QueueSize - 1 -> Nat \cup {Prevailing}]]
    <3>1. \A r \in Rows : PricesWith(r, phaseNext[p])
                            \in [0 .. QueueSize - 1 -> Nat \cup {Prevailing}]
      BY <1>1, <1>4 DEF PricesWith, RecoveryTypeOK
    <3> QED BY <1>1, <1>2, <3>1 DEF CloseBar, RecoveryTypeOK
  <2>2. exact' \in [Rows -> [Slots -> BOOLEAN]]
    <3>1. \A r \in Rows : ReturnsExact(r, phaseNext[p]) \in BOOLEAN
      BY DEF ReturnsExact
    <3>2. \A r \in Rows : [exact[r] EXCEPT ![Slot(phaseNext[p])] =
                             ReturnsExact(r, phaseNext[p])] \in [Slots -> BOOLEAN]
      BY <1>1, <3>1 DEF RecoveryTypeOK
    <3>3. exact' = [r \in Rows |->
            IF PhaseOf[r] = p
              THEN [exact[r] EXCEPT ![Slot(phaseNext[p])] = ReturnsExact(r, phaseNext[p])]
              ELSE exact[r]]
      BY <1>2 DEF CloseBar
    <3> QED BY <1>1, <3>2, <3>3 DEF RecoveryTypeOK
  <2>3. flags' \in [Phases -> [Slots -> BOOLEAN]]
    BY <1>1, <1>2 DEF CloseBar, RecoveryTypeOK
  <2> QED BY <1>1, <1>3, <2>1, <2>2, <2>3 DEF RecoveryTypeOK
<1>7. InvClock'
  BY <1>1, <1>2, <1>3 DEF InvClock, Booting, NextAnchorNS
<1>8. InvNewest'
  BY <1>1, <1>2, <1>3 DEF InvNewest, Committing, Running
<1>9. InvAnchors' /\ InvFrames'
  BY <1>1, <1>2 DEF InvAnchors, InvFrames, Held, Lapped
<1>10. InvSub' /\ InvGeneration'
  BY <1>1, <1>2, <1>3 DEF InvSub, InvGeneration, Booting
<1> QED BY <1>5, <1>6, <1>7, <1>8, <1>9, <1>10 DEF HubInv, HubTypeOK

(* SetFrameFlags touches nothing else. *)
LEMMA SetFrameFlagsStep == ASSUME HubInv, SetFrameFlags PROVE HubInv'
<1>1. UNCHANGED <<liveVars, daemon, bootVars, headerVars, cold, prices, phaseSlots, exact>>
  BY DEF SetFrameFlags
<1>2. flags' = [flags EXCEPT ![cur][Slot(phaseNext[cur])] = TRUE]
  BY DEF SetFrameFlags
<1> USE <1>1 DEF liveVars, historyVars, bootVars, headerVars
<1>3. HubTypeOK'
  BY <1>2 DEF HubInv, HubTypeOK, LiveTypeOK, RecoveryTypeOK
<1>4. InvClock' /\ InvNewest'
  BY DEF HubInv, InvClock, InvNewest, Committing, Booting, Running, NextAnchorNS
<1>5. InvAnchors' /\ InvFrames'
  BY DEF HubInv, InvAnchors, InvFrames, Held, Lapped
<1>6. InvSub' /\ InvGeneration'
  BY DEF HubInv, InvSub, InvGeneration, Booting
<1> QED BY <1>3, <1>4, <1>5, <1>6 DEF HubInv

(* A frame that is finalized has been begun and stored, row by row: it is  *)
(* the newest of the rows of its phase, and its anchor the last published. *)
LEMMA FinalizeFrameStep == ASSUME HubInv, FinalizeFrame PROVE HubInv'
<1>1. /\ LiveTypeOK /\ RecoveryTypeOK /\ InvClock /\ InvNewest /\ InvAnchors
      /\ InvFrames /\ InvSub /\ InvGeneration
  BY DEF HubInv, HubTypeOK
<1>2. /\ committing /\ \A r \in RowsOf(cur) : stage[r] = "stored"
      /\ lastWritten' = NextAnchorNS(cur)
      /\ phaseNext' = [phaseNext EXCEPT ![cur] = @ + 1]
      /\ committing' = FALSE
      /\ UNCHANGED <<firstAnchor, status, slotAnchor, slotData, frameAnchor, cur,
                     stage, newest, passedOver>>
  BY DEF FinalizeFrame, CommitFrameFinalize, FrameStored, AllStored, historyVars
<1>3. /\ daemon = "running" /\ cold' = ColdAfter
      /\ phaseSlots' = [phaseSlots EXCEPT ![cur] = @ + 1]
      /\ UNCHANGED <<daemon, restarts, bootNS, recovering, generation, recMode, bootID,
                     flags, prices, exact>>
  BY DEF FinalizeFrame, Running, bootVars, headerVars
<1>4. /\ cur \in Phases /\ phaseNext[cur] \in Nat /\ Cadence \in Nat \ {0}
      /\ \A p \in Phases : phaseNext[p] \in Nat /\ NextAnchorNS(p) \in Nat
      /\ \A r \in Rows : PhaseOf[r] \in Phases /\ newest[r] \in Nat
  BY <1>1, HubFacts
<1>5. /\ phaseNext' \in [Phases -> Nat] /\ lastWritten' \in Nat
      /\ \A p \in Phases : phaseNext'[p] = IF p = cur THEN phaseNext[p] + 1 ELSE phaseNext[p]
  BY <1>1, <1>2, <1>4 DEF LiveTypeOK
<1>6. HubTypeOK'
  <2>1. cold' \in 0 .. ColdBars
    BY <1>1, <1>3, RecoveryAssumption DEF ColdAfter, RecoveryTypeOK
  <2>2. LiveTypeOK'
    BY <1>1, <1>2, <1>5 DEF LiveTypeOK
  <2>3. phaseSlots' \in [Phases -> Nat]
    BY <1>1, <1>3, <1>4 DEF RecoveryTypeOK
  <2>4. RecoveryTypeOK'
    BY <1>1, <1>3, <2>1, <2>3 DEF RecoveryTypeOK
  <2> QED BY <2>2, <2>4 DEF HubTypeOK
<1>7. \A p \in Phases :
        /\ NextAnchorNS(p)' = IF p = cur THEN NextAnchorNS(p) + Cadence ELSE NextAnchorNS(p)
        /\ NextAnchorNS(cur) <= NextAnchorNS(p)
  BY <1>1, <1>2, <1>4, <1>5, AnchorTimes DEF InvClock, NextAnchorNS
<1>8. \A r \in RowsOf(cur) : /\ newest[r] = phaseNext[cur]
                             /\ slotData[r][Slot(phaseNext[cur])] = phaseNext[cur]
                             /\ PhaseOf[r] = cur
  BY <1>1, <1>2 DEF InvNewest, Committing, RowsOf
<1>9. InvClock'
  <2>1. \A p \in Phases : phaseNext'[p] > 0 /\ lastWritten' <= NextAnchorNS(p)'
    BY <1>1, <1>2, <1>4, <1>5, <1>7 DEF InvClock
  <2>2. lastWritten' >= Cadence
    <3>1. phaseNext[cur] > 0
      BY <1>1, <1>4 DEF InvClock
    <3> QED BY <1>2, <1>4, <3>1, AnchorTimes DEF NextAnchorNS
  <2>3. ASSUME NEW p \in Phases, NEW q \in Phases
        PROVE  NextAnchorNS(p)' <= NextAnchorNS(q)' + Cadence
    <3>1. NextAnchorNS(p) <= NextAnchorNS(q) + Cadence
      BY <1>1 DEF InvClock
    <3>2. NextAnchorNS(cur) <= NextAnchorNS(q)
      BY <1>7
    <3> QED BY <1>4, <1>7, <3>1, <3>2
  <2>4. ASSUME NEW p \in Phases, NEW n \in Nat,
               lastWritten' < AnchorNS(p, n), n < phaseNext'[p]
        PROVE  <<p, n>> \in passedOver
    <3>1. lastWritten < AnchorNS(p, n)
      BY <1>1, <1>2, <1>4, <2>4, AnchorTimes DEF InvClock, LiveTypeOK
    <3>2. n < phaseNext[p] \/ (p = cur /\ n = phaseNext[cur])
      BY <1>4, <1>5, <2>4
    <3>3. ~(p = cur /\ n = phaseNext[cur])
      BY <1>2, <1>4, <2>4 DEF NextAnchorNS
    <3> QED BY <1>1, <3>1, <3>2, <3>3 DEF InvClock
  <2>5. lastWritten' <= (LastIndex + 1) * Cadence
    <3>1. phaseNext[cur] <= LastIndex /\ LastIndex \in Nat
      BY <1>1, <1>2, LiveRingAssumption DEF InvClock
    <3>2. NextAnchorNS(cur) <= AnchorNS(cur, LastIndex)
      BY <1>4, <3>1, EarlierAnchor DEF NextAnchorNS
    <3>3. AnchorNS(cur, LastIndex) <= (LastIndex + 1) * Cadence
      <4>1. Offset[cur] \in Nat /\ Offset[cur] < Cadence
        BY <1>4, LiveRingAssumption
      <4> QED BY <1>4, <3>1, <4>1, SMT DEF AnchorNS
    <3>4. AnchorNS(cur, LastIndex) \in Nat /\ (LastIndex + 1) * Cadence \in Nat
      BY <1>4, <3>1, AnchorTimes, SMT
    <3> QED BY <1>2, <1>4, <3>2, <3>3, <3>4
  <2>6. ASSUME DistinctOffsets, NEW p \in Phases PROVE lastWritten' < NextAnchorNS(p)'
    <3>1. CASE p = cur
      BY <1>2, <1>4, <1>7, <3>1
    <3>2. CASE p # cur
      <4>1. NextAnchorNS(cur) # NextAnchorNS(p)
        BY <1>4, <2>6, <3>2, AnchorPhase DEF DistinctOffsets, NextAnchorNS
      <4> QED BY <1>2, <1>4, <1>7, <3>2, <4>1
    <3> QED BY <3>1, <3>2
  <2> QED BY <1>2, <1>3, <2>1, <2>2, <2>3, <2>4, <2>5, <2>6 DEF InvClock, Booting
<1>10. InvNewest'
  BY <1>1, <1>2, <1>3, <1>4, <1>5, <1>8
     DEF InvNewest, Committing, Running, RowsOf
<1>11. InvAnchors'
  BY <1>1, <1>2 DEF InvAnchors, Held, Lapped
<1>12. InvFrames'
  <2> SUFFICES ASSUME NEW r \in Rows, NEW n \in Nat, n < phaseNext'[PhaseOf[r]],
                      <<PhaseOf[r], n>> \notin passedOver
               PROVE  n <= newest[r] /\ Held(r, n)
    BY <1>2 DEF InvFrames, Held, Lapped
  <2>1. CASE n < phaseNext[PhaseOf[r]]
    BY <1>1, <2>1 DEF InvFrames
  <2>2. CASE PhaseOf[r] = cur /\ n = phaseNext[cur]
    BY <1>4, <1>8, <2>2 DEF RowsOf, Held
  <2> QED BY <1>4, <1>5, <2>1, <2>2
<1>13. InvSub' /\ InvGeneration'
  BY <1>1, <1>3 DEF InvSub, InvGeneration, Booting
<1> QED BY <1>6, <1>9, <1>10, <1>11, <1>12, <1>13 DEF HubInv

(* Copying the first half of a row begins its frame: whatever the slot     *)
(* held is a lap behind it.                                                *)
LEMMA CopyFirstHalfStep ==
  ASSUME HubInv, Running, UNCHANGED recoveryVars, NEW r \in Rows, CopyFirstHalf(r)
  PROVE  HubInv'
<1>1. /\ LiveTypeOK /\ RecoveryTypeOK /\ InvClock /\ InvNewest /\ InvAnchors
      /\ InvFrames /\ InvSub /\ InvGeneration
  BY DEF HubInv, HubTypeOK
<1> DEFINE m == phaseNext[PhaseOf[r]]
<1>2. /\ committing /\ cur = PhaseOf[r] /\ stage[r] = "todo"
      /\ stage' = [stage EXCEPT ![r] = "copying"]
      /\ slotData' = [slotData EXCEPT ![r][Slot(m)] = Torn]
      /\ newest' = [newest EXCEPT ![r] = m]
      /\ UNCHANGED <<firstAnchor, lastWritten, status, slotAnchor, frameAnchor,
                     phaseNext, committing, cur, passedOver>>
  BY DEF CopyFirstHalf
<1>3. UNCHANGED <<daemon, restarts, bootNS, recovering, generation, recMode, bootID,
                  cold, flags, prices, phaseSlots, exact>> /\ daemon = "running"
  BY DEF Running, recoveryVars, bootVars, headerVars, windowVars
<1>4. /\ m \in Nat /\ Slot(m) \in Slots /\ newest[r] < m /\ MaxFrames \in Nat \ {0}
      /\ \A q \in Rows : PhaseOf[q] \in Phases /\ newest[q] \in Nat
  BY <1>1, <1>2, <1>3, HubFacts, SlotOfRing DEF InvNewest, Committing, Running
<1> HIDE DEF m
<1>5. HubTypeOK'
  <2>1. LiveTypeOK'
    BY <1>1, <1>2, <1>4 DEF LiveTypeOK
  <2>2. RecoveryTypeOK'
    BY <1>1, <1>3 DEF RecoveryTypeOK
  <2> QED BY <2>1, <2>2 DEF HubTypeOK
<1>6. /\ \A q \in Rows : /\ newest'[q] = IF q = r THEN m ELSE newest[q]
                         /\ stage'[q] = IF q = r THEN "copying" ELSE stage[q]
      /\ \A q \in Rows, s \in Slots :
           slotData'[q][s] = IF q = r /\ s = Slot(m) THEN Torn ELSE slotData[q][s]
  BY <1>1, <1>2, <1>4 DEF LiveTypeOK
<1>7. InvClock' /\ InvGeneration'
  BY <1>1, <1>2, <1>3 DEF InvClock, InvGeneration, Booting, NextAnchorNS
<1>8. InvNewest'
  <2> SUFFICES ASSUME NEW q \in Rows
      PROVE LET k == phaseNext[PhaseOf[q]] IN
            /\ newest'[q] <= k
            /\ Committing(q) /\ stage'[q] # "todo" => newest'[q] = k
            /\ ~(Committing(q) /\ stage'[q] # "todo") => newest'[q] < k
            /\ Committing(q) /\ stage'[q] \in {"copied", "stored"} => slotData'[q][Slot(k)] = k
    BY <1>2, <1>3 DEF InvNewest, Committing, Running
  <2>1. CASE q = r
    BY <1>2, <1>4, <1>6, <2>1 DEF m, Committing
  <2>2. CASE q # r
    <3>1. Slot(phaseNext[PhaseOf[q]]) \in Slots
      BY <1>1, <1>4, HubFacts, SlotOfRing
    <3> QED BY <1>1, <1>3, <1>6, <2>2, <3>1 DEF InvNewest, Running
  <2> QED BY <2>1, <2>2
<1>9. \A q \in Rows, n \in Nat :
        n <= newest[q] /\ Held(q, n) => n <= newest'[q] /\ Held(q, n)'
  <2>1. CommitStep
    BY DEF CommitStep
  <2>2. \A q \in Rows : newest'[q] \in Nat
    BY <1>5 DEF HubTypeOK, LiveTypeOK
  <2> QED BY <1>4, <2>1, <2>2, HeldStep DEF Hub
<1>10. InvAnchors'
  BY <1>1, <1>2, <1>9 DEF InvAnchors
<1>11. InvFrames'
  BY <1>1, <1>2, <1>9 DEF InvFrames
<1>12. InvSub'
  BY <1>3 DEF InvSub, Booting
<1> QED BY <1>5, <1>7, <1>8, <1>10, <1>11, <1>12 DEF HubInv

(* The second half completes the row. *)
LEMMA CopySecondHalfStep ==
  ASSUME HubInv, Running, UNCHANGED recoveryVars, NEW r \in Rows, CopySecondHalf(r)
  PROVE  HubInv'
<1>1. /\ LiveTypeOK /\ RecoveryTypeOK /\ InvClock /\ InvNewest /\ InvAnchors
      /\ InvFrames /\ InvSub /\ InvGeneration
  BY DEF HubInv, HubTypeOK
<1> DEFINE m == phaseNext[PhaseOf[r]]
<1>2. /\ committing /\ cur = PhaseOf[r] /\ stage[r] = "copying"
      /\ stage' = [stage EXCEPT ![r] = "copied"]
      /\ slotData' = [slotData EXCEPT ![r][Slot(m)] = m]
      /\ UNCHANGED <<firstAnchor, lastWritten, status, slotAnchor, frameAnchor,
                     phaseNext, committing, cur, newest, passedOver>>
  BY DEF CopySecondHalf, historyVars
<1>3. UNCHANGED <<daemon, restarts, bootNS, recovering, generation, recMode, bootID,
                  cold, flags, prices, phaseSlots, exact>> /\ daemon = "running"
  BY DEF Running, recoveryVars, bootVars, headerVars, windowVars
<1>4. /\ m \in Nat /\ Slot(m) \in Slots /\ newest[r] = m /\ MaxFrames \in Nat \ {0}
      /\ \A q \in Rows : PhaseOf[q] \in Phases /\ newest[q] \in Nat
  BY <1>1, <1>2, HubFacts, SlotOfRing DEF InvNewest, Committing
<1> HIDE DEF m
<1>5. HubTypeOK'
  <2>1. LiveTypeOK'
    BY <1>1, <1>2, <1>4 DEF LiveTypeOK
  <2>2. RecoveryTypeOK'
    BY <1>1, <1>3 DEF RecoveryTypeOK
  <2> QED BY <2>1, <2>2 DEF HubTypeOK
<1>6. /\ \A q \in Rows : stage'[q] = IF q = r THEN "copied" ELSE stage[q]
      /\ \A q \in Rows, s \in Slots :
           slotData'[q][s] = IF q = r /\ s = Slot(m) THEN m ELSE slotData[q][s]
  BY <1>1, <1>2, <1>4 DEF LiveTypeOK
<1>7. InvClock' /\ InvGeneration'
  BY <1>1, <1>2, <1>3 DEF InvClock, InvGeneration, Booting, NextAnchorNS
<1>8. InvNewest'
  <2> SUFFICES ASSUME NEW q \in Rows
      PROVE LET k == phaseNext[PhaseOf[q]] IN
            /\ newest[q] <= k
            /\ Committing(q) /\ stage'[q] # "todo" => newest[q] = k
            /\ ~(Committing(q) /\ stage'[q] # "todo") => newest[q] < k
            /\ Committing(q) /\ stage'[q] \in {"copied", "stored"} => slotData'[q][Slot(k)] = k
    BY <1>2, <1>3 DEF InvNewest, Committing, Running
  <2>1. CASE q = r
    BY <1>2, <1>4, <1>6, <2>1 DEF m, Committing
  <2>2. CASE q # r
    <3>1. Slot(phaseNext[PhaseOf[q]]) \in Slots
      BY <1>1, <1>4, HubFacts, SlotOfRing
    <3> QED BY <1>1, <1>3, <1>6, <2>2, <3>1 DEF InvNewest, Running
  <2> QED BY <2>1, <2>2
<1>9. \A q \in Rows, n \in Nat :
        n <= newest[q] /\ Held(q, n) => n <= newest'[q] /\ Held(q, n)'
  <2>1. CommitStep
    BY DEF CommitStep
  <2>2. \A q \in Rows : newest'[q] \in Nat
    BY <1>5 DEF HubTypeOK, LiveTypeOK
  <2> QED BY <1>4, <2>1, <2>2, HeldStep DEF Hub
<1>10. InvAnchors'
  BY <1>1, <1>2, <1>9 DEF InvAnchors
<1>11. InvFrames'
  BY <1>1, <1>2, <1>9 DEF InvFrames
<1>12. InvSub'
  BY <1>3 DEF InvSub, Booting
<1> QED BY <1>5, <1>7, <1>8, <1>10, <1>11, <1>12 DEF HubInv

(* A row's anchor is stored when the row is in its slot. *)
LEMMA StoreAnchorStep ==
  ASSUME HubInv, Running, UNCHANGED recoveryVars, NEW r \in Rows, StoreAnchor(r)
  PROVE  HubInv'
<1>1. /\ LiveTypeOK /\ RecoveryTypeOK /\ InvClock /\ InvNewest /\ InvAnchors
      /\ InvFrames /\ InvSub /\ InvGeneration
  BY DEF HubInv, HubTypeOK
<1> DEFINE m == phaseNext[PhaseOf[r]]
<1>2. /\ committing /\ cur = PhaseOf[r] /\ stage[r] = "copied"
      /\ stage' = [stage EXCEPT ![r] = "stored"]
      /\ slotAnchor' = [slotAnchor EXCEPT ![r][Slot(m)] = m]
      /\ UNCHANGED <<firstAnchor, lastWritten, status, slotData, frameAnchor,
                     phaseNext, committing, cur, newest, passedOver>>
  BY DEF StoreAnchor, historyVars
<1>3. UNCHANGED <<daemon, restarts, bootNS, recovering, generation, recMode, bootID,
                  cold, flags, prices, phaseSlots, exact>> /\ daemon = "running"
  BY DEF Running, recoveryVars, bootVars, headerVars, windowVars
<1>4. /\ m \in Nat /\ Slot(m) \in Slots /\ newest[r] = m /\ slotData[r][Slot(m)] = m
      /\ \A q \in Rows : PhaseOf[q] \in Phases /\ newest[q] \in Nat
  BY <1>1, <1>2, HubFacts, SlotOfRing DEF InvNewest, Committing
<1> HIDE DEF m
<1>5. HubTypeOK'
  <2>1. LiveTypeOK'
    BY <1>1, <1>2, <1>4 DEF LiveTypeOK
  <2>2. RecoveryTypeOK'
    BY <1>1, <1>3 DEF RecoveryTypeOK
  <2> QED BY <2>1, <2>2 DEF HubTypeOK
<1>6. /\ \A q \in Rows : stage'[q] = IF q = r THEN "stored" ELSE stage[q]
      /\ \A q \in Rows, s \in Slots :
           slotAnchor'[q][s] = IF q = r /\ s = Slot(m) THEN m ELSE slotAnchor[q][s]
  BY <1>1, <1>2, <1>4 DEF LiveTypeOK
<1>7. InvClock' /\ InvGeneration'
  BY <1>1, <1>2, <1>3 DEF InvClock, InvGeneration, Booting, NextAnchorNS
<1>8. InvNewest'
  BY <1>1, <1>2, <1>3, <1>4, <1>6 DEF InvNewest, Committing, Running
<1>9. InvAnchors'
  <2>1. ASSUME NEW q \in Rows, NEW s \in Slots
        PROVE  slotAnchor'[q][s] = Unset \/ Slot(slotAnchor'[q][s]) = s
    BY <1>1, <1>6 DEF InvAnchors
  <2>2. ASSUME NEW q \in Rows, NEW n \in Nat,
               \/ slotAnchor'[q][Slot(n)] = n
               \/ frameAnchor[PhaseOf[q]][Slot(n)] = n
        PROVE  n <= newest[q] /\ Held(q, n)
    <3>1. CASE q = r /\ n = m
      BY <1>4, <3>1 DEF Held
    <3>2. CASE ~(q = r /\ n = m)
      BY <1>1, <1>6, <2>2, <3>2, SlotOfRing DEF InvAnchors
    <3> QED BY <3>1, <3>2
  <2> QED BY <1>2, <2>1, <2>2 DEF InvAnchors, Held, Lapped
<1>10. InvFrames'
  BY <1>1, <1>2 DEF InvFrames, Held, Lapped
<1>11. InvSub'
  BY <1>3 DEF InvSub, Booting
<1> QED BY <1>5, <1>7, <1>8, <1>9, <1>10, <1>11 DEF HubInv

(* The frame's anchor is stored when the anchors of all its rows are.      *)
LEMMA StoreFrameAnchorStep ==
  ASSUME HubInv, Running, UNCHANGED recoveryVars, StoreFrameAnchor
  PROVE  HubInv'
<1>1. /\ LiveTypeOK /\ RecoveryTypeOK /\ InvClock /\ InvNewest /\ InvAnchors
      /\ InvFrames /\ InvSub /\ InvGeneration
  BY DEF HubInv, HubTypeOK
<1> DEFINE m == phaseNext[cur]
<1>2. /\ committing /\ \A r \in RowsOf(cur) : stage[r] = "stored"
      /\ frameAnchor' = [frameAnchor EXCEPT ![cur][Slot(m)] = m]
      /\ UNCHANGED <<firstAnchor, lastWritten, status, slotAnchor, slotData,
                     phaseNext, committing, cur, stage, newest, passedOver>>
  BY DEF StoreFrameAnchor, AllStored, historyVars
<1>3. UNCHANGED <<daemon, restarts, bootNS, recovering, generation, recMode, bootID,
                  cold, flags, prices, phaseSlots, exact>> /\ daemon = "running"
  BY DEF Running, recoveryVars, bootVars, headerVars, windowVars
<1>4. /\ cur \in Phases /\ m \in Nat /\ Slot(m) \in Slots
      /\ \A r \in Rows : PhaseOf[r] \in Phases /\ newest[r] \in Nat
  BY <1>1, HubFacts, SlotOfRing
<1>5. \A r \in Rows : PhaseOf[r] = cur => newest[r] = m /\ slotData[r][Slot(m)] = m
  BY <1>1, <1>2 DEF InvNewest, Committing, RowsOf
<1> HIDE DEF m
<1>6. HubTypeOK'
  <2>1. LiveTypeOK'
    BY <1>1, <1>2, <1>4 DEF LiveTypeOK
  <2>2. RecoveryTypeOK'
    BY <1>1, <1>3 DEF RecoveryTypeOK
  <2> QED BY <2>1, <2>2 DEF HubTypeOK
<1>7. \A p \in Phases, s \in Slots :
        frameAnchor'[p][s] = IF p = cur /\ s = Slot(m) THEN m ELSE frameAnchor[p][s]
  BY <1>1, <1>2, <1>4 DEF LiveTypeOK
<1>8. InvClock' /\ InvNewest'
  BY <1>1, <1>2, <1>3
     DEF InvClock, InvNewest, Committing, Booting, Running, NextAnchorNS
<1>9. InvAnchors'
  <2>1. ASSUME NEW q \in Rows, NEW n \in Nat,
               \/ slotAnchor[q][Slot(n)] = n
               \/ frameAnchor'[PhaseOf[q]][Slot(n)] = n
        PROVE  n <= newest[q] /\ Held(q, n)
    <3>1. CASE PhaseOf[q] = cur /\ n = m
      BY <1>4, <1>5, <3>1 DEF Held
    <3>2. CASE ~(PhaseOf[q] = cur /\ n = m)
      BY <1>1, <1>4, <1>7, <2>1, <3>2, SlotOfRing DEF InvAnchors
    <3> QED BY <3>1, <3>2
  <2> QED BY <1>1, <1>2, <2>1 DEF InvAnchors, Held, Lapped
<1>10. InvFrames'
  BY <1>1, <1>2 DEF InvFrames, Held, Lapped
<1>11. InvSub' /\ InvGeneration'
  BY <1>1, <1>3 DEF InvSub, InvGeneration, Booting
<1> QED BY <1>6, <1>8, <1>9, <1>10, <1>11 DEF HubInv

(* FirstAnchorNS and the status of a hub that is closed are nobody's       *)
(* premise.                                                                *)
LEMMA HeaderWordStep ==
  ASSUME HubInv, Running, UNCHANGED recoveryVars, StoreFirstAnchor \/ CloseHub
  PROVE  HubInv'
<1>1. /\ LiveTypeOK /\ RecoveryTypeOK /\ InvClock /\ InvNewest /\ InvAnchors
      /\ InvFrames /\ InvSub /\ InvGeneration
  BY DEF HubInv, HubTypeOK
<1>2. UNCHANGED <<lastWritten, slotAnchor, slotData, frameAnchor, phaseNext,
                  committing, cur, stage, newest, passedOver>>
  BY DEF StoreFirstAnchor, CloseHub, historyVars
<1>3. UNCHANGED <<daemon, restarts, bootNS, recovering, generation, recMode, bootID,
                  cold, flags, prices, phaseSlots, exact>>
  BY DEF recoveryVars, bootVars, headerVars, windowVars
<1>4. HubTypeOK'
  <2>1. firstAnchor' \in Nat /\ status' \in {"running", "closed", "booting"}
    BY <1>1, HubFacts DEF StoreFirstAnchor, CloseHub, LiveTypeOK
  <2>2. LiveTypeOK'
    BY <1>1, <1>2, <2>1 DEF LiveTypeOK
  <2>3. RecoveryTypeOK'
    BY <1>1, <1>3 DEF RecoveryTypeOK
  <2> QED BY <2>2, <2>3 DEF HubTypeOK
<1>5. InvClock' /\ InvNewest'
  <2>1. status' = status \/ ~committing
    BY DEF StoreFirstAnchor, CloseHub
  <2> QED BY <1>1, <1>2, <1>3, <2>1
          DEF InvClock, InvNewest, Committing, Booting, Running, NextAnchorNS
<1>6. InvAnchors' /\ InvFrames'
  BY <1>1, <1>2 DEF InvAnchors, InvFrames, Held, Lapped
<1>7. InvSub' /\ InvGeneration'
  BY <1>1, <1>2, <1>3 DEF InvSub, InvGeneration, Booting
<1> QED BY <1>4, <1>5, <1>6, <1>7 DEF HubInv

LEMMA CommitStepStep == ASSUME HubInv, CommitStep PROVE HubInv'
  BY CopyFirstHalfStep, CopySecondHalfStep, StoreAnchorStep, StoreFrameAnchorStep,
     HeaderWordStep DEF CommitStep

(* A kill leaves the rings as they are, in the middle of a commit or not.  *)
LEMMA KillStep == ASSUME HubInv, Kill PROVE HubInv'
<1>1. /\ LiveTypeOK /\ RecoveryTypeOK /\ InvClock /\ InvNewest /\ InvAnchors
      /\ InvFrames /\ InvSub /\ InvGeneration
  BY DEF HubInv, HubTypeOK
<1>2. /\ committing' = FALSE /\ daemon' = "dead"
      /\ UNCHANGED <<firstAnchor, lastWritten, status, slotAnchor, slotData, frameAnchor,
                     phaseNext, cur, stage, newest, passedOver>>
      /\ UNCHANGED <<restarts, bootNS, recovering, generation, recMode, bootID,
                     cold, flags, prices, phaseSlots, exact>>
  BY DEF Kill, historyVars, bootVars, headerVars, windowVars
<1>3. HubTypeOK'
  <2>1. LiveTypeOK'
    BY <1>1, <1>2 DEF LiveTypeOK
  <2>2. RecoveryTypeOK'
    BY <1>1, <1>2 DEF RecoveryTypeOK
  <2> QED BY <2>1, <2>2 DEF HubTypeOK
<1>4. InvClock' /\ InvNewest'
  BY <1>1, <1>2 DEF InvClock, InvNewest, Committing, Booting, Running, NextAnchorNS
<1>5. InvAnchors' /\ InvFrames'
  BY <1>1, <1>2 DEF InvAnchors, InvFrames, Held, Lapped
<1>6. InvSub' /\ InvGeneration'
  BY <1>1, <1>2 DEF InvSub, InvGeneration, Booting
<1> QED BY <1>3, <1>4, <1>5, <1>6 DEF HubInv

(* Generation is stored before BootID, each once. *)
LEMMA PublishRecoveryStep == ASSUME HubInv, PublishRecovery PROVE HubInv'
<1>1. /\ LiveTypeOK /\ RecoveryTypeOK /\ InvClock /\ InvNewest /\ InvAnchors
      /\ InvFrames /\ InvSub /\ InvGeneration
  BY DEF HubInv, HubTypeOK
<1>2. /\ Booting /\ Booting' /\ daemon # "running" /\ daemon' \in {"moded", "booted"}
      /\ UNCHANGED <<firstAnchor, lastWritten, status, slotAnchor, slotData, frameAnchor,
                     phaseNext, committing, cur, stage, newest, passedOver>>
      /\ UNCHANGED <<restarts, bootNS, recovering, cold, flags, prices, phaseSlots, exact>>
  BY DEF PublishRecovery, StoreMode, StoreBootID, Booting, liveVars, historyVars,
         bootVars, windowVars
<1>3. /\ generation' \in Nat /\ bootID' \in Nat /\ recMode' \in {"cold", "sub", "gap"}
      /\ InvGeneration'
  BY <1>1 DEF PublishRecovery, StoreMode, StoreBootID, RecoveryTypeOK, InvGeneration
<1>4. HubTypeOK'
  <2>1. LiveTypeOK'
    BY <1>1, <1>2 DEF LiveTypeOK
  <2>2. RecoveryTypeOK'
    BY <1>1, <1>2, <1>3 DEF RecoveryTypeOK
  <2> QED BY <2>1, <2>2 DEF HubTypeOK
<1>5. InvClock' /\ InvNewest'
  BY <1>1, <1>2 DEF InvClock, InvNewest, Committing, Running, NextAnchorNS
<1>6. InvAnchors' /\ InvFrames'
  BY <1>1, <1>2 DEF InvAnchors, InvFrames, Held, Lapped
<1>7. InvSub'
  BY <1>1, <1>2 DEF InvSub
<1> QED BY <1>3, <1>4, <1>5, <1>6, <1>7 DEF HubInv

(* The clock never shows less than what the segment shows. *)
LEMMA InstantFacts ==
  ASSUME HubInv, NEW now \in Instants
  PROVE  /\ now \in Nat /\ now >= bootNS /\ now > lastWritten
         /\ \A r \in Rows : newest[r] # Unset => now >= AnchorNS(PhaseOf[r], newest[r])
<1>1. bootNS \in Nat /\ LastIndex \in Nat /\ Cadence \in Nat
  BY LiveRingAssumption DEF HubInv, HubTypeOK, RecoveryTypeOK
<1>2. now \in bootNS .. (LastIndex + 1) * Cadence
  BY DEF Instants
<1>3. now \in Nat /\ now >= bootNS
  <2>1. (LastIndex + 1) * Cadence \in Int
    BY <1>1, SMT
  <2> HIDE DEF Instants
  <2> QED BY <1>1, <1>2, <2>1
<1> QED BY <1>3 DEF Instants

(* A start that attaches decides on the mode by the downtime it sees: less *)
(* than a cadence has passed since any frame that was begun.               *)
LEMMA QuarantineStep ==
  ASSUME HubInv, NEW now \in Instants, Quarantine(now) PROVE HubInv'
<1>1. /\ LiveTypeOK /\ RecoveryTypeOK /\ InvClock /\ InvNewest /\ InvAnchors
      /\ InvFrames /\ InvSub /\ InvGeneration
  BY DEF HubInv, HubTypeOK
<1>2. /\ committing' = FALSE /\ daemon' = "quarantined" /\ status' = "booting"
      /\ restarts < MaxRestarts /\ restarts' = restarts + 1 /\ bootNS' = now
      /\ recovering' = ModeFor(now) /\ lastWritten > 0
      /\ UNCHANGED <<firstAnchor, lastWritten, slotAnchor, slotData, frameAnchor,
                     phaseNext, cur, stage, newest, passedOver>>
      /\ UNCHANGED <<generation, recMode, bootID, cold, flags, prices, phaseSlots, exact>>
  BY DEF Quarantine, Eligible, historyVars, headerVars, windowVars
<1>3. /\ now \in Nat /\ lastWritten \in Nat /\ Cadence \in Nat
      /\ \A r \in Rows : newest[r] # Unset => now >= AnchorNS(PhaseOf[r], newest[r])
      /\ \A r \in Rows : AnchorNS(PhaseOf[r], newest[r]) \in Nat
  BY <1>1, InstantFacts, HubFacts, AnchorTimes
<1>4. HubTypeOK'
  <2>1. LiveTypeOK'
    BY <1>1, <1>2 DEF LiveTypeOK
  <2>2. restarts' \in 0 .. MaxRestarts /\ recovering' \in {"sub", "gap"}
    BY <1>1, <1>2, RecoveryAssumption DEF RecoveryTypeOK, ModeFor
  <2>3. RecoveryTypeOK'
    BY <1>1, <1>2, <1>3, <2>2 DEF RecoveryTypeOK
  <2> QED BY <2>1, <2>3 DEF HubTypeOK
<1>5. InvClock' /\ InvNewest'
  BY <1>1, <1>2 DEF InvClock, InvNewest, Committing, Booting, Running, NextAnchorNS
<1>6. InvAnchors' /\ InvFrames'
  BY <1>1, <1>2 DEF InvAnchors, InvFrames, Held, Lapped
<1>7. InvSub'
  <2>1. recovering' = "sub" => now < lastWritten + Cadence
    BY <1>2, <1>3 DEF ModeFor, Downtime
  <2> QED BY <1>2, <1>3, <2>1 DEF InvSub
<1>8. InvGeneration'
  BY <1>1, <1>2 DEF InvGeneration, RecoveryTypeOK
<1> QED BY <1>4, <1>5, <1>6, <1>7, <1>8 DEF HubInv

(* Whoever has a replaced segment mapped keeps it as it is. *)
LEMMA ReplaceStep ==
  ASSUME HubInv, NEW now \in Instants, Replace(now) PROVE HubInv'
<1>1. /\ LiveTypeOK /\ RecoveryTypeOK /\ InvClock /\ InvNewest /\ InvAnchors
      /\ InvFrames /\ InvSub /\ InvGeneration
  BY DEF HubInv, HubTypeOK
<1>2. /\ daemon' = "replaced" /\ restarts' = restarts + 1 /\ recovering' = "cold"
      /\ restarts < MaxRestarts
      /\ UNCHANGED <<firstAnchor, lastWritten, status, slotAnchor, slotData, frameAnchor,
                     phaseNext, committing, cur, stage, newest, passedOver>>
      /\ UNCHANGED <<bootNS, generation, recMode, bootID, cold, flags, prices, phaseSlots,
                     exact>>
  BY DEF Replace, liveVars, historyVars, headerVars, windowVars
<1>3. ~committing
  BY <1>1 DEF InvClock, Replace, Exited, Running, Closed
<1>4. HubTypeOK'
  <2>1. LiveTypeOK'
    BY <1>1, <1>2 DEF LiveTypeOK
  <2>2. RecoveryTypeOK'
    BY <1>1, <1>2, RecoveryAssumption DEF RecoveryTypeOK
  <2> QED BY <2>1, <2>2 DEF HubTypeOK
<1>5. InvClock' /\ InvNewest'
  BY <1>1, <1>2, <1>3 DEF InvClock, InvNewest, Committing, Booting, Running, NextAnchorNS
<1>6. InvAnchors' /\ InvFrames'
  BY <1>1, <1>2 DEF InvAnchors, InvFrames, Held, Lapped
<1>7. InvSub' /\ InvGeneration'
  BY <1>1, <1>2 DEF InvSub, InvGeneration, Booting
<1> QED BY <1>4, <1>5, <1>6, <1>7 DEF HubInv

(* The bars a restart reads lie behind the last anchor published. *)
LEMMA HistoryFacts ==
  ASSUME HubInv, NEW r \in Rows, NEW n \in HistoryBars(r)
  PROVE  /\ n \in Nat /\ n > 0 /\ AnchorNS(PhaseOf[r], n) <= lastWritten
         /\ lastWritten < AnchorNS(PhaseOf[r], n + Lookback)
         /\ slotAnchor[r][Slot(n)] = n
<1> DEFINE latest == (lastWritten - Offset[PhaseOf[r]]) \div Cadence
<1>1. PhaseOf[r] \in Phases /\ lastWritten \in Nat /\ Lookback \in Nat
  BY HubFacts, RecoveryAssumption DEF HubInv, HubTypeOK
<1>2. /\ latest \in Int /\ AnchorNS(PhaseOf[r], latest) <= lastWritten
      /\ lastWritten < AnchorNS(PhaseOf[r], latest) + Cadence
  BY <1>1, LastAnchor
<1> HIDE DEF latest
<1>3. /\ n \in latest - (Lookback - 1) .. latest /\ n > 0
      /\ slotAnchor[r][Slot(n)] = n
  BY DEF HistoryBars, latest
<1>4. n \in Nat /\ n <= latest /\ latest + 1 <= n + Lookback
  BY <1>1, <1>2, <1>3
<1>5. AnchorNS(PhaseOf[r], n) \in Int /\ AnchorNS(PhaseOf[r], latest) \in Int
      /\ AnchorNS(PhaseOf[r], n + Lookback) \in Int
      /\ AnchorNS(PhaseOf[r], latest + 1) = AnchorNS(PhaseOf[r], latest) + Cadence
  BY <1>1, <1>2, <1>4, AnchorSteps
<1>6. /\ AnchorNS(PhaseOf[r], n) <= AnchorNS(PhaseOf[r], latest)
      /\ AnchorNS(PhaseOf[r], latest + 1) <= AnchorNS(PhaseOf[r], n + Lookback)
  BY <1>1, <1>2, <1>4, EarlierAnchor
<1>7. Cadence \in Nat
  BY LiveRingAssumption
<1> QED BY <1>1, <1>2, <1>3, <1>4, <1>5, <1>6, <1>7

(* The prices a restart starts from. *)
LEMMA StartPricesType ==
  ASSUME HubInv, NEW r \in Rows
  PROVE  StartPrices(r) \in [0 .. QueueSize - 1 -> Nat \cup {Prevailing}]
<1>1. SeededPrices(r) \in [0 .. QueueSize - 1 -> Nat \cup {Prevailing}]
  <2> DEFINE at(k) == {n \in HistoryBars(r) : n % QueueSize = k}
             first(k) == CHOOSE n \in at(k) : \A m \in at(k) : n <= m
  <2>1. ASSUME NEW k \in 0 .. QueueSize - 1, at(k) # {} PROVE first(k) \in Nat
    <3>1. at(k) \in SUBSET Nat
      BY HistoryFacts
    <3> HIDE DEF at
    <3>2. \E n \in at(k) : \A m \in at(k) : n <= m
      BY <2>1, <3>1, EarliestOf
    <3> QED BY <3>1, <3>2
  <2> HIDE DEF at, first
  <2>2. \A k \in 0 .. QueueSize - 1 :
          SeededPrices(r)[k] \in {NoBar, first(k), Prevailing}
          /\ (at(k) = {} => SeededPrices(r)[k] = NoBar)
    BY DEF SeededPrices, at, first
  <2>3. SeededPrices(r) = [k \in 0 .. QueueSize - 1 |-> SeededPrices(r)[k]]
    BY DEF SeededPrices
  <2>4. \A k \in 0 .. QueueSize - 1 : SeededPrices(r)[k] \in Nat \cup {Prevailing}
    BY <2>1, <2>2 DEF NoBar
  <2> QED BY <2>3, <2>4
<1> QED BY <1>1 DEF StartPrices, NoPrices, NoBar

(* Every phase starts again at its first anchor after the second look at   *)
(* the clock; the bars read lie behind it, so no queue moves on.           *)
LEMMA SeedAndRunFacts ==
  ASSUME HubInv, NEW now \in Instants, SeedAndRun(now)
  PROVE  /\ daemon = "booted" /\ daemon' = "running" /\ status' = "running"
         /\ bootNS' = now /\ now \in Nat /\ now > lastWritten /\ now >= Cadence
         /\ phaseNext' = [p \in Phases |-> FirstAfter(p, now)]
         /\ phaseSlots' = [p \in Phases |-> 0]
         /\ prices' = [r \in Rows |-> StartPrices(r)]
         /\ cold' = IF recovering = "sub" THEN 0 ELSE ColdBars
         /\ passedOver' = passedOver \cup
              UNION {{p} \X (phaseNext[p] .. FirstAfter(p, now) - 1) : p \in Phases}
         /\ UNCHANGED <<firstAnchor, lastWritten, slotAnchor, slotData, frameAnchor,
                        committing, cur, stage, newest, restarts, recovering, generation,
                        recMode, bootID, flags, exact>>
<1> DEFINE start == [p \in Phases |-> FirstAfter(p, now)]
           bars(p) == IF recovering = "sub" THEN UNION {HistoryBars(r) : r \in RowsOf(p)} ELSE {}
           behind(p) == {n \in bars(p) : n + 1 > start[p]}
           next == [p \in Phases |->
                      IF behind(p) = {} THEN start[p]
                      ELSE 1 + CHOOSE n \in behind(p) : \A m \in behind(p) : m <= n]
<1>1. now \in Nat /\ now > lastWritten /\ lastWritten \in Nat
  BY InstantFacts, HubFacts DEF HubInv, HubTypeOK
<1>2. ASSUME NEW p \in Phases PROVE behind(p) = {}
  <2> SUFFICES ASSUME NEW n \in bars(p), n + 1 > start[p] PROVE FALSE
    OBVIOUS
  <2>1. PICK r \in RowsOf(p) : n \in HistoryBars(r)
    OBVIOUS
  <2>2. r \in Rows /\ PhaseOf[r] = p
    BY DEF RowsOf
  <2>3. n \in Nat /\ AnchorNS(p, n) <= lastWritten
    BY <2>1, <2>2, HistoryFacts
  <2>4. n < FirstAfter(p, now) /\ FirstAfter(p, now) \in Nat
    BY <1>1, <2>3, FirstAnchorAfter, AnchorTimes
  <2> QED BY <2>3, <2>4
<1> HIDE DEF behind, bars
<1>3. next = start
  BY <1>2
<1>4. /\ daemon = "booted" /\ daemon' = "running" /\ status' = "running"
      /\ bootNS' = now /\ phaseNext' = next
      /\ phaseSlots' = [p \in Phases |-> IF behind(p) = {} THEN 0 ELSE next[p]]
      /\ prices' = [r \in Rows |-> StartPrices(r)]
      /\ cold' = IF recovering = "sub" THEN 0 ELSE ColdBars
      /\ passedOver' = passedOver \cup
           UNION {{p} \X (phaseNext[p] .. next[p] - 1) : p \in Phases}
      /\ UNCHANGED <<firstAnchor, lastWritten, slotAnchor, slotData, frameAnchor,
                     committing, cur, stage, newest, restarts, recovering, headerVars,
                     flags, exact>>
  BY DEF SeedAndRun, behind, bars
<1>5. now >= Cadence
  <2>1. lastWritten > 0 /\ lastWritten >= Cadence
    BY <1>1, <1>4 DEF HubInv, InvClock, Booting
  <2> QED BY <1>1, <2>1, LiveRingAssumption
<1>6. phaseSlots' = [p \in Phases |-> 0]
  BY <1>2, <1>4
<1>7. UNION {{p} \X (phaseNext[p] .. next[p] - 1) : p \in Phases}
        = UNION {{p} \X (phaseNext[p] .. FirstAfter(p, now) - 1) : p \in Phases}
  BY <1>3
<1> QED BY <1>1, <1>3, <1>4, <1>5, <1>6, <1>7 DEF headerVars

(* The restarted daemon takes up the lattice after every frame that was    *)
(* begun; the frames it passes over are on record.                         *)
LEMMA SeedAndRunStep ==
  ASSUME HubInv, NEW now \in StartInstants, SeedAndRun(now) PROVE HubInv'
<1>1. /\ LiveTypeOK /\ RecoveryTypeOK /\ InvClock /\ InvNewest /\ InvAnchors
      /\ InvFrames /\ InvSub /\ InvGeneration
  BY DEF HubInv, HubTypeOK
<1>2. now \in Instants
  BY DEF StartInstants
<1>3. /\ daemon = "booted" /\ daemon' = "running" /\ status' = "running"
      /\ bootNS' = now /\ now \in Nat /\ now > lastWritten /\ now >= Cadence
      /\ phaseNext' = [p \in Phases |-> FirstAfter(p, now)]
      /\ phaseSlots' = [p \in Phases |-> 0]
      /\ prices' = [r \in Rows |-> StartPrices(r)]
      /\ cold' = IF recovering = "sub" THEN 0 ELSE ColdBars
      /\ passedOver' = passedOver \cup
           UNION {{p} \X (phaseNext[p] .. FirstAfter(p, now) - 1) : p \in Phases}
      /\ UNCHANGED <<firstAnchor, lastWritten, slotAnchor, slotData, frameAnchor,
                     committing, cur, stage, newest, restarts, recovering, generation,
                     recMode, bootID, flags, exact>>
  BY <1>2, SeedAndRunFacts
<1>4. /\ \A p \in Phases : phaseNext[p] \in Nat
      /\ \A r \in Rows : PhaseOf[r] \in Phases /\ newest[r] \in Nat
      /\ lastWritten \in Nat /\ Cadence \in Nat /\ ~committing
  BY <1>1, <1>3, HubFacts DEF InvClock
<1>5. \A p \in Phases :
        /\ phaseNext'[p] = FirstAfter(p, now) /\ phaseNext'[p] \in Nat
        /\ phaseNext'[p] > 0 /\ NextAnchorNS(p)' \in Nat
        /\ now < NextAnchorNS(p)' /\ NextAnchorNS(p)' <= now + Cadence
        /\ \A n \in Nat : AnchorNS(p, n) <= now => n < phaseNext'[p]
  BY <1>3, FirstAnchorAfter, AnchorTimes DEF NextAnchorNS
<1>6. passedOver \subseteq passedOver' /\ passedOver' \subseteq Phases \X Nat
  BY <1>1, <1>3, <1>4, <1>5 DEF LiveTypeOK
<1>7. ASSUME NEW p \in Phases, NEW n \in Nat, n < phaseNext'[p], <<p, n>> \notin passedOver'
      PROVE  n < phaseNext[p] /\ <<p, n>> \notin passedOver
  <2>1. n \in phaseNext[p] .. FirstAfter(p, now) - 1 => <<p, n>> \in passedOver'
    BY <1>3
  <2> QED BY <1>4, <1>5, <1>6, <1>7, <2>1
<1>8. HubTypeOK'
  <2>1. phaseNext' \in [Phases -> Nat]
    BY <1>3, <1>5
  <2>2. LiveTypeOK'
    BY <1>1, <1>3, <1>6, <2>1 DEF LiveTypeOK
  <2>3. prices' \in [Rows -> [0 .. QueueSize - 1 -> Nat \cup {Prevailing}]]
    BY <1>3, StartPricesType
  <2>4. RecoveryTypeOK'
    BY <1>1, <1>3, <2>3, RecoveryAssumption DEF RecoveryTypeOK
  <2> QED BY <2>2, <2>4 DEF HubTypeOK
<1>9. InvClock'
  <2>1. \A p, q \in Phases : NextAnchorNS(p)' <= NextAnchorNS(q)' + Cadence
    BY <1>3, <1>4, <1>5
  <2>2. \A p \in Phases : phaseNext'[p] > 0 /\ lastWritten' <= NextAnchorNS(p)'
    BY <1>3, <1>4, <1>5
  <2>4. \A p \in Phases : lastWritten' < NextAnchorNS(p)'
    BY <1>3, <1>4, <1>5
  <2>3. ASSUME NEW p \in Phases, NEW n \in Nat, lastWritten' < AnchorNS(p, n),
               n < phaseNext'[p]
        PROVE  <<p, n>> \in passedOver'
    BY <1>1, <1>3, <1>7, <2>3, <1>6 DEF InvClock
  <2> QED BY <1>1, <1>3, <1>4, <2>1, <2>2, <2>3, <2>4 DEF InvClock, Booting
<1>10. InvNewest'
  <2>1. ASSUME NEW r \in Rows PROVE newest[r] < phaseNext'[PhaseOf[r]]
    <3>1. CASE newest[r] = Unset
      BY <1>4, <1>5, <3>1 DEF Unset
    <3>2. CASE newest[r] # Unset
      BY <1>2, <1>4, <1>5, <3>2, InstantFacts
    <3> QED BY <3>1, <3>2
  <2> QED BY <1>3, <1>4, <1>5, <2>1 DEF InvNewest, Committing
<1>11. InvAnchors'
  BY <1>1, <1>3 DEF InvAnchors, Held, Lapped
<1>12. InvFrames'
  BY <1>1, <1>3, <1>4, <1>7 DEF InvFrames, Held, Lapped
<1>13. InvSub' /\ InvGeneration'
  BY <1>1, <1>3 DEF InvSub, InvGeneration, Booting
<1> QED BY <1>8, <1>9, <1>10, <1>11, <1>12, <1>13 DEF HubInv

(* Every step of the hub preserves the invariant. *)
LEMMA HubStep == ASSUME HubInv, Hub PROVE HubInv'
<1>1. StartInstants \subseteq Instants
  BY DEF StartInstants
<1> QED BY <1>1, CloseBarStep, SetFrameFlagsStep, FinalizeFrameStep, CommitStepStep,
           KillStep, PublishRecoveryStep, QuarantineStep, ReplaceStep, SeedAndRunStep
        DEF Hub

(* Readers write nothing of the hub. *)
LEMMA HubStutter == ASSUME HubInv, UNCHANGED <<liveVars, recoveryVars>> PROVE HubInv'
<1> USE DEF liveVars, recoveryVars, historyVars, bootVars, headerVars, windowVars
<1>1. HubTypeOK'
  BY DEF HubInv, HubTypeOK, LiveTypeOK, RecoveryTypeOK
<1>2. InvClock' /\ InvNewest'
  BY DEF HubInv, InvClock, InvNewest, Committing, Booting, Running, NextAnchorNS
<1>3. InvAnchors' /\ InvFrames'
  BY DEF HubInv, InvAnchors, InvFrames, Held, Lapped
<1>4. InvSub' /\ InvGeneration'
  BY DEF HubInv, InvSub, InvGeneration, Booting
<1> QED BY <1>1, <1>2, <1>3, <1>4 DEF HubInv

-----------------------------------------------------------------------------
(* What the invariant says of a restart *)

(* A bar that a restart within a cadence reads has not been lapped: fewer  *)
(* frames are read back than the ring holds.                               *)
LEMMA SeedsOfHub == HubInv => SeedsWhole
<1> SUFFICES ASSUME HubInv, daemon = "booted", recovering = "sub",
                    NEW r \in Rows, NEW n \in HistoryBars(r)
             PROVE  slotData[r][Slot(n)] = n
  BY DEF SeedsWhole
<1>1. /\ n \in Nat /\ lastWritten < AnchorNS(PhaseOf[r], n + Lookback)
      /\ n <= newest[r] /\ Held(r, n)
  BY HistoryFacts DEF HubInv, InvAnchors
<1>2. /\ PhaseOf[r] \in Phases /\ newest[r] \in Nat /\ lastWritten \in Nat
      /\ Lookback \in Nat /\ Lookback < MaxFrames /\ MaxFrames \in Nat
      /\ Cadence \in Nat
  BY HubFacts, RecoveryAssumption DEF HubInv, HubTypeOK
<1>3. newest[r] < n + MaxFrames
  <2>1. CASE newest[r] = Unset
    BY <1>1, <1>2, <2>1 DEF Unset
  <2>2. CASE newest[r] # Unset
    <3>1. AnchorNS(PhaseOf[r], newest[r]) < lastWritten + Cadence
      BY <2>2 DEF HubInv, InvSub, Booting
    <3>2. n + Lookback \in Nat
      BY <1>1, <1>2
    <3>3. AnchorNS(PhaseOf[r], newest[r]) < AnchorNS(PhaseOf[r], n + Lookback) + Cadence
      <4>1. /\ AnchorNS(PhaseOf[r], newest[r]) \in Nat
            /\ AnchorNS(PhaseOf[r], n + Lookback) \in Nat
        BY <1>2, <3>2, AnchorTimes
      <4> QED BY <1>1, <1>2, <3>1, <4>1
    <3>4. newest[r] < n + Lookback + 1
      BY <1>2, <3>2, <3>3, WithinCadence
    <3> QED BY <1>1, <1>2, <3>4
  <2> QED BY <2>1, <2>2
<1> QED BY <1>1, <1>2, <1>3 DEF Held, Lapped

(* Only the seeding ends a start. *)
LEMMA StartedBySeeding ==
  ASSUME Hub, daemon = "booted", daemon' = "running"
  PROVE  \E now \in StartInstants : SeedAndRun(now)
BY DEF Hub, CloseBar, SetFrameFlags, FinalizeFrame, CommitStep, recoveryVars, Running,
       Exited, Kill, PublishRecovery, Quarantine, Replace

(* A frame passed over had come due when the clock was read for the first  *)
(* anchors.                                                                *)
LEMMA MissedIsDue ==
  ASSUME HubInv, NEW now \in StartInstants, SeedAndRun(now), NEW p \in Phases,
         NEW n \in Nat, n < phaseNext'[p]
  PROVE  AnchorNS(p, n) <= bootNS'
<1> DEFINE start == FirstAfter(p, now)
<1>1. now \in Instants /\ now \in Nat /\ bootNS' = now /\ n < start
  <2>1. now \in Instants
    BY DEF StartInstants
  <2> QED BY <2>1, SeedAndRunFacts
<1>2. start \in Nat /\ AnchorNS(p, start) <= now + Cadence
  BY <1>1, FirstAnchorAfter
<1> HIDE DEF start
<1>3. AnchorNS(p, n + 1) <= AnchorNS(p, start)
  BY <1>1, <1>2, EarlierAnchor
<1>4. /\ AnchorNS(p, n) \in Nat /\ AnchorNS(p, start) \in Nat /\ Cadence \in Nat
      /\ AnchorNS(p, n + 1) = AnchorNS(p, n) + Cadence
  BY <1>2, AnchorTimes, LiveRingAssumption
<1> QED BY <1>1, <1>2, <1>3, <1>4

(* Less than a cadence holds at most one anchor of each phase. *)
LEMMA MissesOfHub ==
  ASSUME HubInv, Hub, daemon = "booted", daemon' = "running", recovering = "sub",
         NEW p \in Phases
  PROVE  LET missed == {n \in 1 .. LastIndex :
                          AnchorNS(p, n) > lastWritten /\ n < phaseNext'[p]}
             before == {n \in missed : AnchorNS(p, n) <= bootNS}
         IN  /\ \A n \in missed : AnchorNS(p, n) <= bootNS'
             /\ \A n, m \in before : n = m
             /\ (lastWritten - Offset[p]) % Cadence = 0 => before = {}
<1>1. /\ bootNS < lastWritten + Cadence /\ bootNS \in Nat /\ lastWritten \in Nat
      /\ Cadence \in Nat \ {0} /\ LastIndex \in Nat /\ Offset[p] \in Nat
  BY HubFacts, LiveRingAssumption
     DEF HubInv, HubTypeOK, RecoveryTypeOK, InvSub, Booting
<1> DEFINE between(n) == AnchorNS(p, n) > lastWritten /\ AnchorNS(p, n) <= bootNS
<1>2. ASSUME NEW n \in Nat, NEW m \in Nat, between(n), between(m) PROVE n = m
  <2>1. /\ AnchorNS(p, n) < AnchorNS(p, m) + Cadence
        /\ AnchorNS(p, m) < AnchorNS(p, n) + Cadence
    BY <1>1, <1>2, AnchorTimes
  <2>2. n < m + 1 /\ m < n + 1
    BY <2>1, WithinCadence
  <2> QED BY <2>2
<1>3. ASSUME (lastWritten - Offset[p]) % Cadence = 0, NEW n \in Nat, between(n)
      PROVE  FALSE
  <2> DEFINE k == (lastWritten - Offset[p]) \div Cadence
  <2>1. k \in Int /\ lastWritten = AnchorNS(p, k)
    <3>1. lastWritten - Offset[p] \in Int
      BY <1>1
    <3>2. k \in Int /\ lastWritten - Offset[p] = Cadence * k
      BY <1>1, <1>3, <3>1, Floor
    <3> QED BY <1>1, <3>2, SMT DEF AnchorNS
  <2> HIDE DEF k
  <2>2. AnchorNS(p, k) < AnchorNS(p, n) /\ AnchorNS(p, n) < AnchorNS(p, k) + Cadence
    BY <1>1, <1>3, <2>1, AnchorTimes
  <2>3. k < n /\ n < k + 1
    BY <2>1, <2>2, EarlierFrame, WithinCadence
  <2> QED BY <2>1, <2>3
<1>4. ASSUME NEW n \in Nat, n < phaseNext'[p] PROVE AnchorNS(p, n) <= bootNS'
  BY <1>4, StartedBySeeding, MissedIsDue
<1> QED BY <1>1, <1>2, <1>3, <1>4

-----------------------------------------------------------------------------
(* The return queues *)

(* After a cold start or a gap the countdown and the bars closed since     *)
(* then add up; the queue of a row holds the bars closed since the start,  *)
(* each where its age says; and once there are enough of them, the frame   *)
(* being committed has returns over its own bars.                          *)
InvReturns ==
  /\ \A p \in Phases : phaseSlots[p] < phaseNext[p]
  /\ Running /\ recovering # "sub" =>
       \A p \in Phases : p = LastPhase => cold + phaseSlots[p] >= ColdBars
  /\ \A r \in Rows :
       LET p == PhaseOf[r]
           c == phaseSlots[p]
       IN  /\ \A i \in 1 .. QueueSize - 1 :
                i <= c => prices[r][(c - i) % QueueSize] = phaseNext[p] - i
           /\ Committing(r) => /\ prices[r][c % QueueSize] = phaseNext[p]
                               /\ c >= LongReturn => exact[r][Slot(phaseNext[p])]

LEMMA InitReturns == LiveInit /\ RecoveryInit => InvReturns
<1> SUFFICES ASSUME LiveInit, RecoveryInit PROVE InvReturns
  OBVIOUS
<1>1. HubInv
  BY InitHub
<1>2. /\ phaseSlots = [p \in Phases |-> 0] /\ cold = ColdBars /\ committing = FALSE
      /\ \A p \in Phases : phaseNext[p] \in Nat /\ phaseNext[p] > 0
      /\ \A r \in Rows : PhaseOf[r] \in Phases
  BY <1>1, HubFacts DEF LiveInit, RecoveryInit, HubInv, HubTypeOK, InvClock
<1> QED BY <1>2, RecoveryAssumption DEF InvReturns, Committing

(* Bars of a queue that are not older than it is long have places of their *)
(* own.                                                                    *)
LEMMA QueuePlaces ==
  ASSUME NEW c \in Nat, NEW i \in 1 .. QueueSize - 1, i <= c
  PROVE  /\ (c - i) % QueueSize \in 0 .. QueueSize - 1
         /\ (c - i) % QueueSize # c % QueueSize
<1>1. QueueSize \in Nat \ {0} /\ c - i \in Nat /\ c - i < c
  BY RecoveryAssumption
<1>2. (c - i) % QueueSize \in 0 .. QueueSize - 1
  BY <1>1, SMT
<1>3. (c - i) % QueueSize = c % QueueSize => (c - i) + QueueSize <= c
  BY <1>1, SameResidue
<1> QED BY <1>1, <1>2, <1>3

(* CloseBar puts the new bar into the place of the oldest. *)
LEMMA CloseBarReturns == ASSUME HubInv, InvReturns, CloseBar PROVE InvReturns'
<1>1. LiveTypeOK /\ RecoveryTypeOK
  BY DEF HubInv, HubTypeOK
<1>2. PICK p \in Phases :
        /\ ~committing /\ committing' = TRUE /\ cur' = p
        /\ UNCHANGED <<phaseNext, phaseSlots, cold, recovering, daemon>>
        /\ prices' = [r \in Rows |->
             IF PhaseOf[r] = p THEN PricesWith(r, phaseNext[p]) ELSE prices[r]]
        /\ exact' = [r \in Rows |->
             IF PhaseOf[r] = p
               THEN [exact[r] EXCEPT ![Slot(phaseNext[p])] = ReturnsExact(r, phaseNext[p])]
               ELSE exact[r]]
  BY DEF CloseBar, ClosePhase, bootVars
<1>3. \A q \in Phases : /\ phaseNext[q] \in Nat /\ phaseSlots[q] \in Nat
                        /\ phaseSlots[q] < phaseNext[q]
  BY <1>1, HubFacts DEF RecoveryTypeOK, InvReturns
<1> SUFFICES ASSUME NEW r \in Rows
             PROVE  LET c == phaseSlots[PhaseOf[r]]
                        n == phaseNext[PhaseOf[r]]
                    IN  /\ \A i \in 1 .. QueueSize - 1 :
                             i <= c => prices'[r][(c - i) % QueueSize] = n - i
                        /\ PhaseOf[r] = p =>
                             /\ prices'[r][c % QueueSize] = n
                             /\ c >= LongReturn => exact'[r][Slot(n)]
  BY <1>2, <1>3, RecoveryAssumption DEF InvReturns, Committing, Running, LastPhase
<1> DEFINE c == phaseSlots[PhaseOf[r]]
           n == phaseNext[PhaseOf[r]]
<1>4. /\ PhaseOf[r] \in Phases /\ c \in Nat /\ n \in Nat /\ c < n
      /\ QueueSize \in Nat \ {0} /\ LongReturn \in 1 .. QueueSize - 1
  BY <1>1, <1>3, HubFacts, RecoveryAssumption
<1>5. \A i \in 1 .. QueueSize - 1 : i <= c => prices[r][(c - i) % QueueSize] = n - i
  BY DEF InvReturns
<1>6. prices[r] \in [0 .. QueueSize - 1 -> Nat \cup {Prevailing}]
  BY <1>1 DEF RecoveryTypeOK
<1> HIDE DEF c, n
<1>7. CASE PhaseOf[r] # p
  BY <1>2, <1>5, <1>7 DEF c, n
<1>8. CASE PhaseOf[r] = p
  <2>1. prices'[r] = PricesWith(r, n)
    BY <1>2, <1>8 DEF n
  <2>2. c % QueueSize \in 0 .. QueueSize - 1
    BY <1>4, SMT
  <2>3. c > 0 => Initialized(r)
    <3> SUFFICES ASSUME c > 0, prices[r] = NoPrices PROVE FALSE
      BY DEF Initialized
    <3>1. 1 \in 1 .. QueueSize - 1 /\ 1 <= c
      BY <1>4
    <3>2. prices[r][(c - 1) % QueueSize] = n - 1 /\ (c - 1) % QueueSize \in 0 .. QueueSize - 1
      BY <1>4, <1>5, <3>1, QueuePlaces
    <3>3. prices[r][(c - 1) % QueueSize] = 0
      BY <3>2 DEF NoPrices, NoBar
    <3> QED BY <1>4, <3>2, <3>3
  <2>4. prices'[r][c % QueueSize] = n
    BY <1>6, <2>1, <2>2 DEF PricesWith, c
  <2>5. ASSUME NEW i \in 1 .. QueueSize - 1, i <= c
        PROVE  prices'[r][(c - i) % QueueSize] = n - i
    <3>1. (c - i) % QueueSize \in 0 .. QueueSize - 1 /\ (c - i) % QueueSize # c % QueueSize
      BY <1>4, <2>5, QueuePlaces
    <3>2. prices'[r] = [prices[r] EXCEPT ![c % QueueSize] = n]
      BY <1>4, <2>1, <2>3, <2>5 DEF PricesWith, c
    <3> QED BY <1>5, <1>6, <2>5, <3>1, <3>2
  <2>6. ASSUME c >= LongReturn PROVE exact'[r][Slot(n)]
    <3>1. \A k \in {1, LongReturn} : BarAgo(r, k) = n - k /\ n > k
      BY <1>4, <1>5, <2>6 DEF BarAgo, c
    <3>2. ReturnsExact(r, n)
      BY <3>1 DEF ReturnsExact
    <3>3. exact'[r] = [exact[r] EXCEPT ![Slot(n)] = ReturnsExact(r, n)]
      BY <1>2, <1>8 DEF n
    <3>4. exact[r] \in [Slots -> BOOLEAN] /\ Slot(n) \in Slots
      BY <1>1, <1>4, SlotOfRing DEF RecoveryTypeOK
    <3> QED BY <3>2, <3>3, <3>4
  <2> QED BY <2>4, <2>5, <2>6 DEF c, n
<1> QED BY <1>7, <1>8

(* A frame that is finalized is one more bar of its phase's queues. *)
LEMMA FinalizeFrameReturns ==
  ASSUME HubInv, InvReturns, FinalizeFrame PROVE InvReturns'
<1>1. LiveTypeOK /\ RecoveryTypeOK
  BY DEF HubInv, HubTypeOK
<1>2. /\ committing /\ committing' = FALSE /\ Running
      /\ phaseNext' = [phaseNext EXCEPT ![cur] = @ + 1]
      /\ phaseSlots' = [phaseSlots EXCEPT ![cur] = @ + 1]
      /\ cold' = ColdAfter
      /\ UNCHANGED <<prices, exact, recovering, daemon, cur>>
  BY DEF FinalizeFrame, CommitFrameFinalize, FrameStored, AllStored, bootVars
<1>3. /\ cur \in Phases /\ cold \in Nat /\ ColdBars \in Nat
      /\ \A p \in Phases : phaseNext[p] \in Nat /\ phaseSlots[p] \in Nat
      /\ \A p \in Phases : phaseSlots[p] < phaseNext[p]
      /\ \A r \in Rows : PhaseOf[r] \in Phases
      /\ QueueSize \in Nat \ {0}
  BY <1>1, HubFacts, RecoveryAssumption DEF RecoveryTypeOK, InvReturns
<1>4. \A p \in Phases :
        /\ phaseNext'[p] = IF p = cur THEN phaseNext[p] + 1 ELSE phaseNext[p]
        /\ phaseSlots'[p] = IF p = cur THEN phaseSlots[p] + 1 ELSE phaseSlots[p]
  BY <1>1, <1>2 DEF LiveTypeOK, RecoveryTypeOK
<1>5. \A p \in Phases : phaseSlots'[p] < phaseNext'[p]
  BY <1>3, <1>4
<1>6. ASSUME (Running /\ recovering # "sub")', NEW p \in Phases, p = LastPhase'
      PROVE  cold' + phaseSlots'[p] >= ColdBars
  <2>1. p = LastPhase /\ cold + phaseSlots[p] >= ColdBars
    BY <1>2, <1>6 DEF InvReturns, LastPhase
  <2> QED BY <1>2, <1>3, <1>4, <2>1 DEF ColdAfter
<1>7. ASSUME NEW r \in Rows, NEW i \in 1 .. QueueSize - 1, i <= phaseSlots'[PhaseOf[r]]
      PROVE  prices'[r][(phaseSlots'[PhaseOf[r]] - i) % QueueSize] = phaseNext'[PhaseOf[r]] - i
  <2> DEFINE c == phaseSlots[PhaseOf[r]]
             n == phaseNext[PhaseOf[r]]
  <2>1. c \in Nat /\ n \in Nat /\ i \in Nat
    BY <1>3
  <2>2. /\ \A j \in 1 .. QueueSize - 1 : j <= c => prices[r][(c - j) % QueueSize] = n - j
        /\ cur = PhaseOf[r] => prices[r][c % QueueSize] = n
    BY <1>2 DEF InvReturns, Committing
  <2> HIDE DEF c, n
  <2>3. CASE PhaseOf[r] # cur
    BY <1>2, <1>3, <1>4, <1>7, <2>2, <2>3 DEF c, n
  <2>4. CASE PhaseOf[r] = cur
    <3>1. phaseSlots'[PhaseOf[r]] = c + 1 /\ phaseNext'[PhaseOf[r]] = n + 1
      BY <1>3, <1>4, <2>4 DEF c, n
    <3>2. CASE i = 1
      <4>1. (c + 1) - i = c /\ (n + 1) - i = n
        BY <2>1, <3>2
      <4> QED BY <1>2, <2>2, <2>4, <3>1, <4>1
    <3>3. CASE i > 1
      <4>1. i - 1 \in 1 .. QueueSize - 1 /\ i - 1 <= c
        BY <1>3, <1>7, <2>1, <3>1, <3>3
      <4>2. prices[r][(c - (i - 1)) % QueueSize] = n - (i - 1)
        BY <2>2, <4>1
      <4>3. (c + 1) - i = c - (i - 1) /\ (n + 1) - i = n - (i - 1)
        BY <2>1
      <4> QED BY <1>2, <3>1, <4>2, <4>3
    <3> QED BY <2>1, <3>2, <3>3
  <2> QED BY <2>3, <2>4
<1>8. \A r \in Rows : ~Committing(r)'
  BY <1>2 DEF Committing
<1> QED BY <1>5, <1>6, <1>7, <1>8 DEF InvReturns

(* Everything else leaves queues and countdown alone, or starts them anew. *)
LEMMA HubReturns == ASSUME HubInv, InvReturns, Hub PROVE InvReturns'
<1>1. LiveTypeOK /\ RecoveryTypeOK /\ InvClock
  BY DEF HubInv, HubTypeOK
<1>2. CASE CloseBar \/ FinalizeFrame
  BY <1>2, CloseBarReturns, FinalizeFrameReturns
<1>3. CASE \E now \in StartInstants : SeedAndRun(now)
  <2>1. PICK now \in Instants : SeedAndRun(now)
    BY <1>3 DEF StartInstants
  <2>2. /\ phaseSlots' = [p \in Phases |-> 0] /\ daemon = "booted"
        /\ cold' = IF recovering = "sub" THEN 0 ELSE ColdBars
        /\ UNCHANGED <<recovering, committing>>
    BY <2>1, SeedAndRunFacts
  <2>3. ~committing
    BY <1>1, <2>2 DEF InvClock
  <2>4. \A p \in Phases : phaseNext'[p] \in Nat /\ phaseNext'[p] > 0
    BY HubStep, HubFacts DEF HubInv, HubTypeOK, InvClock, LiveTypeOK
  <2>5. \A r \in Rows : PhaseOf[r] \in Phases
    BY <1>1, HubFacts
  <2> QED BY <2>2, <2>3, <2>4, <2>5, RecoveryAssumption DEF InvReturns, Committing
<1>4. CASE \/ SetFrameFlags \/ CommitStep \/ Kill \/ PublishRecovery
           \/ \E now \in Instants : Quarantine(now) \/ Replace(now)
  <2>1. /\ UNCHANGED <<phaseNext, phaseSlots, prices, cold, exact, cur>>
        /\ committing' => committing
        /\ Running' => Running /\ UNCHANGED recovering
    BY <1>4 DEF SetFrameFlags, CommitStep, StoreFrameAnchor, StoreFirstAnchor, CloseHub,
         CopyFirstHalf, CopySecondHalf, StoreAnchor, Kill, PublishRecovery, StoreMode,
         StoreBootID, Quarantine, Replace, Running, liveVars, historyVars, recoveryVars,
         bootVars, headerVars, windowVars
  <2> QED BY <2>1 DEF InvReturns, Committing, LastPhase
<1> QED BY <1>2, <1>3, <1>4 DEF Hub

(* LastWrittenAnchorNS moves when a frame is finalized, and only then. *)
LEMMA PublishedByFinalize ==
  ASSUME HubInv, Hub, lastWritten' # lastWritten PROVE FinalizeFrame
<1>1. ASSUME NEW now \in StartInstants, SeedAndRun(now) PROVE lastWritten' = lastWritten
  BY <1>1 DEF SeedAndRun
<1> QED BY <1>1
        DEF Hub, CloseBar, ClosePhase, SetFrameFlags, CommitStep, StoreFrameAnchor,
            StoreFirstAnchor, CloseHub, CopyFirstHalf, CopySecondHalf, StoreAnchor, Kill,
            PublishRecovery, StoreMode, StoreBootID, Quarantine, Replace, liveVars

(* Once the countdown is over, as many bars have been closed as the        *)
(* longest return looks back.                                              *)
LEMMA FlagOfHub ==
  ASSUME HubInv, InvReturns, ColdBars >= LongReturn, Hub, lastWritten' # lastWritten,
         cur = LastPhase, recovering # "sub", NEW r \in RowsOf(cur)
  PROVE  CurrentFlag \/ exact[r][Slot(phaseNext[cur])]
<1>1. FinalizeFrame
  BY PublishedByFinalize
<1>2. committing /\ Running /\ ~FlagPending
  BY <1>1 DEF FinalizeFrame, CommitFrameFinalize, FrameStored, AllStored
<1>3. /\ r \in Rows /\ PhaseOf[r] = cur /\ cur \in Phases /\ cold \in Nat
      /\ phaseSlots[cur] \in Nat /\ ColdBars \in Nat /\ LongReturn \in Nat
  BY HubFacts, RecoveryAssumption DEF HubInv, HubTypeOK, RecoveryTypeOK, RowsOf
<1>4. CASE cold = 0
  <2>1. phaseSlots[cur] >= LongReturn
    BY <1>2, <1>3, <1>4 DEF InvReturns
  <2> QED BY <1>2, <1>3, <2>1 DEF InvReturns, Committing
<1>5. CASE cold # 0
  BY <1>2, <1>3, <1>5 DEF FlagPending
<1> QED BY <1>4, <1>5
=============================================================================
