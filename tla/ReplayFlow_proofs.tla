--------------------------- MODULE ReplayFlow_proofs ---------------------------
(***************************************************************************)
(* For every ring size above one, every cadence, set of phases and rows,   *)
(* and every non-empty set of gated phases: historical replay loses no     *)
(* frame and hands out no torn or wrong row.                               *)
(***************************************************************************)
EXTENDS ReplayFlow, TLAPS

-----------------------------------------------------------------------------
(* The inductive invariant *)

Committing(r) == pc = "commit" /\ cur = PhaseOf[r]

(* Base of WaitConsumerAdvance's distance. *)
Base == IF lastRead = 0 THEN pFirst ELSE lastRead

(* The frame the cursor of r points at is in its slot. *)
Available(r) ==
  \/ target[r] < phaseNext[PhaseOf[r]]
  \/ Committing(r) /\ stage[r] = "stored" /\ target[r] = phaseNext[PhaseOf[r]]

(* The first anchor is that of the phase that came first. *)
InvFirst ==
  /\ firstAnchor = 0 => phaseNext = Start
  /\ firstAnchor # 0 => \A p \in Phases :
       /\ firstAnchor <= AnchorNS(p, Start[p])
       /\ AnchorNS(p, Start[p]) < firstAnchor + Cadence
  /\ pFirst \in {0, firstAnchor}

(* The phases advance in step, the earliest first. *)
InvOrder ==
  /\ \A p \in Phases : Start[p] <= phaseNext[p]
  /\ \A p, q \in Phases : NextAnchorNS(p) - NextAnchorNS(q) <= Cadence
  /\ pc \in {"wait", "commit"} => Earliest(cur)

(* A cursor stands at or after everything the consumer has released. *)
InvRead ==
  \A r \in Rows : /\ Start[PhaseOf[r]] <= target[r]
                  /\ lastRead <= AnchorNS(PhaseOf[r], target[r])

(* What the test of WaitConsumerAdvance leaves behind: the last committed  *)
(* anchor of a gated phase, and the one being committed, had room.         *)
InvGate ==
  /\ \A g \in Gated : phaseNext[g] > Start[g] =>
       /\ pFirst # 0
       /\ NextAnchorNS(g) - Cadence - Base < (MaxFrames - 2) * Cadence
  /\ pc \in {"wait", "commit"} /\ cur \in Gated => pFirst # 0
  /\ pc = "commit" /\ cur \in Gated =>
       NextAnchorNS(cur) - Base < (MaxFrames - 2) * Cadence

(* The producer is less than a lap ahead of every cursor, and still is     *)
(* when the frame being committed is finalized.                            *)
InvLead ==
  \A r \in Rows :
    /\ phaseNext[PhaseOf[r]] < target[r] + MaxFrames
    /\ Committing(r) => phaseNext[PhaseOf[r]] + 1 < target[r] + MaxFrames

(* The ring of a row holds the last MaxFrames-1 frames before the next one *)
(* to commit, and nothing later than what the row's commit has stored.     *)
InvRing ==
  \A r \in Rows :
    LET m == phaseNext[PhaseOf[r]] IN
    /\ \A n \in Nat : Start[PhaseOf[r]] <= n /\ n < m /\ m < n + MaxFrames =>
         slotAnchor[r][Slot(n)] = n /\ slotData[r][Slot(n)] = n
    /\ \A s \in Slots :
         \/ slotAnchor[r][s] < m
         \/ slotAnchor[r][s] = m /\ Committing(r) /\ stage[r] = "stored"
    /\ Committing(r) /\ stage[r] \in {"copied", "stored"} =>
         slotData[r][Slot(m)] = m
    /\ Committing(r) /\ stage[r] = "stored" => slotAnchor[r][Slot(m)] = m
    /\ pc = "wait" => stage[r] = "todo"

(* A load in progress or done is of the frame the cursor points at. *)
InvLoad ==
  \A r \in Rows :
    /\ load[r] # "skipped"
    /\ load[r] # "due" => open /\ Available(r) /\ out[r] = target[r]

(* Until begin_all the cursors stand at the first frames. *)
InvOpen == ~open => lastRead = 0 /\ \A r \in Rows : target[r] = Start[PhaseOf[r]]

IInv == /\ TypeOK /\ InvFirst /\ InvOrder /\ InvRead /\ InvGate
        /\ InvLead /\ InvRing /\ InvLoad /\ InvOpen

-----------------------------------------------------------------------------
(* Arithmetic of anchors and slots *)

(* Cancelling a positive factor: ring distances in time are distances in   *)
(* frames.                                                                 *)
LEMMA CancelFactor ==
  ASSUME NEW a \in Int, NEW b \in Int, NEW k \in Nat \ {0}, a * k < b * k
  PROVE  a < b
  BY SMT

(* Two frames less than a lap apart never share a slot of the ring.        *)
LEMMA SlotsDistinct ==
  ASSUME NEW a \in Nat, NEW b \in Nat, a < b, b < a + MaxFrames
  PROVE  Slot(a) # Slot(b)
<1> SUFFICES ASSUME a % MaxFrames = b % MaxFrames PROVE FALSE
  BY DEF Slot
<1> DEFINE qa == a \div MaxFrames
           qb == b \div MaxFrames
<1>1. /\ qa \in Int /\ a = (MaxFrames * qa) + (a % MaxFrames)
      /\ qb \in Int /\ b = (MaxFrames * qb) + (b % MaxFrames)
  BY RingAssumption, SMT
<1>2. b - a = (qb - qa) * MaxFrames
  BY <1>1, RingAssumption, SMT
<1>3. 0 * MaxFrames < (qb - qa) * MaxFrames /\ (qb - qa) * MaxFrames < 1 * MaxFrames
  BY <1>2, RingAssumption, SMT
<1> HIDE DEF qa, qb
<1>4. 0 < qb - qa
  BY <1>3, <1>1, CancelFactor, RingAssumption
<1>5. qb - qa < 1
  BY <1>3, <1>1, CancelFactor, RingAssumption
<1> QED BY <1>4, <1>5, <1>1

(* Slot addresses stay inside the ring. *)
LEMMA SlotInRing == ASSUME NEW n \in Nat PROVE Slot(n) \in Slots
  BY RingAssumption, SMT DEF Slot, Slots

(* Anchor times are naturals, positive from the first frame on, and one    *)
(* cadence apart.                                                          *)
LEMMA AnchorFacts ==
  ASSUME NEW p \in Phases, NEW n \in Nat
  PROVE  /\ AnchorNS(p, n) \in Nat
         /\ n > 0 => AnchorNS(p, n) > 0
         /\ AnchorNS(p, n + 1) = AnchorNS(p, n) + Cadence
<1>1. Offset[p] \in Nat /\ Cadence \in Nat \ {0}
  BY RingAssumption
<1> QED BY <1>1, SMT DEF AnchorNS

(* Less than k cadences between two anchors of a phase is less than k      *)
(* frames.                                                                 *)
LEMMA AnchorDistance ==
  ASSUME NEW p \in Phases, NEW m \in Nat, NEW n \in Nat, NEW k \in Int,
         AnchorNS(p, m) - AnchorNS(p, n) < k * Cadence
  PROVE  m - n < k
<1>1. Offset[p] \in Nat /\ Cadence \in Nat \ {0}
  BY RingAssumption
<1>2. (m - n) * Cadence < k * Cadence
  BY <1>1, SMT DEF AnchorNS
<1> QED BY <1>1, <1>2, CancelFactor

(* Anchors of a phase are ordered as their indices. *)
LEMMA AnchorOrder ==
  ASSUME NEW p \in Phases, NEW m \in Nat, NEW n \in Nat, m <= n
  PROVE  AnchorNS(p, m) <= AnchorNS(p, n)
<1>1. Offset[p] \in Nat /\ Cadence \in Nat \ {0}
  BY RingAssumption
<1> QED BY <1>1, SMT DEF AnchorNS

(* Division rounds towards minus infinity, as Python's // does. *)
LEMMA FloorDivision ==
  ASSUME NEW x \in Int, NEW c \in Nat \ {0}
  PROVE  x \div c \in Int /\ (x \div c) * c <= x /\ x < ((x \div c) * c) + c
  BY SMT

(* begin_all's lattice formula finds the first frame of a phase from any   *)
(* first anchor less than a cadence before it.                             *)
LEMMA LatticeStart ==
  ASSUME NEW p \in Phases, NEW n \in Nat, NEW f \in Nat,
         f <= AnchorNS(p, n), AnchorNS(p, n) < f + Cadence
  PROVE  LET k == (f - Offset[p]) \div Cadence
         IN  (IF AnchorNS(p, k) < f THEN k + 1 ELSE k) = n
<1> DEFINE k == (f - Offset[p]) \div Cadence
<1>1. Offset[p] \in Nat /\ Cadence \in Nat \ {0}
  BY RingAssumption
<1>2. /\ k \in Int
      /\ k * Cadence <= f - Offset[p]
      /\ f - Offset[p] < k * Cadence + Cadence
  <2>1. f - Offset[p] \in Int
    BY <1>1
  <2> QED BY <2>1, <1>1, FloorDivision
<1> HIDE DEF k
<1>3. CASE AnchorNS(p, k) < f
  <2>1. n * Cadence < (k + 2) * Cadence /\ k * Cadence < n * Cadence
    BY <1>1, <1>2, <1>3, SMT DEF AnchorNS
  <2>2. n < k + 2 /\ k < n
    BY <2>1, <1>1, <1>2, CancelFactor
  <2> QED BY <2>2, <1>2, <1>3 DEF k
<1>4. CASE ~(AnchorNS(p, k) < f)
  <2>1. n * Cadence < (k + 1) * Cadence /\ (k - 1) * Cadence < n * Cadence
    BY <1>1, <1>2, <1>4, SMT DEF AnchorNS
  <2>2. n < k + 1 /\ k - 1 < n
    BY <2>1, <1>1, <1>2, CancelFactor
  <2> QED BY <2>2, <1>2, <1>4 DEF k
<1> QED BY <1>3, <1>4

-----------------------------------------------------------------------------
(* The initial states *)

LEMMA InitIInv == Init => IInv
<1> SUFFICES ASSUME Init PROVE IInv
  OBVIOUS
<1> USE DEF Init
<1>1. TypeOK
  BY RingAssumption DEF TypeOK, Slots, Unset
<1>2. InvFirst /\ InvOpen
  BY DEF InvFirst, InvOpen
<1>3. InvOrder
  <2>1. \A p \in Phases : Start[p] \in Nat /\ AnchorNS(p, Start[p]) \in Nat
    BY RingAssumption, AnchorFacts
  <2>2. \A p, q \in Phases : NextAnchorNS(p) - NextAnchorNS(q) <= Cadence
    BY <2>1, RingAssumption DEF NextAnchorNS
  <2> QED BY <2>1, <2>2 DEF InvOrder
<1>4. InvRead
  BY RingAssumption, AnchorFacts DEF InvRead
<1>5. InvGate
  BY RingAssumption DEF InvGate
<1>6. InvLead
  BY RingAssumption DEF InvLead, Committing
<1>7. InvRing
  BY RingAssumption DEF InvRing, Committing, Unset
<1>8. InvLoad
  BY DEF InvLoad
<1> QED BY <1>1, <1>2, <1>3, <1>4, <1>5, <1>6, <1>7, <1>8 DEF IInv

-----------------------------------------------------------------------------
(* What the invariant says of a cursor's slot *)

(* A cursor whose frame is available finds it, anchor and row, whole.      *)
LEMMA AvailableRow ==
  ASSUME IInv, NEW r \in Rows, Available(r)
  PROVE  CursorSlotAnchor(r) = target[r] /\ CursorSlotData(r) = target[r]
<1>1. /\ PhaseOf[r] \in Phases /\ target[r] \in Nat
      /\ phaseNext[PhaseOf[r]] \in Nat /\ MaxFrames \in Nat \ {0}
      /\ Start[PhaseOf[r]] <= target[r]
      /\ phaseNext[PhaseOf[r]] < target[r] + MaxFrames
  BY RingAssumption DEF IInv, TypeOK, InvRead, InvLead
<1>2. CASE target[r] < phaseNext[PhaseOf[r]]
  BY <1>1, <1>2 DEF IInv, InvRing, CursorSlotAnchor, CursorSlotData
<1>3. CASE Committing(r) /\ stage[r] = "stored" /\ target[r] = phaseNext[PhaseOf[r]]
  BY <1>1, <1>3 DEF IInv, InvRing, CursorSlotAnchor, CursorSlotData
<1> QED BY <1>2, <1>3 DEF Available

(* An anchor word that equals the target proves the frame available, and   *)
(* no slot a cursor points at ever holds a later frame.                    *)
LEMMA AnchorWord ==
  ASSUME IInv, NEW r \in Rows
  PROVE  /\ CursorSlotAnchor(r) <= target[r]
         /\ CursorSlotAnchor(r) = target[r] => Available(r)
<1>1. /\ PhaseOf[r] \in Phases /\ target[r] \in Nat
      /\ phaseNext[PhaseOf[r]] \in Nat
      /\ Slot(target[r]) \in Slots
  BY RingAssumption, SlotInRing DEF IInv, TypeOK
<1>2. CursorSlotAnchor(r) \in Nat
  BY <1>1 DEF IInv, TypeOK, CursorSlotAnchor
<1>3. CASE Available(r)
  BY <1>1, <1>3, AvailableRow
<1>4. CASE ~Available(r)
  <2>1. target[r] >= phaseNext[PhaseOf[r]]
    BY <1>1, <1>4 DEF Available
  <2>2. \/ CursorSlotAnchor(r) < phaseNext[PhaseOf[r]]
        \/ /\ CursorSlotAnchor(r) = phaseNext[PhaseOf[r]]
           /\ Committing(r) /\ stage[r] = "stored"
    BY <1>1 DEF IInv, InvRing, CursorSlotAnchor
  <2> QED BY <1>1, <1>2, <1>4, <2>1, <2>2 DEF Available
<1> QED BY <1>3, <1>4

-----------------------------------------------------------------------------
(* Each action preserves the types *)

LEMMA TypeStep == TypeOK /\ [Next]_vars => TypeOK'
<1> SUFFICES ASSUME TypeOK, [Next]_vars PROVE TypeOK'
  OBVIOUS
<1>0. /\ \A p \in Phases, n \in Nat : AnchorNS(p, n) \in Nat
      /\ \A p \in Phases : NextAnchorNS(p) \in Nat
      /\ \A r \in Rows : PhaseOf[r] \in Phases
  BY RingAssumption, AnchorFacts DEF NextAnchorNS, TypeOK
<1> USE DEF headerVars, ringVars, producerVars, consumerVars
<1>1. CASE PickPhase
  BY <1>0, <1>1 DEF PickPhase, TypeOK
<1>2. CASE RoomFound \/ WaitFails \/ EndOfStream
  BY <1>2 DEF RoomFound, WaitFails, EndOfStream, TypeOK
<1>3. ASSUME NEW r \in Rows, CopyFirstHalf(r) PROVE TypeOK'
  BY <1>0, <1>3, SlotInRing DEF CopyFirstHalf, TypeOK, Torn
<1>4. ASSUME NEW r \in Rows, CopySecondHalf(r) PROVE TypeOK'
  BY <1>0, <1>4, SlotInRing DEF CopySecondHalf, TypeOK
<1>5. ASSUME NEW r \in Rows, StoreAnchor(r) PROVE TypeOK'
  BY <1>0, <1>5, SlotInRing DEF StoreAnchor, TypeOK
<1>6. CASE CommitFrameFinalize
  BY <1>0, <1>6 DEF CommitFrameFinalize, TypeOK
<1>7. CASE ConsumerExit
  BY <1>7 DEF ConsumerExit, TypeOK
<1>8. ASSUME NEW r \in Rows, LoadAnchor(r) \/ LoadCopied(r)
      PROVE  TypeOK'
  <2>1. CursorSlotData(r) \in Nat \cup {Torn}
    BY <1>0, SlotInRing DEF TypeOK, CursorSlotData
  <2> QED BY <1>8, <2>1 DEF LoadAnchor, LoadCopied, TypeOK
<1>9. ASSUME NEW p \in Phases, NextCursors(p) PROVE TypeOK'
  BY <1>9 DEF NextCursors, TypeOK
<1>10. CASE CommitRead
  BY <1>0, <1>10 DEF CommitRead, TypeOK
<1>11. CASE BeginAll
  <2> DEFINE n(r) == (firstAnchor - Offset[PhaseOf[r]]) \div Cadence
  <2>1. ASSUME NEW r \in Rows
        PROVE  (IF AnchorNS(PhaseOf[r], n(r)) < firstAnchor THEN n(r) + 1 ELSE n(r))
                 \in Nat
    <3>1. /\ Offset[PhaseOf[r]] \in 0 .. Cadence - 1 /\ Cadence \in Nat \ {0}
          /\ firstAnchor \in Nat
      BY <1>0, RingAssumption DEF TypeOK
    <3>2. /\ n(r) \in Int
          /\ n(r) * Cadence <= firstAnchor - Offset[PhaseOf[r]]
          /\ firstAnchor - Offset[PhaseOf[r]] < n(r) * Cadence + Cadence
      <4>1. firstAnchor - Offset[PhaseOf[r]] \in Int
        BY <3>1
      <4> QED BY <3>1, <4>1, FloorDivision
    <3> HIDE DEF n
    <3>3. (-2) * Cadence < n(r) * Cadence
      BY <3>1, <3>2, SMT
    <3>4. -2 < n(r)
      BY <3>1, <3>2, <3>3, CancelFactor
    <3>5. n(r) = -1 => AnchorNS(PhaseOf[r], n(r)) < firstAnchor
      BY <3>1, SMT DEF AnchorNS
    <3> QED BY <3>2, <3>4, <3>5
  <2> QED BY <1>11, <2>1 DEF BeginAll, TypeOK
<1>12. CASE UNCHANGED vars
  BY <1>12 DEF vars, TypeOK
<1> QED BY <1>1, <1>2, <1>3, <1>4, <1>5, <1>6, <1>7, <1>8, <1>9, <1>10, <1>11,
           <1>12
        DEF Next, Producer, Consumer

-----------------------------------------------------------------------------
(* Why a frame about to be committed has room *)

(* The types of the state and of the constants, as the steps below use     *)
(* them.                                                                   *)
LEMMA TypeFacts ==
  ASSUME TypeOK
  PROVE  /\ MaxFrames \in Nat \ {0} /\ Cadence \in Nat \ {0}
         /\ firstAnchor \in Nat /\ lastRead \in Nat /\ pFirst \in Nat
         /\ Base \in Nat /\ cur \in Phases
         /\ \A p \in Phases : /\ phaseNext[p] \in Nat /\ NextAnchorNS(p) \in Nat
                              /\ Start[p] \in Nat /\ Start[p] > 0
                              /\ AnchorNS(p, Start[p]) \in Nat
                              /\ AnchorNS(p, Start[p]) > 0
         /\ \A r \in Rows : /\ PhaseOf[r] \in Phases /\ target[r] \in Nat
                            /\ AnchorNS(PhaseOf[r], target[r]) \in Nat
  BY RingAssumption, AnchorFacts DEF TypeOK, Base, NextAnchorNS

(* The room of WaitConsumerAdvance is measured from an anchor no cursor    *)
(* has yet to reach.                                                       *)
LEMMA BaseBound ==
  ASSUME IInv, NEW r \in Rows
  PROVE  Base <= AnchorNS(PhaseOf[r], target[r])
<1>1. TypeOK /\ InvFirst /\ InvRead
  BY DEF IInv
<1>2. AnchorNS(PhaseOf[r], Start[PhaseOf[r]]) <= AnchorNS(PhaseOf[r], target[r])
  BY <1>1, TypeFacts, AnchorOrder DEF InvRead
<1>3. pFirst <= AnchorNS(PhaseOf[r], target[r])
  BY <1>1, <1>2, TypeFacts DEF InvFirst
<1> QED BY <1>1, <1>3 DEF Base, InvRead

(* Distance from the base bounds the distance from every cursor. *)
LEMMA RoomForRow ==
  ASSUME IInv, NEW r \in Rows, NEW k \in Int,
         NextAnchorNS(PhaseOf[r]) - Base < k * Cadence
  PROVE  phaseNext[PhaseOf[r]] - target[r] < k
<1>1. TypeOK
  BY DEF IInv
<1>2. k * Cadence \in Int
  BY <1>1, TypeFacts, SMT
<1>3. NextAnchorNS(PhaseOf[r]) - AnchorNS(PhaseOf[r], target[r]) < k * Cadence
  BY <1>1, <1>2, TypeFacts, BaseBound
<1> QED BY <1>1, <1>3, TypeFacts, AnchorDistance DEF NextAnchorNS

(* A phase that is not gated has room because it keeps step with one that  *)
(* is.                                                                     *)
LEMMA UngatedRoom ==
  ASSUME IInv, MaxFrames > 1, Gated # {},
         NEW r \in Rows, Earliest(PhaseOf[r])
  PROVE  phaseNext[PhaseOf[r]] + 1 < target[r] + MaxFrames
<1>1. TypeOK /\ InvOrder /\ InvRead /\ InvGate
  BY DEF IInv
<1> DEFINE p == PhaseOf[r]
<1>2. PICK g \in Gated : g \in Phases
  BY RingAssumption
<1>3. NextAnchorNS(p) <= NextAnchorNS(g)
  BY <1>2 DEF Earliest
<1>4. CASE phaseNext[g] > Start[g]
  <2>1. NextAnchorNS(g) - Cadence - Base < (MaxFrames - 2) * Cadence
    BY <1>1, <1>4 DEF InvGate
  <2>2. NextAnchorNS(p) - Base < (MaxFrames - 1) * Cadence
    <3>1. (MaxFrames - 1) * Cadence = (MaxFrames - 2) * Cadence + Cadence
      BY <1>1, TypeFacts, SMT
    <3>2. (MaxFrames - 2) * Cadence \in Int
      BY <1>1, TypeFacts, SMT
    <3> QED BY <1>1, <1>2, <1>3, <2>1, <3>1, <3>2, TypeFacts
  <2> QED BY <1>1, <2>2, TypeFacts, RoomForRow
<1>5. CASE phaseNext[g] = Start[g]
  <2>1. AnchorNS(p, phaseNext[p]) - AnchorNS(p, Start[p]) < 1 * Cadence
    BY <1>1, <1>2, <1>3, <1>5, TypeFacts, RingAssumption DEF NextAnchorNS
  <2>2. phaseNext[p] - Start[p] < 1
    BY <1>1, <2>1, TypeFacts, AnchorDistance, SMTT(30)
  <2> QED BY <1>1, <2>2, TypeFacts DEF InvRead
<1>6. phaseNext[g] > Start[g] \/ phaseNext[g] = Start[g]
  BY <1>1, <1>2, TypeFacts DEF InvOrder
<1> QED BY <1>4, <1>5, <1>6

-----------------------------------------------------------------------------
(* Each producer action preserves the invariant *)

LEMMA PickPhaseStep ==
  ASSUME IInv, MaxFrames > 1, Gated # {}, PickPhase PROVE IInv'
<1>1. /\ TypeOK /\ InvFirst /\ InvOrder /\ InvRead /\ InvGate
      /\ InvLead /\ InvRing /\ InvLoad /\ InvOpen
  BY DEF IInv
<1>2. PICK p \in Phases :
        /\ pc = "pick" /\ Earliest(p) /\ cur' = p
        /\ stage' = [r \in Rows |-> "todo"]
        /\ IF p \in Gated
             THEN /\ pc' = "wait"
                  /\ firstAnchor' = IF firstAnchor = 0 THEN NextAnchorNS(p)
                                                       ELSE firstAnchor
                  /\ pFirst' = IF pFirst = 0 THEN firstAnchor' ELSE pFirst
             ELSE pc' = "commit" /\ UNCHANGED <<firstAnchor, pFirst>>
        /\ UNCHANGED <<lastRead, lastWritten, dropped, pidSet, ringVars,
                       phaseNext, consumerVars>>
  BY DEF PickPhase
<1> USE <1>2 DEF ringVars, consumerVars
<1>3. TypeOK'
  <2>1. Next
    BY DEF Next, Producer
  <2> QED BY <1>1, <2>1, TypeStep
<1>4. InvFirst'
  <2>1. CASE firstAnchor = 0
    <3>1. /\ phaseNext = Start /\ pFirst = 0
      BY <1>1, <2>1 DEF InvFirst
    <3>2. \A q \in Phases :
            /\ AnchorNS(p, Start[p]) <= AnchorNS(q, Start[q])
            /\ AnchorNS(q, Start[q]) < AnchorNS(p, Start[p]) + Cadence
      BY <1>1, <3>1, TypeFacts, RingAssumption DEF Earliest, NextAnchorNS
    <3>3. CASE p \in Gated
      <4>1. firstAnchor' = AnchorNS(p, Start[p]) /\ pFirst' = firstAnchor'
        BY <2>1, <3>1, <3>3 DEF NextAnchorNS
      <4> QED BY <1>1, <3>2, <4>1, TypeFacts DEF InvFirst, AnchorNS
    <3>4. CASE p \notin Gated
      BY <2>1, <3>1, <3>4 DEF InvFirst
    <3> QED BY <3>3, <3>4
  <2>2. CASE firstAnchor # 0
    BY <1>1, <2>2 DEF InvFirst, AnchorNS
  <2> QED BY <2>1, <2>2
<1>5. InvOrder'
  BY <1>1 DEF InvOrder, Earliest, NextAnchorNS, AnchorNS
<1>6. InvRead' /\ InvOpen'
  BY <1>1 DEF InvRead, InvOpen, AnchorNS
<1>7. InvGate'
  <2>1. ASSUME NEW g \in Gated, phaseNext[g] > Start[g]
        PROVE  pFirst' # 0 /\ Base' = Base
    BY <1>1, <2>1 DEF InvGate, Base
  <2>2. p \in Gated => pFirst' # 0
    <3>1. firstAnchor = 0 => NextAnchorNS(p) > 0
      BY <1>1, TypeFacts DEF InvFirst, NextAnchorNS
    <3> QED BY <1>1, <3>1, TypeFacts DEF InvFirst
  <2>3. pc' = "commit" => p \notin Gated
    OBVIOUS
  <2> QED BY <1>1, <2>1, <2>2, <2>3 DEF InvGate, NextAnchorNS, AnchorNS
<1>8. InvLead'
  <2>1. ASSUME NEW r \in Rows, PhaseOf[r] = p
        PROVE  phaseNext[PhaseOf[r]] + 1 < target[r] + MaxFrames
    BY <2>1, UngatedRoom
  <2> QED BY <1>1, <2>1 DEF InvLead, Committing
<1>9. InvRing'
  BY <1>1 DEF InvRing, Committing, Slots, Slot
<1>10. InvLoad'
  BY <1>1 DEF InvLoad, Available, Committing
<1> QED BY <1>3, <1>4, <1>5, <1>6, <1>7, <1>8, <1>9, <1>10 DEF IInv

LEMMA RoomFoundStep ==
  ASSUME IInv, RoomFound PROVE IInv'
<1>1. /\ TypeOK /\ InvFirst /\ InvOrder /\ InvRead /\ InvGate
      /\ InvLead /\ InvRing /\ InvLoad /\ InvOpen
  BY DEF IInv
<1> USE DEF RoomFound, headerVars, ringVars, consumerVars
<1>2. NextAnchorNS(cur) - Base < (MaxFrames - 2) * Cadence
  BY DEF Room, Base
<1>3. TypeOK'
  <2>1. Next
    BY DEF Next, Producer
  <2> QED BY <1>1, <2>1, TypeStep
<1>4. InvFirst' /\ InvOrder' /\ InvRead' /\ InvOpen'
  BY <1>1 DEF InvFirst, InvOrder, InvRead, InvOpen, Earliest, NextAnchorNS, AnchorNS
<1>5. InvGate'
  BY <1>1, <1>2 DEF InvGate, Base, NextAnchorNS, AnchorNS
<1>6. InvLead'
  <2>1. ASSUME NEW r \in Rows, PhaseOf[r] = cur
        PROVE  phaseNext[PhaseOf[r]] + 1 < target[r] + MaxFrames
    <3>1. phaseNext[PhaseOf[r]] - target[r] < MaxFrames - 2
      BY <1>1, <1>2, <2>1, TypeFacts, RoomForRow
    <3> QED BY <1>1, <3>1, TypeFacts
  <2> QED BY <1>1, <2>1 DEF InvLead, Committing
<1>7. InvRing'
  BY <1>1 DEF InvRing, Committing, Slots, Slot
<1>8. InvLoad'
  BY <1>1 DEF InvLoad, Available, Committing
<1> QED BY <1>3, <1>4, <1>5, <1>6, <1>7, <1>8 DEF IInv

(* Actions that touch neither rings nor cursors. *)
LEMMA QuietStep ==
  ASSUME IInv, WaitFails \/ EndOfStream \/ ConsumerExit \/ UNCHANGED vars
  PROVE  IInv'
<1>1. /\ TypeOK /\ InvFirst /\ InvOrder /\ InvRead /\ InvGate
      /\ InvLead /\ InvRing /\ InvLoad /\ InvOpen
  BY DEF IInv
<1>2. TypeOK'
  <2>1. [Next]_vars
    BY DEF Next, Producer, Consumer
  <2> QED BY <1>1, <2>1, TypeStep
<1>3. /\ UNCHANGED <<firstAnchor, lastRead, ringVars, pFirst, phaseNext, cur, stage,
                     open, target, load, out>>
      /\ \/ UNCHANGED pc
         \/ pc \in {"pick", "wait"} /\ pc' \in {"stopped", "closed"}
  BY DEF WaitFails, EndOfStream, ConsumerExit, vars, headerVars, ringVars,
         producerVars, consumerVars
<1> USE <1>3 DEF ringVars
<1>4. InvFirst' /\ InvOrder' /\ InvRead' /\ InvOpen'
  BY <1>1 DEF InvFirst, InvOrder, InvRead, InvOpen, Earliest, NextAnchorNS, AnchorNS
<1>5. InvGate' /\ InvLead'
  BY <1>1 DEF InvGate, InvLead, Committing, Base, NextAnchorNS, AnchorNS
<1>6. InvRing'
  BY <1>1 DEF InvRing, Committing, Slots, Slot
<1>7. InvLoad'
  BY <1>1 DEF InvLoad, Available, Committing
<1> QED BY <1>2, <1>4, <1>5, <1>6, <1>7 DEF IInv

(* A frame being copied overwrites a slot no live frame of the row is in.  *)
LEMMA CopyStep ==
  ASSUME IInv, NEW r \in Rows,
         CopyFirstHalf(r) \/ CopySecondHalf(r) \/ StoreAnchor(r)
  PROVE  IInv'
<1>1. /\ TypeOK /\ InvFirst /\ InvOrder /\ InvRead /\ InvGate
      /\ InvLead /\ InvRing /\ InvLoad /\ InvOpen
  BY DEF IInv
<1> DEFINE m == phaseNext[cur]
<1>2. TypeOK'
  <2>1. Next
    BY DEF Next, Producer
  <2> QED BY <1>1, <2>1, TypeStep
<1>3. /\ pc = "commit" /\ PhaseOf[r] = cur
      /\ UNCHANGED <<firstAnchor, lastRead, pc, pFirst, phaseNext, cur,
                     open, target, load, out>>
      /\ \A q \in Rows \ {r} : /\ stage'[q] = stage[q]
                               /\ slotAnchor'[q] = slotAnchor[q]
                               /\ slotData'[q] = slotData[q]
      /\ \A s \in Slots \ {Slot(m)} : /\ slotAnchor'[r][s] = slotAnchor[r][s]
                                      /\ slotData'[r][s] = slotData[r][s]
  BY <1>1 DEF CopyFirstHalf, CopySecondHalf, StoreAnchor, TypeOK,
              headerVars, ringVars, consumerVars
<1>4. Slot(m) \in Slots /\ m \in Nat
  BY <1>1, TypeFacts, SlotInRing
<1>5. \/ /\ stage[r] = "todo" /\ stage'[r] = "copying"
         /\ slotAnchor'[r] = slotAnchor[r]
      \/ /\ stage[r] = "copying" /\ stage'[r] = "copied"
         /\ slotAnchor'[r] = slotAnchor[r]
         /\ slotData'[r][Slot(m)] = m
      \/ /\ stage[r] = "copied" /\ stage'[r] = "stored"
         /\ slotData'[r] = slotData[r]
         /\ slotAnchor'[r][Slot(m)] = m
  BY <1>1, <1>4 DEF CopyFirstHalf, CopySecondHalf, StoreAnchor, TypeOK
<1>6. InvFirst' /\ InvOrder' /\ InvRead' /\ InvOpen' /\ InvGate' /\ InvLead'
  BY <1>1, <1>3 DEF InvFirst, InvOrder, InvRead, InvOpen, InvGate, InvLead,
       Committing, Base, Earliest, NextAnchorNS, AnchorNS
<1>7. InvRing'
  <2>1. ASSUME NEW n \in Nat, n < m, m < n + MaxFrames
        PROVE  Slot(n) \in Slots \ {Slot(m)}
    BY <1>4, <2>1, SlotsDistinct, SlotInRing
  <2>2. ASSUME NEW q \in Rows \ {r}
        PROVE  /\ slotAnchor'[q] = slotAnchor[q] /\ slotData'[q] = slotData[q]
               /\ Committing(q)' <=> Committing(q)
               /\ stage'[q] = stage[q] /\ phaseNext' = phaseNext
    BY <1>3, <2>2 DEF Committing
  <2>3. Committing(r) /\ Committing(r)'
    BY <1>3 DEF Committing
  <2> DEFINE Ring(q) ==
        LET k == phaseNext[PhaseOf[q]] IN
        /\ \A n \in Nat : Start[PhaseOf[q]] <= n /\ n < k /\ k < n + MaxFrames =>
             slotAnchor[q][Slot(n)] = n /\ slotData[q][Slot(n)] = n
        /\ \A s \in Slots :
             \/ slotAnchor[q][s] < k
             \/ slotAnchor[q][s] = k /\ Committing(q) /\ stage[q] = "stored"
        /\ Committing(q) /\ stage[q] \in {"copied", "stored"} =>
             slotData[q][Slot(k)] = k
        /\ Committing(q) /\ stage[q] = "stored" => slotAnchor[q][Slot(k)] = k
        /\ pc = "wait" => stage[q] = "todo"
  <2>4. ASSUME NEW q \in Rows \ {r} PROVE Ring(q)'
    BY <1>1, <1>3, <2>2 DEF InvRing, Slots, Slot
  <2>5. Ring(r)'
    <3>1. \A n \in Nat : Start[cur] <= n /\ n < m /\ m < n + MaxFrames =>
             slotAnchor'[r][Slot(n)] = n /\ slotData'[r][Slot(n)] = n
      BY <1>1, <1>3, <2>1 DEF InvRing
    <3>2. \A s \in Slots :
             slotAnchor'[r][s] < m \/ (slotAnchor'[r][s] = m /\ stage'[r] = "stored")
      <4>1. \A s \in Slots : slotAnchor[r][s] < m
        <5>1. stage[r] # "stored"
          BY <1>5
        <5> QED BY <1>1, <1>3, <5>1 DEF InvRing
      <4>2. CASE slotAnchor'[r] = slotAnchor[r]
        BY <4>1, <4>2
      <4>3. CASE stage'[r] = "stored" /\ slotAnchor'[r][Slot(m)] = m
        BY <1>3, <4>1, <4>3
      <4> QED BY <1>5, <4>2, <4>3
    <3>3. stage'[r] \in {"copied", "stored"} => slotData'[r][Slot(m)] = m
      BY <1>1, <1>3, <1>5, <2>3 DEF InvRing
    <3>4. stage'[r] = "stored" => slotAnchor'[r][Slot(m)] = m
      BY <1>5
    <3> QED BY <1>3, <2>3, <3>1, <3>2, <3>3, <3>4 DEF Slots, Slot
  <2> QED BY <2>4, <2>5 DEF InvRing
<1>8. InvLoad'
  BY <1>1, <1>3, <1>5 DEF InvLoad, Available, Committing
<1> QED BY <1>2, <1>6, <1>7, <1>8 DEF IInv

LEMMA FinalizeStep ==
  ASSUME IInv, CommitFrameFinalize PROVE IInv'
<1>1. /\ TypeOK /\ InvFirst /\ InvOrder /\ InvRead /\ InvGate
      /\ InvLead /\ InvRing /\ InvLoad /\ InvOpen
  BY DEF IInv
<1> DEFINE m == phaseNext[cur]
<1>2. TypeOK'
  <2>1. Next
    BY DEF Next, Producer
  <2> QED BY <1>1, <2>1, TypeStep
<1>3. /\ pc = "commit" /\ pc' = "pick" /\ Earliest(cur)
      /\ \A r \in RowsOf(cur) : stage[r] = "stored"
      /\ firstAnchor' = IF firstAnchor = 0 THEN NextAnchorNS(cur) ELSE firstAnchor
      /\ phaseNext' = [phaseNext EXCEPT ![cur] = @ + 1]
      /\ UNCHANGED <<lastRead, ringVars, pFirst, cur, stage, open, target, load, out>>
  BY <1>1 DEF CommitFrameFinalize, consumerVars, InvOrder
<1>4. /\ phaseNext'[cur] = m + 1
      /\ \A q \in Phases \ {cur} : phaseNext'[q] = phaseNext[q]
  BY <1>1, <1>3 DEF TypeOK
<1>5. /\ NextAnchorNS(cur)' = NextAnchorNS(cur) + Cadence
      /\ \A q \in Phases \ {cur} : NextAnchorNS(q)' = NextAnchorNS(q)
      /\ \A q \in Phases : NextAnchorNS(cur) <= NextAnchorNS(q)
  <2>1. AnchorNS(cur, m + 1) = AnchorNS(cur, m) + Cadence
    BY <1>1, TypeFacts, AnchorFacts
  <2> QED BY <1>3, <1>4, <2>1 DEF NextAnchorNS, AnchorNS, Earliest
<1>6. InvFirst'
  <2>1. CASE firstAnchor = 0
    <3>1. phaseNext = Start /\ pFirst = 0
      BY <1>1, <2>1 DEF InvFirst
    <3>2. \A q \in Phases :
            /\ AnchorNS(cur, Start[cur]) <= AnchorNS(q, Start[q])
            /\ AnchorNS(q, Start[q]) < AnchorNS(cur, Start[cur]) + Cadence
      BY <1>1, <1>5, <3>1, TypeFacts, RingAssumption DEF NextAnchorNS
    <3>3. firstAnchor' = AnchorNS(cur, Start[cur]) /\ firstAnchor' # 0
      BY <1>1, <1>3, <2>1, <3>1, TypeFacts DEF NextAnchorNS
    <3> QED BY <1>3, <3>1, <3>2, <3>3 DEF InvFirst, AnchorNS
  <2>2. CASE firstAnchor # 0
    BY <1>1, <1>3, <2>2 DEF InvFirst, AnchorNS
  <2> QED BY <2>1, <2>2
<1>7. InvOrder'
  <2>1. \A q \in Phases : Start[q] <= phaseNext'[q]
    BY <1>1, <1>4, TypeFacts DEF InvOrder
  <2>2. \A p, q \in Phases : NextAnchorNS(p)' - NextAnchorNS(q)' <= Cadence
    <3>1. ASSUME NEW p \in Phases, NEW q \in Phases
          PROVE  NextAnchorNS(p)' - NextAnchorNS(q)' <= Cadence
      <4>1. NextAnchorNS(p) - NextAnchorNS(q) <= Cadence
        BY <1>1 DEF InvOrder
      <4>2. /\ NextAnchorNS(p) \in Nat /\ NextAnchorNS(q) \in Nat /\ Cadence \in Nat
            /\ NextAnchorNS(cur) \in Nat
        BY <1>1, TypeFacts
      <4>3. /\ NextAnchorNS(p)' = IF p = cur THEN NextAnchorNS(cur) + Cadence
                                            ELSE NextAnchorNS(p)
            /\ NextAnchorNS(q)' = IF q = cur THEN NextAnchorNS(cur) + Cadence
                                            ELSE NextAnchorNS(q)
        BY <1>3, <1>5
      <4>4. NextAnchorNS(cur) <= NextAnchorNS(q)
        BY <1>5
      <4> HIDE DEF m
      <4> QED BY <4>1, <4>2, <4>3, <4>4
    <3> QED BY <3>1
  <2> QED BY <1>3, <2>1, <2>2 DEF InvOrder
<1>8. InvRead' /\ InvOpen'
  BY <1>1, <1>3 DEF InvRead, InvOpen, AnchorNS
<1>9. InvGate'
  <2>1. Base' = Base /\ Base \in Nat
    BY <1>1, <1>3, TypeFacts DEF Base
  <2>2. ASSUME NEW g \in Gated, phaseNext'[g] > Start[g]
        PROVE  /\ pFirst' # 0
               /\ NextAnchorNS(g)' - Cadence - Base' < (MaxFrames - 2) * Cadence
    <3>1. CASE g = cur
      <4>1. pFirst # 0 /\ NextAnchorNS(cur) - Base < (MaxFrames - 2) * Cadence
        BY <1>1, <1>3, <3>1 DEF InvGate
      <4>2. NextAnchorNS(g)' - Cadence - Base' = NextAnchorNS(cur) - Base
        <5>1. NextAnchorNS(g)' = NextAnchorNS(cur) + Cadence
          BY <1>3, <1>5, <3>1
        <5> QED BY <1>1, <2>1, <5>1, TypeFacts
      <4> QED BY <1>3, <4>1, <4>2
    <3>2. CASE g # cur
      BY <1>1, <1>3, <1>4, <1>5, <2>1, <2>2, <3>2, RingAssumption DEF InvGate
    <3> QED BY <3>1, <3>2
  <2> QED BY <1>3, <2>2 DEF InvGate
<1>10. InvLead'
  <2>1. \A r \in Rows : phaseNext'[PhaseOf[r]] < target[r] + MaxFrames
    BY <1>1, <1>3, <1>4, TypeFacts DEF InvLead, Committing
  <2> QED BY <1>3, <2>1 DEF InvLead, Committing
<1>11. InvRing'
  <2>1. \A r \in Rows : ~Committing(r)'
    BY <1>3 DEF Committing
  <2>2. ASSUME NEW r \in Rows
        PROVE  LET k == phaseNext'[PhaseOf[r]] IN
               /\ \A n \in Nat : Start[PhaseOf[r]] <= n /\ n < k /\ k < n + MaxFrames =>
                    slotAnchor[r][Slot(n)] = n /\ slotData[r][Slot(n)] = n
               /\ \A s \in Slots : slotAnchor[r][s] < k
    <3>1. CASE PhaseOf[r] = cur
      <4>1. Committing(r) /\ stage[r] = "stored" /\ m \in Nat
        BY <1>1, <1>3, <3>1, TypeFacts DEF Committing, RowsOf
      <4>2. \A n \in Nat : Start[cur] <= n /\ n < m /\ m < n + MaxFrames =>
                    slotAnchor[r][Slot(n)] = n /\ slotData[r][Slot(n)] = n
        BY <1>1, <3>1 DEF InvRing
      <4>3. slotAnchor[r][Slot(m)] = m /\ slotData[r][Slot(m)] = m
        BY <1>1, <3>1, <4>1 DEF InvRing
      <4>4. \A s \in Slots : slotAnchor[r][s] < m \/ slotAnchor[r][s] = m
        BY <1>1, <3>1 DEF InvRing
      <4>5. ASSUME NEW s \in Slots PROVE slotAnchor[r][s] < m + 1
        <5>1. slotAnchor[r][s] \in Nat
          BY <1>1 DEF TypeOK
        <5> QED BY <4>1, <4>4, <5>1
      <4>6. \A n \in Nat : n < m + 1 /\ m + 1 < n + MaxFrames =>
               n = m \/ (n < m /\ m < n + MaxFrames)
        BY <4>1, RingAssumption
      <4> QED BY <1>4, <3>1, <4>2, <4>3, <4>5, <4>6
    <3>2. CASE PhaseOf[r] # cur
      <4>1. ~Committing(r) /\ phaseNext'[PhaseOf[r]] = phaseNext[PhaseOf[r]]
        BY <1>1, <1>4, <3>2, TypeFacts DEF Committing
      <4> QED BY <1>1, <4>1 DEF InvRing
    <3> QED BY <3>1, <3>2
  <2> QED BY <1>3, <2>1, <2>2 DEF InvRing, ringVars, Slots, Slot
<1>12. InvLoad'
  <2>1. ASSUME NEW r \in Rows, Available(r) PROVE Available(r)'
    BY <1>1, <1>3, <1>4, <2>1, TypeFacts DEF Available, Committing
  <2> QED BY <1>1, <1>3, <2>1 DEF InvLoad
<1> QED BY <1>2, <1>6, <1>7, <1>8, <1>9, <1>10, <1>11, <1>12 DEF IInv

-----------------------------------------------------------------------------
(* Each consumer action preserves the invariant *)

(* Actions that leave the producer's state alone keep what is said of it.  *)
LEMMA ProducerUntouched ==
  ASSUME IInv, Consumer, UNCHANGED <<firstAnchor, ringVars, producerVars>>
  PROVE  /\ TypeOK' /\ InvFirst' /\ InvOrder' /\ InvRing'
         /\ \A r \in Rows : target'[r] = target[r] => Available(r)' = Available(r)
<1>1. TypeOK /\ InvFirst /\ InvOrder /\ InvRing
  BY DEF IInv
<1>2. TypeOK'
  <2>1. Next
    BY DEF Next
  <2> QED BY <1>1, <2>1, TypeStep
<1>3. InvFirst' /\ InvOrder'
  BY <1>1 DEF InvFirst, InvOrder, Earliest, NextAnchorNS, AnchorNS, producerVars
<1>4. InvRing'
  BY <1>1 DEF InvRing, Committing, Slots, Slot, producerVars, ringVars
<1>5. \A r \in Rows : target'[r] = target[r] => Available(r)' = Available(r)
  BY DEF Available, Committing, producerVars
<1> QED BY <1>2, <1>3, <1>4, <1>5

(* begin_all puts every cursor on the first frame of its phase. *)
LEMMA BeginAllTargets ==
  ASSUME IInv, BeginAll PROVE target' = target
<1>1. TypeOK /\ InvFirst /\ InvOpen
  BY DEF IInv
<1> USE DEF BeginAll, headerVars
<1>2. ASSUME NEW r \in Rows
      PROVE  target'[r] = Start[PhaseOf[r]]
  <2>1. /\ PhaseOf[r] \in Phases /\ Start[PhaseOf[r]] \in Nat /\ firstAnchor \in Nat
        /\ firstAnchor <= AnchorNS(PhaseOf[r], Start[PhaseOf[r]])
        /\ AnchorNS(PhaseOf[r], Start[PhaseOf[r]]) < firstAnchor + Cadence
    BY <1>1, TypeFacts DEF InvFirst
  <2> QED BY <2>1, LatticeStart
<1>3. \A r \in Rows : target[r] = Start[PhaseOf[r]]
  BY <1>1 DEF InvOpen
<1>4. target \in [Rows -> Nat] /\ target' = [r \in Rows |-> target'[r]]
  BY <1>1 DEF TypeOK
<1> QED BY <1>2, <1>3, <1>4

LEMMA BeginAllStep ==
  ASSUME IInv, BeginAll PROVE IInv'
<1>1. /\ TypeOK /\ InvFirst /\ InvRead /\ InvGate /\ InvLead /\ InvLoad /\ InvOpen
  BY DEF IInv
<1> USE DEF BeginAll, headerVars
<1>2. target' = target
  BY BeginAllTargets
<1>3. /\ TypeOK' /\ InvFirst' /\ InvOrder' /\ InvRing'
      /\ \A r \in Rows : Available(r)' = Available(r)
  BY <1>2, ProducerUntouched DEF Consumer
<1>4. InvRead' /\ InvGate' /\ InvLead'
  BY <1>1, <1>2 DEF InvRead, InvGate, InvLead, Committing, Base, NextAnchorNS,
       AnchorNS, producerVars
<1>5. InvLoad'
  BY <1>1, <1>2, <1>3 DEF InvLoad
<1>6. InvOpen'
  BY DEF InvOpen
<1> QED BY <1>3, <1>4, <1>5, <1>6 DEF IInv

(* A load that starts or ends finds the target's row whole, and none is    *)
(* skipped.                                                                *)
LEMMA LoadStep ==
  ASSUME IInv, NEW r \in Rows, LoadAnchor(r) \/ LoadCopied(r)
  PROVE  IInv'
<1>1. /\ TypeOK /\ InvRead /\ InvGate /\ InvLead /\ InvLoad /\ InvOpen
  BY DEF IInv
<1>2. LoadAnchor(r) => CursorSlotAnchor(r) = target[r]
  <2>1. CursorSlotAnchor(r) <= target[r]
    BY AnchorWord
  <2>2. CursorSlotAnchor(r) \in Nat /\ target[r] \in Nat
    BY <1>1, TypeFacts, SlotInRing DEF CursorSlotAnchor, TypeOK
  <2> QED BY <2>1, <2>2 DEF LoadAnchor
<1>3. UNCHANGED <<headerVars, ringVars, producerVars, open, target>>
  BY DEF LoadAnchor, LoadCopied
<1>4. open /\ Available(r)
  <2>1. CASE LoadAnchor(r)
    BY <1>2, <2>1, AnchorWord DEF LoadAnchor
  <2>2. CASE LoadCopied(r)
    BY <1>1, <2>2 DEF LoadCopied, InvLoad
  <2> QED BY <1>2, <2>1, <2>2
<1>5. /\ TypeOK' /\ InvFirst' /\ InvOrder' /\ InvRing'
      /\ \A q \in Rows : Available(q)' = Available(q)
  BY <1>3, ProducerUntouched DEF Consumer, headerVars
<1>6. InvRead' /\ InvGate' /\ InvLead' /\ InvOpen'
  BY <1>1, <1>3 DEF InvRead, InvGate, InvLead, InvOpen, Committing, Base,
       NextAnchorNS, AnchorNS, producerVars, headerVars
<1>7. InvLoad'
  <2>1. load'[r] # "skipped" /\ out'[r] = target[r]
    <3>1. CASE LoadAnchor(r)
      BY <1>1, <1>2, <1>4, <3>1, AvailableRow DEF LoadAnchor, TypeOK
    <3>2. CASE LoadCopied(r)
      BY <1>1, <1>4, <3>2, AvailableRow DEF LoadCopied, InvLoad, TypeOK
    <3> QED BY <3>1, <3>2
  <2>2. \A q \in Rows \ {r} : load'[q] = load[q] /\ out'[q] = out[q]
    BY <1>1, <1>2 DEF LoadAnchor, LoadCopied, TypeOK
  <2> QED BY <1>1, <1>3, <1>4, <1>5, <2>1, <2>2 DEF InvLoad
<1> QED BY <1>5, <1>6, <1>7 DEF IInv

LEMMA NextCursorsStep ==
  ASSUME IInv, NEW p \in Phases, NextCursors(p) PROVE IInv'
<1>1. /\ TypeOK /\ InvRead /\ InvGate /\ InvLead /\ InvLoad /\ InvOpen
  BY DEF IInv
<1> USE DEF NextCursors
<1>2. /\ TypeOK' /\ InvFirst' /\ InvOrder' /\ InvRing'
      /\ \A r \in Rows : target'[r] = target[r] => Available(r)' = Available(r)
  BY ProducerUntouched DEF Consumer, headerVars
<1>3. \A r \in Rows : /\ target'[r] \in Nat /\ target[r] \in Nat
                      /\ target'[r] >= target[r]
                      /\ PhaseOf[r] # p => /\ target'[r] = target[r]
                                           /\ load'[r] = load[r]
                      /\ PhaseOf[r] = p => load'[r] = "due"
  BY <1>1 DEF TypeOK
<1>4. InvRead'
  <2>1. \A r \in Rows :
          AnchorNS(PhaseOf[r], target[r]) <= AnchorNS(PhaseOf[r], target'[r])
    BY <1>1, <1>3, TypeFacts, AnchorOrder
  <2>2. \A r \in Rows : AnchorNS(PhaseOf[r], target'[r]) \in Nat
    BY <1>1, <1>3, TypeFacts, AnchorFacts
  <2> QED BY <1>1, <1>3, <2>1, <2>2, TypeFacts DEF InvRead, AnchorNS, headerVars
<1>5. InvGate'
  BY <1>1 DEF InvGate, Base, NextAnchorNS, AnchorNS, producerVars, headerVars
<1>6. InvLead'
  BY <1>1, <1>3, TypeFacts DEF InvLead, Committing, producerVars
<1>7. InvLoad'
  BY <1>1, <1>2, <1>3 DEF InvLoad
<1>8. InvOpen'
  BY DEF InvOpen
<1> QED BY <1>2, <1>4, <1>5, <1>6, <1>7, <1>8 DEF IInv

(* Releasing an anchor only moves the base of the producer's test forward. *)
LEMMA CommitReadStep ==
  ASSUME IInv, CommitRead PROVE IInv'
<1>1. /\ TypeOK /\ InvRead /\ InvGate /\ InvLead /\ InvLoad /\ InvOpen
  BY DEF IInv
<1> USE DEF CommitRead
<1>2. /\ TypeOK' /\ InvFirst' /\ InvOrder' /\ InvRing'
      /\ \A r \in Rows : Available(r)' = Available(r)
  BY ProducerUntouched DEF Consumer, consumerVars
<1>3. PICK r \in Rows :
        /\ \A q \in Rows : AnchorNS(PhaseOf[r], target[r])
                             <= AnchorNS(PhaseOf[q], target[q])
        /\ lastRead' = AnchorNS(PhaseOf[r], target[r])
  OBVIOUS
<1>4. InvRead'
  BY <1>1, <1>3 DEF InvRead, AnchorNS, consumerVars
<1>5. InvGate'
  <2>1. target[r] > 0
    BY <1>1, TypeFacts DEF InvRead
  <2>2. lastRead' > 0 /\ lastRead' \in Nat
    BY <1>1, <1>3, <2>1, TypeFacts, AnchorFacts
  <2>3. Base' = lastRead' /\ Base <= Base' /\ Base \in Nat
    BY <1>1, <1>3, <2>2, BaseBound, TypeFacts DEF Base
  <2>4. ASSUME NEW g \in Phases, NEW x \in Int, NextAnchorNS(g) - x - Base
                 < (MaxFrames - 2) * Cadence
        PROVE  NextAnchorNS(g) - x - Base' < (MaxFrames - 2) * Cadence
    <3>1. (MaxFrames - 2) * Cadence \in Int
      BY <1>1, TypeFacts, SMT
    <3> QED BY <1>1, <2>2, <2>3, <2>4, <3>1, TypeFacts
  <2>5. \A g \in Gated : phaseNext[g] > Start[g] =>
          NextAnchorNS(g) - Cadence - Base' < (MaxFrames - 2) * Cadence
    BY <1>1, <2>4, TypeFacts, RingAssumption DEF InvGate
  <2>6. pc = "commit" /\ cur \in Gated =>
          NextAnchorNS(cur) - Base' < (MaxFrames - 2) * Cadence
    <3>1. \A z \in Nat : NextAnchorNS(cur) - 0 - z = NextAnchorNS(cur) - z
      BY <1>1, TypeFacts
    <3> QED BY <1>1, <2>2, <2>3, <2>4, <3>1, TypeFacts DEF InvGate
  <2> QED BY <1>1, <2>5, <2>6 DEF InvGate, NextAnchorNS, AnchorNS, producerVars
<1>6. InvLead'
  BY <1>1 DEF InvLead, Committing, producerVars, consumerVars
<1>7. InvLoad' /\ InvOpen'
  BY <1>1, <1>2 DEF InvLoad, InvOpen, consumerVars
<1> QED BY <1>2, <1>4, <1>5, <1>6, <1>7 DEF IInv

-----------------------------------------------------------------------------
(* The theorems *)

LEMMA Inductive ==
  ASSUME MaxFrames > 1, Gated # {}, IInv, [Next]_vars PROVE IInv'
<1> QED BY PickPhaseStep, RoomFoundStep, QuietStep, CopyStep, FinalizeStep,
           BeginAllStep, LoadStep, NextCursorsStep, CommitReadStep
        DEF Next, Producer, Consumer

(* The invariant means what the runs check. *)
LEMMA IInvImplies == IInv => NoOverrun /\ ExactRead
<1> SUFFICES ASSUME IInv PROVE NoOverrun /\ ExactRead
  OBVIOUS
<1>1. InvLoad
  BY DEF IInv
<1> QED BY <1>1, AnchorWord DEF InvLoad, NoOverrun, ExactRead

(* Every variable keeps its type, whatever the ring size and gating.       *)
THEOREM TypeCorrect == Spec => []TypeOK
<1>1. Init => TypeOK
  BY InitIInv DEF IInv
<1> QED BY <1>1, TypeStep, PTL DEF Spec

(* Lossless replay (WaitConsumerAdvance with _load_into_matrix): if some   *)
(* phase is gated and the ring has at least two slots, no cursor's slot is *)
(* ever taken by a later frame and no load is skipped.                     *)
THEOREM Lossless == MaxFrames > 1 /\ Gated # {} => (Spec => []NoOverrun)
<1> SUFFICES ASSUME MaxFrames > 1, Gated # {} PROVE Spec => []NoOverrun
  OBVIOUS
<1>1. IInv /\ [Next]_vars => IInv'
  BY Inductive
<1> QED BY <1>1, InitIInv, IInvImplies, PTL DEF Spec

(* Under the same conditions every row handed out is exactly the row of    *)
(* the anchor asked for: the copy after the anchor test cannot tear.       *)
THEOREM ReadsExact == MaxFrames > 1 /\ Gated # {} => (Spec => []ExactRead)
<1> SUFFICES ASSUME MaxFrames > 1, Gated # {} PROVE Spec => []ExactRead
  OBVIOUS
<1>1. IInv /\ [Next]_vars => IInv'
  BY Inductive
<1> QED BY <1>1, InitIInv, IInvImplies, PTL DEF Spec

-----------------------------------------------------------------------------
(* Refinement of the lossless channel *)

LEMMA ChannelInit == Init => Channel!Init
  BY RingAssumption DEF Init, Channel!Init, Channel!NoItem, Produced, Consumed, Item

LEMMA ChannelStep ==
  ASSUME IInv, IInv', [Next]_vars PROVE [Channel!Next]_(Channel!vars)
<1>1. /\ TypeOK /\ InvOrder /\ InvRing /\ InvLoad /\ InvOpen
      /\ TypeOK' /\ InvLoad'
  BY DEF IInv
<1> USE DEF Produced, Consumed, Item, Channel!vars, Channel!NoItem,
            headerVars, ringVars, producerVars, consumerVars
<1> DEFINE Stutter == UNCHANGED <<Produced, Consumed, Item>>
<1>2. CASE PickPhase
  <2>1. pc = "pick" /\ UNCHANGED <<phaseNext, load, target, out>>
        /\ stage' = [r \in Rows |-> "todo"]
    BY <1>2 DEF PickPhase
  <2> QED BY <2>1
<1>3. CASE RoomFound \/ WaitFails \/ EndOfStream
  <2>1. /\ pc # "commit" /\ (pc' = "commit" => \A r \in Rows : stage[r] = "todo")
        /\ UNCHANGED <<phaseNext, stage, load, target, out>>
    BY <1>1, <1>3 DEF RoomFound, WaitFails, EndOfStream, InvRing
  <2> QED BY <2>1
<1>4. ASSUME NEW r \in Rows, CopyFirstHalf(r) \/ CopySecondHalf(r)
      PROVE  [Channel!Next]_(Channel!vars)
  <2>1. /\ stage[r] # "stored" /\ stage'[r] # "stored"
        /\ \A q \in Rows \ {r} : stage'[q] = stage[q]
        /\ UNCHANGED <<pc, cur, phaseNext, load, target, out>>
    BY <1>1, <1>4 DEF CopyFirstHalf, CopySecondHalf, TypeOK
  <2> QED BY <2>1
<1>5. ASSUME NEW r \in Rows, StoreAnchor(r)
      PROVE  [Channel!Next]_(Channel!vars)
  <2>1. /\ pc = "commit" /\ PhaseOf[r] = cur
        /\ stage[r] = "copied" /\ stage' = [stage EXCEPT ![r] = "stored"]
        /\ UNCHANGED <<pc, cur, phaseNext, load, target, out>>
    BY <1>1, <1>5 DEF StoreAnchor
  <2>2. Produced' = [Produced EXCEPT ![r] = @ + 1]
    <3>1. /\ phaseNext[cur] \in Nat /\ stage'[r] = "stored"
          /\ \A q \in Rows \ {r} : stage'[q] = stage[q]
      BY <1>1, <2>1, TypeFacts DEF TypeOK
    <3>2. Produced[r] = phaseNext[cur] - 1 /\ Produced'[r] = phaseNext[cur]
      BY <2>1, <3>1
    <3>3. \A q \in Rows \ {r} : Produced'[q] = Produced[q]
      BY <2>1, <3>1
    <3>4. Produced'[r] = Produced[r] + 1
      BY <3>1, <3>2
    <3> QED BY <3>3, <3>4
  <2>3. Channel!Produce(r)
    BY <2>1, <2>2 DEF Channel!Produce
  <2> QED BY <2>3 DEF Channel!Next
<1>6. CASE CommitFrameFinalize
  <2>1. /\ pc = "commit" /\ pc' = "pick"
        /\ \A r \in RowsOf(cur) : stage[r] = "stored"
        /\ phaseNext' = [phaseNext EXCEPT ![cur] = @ + 1]
        /\ UNCHANGED <<cur, stage, load, target, out>>
    BY <1>6 DEF CommitFrameFinalize
  <2>2. Produced' = Produced
    <3>1. phaseNext'[cur] = phaseNext[cur] + 1 /\ phaseNext[cur] \in Nat
      BY <1>1, <2>1, TypeFacts DEF TypeOK
    <3>2. \A q \in Phases \ {cur} : phaseNext'[q] = phaseNext[q]
      BY <1>1, <2>1 DEF TypeOK
    <3>3. \A r \in Rows : Produced'[r] = Produced[r]
      BY <1>1, <2>1, <3>1, <3>2, TypeFacts DEF RowsOf
    <3> QED BY <3>3
  <2> QED BY <2>1, <2>2
<1>7. CASE BeginAll
  <2>1. target' = target
    BY <1>7, BeginAllTargets
  <2> QED BY <1>7, <2>1 DEF BeginAll
<1>8. ASSUME NEW r \in Rows, LoadAnchor(r)
      PROVE  [Channel!Next]_(Channel!vars)
  <2>1. load'[r] # "skipped" /\ load'[r] \in {"copying", "skipped"}
    BY <1>1, <1>8 DEF LoadAnchor, InvLoad, TypeOK
  <2>2. /\ load[r] = "due" /\ load'[r] = "copying"
        /\ \A q \in Rows \ {r} : load'[q] = load[q] /\ out'[q] = out[q]
        /\ UNCHANGED <<pc, cur, phaseNext, stage, target>>
    BY <1>1, <1>8, <2>1 DEF LoadAnchor, TypeOK
  <2>3. /\ \A q \in Rows : Consumed'[q] = Consumed[q] /\ Item'[q] = Item[q]
        /\ Produced' = Produced
    BY <2>2
  <2> QED BY <2>3
<1>9. ASSUME NEW r \in Rows, LoadCopied(r)
      PROVE  [Channel!Next]_(Channel!vars)
  <2>1. /\ load[r] = "copying" /\ load' = [load EXCEPT ![r] = "loaded"]
        /\ UNCHANGED <<pc, cur, phaseNext, stage, target>>
        /\ \A q \in Rows \ {r} : out'[q] = out[q]
        /\ Available(r) /\ out'[r] = target[r]
    BY <1>1, <1>9 DEF LoadCopied, InvLoad, TypeOK
  <2>2. Consumed[r] < Produced[r]
    BY <1>1, <2>1, TypeFacts DEF Available, Committing
  <2>3. Channel!HandOver(r)
    <3>1. /\ load'[r] = "loaded" /\ Item[r] = -2 /\ Item'[r] = Consumed[r] + 1
          /\ Consumed'[r] = Consumed[r] + 1
      BY <1>1, <2>1, TypeFacts DEF TypeOK
    <3>2. \A q \in Rows \ {r} : Item'[q] = Item[q] /\ Consumed'[q] = Consumed[q]
      BY <1>1, <2>1 DEF TypeOK
    <3>3. /\ Item' = [Item EXCEPT ![r] = Consumed[r] + 1]
          /\ Consumed' = [Consumed EXCEPT ![r] = @ + 1]
      BY <3>1, <3>2
    <3>4. Produced' = Produced
      BY <2>1
    <3> QED BY <2>2, <3>1, <3>3, <3>4 DEF Channel!HandOver
  <2> QED BY <2>3 DEF Channel!Next
<1>10. ASSUME NEW p \in Phases, NextCursors(p)
       PROVE  [Channel!Next]_(Channel!vars)
  <2>1. /\ \A r \in RowsOf(p) : load[r] = "loaded" /\ out[r] \in Nat
        /\ target' = [r \in Rows |-> IF PhaseOf[r] = p THEN target[r] + 1 ELSE target[r]]
        /\ load' = [r \in Rows |-> IF PhaseOf[r] = p THEN "due" ELSE load[r]]
        /\ UNCHANGED <<pc, cur, phaseNext, stage, out>>
    BY <1>1, <1>10, TypeFacts DEF NextCursors, InvLoad, RowsOf
  <2>2. Consumed' = Consumed
    BY <1>1, <2>1, TypeFacts DEF RowsOf
  <2>3. Channel!Release(RowsOf(p))
    BY <1>1, <2>1, <2>2 DEF Channel!Release, RowsOf
  <2>4. RowsOf(p) \in SUBSET Rows
    BY DEF RowsOf
  <2> QED BY <2>3, <2>4 DEF Channel!Next
<1>11. CASE CommitRead \/ ConsumerExit \/ UNCHANGED vars
  BY <1>11 DEF CommitRead, ConsumerExit, vars
<1> QED BY <1>2, <1>3, <1>4, <1>5, <1>6, <1>7, <1>8, <1>9, <1>10, <1>11
        DEF Next, Producer, Consumer

(* Under the conditions of Lossless the rings, the cursors and the flow    *)
(* control implement a lossless channel (FrameChannel): each row of each   *)
(* frame is handed over once, whole and in index order.                    *)
THEOREM RefinesChannel == MaxFrames > 1 /\ Gated # {} => (Spec => ImplementsChannel)
<1> SUFFICES ASSUME MaxFrames > 1, Gated # {} PROVE Spec => ImplementsChannel
  OBVIOUS
<1>1. IInv /\ [Next]_vars => IInv'
  BY Inductive
<1>2. IInv /\ IInv' /\ [Next]_vars => [Channel!Next]_(Channel!vars)
  BY ChannelStep
<1> QED BY <1>1, <1>2, InitIInv, ChannelInit, PTL DEF Spec, ImplementsChannel, Channel!Spec
=============================================================================
