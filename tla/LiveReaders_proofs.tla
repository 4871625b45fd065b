--------------------------- MODULE LiveReaders_proofs ---------------------------
(***************************************************************************)
(* For any hub, any number of restarts and readers that come and go: what  *)
(* a consumer, the recorder and the relay read out of rings whose producer *)
(* waits for none of them, and what a restarted daemon reads out of its    *)
(* own.  The hub's invariant is that of Recovery_proofs.                   *)
(***************************************************************************)
EXTENDS LiveReaders, Recovery_proofs

-----------------------------------------------------------------------------
(* The consumer: its inductive invariant *)

(* A row whose copy has begun or is done is that of the cursor's anchor,   *)
(* unless the producer has come round to its slot.                         *)
InvCopied ==
  \A r \in Cursors :
    /\ load[r] = "copying" => target[r] <= newest[r] /\ Held(r, target[r])
    /\ load[r] \in {"copying", "loaded"} => out[r] = target[r] \/ Lapped(r, target[r])

(* The look at BootID comes before any cursor's load, and before it the    *)
(* begin_all.                                                              *)
InvEntry ==
  /\ entry # "done" => \A r \in Cursors : load[r] \in {"due", "lagged"}
  /\ ~opened => entry = "due"

(* A generation was read after the BootID it goes with. *)
InvBootSeen ==
  /\ bootSeen <= bootID
  /\ entry # "changed" => genSeen >= bootSeen

CursorInv ==
  /\ CursorTypeOK /\ \A r \in Cursors : target[r] \in Nat
  /\ InvCopied /\ InvEntry /\ InvBootSeen

LEMMA InitCursorInv == LiveInit /\ RecoveryInit /\ CursorInit => CursorInv
<1> SUFFICES ASSUME LiveInit, RecoveryInit, CursorInit PROVE CursorInv
  OBVIOUS
<1>1. /\ bootSeen = 1 /\ genSeen = 1 /\ bootID = 1 /\ opened = FALSE /\ entry = "due"
      /\ autoRealign \in BOOLEAN
      /\ target = [r \in Cursors |-> 0] /\ load = [r \in Cursors |-> "due"]
      /\ out = [r \in Cursors |-> 0]
  BY DEF RecoveryInit, CursorInit, Unset
<1>2. CursorTypeOK /\ \A r \in Cursors : target[r] \in Nat
  <2>1. /\ out \in [Cursors -> Nat \cup {Torn}] /\ target \in [Cursors -> Int]
        /\ load \in [Cursors -> {"due", "wait", "copying", "loaded", "failed", "lagged"}]
        /\ \A r \in Cursors : target[r] \in Nat
    BY <1>1
  <2> QED BY <1>1, <2>1 DEF CursorTypeOK
<1>3. \A r \in Cursors : load[r] = "due"
  BY <1>1
<1> QED BY <1>1, <1>2, <1>3 DEF CursorInv, InvCopied, InvEntry, InvBootSeen

(* The hub goes on under the consumer. *)
LEMMA HubUnderCursor ==
  ASSUME HubInv, CursorInv, Hub, UNCHANGED cursorVars PROVE CursorInv'
<1>1. UNCHANGED <<autoRealign, opened, bootSeen, genSeen, entry, target, load, out>>
  BY DEF cursorVars, bootSeenVars
<1>2. bootID \in Nat /\ bootID' \in Nat /\ bootID <= bootID'
  <2>1. bootID' \in Nat /\ bootID \in Nat
    BY HubStep DEF HubInv, HubTypeOK, RecoveryTypeOK
  <2>2. bootID' \in {bootID, bootID + 1}
    BY DEF Hub, CloseBar, SetFrameFlags, FinalizeFrame, CommitStep, Kill, PublishRecovery,
           StoreMode, StoreBootID, Quarantine, Replace, SeedAndRun, recoveryVars, headerVars
  <2> QED BY <2>1, <2>2
<1>3. ASSUME NEW r \in Cursors
      PROVE  /\ r \in Rows /\ target[r] \in Nat
             /\ target[r] <= newest[r] /\ Held(r, target[r]) =>
                  target[r] <= newest'[r] /\ Held(r, target[r])'
             /\ Lapped(r, target[r]) => Lapped(r, target[r])'
  <2>1. r \in Rows /\ target[r] \in Nat /\ MaxFrames \in Nat
    BY CursorAssumption, LiveRingAssumption DEF CursorInv
  <2>2. newest[r] \in Nat /\ newest'[r] \in Nat
    BY <2>1, HubStep DEF HubInv, HubTypeOK, LiveTypeOK
  <2>3. newest[r] <= newest'[r]
    BY <2>1, HeldStep
  <2>4. \A n \in Nat : n <= newest[r] /\ Held(r, n) => Held(r, n)'
    BY <2>1, HeldStep
  <2>5. target[r] <= newest[r] /\ Held(r, target[r]) => Held(r, target[r])'
    BY <1>1, <2>1, <2>4 DEF Held, Lapped
  <2> QED BY <1>1, <2>1, <2>2, <2>3, <2>5 DEF Lapped
<1>4. CursorTypeOK' /\ InvEntry' /\ InvBootSeen'
  BY <1>1, <1>2 DEF CursorInv, CursorTypeOK, InvEntry, InvBootSeen
<1>5. InvCopied'
  BY <1>1, <1>3 DEF CursorInv, InvCopied
<1> QED BY <1>1, <1>4, <1>5 DEF CursorInv

(* The latest frame of a phase, by the last anchor published. *)
LEMMA PhaseLatestFacts ==
  ASSUME HubInv, NEW r \in Rows
  PROVE  /\ PhaseLatest(r) \in Int /\ PhaseLatest(r) + 1 \in Nat
         /\ lastWritten > 0 => PhaseLatest(r) \in Nat
         /\ AnchorNS(PhaseOf[r], PhaseLatest(r)) <= lastWritten
         /\ lastWritten < AnchorNS(PhaseOf[r], PhaseLatest(r) + 1)
<1> DEFINE k == (lastWritten - Offset[PhaseOf[r]]) \div Cadence
           p == PhaseOf[r]
<1>1. /\ p \in Phases /\ lastWritten \in Nat /\ Cadence \in Nat \ {0}
      /\ lastWritten = 0 \/ lastWritten >= Cadence
  BY HubFacts DEF HubInv, HubTypeOK, InvClock
<1>2. k \in Int /\ AnchorNS(p, k) <= lastWritten /\ lastWritten < AnchorNS(p, k) + Cadence
  BY <1>1, LastAnchor
<1>3. PhaseLatest(r) = k
  BY DEF PhaseLatest
<1>4. FirstAfter(p, lastWritten) = k + 1
  BY DEF FirstAfter
<1> HIDE DEF k, p
<1>5. k + 1 \in Nat /\ (lastWritten >= Cadence => k + 1 > 0)
  BY <1>1, <1>4, FirstAnchorAfter
<1>6. AnchorNS(p, k + 1) = AnchorNS(p, k) + Cadence
  BY <1>1, <1>2, AnchorSteps
<1> QED BY <1>1, <1>2, <1>3, <1>5, <1>6 DEF p

(* Cursors are rows, and their slots are in the ring. *)
LEMMA CursorFacts ==
  ASSUME HubInv, CursorInv, NEW r \in Cursors
  PROVE  /\ r \in Rows /\ target[r] \in Nat /\ Slot(target[r]) \in Slots
         /\ CursorAnchor(r) \in Nat /\ CursorData(r) \in Nat \cup {Torn}
         /\ newest[r] \in Nat /\ MaxFrames \in Nat \ {0}
<1>1. r \in Rows /\ target[r] \in Nat /\ Slot(target[r]) \in Slots
  BY CursorAssumption, SlotOfRing DEF CursorInv
<1>2. MaxFrames \in Nat \ {0}
  BY LiveRingAssumption
<1> QED BY <1>1, <1>2 DEF HubInv, HubTypeOK, LiveTypeOK, CursorAnchor, CursorData

(* LaggedAnchorError leaves every cursor where it was. *)
LEMMA AbandonedLoad ==
  ASSUME CursorInv, RaiseLagged, UNCHANGED <<autoRealign, opened, bootSeenVars, out>>,
         entry = "done", UNCHANGED bootID
  PROVE  CursorInv'
<1>1. /\ entry' = "due" /\ load' = [r \in Cursors |-> "lagged"]
      /\ UNCHANGED <<autoRealign, opened, bootSeen, genSeen, out, target>>
      /\ \A r \in Cursors : load'[r] = "lagged"
  BY DEF RaiseLagged, bootSeenVars
<1>2. CursorTypeOK'
  BY <1>1 DEF CursorInv, CursorTypeOK
<1>3. InvCopied' /\ InvEntry'
  BY <1>1 DEF InvCopied, InvEntry
<1>4. InvBootSeen'
  BY <1>1 DEF CursorInv, InvBootSeen
<1> QED BY <1>1, <1>2, <1>3, <1>4 DEF CursorInv

(* A step of the consumer. *)
LEMMA CursorStep ==
  ASSUME HubInv, CursorInv, Cursor, UNCHANGED <<liveVars, recoveryVars>>
  PROVE  CursorInv'
<1>1. /\ CursorTypeOK /\ InvCopied /\ InvEntry /\ InvBootSeen
      /\ \A r \in Cursors : target[r] \in Nat
  BY DEF CursorInv
<1>2. /\ UNCHANGED <<newest, slotData, bootID, generation>>
      /\ bootID \in Nat /\ generation \in Nat /\ bootID <= generation
  BY DEF HubInv, HubTypeOK, RecoveryTypeOK, InvGeneration, liveVars, historyVars,
         recoveryVars, headerVars
<1>3. \A r \in Cursors : r \in Rows
  BY CursorAssumption
<1>4. ASSUME NEW t \in [Cursors -> Nat], target' = t, UNCHANGED <<load, out>>,
             \A r \in Cursors : load[r] \in {"copying", "loaded"} => t[r] = target[r]
      PROVE  InvCopied'
  BY <1>1, <1>2, <1>4 DEF InvCopied, Held, Lapped
<1>5. CASE BeginAll
  <2>0. PICK q \in Cursors : \E n \in LatestEstimates(q) : target' = [r \in Cursors |-> n]
    BY <1>5 DEF BeginAll
  <2>1. PICK n \in LatestEstimates(q) : target' = [r \in Cursors |-> n]
    BY <2>0
  <2>2. n \in Nat
    <3>1. lastWritten \in Nat /\ phaseNext[PhaseOf[q]] \in Nat /\ phaseNext[PhaseOf[q]] > 0
      BY <1>3, HubFacts DEF HubInv, HubTypeOK, InvClock
    <3> QED BY <1>3, <2>1, <3>1, PhaseLatestFacts DEF LatestEstimates
  <2>3. target' \in [Cursors -> Nat] /\ UNCHANGED <<load, out>>
        /\ \A r \in Cursors : load[r] \notin {"copying", "loaded"}
    BY <1>1, <1>5, <2>1, <2>2 DEF BeginAll, InvEntry
  <2> QED BY <1>1, <1>2, <1>4, <1>5, <2>3
          DEF BeginAll, CursorInv, CursorTypeOK, InvEntry, InvBootSeen, bootSeenVars
<1>6. CASE SameBoot \/ NewBoot
  <2>1. target' \in [Cursors -> Nat] /\ UNCHANGED <<target, load, out>>
    BY <1>1, <1>6 DEF SameBoot, NewBoot, CursorTypeOK
  <2> QED BY <1>1, <1>2, <1>4, <1>6, <2>1
          DEF SameBoot, NewBoot, AtLoadStart, CursorInv, CursorTypeOK, InvEntry,
              InvBootSeen, bootSeenVars
<1>7. CASE AdoptRestart
  <2>1. \A r \in Cursors : Adopted(r) \in Nat
    BY <1>1, <1>3, PhaseLatestFacts DEF Adopted
  <2>2. target' \in [Cursors -> Nat] /\ UNCHANGED <<load, out>>
        /\ \A r \in Cursors : load[r] \notin {"copying", "loaded"}
    BY <1>1, <1>7, <2>1 DEF AdoptRestart, InvEntry
  <2>3. genSeen' >= bootSeen'
    BY <1>1, <1>2, <1>7 DEF AdoptRestart, InvBootSeen, CursorTypeOK
  <2> QED BY <1>1, <1>2, <1>4, <1>7, <2>2, <2>3
          DEF AdoptRestart, CursorInv, CursorTypeOK, InvEntry, InvBootSeen
<1>8. CASE NextAll
  <2>1. target' \in [Cursors -> Nat] /\ load' = [r \in Cursors |-> "due"]
    BY <1>1, <1>8 DEF NextAll
  <2>2. /\ opened' = opened /\ entry' = "due"
        /\ UNCHANGED <<autoRealign, bootSeen, genSeen, out>>
        /\ \A r \in Cursors : load'[r] = "due"
    BY <1>8, <2>1 DEF NextAll, bootSeenVars
  <2>3. CursorTypeOK'
    BY <1>1, <2>1, <2>2 DEF CursorTypeOK
  <2>4. InvCopied' /\ InvEntry' /\ InvBootSeen'
    <3>1. entry # "changed"
      BY <1>1, <1>8, CursorAssumption DEF NextAll, InvEntry
    <3>2. opened
      BY <1>1, <1>8, CursorAssumption DEF NextAll, InvEntry
    <3> QED BY <1>1, <1>2, <2>2, <3>1, <3>2 DEF InvCopied, InvEntry, InvBootSeen
  <2> QED BY <2>1, <2>3, <2>4 DEF CursorInv
<1>9. ASSUME NEW r \in Cursors, StartCursor(r) PROVE CursorInv'
  <2>1. CASE RaiseLagged /\ UNCHANGED <<autoRealign, opened, bootSeenVars, out>>
    <3>1. entry = "done"
      BY <1>1, <1>9 DEF StartCursor, AnchorOvertaken, Ready, InvEntry
    <3> QED BY <1>2, <2>1, <3>1, AbandonedLoad
  <2>2. CASE /\ target' = [target EXCEPT ![r] = IF Lagging(r) THEN PhaseLatest(r) ELSE @]
             /\ load' = [load EXCEPT ![r] = "wait"]
             /\ UNCHANGED <<entry, autoRealign, opened, bootSeenVars, out>>
    <3>1. Lagging(r) => PhaseLatest(r) \in Nat
      BY <1>3, PhaseLatestFacts DEF Lagging
    <3>2. /\ target' \in [Cursors -> Nat]
          /\ \A q \in Cursors : q # r => target'[q] = target[q] /\ load'[q] = load[q]
          /\ load'[r] = "wait" /\ load' \in [Cursors -> {"due", "wait", "copying", "loaded",
                                                         "failed", "lagged"}]
      BY <1>1, <2>2, <3>1 DEF CursorTypeOK
    <3>3. InvCopied'
      BY <1>1, <1>2, <2>2, <3>2 DEF InvCopied, Held, Lapped
    <3>4. entry = "done"
      BY <1>9 DEF StartCursor, Ready
    <3> QED BY <1>1, <1>2, <2>2, <3>2, <3>3, <3>4
            DEF CursorInv, CursorTypeOK, InvEntry, InvBootSeen, bootSeenVars
  <2> QED BY <1>9, <2>1, <2>2 DEF StartCursor
<1>10. ASSUME NEW r \in Cursors, AnchorFound(r) PROVE CursorInv'
  <2>1. target[r] <= newest[r] /\ Held(r, target[r])
    BY <1>3, <1>10, CursorFacts DEF AnchorFound, CursorAnchor, HubInv, InvAnchors
  <2>2. CursorData(r) = target[r] \/ Lapped(r, target[r])
    BY <2>1 DEF Held, CursorData
  <2>3. /\ load' = [load EXCEPT ![r] = "copying"] /\ out' = [out EXCEPT ![r] = CursorData(r)]
        /\ UNCHANGED <<autoRealign, opened, bootSeenVars, entry, target>>
        /\ entry = "done"
    BY <1>1, <1>10 DEF AnchorFound, InvEntry
  <2>4. CursorData(r) \in Nat \cup {Torn}
    BY CursorFacts
  <2>5. InvCopied'
    BY <1>1, <1>2, <2>1, <2>2, <2>3 DEF InvCopied, CursorTypeOK, Held, Lapped
  <2> QED BY <1>1, <1>2, <2>3, <2>4, <2>5
          DEF CursorInv, CursorTypeOK, InvEntry, InvBootSeen, bootSeenVars
<1>11. ASSUME NEW r \in Cursors, RowCopied(r) PROVE CursorInv'
  <2>1. Held(r, target[r]) /\ (out[r] = target[r] \/ Lapped(r, target[r]))
    BY <1>1, <1>11 DEF RowCopied, InvCopied
  <2>2. PICK v \in {CursorData(r), IF CursorData(r) = out[r] THEN out[r] ELSE Torn} :
          out' = [out EXCEPT ![r] = v]
    BY <1>11 DEF RowCopied
  <2>3. v = target[r] \/ Lapped(r, target[r])
    BY <2>1 DEF Held, CursorData
  <2>4. v \in Nat \cup {Torn}
    BY <1>1, CursorFacts DEF CursorTypeOK
  <2>5. /\ load' = [load EXCEPT ![r] = "loaded"] /\ entry = "done"
        /\ UNCHANGED <<autoRealign, opened, bootSeenVars, entry, target>>
    BY <1>1, <1>11 DEF RowCopied, InvEntry
  <2> HIDE DEF CursorInv
  <2>6. InvCopied'
    BY <1>1, <1>2, <2>2, <2>3, <2>5 DEF InvCopied, CursorTypeOK, Held, Lapped
  <2> QED BY <1>1, <1>2, <2>2, <2>4, <2>5, <2>6
          DEF CursorInv, CursorTypeOK, InvEntry, InvBootSeen, bootSeenVars
<1>12. ASSUME NEW r \in Cursors, AnchorOvertaken(r) PROVE CursorInv'
  <2>1. CASE RaiseLagged /\ UNCHANGED <<autoRealign, opened, bootSeenVars, out>>
    <3>1. entry = "done"
      BY <1>1, <1>12 DEF StartCursor, AnchorOvertaken, Ready, InvEntry
    <3> QED BY <1>2, <2>1, <3>1, AbandonedLoad
  <2>2. CASE /\ target' = [target EXCEPT ![r] = CursorAnchor(r)]
             /\ UNCHANGED <<load, entry, autoRealign, opened, bootSeenVars, out>>
    <3>1. target' \in [Cursors -> Nat] /\ load[r] = "wait"
          /\ \A q \in Cursors : q # r => target'[q] = target[q]
      BY <1>1, <1>12, <2>2, CursorFacts DEF CursorTypeOK, AnchorOvertaken
    <3>2. InvCopied'
      BY <1>4, <2>2, <3>1
    <3>3. CursorTypeOK' /\ InvEntry' /\ InvBootSeen'
      BY <1>1, <1>2, <2>2, <3>1 DEF CursorTypeOK, InvEntry, InvBootSeen, bootSeenVars
    <3> QED BY <3>1, <3>2, <3>3 DEF CursorInv
  <2> QED BY <1>12, <2>1, <2>2 DEF AnchorOvertaken
<1>13. ASSUME NEW r \in Cursors, AnchorMissing(r) PROVE CursorInv'
  <2>1. /\ load' = [load EXCEPT ![r] = "failed"] /\ entry = "done"
        /\ UNCHANGED <<autoRealign, opened, bootSeen, genSeen, entry, target, out>>
    BY <1>1, <1>13 DEF AnchorMissing, InvEntry, bootSeenVars
  <2>2. CursorTypeOK'
    BY <1>1, <2>1 DEF CursorTypeOK
  <2>3. InvCopied'
    BY <1>1, <1>2, <2>1 DEF InvCopied, CursorTypeOK, Held, Lapped
  <2>4. InvEntry' /\ InvBootSeen'
    BY <1>1, <1>2, <2>1 DEF InvEntry, InvBootSeen
  <2> QED BY <1>1, <2>1, <2>2, <2>3, <2>4 DEF CursorInv
<1>14. ASSUME NEW r \in Cursors, Rebegin(r) PROVE CursorInv'
  <2>1. target' \in [Cursors -> Nat] /\ \A q \in Cursors : q # r => target'[q] = target[q]
    BY <1>1, <1>3, <1>14, PhaseLatestFacts DEF Rebegin, CursorTypeOK
  <2>2. InvCopied'
    BY <1>1, <1>2, <1>14, <2>1 DEF Rebegin, InvCopied, CursorTypeOK, Held, Lapped
  <2> QED BY <1>1, <1>2, <1>14, <2>1, <2>2
          DEF Rebegin, CursorInv, CursorTypeOK, InvEntry, InvBootSeen, bootSeenVars
<1> QED BY <1>5, <1>6, <1>7, <1>8, <1>9, <1>10, <1>11, <1>12, <1>13, <1>14 DEF Cursor

-----------------------------------------------------------------------------
(* Sums over the days, as Flushed takes them *)

LastDay == Day((LastIndex + 1) * Cadence)

IsSum(g, f, last) == g = [d \in 0 .. last |-> f[d] + IF d = 0 THEN 0 ELSE g[d - 1]]

LEMMA SumExists ==
  ASSUME NEW last \in Nat, NEW f \in [0 .. last -> Nat]
  PROVE  \E g : IsSum(g, f, last)
<1> DEFINE T == {k \in 0 .. last : ~ \E g : IsSum(g, f, k)}
<1> SUFFICES ASSUME T # {} PROVE FALSE
  OBVIOUS
<1>0. T \in SUBSET Nat
  OBVIOUS
<1> HIDE DEF T
<1>1. PICK k \in T : \A j \in T : k <= j
  BY <1>0, EarliestOf
<1> USE DEF T
<1>2. k \in 0 .. last /\ ~ \E g : IsSum(g, f, k)
  OBVIOUS
<1>3. CASE k = 0
  <2> DEFINE g == [d \in 0 .. 0 |-> f[d]]
  <2>1. IsSum(g, f, 0)
    BY DEF IsSum
  <2> QED BY <1>2, <1>3, <2>1
<1>4. CASE k > 0
  <2>1. k - 1 \in 0 .. last /\ k - 1 \notin T
    BY <1>1, <1>2, <1>4
  <2>2. PICK g : IsSum(g, f, k - 1)
    BY <2>1
  <2> DEFINE h == [d \in 0 .. k |-> IF d = k THEN f[k] + g[k - 1] ELSE g[d]]
  <2>3. \A d \in 0 .. k - 1 : g[d] = f[d] + IF d = 0 THEN 0 ELSE g[d - 1]
    BY <2>2 DEF IsSum
  <2>4. ASSUME NEW d \in 0 .. k PROVE h[d] = f[d] + IF d = 0 THEN 0 ELSE h[d - 1]
    <3>1. CASE d = k
      BY <1>2, <1>4, <3>1
    <3>2. CASE d # k
      BY <1>2, <1>4, <2>3, <3>2
    <3> QED BY <3>1, <3>2
  <2>5. IsSum(h, f, k)
    BY <2>4 DEF IsSum
  <2> QED BY <1>2, <2>5
<1> QED BY <1>2, <1>3, <1>4

LEMMA SumType ==
  ASSUME NEW last \in Nat, NEW f \in [0 .. last -> Nat], NEW g, IsSum(g, f, last)
  PROVE  \A d \in 0 .. last : g[d] \in Nat
<1> DEFINE T == {d \in 0 .. last : g[d] \notin Nat}
<1> SUFFICES ASSUME T # {} PROVE FALSE
  OBVIOUS
<1>0. T \in SUBSET Nat
  OBVIOUS
<1> HIDE DEF T
<1>1. PICK d \in T : \A e \in T : d <= e
  BY <1>0, EarliestOf
<1> USE DEF T
<1>2. d \in 0 .. last /\ g[d] \notin Nat
  OBVIOUS
<1>3. g[d] = f[d] + IF d = 0 THEN 0 ELSE g[d - 1]
  BY <1>2 DEF IsSum
<1>4. d > 0 => d - 1 \in 0 .. last /\ d - 1 \notin T
  BY <1>1, <1>2
<1> QED BY <1>2, <1>3, <1>4

(* A batch is counted in the sums from its day on. *)
LEMMA SumAfterFlush ==
  ASSUME LastDay \in Nat, batchDay \in 0 .. LastDay, batch \in Nat,
         flushed \in [0 .. LastDay -> Nat], flushed' \in [0 .. LastDay -> Nat],
         \A d \in 0 .. LastDay :
           flushed'[d] = IF d = batchDay THEN flushed[d] + batch ELSE flushed[d],
         NEW g, NEW h, IsSum(g, flushed, LastDay), IsSum(h, flushed', LastDay)
  PROVE  h[LastDay] = g[LastDay] + batch
<1> DEFINE T == {d \in 0 .. LastDay : h[d] # g[d] + IF d >= batchDay THEN batch ELSE 0}
<1>1. T = {}
  <2> SUFFICES ASSUME T # {} PROVE FALSE
    OBVIOUS
  <2>0. T \in SUBSET Nat
    OBVIOUS
  <2> HIDE DEF T
  <2>1. PICK d \in T : \A e \in T : d <= e
    BY <2>0, EarliestOf
  <2> USE DEF T
  <2>2. d \in 0 .. LastDay /\ h[d] # g[d] + IF d >= batchDay THEN batch ELSE 0
    OBVIOUS
  <2>3. /\ g[d] = flushed[d] + IF d = 0 THEN 0 ELSE g[d - 1]
        /\ h[d] = flushed[d] + (IF d = batchDay THEN batch ELSE 0) + IF d = 0 THEN 0 ELSE h[d - 1]
    <3>1. g[d] = flushed[d] + IF d = 0 THEN 0 ELSE g[d - 1]
      BY <2>2 DEF IsSum
    <3>2. h[d] = flushed'[d] + IF d = 0 THEN 0 ELSE h[d - 1]
      BY <2>2 DEF IsSum
    <3>3. flushed[d] \in Nat /\ flushed'[d] = flushed[d] + (IF d = batchDay THEN batch ELSE 0)
      BY <2>2
    <3> QED BY <3>1, <3>2, <3>3
  <2>4. \A e \in 0 .. LastDay : g[e] \in Nat
    BY SumType
  <2>5. d > 0 => /\ d - 1 \in 0 .. LastDay
                 /\ h[d - 1] = g[d - 1] + IF d - 1 >= batchDay THEN batch ELSE 0
    BY <2>1, <2>2
  <2> HIDE DEF T
  <2>6. CASE d = 0
    BY <2>2, <2>3, <2>6
  <2>7. CASE d > 0
    BY <2>2, <2>3, <2>4, <2>5, <2>7
  <2> QED BY <2>2, <2>6, <2>7
<1> QED BY <1>1

LEMMA SumOfNothing ==
  ASSUME NEW last \in Nat, NEW g, IsSum(g, [d \in 0 .. last |-> 0], last)
  PROVE  g[last] = 0
<1> DEFINE T == {d \in 0 .. last : g[d] # 0}
<1>1. T = {}
  <2> SUFFICES ASSUME T # {} PROVE FALSE
    OBVIOUS
  <2>0. T \in SUBSET Nat
    OBVIOUS
  <2> HIDE DEF T
  <2>1. PICK d \in T : \A e \in T : d <= e
    BY <2>0, EarliestOf
  <2> USE DEF T
  <2>2. d \in 0 .. last /\ g[d] # 0
    OBVIOUS
  <2>3. g[d] = IF d = 0 THEN 0 ELSE 0 + g[d - 1]
    BY <2>2 DEF IsSum
  <2>4. d > 0 => d - 1 \in 0 .. last /\ g[d - 1] = 0
    BY <2>1, <2>2
  <2> QED BY <2>2, <2>3, <2>4
<1> QED BY <1>1

-----------------------------------------------------------------------------
(* The recorder: its inductive invariant *)

(* The anchor of the latest row appended, or of the poll in progress. *)
LatestPolled == IF polled # 0 THEN polled ELSE lastAnchor

InvPoll ==
  /\ lastAnchor <= lastWritten /\ polled <= lastWritten
  /\ polled # 0 => lastAnchor < polled
  /\ copying \subseteq todo /\ (polled = 0 => todo = {})

(* The days are flushed in order, and each while its file is open: none    *)
(* after the open one has been, and the open one has.                      *)
InvDays ==
  /\ path = NoFile \/ (flushed[path] > 0 /\ path <= Day(LatestPolled))
  /\ \A d \in Days : path < d => flushed[d] = 0
  /\ batch > 0 => path <= batchDay /\ batchDay <= Day(LatestPolled)

InvFiles ==
  process # "killed" =>
    \A d \in Days : file[d] = IF flushed[d] > 0 THEN flushed[d] ELSE found[d]

(* No row is forgotten between append and flush. *)
InvRows ==
  /\ \A g : IsSum(g, flushed, LastDay) => g[LastDay] + batch = totalRows
  /\ process = "closed" => batch = 0

(* The features of a row being copied are of the polled anchor's frame,    *)
(* or that frame has been lapped.                                          *)
InvFeatures ==
  \A r \in copying :
    LET n == polled \div Cadence
    IN  /\ AnchorNS(PhaseOf[r], n) = polled /\ n <= newest[r] /\ Held(r, n)
        /\ features[r] = n \/ Lapped(r, n)

RecorderInv ==
  /\ RecorderTypeOK /\ InvPoll /\ InvDays /\ InvFiles /\ InvRows
  /\ InvFeatures /\ FeaturesOfAnchor

(* A later anchor is not of an earlier day. *)
LEMMA DayFacts ==
  /\ LastDay \in Nat /\ Days = 0 .. LastDay
  /\ \A a \in Nat : Day(a) \in Nat
  /\ \A a, b \in Nat : a <= b => Day(a) <= Day(b)
<1>1. DayLength \in Nat \ {0}
  BY RecorderAssumption
<1>2. \A a \in Nat : Day(a) \in Nat
  BY <1>1, SMT DEF Day
<1>3. ASSUME NEW a \in Nat, NEW b \in Nat, a <= b PROVE Day(a) <= Day(b)
  <2>1. /\ Day(a) \in Int /\ Day(a) * DayLength <= a
        /\ Day(b) \in Int /\ b < (Day(b) * DayLength) + DayLength
    BY <1>1, Floor DEF Day
  <2>2. Day(a) * DayLength < (Day(b) + 1) * DayLength
    BY <1>1, <1>3, <2>1, SMT
  <2>3. Day(a) < Day(b) + 1
    BY <1>1, <2>1, <2>2, FactorCancelled
  <2> QED BY <2>1, <2>3
<1>4. (LastIndex + 1) * Cadence \in Nat
  BY LiveRingAssumption, SMT
<1> QED BY <1>2, <1>3, <1>4 DEF LastDay, Days

LEMMA InitRecorderInv ==
  LiveInit /\ RecoveryInit /\ RecorderInit => RecorderInv
<1> SUFFICES ASSUME LiveInit, RecoveryInit, RecorderInit PROVE RecorderInv
  OBVIOUS
<1>1. /\ lastAnchor = 0 /\ polled = 0 /\ todo = {} /\ copying = {}
      /\ features = [r \in Rows |-> 0]
      /\ batch = 0 /\ batchDay = 0 /\ path = -1
      /\ file = [d \in Days |-> 0] /\ flushed = [d \in Days |-> 0]
      /\ found = [d \in Days |-> 0]
      /\ totalRows = 0 /\ busy = 0 /\ process = "up" /\ reopens = 0 /\ lastWritten = 0
  BY DEF RecorderInit, LiveInit, Unset, NoFile
<1>2. RecorderTypeOK
  BY <1>1, DayFacts, RecorderAssumption DEF RecorderTypeOK, NoFile
<1>3. InvPoll /\ InvDays /\ InvFiles
  BY <1>1 DEF InvPoll, InvDays, InvFiles, NoFile
<1>4. InvRows
  BY <1>1, DayFacts, SumOfNothing DEF InvRows
<1>5. InvFeatures /\ FeaturesOfAnchor
  BY <1>1 DEF InvFeatures, FeaturesOfAnchor, Polling
<1> QED BY <1>2, <1>3, <1>4, <1>5 DEF RecorderInv

(* The hub goes on under the recorder. *)
LEMMA HubUnderRecorder ==
  ASSUME HubInv, RecorderInv, Hub, UNCHANGED recorderVars PROVE RecorderInv'
<1> USE DEF recorderVars, pollVars, batchVars, statVars, processVars
<1>1. lastWritten \in Nat /\ lastWritten' \in Nat /\ lastWritten <= lastWritten'
  <2>1. lastWritten \in Nat /\ lastWritten' \in Nat
    BY HubStep DEF HubInv, HubTypeOK, LiveTypeOK
  <2>2. CASE lastWritten' # lastWritten
    <3>1. lastWritten' = NextAnchorNS(cur) /\ cur \in Phases
      BY <2>2, PublishedByFinalize, HubFacts
         DEF FinalizeFrame, CommitFrameFinalize, HubInv, HubTypeOK
    <3> QED BY <2>1, <3>1 DEF HubInv, InvClock
  <2> QED BY <2>1, <2>2
<1>2. RecorderTypeOK' /\ InvFiles' /\ InvDays' /\ InvRows'
  BY DEF RecorderInv, RecorderTypeOK, InvFiles, InvDays, InvRows, LatestPolled
<1>3. InvPoll'
  BY <1>1 DEF RecorderInv, InvPoll, RecorderTypeOK
<1>4. ASSUME NEW r \in Rows, NEW n \in Nat
      PROVE  /\ n <= newest[r] /\ Held(r, n) => n <= newest'[r] /\ Held(r, n)'
             /\ Lapped(r, n) => Lapped(r, n)'
  <2>1. newest[r] \in Nat /\ newest'[r] \in Nat /\ newest[r] <= newest'[r]
    BY HeldStep, HubStep DEF HubInv, HubTypeOK, LiveTypeOK
  <2>2. n <= newest[r] /\ Held(r, n) => Held(r, n)'
    BY HeldStep
  <2> QED BY <2>1, <2>2, LiveRingAssumption DEF Lapped
<1>5. polled \div Cadence \in Nat
  BY LiveRingAssumption, SMT DEF RecorderInv, RecorderTypeOK
<1>6. InvFeatures'
  BY <1>4, <1>5 DEF RecorderInv, RecorderTypeOK, InvFeatures
<1>7. FeaturesOfAnchor'
  BY <1>4, <1>5 DEF RecorderInv, FeaturesOfAnchor, Polling, Up
<1> QED BY <1>2, <1>3, <1>6, <1>7 DEF RecorderInv

(* A flush adds the batch to its day, whose file is the open one, or one   *)
(* this recorder has not flushed to before.                                *)
LEMMA FlushFacts ==
  ASSUME RecorderInv, Flush
  PROVE  /\ batch' = 0 /\ batchDay' = batchDay /\ path' \in Days \cup {NoFile}
         /\ file' \in [Days -> Nat] /\ flushed' \in [Days -> Nat]
         /\ \A g : IsSum(g, flushed', LastDay) => g[LastDay] = totalRows
         /\ process # "killed" =>
              \A d \in Days : file'[d] = IF flushed'[d] > 0 THEN flushed'[d] ELSE found[d]
         /\ path' = NoFile \/ (flushed'[path'] > 0 /\ path' <= Day(LatestPolled))
         /\ \A d \in Days : path' < d => flushed'[d] = 0
<1>1. /\ RecorderTypeOK /\ InvDays /\ InvFiles /\ InvRows
      /\ batch \in Nat /\ batchDay \in Days /\ path \in Days \cup {NoFile}
      /\ file \in [Days -> Nat] /\ flushed \in [Days -> Nat] /\ found \in [Days -> Nat]
      /\ totalRows \in Nat
  BY DEF RecorderInv, RecorderTypeOK
<1>2. Days = 0 .. LastDay /\ LastDay \in Nat
  BY DayFacts
<1>3. CASE batch = 0
  <2>1. UNCHANGED <<batch, batchDay, path, file, flushed>>
    BY <1>3 DEF Flush, batchVars
  <2>2. \A g : IsSum(g, flushed, LastDay) => g[LastDay] = totalRows
    <3> SUFFICES ASSUME NEW g, IsSum(g, flushed, LastDay) PROVE g[LastDay] = totalRows
      OBVIOUS
    <3>1. g[LastDay] \in Nat
      BY <1>1, <1>2, SumType
    <3> QED BY <1>1, <1>3, <3>1 DEF InvRows
  <2> QED BY <1>1, <1>3, <2>1, <2>2 DEF InvDays, InvFiles
<1>4. CASE batch # 0
  <2>1. /\ file' = [file EXCEPT ![batchDay] = batch + IF path = batchDay THEN @ ELSE 0]
        /\ path' = batchDay /\ batch' = 0 /\ batchDay' = batchDay
        /\ flushed' = [flushed EXCEPT ![batchDay] = @ + batch]
    BY <1>4 DEF Flush
  <2>2. /\ file' \in [Days -> Nat] /\ flushed' \in [Days -> Nat]
        /\ \A d \in Days :
             /\ flushed'[d] = IF d = batchDay THEN flushed[d] + batch ELSE flushed[d]
             /\ file'[d] = IF d = batchDay
                             THEN batch + IF path = batchDay THEN file[d] ELSE 0
                             ELSE file[d]
    BY <1>1, <2>1
  <2>3. path <= batchDay /\ batchDay <= Day(LatestPolled) /\ path \in Int
    BY <1>1, <1>2, <1>4 DEF InvDays, NoFile
  <2>4. \A g : IsSum(g, flushed', LastDay) => g[LastDay] = totalRows
    <3> SUFFICES ASSUME NEW h, IsSum(h, flushed', LastDay) PROVE h[LastDay] = totalRows
      OBVIOUS
    <3>1. PICK g : IsSum(g, flushed, LastDay)
      BY <1>1, <1>2, SumExists
    <3>2. /\ flushed \in [0 .. LastDay -> Nat] /\ batchDay \in 0 .. LastDay
          /\ flushed' \in [0 .. LastDay -> Nat] /\ batch \in Nat
          /\ \A d \in 0 .. LastDay :
               flushed'[d] = IF d = batchDay THEN flushed[d] + batch ELSE flushed[d]
      BY <1>1, <1>2, <2>2
    <3>3. h[LastDay] = g[LastDay] + batch
      BY <1>2, <3>1, <3>2, SumAfterFlush
    <3> QED BY <1>1, <3>1, <3>3 DEF InvRows
  <2>5. \A d \in Days : path' < d => flushed'[d] = 0
    BY <1>1, <1>2, <2>1, <2>2, <2>3 DEF InvDays
  <2>6. flushed'[path'] > 0
    BY <1>1, <1>4, <2>1, <2>2
  <2>7. ASSUME process # "killed", NEW d \in Days
        PROVE  file'[d] = IF flushed'[d] > 0 THEN flushed'[d] ELSE found[d]
    <3>1. CASE d # batchDay
      BY <1>1, <2>2, <2>7, <3>1 DEF InvFiles
    <3>2. CASE d = batchDay /\ path = batchDay
      <4>1. flushed[d] > 0
        BY <1>1, <1>2, <3>2 DEF InvDays, NoFile
      <4>2. file[d] = flushed[d] /\ flushed[d] \in Nat
        BY <1>1, <2>7, <4>1 DEF InvFiles
      <4> QED BY <1>1, <2>2, <3>2, <4>1, <4>2
    <3>3. CASE d = batchDay /\ path # batchDay
      <4>1. flushed[d] = 0
        BY <1>1, <1>2, <2>3, <3>3 DEF InvDays
      <4> QED BY <1>1, <1>4, <2>2, <3>3, <4>1
    <3> QED BY <3>1, <3>2, <3>3
  <2> QED BY <1>1, <2>1, <2>2, <2>3, <2>4, <2>5, <2>6, <2>7
<1> QED BY <1>3, <1>4

(* Steps that flush the batch and leave the poll's rows alone. *)
LEMMA FlushingStep ==
  ASSUME HubInv, RecorderInv, PollIdle \/ PollOutsideHours \/ CloseRecorder,
         UNCHANGED <<liveVars, recoveryVars>>
  PROVE  RecorderInv'
<1>1. /\ Flush /\ UNCHANGED <<polled, todo, copying, features, totalRows, busy, reopens, found>>
      /\ polled = 0 /\ process = "up" /\ process' \in {"up", "closed"}
      /\ lastAnchor' = lastAnchor \/ lastAnchor' = lastWritten
  BY DEF PollIdle, PollOutsideHours, CloseRecorder, NewAnchor, Up, Polling, pollVars,
         statVars, processVars
<1>2. /\ RecorderTypeOK /\ InvPoll /\ copying = {} /\ lastAnchor \in Nat
      /\ lastWritten \in Nat /\ lastWritten' = lastWritten /\ lastAnchor' \in Nat
      /\ lastAnchor <= lastAnchor' /\ lastAnchor' <= lastWritten
  BY <1>1 DEF RecorderInv, RecorderTypeOK, InvPoll, HubInv, HubTypeOK, LiveTypeOK, liveVars
<1>3. /\ batch' = 0 /\ batchDay' = batchDay /\ path' \in Days \cup {NoFile}
      /\ file' \in [Days -> Nat] /\ flushed' \in [Days -> Nat]
      /\ \A g : IsSum(g, flushed', LastDay) => g[LastDay] = totalRows
      /\ \A d \in Days : file'[d] = IF flushed'[d] > 0 THEN flushed'[d] ELSE found[d]
      /\ path' = NoFile \/ (flushed'[path'] > 0 /\ path' <= Day(LatestPolled))
      /\ \A d \in Days : path' < d => flushed'[d] = 0
  BY <1>1, FlushFacts
<1>4. RecorderTypeOK'
  BY <1>1, <1>2, <1>3 DEF RecorderTypeOK
<1>5. InvPoll' /\ InvFiles'
  BY <1>1, <1>2, <1>3 DEF InvPoll, InvFiles
<1>6. InvDays'
  <2>1. Day(lastAnchor) \in Nat /\ Day(lastAnchor') \in Nat /\ Day(lastAnchor) <= Day(lastAnchor')
    BY <1>2, DayFacts
  <2>2. LatestPolled = lastAnchor /\ LatestPolled' = lastAnchor'
    BY <1>1 DEF LatestPolled
  <2>3. path' = NoFile \/ (flushed'[path'] > 0 /\ path' <= Day(lastAnchor'))
    BY <1>3, <2>1, <2>2, DayFacts
  <2> QED BY <1>1, <1>3, <2>2, <2>3 DEF InvDays, Day
<1>7. InvRows'
  <2>1. \A g : IsSum(g, flushed', LastDay) => g[LastDay] + batch' = totalRows'
    BY <1>1, <1>2, <1>3 DEF RecorderTypeOK
  <2> QED BY <1>3, <2>1 DEF InvRows, LastDay, Day
<1>8. InvFeatures' /\ FeaturesOfAnchor'
  BY <1>1, <1>2 DEF InvFeatures, FeaturesOfAnchor, Polling
<1> QED BY <1>4, <1>5, <1>6, <1>7, <1>8 DEF RecorderInv

(* A row appended to the batch. *)
LEMMA AppendFacts ==
  ASSUME HubInv, RecorderInv, Polling, NEW r, AppendRow(r),
         UNCHANGED <<polled, lastAnchor, process, found>>
  PROVE  /\ batch' \in Nat /\ batchDay' \in Days /\ totalRows' \in Nat
         /\ InvDays' /\ InvFiles' /\ InvRows'
<1>1. /\ RecorderTypeOK /\ InvPoll /\ InvDays /\ InvFiles /\ InvRows /\ polled # 0
      /\ process = "up" /\ batch \in Nat /\ batchDay \in Days /\ path \in Days \cup {NoFile}
      /\ totalRows \in Nat /\ polled \in Nat /\ flushed \in [Days -> Nat]
      /\ lastWritten \in Nat /\ lastWritten <= (LastIndex + 1) * Cadence
  BY DEF RecorderInv, RecorderTypeOK, Polling, Up, HubInv, HubTypeOK, LiveTypeOK, InvClock
<1>2. /\ batch' = batch + 1 /\ batchDay' = IF batch = 0 THEN Day(polled) ELSE batchDay
      /\ totalRows' = totalRows + 1 /\ UNCHANGED <<path, file, flushed>>
  BY DEF AppendRow
<1>3. LatestPolled = polled /\ LatestPolled' = polled
  BY <1>1 DEF LatestPolled
<1>4. Day(polled) \in 0 .. LastDay /\ Days = 0 .. LastDay /\ LastDay \in Nat
  <2>1. polled <= (LastIndex + 1) * Cadence /\ (LastIndex + 1) * Cadence \in Nat
    BY <1>1, LiveRingAssumption, SMT DEF InvPoll
  <2> QED BY <1>1, <2>1, DayFacts DEF LastDay
<1>5. path <= Day(polled)
  BY <1>1, <1>3, <1>4, DayFacts DEF InvDays, NoFile
<1>6. InvDays'
  <2>1. path <= batchDay' /\ batchDay' <= Day(polled)
    BY <1>1, <1>2, <1>3, <1>4, <1>5 DEF InvDays
  <2> QED BY <1>1, <1>2, <1>3, <2>1 DEF InvDays, Day
<1>7. InvRows'
  <2>1. ASSUME NEW g, IsSum(g, flushed, LastDay) PROVE g[LastDay] + batch' = totalRows'
    <3>1. LastDay \in Nat /\ LastDay \in 0 .. LastDay /\ flushed \in [0 .. LastDay -> Nat]
      BY <1>1, <1>4
    <3>2. g[LastDay] \in Nat
      BY <2>1, <3>1, SumType
    <3> QED BY <1>1, <1>2, <2>1, <3>2 DEF InvRows
  <2> QED BY <1>1, <1>2, <2>1 DEF InvRows, LastDay, Day
<1> QED BY <1>1, <1>2, <1>4, <1>6, <1>7 DEF InvFiles

(* An anchor of the polled one's nanoseconds is of the polled one's slot. *)
LEMMA PolledFrame ==
  ASSUME NEW p \in Phases, NEW n \in Nat, NEW a \in Nat, AnchorNS(p, n) = a
  PROVE  a \div Cadence = n
<1>1. /\ Cadence \in Nat \ {0} /\ Offset[p] \in Nat /\ Offset[p] < Cadence
      /\ a = (n * Cadence) + Offset[p] /\ a \in Int
  BY LiveRingAssumption DEF AnchorNS
<1> DEFINE k == a \div Cadence
<1>2. k \in Int /\ k * Cadence <= a /\ a < (k * Cadence) + Cadence
  BY <1>1, Floor
<1> HIDE DEF k
<1>3. n * Cadence < (k + 1) * Cadence /\ k * Cadence < (n + 1) * Cadence
  BY <1>1, <1>2, SMT
<1>4. n < k + 1 /\ k < n + 1
  BY <1>1, <1>2, <1>3, FactorCancelled
<1> QED BY <1>2, <1>4 DEF k

(* Rows are recorded, or passed over, one by one. *)
LEMMA RowStep ==
  ASSUME HubInv, RecorderInv, NEW r \in Rows, SnapshotBusy(r) \/ RecordRow(r) \/ FinishRow(r),
         UNCHANGED <<liveVars, recoveryVars>>
  PROVE  RecorderInv'
<1> DEFINE k == polled \div Cadence
<1>1. /\ RecorderTypeOK /\ InvPoll /\ InvDays /\ InvFiles /\ InvRows /\ InvFeatures
      /\ FeaturesOfAnchor /\ Polling /\ k \in Nat /\ PhaseOf[r] \in Phases
      /\ polled \in Nat /\ r \in todo
      /\ UNCHANGED <<polled, lastAnchor, process, reopens, found, lastWritten, newest, slotData>>
  BY LiveRingAssumption, SMT
  DEF RecorderInv, RecorderTypeOK, SnapshotBusy, RecordRow, FinishRow, processVars, liveVars,
      historyVars, InvPoll
<1>2. PolledSlot = Slot(k) /\ Slot(k) \in Slots
  BY <1>1, SlotOfRing DEF PolledSlot, Slot
<1> HIDE DEF k
<1>3. slotData[r][Slot(k)] \in Nat \cup {Torn} /\ features \in [Rows -> Nat \cup {Torn}]
  BY <1>1, <1>2 DEF HubInv, HubTypeOK, LiveTypeOK, RecorderTypeOK
<1>4. \A q \in Rows, n \in Nat : Lapped(q, n)' <=> Lapped(q, n)
  BY <1>1 DEF Lapped
<1>5. ASSUME AppendRow(r), copying' = {}, busy' = busy,
             NEW v \in Nat \cup {Torn}, features' = [features EXCEPT ![r] = v],
             v # Unset => (v = k /\ AnchorNS(PhaseOf[r], k) = polled) \/ Lapped(r, k)
      PROVE  RecorderInv'
  <2>1. /\ batch' \in Nat /\ batchDay' \in Days /\ totalRows' \in Nat
        /\ InvDays' /\ InvFiles' /\ InvRows'
    BY <1>1, <1>5, AppendFacts
  <2>2. todo' = todo \ {r} /\ UNCHANGED <<path, file, flushed>>
    BY <1>5 DEF AppendRow
  <2>3. features' \in [Rows -> Nat \cup {Torn}]
        /\ \A q \in Rows : features'[q] = IF q = r THEN v ELSE features[q]
    BY <1>3, <1>5
  <2>4. RecorderTypeOK'
    BY <1>1, <1>5, <2>1, <2>2, <2>3 DEF RecorderTypeOK
  <2>5. InvPoll' /\ InvFeatures'
    BY <1>1, <1>5, <2>2 DEF InvPoll, InvFeatures
  <2>6. FeaturesOfAnchor'
    <3> SUFFICES ASSUME NEW q \in Rows, q \notin todo', features'[q] # Unset
                 PROVE  AnchorNS(PhaseOf[q], features'[q]) = polled \/ Lapped(q, k)
      BY <1>1, <1>4 DEF FeaturesOfAnchor, Polling, AnchorNS, k
    <3>1. CASE q = r
      BY <1>5, <2>3, <3>1
    <3>2. CASE q # r
      <4>1. q \notin todo \cup copying /\ features'[q] = features[q]
        BY <1>1, <2>2, <2>3, <3>2 DEF InvPoll
      <4> QED BY <1>1, <4>1 DEF FeaturesOfAnchor, k
    <3> QED BY <3>1, <3>2
  <2> QED BY <2>1, <2>4, <2>5, <2>6 DEF RecorderInv
<1>6. CASE SnapshotBusy(r)
  <2>1. /\ todo' = todo \ {r} /\ copying' = {} /\ busy' \in 0 .. MaxBusy
        /\ features' = [features EXCEPT ![r] = Unset]
        /\ UNCHANGED <<batch, batchDay, path, file, flushed, totalRows>>
    BY <1>1, <1>6, RecorderAssumption DEF SnapshotBusy, batchVars, RecorderTypeOK
  <2>2. features' \in [Rows -> Nat \cup {Torn}]
        /\ \A q \in Rows : features'[q] = IF q = r THEN Unset ELSE features[q]
    BY <1>3, <2>1 DEF Unset
  <2>3. RecorderTypeOK'
    BY <1>1, <2>1, <2>2 DEF RecorderTypeOK
  <2>4. InvPoll' /\ InvFeatures' /\ InvFiles' /\ InvRows' /\ InvDays'
    BY <1>1, <2>1 DEF InvPoll, InvFeatures, InvFiles, InvRows, InvDays, LastDay, Day,
                      LatestPolled
  <2>5. FeaturesOfAnchor'
    <3>1. copying = {}
      BY <1>6 DEF SnapshotBusy
    <3> QED BY <1>1, <1>4, <2>1, <2>2, <3>1 DEF FeaturesOfAnchor, Polling, AnchorNS, Lapped
  <2> QED BY <2>3, <2>4, <2>5 DEF RecorderInv
<1>7. CASE RecordRow(r) /\ FrameReady(r)
  <2>1. /\ copying' = {r} /\ features' = [features EXCEPT ![r] = slotData[r][Slot(k)]]
        /\ UNCHANGED <<todo, batch, batchDay, path, file, flushed, totalRows, busy>>
        /\ copying = {}
    BY <1>2, <1>7 DEF RecordRow, batchVars
  <2>2. features' \in [Rows -> Nat \cup {Torn}]
        /\ \A q \in Rows : features'[q] = IF q = r THEN slotData[r][Slot(k)] ELSE features[q]
    BY <1>3, <2>1
  <2>3. frameAnchor[PhaseOf[r]][Slot(k)] = k /\ AnchorNS(PhaseOf[r], k) = polled
    <3> DEFINE n == frameAnchor[PhaseOf[r]][Slot(k)]
    <3>1. n \in Nat /\ AnchorNS(PhaseOf[r], n) = polled
      BY <1>1, <1>2, <1>7 DEF FrameReady, HubInv, HubTypeOK, LiveTypeOK
    <3> HIDE DEF n
    <3>2. n = k
      BY <1>1, <3>1, PolledFrame DEF k
    <3> QED BY <3>1, <3>2 DEF n
  <2>4. k <= newest[r] /\ Held(r, k)
    BY <1>1, <2>3 DEF HubInv, InvAnchors
  <2>5. RecorderTypeOK'
    BY <1>1, <2>1, <2>2 DEF RecorderTypeOK
  <2>6. InvPoll' /\ InvFiles' /\ InvRows' /\ InvDays'
    BY <1>1, <2>1 DEF InvPoll, InvFiles, InvRows, InvDays, LastDay, Day, LatestPolled
  <2>7. InvFeatures'
    <3>1. features'[r] = k \/ Lapped(r, k)
      BY <2>2, <2>4 DEF Held
    <3> QED BY <1>1, <1>4, <2>1, <2>3, <2>4, <3>1
            DEF InvFeatures, Held, Lapped, AnchorNS, Slot, k
  <2>8. FeaturesOfAnchor'
    BY <1>1, <1>4, <2>1, <2>2 DEF FeaturesOfAnchor, Polling, AnchorNS, Lapped
  <2> QED BY <2>5, <2>6, <2>7, <2>8 DEF RecorderInv
<1>8. CASE RecordRow(r) /\ ~FrameReady(r)
  <2>1. /\ features' = [features EXCEPT ![r] = Unset] /\ AppendRow(r) /\ copying' = {}
        /\ copying = {} /\ busy' = busy
    BY <1>8 DEF RecordRow
  <2> QED BY <1>5, <2>1 DEF Unset
<1>9. CASE FinishRow(r)
  <2>1. /\ AppendRow(r) /\ copying' = {} /\ r \in copying /\ busy' = busy
    BY <1>9 DEF FinishRow
  <2> DEFINE now == slotData[r][Slot(k)]
  <2>2. PICK v \in {now, IF now = features[r] THEN now ELSE Torn} :
          features' = [features EXCEPT ![r] = v]
    BY <1>2, <1>9 DEF FinishRow
  <2>3. /\ AnchorNS(PhaseOf[r], k) = polled /\ (now = k \/ Lapped(r, k))
        /\ features[r] = k \/ Lapped(r, k)
    BY <1>1, <2>1 DEF InvFeatures, Held, k
  <2>4. v = k \/ Lapped(r, k)
    BY <2>3
  <2>5. v \in Nat \cup {Torn}
    BY <1>3
  <2> HIDE DEF now
  <2> QED BY <1>5, <2>1, <2>2, <2>3, <2>4, <2>5
<1> QED BY <1>6, <1>7, <1>8, <1>9

(* A step of the recorder. *)
LEMMA RecorderStep ==
  ASSUME HubInv, RecorderInv, Recorder, UNCHANGED <<liveVars, recoveryVars>>
  PROVE  RecorderInv'
<1>1. /\ RecorderTypeOK /\ InvPoll /\ InvDays /\ InvFiles /\ InvRows /\ InvFeatures
      /\ FeaturesOfAnchor /\ lastWritten \in Nat /\ UNCHANGED <<lastWritten, newest, slotData>>
  BY DEF RecorderInv, HubInv, HubTypeOK, LiveTypeOK, liveVars, historyVars
<1>2. CASE PollIdle \/ PollOutsideHours \/ CloseRecorder
  BY <1>2, FlushingStep
<1>3. CASE PollStart
  <2>1. /\ polled' = lastWritten /\ todo' = Rows /\ polled = 0 /\ lastWritten > lastAnchor
        /\ lastWritten # 0
        /\ UNCHANGED <<lastAnchor, copying, features, batch, batchDay, path, file, flushed,
                       totalRows, busy, process, reopens, found>>
    BY <1>3 DEF PollStart, NewAnchor, Polling, Up, batchVars, processVars
  <2>2. copying = {} /\ lastAnchor \in Nat /\ copying' = {}
    BY <1>1, <2>1 DEF InvPoll, RecorderTypeOK
  <2>3. RecorderTypeOK' /\ InvPoll' /\ InvFeatures' /\ InvFiles' /\ InvRows'
    BY <1>1, <2>1, <2>2
       DEF RecorderTypeOK, InvPoll, InvFeatures, InvFiles, InvRows, LastDay, Day
  <2>4. InvDays'
    <3>1. LatestPolled = lastAnchor /\ LatestPolled' = lastWritten
      BY <1>1, <2>1 DEF LatestPolled
    <3>2. Day(lastAnchor) \in Nat /\ Day(lastWritten) \in Nat /\ Day(lastAnchor) <= Day(lastWritten)
      BY <1>1, <2>1, <2>2, DayFacts
    <3>3. /\ path \in Days \cup {NoFile} /\ batchDay \in Days /\ Days \subseteq Int
      BY <1>1, DayFacts DEF RecorderTypeOK
    <3>4. path \in Int
      BY <3>3 DEF NoFile
    <3>5. path' = NoFile \/ (flushed'[path'] > 0 /\ path' <= Day(LatestPolled)')
      BY <1>1, <2>1, <3>1, <3>2, <3>4 DEF InvDays, Day
    <3>6. batch' > 0 => path' <= batchDay' /\ batchDay' <= Day(LatestPolled)'
      BY <1>1, <2>1, <3>1, <3>2, <3>3 DEF InvDays, Day
    <3> QED BY <1>1, <2>1, <3>5, <3>6 DEF InvDays, Day
  <2>5. FeaturesOfAnchor'
    BY <2>1 DEF FeaturesOfAnchor
  <2> QED BY <2>3, <2>4, <2>5 DEF RecorderInv
<1>4. CASE PollEnd
  <2>1. /\ lastAnchor' = polled /\ polled' = 0 /\ todo = {} /\ polled # 0 /\ process = "up"
        /\ features' = [r \in Rows |-> Unset] /\ (Flush \/ UNCHANGED batchVars)
        /\ UNCHANGED <<todo, copying, totalRows, busy, process, reopens, found>>
    BY <1>4 DEF PollEnd, Polling, Up, statVars, processVars
  <2>2. copying = {} /\ copying' = {} /\ LatestPolled = polled /\ LatestPolled' = polled
    BY <1>1, <2>1 DEF InvPoll, LatestPolled
  <2>3. /\ batch' \in Nat /\ batchDay' \in Days /\ path' \in Days \cup {NoFile}
        /\ {file', flushed'} \subseteq [Days -> Nat]
        /\ InvDays' /\ InvFiles' /\ InvRows'
    <3>1. CASE Flush
      <4>1. /\ batch' = 0 /\ batchDay' = batchDay /\ path' \in Days \cup {NoFile}
            /\ file' \in [Days -> Nat] /\ flushed' \in [Days -> Nat]
            /\ \A g : IsSum(g, flushed', LastDay) => g[LastDay] = totalRows
            /\ \A d \in Days : file'[d] = IF flushed'[d] > 0 THEN flushed'[d] ELSE found[d]
            /\ path' = NoFile \/ (flushed'[path'] > 0 /\ path' <= Day(polled))
            /\ \A d \in Days : path' < d => flushed'[d] = 0
        BY <2>1, <2>2, <3>1, FlushFacts
      <4>2. InvDays' /\ InvFiles'
        BY <2>1, <2>2, <4>1 DEF InvDays, InvFiles, Day
      <4>3. InvRows'
        <5>1. \A g : IsSum(g, flushed', LastDay) => g[LastDay] + batch' = totalRows'
          BY <1>1, <2>1, <4>1 DEF RecorderTypeOK
        <5> QED BY <4>1, <5>1 DEF InvRows, LastDay, Day
      <4> QED BY <1>1, <4>1, <4>2, <4>3 DEF RecorderTypeOK
    <3>2. CASE UNCHANGED batchVars
      BY <1>1, <2>1, <2>2, <3>2
         DEF batchVars, RecorderTypeOK, InvDays, InvFiles, InvRows, LastDay, Day
    <3> QED BY <2>1, <3>1, <3>2
  <2>4. features' \in [Rows -> Nat \cup {Torn}]
    <3>1. features' = [r \in Rows |-> 0]
      BY <1>4 DEF PollEnd, Unset
    <3> QED BY <3>1
  <2>5. RecorderTypeOK'
    BY <1>1, <2>1, <2>2, <2>3, <2>4 DEF RecorderTypeOK
  <2>6. InvPoll' /\ InvFeatures' /\ FeaturesOfAnchor'
    BY <1>1, <2>1, <2>2 DEF InvPoll, InvFeatures, FeaturesOfAnchor, Polling, RecorderTypeOK
  <2> QED BY <2>3, <2>5, <2>6 DEF RecorderInv
<1>5. CASE KillRecorder
  <2>1. /\ process' = "killed" /\ file' = [d \in Days |-> IF d = path THEN 0 ELSE file[d]]
        /\ UNCHANGED <<lastAnchor, polled, todo, copying, features, batch, batchDay, path,
                       flushed, totalRows, busy, reopens, found>>
    BY <1>5 DEF KillRecorder, pollVars, statVars
  <2>2. file' \in [Days -> Nat]
    BY <1>1, <2>1 DEF RecorderTypeOK
  <2>3. RecorderTypeOK'
    BY <1>1, <2>1, <2>2 DEF RecorderTypeOK
  <2> QED BY <1>1, <2>1, <2>3
          DEF RecorderInv, InvPoll, InvDays, InvFiles, InvRows, InvFeatures, FeaturesOfAnchor,
              Polling, Up, LatestPolled, LastDay, Day, Held, Lapped, AnchorNS, Slot
<1>6. CASE ReopenRecorder
  <2>1. /\ process' = "up" /\ reopens' = reopens + 1 /\ reopens < MaxReopens
        /\ found' = file /\ flushed' = [d \in Days |-> 0]
        /\ lastAnchor' = 0 /\ polled' = 0 /\ todo' = {} /\ copying' = {}
        /\ features' = [r \in Rows |-> Unset]
        /\ batch' = 0 /\ batchDay' = 0 /\ path' = NoFile /\ totalRows' = 0
        /\ UNCHANGED <<file, busy>>
    BY <1>6 DEF ReopenRecorder
  <2>2. /\ flushed' \in [Days -> Nat] /\ features' \in [Rows -> Nat \cup {Torn}] /\ 0 \in Days
        /\ file \in [Days -> Nat]
    <3>1. features' = [r \in Rows |-> 0] /\ flushed' = [d \in Days |-> 0]
      BY <2>1 DEF Unset
    <3>2. features' \in [Rows -> Nat \cup {Torn}] /\ flushed' \in [Days -> Nat]
      BY <3>1
    <3>3. 0 \in Days
      BY DayFacts
    <3> QED BY <1>1, <3>2, <3>3 DEF RecorderTypeOK
  <2>3. RecorderTypeOK'
    BY <1>1, <2>1, <2>2, RecorderAssumption DEF RecorderTypeOK
  <2>4. InvPoll' /\ InvDays' /\ InvFiles' /\ InvFeatures' /\ FeaturesOfAnchor'
    BY <1>1, <2>1, <2>2
       DEF InvPoll, InvDays, InvFiles, InvFeatures, FeaturesOfAnchor, Polling, NoFile
  <2>5. InvRows'
    <3>1. /\ Days = 0 .. LastDay /\ LastDay \in Nat /\ Days' = Days /\ LastDay' = LastDay
      BY DayFacts DEF Days, LastDay, Day
    <3>2. ASSUME NEW g, IsSum(g, flushed', LastDay) PROVE g[LastDay] = 0
      <4>1. IsSum(g, [d \in 0 .. LastDay |-> 0], LastDay)
        BY <2>1, <3>1, <3>2
      <4> QED BY <3>1, <4>1, SumOfNothing
    <3> QED BY <2>1, <3>1, <3>2 DEF InvRows
  <2> QED BY <2>3, <2>4, <2>5 DEF RecorderInv
<1>7. CASE \E r \in Rows : SnapshotBusy(r) \/ RecordRow(r) \/ FinishRow(r)
  BY <1>7, RowStep
<1> QED BY <1>2, <1>3, <1>4, <1>5, <1>6, <1>7 DEF Recorder

(* What a recorder has flushed is on disk, and a closed one has flushed    *)
(* every row it counted.                                                   *)
LEMMA TruncatedNothing == RecorderInv => NothingTruncated
<1> SUFFICES ASSUME RecorderInv PROVE NothingTruncated
  OBVIOUS
<1>1. RecorderTypeOK /\ InvFiles /\ InvRows /\ totalRows \in Nat /\ flushed \in [Days -> Nat]
  BY DEF RecorderInv, RecorderTypeOK
<1>2. Days = 0 .. LastDay /\ LastDay \in Nat
  BY DayFacts
<1>3. ASSUME process = "closed" PROVE Flushed = totalRows
  <2> DEFINE g == CHOOSE g : g = [d \in Days |-> flushed[d] + IF d = 0 THEN 0 ELSE g[d - 1]]
  <2>1. \E f : f = [d \in Days |-> flushed[d] + IF d = 0 THEN 0 ELSE f[d - 1]]
    <3>1. flushed \in [0 .. LastDay -> Nat]
      BY <1>1, <1>2
    <3>2. PICK f : IsSum(f, flushed, LastDay)
      BY <1>2, <3>1, SumExists
    <3> QED BY <1>2, <3>2 DEF IsSum
  <2>2. g = [d \in Days |-> flushed[d] + IF d = 0 THEN 0 ELSE g[d - 1]]
    BY <2>1
  <2>3. Flushed = g[LastDay]
    BY DEF Flushed, LastDay
  <2> HIDE DEF g
  <2>4. IsSum(g, flushed, LastDay)
    BY <1>2, <2>2 DEF IsSum
  <2>5. g[LastDay] \in Nat
    BY <1>1, <1>2, <2>4, SumType
  <2> QED BY <1>1, <1>3, <2>3, <2>4, <2>5 DEF InvRows
<1> QED BY <1>1, <1>3 DEF NothingTruncated, InvFiles

(* The consumer's and the recorder's facts are about their own state and   *)
(* the hub's.                                                              *)
LEMMA CursorStutter ==
  ASSUME CursorInv, UNCHANGED <<liveVars, recoveryVars, cursorVars>> PROVE CursorInv'
<1>1. UNCHANGED <<autoRealign, opened, bootSeen, genSeen, entry, target, load, out, bootID,
                  newest, slotData>>
  BY DEF liveVars, historyVars, recoveryVars, headerVars, cursorVars, bootSeenVars
<1> QED BY <1>1
        DEF CursorInv, CursorTypeOK, InvCopied, InvEntry, InvBootSeen, Held, Lapped, Slot

LEMMA RecorderStutter ==
  ASSUME RecorderInv, UNCHANGED <<liveVars, recoveryVars, recorderVars>> PROVE RecorderInv'
<1>1. UNCHANGED <<lastAnchor, polled, todo, copying, features, batch, batchDay, path, file,
                  flushed, totalRows, busy, process, reopens, found, lastWritten, newest,
                  slotData>>
  BY DEF liveVars, historyVars, recorderVars, pollVars, batchVars, statVars, processVars
<1> QED BY <1>1
        DEF RecorderInv, RecorderTypeOK, InvPoll, InvDays, InvFiles, InvRows, InvFeatures,
            FeaturesOfAnchor, Polling, Up, LatestPolled, LastDay, Day, Held, Lapped, AnchorNS,
            Slot

-----------------------------------------------------------------------------
(* The relay: its types *)

SlotPackets ==
  UNION {[phase : {p}, slot : Slots, rows : [RowsOf(p) -> Nat \cup {Torn}]] : p \in Phases}
CommitPackets == [commit : Nat]
Packets == SlotPackets \cup CommitPackets

RelayTyped == RelayTypeOK /\ wire \in Seq(Packets) /\ half \subseteq SlotPackets

(* The two kinds of packet are told apart by their fields. *)
LEMMA PacketFacts ==
  /\ \A h \in SlotPackets :
       /\ "rows" \in DOMAIN h /\ "commit" \notin DOMAIN h
       /\ h.phase \in Phases /\ h.slot \in Slots /\ h.rows \in [RowsOf(h.phase) -> Nat \cup {Torn}]
  /\ \A h \in CommitPackets : "commit" \in DOMAIN h /\ "rows" \notin DOMAIN h /\ h.commit \in Nat
<1>1. ASSUME NEW h \in SlotPackets
      PROVE  /\ "rows" \in DOMAIN h /\ "commit" \notin DOMAIN h
             /\ h.phase \in Phases /\ h.slot \in Slots
             /\ h.rows \in [RowsOf(h.phase) -> Nat \cup {Torn}]
  <2>1. PICK p \in Phases : h \in [phase : {p}, slot : Slots, rows : [RowsOf(p) -> Nat \cup {Torn}]]
    BY DEF SlotPackets
  <2>2. DOMAIN h = {"phase", "slot", "rows"}
    BY <2>1
  <2>3. h.phase = p /\ h.slot \in Slots /\ h.rows \in [RowsOf(p) -> Nat \cup {Torn}]
    BY <2>1
  <2> QED BY <2>2, <2>3
<1>2. ASSUME NEW h \in CommitPackets
      PROVE  "commit" \in DOMAIN h /\ "rows" \notin DOMAIN h /\ h.commit \in Nat
  <2>1. DOMAIN h = {"commit"} /\ h.commit \in Nat
    BY DEF CommitPackets
  <2> QED BY <2>1
<1> QED BY <1>1, <1>2

(* A packet sent, and a packet received. *)
LEMMA Sent ==
  ASSUME NEW P, NEW s \in Seq(P), NEW h \in P
  PROVE  /\ Append(s, h) \in Seq(P) /\ Len(s) \in Nat /\ Len(Append(s, h)) = Len(s) + 1
         /\ Append(s, h)[Len(s) + 1] = h /\ \A i \in 1 .. Len(s) : Append(s, h)[i] = s[i]
  OBVIOUS

LEMMA Received ==
  ASSUME NEW P, NEW s \in Seq(P), s # <<>>
  PROVE  /\ Head(s) \in P /\ Head(s) = s[1] /\ Tail(s) \in Seq(P) /\ Len(s) \in Nat \ {0}
         /\ Len(Tail(s)) = Len(s) - 1 /\ \A i \in 1 .. Len(s) - 1 : Tail(s)[i] = s[i + 1]
  OBVIOUS

(* The rows of a slot, as the server reads them. *)
LEMMA SlotRowsType ==
  ASSUME HubInv, RelayTyped, NEW p \in Phases
  PROVE  /\ SendSlot \in Slots /\ SendSlot = Slot(nextAnchor \div Cadence)
         /\ nextAnchor \div Cadence \in Nat
         /\ SlotRows(p) \in [RowsOf(p) -> Nat \cup {Torn}]
<1>0. nextAnchor \in Nat /\ Cadence \in Nat \ {0}
  BY LiveRingAssumption DEF RelayTyped, RelayTypeOK
<1>1. nextAnchor \div Cadence \in Nat
  BY <1>0, SMT
<1>2. SendSlot \in Slots /\ SendSlot = Slot(nextAnchor \div Cadence)
  BY <1>1, SlotOfRing DEF SendSlot, Slot
<1>3. \A r \in RowsOf(p) : slotData[r][SendSlot] \in Nat \cup {Torn}
  BY <1>2 DEF HubInv, HubTypeOK, LiveTypeOK, RowsOf
<1> QED BY <1>1, <1>2, <1>3 DEF SlotRows

LEMMA InitRelayTyped == RelayInit => RelayTyped
<1> SUFFICES ASSUME RelayInit PROVE RelayTyped
  OBVIOUS
<1>1. /\ fromStart \in BOOLEAN /\ link = "down" /\ breaks = 0 /\ nextAnchor = 0 /\ sending = {}
      /\ half = {} /\ server = "poll" /\ seen = 0 /\ wire = <<>> /\ rLast = 0
      /\ rData = [r \in Rows |-> [s \in Slots |-> 0]]
  BY DEF RelayInit, Unset
<1>2. rData \in [Rows -> [Slots -> Nat \cup {Torn}]] /\ wire \in Seq(Packets) /\ Len(wire) = 0
  BY <1>1
<1> QED BY <1>1, <1>2, RelayAssumption DEF RelayTyped, RelayTypeOK

LEMMA RelayStutter == ASSUME RelayTyped, UNCHANGED relayVars PROVE RelayTyped'
  BY DEF RelayTyped, RelayTypeOK, relayVars, serverVars, replicaVars, SlotPackets,
         CommitPackets, Packets, RowsOf

(* The step of the relay keeps the types. *)
LEMMA RelayTypedStep ==
  ASSUME HubInv, RelayTyped, Relay, UNCHANGED <<liveVars, recoveryVars>> PROVE RelayTyped'
<1>1. /\ RelayTypeOK /\ wire \in Seq(Packets) /\ half \subseteq SlotPackets
      /\ nextAnchor \in Nat /\ seen \in Nat /\ rLast \in Nat /\ Len(wire) <= WireRoom
      /\ firstAnchor \in Nat /\ lastWritten \in Nat
      /\ Cadence \in Nat \ {0} /\ MaxFrames \in Nat \ {0}
      /\ rData \in [Rows -> [Slots -> Nat \cup {Torn}]]
  BY LiveRingAssumption DEF RelayTyped, RelayTypeOK, HubInv, HubTypeOK, LiveTypeOK
<1> USE DEF serverVars, replicaVars
<1>2. CASE Connect \/ LoadLast \/ TestStatus \/ ClientEnds
  BY <1>1, <1>2
  DEF Connect, StartAnchor, LoadLast, TestStatus, ClientEnds, RelayTyped, RelayTypeOK
<1>3. CASE TestDue
  <2>1. (MaxFrames - 2) * Cadence \in Int
    BY <1>1, SMT
  <2>2. Clamped \in Nat
    BY <1>1, <2>1 DEF Clamped
  <2> QED BY <1>1, <1>3, <2>2 DEF TestDue, RelayTyped, RelayTypeOK
<1>4. ASSUME NEW p \in Phases, CopySlot(p) PROVE RelayTyped'
  <2>1. [phase |-> p, slot |-> SendSlot, rows |-> SlotRows(p)] \in SlotPackets
    BY SlotRowsType DEF SlotPackets
  <2> QED BY <1>1, <1>4, <2>1 DEF CopySlot, RelayTyped, RelayTypeOK
<1>5. CASE SendSlotPacket
  <2>1. PICK h \in half :
          LET now == SlotRows(h.phase)
              read == [r \in RowsOf(h.phase) |->
                         IF now[r] = h.rows[r] THEN now[r] ELSE Torn]
          IN  /\ \E rows \in {now, read} : wire' = Append(wire, [h EXCEPT !.rows = rows])
              /\ sending' = sending \ {h.phase}
    BY <1>5 DEF SendSlotPacket
  <2> DEFINE now == SlotRows(h.phase)
             read == [r \in RowsOf(h.phase) |-> IF now[r] = h.rows[r] THEN now[r] ELSE Torn]
  <2>2. PICK rows \in {now, read} : wire' = Append(wire, [h EXCEPT !.rows = rows])
    BY <2>1
  <2>3. h \in SlotPackets /\ h.phase \in Phases
    BY <1>1, PacketFacts
  <2>4. now \in [RowsOf(h.phase) -> Nat \cup {Torn}]
    BY <2>3, SlotRowsType
  <2> HIDE DEF now
  <2>5. rows \in [RowsOf(h.phase) -> Nat \cup {Torn}]
    BY <2>2, <2>4
  <2> HIDE DEF read
  <2>6. [h EXCEPT !.rows = rows] \in Packets
    BY <2>3, <2>5 DEF SlotPackets, Packets
  <2>7. wire' \in Seq(Packets) /\ Len(wire') <= WireRoom
    BY <1>1, <1>5, <2>2, <2>6, Sent, RelayAssumption DEF SendSlotPacket
  <2> QED BY <1>1, <1>5, <2>1, <2>7 DEF SendSlotPacket, RelayTyped, RelayTypeOK
<1>6. CASE SendCommit
  <2>1. [commit |-> nextAnchor] \in Packets
    BY <1>1 DEF CommitPackets, Packets
  <2>2. wire' \in Seq(Packets) /\ Len(wire') <= WireRoom
    BY <1>1, <1>6, <2>1, Sent, RelayAssumption DEF SendCommit
  <2> QED BY <1>1, <1>6, <2>2 DEF SendCommit, RelayTyped, RelayTypeOK
<1>7. CASE ApplySlot
  <2>1. /\ Head(wire) \in Packets /\ wire' \in Seq(Packets) /\ Len(wire') <= WireRoom
    BY <1>1, <1>7, Received, RelayAssumption DEF ApplySlot, Receiving
  <2>2. Head(wire) \in SlotPackets
    BY <1>7, <2>1, PacketFacts DEF ApplySlot, Packets
  <2>3. /\ Head(wire).slot \in Slots
        /\ Head(wire).rows \in [RowsOf(Head(wire).phase) -> Nat \cup {Torn}]
    BY <2>2, PacketFacts
  <2>4. rData' \in [Rows -> [Slots -> Nat \cup {Torn}]]
    BY <1>1, <1>7, <2>3 DEF ApplySlot
  <2> QED BY <1>1, <1>7, <2>1, <2>4 DEF ApplySlot, RelayTyped, RelayTypeOK
<1>8. CASE ApplyCommit
  <2>1. /\ Head(wire) \in Packets /\ wire' \in Seq(Packets) /\ Len(wire') <= WireRoom
    BY <1>1, <1>8, Received, RelayAssumption DEF ApplyCommit, Receiving
  <2>2. Head(wire).commit \in Nat
    BY <1>8, <2>1, PacketFacts DEF ApplyCommit, Packets
  <2> QED BY <1>1, <1>8, <2>1, <2>2 DEF ApplyCommit, RelayTyped, RelayTypeOK
<1>9. CASE Disconnect
  <2>1. wire' \in Seq(Packets) /\ Len(wire') = 0
    BY <1>9 DEF Disconnect
  <2> QED BY <1>1, <1>9, <2>1, RelayAssumption DEF Disconnect, RelayTyped, RelayTypeOK
<1> QED BY <1>2, <1>3, <1>4, <1>5, <1>6, <1>7, <1>8, <1>9 DEF Relay

-----------------------------------------------------------------------------
(* The hub and its readers *)

ReadersInv == HubInv /\ InvReturns /\ CursorInv /\ RecorderInv /\ RelayTyped

LEMMA ReturnsStutter ==
  ASSUME InvReturns, UNCHANGED <<liveVars, recoveryVars>> PROVE InvReturns'
<1>1. UNCHANGED <<phaseSlots, phaseNext, daemon, recovering, cold, prices, committing, cur, exact>>
  BY DEF liveVars, recoveryVars, bootVars, windowVars
<1> QED BY <1>1 DEF InvReturns, Running, Committing, LastPhase, Slot

LEMMA ReadersStep == ASSUME ReadersInv, [Next]_vars PROVE ReadersInv'
<1>1. HubInv /\ InvReturns /\ CursorInv /\ RecorderInv /\ RelayTyped
  BY DEF ReadersInv
<1>2. CASE Hub /\ UNCHANGED <<cursorVars, recorderVars, relayVars, reader>>
  <2>1. HubInv' /\ InvReturns'
    BY <1>1, <1>2, HubStep, HubReturns
  <2>2. CursorInv' /\ RecorderInv'
    BY <1>1, <1>2, HubUnderCursor, HubUnderRecorder
  <2>3. RelayTyped'
    BY <1>1, <1>2, RelayStutter
  <2> QED BY <2>1, <2>2, <2>3 DEF ReadersInv
<1>3. ASSUME UNCHANGED <<liveVars, recoveryVars>>,
             CursorInv', RecorderInv', RelayTyped'
      PROVE  ReadersInv'
  BY <1>1, <1>3, HubStutter, ReturnsStutter DEF ReadersInv
<1>4. CASE Cursor /\ UNCHANGED <<liveVars, recoveryVars, recorderVars, relayVars, reader>>
  <2>1. CursorInv'
    BY <1>1, <1>4, CursorStep
  <2>2. RecorderInv' /\ RelayTyped'
    BY <1>1, <1>4, RecorderStutter, RelayStutter
  <2> QED BY <1>3, <1>4, <2>1, <2>2
<1>5. CASE Recorder /\ UNCHANGED <<liveVars, recoveryVars, cursorVars, relayVars, reader>>
  <2>1. RecorderInv'
    BY <1>1, <1>5, RecorderStep
  <2>2. CursorInv' /\ RelayTyped'
    BY <1>1, <1>5, CursorStutter, RelayStutter
  <2> QED BY <1>3, <1>5, <2>1, <2>2
<1>6. CASE Relay /\ UNCHANGED <<liveVars, recoveryVars, cursorVars, recorderVars, reader>>
  <2>1. RelayTyped'
    BY <1>1, <1>6, RelayTypedStep
  <2>2. CursorInv' /\ RecorderInv'
    BY <1>1, <1>6, CursorStutter, RecorderStutter
  <2> QED BY <1>3, <1>6, <2>1, <2>2
<1>7. CASE UNCHANGED vars
  <2>1. UNCHANGED <<liveVars, recoveryVars, cursorVars, recorderVars, relayVars>>
    BY <1>7 DEF vars
  <2>2. CursorInv' /\ RecorderInv' /\ RelayTyped'
    BY <1>1, <2>1, CursorStutter, RecorderStutter, RelayStutter
  <2> QED BY <1>3, <2>1, <2>2
<1> QED BY <1>2, <1>4, <1>5, <1>6, <1>7 DEF Next

THEOREM ReadersInvariant == Spec => []ReadersInv
<1>1. Init => ReadersInv
  BY InitHub, InitReturns, InitCursorInv, InitRecorderInv, InitRelayTyped DEF Init, ReadersInv
<1>2. ReadersInv /\ [Next]_vars => ReadersInv'
  BY ReadersStep
<1> QED BY <1>1, <1>2, PTL DEF Spec

(* Every word, counter and program position of the hub and of its readers  *)
(* keeps its type, for any rings, phases and readers.                      *)
THEOREM TypesKept == Spec => []TypeOK
<1>1. ReadersInv => TypeOK
  BY DEF ReadersInv, HubInv, HubTypeOK, CursorInv, RecorderInv, RelayTyped, TypeOK
<1> QED BY <1>1, ReadersInvariant, PTL

(* A row that a consumer's load hands out is whole and of the cursor's     *)
(* anchor, or its slot has been lapped meanwhile, however often the daemon *)
(* was killed under the load.                                              *)
THEOREM LoadsExact == Spec => []ExactUnlessLapped
<1>1. ReadersInv => ExactUnlessLapped
  BY DEF ReadersInv, CursorInv, InvCopied, ExactUnlessLapped
<1> QED BY <1>1, ReadersInvariant, PTL

(* The recovery mode a consumer acts on is not older than the BootID it    *)
(* has seen, because that is the word the producer stores last.            *)
THEOREM ModesCurrent == Spec => []ModeOfBoot
<1>1. ReadersInv => ModeOfBoot
  BY DEF ReadersInv, CursorInv, InvBootSeen, ModeOfBoot
<1> QED BY <1>1, ReadersInvariant, PTL

(* The features of a recorded row are those of the polled anchor, whole,   *)
(* or their slot has been lapped since the poll began.                     *)
THEOREM FeaturesMatch == Spec => []FeaturesOfAnchor
<1>1. ReadersInv => FeaturesOfAnchor
  BY DEF ReadersInv, RecorderInv
<1> QED BY <1>1, ReadersInvariant, PTL

(* No flush destroys what the same recorder flushed before, for any number *)
(* of days and reopenings, and Close leaves no row behind.                 *)
THEOREM NothingIsTruncated == Spec => []NothingTruncated
<1>1. ReadersInv => NothingTruncated
  BY TruncatedNothing DEF ReadersInv
<1> QED BY <1>1, ReadersInvariant, PTL

(* The bars a restarted daemon seeds its projector from are whole and of   *)
(* their anchors, whatever its predecessors were writing when they died.   *)
THEOREM SeedsAreWhole == Spec => []SeedsWhole
<1>1. ReadersInv => SeedsWhole
  BY SeedsOfHub DEF ReadersInv
<1> QED BY <1>1, ReadersInvariant, PTL

(* A step of anybody but the hub leaves the segment alone. *)
LEMMA OnlyHubWrites ==
  ASSUME [Next]_vars, lastWritten' # lastWritten \/ daemon' # daemon PROVE Hub
BY DEF Next, vars, liveVars, recoveryVars

(* Every frame missed by a restart taken for one within a cadence had come *)
(* due when the daemon read the clock for its first anchors; of those due  *)
(* when it decided on the mode none is of the last anchor's phase and at   *)
(* most one of any other, for any offsets and any number of restarts.      *)
THEOREM SubCadenceMissesOne == Spec => SubCadenceMisses
<1>1. ReadersInv /\ [Next]_vars =>
        [daemon = "booted" /\ daemon' = "running" /\ recovering = "sub" =>
           \A p \in Phases :
             LET missed == {n \in 1 .. LastIndex :
                              AnchorNS(p, n) > lastWritten /\ n < phaseNext'[p]}
                 before == {n \in missed : AnchorNS(p, n) <= bootNS}
             IN  /\ \A n \in missed : AnchorNS(p, n) <= bootNS'
                 /\ \A n, m \in before : n = m
                 /\ (lastWritten - Offset[p]) % Cadence = 0 => before = {}]_daemon
  BY OnlyHubWrites, MissesOfHub DEF ReadersInv
<1> QED BY <1>1, ReadersInvariant, PTL DEF Spec, SubCadenceMisses

(* If the countdown of SetColdStart is not shorter than the longest        *)
(* return, every frame of the last phase after a cold start or a gap is    *)
(* flagged or has returns over its own bars.                               *)
THEOREM FlagsCoverGap == ColdBars >= LongReturn => (Spec => FlagCoversGap)
<1> SUFFICES ASSUME ColdBars >= LongReturn PROVE Spec => FlagCoversGap
  OBVIOUS
<1>1. ReadersInv /\ [Next]_vars =>
        [lastWritten' # lastWritten /\ cur = LastPhase /\ recovering # "sub" =>
           CurrentFlag \/ \A r \in RowsOf(cur) : exact[r][Slot(phaseNext[cur])]]_lastWritten
  BY OnlyHubWrites, FlagOfHub DEF ReadersInv
<1> QED BY <1>1, ReadersInvariant, PTL DEF Spec, FlagCoversGap

-----------------------------------------------------------------------------
(* Loss: a consumer passes over a frame, or abandons a load, only for a    *)
(* frame that is out of the ring                                           *)

(* A frame up to a phase's latest one was begun, or passed over. *)
LEMMA LatestBegun ==
  ASSUME HubInv, DistinctOffsets, NEW r \in Rows, NEW n \in Nat, n <= PhaseLatest(r)
  PROVE  n <= newest[r] \/ <<PhaseOf[r], n>> \in passedOver
<1>1. PhaseLatest(r) \in Int /\ AnchorNS(PhaseOf[r], PhaseLatest(r)) <= lastWritten
  BY PhaseLatestFacts
<1> DEFINE p == PhaseOf[r]
<1>0. p \in Phases
  BY HubFacts DEF HubInv, HubTypeOK
<1>2. lastWritten < AnchorNS(p, phaseNext[p]) /\ phaseNext[p] \in Nat /\ lastWritten \in Nat
  BY <1>0 DEF HubInv, HubTypeOK, LiveTypeOK, InvClock, NextAnchorNS
<1>3. AnchorNS(p, n) <= AnchorNS(p, PhaseLatest(r)) /\ AnchorNS(p, n) \in Nat
      /\ AnchorNS(p, PhaseLatest(r)) \in Int /\ AnchorNS(p, phaseNext[p]) \in Nat
  BY <1>0, <1>1, <1>2, EarlierAnchor, AnchorTimes, AnchorSteps
<1>4. n < phaseNext[p]
  BY <1>0, <1>1, <1>2, <1>3, EarlierFrame
<1> QED BY <1>4 DEF HubInv, InvFrames

(* A cursor that lags, or finds a later anchor in its slot, has lost its   *)
(* frame.                                                                  *)
LEMMA LostFrame ==
  ASSUME HubInv, CursorInv, NEW r \in Cursors
  PROVE  /\ DistinctOffsets /\ Lagging(r) => OutOfRing(r, target[r])
         /\ Lagging(r) => target[r] + MaxFrames <= PhaseLatest(r)
         /\ CursorAnchor(r) > target[r] => /\ target[r] + MaxFrames <= CursorAnchor(r)
                                           /\ CursorAnchor(r) <= newest[r]
<1>1. /\ r \in Rows /\ target[r] \in Nat /\ Slot(target[r]) \in Slots /\ MaxFrames \in Nat
      /\ CursorAnchor(r) \in Nat /\ newest[r] \in Nat /\ PhaseLatest(r) \in Int
  BY CursorFacts, PhaseLatestFacts
<1>2. Lagging(r) => target[r] + MaxFrames <= PhaseLatest(r)
  BY <1>1 DEF Lagging, OldestValid
<1>3. ASSUME DistinctOffsets, Lagging(r) PROVE OutOfRing(r, target[r])
  <2>1. target[r] + MaxFrames \in Nat /\ target[r] + MaxFrames <= PhaseLatest(r)
    BY <1>1, <1>2, <1>3
  <2> QED BY <1>1, <1>3, <2>1, LatestBegun DEF OutOfRing, Lapped
<1>4. ASSUME CursorAnchor(r) > target[r]
      PROVE  target[r] + MaxFrames <= CursorAnchor(r) /\ CursorAnchor(r) <= newest[r]
  <2> DEFINE a == CursorAnchor(r)
  <2>1. a = slotAnchor[r][Slot(target[r])] /\ a > 0
    BY <1>1, <1>4 DEF CursorAnchor
  <2>2. Slot(a) = Slot(target[r])
    BY <1>1, <2>1 DEF HubInv, InvAnchors, Unset
  <2>3. slotAnchor[r][Slot(a)] = a
    BY <2>1, <2>2
  <2> HIDE DEF a
  <2>4. a \in Nat /\ target[r] < a
    BY <1>1, <1>4 DEF a
  <2>5. a <= newest[r]
    BY <1>1, <2>3, <2>4 DEF HubInv, InvAnchors
  <2>6. target[r] + MaxFrames <= a
    BY <1>1, <2>2, <2>4, SameSlot
  <2> QED BY <2>5, <2>6 DEF a
<1> QED BY <1>2, <1>3, <1>4

(* With auto_realign no load is abandoned. *)
InvRealign == autoRealign => \A r \in Cursors : load[r] # "lagged"

LEMMA RealignStep ==
  ASSUME CursorInv, InvRealign, Cursor PROVE InvRealign'
<1>1. /\ load \in [Cursors -> {"due", "wait", "copying", "loaded", "failed", "lagged"}]
      /\ autoRealign' = autoRealign
  BY DEF CursorInv, CursorTypeOK, Cursor, BeginAll, SameBoot, NewBoot, AdoptRestart, NextAll,
         StartCursor, AnchorFound, RowCopied, AnchorOvertaken, AnchorMissing, Rebegin
<1>2. ASSUME autoRealign, NEW q \in Cursors PROVE load'[q] # "lagged"
  <2>1. load[q] # "lagged"
    BY <1>2 DEF InvRealign
  <2>2. CASE BeginAll \/ SameBoot \/ NewBoot \/ AdoptRestart \/ NextAll
    BY <1>1, <2>1, <2>2 DEF BeginAll, SameBoot, NewBoot, AdoptRestart, NextAll
  <2>3. ASSUME NEW r \in Cursors,
               StartCursor(r) \/ AnchorFound(r) \/ RowCopied(r) \/ AnchorOvertaken(r)
               \/ AnchorMissing(r) \/ Rebegin(r)
        PROVE  load'[q] # "lagged"
    BY <1>1, <1>2, <2>1, <2>3 DEF StartCursor, AnchorFound, RowCopied, AnchorOvertaken,
       AnchorMissing, Rebegin
  <2> QED BY <2>2, <2>3 DEF Cursor
<1> QED BY <1>1, <1>2 DEF InvRealign

(* What a step of the consumer may lose. *)
LossOK ==
  opened /\ entry # "changed" =>
    /\ \A r \in Cursors : target'[r] >= target[r]
    /\ \A r \in Cursors : autoRealign /\ target'[r] > target[r] + 1 => OutOfRing(r, target[r])
    /\ \A r \in Cursors : load[r] # "lagged" /\ load'[r] = "lagged"
                            => \E q \in Cursors : OutOfRing(q, target[q])

LEMMA LossStep ==
  ASSUME HubInv, CursorInv, DistinctOffsets, Cursor,
         \A r \in Cursors : load[r] = "lagged" => target[r] <= PhaseLatest(r) + 1,
         InvRealign
  PROVE  LossOK
<1> SUFFICES ASSUME opened, entry # "changed"
             PROVE  /\ \A r \in Cursors : target'[r] >= target[r]
                    /\ \A r \in Cursors : autoRealign /\ target'[r] > target[r] + 1
                                            => OutOfRing(r, target[r])
                    /\ \A r \in Cursors : load[r] # "lagged" /\ load'[r] = "lagged"
                                            => \E q \in Cursors : OutOfRing(q, target[q])
  BY DEF LossOK
<1>1. /\ load \in [Cursors -> {"due", "wait", "copying", "loaded", "failed", "lagged"}]
      /\ target \in [Cursors -> Int] /\ \A r \in Cursors : target[r] \in Nat
  BY DEF CursorInv, CursorTypeOK
<1>2. CASE SameBoot \/ NewBoot \/ NextAll
  <2>1. \A r \in Cursors : /\ target'[r] = target[r] \/ target'[r] = target[r] + 1
                           /\ load'[r] = load[r] \/ load'[r] = "due"
    BY <1>1, <1>2 DEF SameBoot, NewBoot, NextAll
  <2> QED BY <1>1, <2>1
<1>3. CASE BeginAll \/ AdoptRestart
  BY <1>3 DEF BeginAll, AdoptRestart
<1>4. ASSUME NEW r \in Cursors, AnchorFound(r) \/ RowCopied(r) \/ AnchorMissing(r)
      PROVE  \A q \in Cursors : target'[q] = target[q] /\ (load'[q] = "lagged" => load[q] = "lagged")
  BY <1>1, <1>4 DEF AnchorFound, RowCopied, AnchorMissing
<1>5. ASSUME NEW r \in Cursors, Rebegin(r)
      PROVE  \A q \in Cursors : /\ target'[q] >= target[q] /\ ~autoRealign
                                /\ load'[q] = "lagged" => load[q] = "lagged"
  <2>1. PhaseLatest(r) + 1 >= target[r] /\ PhaseLatest(r) \in Int
    BY <1>5, CursorFacts, PhaseLatestFacts DEF Rebegin
  <2> QED BY <1>1, <1>5, <2>1 DEF Rebegin, InvRealign
<1>6. ASSUME NEW r \in Cursors, StartCursor(r) \/ AnchorOvertaken(r),
             NEW q \in Cursors
      PROVE  /\ target'[q] >= target[q]
             /\ target'[q] > target[q] + 1 => OutOfRing(q, target[q])
             /\ load[q] # "lagged" /\ load'[q] = "lagged" => OutOfRing(r, target[r])
  <2>1. /\ Lagging(r) => OutOfRing(r, target[r]) /\ target[r] + MaxFrames <= PhaseLatest(r)
        /\ CursorAnchor(r) > target[r] => OutOfRing(r, target[r])
        /\ PhaseLatest(r) \in Int /\ CursorAnchor(r) \in Nat /\ MaxFrames \in Nat
    <3>1. /\ target[r] \in Nat /\ CursorAnchor(r) \in Nat /\ newest[r] \in Nat
          /\ MaxFrames \in Nat /\ PhaseLatest(r) \in Int
      BY CursorFacts, PhaseLatestFacts
    <3>2. CursorAnchor(r) > target[r] => Lapped(r, target[r])
      BY <3>1, LostFrame DEF Lapped
    <3> QED BY <3>1, <3>2, LostFrame DEF OutOfRing
  <2>2. CASE StartCursor(r)
    BY <1>1, <2>1, <2>2 DEF StartCursor, RaiseLagged
  <2>3. CASE AnchorOvertaken(r)
    BY <1>1, <2>1, <2>3 DEF AnchorOvertaken, RaiseLagged
  <2> QED BY <1>6, <2>2, <2>3
<1> QED BY <1>1, <1>2, <1>3, <1>4, <1>5, <1>6 DEF Cursor

LEMMA RealignStutter ==
  ASSUME InvRealign, UNCHANGED cursorVars PROVE InvRealign'
BY DEF InvRealign, cursorVars

(* A step of anybody but the consumer leaves its cursors alone. *)
LEMMA OnlyCursorMoves ==
  ASSUME [Next]_vars PROVE Cursor \/ UNCHANGED cursorVars
BY DEF Next, vars

(* With auto_realign, and phases that close one by one, no bar is scored   *)
(* twice and none is given up that could be had, through any number of     *)
(* restarts: a cursor never goes back, and passes over a frame only when   *)
(* the one it was waiting for is out of the ring.                          *)
THEOREM LossesAreLaps == DistinctOffsets => (Spec /\ autoRealign => LossMeansLapped)
<1> SUFFICES ASSUME DistinctOffsets PROVE Spec /\ autoRealign => LossMeansLapped
  OBVIOUS
<1> DEFINE realigning == autoRealign /\ InvRealign
<1>1. Init /\ autoRealign => realigning
  <2> SUFFICES ASSUME Init, NEW r \in Cursors PROVE load[r] # "lagged"
    BY DEF InvRealign
  <2> QED BY DEF Init, CursorInit
<1>2. ReadersInv /\ realigning /\ [Next]_vars => realigning'
  <2> SUFFICES ASSUME ReadersInv, realigning, [Next]_vars PROVE realigning'
    OBVIOUS
  <2>1. CursorInv
    BY DEF ReadersInv
  <2>2. autoRealign' = autoRealign
    BY OnlyCursorMoves
    DEF cursorVars, Cursor, BeginAll, SameBoot, NewBoot, AdoptRestart, NextAll, StartCursor,
        AnchorFound, RowCopied, AnchorOvertaken, AnchorMissing, Rebegin
  <2> QED BY <2>1, <2>2, OnlyCursorMoves, RealignStep, RealignStutter
<1>3. ReadersInv /\ realigning /\ [Next]_vars =>
        [opened /\ entry # "changed" =>
           /\ \A r \in Cursors : target'[r] >= target[r]
           /\ \A r \in Cursors : autoRealign /\ target'[r] > target[r] + 1
                                   => OutOfRing(r, target[r])
           /\ \A r \in Cursors : load[r] # "lagged" /\ load'[r] = "lagged"
                                   => \E q \in Cursors : OutOfRing(q, target[q])]_cursorVars
  <2> SUFFICES ASSUME ReadersInv, realigning, Cursor PROVE LossOK
    BY OnlyCursorMoves DEF LossOK
  <2> QED BY LossStep DEF ReadersInv, InvRealign
<1> QED BY <1>1, <1>2, <1>3, ReadersInvariant, PTL DEF Spec, LossMeansLapped

-----------------------------------------------------------------------------
(* Loss, when a hub is not restarted: also without auto_realign *)

(* The hub that was started first goes on, its phases within a cadence of  *)
(* the last anchor published.                                              *)
InvUnrestarted ==
  /\ daemon = "running" /\ bootSeen = bootID /\ entry # "changed"
  /\ lastWritten > 0 => \A p \in Phases : NextAnchorNS(p) <= lastWritten + Cadence

(* No cursor of an abandoned load is beyond the anchor it is set to next,  *)
(* because the cursors of a load are within a ring of each other.          *)
InvRebegin ==
  ~autoRealign =>
    /\ opened /\ lastWritten = 0 =>
         \A r \in Cursors : target[r] + 1 >= phaseNext[PhaseOf[r]]
    /\ \A r \in Cursors : load[r] = "lagged" =>
         /\ opened /\ lastWritten > 0
         /\ \A q \in Cursors : target[q] <= PhaseLatest(q) + 1 /\ load[q] \in {"due", "lagged"}
    /\ \A r, q \in Cursors :
         \/ target[q] <= target[r] + MaxFrames
         \/ load[r] \in {"due", "lagged"} /\ target[q] <= PhaseLatest(q) + 1

(* What the hub does to it: the last anchor, and a phase's latest, only    *)
(* move on.                                                                *)
LEMMA UnrestartedHub ==
  ASSUME HubInv, CursorInv, InvUnrestarted, InvRebegin, MaxRestarts = 0, Hub,
         UNCHANGED cursorVars
  PROVE  InvUnrestarted' /\ InvRebegin'
<1>1. /\ UNCHANGED <<autoRealign, opened, bootSeen, entry, target, load>>
      /\ daemon = "running" /\ bootSeen = bootID /\ entry # "changed" /\ restarts = 0
      /\ lastWritten \in Nat /\ Cadence \in Nat \ {0} /\ cur \in Phases
      /\ \A p \in Phases : NextAnchorNS(p) \in Nat
  BY HubFacts DEF cursorVars, bootSeenVars, InvUnrestarted, HubInv, HubTypeOK, RecoveryTypeOK
<1>2. CloseBar \/ SetFrameFlags \/ FinalizeFrame \/ CommitStep
  BY <1>1 DEF Hub, Kill, PublishRecovery, Quarantine, Replace, SeedAndRun
<1>3. daemon' = "running" /\ bootID' = bootID
  BY <1>1, <1>2
  DEF CloseBar, SetFrameFlags, FinalizeFrame, CommitStep, headerVars, recoveryVars
<1>4. CASE FinalizeFrame
  <2>1. /\ lastWritten' = NextAnchorNS(cur) /\ phaseNext' = [phaseNext EXCEPT ![cur] = @ + 1]
        /\ committing
    BY <1>4 DEF FinalizeFrame, CommitFrameFinalize, FrameStored, AllStored
  <2>2. /\ phaseNext[cur] \in Nat /\ phaseNext[cur] > 0 /\ phaseNext \in [Phases -> Nat]
        /\ \A p \in Phases : NextAnchorNS(p) <= NextAnchorNS(cur) + Cadence
        /\ lastWritten <= NextAnchorNS(cur)
    BY <1>1 DEF HubInv, HubTypeOK, LiveTypeOK, InvClock
  <2>3. lastWritten' > 0
    BY <1>1, <2>1, <2>2, AnchorTimes DEF NextAnchorNS
  <2>4. ASSUME NEW p \in Phases PROVE NextAnchorNS(p)' <= lastWritten' + Cadence
    <3>1. CASE p = cur
      <4>1. NextAnchorNS(p)' = AnchorNS(cur, phaseNext[cur] + 1)
        BY <2>1, <2>2, <3>1 DEF NextAnchorNS, AnchorNS
      <4>2. AnchorNS(cur, phaseNext[cur] + 1) = NextAnchorNS(cur) + Cadence
        BY <1>1, <2>2, AnchorTimes DEF NextAnchorNS
      <4> QED BY <1>1, <2>1, <4>1, <4>2
    <3>2. CASE p # cur
      <4>1. NextAnchorNS(p)' = NextAnchorNS(p)
        BY <2>1, <2>2, <3>2 DEF NextAnchorNS, AnchorNS
      <4> QED BY <2>1, <2>2, <4>1
    <3> QED BY <3>1, <3>2
  <2>5. InvUnrestarted'
    BY <1>1, <1>3, <2>4 DEF InvUnrestarted
  <2>6. ASSUME NEW q \in Cursors
        PROVE  PhaseLatest(q) \in Int /\ PhaseLatest(q)' \in Int /\ PhaseLatest(q) <= PhaseLatest(q)'
    <3>1. HubInv' /\ q \in Rows /\ PhaseOf[q] \in Phases
      BY HubStep, HubFacts, CursorAssumption DEF HubInv, HubTypeOK
    <3> DEFINE p == PhaseOf[q]
               m == PhaseLatest(q)
               n == (lastWritten' - Offset[p]) \div Cadence
    <3>2. m \in Int /\ AnchorNS(p, m) <= lastWritten
      BY <3>1, PhaseLatestFacts
    <3>3. n \in Int /\ lastWritten' < AnchorNS(p, n) + Cadence
      <4>1. lastWritten' \in Int
        BY <1>1, <2>1
      <4> QED BY <3>1, <4>1, LastAnchor
    <3>4. PhaseLatest(q)' = n
      BY DEF PhaseLatest
    <3> HIDE DEF m, n
    <3>5. m < n + 1
      <4>1. AnchorNS(p, m) < AnchorNS(p, n) + Cadence
        BY <1>1, <2>1, <2>2, <3>1, <3>2, <3>3, AnchorSteps
      <4> QED BY <3>1, <3>2, <3>3, <4>1, WithinCadence
    <3> QED BY <3>2, <3>3, <3>4, <3>5 DEF m
  <2>7. InvRebegin'
    <3>1. \A q \in Cursors : target[q] \in Nat
      BY DEF CursorInv
    <3> QED BY <1>1, <2>3, <2>6, <3>1 DEF InvRebegin
  <2> QED BY <2>5, <2>7
<1>5. CASE ~FinalizeFrame
  <2>1. lastWritten' = lastWritten
    BY <1>5, PublishedByFinalize
  <2>2. phaseNext' = phaseNext
    BY <1>2, <1>5 DEF CloseBar, ClosePhase, SetFrameFlags, CommitStep, StoreFrameAnchor,
       StoreFirstAnchor, CloseHub, CopyFirstHalf, CopySecondHalf, StoreAnchor, liveVars
  <2> QED BY <1>1, <1>3, <2>1, <2>2
          DEF InvUnrestarted, InvRebegin, NextAnchorNS, AnchorNS, PhaseLatest
<1> QED BY <1>4, <1>5

(* A cursor that finds a later anchor in its slot has its load abandoned   *)
(* when that anchor is published, or is the next one.                      *)
LEMMA OvertakenLatest ==
  ASSUME HubInv, CursorInv, InvUnrestarted, InvRebegin, MaxFrames > 1, ~autoRealign, opened,
         NEW r \in Cursors, CursorAnchor(r) > target[r]
  PROVE  lastWritten > 0 /\ CursorAnchor(r) <= PhaseLatest(r) + 1
<1>1. /\ target[r] \in Nat /\ MaxFrames \in Nat /\ CursorAnchor(r) \in Nat
      /\ target[r] + MaxFrames <= CursorAnchor(r) /\ CursorAnchor(r) <= newest[r]
      /\ r \in Rows /\ newest[r] \in Nat /\ PhaseLatest(r) \in Int
  BY CursorFacts, LostFrame, PhaseLatestFacts
<1> DEFINE p == PhaseOf[r]
<1>2. /\ p \in Phases /\ phaseNext[p] \in Nat /\ lastWritten \in Nat
      /\ newest[r] <= phaseNext[p] /\ Cadence \in Nat \ {0}
  BY <1>1, HubFacts DEF HubInv, HubTypeOK, InvNewest
<1>3. lastWritten > 0
  <2>1. lastWritten = 0 => target[r] + 1 >= phaseNext[p]
    BY DEF InvRebegin
  <2> QED BY <1>1, <1>2, <2>1
<1>4. phaseNext[p] <= PhaseLatest(r) + 1
  <2>1. AnchorNS(p, phaseNext[p]) <= lastWritten + Cadence
    BY <1>2, <1>3 DEF InvUnrestarted, NextAnchorNS
  <2>2. lastWritten < AnchorNS(p, PhaseLatest(r) + 1) /\ PhaseLatest(r) + 1 \in Int
    BY <1>1, PhaseLatestFacts
  <2>3. AnchorNS(p, phaseNext[p]) < AnchorNS(p, PhaseLatest(r) + 1) + Cadence
    BY <1>2, <2>1, <2>2, AnchorSteps
  <2>4. phaseNext[p] < (PhaseLatest(r) + 1) + 1
    BY <1>2, <2>2, <2>3, WithinCadence
  <2> QED BY <1>1, <1>2, <2>4
<1> QED BY <1>1, <1>2, <1>3, <1>4

(* The consumer's own steps. *)
LEMMA UnrestartedCursor ==
  ASSUME HubInv, CursorInv, InvUnrestarted, InvRebegin, MaxFrames > 1, Cursor,
         UNCHANGED <<liveVars, recoveryVars>>
  PROVE  InvUnrestarted' /\ InvRebegin'
<1>1. /\ load \in [Cursors -> {"due", "wait", "copying", "loaded", "failed", "lagged"}]
      /\ target \in [Cursors -> Int] /\ \A r \in Cursors : target[r] \in Nat
      /\ daemon = "running" /\ bootSeen = bootID /\ entry # "changed" /\ MaxFrames \in Nat
      /\ UNCHANGED <<lastWritten, phaseNext, daemon, bootID>>
      /\ lastWritten \in Nat /\ InvEntry
      /\ \A r, q \in Cursors : PhaseLatest(r) = PhaseLatest(q) /\ PhaseLatest(r) \in Int
                               /\ PhaseOf[r] = PhaseOf[q]
      /\ \A r \in Cursors : r \in Rows
  <2>1. \A r, q \in Cursors : /\ PhaseLatest(r) = PhaseLatest(q) /\ PhaseLatest(r) \in Int
                              /\ PhaseOf[r] = PhaseOf[q] /\ r \in Rows
    BY CursorAssumption, PhaseLatestFacts DEF PhaseLatest
  <2> QED BY <2>1, HubFacts
          DEF CursorInv, CursorTypeOK, InvUnrestarted, liveVars, recoveryVars, headerVars,
              HubInv, HubTypeOK
<1>2. \A r \in Cursors : PhaseLatest(r)' = PhaseLatest(r)
  BY <1>1 DEF PhaseLatest
<1>3. autoRealign' = autoRealign /\ bootSeen' = bootSeen /\ entry' # "changed"
  BY <1>1
  DEF Cursor, BeginAll, SameBoot, NewBoot, AdoptRestart, NextAll, StartCursor, AnchorFound,
      RowCopied, AnchorOvertaken, AnchorMissing, Rebegin, RaiseLagged, bootSeenVars
<1>4. InvUnrestarted'
  BY <1>1, <1>3 DEF InvUnrestarted, NextAnchorNS, AnchorNS
<1>5. ASSUME ~autoRealign
      PROVE  /\ opened' /\ lastWritten = 0 =>
                  \A r \in Cursors : target'[r] + 1 >= phaseNext[PhaseOf[r]]
             /\ \A r \in Cursors : load'[r] = "lagged" =>
                  /\ opened' /\ lastWritten > 0
                  /\ \A q \in Cursors : target'[q] <= PhaseLatest(q) + 1
                                        /\ load'[q] \in {"due", "lagged"}
             /\ \A r, q \in Cursors :
                  \/ target'[q] <= target'[r] + MaxFrames
                  \/ load'[r] \in {"due", "lagged"} /\ target'[q] <= PhaseLatest(q) + 1
  <2>1. /\ opened /\ lastWritten = 0 => \A r \in Cursors : target[r] + 1 >= phaseNext[PhaseOf[r]]
        /\ \A r \in Cursors : load[r] = "lagged" =>
             /\ opened /\ lastWritten > 0
             /\ \A q \in Cursors : target[q] <= PhaseLatest(q) + 1 /\ load[q] \in {"due", "lagged"}
        /\ \A r, q \in Cursors :
             \/ target[q] <= target[r] + MaxFrames
             \/ load[r] \in {"due", "lagged"} /\ target[q] <= PhaseLatest(q) + 1
    BY <1>5 DEF InvRebegin
  <2>2. CASE BeginAll
    <3>1. PICK q \in Cursors : \E n \in LatestEstimates(q) : target' = [r \in Cursors |-> n]
      BY <2>2 DEF BeginAll
    <3>2. PICK n \in LatestEstimates(q) : target' = [r \in Cursors |-> n]
      BY <3>1
    <3>3. n \in Int /\ (lastWritten = 0 => n + 1 >= phaseNext[PhaseOf[q]])
          /\ phaseNext[PhaseOf[q]] \in Nat
      BY <1>1, HubFacts DEF LatestEstimates, HubInv, HubTypeOK
    <3>4. ~opened /\ UNCHANGED load
      BY <2>2 DEF BeginAll
    <3> QED BY <1>1, <2>1, <3>2, <3>3, <3>4
  <2>3. CASE NextAll
    <3>1. /\ \A r \in Cursors : target'[r] = target[r] + 1 /\ load'[r] = "due"
          /\ opened' = opened /\ \A r \in Cursors : load[r] \in {"loaded", "failed"}
      BY <2>3 DEF NextAll
    <3>2. \A r, q \in Cursors : target[q] <= target[r] + MaxFrames
      BY <2>1, <3>1
    <3>3. opened /\ lastWritten = 0 => \A r \in Cursors : target'[r] + 1 >= phaseNext[PhaseOf[r]]
      <4>1. \A r \in Cursors : phaseNext[PhaseOf[r]] \in Nat
        BY <1>1, HubFacts DEF HubInv, HubTypeOK
      <4> QED BY <1>1, <2>1, <3>1, <4>1
    <3> QED BY <1>1, <3>1, <3>2, <3>3
  <2>4. CASE SameBoot \/ NewBoot \/ AdoptRestart
    BY <1>1, <2>1, <2>4 DEF SameBoot, NewBoot, AdoptRestart
  <2>5. ASSUME NEW r \in Cursors, AnchorFound(r) \/ RowCopied(r) \/ AnchorMissing(r)
        PROVE  /\ UNCHANGED <<target, opened>>
               /\ \A q \in Cursors : load'[q] = load[q] \/ (q = r /\ load'[q] # "lagged")
               /\ load[r] \in {"wait", "copying"}
    BY <1>1, <2>5 DEF AnchorFound, RowCopied, AnchorMissing
  <2>6. ASSUME NEW r \in Cursors, AnchorFound(r) \/ RowCopied(r) \/ AnchorMissing(r)
        PROVE  /\ \A q, t \in Cursors :
                    \/ target[t] <= target[q] + MaxFrames
                    \/ load'[q] \in {"due", "lagged"} /\ target[t] <= PhaseLatest(t) + 1
               /\ \A q \in Cursors : load'[q] # "lagged"
               /\ UNCHANGED <<target, opened>>
    BY <2>1, <2>5, <2>6
  <2>7. ASSUME NEW r \in Cursors, StartCursor(r), ~Lagging(r)
        PROVE  /\ UNCHANGED <<target, opened>>
               /\ \A q \in Cursors : load'[q] # "lagged"
               /\ \A q, t \in Cursors :
                    \/ target[t] <= target[q] + MaxFrames
                    \/ load'[q] \in {"due", "lagged"} /\ target[t] <= PhaseLatest(t) + 1
    <3>1. /\ UNCHANGED <<target, opened>> /\ load' = [load EXCEPT ![r] = "wait"]
          /\ \A q \in Cursors : load[q] # "lagged"
      <4>1. target' = [target EXCEPT ![r] = @]
        BY <2>7 DEF StartCursor
      <4> QED BY <1>1, <2>7, <4>1 DEF StartCursor, Ready
    <3>2. ASSUME NEW t \in Cursors PROVE target[t] <= target[r] + MaxFrames
      <4>1. CASE lastWritten > 0
        <5>1. target[r] >= PhaseLatest(t) - (MaxFrames - 1)
          BY <1>1, <2>7, <4>1 DEF Lagging, OldestValid
        <5> QED BY <1>1, <2>1, <5>1
      <4>2. CASE lastWritten = 0
        <5>1. PhaseLatest(t) <= 0
          <6>1. AnchorNS(PhaseOf[t], PhaseLatest(t)) <= 0 /\ PhaseOf[t] \in Phases
            BY <1>1, <4>2, PhaseLatestFacts, HubFacts DEF HubInv, HubTypeOK
          <6>2. AnchorNS(PhaseOf[t], 0) \in Nat /\ Cadence \in Nat \ {0}
            BY <6>1, AnchorTimes, LiveRingAssumption
          <6>3. AnchorNS(PhaseOf[t], PhaseLatest(t)) \in Int /\ PhaseLatest(t) \in Int
            BY <1>1, <6>1, AnchorSteps
          <6>4. PhaseLatest(t) < 0 + 1
            BY <6>1, <6>2, <6>3, WithinCadence
          <6> QED BY <6>3, <6>4
        <5> QED BY <1>1, <2>1, <5>1
      <4> QED BY <1>1, <4>1, <4>2
    <3>3. ASSUME NEW q \in Cursors, NEW t \in Cursors
          PROVE  \/ target[t] <= target[q] + MaxFrames
                 \/ load'[q] \in {"due", "lagged"} /\ target[t] <= PhaseLatest(t) + 1
      <4>1. CASE q = r
        BY <3>2, <4>1
      <4>2. CASE q # r
        <5>1. load'[q] = load[q]
          BY <1>1, <3>1, <4>2
        <5> QED BY <2>1, <5>1
      <4> QED BY <4>1, <4>2
    <3> QED BY <1>1, <3>1, <3>3
  <2>8. ASSUME NEW r \in Cursors, RaiseLagged, opened' = opened, opened,
               lastWritten > 0, target[r] + MaxFrames <= PhaseLatest(r) + 1,
               load[r] \in {"due", "wait"}
        PROVE  /\ UNCHANGED <<target, opened>> /\ opened /\ lastWritten > 0
               /\ \A q \in Cursors : load'[q] = "lagged" /\ target[q] <= PhaseLatest(q) + 1
    <3>1. \A q \in Cursors : target[q] <= PhaseLatest(q) + 1
      BY <1>1, <2>1, <2>8
    <3> QED BY <2>8, <3>1 DEF RaiseLagged
  <2>9. ASSUME NEW r \in Cursors, StartCursor(r), Lagging(r)
        PROVE  /\ UNCHANGED <<target, opened>> /\ opened /\ lastWritten > 0
               /\ \A q \in Cursors : load'[q] = "lagged" /\ target[q] <= PhaseLatest(q) + 1
    <3>1. target[r] + MaxFrames <= PhaseLatest(r) /\ lastWritten > 0
      BY <2>9, LostFrame DEF Lagging
    <3>2. RaiseLagged /\ opened' = opened /\ load[r] = "due" /\ opened
      BY <1>1, <1>5, <2>9 DEF StartCursor, Ready, InvEntry
    <3> QED BY <1>1, <2>8, <3>1, <3>2
  <2>10. ASSUME NEW r \in Cursors, AnchorOvertaken(r)
         PROVE  /\ UNCHANGED <<target, opened>> /\ opened /\ lastWritten > 0
                /\ \A q \in Cursors : load'[q] = "lagged" /\ target[q] <= PhaseLatest(q) + 1
    <3>1. RaiseLagged /\ opened' = opened /\ load[r] = "wait" /\ opened
      BY <1>1, <1>5, <2>10 DEF AnchorOvertaken, InvEntry
    <3>2. CursorAnchor(r) > target[r]
      BY <2>10 DEF AnchorOvertaken
    <3>3. lastWritten > 0 /\ CursorAnchor(r) <= PhaseLatest(r) + 1
      BY <1>5, <3>1, <3>2, OvertakenLatest
    <3>4. target[r] + MaxFrames <= CursorAnchor(r) /\ CursorAnchor(r) \in Nat
      BY <3>2, LostFrame, CursorFacts
    <3>5. target[r] + MaxFrames <= PhaseLatest(r) + 1
      BY <1>1, <3>3, <3>4
    <3> QED BY <2>8, <3>1, <3>3, <3>5
  <2>11. ASSUME NEW r \in Cursors, Rebegin(r)
         PROVE  /\ opened' = opened /\ opened /\ lastWritten > 0
                /\ \A q \in Cursors : /\ target'[q] <= PhaseLatest(q) + 1
                                      /\ load'[q] \in {"due", "lagged"}
    <3>1. /\ target' = [target EXCEPT ![r] = PhaseLatest(r) + 1]
          /\ load' = [load EXCEPT ![r] = "due"] /\ opened' = opened /\ load[r] = "lagged"
      BY <2>11 DEF Rebegin
    <3> QED BY <1>1, <2>1, <3>1
  <2>12. ASSUME NEW r \in Cursors,
                StartCursor(r) \/ AnchorFound(r) \/ RowCopied(r) \/ AnchorOvertaken(r)
                \/ AnchorMissing(r) \/ Rebegin(r)
         PROVE  \/ /\ \A q, t \in Cursors :
                        \/ target[t] <= target[q] + MaxFrames
                        \/ load'[q] \in {"due", "lagged"} /\ target[t] <= PhaseLatest(t) + 1
                   /\ \A q \in Cursors : load'[q] # "lagged"
                   /\ UNCHANGED <<target, opened>>
                \/ /\ opened' = opened /\ opened /\ lastWritten > 0
                   /\ \A q \in Cursors : /\ target'[q] <= PhaseLatest(q) + 1
                                         /\ load'[q] \in {"due", "lagged"}
    BY <2>6, <2>7, <2>9, <2>10, <2>11, <2>12
  <2>13. CASE \E r \in Cursors :
                StartCursor(r) \/ AnchorFound(r) \/ RowCopied(r) \/ AnchorOvertaken(r)
                \/ AnchorMissing(r) \/ Rebegin(r)
    BY <1>1, <2>1, <2>12, <2>13
  <2> QED BY <2>2, <2>3, <2>4, <2>13 DEF Cursor
<1>6. InvRebegin'
  BY <1>1, <1>2, <1>3, <1>5 DEF InvRebegin
<1> QED BY <1>4, <1>6

LEMMA UnrestartedStutter ==
  ASSUME InvUnrestarted, InvRebegin, UNCHANGED <<liveVars, recoveryVars, cursorVars>>
  PROVE  InvUnrestarted' /\ InvRebegin'
<1>1. /\ UNCHANGED <<autoRealign, opened, bootSeen, entry, target, load>>
      /\ UNCHANGED <<daemon, bootID, lastWritten, phaseNext>>
  BY DEF cursorVars, bootSeenVars, recoveryVars, headerVars, liveVars
<1>2. \A r \in Cursors : PhaseLatest(r)' = PhaseLatest(r)
  BY <1>1 DEF PhaseLatest
<1> QED BY <1>1, <1>2 DEF InvUnrestarted, InvRebegin, NextAnchorNS, AnchorNS

LEMMA UnrestartedStep ==
  ASSUME MaxRestarts = 0, MaxFrames > 1, ReadersInv, InvUnrestarted, InvRebegin, [Next]_vars
  PROVE  InvUnrestarted' /\ InvRebegin'
<1>1. HubInv /\ CursorInv
  BY DEF ReadersInv
<1>2. CASE Hub /\ UNCHANGED cursorVars
  BY <1>1, <1>2, UnrestartedHub
<1>3. CASE Cursor /\ UNCHANGED <<liveVars, recoveryVars>>
  BY <1>1, <1>3, UnrestartedCursor
<1>4. CASE UNCHANGED <<liveVars, recoveryVars, cursorVars>>
  BY <1>4, UnrestartedStutter
<1> QED BY <1>2, <1>3, <1>4 DEF Next, vars

LEMMA InitUnrestarted == Init => InvUnrestarted /\ InvRebegin
<1> SUFFICES ASSUME Init PROVE InvUnrestarted /\ InvRebegin
  OBVIOUS
<1>1. /\ daemon = "running" /\ bootID = 1 /\ bootSeen = 1 /\ entry = "due" /\ ~opened
      /\ lastWritten = 0 /\ target = [r \in Cursors |-> 0] /\ load = [r \in Cursors |-> "due"]
  BY DEF Init, LiveInit, RecoveryInit, CursorInit
<1>2. MaxFrames \in Nat
  BY LiveRingAssumption
<1> QED BY <1>1, <1>2 DEF InvUnrestarted, InvRebegin

(* Without auto_realign, too, while the hub is not restarted: a load that  *)
(* meets LaggedAnchorError is begun again at the next frame of the phase,  *)
(* which no cursor of it has passed.  A ring of a single slot is left out: *)
(* there the first frame, not published yet, already overtakes the frame   *)
(* before it.                                                              *)
THEOREM LossesAreLapsUnrestarted ==
  DistinctOffsets /\ MaxRestarts = 0 /\ MaxFrames > 1 => (Spec => LossMeansLapped)
<1> SUFFICES ASSUME DistinctOffsets, MaxRestarts = 0, MaxFrames > 1
             PROVE  Spec => LossMeansLapped
  OBVIOUS
<1> DEFINE settled == InvUnrestarted /\ InvRebegin /\ InvRealign
<1>1. Init => settled
  <2> SUFFICES ASSUME Init PROVE InvRealign
    BY InitUnrestarted
  <2> QED BY DEF Init, CursorInit, InvRealign
<1>2. ReadersInv /\ settled /\ [Next]_vars => settled'
  <2> SUFFICES ASSUME ReadersInv, settled, [Next]_vars PROVE settled'
    OBVIOUS
  <2>1. InvUnrestarted' /\ InvRebegin'
    BY UnrestartedStep
  <2>2. InvRealign'
    BY OnlyCursorMoves, RealignStep, RealignStutter DEF ReadersInv
  <2> QED BY <2>1, <2>2
<1>3. ReadersInv /\ settled /\ [Next]_vars =>
        [opened /\ entry # "changed" =>
           /\ \A r \in Cursors : target'[r] >= target[r]
           /\ \A r \in Cursors : autoRealign /\ target'[r] > target[r] + 1
                                   => OutOfRing(r, target[r])
           /\ \A r \in Cursors : load[r] # "lagged" /\ load'[r] = "lagged"
                                   => \E q \in Cursors : OutOfRing(q, target[q])]_cursorVars
  <2> SUFFICES ASSUME ReadersInv, settled, Cursor PROVE LossOK
    BY OnlyCursorMoves DEF LossOK
  <2>1. \A r \in Cursors : load[r] = "lagged" => target[r] <= PhaseLatest(r) + 1
    BY DEF InvRebegin, InvRealign
  <2> QED BY <2>1, LossStep DEF ReadersInv
<1> QED BY <1>1, <1>2, <1>3, ReadersInvariant, PTL DEF Spec, LossMeansLapped

-----------------------------------------------------------------------------
(* What the relay delivers *)

Frame(c) == c \div Cadence

(* What the replica should have of a row when it publishes anchor c. *)
Fresh(c, x, r) ==
  AnchorNS(PhaseOf[r], Frame(c)) <= c /\ <<PhaseOf[r], Frame(c)>> \notin passedOver =>
    x = Frame(c) \/ Lapped(r, Frame(c))

SlotOf(h, p) == "rows" \in DOMAIN h /\ h.phase = p

(* The replica will have it once the packets before the i-th are applied:  *)
(* the last of them for the row's phase brings it, or there is none and    *)
(* the replica has it already.                                             *)
Delivered(r, c, i) ==
  \/ \E j \in 1 .. i - 1 :
       /\ SlotOf(wire[j], PhaseOf[r]) /\ wire[j].slot = Slot(Frame(c))
       /\ Fresh(c, wire[j].rows[r], r)
       /\ \A k \in j + 1 .. i - 1 : ~SlotOf(wire[k], PhaseOf[r])
  \/ /\ \A k \in 1 .. i - 1 : ~SlotOf(wire[k], PhaseOf[r])
     /\ Fresh(c, rData[r][Slot(Frame(c))], r)

(* A commit comes after all it publishes; the server sends one only for    *)
(* what the hub has published, and after the slots of all phases.          *)
InvRelay ==
  /\ link # "up" => server = "poll"
  /\ server = "test" => seen <= lastWritten
  /\ server # "send" => half = {}
  /\ \A i \in 1 .. Len(wire) : "commit" \in DOMAIN wire[i] =>
       \A r \in Rows : Delivered(r, wire[i].commit, i)
  /\ server = "send" =>
       /\ nextAnchor <= lastWritten
       /\ \A r \in Rows : PhaseOf[r] \notin sending => Delivered(r, nextAnchor, Len(wire) + 1)
       /\ \A h \in half :
            /\ h.slot = Slot(Frame(nextAnchor)) /\ h.phase \in sending
            /\ \A r \in RowsOf(h.phase) : Fresh(nextAnchor, h.rows[r], r)

LEMMA FrameOf == ASSUME NEW c \in Nat PROVE Frame(c) \in Nat /\ Slot(Frame(c)) \in Slots
<1>1. Cadence \in Nat \ {0}
  BY LiveRingAssumption
<1>2. Frame(c) \in Nat
  BY <1>1, SMT DEF Frame
<1> QED BY <1>2, SlotOfRing

(* Rows come and go, but what was fresh stays so. *)
LEMMA StaysFresh ==
  ASSUME HubInv, Hub \/ UNCHANGED liveVars, NEW r \in Rows, NEW c \in Nat, NEW x, Fresh(c, x, r)
  PROVE  Fresh(c, x, r)'
<1>1. passedOver \subseteq passedOver'
  BY DEF Hub, CloseBar, ClosePhase, SetFrameFlags, FinalizeFrame, CommitFrameFinalize,
         CommitStep, Kill, PublishRecovery, StoreMode, StoreBootID, Quarantine, Replace,
         SeedAndRun, StoreFrameAnchor, StoreFirstAnchor, CloseHub, CopyFirstHalf,
         CopySecondHalf, StoreAnchor, liveVars, historyVars
<1>2. newest[r] \in Nat /\ newest'[r] \in Nat /\ newest[r] <= newest'[r]
  <2>1. /\ newest \in [Rows -> Nat]
        /\ \A q \in Rows : newest[q] <= phaseNext[PhaseOf[q]] /\ phaseNext[PhaseOf[q]] \in Nat
    BY HubFacts DEF HubInv, HubTypeOK, LiveTypeOK, InvNewest
  <2>2. ASSUME NEW q \in Rows, CopyFirstHalf(q)
        PROVE  newest[r] <= newest'[r] /\ newest'[r] \in Nat
    BY <2>1, <2>2 DEF CopyFirstHalf
  <2>3. CASE newest' = newest
    BY <2>1, <2>3
  <2>4. newest' = newest \/ \E q \in Rows : CopyFirstHalf(q)
    BY DEF Hub, CloseBar, ClosePhase, SetFrameFlags, FinalizeFrame, CommitFrameFinalize,
           CommitStep, Kill, PublishRecovery, StoreMode, StoreBootID, Quarantine, Replace,
           SeedAndRun, StoreFrameAnchor, StoreFirstAnchor, CloseHub, CopySecondHalf,
           StoreAnchor, liveVars, historyVars
  <2> QED BY <2>1, <2>2, <2>3, <2>4
<1>3. MaxFrames \in Nat /\ Frame(c) \in Nat
  BY LiveRingAssumption, FrameOf
<1>4. AnchorNS(PhaseOf[r], Frame(c))' = AnchorNS(PhaseOf[r], Frame(c)) /\ Frame(c)' = Frame(c)
  BY DEF AnchorNS, Frame
<1>5. Lapped(r, Frame(c)) => Lapped(r, Frame(c))'
  BY <1>2, <1>3, <1>4 DEF Lapped
<1> QED BY <1>1, <1>4, <1>5 DEF Fresh

(* Packets sent behind those under way change nothing for these.           *)
LEMMA StaysDelivered ==
  ASSUME NEW r \in Rows, NEW c \in Nat, NEW i \in Nat, Delivered(r, c, i),
         \A x : Fresh(c, x, r) => Fresh(c, x, r)',
         UNCHANGED rData, \A k \in 1 .. i - 1 : wire'[k] = wire[k]
  PROVE  Delivered(r, c, i)'
<1>1. Slot(Frame(c))' = Slot(Frame(c))
  BY DEF Slot, Frame
<1>2. CASE \E j \in 1 .. i - 1 :
             /\ SlotOf(wire[j], PhaseOf[r]) /\ wire[j].slot = Slot(Frame(c))
             /\ Fresh(c, wire[j].rows[r], r)
             /\ \A k \in j + 1 .. i - 1 : ~SlotOf(wire[k], PhaseOf[r])
  <2>1. PICK j \in 1 .. i - 1 :
             /\ SlotOf(wire[j], PhaseOf[r]) /\ wire[j].slot = Slot(Frame(c))
             /\ Fresh(c, wire[j].rows[r], r)
             /\ \A k \in j + 1 .. i - 1 : ~SlotOf(wire[k], PhaseOf[r])
    BY <1>2
  <2>2. /\ SlotOf(wire'[j], PhaseOf[r]) /\ wire'[j].slot = Slot(Frame(c))
        /\ \A k \in j + 1 .. i - 1 : ~SlotOf(wire'[k], PhaseOf[r])
    BY <2>1
  <2>3. wire'[j].rows[r] = wire[j].rows[r]
    BY <2>1
  <2>4. Fresh(c, wire[j].rows[r], r)'
    BY <2>1, <2>3 DEF Fresh, Lapped
  <2> QED BY <1>1, <2>2, <2>3, <2>4 DEF Delivered, SlotOf
<1>3. CASE /\ \A k \in 1 .. i - 1 : ~SlotOf(wire[k], PhaseOf[r])
           /\ Fresh(c, rData[r][Slot(Frame(c))], r)
  <2>1. Fresh(c, rData[r][Slot(Frame(c))], r)'
    BY <1>3, <1>1 DEF Fresh, Lapped
  <2> QED BY <1>1, <1>3, <2>1 DEF Delivered, SlotOf
<1> QED BY <1>2, <1>3 DEF Delivered

(* A packet sent brings its rows, and leaves the other phases as they are. *)
LEMMA PacketSent ==
  ASSUME wire \in Seq(Packets), NEW h \in Packets, wire' = Append(wire, h),
         UNCHANGED <<rData, newest, passedOver>>, NEW r \in Rows, NEW c \in Nat,
         NEW i \in Nat, i = Len(wire) + 2,
         \/ SlotOf(h, PhaseOf[r]) /\ h.slot = Slot(Frame(c)) /\ Fresh(c, h.rows[r], r)
         \/ ~SlotOf(h, PhaseOf[r]) /\ Delivered(r, c, Len(wire) + 1)
  PROVE  Delivered(r, c, i)'
<1> DEFINE n == Len(wire)
           w == wire'
<1>1. /\ n \in Nat /\ Len(w) = n + 1 /\ w[n + 1] = h
      /\ \A j \in 1 .. n : w[j] = wire[j]
  BY Sent
<1>2. \A x : Fresh(c, x, r) => Fresh(c, x, r)'
  BY DEF Fresh, Lapped, AnchorNS, Frame
<1>3. Slot(Frame(c))' = Slot(Frame(c))
  BY DEF Slot, Frame
<1> HIDE DEF n, w
<1> SUFFICES
      \/ \E j \in 1 .. n + 1 :
           /\ SlotOf(w[j], PhaseOf[r]) /\ w[j].slot = Slot(Frame(c))
           /\ Fresh(c, w[j].rows[r], r)
           /\ \A k \in j + 1 .. n + 1 : ~SlotOf(w[k], PhaseOf[r])
      \/ /\ \A k \in 1 .. n + 1 : ~SlotOf(w[k], PhaseOf[r])
         /\ Fresh(c, rData[r][Slot(Frame(c))], r)
  <2>1. i - 1 = n + 1
    BY <1>1 DEF n
  <2> QED BY <1>3, <2>1 DEF Delivered, SlotOf, w, Fresh, Lapped, AnchorNS, Frame
<1>4. CASE SlotOf(h, PhaseOf[r]) /\ h.slot = Slot(Frame(c)) /\ Fresh(c, h.rows[r], r)
  <2>1. n + 1 \in 1 .. n + 1 /\ \A k \in (n + 1) + 1 .. n + 1 : ~SlotOf(w[k], PhaseOf[r])
    BY <1>1
  <2> QED BY <1>1, <1>4, <2>1
<1>5. CASE ~SlotOf(h, PhaseOf[r]) /\ Delivered(r, c, n + 1)
  <2>1. CASE \E j \in 1 .. n :
               /\ SlotOf(wire[j], PhaseOf[r]) /\ wire[j].slot = Slot(Frame(c))
               /\ Fresh(c, wire[j].rows[r], r)
               /\ \A k \in j + 1 .. n : ~SlotOf(wire[k], PhaseOf[r])
    <3>1. PICK j \in 1 .. n :
                 /\ SlotOf(wire[j], PhaseOf[r]) /\ wire[j].slot = Slot(Frame(c))
                 /\ Fresh(c, wire[j].rows[r], r)
                 /\ \A k \in j + 1 .. n : ~SlotOf(wire[k], PhaseOf[r])
      BY <2>1
    <3>2. j \in 1 .. n + 1 /\ w[j] = wire[j]
      BY <1>1
    <3>3. ASSUME NEW k \in j + 1 .. n + 1 PROVE ~SlotOf(w[k], PhaseOf[r])
      BY <1>1, <1>5, <3>1, SMTT(30)
    <3> QED BY <3>1, <3>2, <3>3
  <2>2. CASE (\A k \in 1 .. n : ~SlotOf(wire[k], PhaseOf[r])) /\ Fresh(c, rData[r][Slot(Frame(c))], r)
    BY <1>1, <1>5, <2>2
  <2>3. (n + 1) - 1 = n
    BY <1>1
  <2> QED BY <1>5, <2>1, <2>2, <2>3 DEF Delivered
<1>6. n = Len(wire)
  BY DEF n
<1> QED BY <1>4, <1>5, <1>6

(* A packet applied to the replica leaves what comes after it delivered.   *)
LEMMA PacketApplied ==
  ASSUME wire \in Seq(Packets), wire # <<>>, wire' = Tail(wire),
         UNCHANGED <<newest, passedOver>>, NEW r \in Rows, NEW c \in Nat,
         NEW i \in 2 .. Len(wire) + 1, Delivered(r, c, i),
         SlotOf(Head(wire), PhaseOf[r]) /\ Head(wire).slot = Slot(Frame(c)) =>
           rData'[r][Slot(Frame(c))] = Head(wire).rows[r],
         ~SlotOf(Head(wire), PhaseOf[r]) => rData'[r] = rData[r]
  PROVE  Delivered(r, c, i - 1)'
<1> DEFINE w == wire'
           d == rData'[r][Slot(Frame(c))]
<1>1. /\ Len(wire) \in Nat \ {0} /\ Head(wire) = wire[1]
      /\ \A j \in 1 .. Len(wire) - 1 : w[j] = wire[j + 1]
  BY Received
<1>2. Slot(Frame(c))' = Slot(Frame(c))
  BY DEF Slot, Frame
<1> SUFFICES
      \/ \E j \in 1 .. (i - 1) - 1 :
           /\ SlotOf(w[j], PhaseOf[r]) /\ w[j].slot = Slot(Frame(c))
           /\ Fresh(c, w[j].rows[r], r)
           /\ \A k \in j + 1 .. (i - 1) - 1 : ~SlotOf(w[k], PhaseOf[r])
      \/ /\ \A k \in 1 .. (i - 1) - 1 : ~SlotOf(w[k], PhaseOf[r])
         /\ Fresh(c, d, r)
  BY <1>2 DEF Delivered, SlotOf, Fresh, Lapped, AnchorNS, Frame
<1> HIDE DEF w, d
<1>3. i \in Nat /\ i <= Len(wire) + 1 /\ i >= 2 /\ (i - 1) - 1 = i - 2
  BY <1>1
<1>4. CASE \E j \in 1 .. i - 1 :
             /\ SlotOf(wire[j], PhaseOf[r]) /\ wire[j].slot = Slot(Frame(c))
             /\ Fresh(c, wire[j].rows[r], r)
             /\ \A k \in j + 1 .. i - 1 : ~SlotOf(wire[k], PhaseOf[r])
  <2>1. PICK j \in 1 .. i - 1 :
             /\ SlotOf(wire[j], PhaseOf[r]) /\ wire[j].slot = Slot(Frame(c))
             /\ Fresh(c, wire[j].rows[r], r)
             /\ \A k \in j + 1 .. i - 1 : ~SlotOf(wire[k], PhaseOf[r])
    BY <1>4
  <2>2. ASSUME NEW k \in 1 .. i - 2, k > j - 1 PROVE ~SlotOf(w[k], PhaseOf[r])
    <3>1. k + 1 \in j + 1 .. i - 1 /\ w[k] = wire[k + 1]
      BY <1>1, <1>3, <2>2
    <3> QED BY <2>1, <3>1
  <2>3. CASE j = 1
    <3>1. d = wire[1].rows[r]
      BY <1>1, <2>1, <2>3 DEF d
    <3> QED BY <1>3, <2>1, <2>2, <2>3, <3>1
  <2>4. CASE j > 1
    <3>1. j - 1 \in 1 .. i - 2 /\ w[j - 1] = wire[j]
      BY <1>1, <1>3, <2>4
    <3>2. \A k \in (j - 1) + 1 .. i - 2 : ~SlotOf(w[k], PhaseOf[r])
      BY <1>3, <2>2, <3>1
    <3> QED BY <1>3, <2>1, <3>1, <3>2
  <2>5. j = 1 \/ j > 1
    <3>1. j \in 1 .. i - 1
      OBVIOUS
    <3> QED BY <1>3, <3>1
  <2> QED BY <2>3, <2>4, <2>5
<1>5. CASE /\ \A k \in 1 .. i - 1 : ~SlotOf(wire[k], PhaseOf[r])
           /\ Fresh(c, rData[r][Slot(Frame(c))], r)
  <2>1. ~SlotOf(wire[1], PhaseOf[r])
    BY <1>3, <1>5
  <2>2. d = rData[r][Slot(Frame(c))]
    BY <1>1, <2>1 DEF d
  <2>3. ASSUME NEW k \in 1 .. i - 2 PROVE ~SlotOf(w[k], PhaseOf[r])
    <3>1. k + 1 \in 1 .. i - 1 /\ w[k] = wire[k + 1]
      BY <1>1, <1>3
    <3> QED BY <1>5, <3>1
  <2> QED BY <1>3, <1>5, <2>2, <2>3
<1> QED BY <1>4, <1>5 DEF Delivered

(* The hub's part: what the replica is sent stays as fresh as it was. *)
LEMMA RelayUnmoved ==
  ASSUME HubInv, RelayTyped, InvRelay, Hub \/ UNCHANGED liveVars, UNCHANGED relayVars
  PROVE  InvRelay'
<1>1. UNCHANGED <<link, server, seen, nextAnchor, half, sending, wire, rData>>
  BY DEF relayVars, serverVars, replicaVars
<1>2. nextAnchor \in Nat /\ seen \in Nat /\ half \subseteq SlotPackets /\ wire \in Seq(Packets)
  BY DEF RelayTyped, RelayTypeOK
<1>3. lastWritten \in Nat /\ lastWritten' \in Nat /\ lastWritten <= lastWritten'
  <2>1. CASE FinalizeFrame
    <3>1. lastWritten' = NextAnchorNS(cur) /\ cur \in Phases
      BY <2>1, HubFacts DEF FinalizeFrame, CommitFrameFinalize, HubInv, HubTypeOK
    <3> QED BY <3>1, HubFacts DEF HubInv, HubTypeOK, InvClock
  <2>2. CASE ~FinalizeFrame
    <3>1. lastWritten' = lastWritten
      BY <2>2, PublishedByFinalize DEF liveVars
    <3> QED BY <3>1, HubFacts DEF HubInv, HubTypeOK
  <2> QED BY <2>1, <2>2
<1>4. ASSUME NEW r \in Rows, NEW c \in Nat, NEW i \in Nat, Delivered(r, c, i)
      PROVE  Delivered(r, c, i)'
  BY <1>1, <1>4, StaysFresh, StaysDelivered
<1>5. ASSUME NEW i \in 1 .. Len(wire), "commit" \in DOMAIN wire[i], NEW r \in Rows
      PROVE  Delivered(r, wire[i].commit, i)'
  <2>1. wire[i].commit \in Nat /\ i \in Nat
    BY <1>2, <1>5, PacketFacts DEF Packets
  <2>2. Delivered(r, wire[i].commit, i)
    BY <1>5 DEF InvRelay
  <2> QED BY <1>1, <1>4, <2>1, <2>2
<1>6. ASSUME NEW r \in Rows, server = "send", PhaseOf[r] \notin sending
      PROVE  Delivered(r, nextAnchor, Len(wire) + 1)'
  <2>1. Len(wire) + 1 \in Nat
    BY <1>2
  <2>2. Delivered(r, nextAnchor, Len(wire) + 1)
    BY <1>6 DEF InvRelay
  <2> QED BY <1>1, <1>2, <1>4, <2>1, <2>2
<1>7. ASSUME NEW h \in half, server = "send", NEW r \in RowsOf(h.phase)
      PROVE  Fresh(nextAnchor, h.rows[r], r)'
  <2>1. r \in Rows /\ Fresh(nextAnchor, h.rows[r], r)
    BY <1>7 DEF InvRelay, RowsOf
  <2> QED BY <1>1, <1>2, <2>1, StaysFresh
<1> QED BY <1>1, <1>2, <1>3, <1>5, <1>6, <1>7 DEF InvRelay, Slot, Frame, RowsOf

(* A slot the server reads holds what is due by the anchor it is read for. *)
LEMMA ReadsFresh ==
  ASSUME DistinctOffsets, HubInv, NEW c \in Nat, c <= lastWritten, NEW r \in Rows
  PROVE  Fresh(c, slotData[r][Slot(Frame(c))], r)
<1> DEFINE p == PhaseOf[r]
           n == Frame(c)
<1> SUFFICES ASSUME AnchorNS(p, n) <= c, <<p, n>> \notin passedOver
             PROVE  slotData[r][Slot(n)] = n \/ Lapped(r, n)
  BY DEF Fresh
<1>1. p \in Phases /\ n \in Nat /\ lastWritten \in Nat /\ phaseNext[p] \in Nat
  BY HubFacts, FrameOf DEF HubInv, HubTypeOK
<1>2. lastWritten < AnchorNS(p, phaseNext[p])
  BY <1>1 DEF HubInv, InvClock, NextAnchorNS
<1>3. n < phaseNext[p]
  <2>1. AnchorNS(p, n) < AnchorNS(p, phaseNext[p])
    BY <1>1, <1>2, AnchorTimes
  <2> QED BY <1>1, <2>1, EarlierFrame
<1> QED BY <1>1, <1>3 DEF HubInv, InvFrames, Held

(* The server's steps but for those that send. *)
LEMMA ServerStep ==
  ASSUME DistinctOffsets, MaxFrames > 1, HubInv, RelayTyped, InvRelay,
         \/ Connect \/ LoadLast \/ TestDue \/ TestStatus \/ Disconnect \/ ClientEnds
         \/ \E p \in Phases : CopySlot(p),
         UNCHANGED <<liveVars, recoveryVars>>
  PROVE  InvRelay'
<1> USE DEF serverVars, replicaVars
<1>1. /\ UNCHANGED <<lastWritten, newest, passedOver, slotData>>
      /\ nextAnchor \in Nat /\ seen \in Nat /\ wire \in Seq(Packets) /\ half \subseteq SlotPackets
      /\ lastWritten \in Nat /\ Cadence \in Nat \ {0} /\ MaxFrames \in Nat
  BY HubFacts DEF liveVars, historyVars, HubInv, HubTypeOK, RelayTyped, RelayTypeOK
<1>2. ASSUME UNCHANGED <<wire, rData>>,
             NEW r \in Rows, NEW c \in Nat, NEW i \in Nat, Delivered(r, c, i)
      PROVE  Delivered(r, c, i)'
  <2>1. \A x : Fresh(c, x, r) => Fresh(c, x, r)'
    BY <1>1 DEF Fresh, Lapped, AnchorNS, Frame
  <2> QED BY <1>2, <2>1, StaysDelivered
<1>3. ASSUME UNCHANGED <<wire, rData>>,
             NEW i \in 1 .. Len(wire), "commit" \in DOMAIN wire[i], NEW r \in Rows
      PROVE  Delivered(r, wire[i].commit, i)'
  <2>1. wire[i].commit \in Nat /\ i \in Nat
    BY <1>1, <1>3, PacketFacts DEF Packets
  <2>2. Delivered(r, wire[i].commit, i)
    BY <1>3 DEF InvRelay
  <2> QED BY <1>2, <1>3, <2>1, <2>2
<1>4. CASE Connect \/ LoadLast \/ TestStatus \/ ClientEnds
  <2>1. /\ UNCHANGED <<wire, rData, half>> /\ server' # "send" /\ server # "send"
        /\ link' # "up" => server' = "poll"
        /\ server' = "test" => seen' <= lastWritten
    BY <1>1, <1>4 DEF Connect, LoadLast, TestStatus, ClientEnds, InvRelay
  <2>2. half' = {}
    BY <2>1 DEF InvRelay
  <2> QED BY <1>1, <1>3, <2>1, <2>2 DEF InvRelay
<1>5. CASE Disconnect
  <2>1. wire' = <<>> /\ half' = {} /\ server' = "poll"
    BY <1>5 DEF Disconnect
  <2>2. Len(wire') = 0
    BY <2>1
  <2> QED BY <2>1, <2>2 DEF InvRelay
<1>6. CASE TestDue
  <2>1. /\ UNCHANGED <<link, wire, rData, half>> /\ server' = "send" /\ sending' = Phases
        /\ nextAnchor' = Clamped /\ nextAnchor <= seen /\ server = "test" /\ link = "up"
    BY <1>6 DEF TestDue, Due
  <2>2. half = {} /\ seen <= lastWritten
    BY <2>1 DEF InvRelay
  <2>3. nextAnchor' <= lastWritten
    <3>1. (MaxFrames - 2) * Cadence >= 0 /\ (MaxFrames - 2) * Cadence \in Int
      BY <1>1, SMT
    <3> QED BY <1>1, <2>1, <2>2, <3>1 DEF Clamped
  <2>4. \A r \in Rows : PhaseOf[r] \in Phases
    BY LiveRingAssumption
  <2> QED BY <1>1, <1>3, <2>1, <2>2, <2>3, <2>4 DEF InvRelay
<1>7. ASSUME NEW p \in Phases, CopySlot(p) PROVE InvRelay'
  <2>0. PICK h : h = [phase |-> p, slot |-> SendSlot, rows |-> SlotRows(p)]
    OBVIOUS
  <2>1. /\ UNCHANGED <<link, wire, rData, server, sending, seen, nextAnchor>>
        /\ server = "send" /\ link = "up" /\ half' = {h} /\ p \in sending
    BY <1>7, <2>0 DEF CopySlot
  <2>2. nextAnchor <= lastWritten
    BY <2>1 DEF InvRelay
  <2>3. h.phase = p /\ h.slot = Slot(Frame(nextAnchor)) /\ h.slot \in Slots
    BY <2>0, SlotRowsType DEF Frame
  <2>4. ASSUME NEW r \in RowsOf(p) PROVE Fresh(nextAnchor, h.rows[r], r)'
    <3>1. r \in Rows /\ h.rows[r] = slotData[r][Slot(Frame(nextAnchor))]
      BY <2>0, <2>3, SlotRowsType DEF SlotRows, RowsOf, Frame
    <3>2. Fresh(nextAnchor, h.rows[r], r)
      BY <1>1, <2>2, <3>1, ReadsFresh
    <3> QED BY <1>1, <2>1, <3>2 DEF Fresh, Lapped, AnchorNS, Frame
  <2>5. ASSUME NEW r \in Rows, PhaseOf[r] \notin sending
        PROVE  Delivered(r, nextAnchor, Len(wire) + 1)'
    <3>1. Len(wire) + 1 \in Nat
      BY <1>1
    <3>2. Delivered(r, nextAnchor, Len(wire) + 1)
      BY <2>1, <2>5 DEF InvRelay
    <3> QED BY <1>1, <1>2, <2>1, <3>1, <3>2
  <2>6. Slot(Frame(nextAnchor))' = Slot(Frame(nextAnchor)) /\ RowsOf(h.phase)' = RowsOf(h.phase)
    BY <2>1 DEF Slot, Frame, RowsOf
  <2> QED BY <1>1, <1>3, <2>1, <2>2, <2>3, <2>4, <2>5, <2>6 DEF InvRelay
<1> QED BY <1>4, <1>5, <1>6, <1>7

(* The steps that send. *)
LEMMA SendStep ==
  ASSUME DistinctOffsets, HubInv, RelayTyped, InvRelay, SendSlotPacket \/ SendCommit,
         UNCHANGED <<liveVars, recoveryVars>>
  PROVE  InvRelay'
<1> USE DEF serverVars, replicaVars
<1>1. /\ UNCHANGED <<lastWritten, newest, passedOver, rData, link>>
      /\ nextAnchor \in Nat /\ wire \in Seq(Packets) /\ half \subseteq SlotPackets
      /\ lastWritten \in Nat /\ server = "send" /\ link = "up" /\ nextAnchor <= lastWritten
  BY HubFacts DEF liveVars, historyVars, HubInv, HubTypeOK, RelayTyped, RelayTypeOK,
                  SendSlotPacket, SendCommit, InvRelay
<1>2. ASSUME NEW h \in Packets, wire' = Append(wire, h), NEW r \in Rows, NEW c \in Nat,
             NEW i \in 1 .. Len(wire) + 1, Delivered(r, c, i)
      PROVE  Delivered(r, c, i)'
  <2>1. /\ \A k \in 1 .. i - 1 : wire'[k] = wire[k]
        /\ i \in Nat
    BY <1>1, <1>2, Sent
  <2>2. \A x : Fresh(c, x, r) => Fresh(c, x, r)'
    BY <1>1 DEF Fresh, Lapped, AnchorNS, Frame
  <2> QED BY <1>1, <1>2, <2>1, <2>2, StaysDelivered
<1>3. ASSUME NEW h \in Packets, wire' = Append(wire, h), NEW r \in Rows,
             NEW i \in 1 .. Len(wire), "commit" \in DOMAIN wire[i]
      PROVE  Delivered(r, wire[i].commit, i)'
  <2>1. wire[i].commit \in Nat /\ i \in 1 .. Len(wire) + 1 /\ wire'[i] = wire[i]
    BY <1>1, <1>3, PacketFacts, Sent DEF Packets
  <2>2. Delivered(r, wire[i].commit, i)
    BY <1>3 DEF InvRelay
  <2> QED BY <1>2, <1>3, <2>1, <2>2
<1>4. CASE SendSlotPacket
  <2>1. PICK h \in half :
          LET now == SlotRows(h.phase)
              read == [r \in RowsOf(h.phase) |->
                         IF now[r] = h.rows[r] THEN now[r] ELSE Torn]
          IN  /\ \E rows \in {now, read} : wire' = Append(wire, [h EXCEPT !.rows = rows])
              /\ sending' = sending \ {h.phase}
    BY <1>4 DEF SendSlotPacket
  <2> DEFINE now == SlotRows(h.phase)
             read == [r \in RowsOf(h.phase) |-> IF now[r] = h.rows[r] THEN now[r] ELSE Torn]
  <2>2. PICK rows \in {now, read} : wire' = Append(wire, [h EXCEPT !.rows = rows])
    BY <2>1
  <2>3. /\ h \in SlotPackets /\ h.phase \in Phases
        /\ h.slot = Slot(Frame(nextAnchor)) /\ h.phase \in sending
        /\ \A r \in RowsOf(h.phase) : Fresh(nextAnchor, h.rows[r], r)
    BY <1>1, PacketFacts DEF InvRelay
  <2>4. /\ now \in [RowsOf(h.phase) -> Nat \cup {Torn}]
        /\ SendSlot = Slot(Frame(nextAnchor))
    BY <2>3, SlotRowsType DEF Frame
  <2>5. ASSUME NEW r \in RowsOf(h.phase)
        PROVE  r \in Rows /\ PhaseOf[r] = h.phase /\ Fresh(nextAnchor, rows[r], r)
    <3>1. r \in Rows /\ PhaseOf[r] = h.phase /\ now[r] = slotData[r][Slot(Frame(nextAnchor))]
      BY <2>4 DEF SlotRows, RowsOf
    <3>2. Fresh(nextAnchor, now[r], r) /\ Fresh(nextAnchor, h.rows[r], r)
      BY <1>1, <2>3, <3>1, ReadsFresh
    <3> HIDE DEF now
    <3>3. rows[r] = now[r] \/ (rows[r] = Torn /\ now[r] # h.rows[r])
      BY <2>2
    <3> QED BY <3>1, <3>2, <3>3 DEF Fresh
  <2> HIDE DEF now
  <2>6. rows \in [RowsOf(h.phase) -> Nat \cup {Torn}]
    BY <2>2, <2>4
  <2> HIDE DEF read
  <2>7. PICK k : k = [h EXCEPT !.rows = rows]
    OBVIOUS
  <2>8. /\ k \in Packets /\ wire' = Append(wire, k)
        /\ "rows" \in DOMAIN k /\ k.phase = h.phase /\ k.slot = h.slot /\ k.rows = rows
        /\ "commit" \notin DOMAIN k
    <3>1. k \in SlotPackets
      BY <2>3, <2>6, <2>7 DEF SlotPackets
    <3>2. k.phase = h.phase /\ k.slot = h.slot /\ k.rows = rows
      BY <2>3, <2>7 DEF SlotPackets
    <3> QED BY <2>2, <2>7, <3>1, <3>2, PacketFacts DEF Packets
  <2>9. /\ sending' = sending \ {h.phase} /\ half' = {} /\ UNCHANGED <<nextAnchor, server, seen>>
    BY <1>4, <2>1 DEF SendSlotPacket
  <2>10. /\ Len(wire) \in Nat /\ Len(wire') = Len(wire) + 1 /\ wire'[Len(wire) + 1] = k
         /\ \A i \in 1 .. Len(wire) : wire'[i] = wire[i]
    BY <1>1, <2>8, Sent
  <2>11. ASSUME NEW i \in 1 .. Len(wire'), "commit" \in DOMAIN wire'[i], NEW r \in Rows
         PROVE  Delivered(r, wire[i].commit, i)'
    <3>1. i \in 1 .. Len(wire) /\ wire'[i] = wire[i]
      BY <2>8, <2>10, <2>11
    <3> QED BY <1>3, <2>8, <2>11, <3>1
  <2>12. ASSUME NEW r \in Rows, PhaseOf[r] \notin sending'
         PROVE  Delivered(r, nextAnchor, Len(wire) + 1)'
    <3>1. PICK i \in Nat : i = Len(wire) + 2 /\ i = Len(wire') + 1
      BY <2>10
    <3>2. CASE PhaseOf[r] = h.phase
      <4>1. r \in RowsOf(h.phase)
        BY <3>2 DEF RowsOf
      <4>2. /\ SlotOf(k, PhaseOf[r]) /\ k.slot = Slot(Frame(nextAnchor))
            /\ Fresh(nextAnchor, k.rows[r], r)
        BY <2>3, <2>5, <2>8, <4>1 DEF SlotOf
      <4>3. Delivered(r, nextAnchor, i)'
        BY <1>1, <2>8, <2>9, <3>1, <4>2, PacketSent
      <4> QED BY <2>9, <3>1, <4>3
    <3>3. CASE PhaseOf[r] # h.phase
      <4>1. ~SlotOf(k, PhaseOf[r]) /\ Delivered(r, nextAnchor, Len(wire) + 1)
        BY <1>1, <2>8, <2>9, <2>12, <3>3 DEF SlotOf, InvRelay
      <4>2. Delivered(r, nextAnchor, i)'
        BY <1>1, <2>8, <2>9, <3>1, <4>1, PacketSent
      <4> QED BY <2>9, <3>1, <4>2
    <3> QED BY <3>2, <3>3
  <2> QED BY <1>1, <2>9, <2>11, <2>12 DEF InvRelay
<1>5. CASE SendCommit
  <2>1. PICK k : k = [commit |-> nextAnchor]
    OBVIOUS
  <2>2. /\ k \in Packets /\ wire' = Append(wire, k) /\ k.commit = nextAnchor
        /\ sending = {} /\ half' = {} /\ server' = "poll" /\ link' = "up"
    BY <1>1, <1>5, <2>1 DEF SendCommit, CommitPackets, Packets
  <2>3. /\ Len(wire) \in Nat /\ Len(wire') = Len(wire) + 1 /\ wire'[Len(wire) + 1] = k
        /\ \A i \in 1 .. Len(wire) : wire'[i] = wire[i]
    BY <1>1, <2>2, Sent
  <2>4. ASSUME NEW i \in 1 .. Len(wire'), "commit" \in DOMAIN wire'[i], NEW r \in Rows
        PROVE  Delivered(r, wire[i].commit, i)'
    <3>1. CASE i \in 1 .. Len(wire)
      <4>1. "commit" \in DOMAIN wire[i]
        BY <2>3, <2>4, <3>1
      <4> QED BY <1>3, <2>2, <3>1, <4>1
    <3>2. CASE i = Len(wire) + 1
      <4>1. wire'[i].commit = nextAnchor /\ Delivered(r, nextAnchor, i)
        BY <1>1, <2>2, <2>3, <3>2 DEF InvRelay
      <4>2. i \in 1 .. Len(wire) + 1
        BY <2>3, <3>2
      <4> QED BY <1>1, <1>2, <2>2, <4>1, <4>2
    <3> QED BY <2>3, <2>4, <3>1, <3>2
  <2> QED BY <2>2, <2>4 DEF InvRelay
<1> QED BY <1>4, <1>5

(* The replica's steps: what a commit publishes there is fresh. *)
LEMMA ReplicaStep ==
  ASSUME HubInv, RelayTyped, InvRelay, ApplySlot \/ ApplyCommit,
         UNCHANGED <<liveVars, recoveryVars>>
  PROVE  /\ InvRelay'
         /\ ApplyCommit => \A r \in Rows : Fresh(rLast', rData'[r][Slot(Frame(rLast'))], r)
<1> USE DEF serverVars, replicaVars
<1> DEFINE n == Len(wire)
<1>1. /\ UNCHANGED <<lastWritten, newest, passedOver, link, server, seen, half, nextAnchor, sending>>
      /\ nextAnchor \in Nat /\ wire \in Seq(Packets) /\ wire # <<>> /\ wire' = Tail(wire)
      /\ rData \in [Rows -> [Slots -> Nat \cup {Torn}]]
  BY DEF liveVars, historyVars, RelayTyped, RelayTypeOK, ApplySlot, ApplyCommit, Receiving
<1>2. /\ n \in Nat \ {0} /\ Head(wire) = wire[1] /\ Head(wire) \in Packets /\ Len(wire') = n - 1
      /\ \A i \in 1 .. n - 1 : wire'[i] = wire[i + 1]
  BY <1>1, Received
<1>3. ASSUME NEW r \in Rows
      PROVE  /\ SlotOf(Head(wire), PhaseOf[r]) =>
                  rData'[r][Head(wire).slot] = Head(wire).rows[r]
             /\ ~SlotOf(Head(wire), PhaseOf[r]) => rData'[r] = rData[r]
  <2>1. CASE ApplySlot
    <3>1. "rows" \in DOMAIN Head(wire)
      BY <2>1 DEF ApplySlot
    <3>2. Head(wire) \in SlotPackets
      BY <1>2, <3>1, PacketFacts DEF Packets
    <3>3. Head(wire).slot \in Slots /\ DOMAIN Head(wire).rows = RowsOf(Head(wire).phase)
      BY <3>2, PacketFacts
    <3>4. rData'[r] = IF r \in RowsOf(Head(wire).phase)
                        THEN [rData[r] EXCEPT ![Head(wire).slot] = Head(wire).rows[r]]
                        ELSE rData[r]
      BY <2>1, <3>3 DEF ApplySlot
    <3>5. r \in RowsOf(Head(wire).phase) <=> Head(wire).phase = PhaseOf[r]
      BY DEF RowsOf
    <3> QED BY <1>1, <3>1, <3>3, <3>4, <3>5 DEF SlotOf
  <2>2. CASE ApplyCommit
    <3>1. rData' = rData /\ "commit" \in DOMAIN Head(wire)
      BY <2>2 DEF ApplyCommit
    <3>2. "rows" \notin DOMAIN Head(wire)
      BY <1>2, <3>1, PacketFacts DEF Packets
    <3> QED BY <3>1, <3>2 DEF SlotOf
  <2> QED BY <2>1, <2>2
<1>4. ASSUME NEW r \in Rows, NEW c \in Nat, NEW i \in 2 .. n + 1, Delivered(r, c, i)
      PROVE  Delivered(r, c, i - 1)'
  BY <1>1, <1>3, <1>4, PacketApplied
<1>5. ASSUME NEW i \in 1 .. n - 1, "commit" \in DOMAIN wire'[i], NEW r \in Rows
      PROVE  Delivered(r, wire[i].commit, i)'
  <2>1. PICK j \in 2 .. n : j = i + 1
    BY <1>2
  <2>2. wire'[i] = wire[j] /\ j \in 1 .. n /\ j - 1 = i /\ j \in 2 .. n + 1
    BY <1>2, <2>1
  <2>3. wire[j].commit \in Nat
    BY <1>1, <1>5, <2>2, PacketFacts DEF Packets
  <2>4. Delivered(r, wire[j].commit, j)
    BY <1>5, <2>2 DEF InvRelay
  <2> QED BY <1>4, <2>2, <2>3, <2>4
<1>6. ASSUME NEW r \in Rows, server = "send", PhaseOf[r] \notin sending
      PROVE  Delivered(r, nextAnchor, Len(wire) + 1)'
  <2>1. PICK j \in 2 .. n + 1 : j = n + 1
    BY <1>2
  <2>2. Delivered(r, nextAnchor, j)
    BY <1>6, <2>1 DEF InvRelay
  <2>3. j - 1 = Len(wire') + 1
    BY <1>2, <2>1
  <2> QED BY <1>1, <1>4, <2>2, <2>3
<1>7. ASSUME NEW h \in half, server = "send", NEW r \in RowsOf(h.phase)
      PROVE  Fresh(nextAnchor, h.rows[r], r)'
  <2>1. Fresh(nextAnchor, h.rows[r], r)
    BY <1>7 DEF InvRelay
  <2> QED BY <1>1, <2>1 DEF Fresh, Lapped, AnchorNS, Frame
<1>8. InvRelay'
  BY <1>1, <1>2, <1>5, <1>6, <1>7 DEF InvRelay, Slot, Frame, RowsOf
<1>9. ASSUME ApplyCommit, NEW r \in Rows
      PROVE  Fresh(rLast', rData'[r][Slot(Frame(rLast'))], r)
  <2>1. rLast' = wire[1].commit /\ rData' = rData /\ "commit" \in DOMAIN wire[1]
    BY <1>2, <1>9 DEF ApplyCommit
  <2>2. Delivered(r, wire[1].commit, 1)
    <3>1. 1 \in 1 .. Len(wire)
      BY <1>2
    <3> QED BY <2>1, <3>1 DEF InvRelay
  <2>3. Fresh(wire[1].commit, rData[r][Slot(Frame(wire[1].commit))], r)
    BY <2>2 DEF Delivered
  <2> QED BY <2>1, <2>3
<1> QED BY <1>8, <1>9

LEMMA RelayStep ==
  ASSUME DistinctOffsets, MaxFrames > 1, ReadersInv, InvRelay, [Next]_vars PROVE InvRelay'
<1>1. HubInv /\ RelayTyped
  BY DEF ReadersInv
<1>2. CASE Hub /\ UNCHANGED relayVars
  BY <1>1, <1>2, RelayUnmoved
<1>3. CASE UNCHANGED <<liveVars, relayVars>>
  BY <1>1, <1>3, RelayUnmoved
<1>4. CASE Relay /\ UNCHANGED <<liveVars, recoveryVars>>
  BY <1>1, <1>4, ServerStep, SendStep, ReplicaStep DEF Relay
<1> QED BY <1>2, <1>3, <1>4 DEF Next, vars

(* When the replica publishes an anchor, the frames of its cadence that    *)
(* are due by that anchor are in the replica, whole, unless the producer   *)
(* has come round to their slots on the primary: for any phases that close *)
(* one by one, any ring of at least two slots, any length of the           *)
(* connection, any number of disconnects and restarts of the hub, and a    *)
(* slot read while it is being written.                                    *)
THEOREM DueFramesAreRelayed == DistinctOffsets /\ MaxFrames > 1 => (Spec => DueFramesRelayed)
<1> SUFFICES ASSUME DistinctOffsets, MaxFrames > 1 PROVE Spec => DueFramesRelayed
  OBVIOUS
<1>1. Init => InvRelay
  <2> SUFFICES ASSUME Init PROVE InvRelay
    OBVIOUS
  <2>1. wire = <<>> /\ half = {} /\ server = "poll"
    BY DEF Init, RelayInit
  <2>2. Len(wire) = 0
    BY <2>1
  <2> QED BY <2>1, <2>2 DEF InvRelay
<1>2. ReadersInv /\ InvRelay /\ [Next]_vars => InvRelay'
  BY RelayStep
<1>3. ReadersInv /\ InvRelay /\ [Next]_vars =>
        [Commits => \A r \in Rows :
           LET n == rLast' \div Cadence
           IN  AnchorNS(PhaseOf[r], n) <= rLast' /\ <<PhaseOf[r], n>> \notin passedOver =>
                 rData[r][Slot(n)] = n \/ Lapped(r, n)]_relayVars
  <2> SUFFICES ASSUME ReadersInv, InvRelay, [Next]_vars, Commits, NEW r \in Rows
               PROVE  LET n == rLast' \div Cadence
                      IN  AnchorNS(PhaseOf[r], n) <= rLast' /\ <<PhaseOf[r], n>> \notin passedOver =>
                            rData[r][Slot(n)] = n \/ Lapped(r, n)
    OBVIOUS
  <2>1. ApplyCommit /\ UNCHANGED <<liveVars, recoveryVars>>
    <3>1. Relay /\ UNCHANGED <<liveVars, recoveryVars>>
      BY DEF Next, vars, Commits, relayVars, replicaVars
    <3> QED BY <3>1
            DEF Commits, Relay, Connect, LoadLast, TestDue, TestStatus, SendSlotPacket,
                SendCommit, CopySlot, ApplySlot, Disconnect, ClientEnds, replicaVars
  <2>2. Fresh(rLast', rData'[r][Slot(Frame(rLast'))], r) /\ rData' = rData
    BY <2>1, ReplicaStep DEF ReadersInv, ApplyCommit
  <2> QED BY <2>2 DEF Fresh, Frame
<1> QED BY <1>1, <1>2, <1>3, ReadersInvariant, PTL DEF Spec, DueFramesRelayed
=============================================================================
