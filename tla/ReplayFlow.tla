------------------------------ MODULE ReplayFlow ------------------------------
(***************************************************************************)
(* Historical replay through the shared-memory frame rings: the Go         *)
(* producer (playback engine or chunk worker) commits frames in anchor     *)
(* order, one ring per phase, and is held back by WaitConsumerAdvance; a   *)
(* Python consumer (TickHubReader) walks one cursor per symbol row over    *)
(* the same rings and releases room with commit_read.                      *)
(*                                                                         *)
(* Sources: pkg/shm/producer.go (WaitConsumerAdvance, CommitSymbolMetrics, *)
(* CommitPhaseFrame, CommitFrameFinalize), pkg/project/projector.go (order *)
(* of the phases), pkg/playback/playback.go, python/tickhub/shm.py         *)
(* (begin_all, _load_into_matrix, next, commit_read) and export.py.        *)
(*                                                                         *)
(* An anchor is a pair of a phase p and a lattice index n; its time is     *)
(* n*Cadence + Offset[p], so that anchor / cadence, which addresses the    *)
(* ring, is n.  The payload of a row is the index it was computed for, or  *)
(* Torn while only a part of its floats has been copied.                   *)
(***************************************************************************)
EXTENDS Integers

CONSTANTS
  Phases,       \* the phases of the hub
  Offset,       \* [Phases -> 0 .. Cadence-1]: the phase's offset
  Cadence,      \* cadence_interval
  MaxFrames,    \* ring slots of each phase
  Rows,         \* symbol rows over all phases; the consumer has a cursor on each
  PhaseOf,      \* [Rows -> Phases]
  Gated,        \* phases whose commit calls WaitConsumerAdvance
  Start,        \* [Phases -> Nat]: index of the first frame of each phase
  LastIndex,    \* bound: index of the last frame of each phase
  Bulk,         \* TRUE: CommitPhaseFrame, FALSE: CommitSymbolMetrics
  FlowTimeout,  \* TRUE: the wait has a timeout (timeout > 0)
  ConsumerExits \* TRUE: the consumer process may die

AnchorNS(p, n) == n * Cadence + Offset[p]
Slot(n) == n % MaxFrames
RowsOf(p) == {r \in Rows : PhaseOf[r] = p}

(* The producer starts every phase at its first anchor after the same      *)
(* instant, so the first anchors lie within one cadence of each other.     *)
ASSUME RingAssumption ==
  /\ MaxFrames \in Nat \ {0}
  /\ Cadence \in Nat \ {0}
  /\ Offset \in [Phases -> 0 .. Cadence - 1]
  /\ PhaseOf \in [Rows -> Phases]
  /\ Gated \subseteq Phases
  /\ Start \in [Phases -> Nat \ {0}]
  /\ \A p, q \in Phases :
       AnchorNS(p, Start[p]) - AnchorNS(q, Start[q]) < Cadence
  /\ LastIndex \in Nat
  /\ Bulk \in BOOLEAN /\ FlowTimeout \in BOOLEAN /\ ConsumerExits \in BOOLEAN

Torn == -1      \* a row of which only some floats are the new ones
Unset == 0      \* an anchor word of the mapped file that was never stored

VARIABLES
  firstAnchor,  \* header.FirstAnchorNS
  lastRead,     \* header.LastReadAnchorNS
  lastWritten,  \* header.LastWrittenAnchorNS
  dropped,      \* header.DroppedTickCount
  pidSet,       \* header.ConsumerPID > 0
  slotAnchor,   \* [Rows -> [slots -> index]]: symbol_anchor_ns words
  slotData,     \* [Rows -> [slots -> index or Torn]]: feature rows
  pc,           \* "pick", "wait", "commit", "stopped", "closed"
  pFirst,       \* Producer.firstAnchorNS
  phaseNext,    \* Projector.phaseNextAnchor, as an index
  cur,          \* the phase being committed
  stage,        \* [Rows -> progress of the row in the current commit]
  open,         \* the consumer has called begin_all
  alive,        \* the consumer process exists
  target,       \* [Rows -> index]: cursor.target_anchor_ns
  load,         \* [Rows -> progress of the cursor in the current load]
  out           \* [Rows -> what the last load copied into out_matrix]

headerVars == <<firstAnchor, lastRead, lastWritten, dropped, pidSet>>
ringVars == <<slotAnchor, slotData>>
producerVars == <<pc, pFirst, phaseNext, cur, stage>>
consumerVars == <<open, alive, target, load, out>>
vars == <<headerVars, ringVars, producerVars, consumerVars>>

Slots == 0 .. MaxFrames - 1

Init ==
  /\ firstAnchor = 0 /\ lastRead = 0 /\ lastWritten = 0
  /\ dropped = 0 /\ pidSet = FALSE
  /\ slotAnchor = [r \in Rows |-> [s \in Slots |-> Unset]]
  /\ slotData = [r \in Rows |-> [s \in Slots |-> Unset]]
  /\ pc = "pick" /\ pFirst = 0 /\ phaseNext = Start
  /\ cur \in Phases
  /\ stage = [r \in Rows |-> "todo"]
  /\ open = FALSE /\ alive = TRUE
  /\ target = [r \in Rows |-> Start[PhaseOf[r]]]
  /\ load = [r \in Rows |-> "due"]
  /\ out = [r \in Rows |-> Unset]

-----------------------------------------------------------------------------
(* Producer *)

NextAnchorNS(p) == AnchorNS(p, phaseNext[p])

Earliest(p) == \A q \in Phases : NextAnchorNS(p) <= NextAnchorNS(q)

(* Enter the commit of the earliest due phase; a gated phase runs the      *)
(* prologue of WaitConsumerAdvance, which records the start anchor.        *)
PickPhase ==
  \E p \in Phases :
    /\ pc = "pick"
    /\ phaseNext[p] <= LastIndex
    /\ Earliest(p)
    /\ cur' = p
    /\ stage' = [r \in Rows |-> "todo"]
    /\ IF p \in Gated /\ MaxFrames > 1
         THEN /\ pc' = "wait"
              /\ firstAnchor' = IF firstAnchor = 0 THEN NextAnchorNS(p)
                                                   ELSE firstAnchor
              /\ pFirst' = IF pFirst = 0 THEN firstAnchor' ELSE pFirst
         ELSE /\ pc' = "commit"
              /\ UNCHANGED <<firstAnchor, pFirst>>
    /\ UNCHANGED <<lastRead, lastWritten, dropped, pidSet, ringVars,
                   phaseNext, consumerVars>>

(* Fault: what the consumer releases is not looked at. *)
RoomFromFirst == NextAnchorNS(cur) - pFirst < (MaxFrames - 2) * Cadence

(* The loop's exit test: room is measured from the last anchor the         *)
(* consumer released or, before its first release, from the first anchor.  *)
Room ==
  LET base == IF lastRead = 0 THEN pFirst ELSE lastRead
  IN  NextAnchorNS(cur) - base < (MaxFrames - 2) * Cadence

RoomFound ==
  /\ pc = "wait"
  /\ Room
  /\ pc' = "commit"
  /\ UNCHANGED <<headerVars, ringVars, pFirst, phaseNext, cur, stage,
                 consumerVars>>

(* Fault: the counter is decremented. *)
WaitFailsUncounts ==
  /\ pc = "wait" /\ ~Room
  /\ dropped' = dropped - 1
  /\ pc' = "stopped"
  /\ UNCHANGED <<firstAnchor, lastRead, lastWritten, pidSet, ringVars, pFirst,
                 phaseNext, cur, stage, consumerVars>>

(* ErrFlowControlTimeout, or ErrConsumerDeadlock when the registered       *)
(* consumer is gone: the replay ends with an error.                        *)
WaitFails ==
  /\ pc = "wait"
  /\ ~Room
  /\ FlowTimeout \/ (pidSet /\ ~alive)
  /\ dropped' = dropped + 1
  /\ pc' = "stopped"
  /\ UNCHANGED <<firstAnchor, lastRead, lastWritten, pidSet, ringVars, pFirst,
                 phaseNext, cur, stage, consumerVars>>

(* copy(featSlice, features) of one row, in two halves. *)
CopyFirstHalf(r) ==
  /\ pc = "commit" /\ PhaseOf[r] = cur
  /\ stage[r] = "todo"
  /\ stage' = [stage EXCEPT ![r] = "copying"]
  /\ slotData' = [slotData EXCEPT ![r][Slot(phaseNext[cur])] = Torn]
  /\ UNCHANGED <<headerVars, slotAnchor, pc, pFirst, phaseNext, cur,
                 consumerVars>>

CopySecondHalf(r) ==
  /\ pc = "commit" /\ PhaseOf[r] = cur
  /\ stage[r] = "copying"
  /\ stage' = [stage EXCEPT ![r] = "copied"]
  /\ slotData' = [slotData EXCEPT ![r][Slot(phaseNext[cur])] = phaseNext[cur]]
  /\ UNCHANGED <<headerVars, slotAnchor, pc, pFirst, phaseNext, cur,
                 consumerVars>>

(* Fault: the anchor is published before the row is wholly copied. *)
StoreAnchorEarly(r) ==
  /\ pc = "commit" /\ PhaseOf[r] = cur
  /\ stage[r] = "copying"
  /\ stage' = [stage EXCEPT ![r] = "stored"]
  /\ slotAnchor' = [slotAnchor EXCEPT ![r][Slot(phaseNext[cur])] = phaseNext[cur]]
  /\ UNCHANGED <<headerVars, slotData, pc, pFirst, phaseNext, cur, consumerVars>>

(* Store-release of the row's anchor: right after its own features in      *)
(* CommitSymbolMetrics, after the whole matrix in CommitPhaseFrame.        *)
StoreAnchor(r) ==
  /\ pc = "commit" /\ PhaseOf[r] = cur
  /\ stage[r] = "copied"
  /\ Bulk => \A q \in RowsOf(cur) : stage[q] \in {"copied", "stored"}
  /\ stage' = [stage EXCEPT ![r] = "stored"]
  /\ slotAnchor' = [slotAnchor EXCEPT ![r][Slot(phaseNext[cur])] = phaseNext[cur]]
  /\ UNCHANGED <<headerVars, slotData, pc, pFirst, phaseNext, cur, consumerVars>>

CommitFrameFinalize ==
  /\ pc = "commit"
  /\ \A r \in RowsOf(cur) : stage[r] = "stored"
  /\ firstAnchor' = IF firstAnchor = 0 THEN NextAnchorNS(cur) ELSE firstAnchor
  /\ lastWritten' = NextAnchorNS(cur)
  /\ phaseNext' = [phaseNext EXCEPT ![cur] = @ + 1]
  /\ pc' = "pick"
  /\ UNCHANGED <<lastRead, dropped, pidSet, ringVars, pFirst, cur, stage,
                 consumerVars>>

(* End of the files: the engine publishes StatusClosed. *)
EndOfStream ==
  /\ pc = "pick"
  /\ \A p \in Phases : phaseNext[p] > LastIndex
  /\ pc' = "closed"
  /\ UNCHANGED <<headerVars, ringVars, pFirst, phaseNext, cur, stage,
                 consumerVars>>

Producer ==
  \/ PickPhase \/ RoomFound \/ WaitFails
  \/ \E r \in Rows : CopyFirstHalf(r) \/ CopySecondHalf(r) \/ StoreAnchor(r)
  \/ CommitFrameFinalize \/ EndOfStream

-----------------------------------------------------------------------------
(* Consumer *)

Copying == \E r \in Rows : load[r] = "copying"

(* Fault: rounding down leaves a cursor before its phase's first frame. *)
BeginAllRoundsDown ==
  /\ alive /\ ~open
  /\ firstAnchor # 0
  /\ open' = TRUE
  /\ target' = [r \in Rows |-> (firstAnchor - Offset[PhaseOf[r]]) \div Cadence]
  /\ UNCHANGED <<headerVars, ringVars, producerVars, alive, load, out>>

(* begin_all in replay mode: the first anchor of each phase's lattice that *)
(* is not before first_anchor_ns.                                          *)
BeginAll ==
  /\ alive /\ ~open
  /\ firstAnchor # 0
  /\ open' = TRUE
  /\ target' = [r \in Rows |->
       LET n == (firstAnchor - Offset[PhaseOf[r]]) \div Cadence
       IN  IF AnchorNS(PhaseOf[r], n) < firstAnchor THEN n + 1 ELSE n]
  /\ UNCHANGED <<headerVars, ringVars, producerVars, alive, load, out>>

CursorSlotAnchor(r) == slotAnchor[r][Slot(target[r])]
CursorSlotData(r) == slotData[r][Slot(target[r])]

(* The acquire load ends the wait.  At the target anchor the row is copied, *)
(* in two halves, and the anchor is not looked at again; at a newer anchor *)
(* the row is left as it was, and the symbol is not reported as failed.    *)
LoadAnchor(r) ==
  /\ alive /\ open /\ ~Copying
  /\ load[r] = "due"
  /\ CursorSlotAnchor(r) >= target[r]
  /\ IF CursorSlotAnchor(r) = target[r]
       THEN /\ load' = [load EXCEPT ![r] = "copying"]
            /\ out' = [out EXCEPT ![r] = CursorSlotData(r)]
       ELSE /\ load' = [load EXCEPT ![r] = "skipped"]
            /\ UNCHANGED out
  /\ UNCHANGED <<headerVars, ringVars, producerVars, open, alive, target>>

LoadCopied(r) ==
  /\ alive
  /\ load[r] = "copying"
  /\ load' = [load EXCEPT ![r] = "loaded"]
  /\ out' = [out EXCEPT ![r] = IF CursorSlotData(r) = @ THEN @ ELSE Torn]
  /\ UNCHANGED <<headerVars, ringVars, producerVars, open, alive, target>>

(* hub.next(c_list) after the load of the phase's cursors. *)
NextCursors(p) ==
  /\ alive /\ open
  /\ RowsOf(p) # {}
  /\ \A r \in RowsOf(p) : load[r] \in {"loaded", "skipped"}
  /\ target' = [r \in Rows |-> IF PhaseOf[r] = p THEN target[r] + 1 ELSE target[r]]
  /\ load' = [r \in Rows |-> IF PhaseOf[r] = p THEN "due" ELSE load[r]]
  /\ UNCHANGED <<headerVars, ringVars, producerVars, open, alive, out>>

(* Fault: the cursor that is furthest ahead releases room for all. *)
CommitReadLatest ==
  /\ alive /\ open /\ ~Copying
  /\ \E r \in Rows :
       /\ \A q \in Rows : AnchorNS(PhaseOf[q], target[q])
                            <= AnchorNS(PhaseOf[r], target[r])
       /\ lastRead' = AnchorNS(PhaseOf[r], target[r])
  /\ pidSet' = TRUE
  /\ UNCHANGED <<firstAnchor, lastWritten, dropped, ringVars, producerVars,
                 consumerVars>>

(* commit_read(all_cursors): the least target anchor is released. *)
CommitRead ==
  /\ alive /\ open /\ ~Copying
  /\ \E r \in Rows :
       /\ \A q \in Rows : AnchorNS(PhaseOf[r], target[r])
                            <= AnchorNS(PhaseOf[q], target[q])
       /\ lastRead' = AnchorNS(PhaseOf[r], target[r])
  /\ pidSet' = TRUE
  /\ UNCHANGED <<firstAnchor, lastWritten, dropped, ringVars, producerVars,
                 consumerVars>>

(* The consumer raises, is killed or simply leaves. *)
ConsumerExit ==
  /\ ConsumerExits
  /\ alive
  /\ alive' = FALSE
  /\ UNCHANGED <<headerVars, ringVars, producerVars, open, target, load, out>>

Consumer ==
  \/ BeginAll
  \/ \E r \in Rows : LoadAnchor(r) \/ LoadCopied(r)
  \/ \E p \in Phases : NextCursors(p)
  \/ CommitRead \/ ConsumerExit

Next == Producer \/ Consumer

Spec == Init /\ [][Next]_vars

-----------------------------------------------------------------------------
(* The exporter is a consumer that drains a frame of every phase, one      *)
(* phase after the other and in each waiting until its frame is there, and *)
(* then releases all of them at once: a round.                             *)

(* Frames of the row passed, which is the number of its rounds. *)
Passed(r) == target[r] - Start[PhaseOf[r]]

RoundOver == \A q, r \in Rows : Passed(q) = Passed(r)

Released ==
  \/ \A r \in Rows : Passed(r) = 0
  \/ \E r \in Rows : lastRead = AnchorNS(PhaseOf[r], target[r])

(* The first phase that is not yet through with its frame of the round. *)
Turn(p) == \A q, r \in Rows : PhaseOf[r] = p =>
             /\ Passed(r) <= Passed(q)
             /\ PhaseOf[q] < p => Passed(r) < Passed(q)

Draining(r) == Turn(PhaseOf[r]) /\ (RoundOver => Released)

DrainRelease == RoundOver /\ ~Released /\ CommitRead

Drain ==
  \/ BeginAll
  \/ \E r \in Rows : (Draining(r) /\ LoadAnchor(r)) \/ LoadCopied(r)
  \/ \E p \in Phases : NextCursors(p)
  \/ DrainRelease

(* A producer that never gives up a wait. *)
Replaying == Producer /\ pc' # "stopped"
-----------------------------------------------------------------------------
(* Properties *)

(* Every word, counter and program position keeps its type. *)
TypeOK ==
  /\ firstAnchor \in Nat /\ lastRead \in Nat /\ lastWritten \in Nat
  /\ dropped \in Nat /\ pidSet \in BOOLEAN
  /\ slotAnchor \in [Rows -> [Slots -> Nat]]
  /\ slotData \in [Rows -> [Slots -> Nat \cup {Torn}]]
  /\ pc \in {"pick", "wait", "commit", "stopped", "closed"}
  /\ pFirst \in Nat /\ phaseNext \in [Phases -> Nat]
  /\ cur \in Phases
  /\ stage \in [Rows -> {"todo", "copying", "copied", "stored"}]
  /\ open \in BOOLEAN /\ alive \in BOOLEAN
  /\ target \in [Rows -> Nat]
  /\ load \in [Rows -> {"due", "copying", "loaded", "skipped"}]
  /\ out \in [Rows -> Nat \cup {Torn}]

(* Replay is lossless: no cursor ever finds its slot already taken by a    *)
(* later frame (the branch of _load_into_matrix that silently skips a row  *)
(* in replay mode is dead), however slowly the consumer reads, whichever   *)
(* phases the producer is gated on, and from the very first frame even if  *)
(* the consumer attaches late.                                             *)
NoOverrun ==
  \A r \in Rows :
    /\ load[r] # "skipped"
    /\ open /\ load[r] = "due" => CursorSlotAnchor(r) <= target[r]

(* The row a load hands out is wholly the row of the anchor the cursor     *)
(* asked for, although the anchor word is checked only before the copy.    *)
ExactRead ==
  \A r \in Rows : load[r] = "loaded" => out[r] = target[r]

(* The frames stand for a lossless channel: what the rings and cursors do  *)
(* is hand every frame over once, whole and in order.                      *)
Produced == [r \in Rows |->
  IF pc = "commit" /\ PhaseOf[r] = cur /\ stage[r] = "stored"
    THEN phaseNext[PhaseOf[r]] ELSE phaseNext[PhaseOf[r]] - 1]
Consumed == [r \in Rows |->
  IF load[r] \in {"loaded", "skipped"} THEN target[r] ELSE target[r] - 1]
Item == [r \in Rows |-> IF load[r] = "loaded" THEN out[r] ELSE -2]

Channel == INSTANCE FrameChannel WITH
  First <- [r \in Rows |-> Start[PhaseOf[r]]],
  produced <- Produced, consumed <- Consumed, item <- Item

ImplementsChannel == Channel!Spec

(* Every row of every frame for which each phase has a frame in its round  *)
(* is delivered: a producer that waits for room and an exporter that waits *)
(* for the next frame of one of its phases, with frames of others still to *)
(* release, never wait for each other.  It is stated of a wait without a   *)
(* timeout (WaitConsumerAdvance), so that only a release ends it.          *)
EveryFrameDelivered ==
  \A r \in Rows : \A n \in Start[PhaseOf[r]] .. LastIndex :
    (\A p \in Phases : Start[p] + n - Start[PhaseOf[r]] <= LastIndex) =>
      <>(load[r] = "loaded" /\ out[r] = n)
=============================================================================
