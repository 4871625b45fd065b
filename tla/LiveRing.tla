------------------------------- MODULE LiveRing -------------------------------
(***************************************************************************)
(* The frame rings of a live hub as its producer writes them: the daemon   *)
(* closes the phases in anchor order and commits each frame with           *)
(* CommitPhaseFrame and CommitFrameFinalize.  In live mode                 *)
(* WaitConsumerAdvance returns at once: the producer waits for nobody.     *)
(*                                                                         *)
(* Sources: pkg/shm/producer.go, pkg/project/projector.go (closePhase) and *)
(* cmd/tickhub/daemon.go (StatusClosed).  The modules LiveCursor,          *)
(* LiveRecorder and LiveRelay extend this one with a reader each.          *)
(*                                                                         *)
(* An anchor is a phase p and a lattice index n, as in ReplayFlow; a row's *)
(* payload is the index it was computed for, or Torn.                      *)
(***************************************************************************)
EXTENDS Integers

CONSTANTS
  Phases,       \* the phases of the hub, by their index
  Offset,       \* [Phases -> 0 .. Cadence-1]: offset_ms of the phase
  Cadence,      \* cadence_interval
  MaxFrames,    \* ring slots of each phase
  Rows,         \* symbol rows over all phases
  PhaseOf,      \* [Rows -> Phases]
  StartNS,      \* the instants at which the hub may be started first
  LastIndex     \* bound: index of the last frame of each phase

ASSUME LiveRingAssumption ==
  /\ MaxFrames \in Nat \ {0} /\ Cadence \in Nat \ {0}
  /\ Phases \subseteq Nat /\ Phases # {}
  /\ Offset \in [Phases -> 0 .. Cadence - 1]
  /\ PhaseOf \in [Rows -> Phases]
  /\ StartNS \subseteq Nat /\ \A now \in StartNS : now >= Cadence
  /\ LastIndex \in Nat

AnchorNS(p, n) == n * Cadence + Offset[p]

(* SetStartAnchor: the first anchor of the lattice strictly after an       *)
(* instant, as an index.                                                   *)
FirstAfter(p, now) == (now - Offset[p]) \div Cadence + 1

Slot(n) == n % MaxFrames
RowsOf(p) == {r \in Rows : PhaseOf[r] = p}
Slots == 0 .. MaxFrames - 1

Torn == -1      \* a row of which only some floats are the new ones
Unset == 0      \* an anchor word of the mapped file that was never stored

VARIABLES
  firstAnchor,  \* header.FirstAnchorNS
  lastWritten,  \* header.LastWrittenAnchorNS
  status,       \* header.Status: "running", "closed" or "booting"
  slotAnchor,   \* [Rows -> [Slots -> index]]: symbol_anchor_ns words
  slotData,     \* [Rows -> [Slots -> index or Torn]]: feature rows
  frameAnchor,  \* [Phases -> [Slots -> index]]: FrameHeader.AnchorNS words
  phaseNext,    \* Projector.phaseNextAnchor, as an index
  committing,   \* a frame is being committed
  cur,          \* the phase of the latest commit
  stage,        \* [Rows -> progress of the row in the current commit]
  newest,       \* history: [Rows -> index of the newest frame begun]
  passedOver    \* history: the frames due before a start of the hub, which
                \* it passed over

historyVars == <<newest, passedOver>>
liveVars == <<firstAnchor, lastWritten, status, slotAnchor, slotData,
              frameAnchor, phaseNext, committing, cur, stage, historyVars>>

LiveInit ==
  /\ firstAnchor = 0 /\ lastWritten = 0 /\ status = "running"
  /\ slotAnchor = [r \in Rows |-> [s \in Slots |-> Unset]]
  /\ slotData = [r \in Rows |-> [s \in Slots |-> Unset]]
  /\ frameAnchor = [p \in Phases |-> [s \in Slots |-> Unset]]
  /\ \E now \in StartNS : phaseNext = [p \in Phases |-> FirstAfter(p, now)]
  /\ committing = FALSE /\ cur = CHOOSE p \in Phases : TRUE
  /\ stage = [r \in Rows |-> "todo"]
  /\ newest = [r \in Rows |-> Unset]
  /\ passedOver = UNION {{p} \X (0 .. phaseNext[p] - 1) : p \in Phases}

Closed == status = "closed"

-----------------------------------------------------------------------------
NextAnchorNS(p) == AnchorNS(p, phaseNext[p])

(* The tick loop closes the phase whose anchor is due first. *)
ClosePhase ==
  \E p \in Phases :
    /\ ~committing /\ ~Closed
    /\ phaseNext[p] <= LastIndex
    /\ \A q \in Phases : NextAnchorNS(p) <= NextAnchorNS(q)
    /\ committing' = TRUE /\ cur' = p
    /\ stage' = [r \in Rows |-> "todo"]
    /\ UNCHANGED <<firstAnchor, lastWritten, status, slotAnchor, slotData,
                   frameAnchor, phaseNext, historyVars>>

(* copy(featSlice, features): the matrix is overwritten row by row, each   *)
(* in two halves.                                                          *)
CopyFirstHalf(r) ==
  /\ committing /\ cur = PhaseOf[r] /\ stage[r] = "todo"
  /\ stage' = [stage EXCEPT ![r] = "copying"]
  /\ slotData' = [slotData EXCEPT ![r][Slot(phaseNext[cur])] = Torn]
  /\ newest' = [newest EXCEPT ![r] = phaseNext[cur]]
  /\ UNCHANGED <<firstAnchor, lastWritten, status, slotAnchor, frameAnchor,
                 phaseNext, committing, cur, passedOver>>

CopySecondHalf(r) ==
  /\ committing /\ cur = PhaseOf[r] /\ stage[r] = "copying"
  /\ stage' = [stage EXCEPT ![r] = "copied"]
  /\ slotData' = [slotData EXCEPT ![r][Slot(phaseNext[cur])] = phaseNext[cur]]
  /\ UNCHANGED <<firstAnchor, lastWritten, status, slotAnchor, frameAnchor,
                 phaseNext, committing, cur, historyVars>>

(* Fault: the anchors are stored before the features are copied. *)
AnchorBeforeRow(r) ==
  /\ committing /\ cur = PhaseOf[r] /\ stage[r] = "copying"
  /\ stage' = [stage EXCEPT ![r] = "stored"]
  /\ slotAnchor' = [slotAnchor EXCEPT ![r][Slot(phaseNext[cur])] = phaseNext[cur]]
  /\ UNCHANGED <<firstAnchor, lastWritten, status, slotData, frameAnchor,
                 phaseNext, committing, cur, historyVars>>

(* Store-release of the row's anchor, after the whole matrix. *)
StoreAnchor(r) ==
  /\ committing /\ cur = PhaseOf[r] /\ stage[r] = "copied"
  /\ \A q \in RowsOf(cur) : stage[q] \in {"copied", "stored"}
  /\ stage' = [stage EXCEPT ![r] = "stored"]
  /\ slotAnchor' = [slotAnchor EXCEPT ![r][Slot(phaseNext[cur])] = phaseNext[cur]]
  /\ UNCHANGED <<firstAnchor, lastWritten, status, slotData, frameAnchor,
                 phaseNext, committing, cur, historyVars>>

AllStored == committing /\ \A r \in RowsOf(cur) : stage[r] = "stored"
FrameStored == AllStored /\ frameAnchor[cur][Slot(phaseNext[cur])] = phaseNext[cur]

(* Store-release of FrameHeader.AnchorNS, last of all. *)
StoreFrameAnchor ==
  /\ AllStored /\ ~FrameStored
  /\ frameAnchor' = [frameAnchor EXCEPT ![cur][Slot(phaseNext[cur])] = phaseNext[cur]]
  /\ UNCHANGED <<firstAnchor, lastWritten, status, slotAnchor, slotData,
                 phaseNext, committing, cur, stage, historyVars>>

(* CommitFrameFinalize stores FirstAnchorNS once, and then, at every frame, *)
(* LastWrittenAnchorNS.                                                    *)
StoreFirstAnchor ==
  /\ FrameStored
  /\ firstAnchor = 0
  /\ firstAnchor' = NextAnchorNS(cur)
  /\ UNCHANGED <<lastWritten, status, slotAnchor, slotData, frameAnchor,
                 phaseNext, committing, cur, stage, historyVars>>

CommitFrameFinalize ==
  /\ FrameStored
  /\ firstAnchor # 0
  /\ lastWritten' = NextAnchorNS(cur)
  /\ phaseNext' = [phaseNext EXCEPT ![cur] = @ + 1]
  /\ committing' = FALSE
  /\ UNCHANGED <<firstAnchor, status, slotAnchor, slotData, frameAnchor, cur,
                 stage, historyVars>>

(* The daemon is told to stop, between two ticks. *)
CloseHub ==
  /\ ~committing /\ ~Closed
  /\ status' = "closed"
  /\ UNCHANGED <<firstAnchor, lastWritten, slotAnchor, slotData, frameAnchor,
                 phaseNext, committing, cur, stage, historyVars>>

-----------------------------------------------------------------------------
(* The producer has come round to the slot of frame n of row r. *)
Lapped(r, n) == newest[r] >= n + MaxFrames

LiveTypeOK ==
  /\ firstAnchor \in Nat /\ lastWritten \in Nat
  /\ status \in {"running", "closed", "booting"}
  /\ slotAnchor \in [Rows -> [Slots -> Nat]]
  /\ slotData \in [Rows -> [Slots -> Nat \cup {Torn}]]
  /\ frameAnchor \in [Phases -> [Slots -> Nat]]
  /\ phaseNext \in [Phases -> Nat]
  /\ committing \in BOOLEAN /\ cur \in Phases
  /\ stage \in [Rows -> {"todo", "copying", "copied", "stored"}]
  /\ newest \in [Rows -> Nat] /\ passedOver \subseteq Phases \X Nat
=============================================================================
