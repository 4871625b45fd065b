------------------------------ MODULE LiveCursor ------------------------------
(***************************************************************************)
(* A Python consumer (TickHubReader) of a live hub: one cursor on each row *)
(* of a phase, loaded together, advanced together, and realigned when the  *)
(* producer, which does not wait, has come round the ring, or when the     *)
(* daemon has been restarted.                                              *)
(*                                                                         *)
(* Source: python/tickhub/shm.py (begin_all, reconnect_if_needed,          *)
(* _load_into_matrix, next and rebegin, the answer of a consumer to        *)
(* LaggedAnchorError).  HeartbeatTimeoutError, which a load of a hub dead  *)
(* for three seconds raises first of all, changes nothing.                 *)
(***************************************************************************)
EXTENDS Recovery

CONSTANT Cursors        \* the rows the consumer follows, all of one phase

ASSUME CursorAssumption ==
  /\ Cursors \subseteq Rows /\ Cursors # {}
  /\ \A r, q \in Cursors : PhaseOf[r] = PhaseOf[q]

VARIABLES
  autoRealign,  \* TickHubReader._auto_realign
  opened,       \* begin_all has been called
  bootSeen,     \* TickHubReader._boot_id
  genSeen,      \* TickHubReader._generation
  entry,        \* the load's look at BootID: "due", "changed" or "done"
  target,       \* [Cursors -> index]: cursor.target_anchor_ns
  load,         \* [Cursors -> progress of the cursor in the current load]
  out           \* [Cursors -> what the load copied into out_matrix]

bootSeenVars == <<bootSeen, genSeen>>
cursorVars == <<autoRealign, opened, bootSeenVars, entry, target, load, out>>

CursorInit ==
  /\ autoRealign \in BOOLEAN
  /\ opened = FALSE
  /\ bootSeen = bootID /\ genSeen = generation /\ entry = "due"
  /\ target = [r \in Cursors |-> 0]
  /\ load = [r \in Cursors |-> "due"]
  /\ out = [r \in Cursors |-> Unset]

-----------------------------------------------------------------------------
PhaseLatest(r) == (lastWritten - Offset[PhaseOf[r]]) \div Cadence

(* get_latest_phase_anchor: before the first frame it is estimated from    *)
(* the wall clock, at or just before the anchor being waited for.          *)
LatestEstimates(r) ==
  IF lastWritten > 0 THEN {PhaseLatest(r)}
                     ELSE {phaseNext[PhaseOf[r]] - 1, phaseNext[PhaseOf[r]]}

BeginAll ==
  /\ ~opened
  /\ opened' = TRUE
  /\ \E r \in Cursors : \E n \in LatestEstimates(r) :
       target' = [q \in Cursors |-> n]
  /\ UNCHANGED <<autoRealign, bootSeenVars, entry, load, out>>

-----------------------------------------------------------------------------
(* reconnect_if_needed, at the start of every load.  A hub that boots is   *)
(* waited for, but for two seconds at most.                                *)
AtLoadStart == opened /\ entry = "due" /\ \A r \in Cursors : load[r] = "due"

SameBoot ==
  /\ AtLoadStart /\ bootID = bootSeen
  /\ entry' = "done"
  /\ UNCHANGED <<autoRealign, opened, bootSeenVars, target, load, out>>

NewBoot ==
  /\ AtLoadStart /\ bootID # bootSeen
  /\ bootSeen' = bootID
  /\ entry' = "changed"
  /\ UNCHANGED <<autoRealign, opened, genSeen, target, load, out>>

(* After a gap the cursors are set to the latest frame published, by which *)
(* the restarted hub may have published none yet.                          *)
Adopted(r) ==
  LET oldest == PhaseLatest(r) - (MaxFrames - 1)
  IN  IF lastWritten > 0 /\ (recMode \in {"cold", "gap"} \/ target[r] < oldest)
        THEN PhaseLatest(r) ELSE target[r]

AdoptRestart ==
  /\ entry = "changed"
  /\ genSeen' = generation
  /\ target' = [r \in Cursors |-> Adopted(r)]
  /\ entry' = "done"
  /\ UNCHANGED <<autoRealign, opened, bootSeen, load, out>>

-----------------------------------------------------------------------------
(* _load_into_matrix *)

Loading == \E r \in Cursors : load[r] \in {"wait", "copying"}
Ready == entry = "done" /\ ~Loading /\ \A r \in Cursors : load[r] # "lagged"

(* Fault: the ring is taken to hold one frame less than it does. *)
OldestValidEarly(r) == PhaseLatest(r) - (MaxFrames - 2)

OldestValid(r) == PhaseLatest(r) - (MaxFrames - 1)
Lagging(r) == lastWritten > 0 /\ target[r] < OldestValid(r)

(* LaggedAnchorError abandons the load of all cursors. *)
RaiseLagged ==
  /\ load' = [r \in Cursors |-> "lagged"]
  /\ entry' = "due"
  /\ UNCHANGED target

(* The next cursor of the load: realigned to the latest frame if its own   *)
(* has been overwritten.                                                   *)
StartCursor(r) ==
  /\ Ready /\ load[r] = "due"
  /\ IF Lagging(r) /\ ~autoRealign
       THEN RaiseLagged
       ELSE /\ target' = [target EXCEPT ![r] = IF Lagging(r) THEN PhaseLatest(r) ELSE @]
            /\ load' = [load EXCEPT ![r] = "wait"]
            /\ UNCHANGED entry
  /\ UNCHANGED <<autoRealign, opened, bootSeenVars, out>>

CursorAnchor(r) == slotAnchor[r][Slot(target[r])]
CursorData(r) == slotData[r][Slot(target[r])]

(* The acquire load finds the target: the row is copied, from now on or    *)
(* later, and the anchor is not looked at again.                           *)
AnchorFound(r) ==
  /\ load[r] = "wait"
  /\ CursorAnchor(r) = target[r]
  /\ load' = [load EXCEPT ![r] = "copying"]
  /\ out' = [out EXCEPT ![r] = CursorData(r)]
  /\ UNCHANGED <<autoRealign, opened, bootSeenVars, entry, target>>

RowCopied(r) ==
  /\ load[r] = "copying"
  /\ load' = [load EXCEPT ![r] = "loaded"]
  /\ \E v \in {CursorData(r), IF CursorData(r) = out[r] THEN out[r] ELSE Torn} :
       out' = [out EXCEPT ![r] = v]
  /\ UNCHANGED <<autoRealign, opened, bootSeenVars, entry, target>>

(* The slot already holds a later frame: the cursor moves to that one and  *)
(* goes on waiting, or the load is abandoned.                              *)
AnchorOvertaken(r) ==
  /\ load[r] = "wait"
  /\ CursorAnchor(r) > target[r]
  /\ IF autoRealign
       THEN target' = [target EXCEPT ![r] = CursorAnchor(r)] /\ UNCHANGED <<load, entry>>
       ELSE RaiseLagged
  /\ UNCHANGED <<autoRealign, opened, bootSeenVars, out>>

(* timeout_ms is over, or the hub is closed: the symbol is reported as     *)
(* failed and the load goes on with the next one.                          *)
AnchorMissing(r) ==
  /\ load[r] = "wait"
  /\ CursorAnchor(r) < target[r]
  /\ load' = [load EXCEPT ![r] = "failed"]
  /\ UNCHANGED <<autoRealign, opened, bootSeenVars, entry, target, out>>

(* hub.next(cursors); LastIndex bounds how far a consumer that runs into   *)
(* timeouts gets ahead.                                                    *)
NextAll ==
  /\ \A r \in Cursors : load[r] \in {"loaded", "failed"}
  /\ \A r \in Cursors : target[r] <= LastIndex
  /\ target' = [r \in Cursors |-> target[r] + 1]
  /\ load' = [r \in Cursors |-> "due"]
  /\ entry' = "due"
  /\ UNCHANGED <<autoRealign, opened, bootSeenVars, out>>

(* rebegin, cursor by cursor, after LaggedAnchorError: the next frame of   *)
(* the phase's lattice.                                                    *)
Rebegin(r) ==
  /\ load[r] = "lagged"
  /\ target' = [target EXCEPT ![r] = PhaseLatest(r) + 1]
  /\ load' = [load EXCEPT ![r] = "due"]
  /\ UNCHANGED <<autoRealign, opened, bootSeenVars, entry, out>>

Cursor ==
  \/ BeginAll \/ SameBoot \/ NewBoot \/ AdoptRestart \/ NextAll
  \/ \E r \in Cursors : StartCursor(r) \/ AnchorFound(r) \/ RowCopied(r)
                        \/ AnchorOvertaken(r) \/ AnchorMissing(r) \/ Rebegin(r)

-----------------------------------------------------------------------------
CursorTypeOK ==
  /\ autoRealign \in BOOLEAN /\ opened \in BOOLEAN
  /\ bootSeen \in Nat /\ genSeen \in Nat /\ entry \in {"due", "changed", "done"}
  /\ target \in [Cursors -> Int]
  /\ load \in [Cursors -> {"due", "wait", "copying", "loaded", "failed", "lagged"}]
  /\ out \in [Cursors -> Nat \cup {Torn}]

(* A row a load hands out is the row of the cursor's anchor, or the        *)
(* producer has come round to that very slot in the meantime: within one   *)
(* lap the single anchor check before the copy is enough.                  *)
ExactUnlessLapped ==
  \A r \in Cursors : load[r] = "loaded" =>
    out[r] = target[r] \/ Lapped(r, target[r])

(* The producer has come round to the slot of frame n, or would have but   *)
(* for a restart that passed over the frame due there.                     *)
OutOfRing(r, n) == Lapped(r, n) \/ <<PhaseOf[r], n + MaxFrames>> \in passedOver

(* No bar is scored twice and none is given up that could be had: but for  *)
(* the restarts a consumer learns of, a cursor never goes back, and passes *)
(* over a frame, or a load is abandoned, only when the frame some cursor   *)
(* was waiting for is out of the ring.                                     *)
LossMeansLapped ==
  [][opened /\ entry # "changed" =>
       /\ \A r \in Cursors : target'[r] >= target[r]
       /\ \A r \in Cursors : autoRealign /\ target'[r] > target[r] + 1
                               => OutOfRing(r, target[r])
       /\ \A r \in Cursors : load[r] # "lagged" /\ load'[r] = "lagged"
                               => \E q \in Cursors : OutOfRing(q, target[q])]_cursorVars

(* A consumer that has seen a BootID acts on the recovery mode of that     *)
(* start or of a later one, never on its predecessor's.                    *)
ModeOfBoot == entry = "done" => genSeen >= bootSeen
=============================================================================
