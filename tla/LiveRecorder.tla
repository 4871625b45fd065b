----------------------------- MODULE LiveRecorder -----------------------------
(***************************************************************************)
(* The recorder (tickhub record): a process that polls LastWrittenAnchorNS *)
(* and, when it has advanced, appends one row per tracked symbol to a      *)
(* batch which it flushes to one Parquet file per day.  It may be stopped, *)
(* or killed, and started again.                                           *)
(*                                                                         *)
(* Source: pkg/recorder/recorder.go (NewRecorder, PollOnce,                *)
(* targetFilePath, flushLocked, Close).  The seqlock read of the symbol's  *)
(* snapshot, which may fail, is SnapshotSeqLock's subject; here it fails   *)
(* or it does not.  BatchSize and FlushInterval decide when a flush is     *)
(* due: here at any poll.  Rows are counted, not kept.                     *)
(***************************************************************************)
EXTENDS LiveRing, FiniteSets

CONSTANTS
  TradingHours, \* the anchors within regular trading hours
  RthOnly,      \* cfg.RTHOnly
  DayLength,    \* nanoseconds of a day, in the unit of Cadence
  MaxBusy,      \* bound: snapshots that are never stable
  MaxReopens    \* bound: recorders started after the first

ASSUME RecorderAssumption ==
  DayLength \in Nat \ {0} /\ RthOnly \in BOOLEAN /\ MaxBusy \in Nat
  /\ MaxReopens \in Nat

Day(a) == a \div DayLength
Days == 0 .. Day((LastIndex + 1) * Cadence)
NoFile == -1

VARIABLES
  lastAnchor,   \* Recorder.lastAnchor
  polled,       \* anchorNS of the poll in progress, or 0
  todo,         \* the symbols this poll has yet to record
  copying,      \* the row whose features are being copied, as a set
  features,     \* [Rows -> features of the symbol's row in this poll: an index, Torn or Unset]
  batch,        \* length of Recorder.buffer
  batchDay,     \* day of buffer[0]
  path,         \* day of currentPath while a writer is open, or NoFile
  file,         \* [Days -> rows a reader of the day's file finds]
  totalRows,    \* Stats.TotalRows
  busy,         \* number of snapshots that were never stable
  process,      \* "up", "closed" or "killed"
  reopens,      \* number of recorders started after the first
  flushed,      \* history: [Days -> rows this process has flushed]
  found         \* history: [Days -> rows in the file when it was started]

pollVars == <<lastAnchor, polled, todo, copying, features>>
batchVars == <<batch, batchDay, path, file, flushed>>
statVars == <<totalRows, busy>>
processVars == <<process, reopens, found>>
recorderVars == <<pollVars, batchVars, statVars, processVars>>

RecorderInit ==
  /\ lastAnchor = 0 /\ polled = 0 /\ todo = {} /\ copying = {}
  /\ features = [r \in Rows |-> Unset]
  /\ batch = 0 /\ batchDay = 0 /\ path = NoFile
  /\ file = [d \in Days |-> 0] /\ flushed = file /\ found = file
  /\ totalRows = 0 /\ busy = 0
  /\ process = "up" /\ reopens = 0

-----------------------------------------------------------------------------
(* Fault: every flush opens the file anew. *)
FlushToNewFile ==
  IF batch = 0 THEN UNCHANGED batchVars ELSE
    /\ file' = [file EXCEPT ![batchDay] = batch]
    /\ path' = batchDay
    /\ flushed' = [flushed EXCEPT ![batchDay] = @ + batch]
    /\ batch' = 0
    /\ UNCHANGED batchDay

(* flushLocked: the whole batch goes to the file of its first row's day,   *)
(* which is opened with O_TRUNC unless it is the one already open.         *)
Flush ==
  IF batch = 0 THEN UNCHANGED batchVars ELSE
    /\ file' = [file EXCEPT ![batchDay] = batch + IF path = batchDay THEN @ ELSE 0]
    /\ path' = batchDay
    /\ flushed' = [flushed EXCEPT ![batchDay] = @ + batch]
    /\ batch' = 0
    /\ UNCHANGED batchDay

Up == process = "up"
Polling == polled # 0 /\ Up

(* A poll without a new anchor flushes when FlushInterval is over. *)
PollIdle ==
  /\ Up /\ ~Polling
  /\ lastWritten = 0 \/ lastWritten <= lastAnchor
  /\ batch > 0
  /\ Flush
  /\ UNCHANGED <<pollVars, statVars, processVars>>

NewAnchor == Up /\ ~Polling /\ lastWritten # 0 /\ lastWritten > lastAnchor

(* Outside trading hours the batch is flushed and the anchor passed over. *)
PollOutsideHours ==
  /\ NewAnchor
  /\ RthOnly /\ lastWritten \notin TradingHours
  /\ Flush
  /\ lastAnchor' = lastWritten
  /\ UNCHANGED <<polled, todo, copying, features, totalRows, busy, processVars>>

PollStart ==
  /\ NewAnchor
  /\ RthOnly => lastWritten \in TradingHours
  /\ polled' = lastWritten
  /\ todo' = Rows
  /\ UNCHANGED <<lastAnchor, copying, features, batchVars, totalRows, busy, processVars>>

(* The snapshot is never stable in 1000 spins: no row for this symbol. *)
SnapshotBusy(r) ==
  /\ Polling /\ copying = {} /\ r \in todo
  /\ busy < MaxBusy
  /\ busy' = busy + 1
  /\ todo' = todo \ {r}
  /\ features' = [features EXCEPT ![r] = Unset]
  /\ UNCHANGED <<lastAnchor, polled, copying, batchVars, totalRows,
                 processVars>>

PolledSlot == (polled \div Cadence) % MaxFrames

(* Fault: the row's slot is copied without a look at the frame's anchor. *)
FrameAlwaysReady(r) == TRUE

(* The slot holds a frame of the polled anchor, of all nanoseconds: a row  *)
(* of another phase is recorded without features.                          *)
FrameReady(r) ==
  LET p == PhaseOf[r]
      n == frameAnchor[p][PolledSlot]
  IN  n # Unset /\ AnchorNS(p, n) = polled

AppendRow(r) ==
  /\ todo' = todo \ {r}
  /\ batch' = batch + 1
  /\ batchDay' = IF batch = 0 THEN Day(polled) ELSE batchDay
  /\ totalRows' = totalRows + 1
  /\ UNCHANGED <<path, file, flushed>>

RecordRow(r) ==
  /\ Polling /\ copying = {} /\ r \in todo
  /\ IF FrameReady(r)
       THEN /\ copying' = {r}
            /\ features' = [features EXCEPT ![r] = slotData[r][PolledSlot]]
            /\ UNCHANGED <<todo, batchVars, totalRows>>
       ELSE /\ features' = [features EXCEPT ![r] = Unset]
            /\ AppendRow(r)
            /\ UNCHANGED copying
  /\ UNCHANGED <<lastAnchor, polled, busy, processVars>>

(* The rest of copy(features, featSlice). *)
FinishRow(r) ==
  /\ Polling /\ r \in copying
  /\ LET now == slotData[r][PolledSlot]
     IN  \E v \in {now, IF now = features[r] THEN now ELSE Torn} :
           features' = [features EXCEPT ![r] = v]
  /\ copying' = {}
  /\ AppendRow(r)
  /\ UNCHANGED <<lastAnchor, polled, busy, processVars>>

PollEnd ==
  /\ Polling /\ todo = {}
  /\ lastAnchor' = polled
  /\ polled' = 0
  /\ features' = [r \in Rows |-> Unset]
  /\ Flush \/ UNCHANGED batchVars
  /\ UNCHANGED <<todo, copying, statVars, processVars>>

(* Close takes the mutex PollOnce holds: it runs between two polls.        *)
CloseRecorder ==
  /\ Up /\ polled = 0
  /\ Flush
  /\ process' = "closed"
  /\ UNCHANGED <<pollVars, statVars, reopens, found>>

(* A Parquet file is read from its footer, which Close writes: what a      *)
(* killed recorder has flushed to the file it had open cannot be read.     *)
KillRecorder ==
  /\ Up
  /\ reopens < MaxReopens
  /\ process' = "killed"
  /\ file' = [d \in Days |-> IF d = path THEN 0 ELSE file[d]]
  /\ UNCHANGED <<pollVars, batch, batchDay, path, flushed, statVars, reopens,
                 found>>

(* NewRecorder: everything but the files is new. *)
ReopenRecorder ==
  /\ ~Up
  /\ reopens < MaxReopens
  /\ process' = "up" /\ reopens' = reopens + 1
  /\ found' = file /\ flushed' = [d \in Days |-> 0]
  /\ lastAnchor' = 0 /\ polled' = 0 /\ todo' = {} /\ copying' = {}
  /\ features' = [r \in Rows |-> Unset]
  /\ batch' = 0 /\ batchDay' = 0 /\ path' = NoFile
  /\ totalRows' = 0
  /\ UNCHANGED <<file, busy>>

Recorder ==
  \/ PollIdle \/ PollOutsideHours \/ PollStart \/ PollEnd
  \/ CloseRecorder \/ KillRecorder \/ ReopenRecorder
  \/ \E r \in Rows : SnapshotBusy(r) \/ RecordRow(r) \/ FinishRow(r)

-----------------------------------------------------------------------------
RecorderTypeOK ==
  /\ lastAnchor \in Nat /\ polled \in Nat
  /\ todo \subseteq Rows /\ copying \subseteq Rows
  /\ features \in [Rows -> Nat \cup {Torn}]
  /\ batch \in Nat /\ batchDay \in Days /\ path \in Days \cup {NoFile}
  /\ {file, flushed, found} \subseteq [Days -> Nat]
  /\ totalRows \in Nat /\ busy \in 0 .. MaxBusy
  /\ process \in {"up", "closed", "killed"} /\ reopens \in 0 .. MaxReopens

Flushed == LET sum[d \in Days] == flushed[d] + IF d = 0 THEN 0 ELSE sum[d - 1]
           IN  sum[Day((LastIndex + 1) * Cadence)]

(* No flush of a recorder destroys what it flushed before, although each   *)
(* first flush to a path truncates it, and Close leaves no row behind.     *)
(* What an earlier recorder wrote is lost with the new one's first flush   *)
(* to the same day, and not before.                                        *)
NothingTruncated ==
  /\ process # "killed" =>
       \A d \in Days : file[d] = IF flushed[d] > 0 THEN flushed[d] ELSE found[d]
  /\ process = "closed" => Flushed = totalRows

(* A recorded row carries the features of its own anchor, or none, or the  *)
(* producer has come round to the slot since the poll began.               *)
FeaturesOfAnchor ==
  \A r \in Rows : Polling /\ r \notin todo \cup copying /\ features[r] # Unset =>
    \/ AnchorNS(PhaseOf[r], features[r]) = polled
    \/ Lapped(r, polled \div Cadence)
=============================================================================
