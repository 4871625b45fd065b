---------------------------- MODULE SnapshotSeqLock ----------------------------
(***************************************************************************)
(* The SeqLock-protected cells of one symbol in the shared segment: the    *)
(* top-of-book snapshot and the microstructure snapshot.  One writer, the  *)
(* live projector of the daemon, which may be killed and warm-restarted on *)
(* the same segment; any number of lock-free readers: TickHubReader        *)
(* snapshot() calls and the connections of the relay server, which look at *)
(* the cells when an anchor is due and once more when the hub is closed.   *)
(*                                                                         *)
(* Sources: pkg/shm/producer.go (WriteSnapshot, WriteMicroSnapshot,        *)
(* CreateProducerWithRecovery), pkg/project/projector.go (updateSnapshot), *)
(* python/tickhub/shm.py (snapshot), pkg/relay/server.go                   *)
(* (readSnapshotSeqLock, handleConn).                                      *)
(*                                                                         *)
(* Every field write and field read is a step of its own, in any order     *)
(* between the two accesses of the sequence word: the fields are plain     *)
(* memory that Go, CPython and the processor may access in any order       *)
(* there.  The value of a field is the number of the update it is from.    *)
(* Of the frames only the last anchor matters here; it is counted in       *)
(* cadences from the first.                                                *)
(***************************************************************************)
EXTENDS Integers

CONSTANTS
  Fields,         \* the data words of a cell
  Pythons,        \* processes calling TickHubReader.snapshot
  Relays,         \* relay server connections
  MaxTries,       \* 100 in snapshot(), 1000 in readSnapshotSeqLock
  MaxUpdates,     \* bound: updates written
  RingFrames,     \* header.MaxFrames
  MaxAnchors,     \* bound: anchors committed
  CrashInUpdate   \* TRUE: the daemon may be killed inside an update

ASSUME SeqLockAssumption ==
  /\ Fields # {}
  /\ Pythons \cap Relays = {}
  /\ MaxTries \in Nat \ {0}
  /\ MaxUpdates \in Nat
  /\ RingFrames \in Nat /\ MaxAnchors \in Nat
  /\ CrashInUpdate \in BOOLEAN

Cells == {"snap", "micro"}
Readers == Pythons \cup Relays
NoRow == [f \in {} |-> 0]   \* nothing read yet
NoSeq == -1

VARIABLES
  seq,     \* [Cells -> Nat]: SeqLockSeq
  mem,     \* [Cells -> [Fields -> update]]
  ver,     \* number of the last update begun
  wpc,     \* "idle", the cell being written, "mid" between them, "dead",
           \* or "closed": header.Status is StatusClosed
  wleft,   \* fields the writer has still to store
  last,    \* header.LastWrittenAnchorNS, 0 before the first
  covered, \* history: the last update begun before the last anchor
  rpc,     \* [Readers -> "idle", "try", "copy", "fallback"; of a relay also
           \* "status" and "ended"]
  rcell,   \* [Readers -> the cell being read]
  rseq,    \* [Readers -> seq1, the sequence the attempt began with]
  rbuf,    \* [Readers -> [Fields -> update]]: fields copied
  rleft,   \* [Readers -> fields still to copy]
  tries,   \* [Readers -> failed attempts on this cell]
  got,     \* [Readers -> [Cells -> row or NoRow]]: returned, or last sent
  gotSeq,  \* [Readers -> [Cells -> sequence of that row or NoSeq]]
  next,    \* [Relays -> Nat]: nextAnchor, 0 until there is one
  final    \* [Relays -> BOOLEAN]: the hub is closed, this poll is the last

cellVars == <<seq, mem>>
anchorVars == <<last, covered>>
writerVars == <<ver, wpc, wleft, anchorVars>>
relayVars == <<next, final>>
readerVars == <<rpc, rcell, rseq, rbuf, rleft, tries, got, gotSeq, relayVars>>
vars == <<cellVars, writerVars, readerVars>>

Init ==
  /\ seq = [c \in Cells |-> 0]
  /\ mem = [c \in Cells |-> [f \in Fields |-> 0]]
  /\ ver = 0 /\ wpc = "idle" /\ wleft = {}
  /\ last = 0 /\ covered = 0
  /\ rpc = [r \in Readers |-> "idle"]
  /\ rcell = [r \in Readers |-> "snap"]
  /\ rseq = [r \in Readers |-> 0]
  /\ rbuf = [r \in Readers |-> [f \in Fields |-> 0]]
  /\ rleft = [r \in Readers |-> {}]
  /\ tries = [r \in Readers |-> 0]
  /\ got = [r \in Readers |-> [c \in Cells |-> NoRow]]
  /\ gotSeq = [r \in Readers |-> [c \in Cells |-> NoSeq]]
  /\ next = [r \in Relays |-> 0]
  /\ final = [r \in Relays |-> FALSE]

-----------------------------------------------------------------------------
(* The writer *)

(* atomic.AddUint64(&target.SeqLockSeq, 1).  A tick updates both cells,    *)
(* the quote cell first; the heartbeat of Flush only the micro cell.       *)
BeginWrite(c) ==
  /\ \/ wpc = "idle" /\ ver < MaxUpdates /\ ver' = ver + 1
     \/ wpc = "mid" /\ c = "micro" /\ ver' = ver
  /\ seq' = [seq EXCEPT ![c] = @ + 1]
  /\ wpc' = c
  /\ wleft' = Fields
  /\ UNCHANGED <<mem, anchorVars, readerVars>>

WriteField(f) ==
  /\ wpc \in Cells
  /\ f \in wleft
  /\ mem' = [mem EXCEPT ![wpc][f] = ver]
  /\ wleft' = wleft \ {f}
  /\ UNCHANGED <<seq, ver, wpc, anchorVars, readerVars>>

(* Fault: the micro cell of a tick is left to the heartbeat. *)
EndWriteQuoteOnly ==
  /\ wpc \in Cells
  /\ wleft = {}
  /\ seq' = [seq EXCEPT ![wpc] = @ + 1]
  /\ wpc' = "idle"
  /\ UNCHANGED <<mem, ver, wleft, anchorVars, readerVars>>

(* atomic.StoreUint64(&target.SeqLockSeq, seq+1) *)
EndWrite ==
  /\ wpc \in Cells
  /\ wleft = {}
  /\ seq' = [seq EXCEPT ![wpc] = @ + 1]
  /\ wpc' = IF wpc = "snap" THEN "mid" ELSE "idle"
  /\ UNCHANGED <<mem, ver, wleft, anchorVars, readerVars>>

(* CommitFrameFinalize, between two updates: the tick loop and the flush   *)
(* that close phases are the ones that update the cells.                   *)
CommitAnchor ==
  /\ wpc = "idle"
  /\ last < MaxAnchors
  /\ last' = last + 1
  /\ covered' = ver
  /\ UNCHANGED <<cellVars, ver, wpc, wleft, readerVars>>

(* The orderly end of the main loop.  Unless the daemon was told not to,   *)
(* it unlinks the segment then, and nobody writes this one any more.       *)
CloseHub ==
  /\ wpc = "idle"
  /\ wpc' = "closed"
  /\ UNCHANGED <<cellVars, ver, wleft, anchorVars, readerVars>>

Crash ==
  /\ wpc \notin {"dead", "closed"}
  /\ wpc = "idle" \/ CrashInUpdate
  /\ wpc' = "dead"
  /\ wleft' = {}
  /\ UNCHANGED <<cellVars, ver, anchorVars, readerVars>>

(* Warm recovery attaches to the segment and leaves the cells as they are. *)
WarmRestart ==
  /\ wpc = "dead"
  /\ wpc' = "idle"
  /\ UNCHANGED <<cellVars, ver, wleft, anchorVars, readerVars>>

Writer == \/ \E c \in Cells : BeginWrite(c)
          \/ \E f \in Fields : WriteField(f)
          \/ EndWrite \/ CommitAnchor \/ CloseHub \/ Crash \/ WarmRestart

-----------------------------------------------------------------------------
(* The readers *)

(* The reader turns to the first of the two cells. *)
StartReading(r) ==
  /\ rpc' = [rpc EXCEPT ![r] = "try"]
  /\ rcell' = [rcell EXCEPT ![r] = "snap"]
  /\ tries' = [tries EXCEPT ![r] = 0]

(* A process calls snapshot(). *)
Call(r) ==
  /\ r \in Pythons
  /\ rpc[r] = "idle"
  /\ StartReading(r)
  /\ got' = [got EXCEPT ![r] = [c \in Cells |-> NoRow]]
  /\ gotSeq' = [gotSeq EXCEPT ![r] = [c \in Cells |-> NoSeq]]
  /\ UNCHANGED <<cellVars, writerVars, relayVars, rseq, rbuf, rleft>>

(* A connection waits for a first anchor.  It is served from the last one, *)
(* or from the first, if the server is configured so (FromStart).          *)
SeeFirstAnchor(r) ==
  /\ r \in Relays
  /\ rpc[r] = "idle" /\ next[r] = 0
  /\ last > 0
  /\ \E n \in {1, last} : next' = [next EXCEPT ![r] = n]
  /\ UNCHANGED <<cellVars, writerVars, final, rpc, rcell, rseq, rbuf, rleft,
                 tries, got, gotSeq>>

(* The oldest anchor the relay still sends, or n if that is newer. *)
NotOverrun(n) == IF n < last - (RingFrames - 2) THEN last - (RingFrames - 2) ELSE n

(* The loop's first load.  The cells are read only if an anchor is due.    *)
LoadLast(r) ==
  /\ r \in Relays
  /\ rpc[r] = "idle" /\ next[r] > 0
  /\ IF next[r] <= last
       THEN /\ next' = [next EXCEPT ![r] = NotOverrun(@)]
            /\ StartReading(r)
       ELSE /\ rpc' = [rpc EXCEPT ![r] = "status"]
            /\ UNCHANGED <<next, rcell, tries>>
  /\ UNCHANGED <<cellVars, writerVars, final, rseq, rbuf, rleft, got, gotSeq>>


(* The status, loaded after the last anchor: of a closed hub the cells are *)
(* read once more.                                                         *)
TestStatus(r) ==
  /\ r \in Relays
  /\ rpc[r] = "status"
  /\ IF wpc = "closed"
       THEN /\ final' = [final EXCEPT ![r] = TRUE]
            /\ StartReading(r)
       ELSE /\ rpc' = [rpc EXCEPT ![r] = "idle"]
            /\ UNCHANGED <<final, rcell, tries>>
  /\ UNCHANGED <<cellVars, writerVars, next, rseq, rbuf, rleft, got, gotSeq>>

(* Fault: an odd sequence is taken for a finished write. *)
LoadSeqAnyParity(r) ==
  /\ rpc[r] = "try"
  /\ tries[r] < MaxTries
  /\ rpc' = [rpc EXCEPT ![r] = "copy"]
  /\ rseq' = [rseq EXCEPT ![r] = seq[rcell[r]]]
  /\ rleft' = [rleft EXCEPT ![r] = Fields]
  /\ UNCHANGED <<cellVars, writerVars, relayVars, rcell, rbuf, tries, got, gotSeq>>

(* The attempt's first load of the sequence. *)
LoadSeq(r) ==
  /\ rpc[r] = "try"
  /\ tries[r] < MaxTries
  /\ IF seq[rcell[r]] % 2 # 0
       THEN /\ tries' = [tries EXCEPT ![r] = @ + 1]
            /\ UNCHANGED <<rpc, rseq, rleft>>
       ELSE /\ rpc' = [rpc EXCEPT ![r] = "copy"]
            /\ rseq' = [rseq EXCEPT ![r] = seq[rcell[r]]]
            /\ rleft' = [rleft EXCEPT ![r] = Fields]
            /\ UNCHANGED tries
  /\ UNCHANGED <<cellVars, writerVars, relayVars, rcell, rbuf, got, gotSeq>>

(* Fault: the best-effort copy ends with the sequence word. *)
CopyFieldThenSeq(r, f) ==
  /\ rpc[r] \in {"copy", "fallback"}
  /\ f \in rleft[r]
  /\ rbuf' = [rbuf EXCEPT ![r][f] = mem[rcell[r]][f]]
  /\ rleft' = [rleft EXCEPT ![r] = @ \ {f}]
  /\ rseq' = IF rpc[r] = "fallback" THEN [rseq EXCEPT ![r] = seq[rcell[r]]] ELSE rseq
  /\ UNCHANGED <<cellVars, writerVars, relayVars, rpc, rcell, tries, got, gotSeq>>

CopyField(r, f) ==
  /\ rpc[r] \in {"copy", "fallback"}
  /\ f \in rleft[r]
  /\ rbuf' = [rbuf EXCEPT ![r][f] = mem[rcell[r]][f]]
  /\ rleft' = [rleft EXCEPT ![r] = @ \ {f}]
  /\ UNCHANGED <<cellVars, writerVars, relayVars, rpc, rcell, rseq, tries, got, gotSeq>>

(* snapshot() keeps every row; a connection sends both cells at first, and *)
(* then those written since it sent them.                                  *)
Wanted(r) ==
  \/ r \in Pythons
  \/ gotSeq[r][rcell[r]] = NoSeq
  \/ rseq[r] > 0 /\ rseq[r] # gotSeq[r][rcell[r]]

(* After the second cell the call returns, the connection goes on to the   *)
(* next anchor, or ends with a hub that is closed.                         *)
AfterCell(r) ==
  IF rcell[r] = "snap" THEN "try"
  ELSE IF r \in Relays /\ final[r] THEN "ended" ELSE "idle"

NextDue(r) ==
  IF rcell[r] = "micro" /\ r \in Relays /\ ~final[r]
    THEN [next EXCEPT ![r] = @ + 1] ELSE next

(* The reader has a row for its cell, and turns to the next. *)
TakeRow(r) ==
  LET c == rcell[r] IN
  /\ IF Wanted(r)
       THEN /\ got' = [got EXCEPT ![r][c] = rbuf[r]]
            /\ gotSeq' = [gotSeq EXCEPT ![r][c] = rseq[r]]
       ELSE UNCHANGED <<got, gotSeq>>
  /\ tries' = [tries EXCEPT ![r] = 0]
  /\ rcell' = [rcell EXCEPT ![r] = "micro"]
  /\ rpc' = [rpc EXCEPT ![r] = AfterCell(r)]
  /\ next' = NextDue(r)

(* Fault: the copy is accepted without the second load. *)
AcceptUnchecked(r) ==
  /\ rpc[r] = "copy" /\ rleft[r] = {}
  /\ TakeRow(r)
  /\ UNCHANGED <<cellVars, writerVars, final, rseq, rbuf, rleft>>

(* Fault: a rejected attempt gives one back. *)
RejectUncounts(r) ==
  /\ rpc[r] = "copy" /\ rleft[r] = {}
  /\ seq[rcell[r]] # rseq[r]
  /\ tries' = [tries EXCEPT ![r] = @ - 1]
  /\ rpc' = [rpc EXCEPT ![r] = "try"]
  /\ UNCHANGED <<cellVars, writerVars, relayVars, rcell, rseq, rbuf, rleft, got, gotSeq>>

(* The attempt's second load of the sequence accepts or rejects the copy.  *)
Accept(r) ==
  /\ rpc[r] = "copy" /\ rleft[r] = {}
  /\ seq[rcell[r]] = rseq[r]
  /\ TakeRow(r)
  /\ UNCHANGED <<cellVars, writerVars, final, rseq, rbuf, rleft>>

Reject(r) ==
  /\ rpc[r] = "copy" /\ rleft[r] = {}
  /\ seq[rcell[r]] # rseq[r]
  /\ tries' = [tries EXCEPT ![r] = @ + 1]
  /\ rpc' = [rpc EXCEPT ![r] = "try"]
  /\ UNCHANGED <<cellVars, writerVars, relayVars, rcell, rseq, rbuf, rleft, got, gotSeq>>

(* snapshot() out of attempts: RuntimeError for the quote cell, a result   *)
(* without micro fields for the other.                                     *)
GiveUp(r) ==
  /\ r \in Pythons
  /\ rpc[r] = "try" /\ tries[r] = MaxTries
  /\ rpc' = [rpc EXCEPT ![r] = "idle"]
  /\ UNCHANGED <<cellVars, writerVars, relayVars, rcell, rseq, rbuf, rleft, tries, got, gotSeq>>

(* The relay out of spins: one best-effort copy, which starts with the     *)
(* sequence word, the first of the cell, and is not checked.               *)
BestEffort(r) ==
  /\ r \in Relays
  /\ rpc[r] = "try" /\ tries[r] = MaxTries
  /\ rpc' = [rpc EXCEPT ![r] = "fallback"]
  /\ rseq' = [rseq EXCEPT ![r] = seq[rcell[r]]]
  /\ rleft' = [rleft EXCEPT ![r] = Fields]
  /\ UNCHANGED <<cellVars, writerVars, relayVars, rcell, rbuf, tries, got, gotSeq>>

TakeBestEffort(r) ==
  /\ rpc[r] = "fallback" /\ rleft[r] = {}
  /\ TakeRow(r)
  /\ UNCHANGED <<cellVars, writerVars, final, rseq, rbuf, rleft>>

Reader(r) == \/ Call(r) \/ SeeFirstAnchor(r) \/ LoadLast(r) \/ TestStatus(r)
             \/ LoadSeq(r)
             \/ \E f \in Fields : CopyField(r, f)
             \/ Accept(r) \/ Reject(r) \/ GiveUp(r)
             \/ BestEffort(r) \/ TakeBestEffort(r)

Next == Writer \/ \E r \in Readers : Reader(r)

Spec == Init /\ [][Next]_vars

-----------------------------------------------------------------------------
(* Properties *)

(* Every word, counter and program position keeps its type. *)
TypeOK ==
  /\ seq \in [Cells -> Nat]
  /\ mem \in [Cells -> [Fields -> Nat]]
  /\ ver \in Nat
  /\ wpc \in Cells \cup {"idle", "mid", "dead", "closed"}
  /\ wleft \in SUBSET Fields
  /\ last \in Nat /\ covered \in Nat
  /\ rpc \in [Readers -> {"idle", "try", "copy", "fallback", "status", "ended"}]
  /\ rcell \in [Readers -> Cells]
  /\ rseq \in [Readers -> Nat]
  /\ rbuf \in [Readers -> [Fields -> Nat]]
  /\ rleft \in [Readers -> SUBSET Fields]
  /\ tries \in [Readers -> 0 .. MaxTries]
  /\ got \in [Readers -> [Cells -> [Fields -> Nat] \cup {NoRow}]]
  /\ gotSeq \in [Readers -> [Cells -> Nat \cup {NoSeq}]]
  /\ next \in [Relays -> Nat]
  /\ final \in [Relays -> BOOLEAN]

(* All fields a snapshot() call returns for a cell are of one update.      *)
UntornReads ==
  \A r \in Pythons, c \in Cells :
    got[r][c] # NoRow => \A f, g \in Fields : got[r][c][f] = got[r][c][g]

(* The micro fields a call returns are at most one update older than the   *)
(* quote fields returned with them, although they are read later from a    *)
(* cell with a sequence of its own.                                        *)
MicroNotBehind ==
  \A r \in Pythons : \A f, g \in Fields :
    got[r]["micro"] # NoRow => got[r]["micro"][f] >= got[r]["snap"][g] - 1

(* What the relay believes up to date is: a packet that carries the cell's *)
(* present sequence carries its present content, even if it came from an   *)
(* unchecked copy, so that delta compression never hides a torn packet.    *)
SentIsCurrent ==
  \A r \in Relays, c \in Cells :
    gotSeq[r][c] = seq[c] /\ wpc # c => got[r][c] = mem[c]

(* Each call behaves as if it read each cell in one step.                  *)
Value == [c \in Cells |-> IF wpc = c THEN ver ELSE mem[c][CHOOSE f \in Fields : TRUE]]
Atomic == INSTANCE AtomicSnapshot WITH
  Readers <- Pythons, value <- Value, got <- [r \in Pythons |-> got[r]]
ImplementsAtomic == Atomic!Spec

(* Each connection sends in the end what the cells hold in the end, if an  *)
(* anchor was committed after the last update, or the hub was closed.  It  *)
(* needs that: a connection looks at the cells only for an anchor that is  *)
(* due (handleConn), and what was updated after the last anchor of a hub   *)
(* that is killed is not sent.                                             *)
Announced == last > 0 /\ (covered = ver \/ wpc = "closed")

RelayConverges ==
  \A r \in Relays : <>[]Announced =>
    \A c \in Cells :
      <>[](seq[c] > 0 => got[r][c] = mem[c] /\ gotSeq[r][c] = seq[c])
=============================================================================
