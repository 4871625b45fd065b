------------------------------ MODULE LiveRelay ------------------------------
(***************************************************************************)
(* Replication of a live hub over TCP: the relay server polls the rings    *)
(* and sends, anchor by anchor, the slot of every phase and a commit; the  *)
(* relay client writes the slots into a replica segment and publishes the  *)
(* anchor there.                                                           *)
(*                                                                         *)
(* Sources: pkg/relay/server.go (handleConn), pkg/relay/client.go          *)
(* (ConnectAndReplicate, runStream) and pkg/shm/producer.go (WriteRawSlot).*)
(* The snapshots that travel with the frames are SnapshotSeqLock's.        *)
(***************************************************************************)
EXTENDS LiveRing, Sequences

CONSTANTS
  WireRoom,       \* bound: packets under way on a connection
  MaxDisconnects  \* bound: connections that break

ASSUME RelayAssumption == WireRoom \in Nat \ {0} /\ MaxDisconnects \in Nat

VARIABLES
  fromStart,    \* ServerConfig.FromStart
  link,         \* "down", "up", "ending" (server gone), "ended" (client gone)
  breaks,       \* number of broken connections
  nextAnchor,   \* handleConn's nextAnchor
  sending,      \* phases whose slots are still to be sent for nextAnchor
  half,         \* the slot being copied: a set of at most one packet
  server,       \* "poll", "test" or "send"
  seen,         \* handleConn's currentLast
  wire,         \* packets under way, oldest first
  rData,        \* [Rows -> [Slots -> index or Torn]]: the replica's rows
  rLast         \* LastWrittenAnchorNS of the replica

serverVars == <<nextAnchor, sending, half, server, seen>>
replicaVars == <<rData, rLast>>
relayVars == <<fromStart, link, breaks, serverVars, wire, replicaVars>>

RelayInit ==
  /\ fromStart \in BOOLEAN
  /\ link = "down" /\ breaks = 0
  /\ nextAnchor = 0 /\ sending = {} /\ half = {} /\ server = "poll" /\ seen = 0
  /\ wire = <<>>
  /\ rData = [r \in Rows |-> [s \in Slots |-> Unset]]
  /\ rLast = 0

-----------------------------------------------------------------------------
(* Server: handleConn *)

StartAnchor ==
  IF fromStart /\ firstAnchor > 0 THEN firstAnchor ELSE lastWritten

(* The client dials, the server waits for the first anchor. *)
Connect ==
  /\ link = "down"
  /\ firstAnchor > 0 \/ lastWritten > 0
  /\ link' = "up"
  /\ nextAnchor' = StartAnchor
  /\ UNCHANGED <<fromStart, breaks, sending, half, server, seen, wire,
                 replicaVars>>

(* Each round of the loop loads LastWrittenAnchorNS first and the status   *)
(* after it.                                                               *)
LoadLast ==
  /\ link = "up" /\ server = "poll"
  /\ seen' = lastWritten
  /\ server' = "test"
  /\ UNCHANGED <<fromStart, link, breaks, nextAnchor, sending, half, wire,
                 replicaVars>>

(* Fault: the slot after the last one written is sent as well. *)
DueOneAhead == nextAnchor - Cadence <= seen /\ nextAnchor > 0

Due == nextAnchor <= seen /\ nextAnchor > 0

(* Anchors the producer may be about to overwrite are skipped. *)
Clamped ==
  LET earliest == seen - (MaxFrames - 2) * Cadence
  IN  IF nextAnchor < earliest /\ earliest > 0 THEN earliest ELSE nextAnchor

TestDue ==
  /\ link = "up" /\ server = "test"
  /\ Due
  /\ nextAnchor' = Clamped
  /\ sending' = Phases
  /\ server' = "send" /\ seen' = 0
  /\ UNCHANGED <<fromStart, link, breaks, half, wire, replicaVars>>

(* Nothing to send: the server hangs up if the hub is closed, and polls    *)
(* again if it is not.                                                     *)
TestStatus ==
  /\ link = "up" /\ server = "test"
  /\ ~Due
  /\ link' = IF Closed THEN "ending" ELSE "up"
  /\ server' = "poll" /\ seen' = 0
  /\ UNCHANGED <<fromStart, breaks, nextAnchor, sending, half, wire, replicaVars>>

SendSlot == (nextAnchor \div Cadence) % MaxFrames
SlotRows(p) == [r \in RowsOf(p) |-> slotData[r][SendSlot]]

(* The slot's bytes are copied into the packet while the producer goes on; *)
(* the whole slot goes, whatever frame it holds.                           *)
CopySlot(p) ==
  /\ link = "up" /\ server = "send"
  /\ half = {} /\ p \in sending /\ \A q \in sending : p <= q
  /\ half' = {[phase |-> p, slot |-> SendSlot, rows |-> SlotRows(p)]}
  /\ UNCHANGED <<fromStart, link, breaks, nextAnchor, sending, server, seen,
                 wire, replicaVars>>

SendSlotPacket ==
  /\ link = "up" /\ server = "send"
  /\ Len(wire) < WireRoom
  /\ \E h \in half :
       LET now == SlotRows(h.phase)
           read == [r \in RowsOf(h.phase) |->
                      IF now[r] = h.rows[r] THEN now[r] ELSE Torn]
       IN  /\ \E rows \in {now, read} : wire' = Append(wire, [h EXCEPT !.rows = rows])
           /\ sending' = sending \ {h.phase}
  /\ half' = {}
  /\ UNCHANGED <<fromStart, link, breaks, nextAnchor, server, seen, replicaVars>>

SendCommit ==
  /\ link = "up" /\ server = "send"
  /\ sending = {} /\ half = {}
  /\ Len(wire) < WireRoom
  /\ wire' = Append(wire, [commit |-> nextAnchor])
  /\ nextAnchor' = nextAnchor + Cadence
  /\ server' = "poll"
  /\ UNCHANGED <<fromStart, link, breaks, sending, half, seen, replicaVars>>

-----------------------------------------------------------------------------
(* Client: runStream *)

Receiving == link \in {"up", "ending"} /\ wire # <<>>

(* MsgTypeFrameSlot: WriteRawSlot. *)
ApplySlot ==
  /\ Receiving /\ "rows" \in DOMAIN Head(wire)
  /\ rData' = [r \in Rows |->
       IF r \in DOMAIN Head(wire).rows
         THEN [rData[r] EXCEPT ![Head(wire).slot] = Head(wire).rows[r]]
         ELSE rData[r]]
  /\ wire' = Tail(wire)
  /\ UNCHANGED <<fromStart, link, breaks, serverVars, rLast>>

(* MsgTypeAnchor: CommitFrameFinalize on the replica. *)
ApplyCommit ==
  /\ Receiving /\ "commit" \in DOMAIN Head(wire)
  /\ rLast' = Head(wire).commit
  /\ wire' = Tail(wire)
  /\ UNCHANGED <<fromStart, link, breaks, serverVars, rData>>

(* The connection breaks: what was under way is lost, the client redials   *)
(* and the server serves the new connection from scratch.                  *)
Disconnect ==
  /\ link = "up"
  /\ breaks < MaxDisconnects
  /\ breaks' = breaks + 1
  /\ link' = "down"
  /\ wire' = <<>>
  /\ sending' = {} /\ half' = {} /\ server' = "poll"
  /\ seen' = 0 /\ nextAnchor' = 0
  /\ UNCHANGED <<fromStart, replicaVars>>

(* io.EOF: ConnectAndReplicate returns. *)
ClientEnds ==
  /\ link = "ending" /\ wire = <<>>
  /\ link' = "ended"
  /\ UNCHANGED <<fromStart, breaks, serverVars, wire, replicaVars>>

Relay ==
  \/ Connect \/ LoadLast \/ TestDue \/ TestStatus \/ SendSlotPacket \/ SendCommit
  \/ \E p \in Phases : CopySlot(p)
  \/ ApplySlot \/ ApplyCommit \/ Disconnect \/ ClientEnds

-----------------------------------------------------------------------------
RelayTypeOK ==
  /\ fromStart \in BOOLEAN /\ link \in {"down", "up", "ending", "ended"}
  /\ breaks \in 0 .. MaxDisconnects
  /\ nextAnchor \in Nat /\ sending \subseteq Phases /\ server \in {"poll", "test", "send"}
  /\ seen \in Nat
  /\ Len(wire) <= WireRoom
  /\ rData \in [Rows -> [Slots -> Nat \cup {Torn}]]
  /\ rLast \in Nat

Commits == rLast' # rLast

(* When the replica publishes an anchor, the frames of its cadence that    *)
(* are due by that anchor are in the replica, whole, unless the producer   *)
(* has come round to their slots on the primary.                           *)
DueFramesRelayed ==
  [][Commits => \A r \in Rows :
       LET n == rLast' \div Cadence
       IN  AnchorNS(PhaseOf[r], n) <= rLast' /\ <<PhaseOf[r], n>> \notin passedOver =>
             rData[r][Slot(n)] = n \/ Lapped(r, n)]_relayVars

(* No sequence is dropped: of the cadence that ends with an anchor, each   *)
(* frame the primary committed since the previous anchor the replica       *)
(* published is in the replica when it publishes this one.                 *)
NoSequenceDrop ==
  [][Commits /\ rLast # 0 => \A r \in Rows : \A n \in 1 .. LastIndex :
       LET a == AnchorNS(PhaseOf[r], n)
       IN  rLast < a /\ rLast' - Cadence < a /\ a <= rLast' =>
             rData[r][Slot(n)] = n \/ Lapped(r, n)]_relayVars
=============================================================================
