------------------------------ MODULE RawSpooler ------------------------------
(***************************************************************************)
(* The raw frame spooler of the daemon (pkg/feed/raw_spooler.go): a bounded *)
(* queue the readPump records websocket frames into without ever waiting,   *)
(* and one writer goroutine that appends them to a compressed file per UTC  *)
(* date.  A frame is its reception number; the encoder and the bufio writer *)
(* are one buffer.  A file may fail to open; once open it takes every write.*)
(***************************************************************************)
EXTENDS Integers, Sequences, FiniteSets, SequencesExt

CONSTANTS
  QueueSize,   \* capacity of packetChan, 65536
  LastDate     \* bound: dates the clock goes through

ASSUME SpoolerAssumption == QueueSize \in Nat \ {0} /\ LastDate \in Nat \ {0}

NoFile == 0
Dates == 1 .. LastDate

VARIABLES
  spooling,   \* the daemon was given a --raw-spool-dir
  rootDone,   \* the daemon's context is cancelled (SIGTERM)
  date,       \* UTC date, 1 .. LastDate
  queue,      \* packetChan
  dropped,    \* frames Record counted in droppedFrames
  failed,     \* frames given up because their file did not open (not counted)
  spoolStop,  \* stopChan is closed
  spc,        \* writer: "wait" in a select, "write" with pkt in hand, "ended"
  draining,   \* the writer is in drain()
  pkt,        \* the packet in hand
  file,       \* date of currentFile, NoFile when nil
  buffer,     \* frames in enc and bufWriter
  disk,       \* [1 .. LastDate -> frames in the file of that date]
  counted     \* packetsWritten

spoolVars == <<spooling, date, queue, dropped, failed, spoolStop, spc, draining, pkt, file,
               buffer, disk, counted>>
fileVars == <<file, buffer, disk>>

SpoolInit ==
  /\ rootDone = FALSE /\ date = 1
  /\ queue = <<>> /\ dropped = {} /\ failed = {} /\ spoolStop = FALSE
  /\ spc = "wait" /\ draining = FALSE /\ pkt = 0
  /\ file = NoFile /\ buffer = <<>> /\ disk = [d \in Dates |-> <<>>]
  /\ counted = 0

(* Record: never waits, drops the frame when the queue is full. *)
Record(m) ==
  \/ /\ spooling /\ Len(queue) < QueueSize
     /\ queue' = Append(queue, m) /\ UNCHANGED dropped
  \/ /\ spooling /\ Len(queue) = QueueSize
     /\ dropped' = dropped \cup {m} /\ UNCHANGED queue
  \/ ~spooling /\ UNCHANGED <<queue, dropped>>

(* enc and bufWriter flushed into the open file, if there is one. *)
Flushed == IF file = NoFile THEN disk ELSE [disk EXCEPT ![file] = @ \o buffer]

SpoolTake ==
  /\ spc = "wait" /\ queue # <<>>
  /\ pkt' = Head(queue) /\ queue' = Tail(queue)
  /\ spc' = "write"
  /\ UNCHANGED <<spooling, rootDone, date, dropped, failed, spoolStop, draining, fileVars, counted>>

(* writePacket into the open file of today. *)
SpoolAppend ==
  /\ spc = "write" /\ file = date
  /\ buffer' = Append(buffer, pkt) /\ counted' = counted + 1
  /\ spc' = "wait"
  /\ UNCHANGED <<spooling, rootDone, date, queue, dropped, failed, spoolStop, draining, pkt, file, disk>>

(* writePacket with rotate: the old file is closed, the new one opened. *)
SpoolRotate ==
  /\ spc = "write" /\ file # date
  /\ disk' = Flushed
  /\ file' = date /\ buffer' = <<pkt>> /\ counted' = counted + 1
  /\ spc' = "wait"
  /\ UNCHANGED <<spooling, rootDone, date, queue, dropped, failed, spoolStop, draining, pkt>>

(* Fault: the packet of a failed rotation goes back into the queue. *)
SpoolRotateRetries ==
  /\ spc = "write" /\ file # date
  /\ disk' = Flushed
  /\ file' = NoFile /\ buffer' = <<>> /\ Record(pkt)
  /\ spc' = "wait"
  /\ UNCHANGED <<spooling, rootDone, date, failed, spoolStop, draining, pkt, counted>>

(* rotate fails after it has closed the old file: the packet is given up.  *)
SpoolRotateFails ==
  /\ spc = "write" /\ file # date
  /\ disk' = Flushed
  /\ file' = NoFile /\ buffer' = <<>> /\ failed' = failed \cup {pkt}
  /\ spc' = "wait"
  /\ UNCHANGED <<spooling, rootDone, date, queue, dropped, spoolStop, draining, pkt, counted>>

(* The flush ticker. *)
SpoolFlush ==
  /\ spc = "wait" /\ ~draining /\ buffer # <<>>
  /\ disk' = Flushed /\ buffer' = <<>>
  /\ UNCHANGED <<spooling, rootDone, date, queue, dropped, failed, spoolStop, spc, draining, pkt,
                 file, counted>>

(* Fault: a cancelled context ends the writer at once. *)
SpoolSeesStopAndEnds ==
  /\ spooling /\ spc = "wait" /\ ~draining /\ (rootDone \/ spoolStop)
  /\ disk' = Flushed /\ buffer' = <<>> /\ file' = NoFile
  /\ spc' = "ended" /\ draining' = TRUE
  /\ UNCHANGED <<spooling, rootDone, date, queue, dropped, failed, spoolStop, pkt, counted>>

SpoolSeesStop ==
  /\ spooling /\ spc = "wait" /\ ~draining /\ (rootDone \/ spoolStop)
  /\ draining' = TRUE
  /\ UNCHANGED <<spooling, rootDone, date, queue, dropped, failed, spoolStop, spc, pkt, fileVars, counted>>

(* The queue was found empty: flush, closeCurrentFile, return.  A frame    *)
(* recorded after this stays in the queue for ever.                        *)
SpoolEnd ==
  /\ spc = "wait" /\ draining /\ queue = <<>>
  /\ disk' = Flushed /\ buffer' = <<>> /\ file' = NoFile
  /\ spc' = "ended"
  /\ UNCHANGED <<spooling, rootDone, date, queue, dropped, failed, spoolStop, draining, pkt, counted>>

(* Midnight UTC. *)
NextDay ==
  /\ spooling /\ date < LastDate /\ date' = date + 1
  /\ UNCHANGED <<spooling, rootDone, queue, dropped, failed, spoolStop, spc, draining, pkt,
                 fileVars, counted>>

SpoolWriter == \/ SpoolTake \/ SpoolAppend \/ SpoolRotate \/ SpoolRotateFails
               \/ SpoolSeesStop \/ SpoolEnd

-----------------------------------------------------------------------------
OnDisk == UNION {ToSet(disk[d]) : d \in Dates}
InHand == IF spc = "write" THEN <<pkt>> ELSE <<>>
Pending == buffer \o InHand \o queue
Increasing(s) == \A i, j \in DOMAIN s : i < j => s[i] < s[j]
Precedes(s, t) == \A x \in ToSet(s), y \in ToSet(t) : x < y

SpoolTypeOK(frames) ==
  /\ spooling \in BOOLEAN /\ rootDone \in BOOLEAN /\ spoolStop \in BOOLEAN /\ draining \in BOOLEAN
  /\ date \in 1 .. LastDate /\ file \in NoFile .. LastDate
  /\ Len(queue) <= QueueSize /\ counted \in Nat
  /\ ToSet(queue) \cup ToSet(buffer) \cup OnDisk \cup dropped \cup failed
       \subseteq 1 .. frames
  /\ spc \in {"wait", "write", "ended"} /\ pkt \in 0 .. frames

(* The files of successive dates, then the buffer, the packet in hand and  *)
(* the queue hold the frames in the order of reception, none twice, over   *)
(* rotations that fail and files that are opened again to be appended to   *)
(* (rotate, O_APPEND).                                                     *)
SpooledInOrder ==
  /\ Increasing(Pending)
  /\ \A d \in Dates :
       /\ Increasing(disk[d]) /\ Precedes(disk[d], Pending)
       /\ \A e \in d + 1 .. LastDate : Precedes(disk[d], disk[e])
=============================================================================
