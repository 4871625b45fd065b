---------------------------- MODULE ControlLine ----------------------------
(***************************************************************************)
(* The control line of a chunk worker: a Python data loader writes a       *)
(* request into the header of the shared-memory segment, the Go worker     *)
(* polls it, replays the chunk into the frame ring and answers in the same *)
(* header.  The words are read and written one at a time by two processes; *)
(* the client may give up waiting, ask again, die and be started again.    *)
(*                                                                         *)
(* Sources: cmd/tickhub/worker.go (the polling loop, serviceChunk),        *)
(* pkg/shm/producer.go (ResetAnchors, the wait of WaitConsumerAdvance) and *)
(* python/tickhub/shm.py (request_chunk, shutdown_worker, commit_read).    *)
(*                                                                         *)
(* Time is counted in cadences: a chunk (start, end] holds the frames of   *)
(* the anchors start+1 .. end, and what a frame holds is determined by its *)
(* symbol and its anchor.  One phase; each symbol has a row of its own.    *)
(***************************************************************************)
EXTENDS Integers, FiniteSets

CONSTANTS
  Symbols,        \* the symbols of the worker's hub
  GatedSymbol,    \* the first symbol of the phase: only its row waits
  WithFiles,      \* the symbols the data lake has Parquet files of
  SlowSymbols,    \* those whose replay may exceed the worker's 5 s context
  Requests,       \* bound: the chunks [sym, start, end] the client may ask for
  MaxFrames,      \* ring slots
  MaxId,          \* bound: the largest request id
  MaxClients,     \* bound: client processes, one after the other
  ClientTimeouts, \* TRUE: request_chunk may raise TimeoutError
  DiesBusy        \* TRUE: a client may die while its request is outstanding

ASSUME ControlAssumption ==
  /\ MaxFrames \in Nat \ {0}
  /\ MaxId \in Nat /\ MaxClients \in Nat \ {0}
  /\ GatedSymbol \in Symbols /\ WithFiles \subseteq Symbols
  /\ Requests \subseteq [sym : Symbols, start : Nat \ {0}, end : Nat \ {0}]
  /\ Requests # {}
  /\ SlowSymbols \subseteq Symbols
  /\ ClientTimeouts \in BOOLEAN /\ DiesBusy \in BOOLEAN

VARIABLES
  req,      \* header.ControlReq
  resp,     \* header.ControlResp
  pid,      \* header.ConsumerPID: number of the client process, 0 if none
  lastRead, \* header.LastReadAnchorNS
  ring,     \* [Symbols -> [slots -> anchor]]: the row of each symbol
  cpc,      \* where the client is
  who,      \* the client process that runs, or ran last
  lastReq,  \* TickHubReader._last_req_id
  want,     \* the chunk the client asks for, then reads
  cursor,   \* the anchor its cursor stands on
  wpc,      \* where the worker is
  wcmd,     \* the command it loaded
  handled,  \* lastHandledReqID
  job,      \* the payload words it loaded
  pFirst,   \* Producer.firstAnchorNS
  next,     \* the anchor of the next frame of the replay
  frames,   \* Projector.CommittedFrames
  failed    \* serviceChunk returned an error

clientVars == <<cpc, who, lastReq, want, cursor>>
workerVars == <<wpc, wcmd, handled, job, pFirst, next, frames, failed>>
vars == <<req, resp, pid, lastRead, ring, clientVars, workerVars>>

Slots == 0 .. MaxFrames - 1
Slot(n) == n % MaxFrames

NoChunk == [sym |-> GatedSymbol, start |-> 0, end |-> 0]

(* The worker has created the segment and stored the idle response.        *)
Init ==
  /\ req = [cmd |-> "none", id |-> 0, chunk |-> NoChunk]
  /\ resp = [status |-> "idle", id |-> 0, frames |-> 0]
  /\ pid = 0 /\ lastRead = 0
  /\ ring = [s \in Symbols |-> [k \in Slots |-> 0]]
  /\ cpc = "idle" /\ who = 1 /\ lastReq = 0
  /\ want = NoChunk /\ cursor = 0
  /\ wpc = "top" /\ wcmd = "none" /\ handled = 0 /\ job = NoChunk
  /\ pFirst = 0 /\ next = 0 /\ frames = 0 /\ failed = FALSE

-----------------------------------------------------------------------------
(* Client *)

Larger(a, b) == IF a >= b THEN a ELSE b

(* Fault: the id follows the last answer, not the last request.           *)
NextReqIdOfResponse == resp.id + 1

NextReqId == Larger(lastReq, resp.id) + 1

(* request_chunk: draw the id, register the process, write the payload.    *)
DrawId ==
  /\ cpc \in {"idle", "reading"} /\ NextReqId <= MaxId
  /\ \E r \in Requests : want' = r
  /\ lastReq' = NextReqId
  /\ cpc' = "register"
  /\ UNCHANGED <<req, resp, pid, lastRead, ring, who, cursor, workerVars>>

Register ==
  /\ cpc = "register" /\ cpc' = "sym"
  /\ pid' = who
  /\ UNCHANGED <<req, resp, lastRead, ring, who, lastReq, want, cursor,
                 workerVars>>

PutWord(field, after) ==
  /\ cpc = field /\ cpc' = after
  /\ req' = [req EXCEPT !.chunk[field] = want[field]]
  /\ UNCHANGED <<resp, pid, lastRead, ring, who, lastReq, want, cursor,
                 workerVars>>

PutPayload ==
  \/ PutWord("sym", "start")
  \/ PutWord("start", "end")
  \/ PutWord("end", "cmd")

PutCommand ==
  /\ cpc = "cmd" /\ cpc' = "id"
  /\ req' = [req EXCEPT !.cmd = "replay"]
  /\ UNCHANGED <<resp, pid, lastRead, ring, who, lastReq, want, cursor,
                 workerVars>>

PutId ==
  /\ cpc = "id" /\ cpc' = "poll"
  /\ req' = [req EXCEPT !.id = lastReq]
  /\ UNCHANGED <<resp, pid, lastRead, ring, who, lastReq, want, cursor,
                 workerVars>>

(* The waiting loop: response_id first, status only once it matches.       *)
SeeResponse ==
  /\ cpc = "poll" /\ resp.id = lastReq
  /\ cpc' = "status"
  /\ UNCHANGED <<req, resp, pid, lastRead, ring, who, lastReq, want, cursor,
                 workerVars>>

ReadStatus ==
  /\ cpc = "status"
  /\ \/ /\ resp.status = "ready"       \* returns num_frames_written
        /\ cpc' = "reading" /\ cursor' = want.start + 1
     \/ /\ resp.status = "error"       \* raises RuntimeError
        /\ cpc' = "idle" /\ UNCHANGED cursor
     \/ /\ resp.status \in {"idle", "busy"}
        /\ cpc' = "poll" /\ UNCHANGED cursor
  /\ UNCHANGED <<req, resp, pid, lastRead, ring, who, lastReq, want,
                 workerVars>>

GiveUp ==
  /\ ClientTimeouts
  /\ cpc = "poll" /\ cpc' = "idle"
  /\ UNCHANGED <<req, resp, pid, lastRead, ring, who, lastReq, want, cursor,
                 workerVars>>

(* load, next and commit_read of one frame of the chunk that was answered. *)
ReadFrame ==
  /\ cpc = "reading" /\ cursor <= want.end
  /\ ring[want.sym][Slot(cursor)] = cursor
  /\ cursor' = cursor + 1
  /\ lastRead' = cursor + 1
  /\ pid' = who
  /\ UNCHANGED <<req, resp, ring, cpc, who, lastReq, want, workerVars>>

ShutdownWorker ==
  /\ cpc \in {"idle", "reading"} /\ cpc' = "down"
  /\ req' = [req EXCEPT !.cmd = "shutdown"]
  /\ UNCHANGED <<resp, pid, lastRead, ring, who, lastReq, want, cursor,
                 workerVars>>

Die ==
  /\ cpc \notin {"dead", "down"} /\ who < MaxClients
  /\ DiesBusy \/ req.id = resp.id
  /\ cpc' = "dead"
  /\ UNCHANGED <<req, resp, pid, lastRead, ring, who, lastReq, want, cursor,
                 workerVars>>

(* Another process attaches: a new TickHubReader has no _last_req_id.      *)
Attach ==
  /\ cpc = "dead" /\ cpc' = "idle"
  /\ who' = who + 1
  /\ lastReq' = 0
  /\ UNCHANGED <<req, resp, pid, lastRead, ring, want, cursor, workerVars>>

-----------------------------------------------------------------------------
(* Worker *)

(* kill(pid, 0) = ESRCH *)
Gone(p) == p # 0 /\ (p # who \/ cpc = "dead")

(* Top of the loop: the liveness check, whose store comes after its test.  *)
CheckClient ==
  /\ wpc = "top"
  /\ wpc' = IF Gone(pid) THEN "forget" ELSE "cmd"
  /\ UNCHANGED <<req, resp, pid, lastRead, ring, clientVars, wcmd, handled,
                 job, pFirst, next, frames, failed>>

ForgetClient ==
  /\ wpc = "forget" /\ wpc' = "cmd"
  /\ resp' = IF resp.status = "busy" THEN [resp EXCEPT !.status = "idle"]
                                     ELSE resp
  /\ pid' = 0
  /\ UNCHANGED <<req, lastRead, ring, clientVars, wcmd, handled, job, pFirst,
                 next, frames, failed>>

LoadCommand ==
  /\ wpc = "cmd" /\ wpc' = "id"
  /\ wcmd' = req.cmd
  /\ UNCHANGED <<req, resp, pid, lastRead, ring, clientVars, handled, job,
                 pFirst, next, frames, failed>>

(* Fault: the last request is new as long as it stands in the header.     *)
IsNewOrLast(id) == id >= handled

IsNew(id) == id > handled

(* Fault: the command is looked at only when the request id is new.       *)
LoadIdThenCommand ==
  /\ wpc = "id"
  /\ \/ /\ wcmd = "shutdown" /\ IsNew(req.id)
        /\ wpc' = "exited" /\ UNCHANGED handled
     \/ /\ wcmd = "replay" /\ IsNew(req.id)
        /\ wpc' = "busy" /\ handled' = req.id
     \/ /\ wcmd = "none" \/ ~IsNew(req.id)
        /\ wpc' = "top" /\ UNCHANGED handled
  /\ UNCHANGED <<req, resp, pid, lastRead, ring, clientVars, wcmd, job,
                 pFirst, next, frames, failed>>

LoadId ==
  /\ wpc = "id"
  /\ \/ /\ wcmd = "shutdown"
        /\ wpc' = "exited" /\ UNCHANGED handled
     \/ /\ wcmd = "replay" /\ IsNew(req.id)
        /\ wpc' = "busy" /\ handled' = req.id
     \/ /\ wcmd = "none" \/ (wcmd = "replay" /\ ~IsNew(req.id))
        /\ wpc' = "top" /\ UNCHANGED handled
  /\ UNCHANGED <<req, resp, pid, lastRead, ring, clientVars, wcmd, job,
                 pFirst, next, frames, failed>>

MarkBusy ==
  /\ wpc = "busy" /\ wpc' = "sym"
  /\ resp' = [resp EXCEPT !.status = "busy"]
  /\ UNCHANGED <<req, pid, lastRead, ring, clientVars, wcmd, handled, job,
                 pFirst, next, frames, failed>>

GetWord(field, after) ==
  /\ wpc = field /\ wpc' = after
  /\ job' = [job EXCEPT ![field] = req.chunk[field]]
  /\ UNCHANGED <<req, resp, pid, lastRead, ring, clientVars, wcmd, handled,
                 pFirst, next, frames, failed>>

GetPayload ==
  \/ GetWord("sym", "start")
  \/ GetWord("start", "end")
  \/ GetWord("end", "open")

Finish(error) == wpc' = "fields" /\ failed' = error

(* serviceChunk up to ResetAnchors: no file is an error and leaves the     *)
(* flow control alone.                                                     *)
NoFiles ==
  /\ wpc = "open" /\ job.sym \notin WithFiles
  /\ Finish(TRUE)
  /\ UNCHANGED <<req, resp, pid, lastRead, ring, clientVars, wcmd, handled,
                 job, pFirst, next, frames>>

ResetAnchors ==
  /\ wpc = "open" /\ job.sym \in WithFiles
  /\ wpc' = "replay"
  /\ pFirst' = job.start + 1
  /\ lastRead' = 0
  /\ next' = job.start + 1 /\ frames' = 0 /\ failed' = FALSE
  /\ UNCHANGED <<req, resp, pid, ring, clientVars, wcmd, handled, job>>

(* WaitConsumerAdvance, called for the first row of the phase only.        *)
HasRoom(n) ==
  \/ MaxFrames = 1
  \/ n - (IF lastRead = 0 THEN pFirst ELSE lastRead) < MaxFrames - 2

CommitFrame ==
  /\ wpc = "replay" /\ next <= job.end
  /\ job.sym = GatedSymbol => HasRoom(next)
  /\ ring' = [ring EXCEPT ![job.sym][Slot(next)] = next]
  /\ next' = next + 1 /\ frames' = frames + 1
  /\ UNCHANGED <<req, resp, pid, lastRead, clientVars, wpc, wcmd, handled,
                 job, pFirst, failed>>

(* The ring is full: the 10 s wait ends in ErrFlowControlTimeout, or in    *)
(* ErrConsumerDeadlock when the registered client has gone.                *)
GiveUpWaiting ==
  /\ wpc = "replay" /\ next <= job.end
  /\ job.sym = GatedSymbol /\ ~HasRoom(next)
  /\ Finish(TRUE)
  /\ UNCHANGED <<req, resp, pid, lastRead, ring, clientVars, wcmd, handled,
                 job, pFirst, next, frames>>

ReplayTooSlow ==
  /\ wpc = "replay" /\ job.sym \in SlowSymbols
  /\ Finish(TRUE)
  /\ UNCHANGED <<req, resp, pid, lastRead, ring, clientVars, wcmd, handled,
                 job, pFirst, next, frames>>

ReplayDone ==
  /\ wpc = "replay" /\ next > job.end
  /\ Finish(FALSE)
  /\ UNCHANGED <<req, resp, pid, lastRead, ring, clientVars, wcmd, handled,
                 job, pFirst, next, frames>>

(* The answer: result fields, then the status, then the id.                *)
AnswerFields ==
  /\ wpc = "fields" /\ wpc' = "status"
  /\ resp' = [resp EXCEPT !.frames = IF failed THEN @ ELSE frames]
  /\ UNCHANGED <<req, pid, lastRead, ring, clientVars, wcmd, handled, job,
                 pFirst, next, frames, failed>>

AnswerStatus ==
  /\ wpc = "status" /\ wpc' = "respond"
  /\ resp' = [resp EXCEPT !.status = IF failed THEN "error" ELSE "ready"]
  /\ UNCHANGED <<req, pid, lastRead, ring, clientVars, wcmd, handled, job,
                 pFirst, next, frames, failed>>

(* Fault: the error path stores the status and forgets the id.            *)
AnswerIdIfReady ==
  /\ wpc = "respond" /\ wpc' = "top"
  /\ resp' = [resp EXCEPT !.id = IF failed THEN @ ELSE handled]
  /\ UNCHANGED <<req, pid, lastRead, ring, clientVars, wcmd, handled, job,
                 pFirst, next, frames, failed>>

AnswerId ==
  /\ wpc = "respond" /\ wpc' = "top"
  /\ resp' = [resp EXCEPT !.id = handled]
  /\ UNCHANGED <<req, pid, lastRead, ring, clientVars, wcmd, handled, job,
                 pFirst, next, frames, failed>>

-----------------------------------------------------------------------------
Waiting == DrawId \/ Register \/ PutPayload \/ PutCommand \/ PutId
             \/ SeeResponse \/ ReadStatus

ClientNext == Waiting \/ GiveUp \/ ReadFrame \/ ShutdownWorker \/ Die \/ Attach

WorkerNext ==
  \/ CheckClient \/ ForgetClient \/ LoadCommand \/ LoadId \/ MarkBusy
  \/ GetPayload \/ NoFiles \/ ResetAnchors \/ CommitFrame \/ GiveUpWaiting
  \/ ReplayTooSlow \/ ReplayDone \/ AnswerFields \/ AnswerStatus \/ AnswerId

Next == ClientNext \/ WorkerNext

Spec == Init /\ [][Next]_vars

(* The worker's loop never stops polling, its waits are bounded, and a     *)
(* client that has begun request_chunk runs on; nothing obliges a client   *)
(* to begin one.                                                           *)
FairSpec ==
  /\ Spec
  /\ WF_vars(WorkerNext)
  /\ WF_vars(cpc \notin {"idle", "reading"} /\ Waiting)

-----------------------------------------------------------------------------
(* Properties *)

Anchors == UNION {{0, r.start, r.end} : r \in Requests}
Words == [sym : Symbols, start : Anchors, end : Anchors]
Span(r) == (r.start + 1) .. r.end

Serving == {"busy", "sym", "start", "end", "open", "replay", "fields",
            "status", "respond"}

(* Every word, counter and program position keeps its type.                *)
TypeOK ==
  /\ req \in [cmd : {"none", "replay", "shutdown"}, id : 0 .. MaxId,
              chunk : Words]
  /\ resp \in [status : {"idle", "busy", "ready", "error"}, id : 0 .. MaxId,
               frames : Nat]
  /\ pid \in 0 .. MaxClients /\ lastRead \in Nat
  /\ ring \in [Symbols -> [Slots -> Nat]]
  /\ cpc \in {"idle", "register", "sym", "start", "end", "cmd", "id", "poll",
              "status", "reading", "down", "dead"}
  /\ who \in 1 .. MaxClients /\ lastReq \in 0 .. MaxId
  /\ want \in Words /\ cursor \in Nat
  /\ wpc \in {"top", "forget", "cmd", "id", "exited"} \cup Serving
  /\ wcmd \in {"none", "replay", "shutdown"} /\ handled \in 0 .. MaxId
  /\ job \in Words /\ pFirst \in Nat /\ next \in Nat /\ frames \in Nat
  /\ failed \in BOOLEAN

(* What request_chunk's return promises: from then on, until the client    *)
(* asks again, the ring holds every frame of the chunk it asked for, in    *)
(* the row of its symbol, and the count it was given is that chunk's;      *)
(* whatever requests were given up before, half written or half served.    *)
ChunkReadable ==
  cpc = "reading" =>
    /\ \A n \in Span(want) : ring[want.sym][Slot(n)] = n
    /\ resp.frames = Cardinality(Span(want))

(* While a client reads its chunk the worker serves nothing: no request    *)
(* that was given up is picked up late, and none is served twice.          *)
QuietWhileReading == cpc = "reading" => wpc \notin Serving

(* A published request is answered: unless it dies the client returns or   *)
(* raises the worker's error, though both sides wait for each other when   *)
(* the chunk is larger than the ring.                                      *)
RequestAnswered == cpc = "poll" ~> cpc \in {"reading", "idle", "dead"}

(* CmdShutdown ends the worker, also when it is serving a request.         *)
ShutdownHonoured == cpc = "down" ~> wpc = "exited"
=============================================================================
