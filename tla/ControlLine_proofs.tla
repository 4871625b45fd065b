-------------------------- MODULE ControlLine_proofs --------------------------
(***************************************************************************)
(* What the control line promises a client, for any requests, symbols and  *)
(* ring size, any number of requests given up half way, of clients one     *)
(* after the other and of answers that are errors: a chunk reported as     *)
(* ready is in the ring, and stays there while it is read.                 *)
(***************************************************************************)
EXTENDS ControlLine, FiniteSetTheorems, TLAPS

-----------------------------------------------------------------------------
(* The inductive invariant *)

(* The ring holds every chunk a client may ask for; but for the gated      *)
(* symbol's, which the flow control stops when the ring is full.           *)
RequestsFit ==
  \A r \in Requests : r.sym # GatedSymbol \/ MaxFrames = 1 => r.end <= r.start + MaxFrames

Writing == {"register", "sym", "start", "end", "cmd", "id"}
Asking == {"poll", "status", "reading"}

(* The ids of the last answer, of the request being served, of the request *)
(* in the header and of the one the client has drawn come in this order;   *)
(* a new client knows of none, and finds the last request answered.        *)
InvIds ==
  /\ resp.id <= handled /\ handled <= req.id
  /\ req.id <= lastReq \/ req.id = resp.id
  /\ wpc \in Serving <=> resp.id < handled
  /\ cpc \in Writing => req.id < lastReq
  /\ cpc \in Asking => req.id = lastReq
  /\ cpc \in {"status", "reading"} => resp.id = lastReq
  /\ cpc = "dead" => req.id = resp.id

(* The payload is complete before the id is stored, and left alone then.   *)
InvPayload ==
  /\ cpc \in Writing \cup Asking => want \in Requests
  /\ cpc \in {"start", "end", "cmd", "id"} \cup Asking => req.chunk.sym = want.sym
  /\ cpc \in {"end", "cmd", "id"} \cup Asking => req.chunk.start = want.start
  /\ cpc \in {"cmd", "id"} \cup Asking => req.chunk.end = want.end

InRing(n) == ring[want.sym][Slot(n)] = n
Whole == \A n \in Span(want) : InRing(n)
Counted(k) == k = Cardinality(Span(want))

(* The worker serves the request of a client that still waits for it: it   *)
(* has the client's words, and has put the frames up to next in the ring.  *)
InvService ==
  cpc = "poll" /\ wpc \in Serving /\ handled = lastReq =>
    /\ wpc \in Serving \ {"busy", "sym"} => job.sym = want.sym
    /\ wpc \in Serving \ {"busy", "sym", "start"} => job.start = want.start
    /\ wpc \in Serving \ {"busy", "sym", "start", "end"} => job.end = want.end
    /\ wpc = "replay" =>
         /\ pFirst = want.start + 1 /\ lastRead = 0 /\ ~failed
         /\ next > want.start /\ frames = next - want.start - 1
         /\ next = want.start + 1 \/ next <= want.end + 1
         /\ want.sym = GatedSymbol /\ MaxFrames > 1 /\ frames > 0 => frames < MaxFrames
         /\ \A n \in Nat : want.start < n /\ n < next => InRing(n)
    /\ wpc = "fields" /\ ~failed => Whole /\ Counted(frames)
    /\ wpc \in {"status", "respond"} /\ ~failed => Whole /\ Counted(resp.frames)
    /\ wpc = "respond" => resp.status = IF failed THEN "error" ELSE "ready"

(* What the client is told, and what it acts on. *)
InvAnswer ==
  /\ cpc \in Asking /\ resp.id = lastReq /\ resp.status = "ready" =>
       Whole /\ Counted(resp.frames)
  /\ cpc = "reading" => resp.status = "ready"

(* There is a next client when one dies. *)
InvClients == cpc = "dead" => who < MaxClients

IdsInv == TypeOK /\ InvClients /\ InvIds
ControlInv == IdsInv /\ InvPayload /\ InvService /\ InvAnswer

-----------------------------------------------------------------------------
(* Types *)

(* The words a request is made of. *)
LEMMA WordTypes ==
  /\ NoChunk \in Words /\ Requests \subseteq Words
  /\ \A w \in Words : w.sym \in Symbols /\ w.start \in Nat /\ w.end \in Nat
                      /\ w.start \in Anchors /\ w.end \in Anchors
<1>1. /\ Anchors \subseteq Nat /\ 0 \in Anchors
      /\ \A r \in Requests : r.start \in Anchors /\ r.end \in Anchors
  <2>1. \A r \in Requests : r.start \in Nat /\ r.end \in Nat
    BY ControlAssumption
  <2> QED BY <2>1, ControlAssumption DEF Anchors
<1>2. ASSUME NEW r \in Requests PROVE r \in Words
  BY <1>1, ControlAssumption DEF Words
<1>3. NoChunk \in Words
  BY <1>1, ControlAssumption DEF Words, NoChunk
<1> QED BY <1>1, <1>2, <1>3 DEF Words

LEMMA SlotOfRing == ASSUME NEW n \in Nat PROVE Slot(n) \in Slots
  BY ControlAssumption, SMT DEF Slot, Slots

(* The state's types, word by word. *)
LEMMA StateTypes ==
  ASSUME TypeOK
  PROVE  /\ req.cmd \in {"none", "replay", "shutdown"} /\ req.id \in Nat /\ req.id \in 0 .. MaxId
         /\ req.chunk \in Words
         /\ req = [cmd |-> req.cmd, id |-> req.id, chunk |-> req.chunk]
         /\ resp.status \in {"idle", "busy", "ready", "error"} /\ resp.id \in 0 .. MaxId
         /\ resp.id \in Nat /\ resp.frames \in Nat
         /\ resp = [status |-> resp.status, id |-> resp.id, frames |-> resp.frames]
         /\ lastReq \in Nat /\ handled \in Nat /\ MaxId \in Nat
         /\ pFirst \in Nat /\ next \in Nat /\ frames \in Nat /\ lastRead \in Nat /\ cursor \in Nat
         /\ want.sym \in Symbols /\ want.start \in Nat /\ want.end \in Nat
         /\ job.sym \in Symbols /\ job.start \in Nat /\ job.end \in Nat
         /\ MaxFrames \in Nat \ {0}
  BY WordTypes, ControlAssumption DEF TypeOK

LEMMA InitControl == Init => ControlInv
<1> SUFFICES ASSUME Init PROVE ControlInv
  OBVIOUS
<1>1. TypeOK
  <2>1. /\ req = [cmd |-> "none", id |-> 0, chunk |-> NoChunk] /\ NoChunk \in Words
        /\ resp = [status |-> "idle", id |-> 0, frames |-> 0]
        /\ ring = [s \in Symbols |-> [k \in Slots |-> 0]]
        /\ who = 1 /\ pid = 0 /\ 0 \in 0 .. MaxId /\ 0 \in 0 .. MaxClients /\ 1 \in 1 .. MaxClients
    BY WordTypes, ControlAssumption DEF Init
  <2>2. /\ req \in [cmd : {"none", "replay", "shutdown"}, id : 0 .. MaxId, chunk : Words]
        /\ resp \in [status : {"idle", "busy", "ready", "error"}, id : 0 .. MaxId, frames : Nat]
        /\ ring \in [Symbols -> [Slots -> Nat]]
    BY <2>1
  <2> QED BY <2>1, <2>2 DEF Init, TypeOK
<1> QED BY <1>1
        DEF Init, ControlInv, IdsInv, InvClients, InvIds, InvPayload, InvService, InvAnswer,
            Writing, Asking, Serving

(* A step of the client. *)
LEMMA ClientTypes == ASSUME TypeOK, InvClients, ClientNext PROVE TypeOK' /\ InvClients'
<1> USE DEF Serving
<1>1. CASE DrawId
  <2>1. want' \in Requests /\ lastReq' = NextReqId /\ NextReqId <= MaxId /\ NextReqId \in Nat
    BY <1>1, StateTypes DEF DrawId, NextReqId, Larger
  <2>2. want' \in Words /\ lastReq' \in 0 .. MaxId
    BY <2>1, WordTypes, StateTypes
  <2> QED BY <1>1, <2>2 DEF DrawId, TypeOK, InvClients, workerVars
<1>2. CASE PutPayload
  <2>1. ASSUME NEW f \in {"sym", "start", "end"}, NEW a \in {"start", "end", "cmd"}, PutWord(f, a)
        PROVE  TypeOK' /\ InvClients'
    <3>1. [req.chunk EXCEPT ![f] = want[f]] \in Words
      BY WordTypes DEF TypeOK, Words
    <3>2. req' = [req EXCEPT !.chunk = [req.chunk EXCEPT ![f] = want[f]]]
      BY <2>1 DEF PutWord
    <3>3. req' \in [cmd : {"none", "replay", "shutdown"}, id : 0 .. MaxId, chunk : Words]
      BY <3>1, <3>2 DEF TypeOK
    <3> QED BY <2>1, <3>3 DEF PutWord, TypeOK, InvClients, workerVars
  <2> QED BY <1>2, <2>1 DEF PutPayload
<1>3. CASE Register \/ PutCommand \/ PutId \/ SeeResponse \/ ShutdownWorker
  BY <1>3
  DEF Register, PutCommand, PutId, SeeResponse, ShutdownWorker, TypeOK, InvClients,
      workerVars
<1>4. CASE ReadStatus \/ GiveUp \/ ReadFrame
  <2>1. cursor + 1 \in Nat /\ want.start + 1 \in Nat
    BY StateTypes
  <2> QED BY <1>4, <2>1 DEF ReadStatus, GiveUp, ReadFrame, TypeOK, InvClients, workerVars
<1>5. CASE Die
  BY <1>5 DEF Die, TypeOK, InvClients, workerVars
<1>6. CASE Attach
  <2>1. who + 1 \in 1 .. MaxClients /\ 0 \in 0 .. MaxId
    BY <1>6, ControlAssumption DEF Attach, InvClients, TypeOK
  <2> QED BY <1>6, <2>1 DEF Attach, TypeOK, InvClients, workerVars
<1> QED BY <1>1, <1>2, <1>3, <1>4, <1>5, <1>6 DEF ClientNext, Waiting

(* A step of the worker. *)
LEMMA WorkerTypes == ASSUME TypeOK, WorkerNext PROVE TypeOK'
<1> USE DEF Serving
<1>1. CASE CheckClient \/ LoadCommand \/ LoadId
  BY <1>1 DEF CheckClient, LoadCommand, LoadId, TypeOK, clientVars
<1>2. CASE ForgetClient \/ MarkBusy \/ AnswerFields \/ AnswerStatus \/ AnswerId
  <2>1. 0 \in 0 .. MaxClients
    BY ControlAssumption
  <2> QED BY <1>2, <2>1
          DEF ForgetClient, MarkBusy, AnswerFields, AnswerStatus, AnswerId, TypeOK,
              clientVars
<1>3. CASE GetPayload
  <2>1. ASSUME NEW f \in {"sym", "start", "end"}, NEW a \in {"start", "end", "open"}, GetWord(f, a)
        PROVE  TypeOK'
    <3>1. [job EXCEPT ![f] = req.chunk[f]] \in Words
      BY WordTypes DEF TypeOK, Words
    <3> QED BY <2>1, <3>1 DEF GetWord, TypeOK, clientVars
  <2> QED BY <1>3, <2>1 DEF GetPayload
<1>4. CASE NoFiles \/ GiveUpWaiting \/ ReplayTooSlow \/ ReplayDone
  BY <1>4 DEF NoFiles, GiveUpWaiting, ReplayTooSlow, ReplayDone, Finish, TypeOK, clientVars
<1>5. CASE ResetAnchors
  <2>1. job.start + 1 \in Nat
    BY StateTypes
  <2> QED BY <1>5, <2>1 DEF ResetAnchors, TypeOK, clientVars
<1>6. CASE CommitFrame
  <2>1. next + 1 \in Nat /\ frames + 1 \in Nat /\ Slot(next) \in Slots
    BY StateTypes, SlotOfRing
  <2>2. ring' \in [Symbols -> [Slots -> Nat]]
    BY <1>6, <2>1, StateTypes DEF CommitFrame, TypeOK
  <2> QED BY <1>6, <2>1, <2>2 DEF CommitFrame, TypeOK, clientVars
<1> QED BY <1>1, <1>2, <1>3, <1>4, <1>5, <1>6 DEF WorkerNext

-----------------------------------------------------------------------------
(* The client's steps *)

LEMMA ClientIds ==
  ASSUME IdsInv, ~DiesBusy, ClientNext PROVE InvIds'
<1>1. /\ req.id \in Nat /\ resp.id \in Nat /\ handled \in Nat /\ lastReq \in Nat
      /\ UNCHANGED <<resp, handled, wpc>> /\ InvIds
  BY StateTypes
  DEF IdsInv, ClientNext, Waiting, DrawId, Register, PutPayload, PutWord, PutCommand, PutId,
      SeeResponse, ReadStatus, GiveUp, ReadFrame, ShutdownWorker, Die, Attach, workerVars
<1> USE DEF Writing, Asking
<1>2. CASE DrawId
  BY <1>1, <1>2 DEF DrawId, NextReqId, Larger, InvIds
<1>3. ASSUME NEW f \in {"sym", "start", "end"}, NEW a, PutWord(f, a) PROVE req'.id = req.id
  BY <1>3, StateTypes DEF PutWord, IdsInv
<1>4. CASE PutPayload
  <2>1. req'.id = req.id /\ UNCHANGED lastReq
        /\ cpc \in {"sym", "start", "end"} /\ cpc' \in {"start", "end", "cmd"}
    BY <1>3, <1>4 DEF PutPayload, PutWord
  <2> QED BY <1>1, <2>1 DEF InvIds
<1>5. CASE PutId
  <2>1. req'.id = lastReq
    BY <1>5, StateTypes DEF PutId, IdsInv
  <2> QED BY <1>1, <1>5, <2>1 DEF PutId, InvIds
<1>6. CASE PutCommand \/ ShutdownWorker
  <2>1. req'.id = req.id
    BY <1>6, StateTypes DEF PutCommand, ShutdownWorker, IdsInv
  <2> QED BY <1>1, <1>6, <2>1 DEF PutCommand, ShutdownWorker, InvIds
<1>7. CASE Register \/ SeeResponse \/ ReadStatus \/ GiveUp \/ ReadFrame
  BY <1>1, <1>7 DEF Register, SeeResponse, ReadStatus, GiveUp, ReadFrame, InvIds
<1>8. CASE Die \/ Attach
  BY <1>1, <1>8 DEF Die, Attach, InvIds
<1> QED BY <1>2, <1>4, <1>5, <1>6, <1>7, <1>8 DEF ClientNext, Waiting

LEMMA ClientPayload == ASSUME ControlInv, ClientNext PROVE InvPayload'
<1> USE DEF Writing, Asking
<1>1. InvPayload
  BY DEF ControlInv, IdsInv
<1>2. CASE DrawId \/ Register \/ SeeResponse \/ ReadStatus \/ GiveUp \/ ReadFrame \/ Die \/ Attach
  BY <1>1, <1>2
  DEF InvPayload, DrawId, Register, SeeResponse, ReadStatus, GiveUp, ReadFrame, Die, Attach
<1>3. CASE PutCommand \/ PutId \/ ShutdownWorker
  <2>1. req'.chunk = req.chunk
    BY <1>3, StateTypes DEF PutCommand, PutId, ShutdownWorker, ControlInv, IdsInv
  <2> QED BY <1>1, <1>3, <2>1 DEF InvPayload, PutCommand, PutId, ShutdownWorker
<1>4. CASE PutPayload
  <2>1. ASSUME NEW f \in {"sym", "start", "end"}, NEW a, PutWord(f, a)
        PROVE  /\ req'.chunk[f] = want[f] /\ want' = want /\ cpc = f /\ cpc' = a
               /\ \A g \in {"sym", "start", "end"} \ {f} : req'.chunk[g] = req.chunk[g]
    <3>1. req'.chunk = [req.chunk EXCEPT ![f] = want[f]]
      BY <2>1, StateTypes DEF PutWord, ControlInv, IdsInv
    <3>2. DOMAIN req.chunk = {"sym", "start", "end"}
      BY DEF ControlInv, IdsInv, TypeOK, Words
    <3> QED BY <2>1, <3>1, <3>2 DEF PutWord
  <2>2. CASE PutWord("sym", "start")
    <3>1. req'.chunk.sym = want.sym /\ cpc' = "start" /\ want' = want /\ cpc = "sym"
      BY <2>1, <2>2
    <3> QED BY <1>1, <3>1 DEF InvPayload
  <2>3. CASE PutWord("start", "end")
    <3>1. /\ req'.chunk.start = want.start /\ cpc' = "end" /\ want' = want /\ cpc = "start"
          /\ req'.chunk.sym = req.chunk.sym
      BY <2>1, <2>3
    <3> QED BY <1>1, <3>1 DEF InvPayload
  <2>4. CASE PutWord("end", "cmd")
    <3>1. /\ req'.chunk.end = want.end /\ cpc' = "cmd" /\ want' = want /\ cpc = "end"
          /\ req'.chunk.sym = req.chunk.sym /\ req'.chunk.start = req.chunk.start
      BY <2>1, <2>4
    <3> QED BY <1>1, <3>1 DEF InvPayload
  <2> QED BY <1>4, <2>2, <2>3, <2>4 DEF PutPayload
<1> QED BY <1>2, <1>3, <1>4 DEF ClientNext, Waiting

(* A request is served, and its answer stands, while its client waits.     *)
LEMMA ClientService == ASSUME ControlInv, ClientNext, InvIds' PROVE InvService' /\ InvAnswer'
<1> USE DEF Writing, Asking
<1>1. /\ req.id \in Nat /\ resp.id \in Nat /\ handled \in Nat /\ lastReq \in Nat
      /\ UNCHANGED <<resp, wpc, handled, job, pFirst, next, frames, failed, ring>>
      /\ InvIds /\ InvService /\ InvAnswer
  BY StateTypes
  DEF ControlInv, IdsInv, ClientNext, Waiting, DrawId, Register, PutPayload, PutWord,
      PutCommand, PutId, SeeResponse, ReadStatus, GiveUp, ReadFrame, ShutdownWorker, Die,
      Attach, workerVars
<1>2. CASE DrawId \/ Register \/ PutPayload \/ PutCommand \/ GiveUp \/ ShutdownWorker \/ Die \/ Attach
  <2>1. cpc' \notin Asking
    BY <1>2
    DEF DrawId, Register, PutPayload, PutWord, PutCommand, GiveUp, ShutdownWorker, Die,
        Attach
  <2> QED BY <2>1 DEF InvService, InvAnswer
<1>3. CASE PutId
  <2>1. handled' # lastReq' /\ resp'.id # lastReq' /\ cpc' = "poll"
    BY <1>1, <1>3 DEF PutId, InvIds
  <2> QED BY <1>1, <2>1 DEF InvService, InvAnswer
<1>4. CASE SeeResponse \/ ReadStatus \/ ReadFrame
  <2>1. /\ UNCHANGED <<lastReq, want>> /\ resp.id = lastReq /\ handled = lastReq /\ cpc \in Asking
        /\ cpc' = "reading" => resp.status = "ready"
    BY <1>1, <1>4 DEF SeeResponse, ReadStatus, ReadFrame, InvIds, InvAnswer
  <2>2. wpc' \notin Serving
    BY <1>1, <2>1 DEF InvIds
  <2> QED BY <1>1, <2>1, <2>2 DEF InvService, InvAnswer, Whole, InRing, Counted, Span, Slot
<1> QED BY <1>2, <1>3, <1>4 DEF ClientNext, Waiting

-----------------------------------------------------------------------------
(* The worker's steps *)

LEMMA WorkerIds == ASSUME IdsInv, WorkerNext PROVE InvIds'
<1>1. /\ req.id \in Nat /\ resp.id \in Nat /\ handled \in Nat /\ lastReq \in Nat
      /\ UNCHANGED <<req, cpc, lastReq, want>> /\ InvIds
  BY StateTypes
  DEF IdsInv, WorkerNext, CheckClient, ForgetClient, LoadCommand, LoadId, MarkBusy,
      GetPayload, GetWord, NoFiles, ResetAnchors, CommitFrame, GiveUpWaiting, ReplayTooSlow,
      ReplayDone, AnswerFields, AnswerStatus, AnswerId, clientVars
<1> USE DEF Serving
<1>3. CASE LoadId
  BY <1>1, <1>3 DEF LoadId, IsNew, InvIds
<1>4. CASE AnswerId
  <2>1. resp'.id = handled
    BY <1>4, StateTypes DEF AnswerId, IdsInv
  <2> QED BY <1>1, <1>4, <2>1 DEF AnswerId, InvIds
<1>5. CASE ~LoadId /\ ~AnswerId
  <2>1. resp'.id = resp.id /\ handled' = handled
    BY <1>5, StateTypes
    DEF IdsInv, WorkerNext, CheckClient, ForgetClient, LoadCommand, MarkBusy, GetPayload,
        GetWord, NoFiles, ResetAnchors, CommitFrame, GiveUpWaiting, ReplayTooSlow,
        ReplayDone, Finish, AnswerFields, AnswerStatus
  <2>2. wpc \in Serving <=> wpc' \in Serving
    BY <1>5
    DEF WorkerNext, CheckClient, ForgetClient, LoadCommand, MarkBusy, GetPayload, GetWord,
        NoFiles, ResetAnchors, CommitFrame, GiveUpWaiting, ReplayTooSlow, ReplayDone, Finish,
        AnswerFields, AnswerStatus
  <2> QED BY <1>1, <2>1, <2>2 DEF InvIds
<1> QED BY <1>3, <1>4, <1>5

(* Of an answer that has been given nothing is taken back. *)
LEMMA WorkerAnswer == ASSUME ControlInv, WorkerNext PROVE InvAnswer'
<1> USE DEF Asking
<1>1. /\ req.id \in Nat /\ resp.id \in Nat /\ handled \in Nat /\ lastReq \in Nat
      /\ UNCHANGED <<req, cpc, lastReq, want>> /\ InvIds /\ InvService /\ InvAnswer
  BY StateTypes
  DEF ControlInv, IdsInv, WorkerNext, CheckClient, ForgetClient, LoadCommand, LoadId,
      MarkBusy, GetPayload, GetWord, NoFiles, ResetAnchors, CommitFrame, GiveUpWaiting,
      ReplayTooSlow, ReplayDone, AnswerFields, AnswerStatus, AnswerId, clientVars
<1>2. CASE AnswerId
  <2>1. /\ resp'.id = handled /\ resp'.status = resp.status /\ resp'.frames = resp.frames
        /\ ring' = ring /\ wpc = "respond" /\ wpc \in Serving
    BY <1>2, StateTypes DEF AnswerId, ControlInv, IdsInv, Serving
  <2>2. cpc # "reading" /\ cpc # "status"
    BY <1>1, <2>1 DEF InvIds
  <2>3. cpc = "poll" /\ handled = lastReq /\ resp.status = "ready" => Whole /\ Counted(resp.frames)
    BY <1>1, <2>1 DEF InvService
  <2> QED BY <1>1, <2>1, <2>2, <2>3 DEF InvAnswer, Whole, InRing, Counted, Span, Slot
<1>3. CASE wpc \in Serving /\ ~AnswerId
  <2>1. resp'.id = resp.id /\ resp.id < handled
    BY <1>1, <1>3, StateTypes
    DEF InvIds, Serving, ControlInv, IdsInv, WorkerNext, CheckClient, ForgetClient,
        LoadCommand, LoadId, MarkBusy, GetPayload, GetWord, NoFiles, ResetAnchors,
        CommitFrame, GiveUpWaiting, ReplayTooSlow, ReplayDone, Finish, AnswerFields,
        AnswerStatus
  <2>2. ~(cpc \in Asking /\ resp.id = lastReq)
    BY <1>1, <2>1 DEF InvIds
  <2>3. cpc # "reading"
    BY <1>1, <2>2 DEF InvIds
  <2> QED BY <1>1, <2>1, <2>2, <2>3 DEF InvAnswer
<1>4. CASE wpc \notin Serving
  <2>1. CheckClient \/ ForgetClient \/ LoadCommand \/ LoadId
    BY <1>4
    DEF Serving, WorkerNext, MarkBusy, GetPayload, GetWord, NoFiles, ResetAnchors,
        CommitFrame, GiveUpWaiting, ReplayTooSlow, ReplayDone, AnswerFields, AnswerStatus,
        AnswerId
  <2>2. /\ resp'.id = resp.id /\ resp'.frames = resp.frames /\ ring' = ring
        /\ resp'.status = IF resp.status = "busy" /\ ForgetClient THEN "idle" ELSE resp.status
    BY <2>1, StateTypes DEF ControlInv, IdsInv, CheckClient, ForgetClient, LoadCommand, LoadId
  <2> QED BY <1>1, <2>2 DEF InvAnswer, Whole, InRing, Counted, Span, Slot
<1> QED BY <1>2, <1>3, <1>4 DEF AnswerId, Serving

(* The frames of a chunk. *)
LEMMA ChunkSpan ==
  ASSUME TypeOK
  PROVE  /\ Cardinality(Span(want)) = IF want.end > want.start THEN want.end - want.start ELSE 0
         /\ \A n \in Span(want) : n \in Nat /\ want.start < n /\ n <= want.end
<1>1. want.start \in Nat /\ want.end \in Nat /\ want.start + 1 \in Int /\ want.end \in Int
  BY StateTypes
<1>2. Cardinality((want.start + 1) .. want.end) =
        IF want.start + 1 > want.end THEN 0 ELSE want.end - (want.start + 1) + 1
  BY <1>1, FS_Interval
<1> QED BY <1>1, <1>2 DEF Span

(* The frames of one slot are whole laps apart. *)
LEMMA SameSlot ==
  ASSUME NEW a \in Nat, NEW b \in Nat, a < b, Slot(a) = Slot(b)
  PROVE  a + MaxFrames <= b
<1> DEFINE k == MaxFrames
           qa == a \div k
           qb == b \div k
<1>1. /\ k \in Nat \ {0}
      /\ qa \in Int /\ a = (k * qa) + (a % k)
      /\ qb \in Int /\ b = (k * qb) + (b % k)
      /\ a % k \in Nat /\ a % k = b % k
  BY ControlAssumption, SMT DEF Slot
<1> HIDE DEF k, qa, qb
<1>2. b - a = (qb - qa) * k
  BY <1>1, SMT
<1>3. ~(qb - qa <= 0)
  <2> SUFFICES ASSUME qb - qa <= 0 PROVE FALSE
    OBVIOUS
  <2>1. (qb - qa) * k <= 0
    BY <1>1, SMT
  <2> QED BY <1>2, <2>1
<1>4. (qb - qa) * k >= k
  BY <1>1, <1>3, SMT
<1>5. a + k <= b
  BY <1>1, <1>2, <1>4
<1> QED BY <1>5 DEF k

(* What the worker does for a client that waits for it. *)
LEMMA WorkerService == ASSUME RequestsFit, ControlInv, WorkerNext PROVE InvService'
<1>1. /\ UNCHANGED <<req, cpc, lastReq, want>> /\ InvIds /\ InvPayload /\ InvService /\ TypeOK
  BY DEF ControlInv, IdsInv, WorkerNext, CheckClient, ForgetClient, LoadCommand, LoadId,
         MarkBusy, GetPayload, GetWord, NoFiles, ResetAnchors, CommitFrame, GiveUpWaiting,
         ReplayTooSlow, ReplayDone, AnswerFields, AnswerStatus, AnswerId, clientVars
<1> USE DEF Serving, Asking
<1> SUFFICES ASSUME cpc = "poll", wpc' \in Serving, handled' = lastReq PROVE InvService'
  BY <1>1 DEF InvService
<1>2. /\ want \in Requests /\ req.chunk.sym = want.sym /\ req.chunk.start = want.start
      /\ req.chunk.end = want.end
  BY <1>1 DEF InvPayload
<1>3. /\ want.start \in Nat /\ want.end \in Nat /\ want.sym \in Symbols
      /\ next \in Nat /\ frames \in Nat /\ MaxFrames \in Nat \ {0}
  BY <1>1, StateTypes
<1>4. CASE LoadId \/ MarkBusy
  BY <1>1, <1>4 DEF LoadId, MarkBusy, InvService
<1>5. CASE ~LoadId
  <2>1. wpc \in Serving /\ handled' = handled /\ handled = lastReq
    BY <1>1, <1>5 DEF WorkerNext, CheckClient, ForgetClient, LoadCommand, MarkBusy,
       GetPayload, GetWord, NoFiles, ResetAnchors, CommitFrame, GiveUpWaiting, ReplayTooSlow,
       ReplayDone, Finish, AnswerFields, AnswerStatus, AnswerId
  <2>2. CASE GetPayload
    <3>1. DOMAIN job = {"sym", "start", "end"}
      BY <1>1 DEF TypeOK, Words
    <3> QED BY <1>1, <1>2, <2>1, <2>2, <3>1 DEF GetPayload, GetWord, InvService
  <2>3. CASE ResetAnchors
    <3>1. job.start = want.start /\ job.sym = want.sym /\ job.end = want.end
      BY <1>1, <2>1, <2>3 DEF ResetAnchors, InvService
    <3>2. /\ wpc' = "replay" /\ pFirst' = want.start + 1 /\ lastRead' = 0 /\ failed' = FALSE
          /\ next' = want.start + 1 /\ frames' = 0 /\ job' = job
      BY <2>3, <3>1 DEF ResetAnchors
    <3> QED BY <1>1, <1>3, <3>1, <3>2 DEF InvService
  <2>4. CASE NoFiles \/ GiveUpWaiting \/ ReplayTooSlow
    <3>1. /\ wpc' = "fields" /\ failed' = TRUE /\ job' = job
          /\ job.sym = want.sym /\ job.start = want.start /\ job.end = want.end
      BY <1>1, <2>1, <2>4 DEF NoFiles, GiveUpWaiting, ReplayTooSlow, Finish, InvService
    <3> QED BY <1>1, <3>1 DEF InvService
  <2>5. ASSUME wpc = "replay"
        PROVE  /\ job.sym = want.sym /\ job.start = want.start /\ job.end = want.end
               /\ pFirst = want.start + 1 /\ lastRead = 0 /\ ~failed
               /\ next > want.start /\ frames = next - want.start - 1
               /\ next = want.start + 1 \/ next <= want.end + 1
               /\ want.sym = GatedSymbol /\ MaxFrames > 1 /\ frames > 0 => frames < MaxFrames
               /\ \A n \in Nat : want.start < n /\ n < next => InRing(n)
    BY <1>1, <2>1, <2>5 DEF InvService
  <2>6. CASE ReplayDone
    <3>1. wpc = "replay" /\ next > want.end /\ wpc' = "fields" /\ UNCHANGED <<job, frames, ring>>
      BY <2>5, <2>6 DEF ReplayDone, Finish
    <3>2. Whole /\ Counted(frames)
      BY <1>1, <1>3, <2>5, <3>1, ChunkSpan DEF Whole, Counted
    <3> QED BY <1>1, <2>5, <3>1, <3>2 DEF InvService, Whole, InRing, Counted, Span, Slot
  <2>7. CASE CommitFrame
    <3>1. /\ wpc = "replay" /\ next <= want.end
          /\ want.sym = GatedSymbol => HasRoom(next)
          /\ ring' = [ring EXCEPT ![want.sym][Slot(next)] = next]
          /\ next' = next + 1 /\ frames' = frames + 1
          /\ UNCHANGED <<wpc, job, pFirst, lastRead, failed>>
      BY <2>5, <2>7 DEF CommitFrame
    <3>2. want.sym = GatedSymbol /\ MaxFrames > 1 => frames' < MaxFrames
      BY <1>3, <2>5, <3>1 DEF HasRoom
    <3>3. next < want.start + 1 + MaxFrames
      <4>1. CASE want.sym = GatedSymbol /\ MaxFrames > 1
        BY <1>3, <2>5, <3>1, <3>2, <4>1
      <4>2. CASE want.sym # GatedSymbol \/ MaxFrames = 1
        BY <1>2, <1>3, <3>1, <4>2 DEF RequestsFit
      <4> QED BY <1>3, <4>1, <4>2
    <3>4. ASSUME NEW n \in Nat, want.start < n, n < next + 1 PROVE InRing(n)'
      <4>1. Slot(n) \in Slots /\ Slot(next) \in Slots
        BY <1>3, SlotOfRing
      <4>2. ring' [want.sym][Slot(n)] = IF Slot(n) = Slot(next) THEN next ELSE ring[want.sym][Slot(n)]
        BY <1>1, <1>3, <3>1, <4>1 DEF TypeOK
      <4>3. CASE n = next
        BY <1>1, <4>2, <4>3 DEF InRing, Slot
      <4>4. CASE n < next
        <5>1. Slot(n) # Slot(next)
          BY <1>3, <3>3, <3>4, <4>4, SameSlot
        <5> QED BY <1>1, <2>5, <3>1, <3>4, <4>2, <4>4, <5>1 DEF InRing, Slot
      <4> QED BY <1>3, <3>4, <4>3, <4>4
    <3>5. next' > want.start /\ frames' = next' - want.start - 1 /\ next' <= want.end + 1
      <4>1. next > want.start /\ frames = next - want.start - 1 /\ next <= want.end
        BY <2>5, <3>1
      <4> QED BY <1>3, <3>1, <4>1
    <3> QED BY <1>1, <2>5, <3>1, <3>2, <3>4, <3>5 DEF InvService
  <2>8. CASE AnswerFields \/ AnswerStatus
    <3>1. /\ job' = job /\ failed' = failed /\ ring' = ring
          /\ job.sym = want.sym /\ job.start = want.start /\ job.end = want.end
          /\ ~failed /\ AnswerFields => Whole /\ Counted(frames)
          /\ ~failed /\ AnswerStatus => Whole /\ Counted(resp.frames)
      BY <1>1, <2>1, <2>8 DEF AnswerFields, AnswerStatus, InvService
    <3>2. /\ AnswerFields => /\ wpc' = "status" /\ resp'.frames = IF failed THEN resp.frames ELSE frames
          /\ AnswerStatus => /\ wpc' = "respond" /\ resp'.frames = resp.frames
                             /\ resp'.status = IF failed THEN "error" ELSE "ready"
      BY <1>1, StateTypes DEF AnswerFields, AnswerStatus
    <3> QED BY <1>1, <2>8, <3>1, <3>2 DEF InvService, Whole, InRing, Counted, Span, Slot
  <2>9. ~(CheckClient \/ ForgetClient \/ LoadCommand \/ AnswerId)
    BY <2>1 DEF CheckClient, ForgetClient, LoadCommand, AnswerId
  <2> QED BY <1>4, <1>5, <2>2, <2>3, <2>4, <2>6, <2>7, <2>8, <2>9 DEF WorkerNext
<1> QED BY <1>4, <1>5

-----------------------------------------------------------------------------
(* Theorems *)

LEMMA TypesStep == ASSUME TypeOK, InvClients, [Next]_vars PROVE TypeOK' /\ InvClients'
<1>1. CASE WorkerNext
  <2>1. UNCHANGED <<cpc, who>>
    BY <1>1
    DEF WorkerNext, CheckClient, ForgetClient, LoadCommand, LoadId, MarkBusy, GetPayload,
        GetWord, NoFiles, ResetAnchors, CommitFrame, GiveUpWaiting, ReplayTooSlow,
        ReplayDone, AnswerFields, AnswerStatus, AnswerId, clientVars
  <2> QED BY <1>1, <2>1, WorkerTypes DEF InvClients
<1>2. CASE UNCHANGED vars
  BY <1>2 DEF vars, clientVars, workerVars, TypeOK, InvClients
<1> QED BY <1>1, <1>2, ClientTypes DEF Next

LEMMA IdsStep == ASSUME ~DiesBusy, IdsInv, [Next]_vars PROVE IdsInv'
<1>1. TypeOK' /\ InvClients'
  BY TypesStep DEF IdsInv
<1>2. CASE UNCHANGED vars
  BY <1>1, <1>2 DEF vars, clientVars, workerVars, IdsInv, InvIds
<1> QED BY <1>1, <1>2, ClientIds, WorkerIds DEF IdsInv, Next

LEMMA ControlStep ==
  ASSUME RequestsFit, ~DiesBusy, ControlInv, [Next]_vars PROVE ControlInv'
<1>1. IdsInv'
  BY IdsStep DEF ControlInv
<1>2. CASE ClientNext
  BY <1>1, <1>2, ClientPayload, ClientService DEF ControlInv, IdsInv
<1>3. CASE WorkerNext
  <2>1. InvPayload'
    BY <1>3
    DEF ControlInv, InvPayload, WorkerNext, CheckClient, ForgetClient, LoadCommand, LoadId,
        MarkBusy, GetPayload, GetWord, NoFiles, ResetAnchors, CommitFrame, GiveUpWaiting,
        ReplayTooSlow, ReplayDone, AnswerFields, AnswerStatus, AnswerId, clientVars
  <2> QED BY <1>1, <1>3, <2>1, WorkerAnswer, WorkerService DEF ControlInv
<1>4. CASE UNCHANGED vars
  BY <1>1, <1>4
  DEF vars, clientVars, workerVars, ControlInv, InvPayload, InvService, InvAnswer, Whole,
      InRing, Counted, Span, Slot
<1> QED BY <1>2, <1>3, <1>4 DEF Next

(* Every word, counter and program position of the client and the worker   *)
(* keeps its type.                                                         *)
THEOREM TypeCorrect == Spec => []TypeOK
<1>1. Init => TypeOK /\ InvClients
  BY InitControl DEF ControlInv, IdsInv
<1>2. TypeOK /\ InvClients /\ [Next]_vars => TypeOK' /\ InvClients'
  BY TypesStep
<1> QED BY <1>1, <1>2, PTL DEF Spec

(* While a client reads its chunk the worker serves nothing: no request    *)
(* that was given up is picked up late, and none is served twice.          *)
THEOREM NoServiceWhileReading == ~DiesBusy => (Spec => []QuietWhileReading)
<1> SUFFICES ASSUME ~DiesBusy PROVE Spec => []QuietWhileReading
  OBVIOUS
<1>1. Init => IdsInv
  BY InitControl DEF ControlInv
<1>2. IdsInv /\ [Next]_vars => IdsInv'
  BY IdsStep
<1>3. IdsInv => QuietWhileReading
  <2> SUFFICES ASSUME IdsInv, cpc = "reading" PROVE wpc \notin Serving
    BY DEF QuietWhileReading
  <2>1. resp.id = req.id /\ resp.id <= handled /\ handled <= req.id
    BY DEF IdsInv, InvIds, Asking
  <2>2. resp.id \in Nat /\ handled \in Nat /\ req.id \in Nat
    BY StateTypes DEF IdsInv
  <2> QED BY <2>1, <2>2 DEF IdsInv, InvIds
<1> QED BY <1>1, <1>2, <1>3, PTL DEF Spec

(* request_chunk's return can be relied on: from then on, until the client *)
(* asks again, the ring holds every frame of the chunk it asked for and    *)
(* the count it was given is that chunk's.  The requests of symbols whose  *)
(* rows nobody waits for have to fit in the ring, and no client dies with  *)
(* a request outstanding.                                                  *)
THEOREM ChunksReadable == RequestsFit /\ ~DiesBusy => (Spec => []ChunkReadable)
<1> SUFFICES ASSUME RequestsFit, ~DiesBusy PROVE Spec => []ChunkReadable
  OBVIOUS
<1>1. ControlInv /\ [Next]_vars => ControlInv'
  BY ControlStep
<1>2. ControlInv => ChunkReadable
  BY DEF ControlInv, IdsInv, InvIds, InvAnswer, Asking, Whole, InRing, Counted, ChunkReadable
<1> QED BY <1>1, <1>2, InitControl, PTL DEF Spec
=============================================================================
