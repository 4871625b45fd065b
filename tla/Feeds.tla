--------------------------------- MODULE Feeds ---------------------------------
(***************************************************************************)
(* The live feed of the daemon: the FeedManager (cmd/tickhub/daemon.go)     *)
(* that the control handler of the metrics server switches on and off, the  *)
(* websocket client with its readPump (pkg/feed/massive_ws.go), the         *)
(* forwarder between the client's channel and the daemon's, the main loop   *)
(* that takes the ticks, asks for FeedStatus and shuts the daemon down, and *)
(* the raw spooler beside them.                                             *)
(*                                                                         *)
(* EnableFeed and DisableFeed hold FeedManager.mu for as long as they last, *)
(* dial, authentication and joins included, so there is one client at a     *)
(* time and its state needs no name.  A websocket message is its number and *)
(* carries up to Batch ticks, numbered through.                             *)
(***************************************************************************)
EXTENDS RawSpooler

CONSTANTS
  ClientRoom,   \* capacity of tickChan, 65536
  DaemonRoom,   \* capacity of tickCh, 65536
  Batch,        \* bound: ticks in one message
  MaxRetries,   \* maxRetries, 10
  Jobs          \* daemons to look at, with their bounds: messages the server
                \* sends, requests to enable; a spooler or none; breaks or none

ASSUME FeedsAssumption ==
  /\ ClientRoom \in Nat \ {0} /\ DaemonRoom \in Nat \ {0} /\ Batch \in Nat
  /\ MaxRetries \in Nat
  /\ Jobs \subseteq [spool : BOOLEAN, messages : Nat, ticks : 0 .. Batch, enables : Nat, breaks : BOOLEAN]

VARIABLES
  job,        \* the daemon's job
  frames,     \* messages read so far
  before,     \* messages recorded before the signal
  mu,         \* FeedManager.mu: "free" or its owner, "handler" or "main"
  enabled,    \* FeedManager.enabled
  cancelled,  \* clientCtx cancelled and stopChan closed, of the client
  conn,       \* the client's conn: "nil", "open", "dead" (closed or severed)
  hpc,        \* the control handler
  dpc,        \* DisableFeed, of the owner of mu: "none", "close", "pump", "fw"
  mpc,        \* main: "loop", "status", then the deferred calls, "ended"
  rp,         \* readPump; "ended" before the first client too
  retry,      \* retryCount
  fails,      \* connection attempts that failed in a row
  rest,       \* ticks of the message readPump has still to deliver
  tickChan,   \* the client's channel
  fw,         \* forwarder: "take", "hand", "ended"
  hand,       \* <<tick in its hand>>
  tickCh,     \* the FeedManager's channel
  last,       \* the last tick main ingested
  sessions    \* enable requests made

clientVars == <<conn, rp, retry, fails, rest, tickChan>>
forwardVars == <<fw, hand, tickCh>>
ctlVars == <<mu, enabled, cancelled, hpc, dpc, sessions>>
mainVars == <<mpc, last>>
envVars == <<job, rootDone, before>>
vars == <<spoolVars, envVars, frames, clientVars, forwardVars, ctlVars, mainVars>>

Init ==
  /\ job \in Jobs
  /\ SpoolInit /\ spooling = job.spool
  /\ frames = 0 /\ before = 0 /\ sessions = 0
  /\ mu = "free" /\ enabled = FALSE /\ cancelled = FALSE
  /\ hpc = "idle" /\ dpc = "none" /\ mpc = "loop" /\ last = 0
  /\ conn = "nil" /\ rp = "ended" /\ retry = 0 /\ fails = 0 /\ rest = <<>>
  /\ tickChan = <<>> /\ fw = "ended" /\ hand = <<>> /\ tickCh = <<>>

(* clientCtx is derived from the context of the daemon. *)
Done == cancelled \/ rootDone

-----------------------------------------------------------------------------
(* The control handler: EnableFeed *)

(* POST /control/feed?action=op, while the server still listens. *)
HandlerCall(op) ==
  /\ hpc = "idle" /\ mpc \in {"loop", "status"}
  /\ op = "enable" => sessions < job.enables
  /\ sessions' = IF op = "enable" THEN sessions + 1 ELSE sessions
  /\ hpc' = op
  /\ UNCHANGED <<spoolVars, envVars, frames, clientVars, forwardVars, mainVars,
                 mu, enabled, cancelled, dpc>>

(* EnableFeed takes mu; a new client and a new context unless enabled. *)
EnableBegin ==
  /\ hpc = "enable" /\ mu = "free"
  /\ IF enabled
       THEN hpc' = "answer" /\ UNCHANGED <<mu, cancelled, clientVars>>
       ELSE /\ mu' = "handler" /\ hpc' = "dial"
            /\ cancelled' = FALSE
            /\ conn' = "nil" /\ retry' = 0 /\ fails' = 0
            /\ rest' = <<>> /\ tickChan' = <<>> /\ rp' = "ended"
  /\ UNCHANGED <<spoolVars, envVars, frames, forwardVars, mainVars, enabled, dpc, sessions>>

(* The error paths of Start: clientCancel, unlock, HTTP 500. *)
EnableFails ==
  /\ hpc \in {"dial", "auth"}
  /\ conn' = IF hpc = "auth" THEN "dead" ELSE conn
  /\ cancelled' = TRUE
  /\ mu' = "free" /\ hpc' = "idle"
  /\ UNCHANGED <<spoolVars, envVars, frames, forwardVars, mainVars, enabled, dpc, sessions,
                 rp, retry, fails, rest, tickChan>>

(* DialContext succeeds only under a live context. *)
EnableDials ==
  /\ hpc = "dial" /\ ~rootDone
  /\ conn' = "open" /\ hpc' = "auth"
  /\ UNCHANGED <<spoolVars, envVars, frames, forwardVars, mainVars, mu, enabled, cancelled,
                 dpc, sessions, rp, retry, fails, rest, tickChan>>

(* Authenticated and subscribed: readPump and the forwarder are started. *)
EnableStarts ==
  /\ hpc = "auth" /\ conn = "open"
  /\ rp' = "top" /\ fw' = "take" /\ hand' = <<>>
  /\ enabled' = TRUE
  /\ mu' = "free" /\ hpc' = "answer"
  /\ UNCHANGED <<spoolVars, envVars, frames, mainVars, cancelled, dpc, sessions, tickCh,
                 conn, retry, fails, rest, tickChan>>

(* FeedStatus of the answer. *)
HandlerAnswer ==
  /\ hpc = "answer" /\ mu = "free"
  /\ hpc' = "idle"
  /\ UNCHANGED <<spoolVars, envVars, frames, clientVars, forwardVars, mainVars,
                 mu, enabled, cancelled, dpc, sessions>>

-----------------------------------------------------------------------------
(* DisableFeed, of the handler and of the shutdown *)

Owners == {"handler", "main"}

Wants(who) == IF who = "handler" THEN hpc = "disable" ELSE mpc = "disable"

(* The owner goes on after DisableFeed. *)
Returns(who) ==
  /\ hpc' = IF who = "handler" THEN "answer" ELSE hpc
  /\ mpc' = IF who = "main" THEN "spooler" ELSE mpc

(* mu taken, clientCancel, close(stopChan). *)
DisableBegin(who) ==
  /\ Wants(who) /\ mu = "free"
  /\ IF enabled
       THEN /\ mu' = who /\ cancelled' = TRUE /\ dpc' = "close"
            /\ UNCHANGED <<hpc, mpc>>
       ELSE Returns(who) /\ UNCHANGED <<mu, cancelled, dpc>>
  /\ UNCHANGED <<spoolVars, envVars, frames, clientVars, forwardVars, enabled, sessions, last>>

(* Fault: Close leaves the connection to readPump. *)
DisableLeavesConn ==
  /\ dpc = "close"
  /\ dpc' = "pump"
  /\ UNCHANGED <<spoolVars, envVars, frames, clientVars, forwardVars, mainVars, mu, enabled,
                 cancelled, hpc, sessions>>

(* Client.Close under the client's mutex. *)
DisableClosesConn ==
  /\ dpc = "close"
  /\ conn' = "nil" /\ dpc' = "pump"
  /\ UNCHANGED <<spoolVars, envVars, frames, forwardVars, mainVars, mu, enabled, cancelled, hpc,
                 sessions, rp, retry, fails, rest, tickChan>>

(* c.wg.Wait() *)
DisableJoinsPump ==
  /\ dpc = "pump" /\ rp = "ended"
  /\ enabled' = FALSE /\ dpc' = "fw"
  /\ UNCHANGED <<spoolVars, envVars, frames, clientVars, forwardVars, mainVars, mu, cancelled,
                 hpc, sessions>>

(* fm.wg.Wait(), unlock. *)
DisableJoinsForwarder ==
  /\ dpc = "fw" /\ fw = "ended"
  /\ mu' = "free" /\ dpc' = "none" /\ Returns(mu)
  /\ UNCHANGED <<spoolVars, envVars, frames, clientVars, forwardVars, enabled, cancelled,
                 sessions, last>>

-----------------------------------------------------------------------------
(* The server side of the connection *)

(* The connection breaks; readPump learns of it by the failing read.       *)
Sever ==
  /\ job.breaks /\ conn = "open"
  /\ conn' = "dead"
  /\ UNCHANGED <<spoolVars, envVars, frames, forwardVars, ctlVars, mainVars,
                 rp, retry, fails, rest, tickChan>>

-----------------------------------------------------------------------------
(* readPump *)

pumpElse == <<spoolVars, envVars, forwardVars, ctlVars, mainVars>>

(* The select at the head of the loop, and conn read under the mutex. *)
PumpTop ==
  /\ rp = "top"
  /\ rp' = IF Done \/ conn = "nil" THEN "ending" ELSE "read"
  /\ UNCHANGED <<pumpElse, frames, conn, retry, fails, rest, tickChan>>

(* ReadMessage, spooler.Record and ParseMassiveEvents. *)
PumpRead ==
  /\ rp = "read" /\ conn = "open" /\ frames < job.messages
  /\ frames' = frames + 1
  /\ Record(frames + 1)
  /\ \E k \in 0 .. job.ticks : rest' = [i \in 1 .. k |-> frames * Batch + i]
  /\ rp' = "deliver"
  /\ UNCHANGED <<spooling, job, rootDone, date, failed, spoolStop, spc, draining, pkt, fileVars, counted,
                 before, forwardVars, ctlVars, mainVars, conn, retry, fails, tickChan>>

(* ReadMessage returns an error. *)
PumpReadFails ==
  /\ rp = "read" /\ conn # "open"
  /\ rp' = IF Done THEN "ending" ELSE "backoff"
  /\ UNCHANGED <<pumpElse, frames, conn, retry, fails, rest, tickChan>>

(* The select over the timer and the two stop channels, or "Permanent      *)
(* failure"; the timer may win although the client has been stopped.       *)
PumpBackoff ==
  /\ rp = "backoff"
  /\ \/ /\ Done \/ retry = MaxRetries
        /\ rp' = "ending" /\ UNCHANGED retry
     \/ /\ retry < MaxRetries
        /\ rp' = "dial" /\ retry' = retry + 1
  /\ UNCHANGED <<pumpElse, frames, conn, fails, rest, tickChan>>

PumpDials ==
  /\ rp = "dial" /\ ~Done
  /\ rp' = "dialed"
  /\ UNCHANGED <<pumpElse, frames, conn, retry, fails, rest, tickChan>>

(* The new connection becomes c.conn, even if Close has come and gone.     *)
PumpStores ==
  /\ rp = "dialed"
  /\ conn' = "open" /\ rp' = "auth"
  /\ UNCHANGED <<pumpElse, frames, retry, fails, rest, tickChan>>

(* Dial, authentication or subscription fails: conn.Close, the next try.   *)
PumpConnectFails ==
  /\ rp \in {"dial", "auth"}
  /\ conn' = IF rp = "auth" /\ conn = "open" THEN "dead" ELSE conn
  /\ fails' = fails + 1
  /\ rp' = "backoff"
  /\ UNCHANGED <<pumpElse, frames, retry, rest, tickChan>>

(* Fault: retryCount is not reset by a reconnection. *)
PumpReconnectsKeepingCount ==
  /\ rp = "auth" /\ conn = "open"
  /\ fails' = 0
  /\ rp' = "top"
  /\ UNCHANGED <<pumpElse, frames, conn, retry, rest, tickChan>>

PumpReconnects ==
  /\ rp = "auth" /\ conn = "open"
  /\ retry' = 0 /\ fails' = 0
  /\ rp' = "top"
  /\ UNCHANGED <<pumpElse, frames, conn, rest, tickChan>>

(* One tick into tickChan, or a stop signal, whichever select picks. *)
PumpDelivers ==
  /\ rp = "deliver"
  /\ \/ rest = <<>> /\ rp' = "top" /\ UNCHANGED <<rest, tickChan>>
     \/ /\ rest # <<>> /\ Len(tickChan) < ClientRoom
        /\ tickChan' = Append(tickChan, Head(rest)) /\ rest' = Tail(rest)
        /\ UNCHANGED rp
     \/ /\ rest # <<>> /\ Done
        /\ rp' = "ending" /\ rest' = <<>> /\ UNCHANGED tickChan
  /\ UNCHANGED <<pumpElse, frames, conn, retry, fails>>

(* Fault: readPump returns without its deferred close. *)
PumpEndsOpen ==
  /\ rp = "ending"
  /\ rp' = "ended"
  /\ UNCHANGED <<pumpElse, frames, conn, retry, fails, rest, tickChan>>

(* The deferred close of the connection and of tickChan. *)
PumpEnds ==
  /\ rp = "ending"
  /\ conn' = "nil" /\ rp' = "ended"
  /\ UNCHANGED <<pumpElse, frames, retry, fails, rest, tickChan>>

Pump == \/ PumpTop \/ PumpReadFails \/ PumpBackoff \/ PumpDials \/ PumpStores
        \/ PumpConnectFails \/ PumpReconnects \/ PumpDelivers \/ PumpEnds

-----------------------------------------------------------------------------
(* The forwarder of EnableFeed *)

forwardElse == <<spoolVars, envVars, frames, ctlVars, mainVars, conn, rp, retry, fails, rest>>

ForwardTakes ==
  /\ fw = "take" /\ tickChan # <<>>
  /\ hand' = <<Head(tickChan)>> /\ tickChan' = Tail(tickChan)
  /\ fw' = "hand"
  /\ UNCHANGED <<forwardElse, tickCh>>

(* Cancelled, or tickChan closed and empty. *)
ForwardEnds ==
  /\ fw = "take"
  /\ Done \/ (rp = "ended" /\ tickChan = <<>>)
  /\ fw' = "ended"
  /\ UNCHANGED <<forwardElse, tickChan, hand, tickCh>>

(* Fault: a tick that finds tickCh full goes back into tickChan. *)
ForwardRequeues ==
  /\ fw = "hand"
  /\ \/ /\ Len(tickCh) < DaemonRoom
        /\ tickCh' = tickCh \o hand /\ UNCHANGED tickChan
     \/ /\ Len(tickCh) = DaemonRoom /\ Len(tickChan) < ClientRoom
        /\ tickChan' = tickChan \o hand /\ UNCHANGED tickCh
  /\ fw' = "take" /\ hand' = <<>>
  /\ UNCHANGED forwardElse

ForwardHands ==
  /\ fw = "hand" /\ Len(tickCh) < DaemonRoom
  /\ tickCh' = tickCh \o hand /\ hand' = <<>>
  /\ fw' = "take"
  /\ UNCHANGED <<forwardElse, tickChan>>

(* Fault: the hand-over waits for room only. *)
ForwardWaits ==
  /\ fw = "hand" /\ Done /\ Len(tickCh) < DaemonRoom
  /\ hand' = <<>> /\ fw' = "ended"
  /\ UNCHANGED <<forwardElse, tickChan, tickCh>>

(* Cancelled with a tick in hand: the tick is lost. *)
ForwardGivesUp ==
  /\ fw = "hand" /\ Done
  /\ hand' = <<>> /\ fw' = "ended"
  /\ UNCHANGED <<forwardElse, tickChan, tickCh>>

Forwarder == ForwardTakes \/ ForwardEnds \/ ForwardHands \/ ForwardGivesUp

-----------------------------------------------------------------------------
(* The main loop and the shutdown *)

mainElse == <<envVars, frames, clientVars, ctlVars, fw, hand>>

MainIngests ==
  /\ mpc = "loop" /\ tickCh # <<>>
  /\ last' = Head(tickCh) /\ tickCh' = Tail(tickCh)
  /\ UNCHANGED <<mainElse, spoolVars, mpc>>

(* The report of flushNow, every 5 s: FeedStatus waits for mu. *)
MainAsksStatus ==
  /\ mpc = "loop" /\ mpc' = "status"
  /\ UNCHANGED <<mainElse, spoolVars, tickCh, last>>

MainHasStatus ==
  /\ mpc = "status" /\ mu = "free" /\ mpc' = "loop"
  /\ UNCHANGED <<mainElse, spoolVars, tickCh, last>>

(* ctx.Done; the server is stopped, then the deferred feedMgr.Close runs. *)
MainHalts ==
  /\ mpc = "loop" /\ rootDone /\ mpc' = "disable"
  /\ UNCHANGED <<mainElse, spoolVars, tickCh, last>>

(* The deferred rawSpooler.Close. *)
MainClosesSpooler ==
  /\ mpc = "spooler" /\ mpc' = "wait"
  /\ spoolStop' = TRUE
  /\ UNCHANGED <<mainElse, tickCh, last, spooling, date, queue, dropped, failed, spc, draining, pkt,
                 fileVars, counted>>

(* The writer has ended, or 5 s have passed; the process exits. *)
MainEnds ==
  /\ mpc = "wait" /\ mpc' = "ended"
  /\ UNCHANGED <<mainElse, spoolVars, tickCh, last>>

(* SIGTERM or SIGINT, through signal.NotifyContext. *)
Signal ==
  /\ ~rootDone
  /\ rootDone' = TRUE /\ before' = frames
  /\ UNCHANGED <<job, spoolVars, frames, clientVars, forwardVars, ctlVars, mainVars>>

-----------------------------------------------------------------------------
Running == mpc # "ended"

Enable == EnableBegin \/ EnableFails \/ EnableDials \/ EnableStarts
DisableJoins == DisableClosesConn \/ DisableJoinsPump \/ DisableJoinsForwarder
Disable == DisableJoins \/ \E who \in Owners : DisableBegin(who)
Main == \/ MainIngests \/ MainAsksStatus \/ MainHasStatus \/ MainHalts
        \/ MainClosesSpooler \/ MainEnds
feedVars == <<job, frames, before, clientVars, forwardVars, ctlVars, mainVars>>

Next ==
  /\ Running
  /\ \/ \E op \in {"enable", "disable"} : HandlerCall(op)
     \/ Enable \/ HandlerAnswer \/ Disable
     \/ Sever \/ PumpRead \/ Pump \/ Forwarder \/ Main \/ Signal
     \/ (SpoolWriter \/ SpoolFlush \/ NextDay) /\ UNCHANGED feedVars

Spec == Init /\ [][Next]_vars

(* The owner of mu, readPump, the forwarder and the deferred calls go on.  *)
(* What contends again and again gets its turn: FeedStatus for mu          *)
(* (sync.Mutex hands over to a waiter that starves), the cancelled context *)
(* in the select of the main loop (select picks at random).  Once main is  *)
(* in its deferred calls the server listens no more, so that it meets at   *)
(* most one request at mu.  Nothing is assumed of the server, the requests,*)
(* the signal, the clock and the spooler.                                  *)
OwnerGoesOn == EnableDials \/ EnableStarts \/ EnableFails \/ DisableJoins
MainGoesOn == DisableBegin("main") \/ MainClosesSpooler \/ MainEnds
Fairness ==
  /\ WF_vars(Running /\ OwnerGoesOn)
  /\ WF_vars(Running /\ Pump)
  /\ WF_vars(Running /\ Forwarder)
  /\ WF_vars(Running /\ MainGoesOn)
  /\ SF_vars(Running /\ MainHasStatus)
  /\ SF_vars(Running /\ MainHalts)

FairSpec == Spec /\ Fairness

-----------------------------------------------------------------------------
(* Properties *)

TickPipe == tickCh \o hand \o tickChan \o rest

(* Every channel, counter and program position keeps its type. *)
TypeOK ==
  /\ job \in Jobs /\ spooling = job.spool
  /\ SpoolTypeOK(frames) /\ frames \in 0 .. job.messages /\ before \in 0 .. frames
  /\ mu \in Owners \cup {"free"} /\ enabled \in BOOLEAN /\ cancelled \in BOOLEAN
  /\ conn \in {"nil", "open", "dead"}
  /\ hpc \in {"idle", "enable", "disable", "dial", "auth", "answer"}
  /\ dpc \in {"none", "close", "pump", "fw"}
  /\ mpc \in {"loop", "status", "disable", "spooler", "wait", "ended"}
  /\ rp \in {"top", "read", "backoff", "dial", "dialed", "auth", "deliver", "ending", "ended"}
  /\ retry \in 0 .. MaxRetries /\ fails \in 0 .. MaxRetries
  /\ fw \in {"take", "hand", "ended"} /\ Len(hand) = IF fw = "hand" THEN 1 ELSE 0
  /\ Len(tickChan) <= ClientRoom /\ Len(tickCh) <= DaemonRoom /\ Len(rest) <= Batch
  /\ ToSet(TickPipe) \cup {last} \subseteq 0 .. job.messages * Batch
  /\ sessions \in 0 .. job.enables

(* The daemon ingests the ticks in the order of reception, none twice,     *)
(* through two channels and a forwarder, over reconnections and over       *)
(* clients that are switched off with ticks under way and replaced.        *)
TicksInOrder == Increasing(<<last>> \o TickPipe)

(* A feed that DisableFeed has switched off, or that EnableFeed failed to  *)
(* switch on, leaves no goroutine and no open connection behind, whatever  *)
(* the client was doing, a reconnection that overtook Close included.      *)
QuietWhenDisabled ==
  ~enabled /\ mu = "free" => rp = "ended" /\ fw = "ended" /\ conn # "open"

(* An enabled feed loses its readPump only by a signal or by MaxRetries    *)
(* failed attempts to connect with no success between them: earlier breaks *)
(* of the connection that were repaired do not count.                      *)
FedUntilGivenUp ==
  enabled /\ ~Done /\ rp \in {"ending", "ended"} => fails = MaxRetries

(* When the writer has ended, every frame recorded before the signal is in *)
(* a file, or was counted as dropped, or met a file that did not open; and *)
(* packetsWritten, which SpoolStats exports, is the number of frames in    *)
(* the files, so that nothing stayed behind in a buffer.                   *)
DrainedAtShutdown ==
  spc = "ended" =>
    /\ 1 .. before \subseteq OnDisk \cup dropped \cup failed
    /\ counted = Cardinality(OnDisk)

(* Whoever holds FeedManager.mu gives it back, although EnableFeed dials   *)
(* and DisableFeed waits for two goroutines under it, of which one may     *)
(* wait for the main loop and the main loop for mu.                        *)
ControlReturns == (mu # "free") ~> (mu = "free" \/ ~Running)

(* After the signal the daemon exits, whatever the feed, a request that    *)
(* holds mu or the silent server are doing.                                *)
ShutdownCompletes == rootDone ~> ~Running
=============================================================================
