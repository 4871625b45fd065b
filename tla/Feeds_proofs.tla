------------------------------ MODULE Feeds_proofs ------------------------------
(***************************************************************************)
(* What the live feed promises, for channels of any size, messages of any  *)
(* number of ticks, any number of retries, of requests and of dates: the   *)
(* order of the ticks, a feed that is quiet when it is off and kept up     *)
(* when it is on, and a spooler that accounts for every frame.             *)
(***************************************************************************)
EXTENDS Feeds, FiniteSetTheorems, TLAPS

-----------------------------------------------------------------------------
(* The inductive invariant *)

InvTypes ==
  /\ job \in Jobs /\ rootDone \in BOOLEAN /\ enabled \in BOOLEAN /\ cancelled \in BOOLEAN
  /\ mu \in Owners \cup {"free"}
  /\ conn \in {"nil", "open", "dead"}
  /\ hpc \in {"idle", "enable", "disable", "dial", "auth", "answer"}
  /\ dpc \in {"none", "close", "pump", "fw"}
  /\ mpc \in {"loop", "status", "disable", "spooler", "wait", "ended"}
  /\ rp \in {"top", "read", "backoff", "dial", "dialed", "auth", "deliver", "ending", "ended"}
  /\ fw \in {"take", "hand", "ended"}
  /\ retry \in 0 .. MaxRetries /\ fails \in 0 .. MaxRetries
  /\ sessions \in 0 .. job.enables
  /\ frames \in 0 .. job.messages /\ before \in 0 .. frames

(* FeedManager.mu is held by an EnableFeed that is dialing or by a         *)
(* DisableFeed that has cancelled the client; a feed that is off, and not  *)
(* on its way, has nothing running.                                        *)
InvOwner ==
  /\ dpc # "none" =>
       /\ cancelled
       /\ (mu = "handler" /\ hpc = "disable") \/ (mu = "main" /\ mpc = "disable")
  /\ mu = "main" => dpc # "none"
  /\ mu = "handler" => dpc # "none" \/ hpc \in {"dial", "auth"}
  /\ mu = "free" => dpc = "none"
  /\ hpc \in {"dial", "auth"} => mu = "handler" /\ ~enabled /\ retry = 0 /\ fails = 0
  /\ hpc = "dial" => conn = "nil"
  /\ dpc \in {"close", "pump"} => enabled
  /\ dpc = "fw" => ~enabled
  /\ ~enabled => rp = "ended" /\ (dpc = "none" => fw = "ended")
  /\ rp = "ended" /\ hpc \notin {"dial", "auth"} => conn # "open"
  /\ mpc \notin {"loop", "status"} => rootDone

(* retryCount and the failed attempts go together; readPump finds its      *)
(* connection for as long as the client has not been stopped.              *)
InvRetry ==
  /\ rp \in {"top", "read", "deliver"} => retry = 0 /\ fails = 0
  /\ rp = "backoff" => retry = fails
  /\ rp \in {"dial", "dialed", "auth"} => retry = fails + 1
  /\ rp # "ended" /\ ~Done => conn # "nil"
  /\ FedUntilGivenUp

(* The sequences between the connection and the daemon hold rising         *)
(* numbers, and each follows on the one it is emptied into.                *)
InvTicks ==
  /\ tickCh \in Seq(Nat) /\ tickChan \in Seq(Nat) /\ rest \in Seq(Nat) /\ last \in Nat
  /\ Len(tickChan) <= ClientRoom /\ Len(tickCh) <= DaemonRoom /\ Len(rest) <= Batch
  /\ hand = <<>> \/ \E x \in Nat : hand = <<x>>
  /\ fw = "hand" <=> hand # <<>>
  /\ rp # "deliver" => rest = <<>>
  /\ Increasing(tickCh) /\ Increasing(tickChan) /\ Increasing(rest)
  /\ Precedes(tickCh, hand) /\ Precedes(tickCh, tickChan) /\ Precedes(tickCh, rest)
  /\ Precedes(hand, tickChan) /\ Precedes(hand, rest) /\ Precedes(tickChan, rest)
  /\ last <= frames * Batch
  /\ \A x \in ToSet(tickCh) \cup ToSet(hand) \cup ToSet(tickChan) \cup ToSet(rest) :
       last < x /\ x <= frames * Batch

Below(S, T) == \A x \in S, y \in T : x < y
Held == IF spc = "write" THEN {pkt} ELSE {}

(* The files, the buffer, the packet in hand and the queue follow on one   *)
(* another; the files of the dates to come are empty.                      *)
InvSpool ==
  /\ spooling = job.spool /\ spoolStop \in BOOLEAN /\ draining \in BOOLEAN
  /\ spc \in {"wait", "write", "ended"} /\ pkt \in 0 .. frames
  /\ date \in Dates /\ file \in 0 .. date
  /\ queue \in Seq(Nat) /\ buffer \in Seq(Nat) /\ disk \in [Dates -> Seq(Nat)]
  /\ Len(queue) <= QueueSize
  /\ ToSet(queue) \cup ToSet(buffer) \cup OnDisk \cup Held \cup dropped \cup failed
       \subseteq 1 .. frames
  /\ file = NoFile => buffer = <<>>
  /\ \A d \in Dates : (file # NoFile /\ file < d) \/ date < d => disk[d] = <<>>
  /\ Increasing(queue) /\ Increasing(buffer) /\ \A d \in Dates : Increasing(disk[d])
  /\ \A d \in Dates, e \in Dates : d < e => Below(ToSet(disk[d]), ToSet(disk[e]))
  /\ Below(OnDisk, ToSet(buffer)) /\ Below(OnDisk, Held) /\ Below(OnDisk, ToSet(queue))
  /\ Below(ToSet(buffer), Held) /\ Below(ToSet(buffer), ToSet(queue)) /\ Below(Held, ToSet(queue))

(* Every frame is somewhere, and packetsWritten counts those written; the  *)
(* writer ends only after the signal.                                      *)
InvAccount ==
  /\ spooling => 1 .. frames \subseteq OnDisk \cup ToSet(buffer) \cup Held \cup ToSet(queue)
                                         \cup dropped \cup failed
  /\ counted = Cardinality(OnDisk \cup ToSet(buffer))
  /\ spoolStop \/ draining => rootDone
  /\ draining => spooling
  /\ spc = "ended" =>
       draining /\ buffer = <<>> /\ 1 .. before \subseteq OnDisk \cup dropped \cup failed

FeedInv == InvTypes /\ InvOwner /\ InvRetry /\ InvTicks /\ InvSpool /\ InvAccount

-----------------------------------------------------------------------------
(* The control flow: who holds mu, what runs, what was retried *)

USE DEF Owners, clientVars, forwardVars, ctlVars, mainVars, envVars, spoolVars, fileVars,
        pumpElse, forwardElse, mainElse, feedVars, Running, Done

Control == InvTypes /\ InvOwner /\ InvRetry

(* What the spooler, the forwarder's sequences and the clock do changes    *)
(* nothing of the control flow.                                            *)
controlVars == <<job, rootDone, enabled, cancelled, mu, conn, hpc, dpc, mpc, rp, fw, retry, fails,
                 sessions, frames, before>>

LEMMA ControlKept ==
  ASSUME Control, UNCHANGED controlVars
  PROVE  Control'
BY DEF Control, controlVars, InvTypes, InvOwner, InvRetry, FedUntilGivenUp

LEMMA ControlRequests ==
  ASSUME Control, Running,
         \/ \E op \in {"enable", "disable"} : HandlerCall(op)
         \/ Enable \/ HandlerAnswer
  PROVE  Control'
<1> USE DEF Control, InvTypes, InvOwner, InvRetry, FedUntilGivenUp
<1>0. job \in [spool : BOOLEAN, messages : Nat, ticks : 0 .. Batch, enables : Nat,
               breaks : BOOLEAN] /\ MaxRetries \in Nat
  BY FeedsAssumption
<1>1. ASSUME NEW op \in {"enable", "disable"}, HandlerCall(op) PROVE Control'
  BY <1>0, <1>1 DEF HandlerCall
<1>2. CASE EnableBegin
  <2>1. CASE enabled
    BY <1>2, <2>1 DEF EnableBegin
  <2>2. CASE ~enabled
    <3>1. 0 \in 0 .. MaxRetries
      BY <1>0
    <3>2. InvTypes'
      BY <3>1, <1>2, <2>2 DEF EnableBegin
    <3>3. InvOwner' /\ InvRetry'
      BY <1>2, <2>2 DEF EnableBegin
    <3> QED BY <3>2, <3>3
  <2> QED BY <2>1, <2>2
<1>3. CASE EnableFails
  BY <1>0, <1>3 DEF EnableFails
<1>4. CASE EnableDials
  BY <1>0, <1>4 DEF EnableDials
<1>5. CASE EnableStarts
  BY <1>0, <1>5 DEF EnableStarts
<1>6. CASE HandlerAnswer
  BY <1>0, <1>6 DEF HandlerAnswer
<1> QED BY <1>1, <1>2, <1>3, <1>4, <1>5, <1>6 DEF Enable

LEMMA ControlDisable ==
  ASSUME Control, Running, Disable \/ Sever \/ Signal
  PROVE  Control'
<1> USE DEF Control, InvTypes, InvOwner, InvRetry, FedUntilGivenUp
<1>1. ASSUME NEW who \in Owners, DisableBegin(who) PROVE Control'
  <2>1. CASE enabled
    <3>1. InvTypes' /\ InvRetry'
      BY <1>1, <2>1 DEF DisableBegin, Wants
    <3>2. InvOwner'
      BY <1>1, <2>1 DEF DisableBegin, Wants
    <3> QED BY <3>1, <3>2
  <2>2. CASE ~enabled /\ who = "handler"
    BY <1>1, <2>2 DEF DisableBegin, Wants, Returns
  <2>3. CASE ~enabled /\ who = "main"
    BY <1>1, <2>3 DEF DisableBegin, Wants, Returns
  <2> QED BY <2>1, <2>2, <2>3
<1>2. CASE DisableClosesConn
  BY <1>2 DEF DisableClosesConn
<1>3. CASE DisableJoinsPump
  BY <1>3 DEF DisableJoinsPump
<1>4. CASE DisableJoinsForwarder
  BY <1>4 DEF DisableJoinsForwarder, Returns
<1>5. CASE Sever
  BY <1>5 DEF Sever
<1>6. CASE Signal
  <2>1. frames \in Nat
    BY FeedsAssumption
  <2> QED BY <1>6, <2>1 DEF Signal
<1> QED BY <1>1, <1>2, <1>3, <1>4, <1>5, <1>6 DEF Disable, DisableJoins

LEMMA ControlPump ==
  ASSUME Control, Running, PumpRead \/ Pump
  PROVE  Control'
<1> USE DEF Control, InvTypes, InvOwner, InvRetry, FedUntilGivenUp
<1>0. job.messages \in Nat /\ MaxRetries \in Nat /\ retry \in Nat /\ fails \in Nat
  BY FeedsAssumption
<1>1. CASE PumpRead
  BY <1>0, <1>1 DEF PumpRead
<1>2. CASE PumpTop
  BY <1>2 DEF PumpTop
<1>3. CASE PumpReadFails
  BY <1>3 DEF PumpReadFails
<1>4. CASE PumpBackoff
  BY <1>0, <1>4 DEF PumpBackoff
<1>5. CASE PumpDials
  BY <1>5 DEF PumpDials
<1>6. CASE PumpStores
  BY <1>6 DEF PumpStores
<1>7. CASE PumpConnectFails
  BY <1>0, <1>7 DEF PumpConnectFails
<1>8. CASE PumpReconnects
  BY <1>0, <1>8 DEF PumpReconnects
<1>9. CASE PumpDelivers
  BY <1>9 DEF PumpDelivers
<1>10. CASE PumpEnds
  BY <1>10 DEF PumpEnds
<1> QED BY <1>1, <1>2, <1>3, <1>4, <1>5, <1>6, <1>7, <1>8, <1>9, <1>10 DEF Pump

LEMMA ControlForwardMain ==
  ASSUME Control, Running, Forwarder \/ Main
  PROVE  Control'
<1> USE DEF Control, InvTypes, InvOwner, InvRetry, FedUntilGivenUp
<1>1. CASE ForwardTakes
  BY <1>1 DEF ForwardTakes
<1>2. CASE ForwardEnds
  BY <1>2 DEF ForwardEnds
<1>3. CASE ForwardHands
  BY <1>3 DEF ForwardHands
<1>4. CASE ForwardGivesUp
  BY <1>4 DEF ForwardGivesUp
<1>5. CASE MainIngests
  BY <1>5 DEF MainIngests
<1>6. CASE MainAsksStatus
  BY <1>6 DEF MainAsksStatus
<1>7. CASE MainHasStatus
  BY <1>7 DEF MainHasStatus
<1>8. CASE MainHalts
  BY <1>8 DEF MainHalts
<1>9. CASE MainClosesSpooler
  BY <1>9 DEF MainClosesSpooler
<1>10. CASE MainEnds
  BY <1>10 DEF MainEnds
<1> QED BY <1>1, <1>2, <1>3, <1>4, <1>5, <1>6, <1>7, <1>8, <1>9, <1>10 DEF Forwarder, Main

LEMMA ControlStep ==
  ASSUME Control, [Next]_vars
  PROVE  Control'
<1>1. CASE UNCHANGED vars
  BY <1>1, ControlKept DEF vars, controlVars
<1>2. CASE (SpoolWriter \/ SpoolFlush \/ NextDay) /\ UNCHANGED feedVars
  <2>1. UNCHANGED rootDone
    BY <1>2
    DEF SpoolWriter, SpoolTake, SpoolAppend, SpoolRotate, SpoolRotateFails, SpoolSeesStop,
        SpoolEnd, SpoolFlush, NextDay
  <2> QED BY <1>2, <2>1, ControlKept DEF controlVars
<1> QED BY <1>1, <1>2, ControlRequests, ControlDisable, ControlPump, ControlForwardMain
        DEF Next

LEMMA ControlInit ==
  ASSUME Init
  PROVE  Control
<1>1. /\ job.messages \in Nat /\ job.enables \in Nat /\ MaxRetries \in Nat
  BY FeedsAssumption DEF Init
<1>2. 0 \in 0 .. MaxRetries /\ 0 \in 0 .. job.messages /\ 0 \in 0 .. job.enables /\ 0 \in 0 .. 0
  BY <1>1
<1>3. InvTypes
  BY <1>2 DEF Init, SpoolInit, InvTypes
<1> QED
  BY <1>1, <1>3 DEF Init, SpoolInit, Control, InvOwner, InvRetry, FedUntilGivenUp

-----------------------------------------------------------------------------
(* Sequences of rising numbers *)

LEMMA SeqOfNone ==
  /\ <<>> \in Seq(Nat) /\ Len(<<>>) = 0 /\ ToSet(<<>>) = {} /\ Increasing(<<>>)
<1>1. <<>> \in Seq(Nat) /\ Len(<<>>) = 0
  OBVIOUS
<1>2. DOMAIN <<>> = {}
  OBVIOUS
<1>3. ToSet(<<>>) = {}
  BY <1>2 DEF ToSet
<1>4. Increasing(<<>>)
  BY <1>2 DEF Increasing
<1> QED BY <1>1, <1>3, <1>4

LEMMA SeqOfOne ==
  ASSUME NEW x \in Nat
  PROVE  <<x>> \in Seq(Nat) /\ Len(<<x>>) = 1 /\ ToSet(<<x>>) = {x} /\ Increasing(<<x>>)
         /\ <<x>> # <<>>
BY DEF ToSet, Increasing

LEMMA TailSeq ==
  ASSUME NEW s \in Seq(Nat), s # <<>>, Increasing(s)
  PROVE  /\ Head(s) \in Nat /\ Tail(s) \in Seq(Nat) /\ Len(Tail(s)) = Len(s) - 1
         /\ ToSet(s) = {Head(s)} \cup ToSet(Tail(s))
         /\ Increasing(Tail(s)) /\ \A y \in ToSet(Tail(s)) : Head(s) < y
<1>1. /\ Head(s) \in Nat /\ Tail(s) \in Seq(Nat) /\ Len(Tail(s)) = Len(s) - 1 /\ Len(s) \in Nat \ {0}
      /\ Head(s) = s[1] /\ \A i \in 1 .. Len(s) - 1 : Tail(s)[i] = s[i + 1]
  OBVIOUS
<1>2. DOMAIN s = 1 .. Len(s) /\ DOMAIN Tail(s) = 1 .. Len(s) - 1
  BY <1>1
<1>3. ASSUME NEW y \in ToSet(Tail(s)) PROVE y \in ToSet(s) /\ Head(s) < y
  <2>1. PICK i \in 1 .. Len(s) - 1 : y = Tail(s)[i]
    BY <1>2, <1>3 DEF ToSet
  <2>2. y = s[i + 1] /\ i + 1 \in DOMAIN s /\ 1 \in DOMAIN s /\ 1 < i + 1
    BY <1>1, <1>2, <2>1
  <2> QED BY <1>1, <2>2 DEF ToSet, Increasing
<1>4. ASSUME NEW y \in ToSet(s), y # Head(s) PROVE y \in ToSet(Tail(s))
  <2>1. PICK i \in 1 .. Len(s) : y = s[i]
    BY <1>2, <1>4 DEF ToSet
  <2>2. i # 1
    BY <1>1, <1>4, <2>1
  <2>3. i - 1 \in 1 .. Len(s) - 1 /\ (i - 1) + 1 = i
    BY <1>1, <2>2
  <2>4. Tail(s)[i - 1] = y
    BY <1>1, <2>1, <2>3
  <2> QED BY <1>2, <2>3, <2>4 DEF ToSet
<1>5. Head(s) \in ToSet(s)
  BY <1>1, <1>2 DEF ToSet
<1>6. ASSUME NEW i \in DOMAIN Tail(s), NEW j \in DOMAIN Tail(s), i < j
      PROVE  Tail(s)[i] < Tail(s)[j]
  <2>1. i + 1 \in DOMAIN s /\ j + 1 \in DOMAIN s /\ i + 1 < j + 1
    BY <1>1, <1>2, <1>6
  <2> QED BY <1>1, <1>2, <2>1 DEF Increasing
<1>7. Increasing(Tail(s))
  BY <1>6 DEF Increasing
<1> QED BY <1>1, <1>3, <1>4, <1>5, <1>7

LEMMA ConcatSeq ==
  ASSUME NEW s \in Seq(Nat), NEW t \in Seq(Nat)
  PROVE  /\ s \o t \in Seq(Nat) /\ Len(s \o t) = Len(s) + Len(t)
         /\ ToSet(s \o t) = ToSet(s) \cup ToSet(t)
         /\ Increasing(s \o t) <=> Increasing(s) /\ Increasing(t) /\ Precedes(s, t)
<1> DEFINE u == s \o t
<1>1. /\ Len(s) \in Nat /\ Len(t) \in Nat /\ DOMAIN s = 1 .. Len(s) /\ DOMAIN t = 1 .. Len(t)
      /\ u \in Seq(Nat) /\ Len(u) = Len(s) + Len(t) /\ DOMAIN u = 1 .. Len(s) + Len(t)
      /\ \A i \in 1 .. Len(s) : u[i] = s[i]
      /\ \A j \in 1 .. Len(t) : u[Len(s) + j] = t[j]
  OBVIOUS
<1> HIDE DEF u
<1>2. ASSUME NEW i \in 1 .. Len(s) PROVE i \in DOMAIN u /\ u[i] = s[i]
  BY <1>1
<1>3. ASSUME NEW j \in 1 .. Len(t) PROVE Len(s) + j \in DOMAIN u /\ u[Len(s) + j] = t[j]
  BY <1>1
<1>4. ASSUME NEW i \in DOMAIN u
      PROVE  i \in 1 .. Len(s) \/ \E j \in 1 .. Len(t) : i = Len(s) + j
  <2>1. CASE i > Len(s)
    <3>1. i - Len(s) \in 1 .. Len(t) /\ i = Len(s) + (i - Len(s))
      BY <1>1, <2>1
    <3> QED BY <3>1
  <2> QED BY <1>1, <2>1
<1>5. ToSet(u) = ToSet(s) \cup ToSet(t)
  <2>1. ASSUME NEW y \in ToSet(u) PROVE y \in ToSet(s) \cup ToSet(t)
    <3>1. PICK i \in DOMAIN u : y = u[i]
      BY <2>1 DEF ToSet
    <3> QED BY <1>1, <1>4, <3>1 DEF ToSet
  <2>2. ASSUME NEW y \in ToSet(s) PROVE y \in ToSet(u)
    BY <1>1, <1>2, <2>2 DEF ToSet
  <2>3. ASSUME NEW y \in ToSet(t) PROVE y \in ToSet(u)
    BY <1>1, <1>3, <2>3 DEF ToSet
  <2> QED BY <2>1, <2>2, <2>3
<1>6. ASSUME Increasing(u) PROVE Increasing(s) /\ Increasing(t) /\ Precedes(s, t)
  <2>1. Increasing(s)
    BY <1>1, <1>2, <1>6 DEF Increasing
  <2>2. ASSUME NEW i \in DOMAIN t, NEW j \in DOMAIN t, i < j PROVE t[i] < t[j]
    <3>1. Len(s) + i < Len(s) + j
      BY <1>1, <2>2
    <3> QED BY <1>1, <1>3, <1>6, <3>1 DEF Increasing
  <2>3. ASSUME NEW x \in ToSet(s), NEW y \in ToSet(t) PROVE x < y
    <3>1. PICK i \in 1 .. Len(s), j \in 1 .. Len(t) : x = s[i] /\ y = t[j]
      BY <1>1, <2>3 DEF ToSet
    <3>2. i < Len(s) + j
      BY <1>1
    <3> QED BY <1>2, <1>3, <1>6, <3>1, <3>2 DEF Increasing
  <2>4. Increasing(t) /\ Precedes(s, t)
    BY <2>2, <2>3 DEF Increasing, Precedes
  <2> QED BY <2>1, <2>4
<1>7. ASSUME Increasing(s), Increasing(t), Precedes(s, t),
             NEW i \in DOMAIN u, NEW j \in DOMAIN u, i < j
      PROVE  u[i] < u[j]
  <2>1. CASE i \in 1 .. Len(s) /\ j \in 1 .. Len(s)
    BY <1>1, <1>7, <2>1 DEF Increasing
  <2>2. ASSUME i \in 1 .. Len(s), NEW l \in 1 .. Len(t), j = Len(s) + l PROVE u[i] < u[j]
    <3>1. s[i] \in ToSet(s) /\ t[l] \in ToSet(t)
      BY <1>1, <2>2 DEF ToSet
    <3> QED BY <1>1, <1>7, <2>2, <3>1 DEF Precedes
  <2>3. ASSUME NEW k \in 1 .. Len(t), i = Len(s) + k, NEW l \in 1 .. Len(t), j = Len(s) + l
        PROVE  u[i] < u[j]
    <3>1. k < l
      BY <1>1, <1>7, <2>3
    <3> QED BY <1>1, <1>7, <2>3, <3>1 DEF Increasing
  <2>4. ASSUME NEW k \in 1 .. Len(t), i = Len(s) + k PROVE j \notin 1 .. Len(s)
    BY <1>1, <1>7, <2>4
  <2> QED BY <1>4, <2>1, <2>2, <2>3, <2>4
<1>8. Increasing(s) /\ Increasing(t) /\ Precedes(s, t) => Increasing(u)
  BY <1>7 DEF Increasing
<1>9. /\ u \in Seq(Nat) /\ Len(u) = Len(s) + Len(t) /\ ToSet(u) = ToSet(s) \cup ToSet(t)
      /\ Increasing(u) <=> Increasing(s) /\ Increasing(t) /\ Precedes(s, t)
  BY <1>1, <1>5, <1>6, <1>8
<1> QED BY <1>9 DEF u

LEMMA AppendSeq ==
  ASSUME NEW s \in Seq(Nat), NEW x \in Nat
  PROVE  /\ Append(s, x) \in Seq(Nat) /\ Len(Append(s, x)) = Len(s) + 1
         /\ ToSet(Append(s, x)) = ToSet(s) \cup {x}
         /\ Increasing(s) /\ (\A y \in ToSet(s) : y < x) => Increasing(Append(s, x))
<1>1. Append(s, x) = s \o <<x>>
  OBVIOUS
<1>2. /\ s \o <<x>> \in Seq(Nat) /\ Len(s \o <<x>>) = Len(s) + Len(<<x>>)
      /\ ToSet(s \o <<x>>) = ToSet(s) \cup ToSet(<<x>>)
      /\ Increasing(s) /\ Increasing(<<x>>) /\ Precedes(s, <<x>>) => Increasing(s \o <<x>>)
  BY ConcatSeq, SeqOfOne
<1> QED BY <1>1, <1>2, SeqOfOne DEF Precedes

LEMMA SeqInSet ==
  ASSUME NEW s \in Seq(Nat)
  PROVE  ToSet(s) \subseteq Nat /\ (ToSet(s) = {} <=> s = <<>>)
<1>1. DOMAIN s = 1 .. Len(s) /\ \A i \in DOMAIN s : s[i] \in Nat
  OBVIOUS
<1>2. ASSUME s # <<>> PROVE 1 \in DOMAIN s
  BY <1>1, <1>2
<1>3. s # <<>> => ToSet(s) # {}
  BY <1>1, <1>2 DEF ToSet
<1>4. ToSet(s) \subseteq Nat
  BY <1>1 DEF ToSet
<1>5. s = <<>> => ToSet(s) = {}
  BY SeqOfNone
<1> QED BY <1>3, <1>4, <1>5

-----------------------------------------------------------------------------
(* The ticks: from the message in readPump's hand to the main loop *)

LEMMA TicksInit ==
  ASSUME Init
  PROVE  InvTicks
<1>1. /\ tickCh = <<>> /\ tickChan = <<>> /\ rest = <<>> /\ hand = <<>> /\ last = 0
      /\ frames = 0 /\ fw = "ended"
  BY DEF Init
<1>2. ClientRoom \in Nat /\ DaemonRoom \in Nat /\ Batch \in Nat
  BY FeedsAssumption
<1>3. \A s \in {tickCh, tickChan, rest, hand} :
        s \in Seq(Nat) /\ Len(s) = 0 /\ ToSet(s) = {} /\ Increasing(s)
  BY <1>1, SeqOfNone
<1> QED BY <1>1, <1>2, <1>3 DEF InvTicks, Precedes

LEMMA TicksKept ==
  ASSUME InvTicks, UNCHANGED <<tickCh, tickChan, rest, last, hand, frames>>,
         fw' = "hand" <=> fw = "hand", rp' # "deliver" => rp # "deliver"
  PROVE  InvTicks'
BY DEF InvTicks

LEMMA TicksOfHandler ==
  ASSUME Control, InvTicks,
         \/ \E op \in {"enable", "disable"} : HandlerCall(op)
         \/ Enable \/ HandlerAnswer \/ Disable \/ Sever \/ Signal
  PROVE  InvTicks'
<1>1. CASE EnableBegin
  <2>1. CASE enabled
    BY <1>1, <2>1, TicksKept DEF EnableBegin
  <2>2. CASE ~enabled
    <3>1. /\ rest' = <<>> /\ tickChan' = <<>> /\ rp' = "ended"
          /\ UNCHANGED <<tickCh, hand, last, fw, frames>>
      BY <1>1, <2>2 DEF EnableBegin
    <3>2. \A s \in {rest', tickChan'} : s \in Seq(Nat) /\ Len(s) = 0 /\ ToSet(s) = {} /\ Increasing(s)
      BY <3>1, SeqOfNone
    <3>3. ClientRoom \in Nat /\ Batch \in Nat
      BY FeedsAssumption
    <3> QED BY <3>1, <3>2, <3>3 DEF InvTicks, Precedes
  <2> QED BY <2>1, <2>2
<1>2. CASE EnableStarts
  <2>1. fw = "ended"
    BY <1>2 DEF EnableStarts, Control, InvOwner
  <2>2. hand = <<>> /\ rp # "deliver"
    BY <1>2, <2>1 DEF EnableStarts, InvTicks, Control, InvOwner
  <2> QED BY <1>2, <2>1, <2>2, TicksKept DEF EnableStarts
<1>3. CASE \/ \E op \in {"enable", "disable"} : HandlerCall(op)
           \/ EnableFails \/ EnableDials \/ HandlerAnswer \/ Disable \/ Sever \/ Signal
  <2>1. UNCHANGED <<tickCh, tickChan, rest, last, hand, frames, fw, rp>>
    BY <1>3
    DEF HandlerCall, EnableFails, EnableDials, HandlerAnswer, Disable, DisableJoins,
        DisableBegin, DisableClosesConn, DisableJoinsPump, DisableJoinsForwarder, Sever,
        Signal
  <2> QED BY <2>1, TicksKept
<1> QED BY <1>1, <1>2, <1>3 DEF Enable

(* The ticks of a message are numbered above all of the earlier messages.  *)
LEMMA TicksRead ==
  ASSUME Control, InvTicks, PumpRead
  PROVE  InvTicks'
<1>1. /\ job.messages \in Nat /\ job.ticks \in 0 .. Batch /\ Batch \in Nat /\ frames \in Nat
  BY FeedsAssumption DEF Control, InvTypes
<1>2. PICK k \in 0 .. job.ticks : rest' = [i \in 1 .. k |-> frames * Batch + i]
  BY DEF PumpRead
<1>3. /\ frames' = frames + 1 /\ rp' = "deliver" /\ rp = "read"
      /\ UNCHANGED <<tickCh, tickChan, last, hand, fw>>
  BY DEF PumpRead
<1>4. PICK n \in Nat : n = frames * Batch
  BY <1>1
<1>5. frames' * Batch = n + Batch /\ k \in Nat /\ k <= Batch
  BY <1>1, <1>2, <1>3, <1>4
<1>6. \A i \in 1 .. k : n + i \in Nat
  BY <1>4, <1>5
<1>7. /\ rest' \in Seq(Nat) /\ Len(rest') = k /\ DOMAIN rest' = 1 .. k
      /\ \A i \in 1 .. k : rest'[i] = n + i
  BY <1>2, <1>4, <1>5, <1>6
<1>8. Increasing(rest')
  BY <1>4, <1>5, <1>7 DEF Increasing
<1>9. ASSUME NEW y \in ToSet(rest') PROVE y \in Nat /\ n < y /\ y <= n + Batch
  BY <1>1, <1>4, <1>5, <1>7, <1>9 DEF ToSet
<1>10. tickCh \in Seq(Nat) /\ tickChan \in Seq(Nat) /\ hand \in Seq(Nat) /\ last \in Nat
  BY SeqOfNone, SeqOfOne DEF InvTicks
<1>11. ASSUME NEW x \in ToSet(tickCh) \cup ToSet(hand) \cup ToSet(tickChan)
       PROVE  x \in Nat /\ last < x /\ x <= n /\ x <= n + Batch
  <2>1. x \in Nat
    BY <1>10, <1>11, SeqInSet
  <2>2. last < x /\ x <= n
    BY <1>4, <1>11 DEF InvTicks
  <2> QED BY <1>1, <1>4, <2>1, <2>2
<1>12. /\ Precedes(tickCh, rest') /\ Precedes(hand, rest') /\ Precedes(tickChan, rest')
       /\ last <= n + Batch
       /\ \A x \in ToSet(tickCh) \cup ToSet(hand) \cup ToSet(tickChan) \cup ToSet(rest') :
            last < x /\ x <= n + Batch
  <2>1. last <= n
    BY <1>4 DEF InvTicks
  <2>2. \A x, y \in Nat : x <= n /\ n < y => x < y
    BY <1>4
  <2>3. last <= n + Batch /\ \A y \in ToSet(rest') : last < y
    BY <1>1, <1>4, <1>9, <1>10, <2>1
  <2> QED BY <1>9, <1>11, <2>2, <2>3 DEF Precedes
<1> QED BY <1>3, <1>5, <1>7, <1>8, <1>12 DEF InvTicks

LEMMA TicksDelivered ==
  ASSUME InvTicks, PumpDelivers
  PROVE  InvTicks'
<1>1. rp = "deliver" /\ UNCHANGED <<tickCh, hand, fw, last, frames>>
  BY DEF PumpDelivers
<1>2. CASE rest = <<>> /\ rp' = "top" /\ UNCHANGED <<rest, tickChan>>
  BY <1>1, <1>2 DEF InvTicks
<1>3. CASE rest # <<>> /\ Done /\ rp' = "ending" /\ rest' = <<>> /\ UNCHANGED tickChan
  <2>1. rest' \in Seq(Nat) /\ Len(rest') = 0 /\ ToSet(rest') = {} /\ Increasing(rest')
    BY <1>3, SeqOfNone
  <2>2. Batch \in Nat
    BY FeedsAssumption
  <2> QED BY <1>1, <1>3, <2>1, <2>2 DEF InvTicks, Precedes
<1>4. CASE /\ rest # <<>> /\ Len(tickChan) < ClientRoom
           /\ tickChan' = Append(tickChan, Head(rest)) /\ rest' = Tail(rest)
           /\ UNCHANGED rp
  <2>1. rest \in Seq(Nat) /\ tickChan \in Seq(Nat) /\ Increasing(rest) /\ Increasing(tickChan)
    BY DEF InvTicks
  <2>2. PICK x \in Nat : x = Head(rest)
    BY <1>4, <2>1, TailSeq
  <2>3. /\ rest' \in Seq(Nat) /\ Len(rest') = Len(rest) - 1 /\ ToSet(rest) = {x} \cup ToSet(rest')
        /\ Increasing(rest') /\ \A y \in ToSet(rest') : x < y
    BY <1>4, <2>1, <2>2, TailSeq
  <2>4. \A y \in ToSet(tickChan) : y < x
    BY <2>3 DEF InvTicks, Precedes
  <2>5. /\ tickChan' \in Seq(Nat) /\ Len(tickChan') = Len(tickChan) + 1
        /\ ToSet(tickChan') = ToSet(tickChan) \cup {x} /\ Increasing(tickChan')
    BY <1>4, <2>1, <2>2, <2>4, AppendSeq
  <2>6. /\ Precedes(tickCh, tickChan') /\ Precedes(tickCh, rest') /\ Precedes(hand, tickChan')
        /\ Precedes(hand, rest') /\ Precedes(tickChan', rest')
    BY <2>3, <2>5 DEF InvTicks, Precedes
  <2>7. Len(tickChan') <= ClientRoom /\ Len(rest') <= Batch
    <3>1. ClientRoom \in Nat /\ Batch \in Nat /\ Len(rest) \in Nat /\ Len(tickChan) \in Nat
      BY FeedsAssumption, <2>1
    <3> QED BY <1>4, <2>3, <2>5, <3>1 DEF InvTicks
  <2>8. \A y \in ToSet(tickCh) \cup ToSet(hand) \cup ToSet(tickChan') \cup ToSet(rest') :
          last < y /\ y <= frames * Batch
    BY <2>3, <2>5 DEF InvTicks
  <2> QED BY <1>1, <1>4, <2>3, <2>5, <2>6, <2>7, <2>8 DEF InvTicks
<1> QED BY <1>2, <1>3, <1>4 DEF PumpDelivers

LEMMA TicksForwarded ==
  ASSUME InvTicks, Forwarder
  PROVE  InvTicks'
<1>1. CASE ForwardTakes
  <2>1. /\ tickChan \in Seq(Nat) /\ tickChan # <<>> /\ Increasing(tickChan) /\ hand = <<>>
        /\ fw' = "hand" /\ UNCHANGED <<tickCh, rest, rp, last, frames>>
    BY <1>1 DEF ForwardTakes, InvTicks
  <2>2. PICK x \in Nat : x = Head(tickChan)
    BY <2>1, TailSeq
  <2>3. /\ tickChan' \in Seq(Nat) /\ Len(tickChan') = Len(tickChan) - 1
        /\ ToSet(tickChan) = {x} \cup ToSet(tickChan')
        /\ Increasing(tickChan') /\ \A y \in ToSet(tickChan') : x < y
    BY <1>1, <2>1, <2>2, TailSeq DEF ForwardTakes
  <2>4. hand' = <<x>> /\ hand' # <<>> /\ ToSet(hand') = {x}
    BY <1>1, <2>2, SeqOfOne DEF ForwardTakes
  <2>5. /\ Precedes(tickCh, hand') /\ Precedes(tickCh, tickChan') /\ Precedes(hand', tickChan')
        /\ Precedes(hand', rest) /\ Precedes(tickChan', rest)
    BY <2>3, <2>4 DEF InvTicks, Precedes
  <2>6. Len(tickChan') <= ClientRoom
    <3>1. ClientRoom \in Nat /\ Len(tickChan) \in Nat
      BY FeedsAssumption, <2>1
    <3> QED BY <2>3, <3>1 DEF InvTicks
  <2>7. \A y \in ToSet(tickCh) \cup ToSet(hand') \cup ToSet(tickChan') \cup ToSet(rest) :
          last < y /\ y <= frames * Batch
    BY <2>3, <2>4 DEF InvTicks
  <2> QED BY <2>1, <2>2, <2>3, <2>4, <2>5, <2>6, <2>7 DEF InvTicks
<1>2. CASE ForwardEnds
  BY <1>2, TicksKept DEF ForwardEnds
<1>3. CASE ForwardHands
  <2>1. /\ hand # <<>> /\ hand' = <<>> /\ fw' = "take" /\ tickCh' = tickCh \o hand
        /\ Len(tickCh) < DaemonRoom /\ UNCHANGED <<tickChan, rest, rp, last, frames>>
    BY <1>3 DEF ForwardHands, InvTicks
  <2>2. PICK x \in Nat : hand = <<x>>
    BY <2>1 DEF InvTicks
  <2>3. hand \in Seq(Nat) /\ Len(hand) = 1 /\ Increasing(hand) /\ tickCh \in Seq(Nat)
    BY <2>2, SeqOfOne DEF InvTicks
  <2>4. /\ tickCh' \in Seq(Nat) /\ Len(tickCh') = Len(tickCh) + 1
        /\ ToSet(tickCh') = ToSet(tickCh) \cup ToSet(hand) /\ Increasing(tickCh')
    BY <2>1, <2>3, ConcatSeq DEF InvTicks
  <2>5. ToSet(hand') = {}
    BY <2>1, SeqOfNone
  <2>6. /\ Precedes(tickCh', tickChan) /\ Precedes(tickCh', rest) /\ Precedes(tickCh', hand')
        /\ Precedes(hand', tickChan) /\ Precedes(hand', rest)
    BY <2>4, <2>5 DEF InvTicks, Precedes
  <2>7. Len(tickCh') <= DaemonRoom
    <3>1. DaemonRoom \in Nat /\ Len(tickCh) \in Nat
      BY FeedsAssumption, <2>3
    <3> QED BY <2>1, <2>4, <3>1
  <2>8. \A y \in ToSet(tickCh') \cup ToSet(hand') \cup ToSet(tickChan) \cup ToSet(rest) :
          last < y /\ y <= frames * Batch
    BY <2>4, <2>5 DEF InvTicks
  <2> QED BY <2>1, <2>4, <2>6, <2>7, <2>8 DEF InvTicks
<1>4. CASE ForwardGivesUp
  <2>1. hand' = <<>> /\ fw' = "ended" /\ UNCHANGED <<tickCh, tickChan, rest, rp, last, frames>>
    BY <1>4 DEF ForwardGivesUp
  <2>2. ToSet(hand') = {}
    BY <2>1, SeqOfNone
  <2> QED BY <2>1, <2>2 DEF InvTicks, Precedes
<1> QED BY <1>1, <1>2, <1>3, <1>4 DEF Forwarder

LEMMA TicksIngested ==
  ASSUME InvTicks, MainIngests
  PROVE  InvTicks'
<1>1. /\ tickCh \in Seq(Nat) /\ tickCh # <<>> /\ Increasing(tickCh)
      /\ UNCHANGED <<tickChan, hand, fw, rest, rp, frames>>
  BY DEF MainIngests, InvTicks
<1>2. PICK x \in Nat : x = Head(tickCh)
  BY <1>1, TailSeq
<1>3. /\ tickCh' \in Seq(Nat) /\ Len(tickCh') = Len(tickCh) - 1
      /\ ToSet(tickCh) = {x} \cup ToSet(tickCh')
      /\ Increasing(tickCh') /\ \A y \in ToSet(tickCh') : x < y
  BY <1>1, <1>2, TailSeq DEF MainIngests
<1>4. last' = x
  BY <1>2 DEF MainIngests
<1>5. /\ x <= frames * Batch /\ Precedes(tickCh', hand)
      /\ Precedes(tickCh', tickChan) /\ Precedes(tickCh', rest)
  BY <1>3 DEF InvTicks, Precedes
<1>6. \A y \in ToSet(tickCh') \cup ToSet(hand) \cup ToSet(tickChan) \cup ToSet(rest) :
        x < y /\ y <= frames * Batch
  BY <1>3 DEF InvTicks, Precedes
<1>7. Len(tickCh') <= DaemonRoom
  <2>1. DaemonRoom \in Nat /\ Len(tickCh) \in Nat
    BY FeedsAssumption, <1>1
  <2> QED BY <1>3, <2>1 DEF InvTicks
<1> QED BY <1>1, <1>2, <1>3, <1>4, <1>5, <1>6, <1>7 DEF InvTicks

LEMMA TicksStep ==
  ASSUME Control, InvTicks, [Next]_vars
  PROVE  InvTicks'
<1>1. CASE UNCHANGED vars
  BY <1>1, TicksKept DEF vars
<1>2. CASE (SpoolWriter \/ SpoolFlush \/ NextDay) /\ UNCHANGED feedVars
  BY <1>2, TicksKept
<1>3. CASE Pump
  <2>1. CASE PumpDelivers
    BY <2>1, TicksDelivered
  <2>2. CASE ~PumpDelivers
    <3>1. /\ UNCHANGED <<tickCh, tickChan, rest, last, hand, frames, fw>>
          /\ rp # "deliver" /\ rp' # "deliver"
      BY <1>3, <2>2 DEF Pump, PumpTop, PumpReadFails, PumpBackoff, PumpDials, PumpStores,
                        PumpConnectFails, PumpReconnects, PumpEnds
    <3> QED BY <3>1, TicksKept
  <2> QED BY <2>1, <2>2
<1>4. CASE Main
  <2>1. CASE MainIngests
    BY <2>1, TicksIngested
  <2>2. CASE ~MainIngests
    <3>1. UNCHANGED <<tickCh, tickChan, rest, last, hand, frames, fw, rp>>
      BY <1>4, <2>2
      DEF Main, MainAsksStatus, MainHasStatus, MainHalts, MainClosesSpooler, MainEnds
    <3> QED BY <3>1, TicksKept
  <2> QED BY <2>1, <2>2
<1> QED BY <1>1, <1>2, <1>3, <1>4, TicksOfHandler, TicksRead, TicksForwarded DEF Next

-----------------------------------------------------------------------------
(* The raw spooler: from Record to the files *)

LEMMA SpoolStarts ==
  ASSUME Init
  PROVE  InvSpool /\ InvAccount
<1>1. /\ spooling = job.spool /\ job \in Jobs /\ frames = 0 /\ before = 0 /\ date = 1 /\ file = 0
      /\ queue = <<>> /\ buffer = <<>> /\ disk = [d \in Dates |-> <<>>] /\ dropped = {} /\ failed = {}
      /\ spoolStop = FALSE /\ draining = FALSE /\ spc = "wait" /\ pkt = 0 /\ counted = 0
  BY DEF Init, SpoolInit, NoFile
<1>2. QueueSize \in Nat /\ LastDate \in Nat \ {0} /\ 1 \in Dates
  BY SpoolerAssumption DEF Dates
<1>3. \A s \in {queue, buffer} : s \in Seq(Nat) /\ Len(s) = 0 /\ ToSet(s) = {} /\ Increasing(s)
  BY <1>1, SeqOfNone
<1>4. \A d \in Dates : disk[d] = <<>>
  BY <1>1
<1>5. \A d \in Dates : disk[d] \in Seq(Nat) /\ ToSet(disk[d]) = {} /\ Increasing(disk[d])
  BY <1>4, SeqOfNone
<1>6. disk \in [Dates -> Seq(Nat)]
  BY <1>1, SeqOfNone
<1>7. OnDisk = {} /\ Held = {}
  BY <1>1, <1>5 DEF OnDisk, Held
<1>8. 1 .. 0 = {} /\ 0 \in 0 .. 0 /\ 0 \in 0 .. 1 /\ Cardinality({}) = 0
  BY FS_EmptySet
<1>9. InvSpool
  <2>1. /\ spooling = job.spool /\ spoolStop \in BOOLEAN /\ draining \in BOOLEAN
        /\ spc \in {"wait", "write", "ended"} /\ pkt \in 0 .. frames
        /\ date \in Dates /\ file \in 0 .. date
    BY <1>1, <1>2, <1>8
  <2>2. /\ queue \in Seq(Nat) /\ buffer \in Seq(Nat) /\ Len(queue) <= QueueSize
        /\ Increasing(queue) /\ Increasing(buffer) /\ ToSet(queue) = {} /\ ToSet(buffer) = {}
    BY <1>2, <1>3
  <2>3. /\ \A d \in Dates, e \in Dates : d < e => Below(ToSet(disk[d]), ToSet(disk[e]))
        /\ Below(OnDisk, {}) /\ Below({}, {})
    BY <1>5, <1>7 DEF Below
  <2> QED BY <1>1, <1>4, <1>5, <1>6, <1>7, <2>1, <2>2, <2>3 DEF InvSpool
<1>10. OnDisk \cup ToSet(buffer) = {}
  BY <1>3, <1>7
<1>11. InvAccount
  BY <1>1, <1>8, <1>10 DEF InvAccount
<1> QED BY <1>9, <1>11

LEMMA SpoolKept ==
  ASSUME InvSpool, InvAccount, UNCHANGED <<spoolVars, job, rootDone, frames, before>>
  PROVE  InvSpool' /\ InvAccount'
<1>1. UNCHANGED <<OnDisk, Held>>
  BY DEF OnDisk, Held
<1> QED BY <1>1 DEF InvSpool, InvAccount

(* A flush moves the buffer to the end of the open file: nothing is lost,  *)
(* and the files still follow on one another.                              *)
LEMMA FlushedFiles ==
  ASSUME InvSpool, disk' = Flushed
  PROVE  /\ disk' \in [Dates -> Seq(Nat)] /\ OnDisk' = OnDisk \cup ToSet(buffer)
         /\ \A d \in Dates : Increasing(disk'[d])
         /\ \A d \in Dates, e \in Dates : d < e => Below(ToSet(disk'[d]), ToSet(disk'[e]))
         /\ \A d \in Dates : (file # NoFile /\ file < d) \/ date < d => disk'[d] = <<>>
<1>1. /\ buffer \in Seq(Nat) /\ Increasing(buffer) /\ disk \in [Dates -> Seq(Nat)]
      /\ date \in Dates /\ file \in 0 .. date /\ Below(OnDisk, ToSet(buffer))
      /\ \A d \in Dates : Increasing(disk[d])
      /\ \A d \in Dates, e \in Dates : d < e => Below(ToSet(disk[d]), ToSet(disk[e]))
      /\ \A d \in Dates : (file # NoFile /\ file < d) \/ date < d => disk[d] = <<>>
  BY DEF InvSpool
<1>2. CASE file = NoFile
  <2>1. disk' = disk /\ buffer = <<>>
    BY <1>2 DEF Flushed, InvSpool
  <2>2. ToSet(buffer) = {} /\ OnDisk' = OnDisk
    BY <2>1, SeqOfNone DEF OnDisk
  <2> QED BY <1>1, <2>1, <2>2
<1>3. CASE file # NoFile
  <2>1. /\ file \in Dates /\ \A d \in Dates : date < d => file < d
    BY <1>1, <1>3, SpoolerAssumption DEF Dates, NoFile
  <2>2. disk' = [disk EXCEPT ![file] = @ \o buffer]
    BY <1>3 DEF Flushed
  <2>3. /\ disk[file] \in Seq(Nat) /\ disk'[file] = disk[file] \o buffer
        /\ \A d \in Dates \ {file} : disk'[d] = disk[d]
    BY <1>1, <2>1, <2>2
  <2>4. \A d \in Dates : ToSet(disk[d]) \subseteq OnDisk
    BY DEF OnDisk
  <2>5. Precedes(disk[file], buffer)
    BY <1>1, <2>1, <2>4 DEF Below, Precedes
  <2>6. /\ disk'[file] \in Seq(Nat) /\ Increasing(disk'[file])
        /\ ToSet(disk'[file]) = ToSet(disk[file]) \cup ToSet(buffer)
    BY <1>1, <2>1, <2>3, <2>5, ConcatSeq
  <2>7. disk' \in [Dates -> Seq(Nat)]
    BY <1>1, <2>1, <2>2, <2>3, <2>6
  <2>8. \A d \in Dates : Increasing(disk'[d])
    BY <1>1, <2>3, <2>6
  <2>9. OnDisk' = OnDisk \cup ToSet(buffer)
    <3>1. \A d \in Dates : ToSet(disk'[d]) \subseteq OnDisk \cup ToSet(buffer)
      BY <2>3, <2>4, <2>6
    <3>2. \A d \in Dates : ToSet(disk[d]) \subseteq ToSet(disk'[d])
      BY <2>3, <2>6
    <3> QED BY <2>1, <2>6, <3>1, <3>2 DEF OnDisk
  <2>10. \A d \in Dates : file < d \/ date < d => disk'[d] = <<>>
    <3>1. ASSUME NEW d \in Dates, file < d \/ date < d PROVE d # file /\ file < d
      BY <2>1, <3>1 DEF Dates
    <3> QED BY <1>1, <1>3, <2>3, <3>1
  <2>11. ASSUME NEW d \in Dates, NEW e \in Dates, d < e
         PROVE  Below(ToSet(disk'[d]), ToSet(disk'[e]))
    <3>1. CASE d = file
      <4>1. disk'[e] = <<>>
        BY <2>10, <2>11, <3>1
      <4> QED BY <4>1, SeqOfNone DEF Below
    <3>2. CASE e = file /\ d # file
      BY <1>1, <2>3, <2>4, <2>6, <2>11, <3>2 DEF Below
    <3>3. CASE d # file /\ e # file
      BY <1>1, <2>3, <2>11, <3>3
    <3> QED BY <3>1, <3>2, <3>3
  <2> QED BY <1>3, <2>7, <2>8, <2>9, <2>10, <2>11
<1> QED BY <1>2, <1>3

LEMMA SpoolTakes ==
  ASSUME InvSpool, InvAccount, SpoolTake, UNCHANGED feedVars
  PROVE  InvSpool' /\ InvAccount'
<1>1. /\ spc = "wait" /\ queue # <<>> /\ queue' = Tail(queue) /\ pkt' = Head(queue) /\ spc' = "write"
      /\ UNCHANGED <<spooling, rootDone, date, dropped, failed, spoolStop, draining, file, buffer,
                     disk, counted, job, frames, before, OnDisk>>
  BY DEF SpoolTake, OnDisk
<1>2. queue \in Seq(Nat) /\ Increasing(queue)
  BY DEF InvSpool
<1>3. PICK x \in Nat : x = Head(queue)
  BY <1>1, <1>2, TailSeq
<1>4. /\ queue' \in Seq(Nat) /\ Len(queue') = Len(queue) - 1 /\ ToSet(queue) = {x} \cup ToSet(queue')
      /\ Increasing(queue') /\ \A y \in ToSet(queue') : x < y
  BY <1>1, <1>2, <1>3, TailSeq
<1>5. Held = {} /\ Held' = {x}
  BY <1>1, <1>3 DEF Held
<1>6. pkt' \in 0 .. frames
  <2>1. x \in 1 .. frames
    BY <1>4 DEF InvSpool
  <2> QED BY <1>1, <1>3, <2>1
<1>7. Len(queue') <= QueueSize
  <2>1. QueueSize \in Nat /\ Len(queue) \in Nat
    BY <1>2, SpoolerAssumption
  <2> QED BY <1>4, <2>1 DEF InvSpool
<1>8. /\ Below(OnDisk, Held') /\ Below(OnDisk, ToSet(queue')) /\ Below(ToSet(buffer), Held')
      /\ Below(ToSet(buffer), ToSet(queue')) /\ Below(Held', ToSet(queue'))
  BY <1>4, <1>5 DEF InvSpool, Below
<1>9. InvSpool'
  <2>1. ToSet(queue') \cup ToSet(buffer) \cup OnDisk \cup Held' \cup dropped \cup failed
          \subseteq 1 .. frames
    BY <1>4, <1>5 DEF InvSpool
  <2> QED BY <1>1, <1>4, <1>6, <1>7, <1>8, <2>1 DEF InvSpool
<1>10. InvAccount'
  BY <1>1, <1>4, <1>5 DEF InvAccount
<1> QED BY <1>9, <1>10

(* The frame that is written is a new one, and is counted once.            *)
LEMMA OneMoreWritten ==
  ASSUME frames \in Nat, InvSpool, InvAccount, spc = "write"
  PROVE  Cardinality(OnDisk \cup ToSet(buffer) \cup {pkt}) = counted + 1
<1>1. Held = {pkt}
  BY DEF Held
<1>2. OnDisk \cup ToSet(buffer) \subseteq 1 .. frames /\ pkt \in 1 .. frames
  BY <1>1 DEF InvSpool
<1>3. pkt \notin OnDisk \cup ToSet(buffer)
  BY <1>1, <1>2 DEF InvSpool, Below
<1>4. IsFiniteSet(OnDisk \cup ToSet(buffer))
  <2>1. 1 \in Int /\ frames \in Int
    OBVIOUS
  <2>2. IsFiniteSet(1 .. frames)
    BY <2>1, FS_Interval
  <2> QED BY <1>2, <2>2, FS_Subset
<1>5. Cardinality((OnDisk \cup ToSet(buffer)) \cup {pkt}) = Cardinality(OnDisk \cup ToSet(buffer)) + 1
  BY <1>3, <1>4, FS_AddElement
<1> QED BY <1>5 DEF InvAccount

LEMMA SpoolAppends ==
  ASSUME frames \in Nat, InvSpool, InvAccount, SpoolAppend, UNCHANGED feedVars
  PROVE  InvSpool' /\ InvAccount'
<1>1. /\ spc = "write" /\ spc' = "wait" /\ file = date /\ file \in Dates /\ file # NoFile
      /\ buffer' = Append(buffer, pkt) /\ counted' = counted + 1
      /\ UNCHANGED <<spooling, rootDone, date, dropped, failed, spoolStop, draining, file, queue,
                     disk, pkt, job, frames, before, OnDisk>>
  BY DEF SpoolAppend, OnDisk, InvSpool, Dates, NoFile
<1>2. Held = {pkt} /\ Held' = {}
  BY <1>1 DEF Held
<1>3. pkt \in Nat /\ buffer \in Seq(Nat) /\ Increasing(buffer) /\ \A y \in ToSet(buffer) : y < pkt
  BY <1>2 DEF InvSpool, Below
<1>4. /\ buffer' \in Seq(Nat) /\ Increasing(buffer') /\ ToSet(buffer') = ToSet(buffer) \cup {pkt}
  BY <1>1, <1>3, AppendSeq
<1>5. /\ Below(OnDisk, ToSet(buffer')) /\ Below(OnDisk, Held') /\ Below(ToSet(buffer'), Held')
      /\ Below(ToSet(buffer'), ToSet(queue)) /\ Below(Held', ToSet(queue))
  BY <1>2, <1>4 DEF InvSpool, Below
<1>6. ToSet(queue) \cup ToSet(buffer') \cup OnDisk \cup Held' \cup dropped \cup failed
        \subseteq 1 .. frames
  BY <1>2, <1>4 DEF InvSpool
<1>7. InvSpool'
  BY <1>1, <1>4, <1>5, <1>6 DEF InvSpool
<1>8. counted' = Cardinality(OnDisk' \cup ToSet(buffer'))
  <2>1. OnDisk' \cup ToSet(buffer') = OnDisk \cup ToSet(buffer) \cup {pkt}
    BY <1>1, <1>4
  <2> QED BY <1>1, <2>1, OneMoreWritten
<1>9. InvAccount'
  BY <1>1, <1>2, <1>4, <1>8 DEF InvAccount
<1> QED BY <1>7, <1>9

LEMMA SpoolRotates ==
  ASSUME frames \in Nat, InvSpool, InvAccount, SpoolRotate \/ SpoolRotateFails, UNCHANGED feedVars
  PROVE  InvSpool' /\ InvAccount'
<1>1. /\ spc = "write" /\ spc' = "wait" /\ disk' = Flushed
      /\ UNCHANGED <<spooling, rootDone, date, dropped, spoolStop, draining, queue, pkt, job, frames,
                     before>>
  BY DEF SpoolRotate, SpoolRotateFails
<1>2. \/ file' = date /\ buffer' = <<pkt>> /\ counted' = counted + 1 /\ failed' = failed
      \/ file' = NoFile /\ buffer' = <<>> /\ counted' = counted /\ failed' = failed \cup {pkt}
  BY DEF SpoolRotate, SpoolRotateFails
<1>3. Held = {pkt} /\ Held' = {}
  BY <1>1 DEF Held
<1>4. pkt \in Nat /\ buffer \in Seq(Nat) /\ date \in Dates /\ date \in 0 .. date /\ 0 \in 0 .. date
  BY SpoolerAssumption DEF InvSpool, Dates
<1>5. /\ buffer' \in Seq(Nat) /\ Increasing(buffer')
      /\ \/ ToSet(buffer') = {pkt} /\ failed' = failed /\ counted' = counted + 1
         \/ ToSet(buffer') = {} /\ failed' = failed \cup {pkt} /\ counted' = counted
  <2>1. CASE buffer' = <<pkt>> /\ counted' = counted + 1 /\ failed' = failed
    BY <1>4, <2>1, SeqOfOne
  <2>2. CASE buffer' = <<>> /\ counted' = counted /\ failed' = failed \cup {pkt}
    BY <2>2, SeqOfNone
  <2> QED BY <1>2, <2>1, <2>2
<1>6. OnDisk' = OnDisk \cup ToSet(buffer)
  BY <1>1, FlushedFiles
<1>7. /\ Below(OnDisk', ToSet(buffer')) /\ Below(OnDisk', Held') /\ Below(OnDisk', ToSet(queue))
      /\ Below(ToSet(buffer'), Held') /\ Below(ToSet(buffer'), ToSet(queue))
      /\ Below(Held', ToSet(queue))
  BY <1>3, <1>5, <1>6 DEF InvSpool, Below
<1>8. ToSet(queue) \cup ToSet(buffer') \cup OnDisk' \cup Held' \cup dropped \cup failed'
        \subseteq 1 .. frames
  BY <1>3, <1>5, <1>6 DEF InvSpool
<1>9. /\ disk' \in [Dates -> Seq(Nat)] /\ \A d \in Dates : Increasing(disk'[d])
      /\ \A d \in Dates, e \in Dates : d < e => Below(ToSet(disk'[d]), ToSet(disk'[e]))
  BY <1>1, FlushedFiles
<1>10. \A d \in Dates : (file' # NoFile /\ file' < d) \/ date < d => disk'[d] = <<>>
  BY <1>1, <1>2, FlushedFiles
<1>11. file' \in 0 .. date /\ (file' = NoFile => buffer' = <<>>)
  <2>1. date # NoFile
    BY <1>4, SpoolerAssumption DEF Dates, NoFile
  <2> QED BY <1>2, <1>4, <2>1 DEF NoFile
<1>12. InvSpool'
  BY <1>1, <1>5, <1>7, <1>8, <1>9, <1>10, <1>11 DEF InvSpool
<1>13. counted' = Cardinality(OnDisk' \cup ToSet(buffer'))
  <2>1. CASE ToSet(buffer') = {pkt} /\ counted' = counted + 1
    BY <1>1, <1>6, <2>1, OneMoreWritten
  <2>2. CASE ToSet(buffer') = {} /\ counted' = counted
    <3>1. OnDisk' \cup ToSet(buffer') = OnDisk \cup ToSet(buffer)
      BY <1>6, <2>2
    <3> QED BY <2>2, <3>1 DEF InvAccount
  <2> QED BY <1>5, <2>1, <2>2
<1>14. InvAccount'
  <2>1. spooling => 1 .. frames \subseteq OnDisk' \cup ToSet(buffer') \cup Held' \cup ToSet(queue)
                                            \cup dropped \cup failed'
    BY <1>3, <1>5, <1>6 DEF InvAccount
  <2> QED BY <1>1, <1>13, <2>1 DEF InvAccount
<1> QED BY <1>12, <1>14

LEMMA SpoolFlushes ==
  ASSUME frames \in Nat, Control, InvSpool, InvAccount, SpoolFlush \/ SpoolEnd, UNCHANGED feedVars
  PROVE  InvSpool' /\ InvAccount'
<1>1. /\ spc = "wait" /\ spc' \in {"wait", "ended"} /\ disk' = Flushed /\ buffer' = <<>>
      /\ UNCHANGED <<spooling, rootDone, date, dropped, failed, spoolStop, draining, queue, pkt,
                     counted, job, frames, before>>
  BY DEF SpoolFlush, SpoolEnd
<1>2. file' = file \/ file' = NoFile
  BY DEF SpoolFlush, SpoolEnd
<1>3. Held = {} /\ Held' = {}
  BY <1>1 DEF Held
<1>4. buffer' \in Seq(Nat) /\ Increasing(buffer') /\ ToSet(buffer') = {}
  BY <1>1, SeqOfNone
<1>5. OnDisk' = OnDisk \cup ToSet(buffer)
  BY <1>1, FlushedFiles
<1>6. /\ Below(OnDisk', ToSet(buffer')) /\ Below(OnDisk', Held') /\ Below(OnDisk', ToSet(queue))
      /\ Below(ToSet(buffer'), Held') /\ Below(ToSet(buffer'), ToSet(queue))
      /\ Below(Held', ToSet(queue))
  BY <1>3, <1>4, <1>5 DEF InvSpool, Below
<1>7. ToSet(queue) \cup ToSet(buffer') \cup OnDisk' \cup Held' \cup dropped \cup failed
        \subseteq 1 .. frames
  BY <1>3, <1>4, <1>5 DEF InvSpool
<1>8. /\ disk' \in [Dates -> Seq(Nat)] /\ \A d \in Dates : Increasing(disk'[d])
      /\ \A d \in Dates, e \in Dates : d < e => Below(ToSet(disk'[d]), ToSet(disk'[e]))
      /\ \A d \in Dates : (file' # NoFile /\ file' < d) \/ date < d => disk'[d] = <<>>
  BY <1>1, <1>2, FlushedFiles
<1>9. file' \in 0 .. date
  BY <1>2, SpoolerAssumption DEF NoFile, InvSpool, Dates
<1>10. InvSpool'
  BY <1>1, <1>4, <1>6, <1>7, <1>8, <1>9 DEF InvSpool
<1>11. counted' = Cardinality(OnDisk' \cup ToSet(buffer'))
  <2>1. OnDisk' \cup ToSet(buffer') = OnDisk \cup ToSet(buffer)
    BY <1>4, <1>5
  <2> QED BY <1>1, <2>1 DEF InvAccount
<1>12. spooling => 1 .. frames \subseteq OnDisk' \cup ToSet(buffer') \cup Held' \cup ToSet(queue)
                                            \cup dropped \cup failed
  BY <1>3, <1>4, <1>5 DEF InvAccount
<1>13. ASSUME spc' = "ended"
       PROVE  draining /\ 1 .. before \subseteq OnDisk' \cup dropped \cup failed
  <2>1. draining /\ queue = <<>>
    BY <1>1, <1>13 DEF SpoolFlush, SpoolEnd
  <2>2. ToSet(queue) = {} /\ spooling
    BY <2>1, SeqOfNone DEF InvAccount
  <2>3. 1 .. before \subseteq 1 .. frames
    BY DEF Control, InvTypes
  <2> QED BY <1>3, <1>4, <1>12, <2>1, <2>2, <2>3
<1>14. InvAccount'
  BY <1>1, <1>11, <1>12, <1>13 DEF InvAccount
<1> QED BY <1>10, <1>14

LEMMA SpoolStopsOrDays ==
  ASSUME InvSpool, InvAccount, SpoolSeesStop \/ NextDay, UNCHANGED feedVars
  PROVE  InvSpool' /\ InvAccount'
<1>1. UNCHANGED <<spooling, rootDone, dropped, failed, spoolStop, spc, queue, pkt, file, buffer, disk,
                  counted, job, frames, before, OnDisk, Held>>
  BY DEF SpoolSeesStop, NextDay, OnDisk, Held
<1>2. CASE SpoolSeesStop
  <2>1. date' = date /\ spooling /\ draining' = TRUE /\ spc = "wait" /\ (rootDone \/ spoolStop)
    BY <1>2 DEF SpoolSeesStop
  <2> QED BY <1>1, <2>1 DEF InvSpool, InvAccount
<1>3. CASE NextDay
  <2>1. date' = date + 1 /\ date < LastDate /\ draining' = draining
    BY <1>3 DEF NextDay
  <2>2. /\ date' \in Dates /\ file \in 0 .. date'
        /\ \A d \in Dates : (file # NoFile /\ file < d) \/ date' < d => disk[d] = <<>>
    BY <2>1, SpoolerAssumption DEF InvSpool, Dates
  <2>3. InvSpool'
    BY <1>1, <2>1, <2>2 DEF InvSpool
  <2> QED BY <1>1, <2>1, <2>3 DEF InvAccount
<1> QED BY <1>2, <1>3

LEMMA SpoolRecords ==
  ASSUME frames \in Nat, Control, InvSpool, InvAccount, PumpRead
  PROVE  InvSpool' /\ InvAccount'
<1>1. /\ frames' = frames + 1 /\ Record(frames + 1)
      /\ UNCHANGED <<spooling, rootDone, date, failed, spoolStop, spc, draining, pkt, file, buffer,
                     disk, counted, job, before, OnDisk, Held>>
  BY DEF PumpRead, OnDisk, Held
<1>2. /\ 0 .. frames \subseteq 0 .. frames' /\ 1 .. frames \subseteq 1 .. frames'
      /\ frames' \in 1 .. frames' /\ frames' \in Nat
      /\ \A x \in 1 .. frames' : x \in 1 .. frames \/ x = frames'
  BY <1>1
<1>3. \A x \in 1 .. frames : x < frames'
  BY <1>1
<1>4. CASE queue' = Append(queue, frames') /\ dropped' = dropped /\ Len(queue) < QueueSize
  <2>1. queue \in Seq(Nat) /\ Increasing(queue) /\ \A y \in ToSet(queue) : y < frames'
    BY <1>3 DEF InvSpool
  <2>2. /\ queue' \in Seq(Nat) /\ Increasing(queue') /\ ToSet(queue') = ToSet(queue) \cup {frames'}
        /\ Len(queue') = Len(queue) + 1
    BY <1>2, <1>4, <2>1, AppendSeq
  <2>3. Len(queue') <= QueueSize
    BY <1>4, <2>1, <2>2, SpoolerAssumption
  <2>4. \A x \in OnDisk \cup ToSet(buffer) \cup Held : x < frames'
    BY <1>3 DEF InvSpool
  <2>5. /\ Below(OnDisk, ToSet(queue')) /\ Below(ToSet(buffer), ToSet(queue'))
        /\ Below(Held, ToSet(queue'))
    BY <2>2, <2>4 DEF InvSpool, Below
  <2>6. ToSet(queue') \cup ToSet(buffer) \cup OnDisk \cup Held \cup dropped \cup failed
          \subseteq 1 .. frames'
    BY <1>2, <2>2 DEF InvSpool
  <2>7. pkt \in 0 .. frames'
    BY <1>2 DEF InvSpool
  <2>8. InvSpool'
    BY <1>1, <1>4, <2>2, <2>3, <2>5, <2>6, <2>7 DEF InvSpool
  <2>9. spooling => 1 .. frames' \subseteq OnDisk \cup ToSet(buffer) \cup Held \cup ToSet(queue')
                                             \cup dropped \cup failed
    BY <1>2, <2>2 DEF InvAccount
  <2>10. InvAccount'
    BY <1>1, <1>4, <2>9 DEF InvAccount
  <2> QED BY <2>8, <2>10
<1>5. CASE queue' = queue /\ (dropped' = dropped \cup {frames'} \/ (~spooling /\ dropped' = dropped))
  <2>1. ToSet(queue) \cup ToSet(buffer) \cup OnDisk \cup Held \cup dropped' \cup failed
          \subseteq 1 .. frames'
    BY <1>2, <1>5 DEF InvSpool
  <2>2. pkt \in 0 .. frames'
    BY <1>2 DEF InvSpool
  <2>3. InvSpool'
    BY <1>1, <1>5, <2>1, <2>2 DEF InvSpool
  <2>4. spooling => 1 .. frames' \subseteq OnDisk \cup ToSet(buffer) \cup Held \cup ToSet(queue)
                                             \cup dropped' \cup failed
    BY <1>2, <1>5 DEF InvAccount
  <2>5. 1 .. before \subseteq OnDisk \cup dropped \cup failed
          => 1 .. before \subseteq OnDisk \cup dropped' \cup failed
    BY <1>5
  <2>6. InvAccount'
    BY <1>1, <1>5, <2>4, <2>5 DEF InvAccount
  <2> QED BY <2>3, <2>6
<1> QED BY <1>1, <1>4, <1>5 DEF Record

LEMMA SpoolStep ==
  ASSUME Control, InvSpool, InvAccount, [Next]_vars
  PROVE  InvSpool' /\ InvAccount'
<1>0. frames \in Nat /\ frames \in 0 .. frames
  BY FeedsAssumption DEF Control, InvTypes
<1>1. CASE (SpoolWriter \/ SpoolFlush \/ NextDay) /\ UNCHANGED feedVars
  BY <1>0, <1>1, SpoolTakes, SpoolAppends, SpoolRotates, SpoolFlushes, SpoolStopsOrDays
  DEF SpoolWriter
<1>2. CASE PumpRead
  BY <1>0, <1>2, SpoolRecords
<1>3. CASE Signal
  <2>1. /\ ~rootDone /\ rootDone' = TRUE /\ before' = frames
        /\ UNCHANGED <<spooling, date, queue, dropped, failed, spoolStop, spc, draining, pkt, file,
                       buffer, disk, counted, job, frames, OnDisk, Held>>
    BY <1>3 DEF Signal, OnDisk, Held
  <2> QED BY <2>1 DEF InvSpool, InvAccount
<1>4. CASE MainClosesSpooler
  <2>1. /\ spoolStop' = TRUE /\ rootDone
        /\ UNCHANGED <<spooling, rootDone, date, queue, dropped, failed, spc, draining, pkt, file,
                       buffer, disk, counted, job, frames, before, OnDisk, Held>>
    BY <1>4 DEF MainClosesSpooler, OnDisk, Held, Control, InvOwner
  <2> QED BY <2>1 DEF InvSpool, InvAccount
<1>5. CASE UNCHANGED <<spoolVars, job, rootDone, frames, before>>
  BY <1>5, SpoolKept
<1>6. CASE UNCHANGED vars
  BY <1>6, SpoolKept DEF vars
<1>7. CASE (\E op \in {"enable", "disable"} : HandlerCall(op)) \/ Enable \/ HandlerAnswer \/ Disable
           \/ Sever
  <2>1. UNCHANGED <<spoolVars, job, rootDone, frames, before>>
    BY <1>7 DEF HandlerCall, Enable, EnableBegin, EnableFails, EnableDials, EnableStarts,
                HandlerAnswer, Disable, DisableJoins, DisableBegin, DisableClosesConn,
                DisableJoinsPump, DisableJoinsForwarder, Sever
  <2> QED BY <2>1, <1>5
<1>8. CASE Pump
  <2>1. UNCHANGED <<spoolVars, job, rootDone, frames, before>>
    BY <1>8
    DEF Pump, PumpTop, PumpReadFails, PumpBackoff, PumpDials, PumpStores, PumpConnectFails,
        PumpReconnects, PumpDelivers, PumpEnds
  <2> QED BY <2>1, <1>5
<1>9. CASE Forwarder \/ (Main /\ ~MainClosesSpooler)
  <2>1. UNCHANGED <<spoolVars, job, rootDone, frames, before>>
    BY <1>9 DEF Forwarder, ForwardTakes, ForwardEnds, ForwardHands, ForwardGivesUp, Main,
                MainIngests, MainAsksStatus, MainHasStatus, MainHalts, MainEnds
  <2> QED BY <2>1, <1>5
<1> QED BY <1>1, <1>2, <1>3, <1>4, <1>6, <1>7, <1>8, <1>9 DEF Next

-----------------------------------------------------------------------------
(* The theorems *)

(* The inductive invariant: who holds FeedManager.mu, the retries of       *)
(* readPump, the ticks on their way, and where each frame is.              *)
THEOREM FeedInvariant == Spec => []FeedInv
<1>1. Init => FeedInv
  BY ControlInit, TicksInit, SpoolStarts DEF FeedInv, Control
<1>2. FeedInv /\ [Next]_vars => FeedInv'
  BY ControlStep, TicksStep, SpoolStep DEF FeedInv, Control
<1> QED BY <1>1, <1>2, PTL DEF Spec

(* The ticks on their way, as one sequence.                                *)
LEMMA PipeOfParts ==
  ASSUME InvTicks
  PROVE  /\ TickPipe \in Seq(Nat) /\ Increasing(TickPipe)
         /\ ToSet(TickPipe) = ToSet(tickCh) \cup ToSet(hand) \cup ToSet(tickChan) \cup ToSet(rest)
<1>1. /\ tickCh \in Seq(Nat) /\ hand \in Seq(Nat) /\ tickChan \in Seq(Nat) /\ rest \in Seq(Nat)
      /\ Increasing(tickCh) /\ Increasing(hand) /\ Increasing(tickChan) /\ Increasing(rest)
  BY SeqOfNone, SeqOfOne DEF InvTicks
<1>2. PICK a \in Seq(Nat) : a = tickCh \o hand
  BY <1>1, ConcatSeq
<1>3. ToSet(a) = ToSet(tickCh) \cup ToSet(hand) /\ Increasing(a)
  BY <1>1, <1>2, ConcatSeq DEF InvTicks
<1>4. Precedes(a, tickChan) /\ Precedes(a, rest)
  BY <1>3 DEF InvTicks, Precedes
<1>5. PICK b \in Seq(Nat) : b = a \o tickChan
  BY <1>1, ConcatSeq
<1>6. ToSet(b) = ToSet(a) \cup ToSet(tickChan) /\ Increasing(b)
  BY <1>1, <1>3, <1>4, <1>5, ConcatSeq
<1>7. Precedes(b, rest)
  BY <1>4, <1>6 DEF InvTicks, Precedes
<1>8. TickPipe = b \o rest
  BY <1>2, <1>5 DEF TickPipe
<1>9. b \o rest \in Seq(Nat) /\ ToSet(b \o rest) = ToSet(b) \cup ToSet(rest) /\ Increasing(b \o rest)
  BY <1>1, <1>6, <1>7, ConcatSeq
<1> QED BY <1>3, <1>6, <1>8, <1>9

(* The daemon ingests the ticks in the order of reception, none twice, for *)
(* channels and messages of any size.                                      *)
THEOREM TicksArriveInOrder == Spec => []TicksInOrder
<1>1. InvTicks => TicksInOrder
  <2> SUFFICES ASSUME InvTicks PROVE TicksInOrder
    OBVIOUS
  <2>1. /\ last \in Nat /\ TickPipe \in Seq(Nat) /\ Increasing(TickPipe)
        /\ \A y \in ToSet(TickPipe) : last < y
    BY PipeOfParts DEF InvTicks
  <2>2. <<last>> \in Seq(Nat) /\ Increasing(<<last>>) /\ Precedes(<<last>>, TickPipe)
    BY <2>1, SeqOfOne DEF Precedes
  <2> QED BY <2>1, <2>2, ConcatSeq DEF TicksInOrder
<1>2. FeedInv => TicksInOrder
  BY <1>1 DEF FeedInv
<1> QED BY <1>2, FeedInvariant, PTL

(* A feed that is off has no goroutine and no open connection.             *)
THEOREM DisabledIsQuiet == Spec => []QuietWhenDisabled
<1>1. FeedInv => QuietWhenDisabled
  BY DEF FeedInv, InvTypes, InvOwner, QuietWhenDisabled
<1> QED BY <1>1, FeedInvariant, PTL

(* An enabled feed is given up only after MaxRetries failures in a row.    *)
THEOREM FedUntilRetriesEnd == Spec => []FedUntilGivenUp
<1>1. FeedInv => FedUntilGivenUp
  BY DEF FeedInv, InvRetry
<1> QED BY <1>1, FeedInvariant, PTL

(* Every frame recorded before the signal is accounted for when the writer *)
(* has ended, and packetsWritten is the number of frames in the files.     *)
THEOREM ShutdownDrains == Spec => []DrainedAtShutdown
<1>1. FeedInv => DrainedAtShutdown
  <2> SUFFICES ASSUME InvAccount, spc = "ended"
               PROVE  /\ 1 .. before \subseteq OnDisk \cup dropped \cup failed
                      /\ counted = Cardinality(OnDisk)
    BY DEF FeedInv, DrainedAtShutdown
  <2>1. ToSet(buffer) = {}
    BY SeqOfNone DEF InvAccount
  <2>2. OnDisk \cup ToSet(buffer) = OnDisk
    BY <2>1
  <2> QED BY <2>2 DEF InvAccount
<1> QED BY <1>1, FeedInvariant, PTL

(* The files of the dates, the buffer, the packet in hand and the queue    *)
(* hold the frames in the order of reception, none twice.                  *)
THEOREM FramesSpooledInOrder == Spec => []SpooledInOrder
<1>1. InvSpool => SpooledInOrder
  <2> SUFFICES ASSUME InvSpool PROVE SpooledInOrder
    OBVIOUS
  <2>1. InHand \in Seq(Nat) /\ Increasing(InHand) /\ ToSet(InHand) = Held
    <3>1. CASE spc = "write"
      BY <3>1, SeqOfOne DEF InHand, Held, InvSpool
    <3>2. CASE spc # "write"
      BY <3>2, SeqOfNone DEF InHand, Held
    <3> QED BY <3>1, <3>2
  <2>2. buffer \in Seq(Nat) /\ queue \in Seq(Nat) /\ Increasing(buffer) /\ Increasing(queue)
    BY DEF InvSpool
  <2>3. PICK a \in Seq(Nat) : a = buffer \o InHand
    BY <2>1, <2>2, ConcatSeq
  <2>4. Precedes(buffer, InHand)
    BY <2>1 DEF InvSpool, Below, Precedes
  <2>5. ToSet(a) = ToSet(buffer) \cup Held /\ Increasing(a)
    BY <2>1, <2>2, <2>3, <2>4, ConcatSeq
  <2>6. Precedes(a, queue)
    BY <2>5 DEF InvSpool, Below, Precedes
  <2>7. Pending = a \o queue
    BY <2>3 DEF Pending
  <2>8. ToSet(Pending) = ToSet(buffer) \cup Held \cup ToSet(queue) /\ Increasing(Pending)
    BY <2>2, <2>5, <2>6, <2>7, ConcatSeq
  <2>9. ASSUME NEW d \in Dates
        PROVE  /\ Increasing(disk[d]) /\ Precedes(disk[d], Pending)
               /\ \A e \in d + 1 .. LastDate : Precedes(disk[d], disk[e])
    <3>1. Increasing(disk[d])
      BY DEF InvSpool
    <3>2. ToSet(disk[d]) \subseteq OnDisk
      BY DEF OnDisk
    <3>3. Precedes(disk[d], Pending)
      BY <2>8, <3>2 DEF InvSpool, Below, Precedes
    <3>4. ASSUME NEW e \in d + 1 .. LastDate PROVE Precedes(disk[d], disk[e])
      <4>1. e \in Dates /\ d < e
        BY SpoolerAssumption DEF Dates
      <4> QED BY <4>1 DEF InvSpool, Below, Precedes
    <3> QED BY <3>1, <3>3, <3>4
  <2> QED BY <2>8, <2>9 DEF SpooledInOrder
<1>2. FeedInv => SpooledInOrder
  BY <1>1 DEF FeedInv
<1> QED BY <1>2, FeedInvariant, PTL

(* Every channel stays within its capacity, every counter within its       *)
(* bound, and no tick or frame appears that was not received.              *)
THEOREM FeedTypes == Spec => []TypeOK
<1>1. FeedInv => TypeOK
  <2> SUFFICES ASSUME FeedInv PROVE TypeOK
    OBVIOUS
  <2>1. /\ job \in [spool : BOOLEAN, messages : Nat, ticks : 0 .. Batch, enables : Nat,
                    breaks : BOOLEAN]
        /\ Batch \in Nat /\ frames \in Nat /\ frames <= job.messages
    BY FeedsAssumption DEF FeedInv, InvTypes
  <2>2. frames * Batch \in Nat /\ job.messages * Batch \in Nat
        /\ frames * Batch <= job.messages * Batch
    BY <2>1
  <2>3. ToSet(TickPipe) \cup {last} \subseteq 0 .. job.messages * Batch
    <3>1. TickPipe \in Seq(Nat) /\ last \in Nat
          /\ \A x \in ToSet(TickPipe) \cup {last} : x <= frames * Batch
      BY PipeOfParts DEF FeedInv, InvTicks
    <3>2. ToSet(TickPipe) \subseteq Nat
      BY <3>1, SeqInSet
    <3>3. PICK n \in Nat, m \in Nat : n = frames * Batch /\ m = job.messages * Batch /\ n <= m
      BY <2>2
    <3>4. \A x \in Nat : x <= n => x \in 0 .. m
      BY <3>3
    <3> QED BY <3>1, <3>2, <3>3, <3>4
  <2>4. SpoolTypeOK(frames)
    <3>1. counted \in Nat
      <4>1. OnDisk \cup ToSet(buffer) \subseteq 1 .. frames /\ 1 \in Int /\ frames \in Int
        BY <2>1 DEF FeedInv, InvSpool
      <4>2. IsFiniteSet(OnDisk \cup ToSet(buffer))
        BY <4>1, FS_Interval, FS_Subset
      <4> QED BY <4>2, FS_CardinalityType DEF FeedInv, InvAccount
    <3>2. date \in 1 .. LastDate /\ file \in NoFile .. LastDate
      BY SpoolerAssumption DEF FeedInv, InvSpool, Dates, NoFile
    <3>3. ToSet(queue) \cup ToSet(buffer) \cup OnDisk \cup dropped \cup failed \subseteq 1 .. frames
      BY DEF FeedInv, InvSpool
    <3>4. spooling \in BOOLEAN
      BY <2>1 DEF FeedInv, InvSpool
    <3>5. /\ rootDone \in BOOLEAN /\ spoolStop \in BOOLEAN /\ draining \in BOOLEAN
          /\ Len(queue) <= QueueSize /\ spc \in {"wait", "write", "ended"} /\ pkt \in 0 .. frames
      BY DEF FeedInv, InvTypes, InvSpool
    <3> QED BY <3>1, <3>2, <3>3, <3>4, <3>5 DEF SpoolTypeOK
  <2>5. Len(hand) = IF fw = "hand" THEN 1 ELSE 0
    <3>1. CASE hand = <<>>
      BY <3>1, SeqOfNone DEF FeedInv, InvTicks
    <3>2. CASE hand # <<>>
      BY <3>2, SeqOfOne DEF FeedInv, InvTicks
    <3> QED BY <3>1, <3>2
  <2> QED BY <2>3, <2>4, <2>5 DEF TypeOK, FeedInv, InvTypes, InvTicks, InvSpool
<1> QED BY <1>1, FeedInvariant, PTL
=============================================================================
