------------------------------- MODULE Recovery -------------------------------
(***************************************************************************)
(* A live hub whose daemon is killed, or stopped with its segment left     *)
(* behind, and started again: CreateProducerWithRecovery takes the segment *)
(* over if its last anchor is recent enough, publishes how it recovered,   *)
(* and the daemon seeds a new projector from the rings before it goes on.  *)
(*                                                                         *)
(* Sources: pkg/shm/producer.go (CreateProducerWithRecovery,               *)
(* ReadHistoryBars, SetFrameFlags), cmd/tickhub/daemon.go (runDaemon),     *)
(* pkg/project/projector.go (SetStartAnchor, SeedHistory, SetColdStart,    *)
(* closePhase) and pkg/project/window.go (CloseBar, SeedFromBars,          *)
(* SeedPrevailingPrice): the five-feature mode, whose returns look back    *)
(* into a queue of bar prices.                                             *)
(*                                                                         *)
(* A price is the index of the bar it belongs to.  The clock is read       *)
(* twice, both times when the daemon starts; any instant that fits what    *)
(* the segment shows may be read.                                          *)
(***************************************************************************)
EXTENDS LiveRing

CONSTANTS
  MaxRestarts,  \* bound: starts of the daemon after the first
  StartDelay,   \* bound: time between a start's two looks at the clock
  Lookback,     \* bars ReadHistoryBars is asked for: 60
  QueueSize,    \* maxHistoryBars: 32
  LongReturn,   \* the longest return, in bars: 15
  ColdBars      \* coldStartBarsRemaining after SetColdStart(true): 15

(* Every configuration shipped with the hub has rings of 64 frames or more. *)
ASSUME RecoveryAssumption ==
  /\ MaxRestarts \in Nat /\ StartDelay \in Nat
  /\ Lookback \in Nat /\ Lookback < MaxFrames
  /\ LongReturn \in Nat \ {0} /\ QueueSize \in Nat /\ LongReturn < QueueSize
  /\ ColdBars \in Nat

NoBar == 0          \* a price that was never stored
Prevailing == -1    \* a price that is no bar's

VARIABLES
  daemon,       \* "running", "dead", "replaced" or how far a start has got
  restarts,     \* number of starts after the first
  bootNS,       \* the instant the latest start last read from the clock
  recovering,   \* the mode that start decided on
  generation,   \* header.Generation
  recMode,      \* header.RecoveryMode
  bootID,       \* header.BootID
  cold,         \* Projector.coldStartBarsRemaining
  flags,        \* [Phases -> [Slots -> BOOLEAN]]: FlagColdStart of the frame
  prices,       \* [Rows -> [0 .. QueueSize-1 -> price]]: SymbolHistory.prices
  phaseSlots,   \* [Phases -> Nat]: Projector.phaseSlots
  exact         \* history, [Rows -> [Slots -> BOOLEAN]]: the frame's returns
                \* are those of the bars they are named for

headerVars == <<generation, recMode, bootID>>
bootVars == <<restarts, bootNS, recovering>>
windowVars == <<cold, flags, prices, phaseSlots, exact>>
recoveryVars == <<daemon, bootVars, headerVars, windowVars>>

NoPrices == [k \in 0 .. QueueSize - 1 |-> NoBar]

RecoveryInit ==
  /\ daemon = "running" /\ restarts = 0 /\ bootNS = 0 /\ recovering = "cold"
  /\ generation = 1 /\ recMode = "cold" /\ bootID = 1
  /\ cold = ColdBars
  /\ flags = [p \in Phases |-> [s \in Slots |-> FALSE]]
  /\ prices = [r \in Rows |-> NoPrices]
  /\ phaseSlots = [p \in Phases |-> 0]
  /\ exact = [r \in Rows |-> [s \in Slots |-> FALSE]]

Running == daemon = "running"
Exited == daemon = "dead" \/ (Running /\ Closed)

-----------------------------------------------------------------------------
(* The running daemon: closePhase around the commit of LiveRing *)

BarAgo(r, k) == prices[r][(phaseSlots[PhaseOf[r]] - k) % QueueSize]
Initialized(r) == prices[r] # NoPrices

(* SymbolHistory.CloseBar: the first bar of a history fills the queue.     *)
PricesWith(r, n) ==
  IF Initialized(r)
    THEN [prices[r] EXCEPT ![phaseSlots[PhaseOf[r]] % QueueSize] = n]
    ELSE [k \in 0 .. QueueSize - 1 |-> n]

ReturnsExact(r, n) == \A k \in {1, LongReturn} : BarAgo(r, k) = n - k /\ n > k

CloseBar ==
  /\ Running
  /\ ClosePhase
  /\ LET n == phaseNext[cur']
     IN  /\ prices' = [r \in Rows |->
              IF PhaseOf[r] = cur' THEN PricesWith(r, n) ELSE prices[r]]
         /\ exact' = [r \in Rows |->
              IF PhaseOf[r] = cur' THEN [exact[r] EXCEPT ![Slot(n)] = ReturnsExact(r, n)]
                                   ELSE exact[r]]
         /\ flags' = [flags EXCEPT ![cur'][Slot(n)] = FALSE]
  /\ UNCHANGED <<daemon, bootVars, headerVars, cold, phaseSlots>>

CurrentFlag == flags[cur][Slot(phaseNext[cur])]
FlagPending == cold > 0 /\ ~CurrentFlag

SetFrameFlags ==
  /\ Running /\ FrameStored
  /\ FlagPending
  /\ flags' = [flags EXCEPT ![cur][Slot(phaseNext[cur])] = TRUE]
  /\ UNCHANGED <<liveVars, daemon, bootVars, headerVars, cold, prices,
                 phaseSlots, exact>>

LastPhase == CHOOSE p \in Phases : \A q \in Phases : q <= p

(* Fault: the countdown runs with the frames of every phase. *)
ColdAfterAny == IF cold > 0 THEN cold - 1 ELSE 0

(* Fault: the countdown does not stop at zero. *)
ColdAfterUnchecked == IF cur = LastPhase THEN cold - 1 ELSE cold

(* The countdown runs with the frames of the last phase. *)
ColdAfter == IF cur = LastPhase /\ cold > 0 THEN cold - 1 ELSE cold

FinalizeFrame ==
  /\ Running /\ ~FlagPending
  /\ CommitFrameFinalize
  /\ cold' = ColdAfter
  /\ phaseSlots' = [phaseSlots EXCEPT ![cur] = @ + 1]
  /\ UNCHANGED <<daemon, bootVars, headerVars, flags, prices, exact>>

CommitStep ==
  /\ Running
  /\ \/ StoreFrameAnchor
     \/ ~FlagPending /\ StoreFirstAnchor
     \/ CloseHub
     \/ \E r \in Rows : CopyFirstHalf(r) \/ CopySecondHalf(r) \/ StoreAnchor(r)
  /\ UNCHANGED recoveryVars

-----------------------------------------------------------------------------
(* Death and restart *)

(* The process dies between any two stores; its memory is gone, the        *)
(* segment is not.                                                         *)
Kill ==
  /\ daemon \in {"running", "quarantined", "moded", "booted"} /\ ~Closed
  /\ restarts < MaxRestarts
  /\ daemon' = "dead"
  /\ committing' = FALSE
  /\ UNCHANGED <<firstAnchor, lastWritten, status, slotAnchor, slotData,
                 frameAnchor, phaseNext, cur, stage, historyVars, bootVars,
                 headerVars, windowVars>>

(* What the clock may show: not less than at the latest start, nor than    *)
(* the anchor of any frame that was begun.                                 *)
Instants ==
  {now \in bootNS .. (LastIndex + 1) * Cadence :
     /\ now > lastWritten
     /\ \A r \in Rows : newest[r] # Unset => now >= AnchorNS(PhaseOf[r], newest[r])}

Downtime(now) == now - lastWritten
Eligible(now) == lastWritten > 0 /\ Downtime(now) < MaxFrames * Cadence

(* Fault: a downtime of a whole cadence still counts as less than one. *)
ModeLenient(now) == IF Downtime(now) <= Cadence THEN "sub" ELSE "gap"

ModeFor(now) == IF Downtime(now) < Cadence THEN "sub" ELSE "gap"

(* CreateProducerWithRecovery attaches; the status is stored first.        *)
Quarantine(now) ==
  /\ Exited
  /\ restarts < MaxRestarts
  /\ Eligible(now)
  /\ daemon' = "quarantined" /\ status' = "booting"
  /\ restarts' = restarts + 1 /\ bootNS' = now
  /\ recovering' = ModeFor(now)
  /\ committing' = FALSE
  /\ UNCHANGED <<firstAnchor, lastWritten, slotAnchor, slotData, frameAnchor,
                 phaseNext, cur, stage, historyVars, headerVars, windowVars>>

(* CreateProducer unlinks the name and creates a new file: whoever has the *)
(* old one mapped keeps it, and nobody writes it any more.                 *)
Replace(now) ==
  /\ Exited
  /\ restarts < MaxRestarts
  /\ ~Eligible(now)
  /\ daemon' = "replaced"
  /\ restarts' = restarts + 1 /\ recovering' = "cold"
  /\ UNCHANGED <<liveVars, bootNS, headerVars, windowVars>>

StoreMode ==
  /\ generation' = generation + 1
  /\ recMode' = recovering
  /\ UNCHANGED <<liveVars, bootVars, bootID, windowVars>>

StoreBootID ==
  /\ bootID' = bootID + 1
  /\ UNCHANGED <<liveVars, bootVars, generation, recMode, windowVars>>

(* Fault: BootID is stored before Generation and RecoveryMode. *)
PublishBootFirst ==
  \/ daemon = "quarantined" /\ daemon' = "moded" /\ StoreBootID
  \/ daemon = "moded" /\ daemon' = "booted" /\ StoreMode

PublishRecovery ==
  \/ daemon = "quarantined" /\ daemon' = "moded" /\ StoreMode
  \/ daemon = "moded" /\ daemon' = "booted" /\ StoreBootID

(* Fault: a slot is read whatever frame it holds. *)
HistoryBarsUnchecked(r) ==
  LET latest == (lastWritten - Offset[PhaseOf[r]]) \div Cadence
  IN  {n \in latest - (Lookback - 1) .. latest : n > 0}

(* ReadHistoryBars: the bars whose frame and whose row are in the ring.    *)
HistoryBars(r) ==
  LET latest == (lastWritten - Offset[PhaseOf[r]]) \div Cadence
  IN  {n \in latest - (Lookback - 1) .. latest :
         n > 0 /\ frameAnchor[PhaseOf[r]][Slot(n)] = n /\ slotAnchor[r][Slot(n)] = n}

(* SeedFromBars walks from the last bar back, each price from the one      *)
(* after it by that bar's one-second return.                               *)
SeededPrices(r) ==
  LET bars == HistoryBars(r)
      known(n) == \A m \in bars : m > n => (m - 1 \in bars \/ m - 1 = n) /\ exact[r][Slot(m)]
      at(k) == {n \in bars : n % QueueSize = k}
  IN  [k \in 0 .. QueueSize - 1 |->
         IF at(k) = {} THEN NoBar
         ELSE LET n == CHOOSE n \in at(k) : \A m \in at(k) : n <= m
              IN  IF known(n) THEN n ELSE Prevailing]

StartPrices(r) ==
  CASE recovering = "sub" /\ HistoryBars(r) # {} -> SeededPrices(r)
    [] recovering = "gap" -> [k \in 0 .. QueueSize - 1 |-> Prevailing]
    [] OTHER -> NoPrices

(* The clock is read again, for SetStartAnchor. *)
StartInstants == {now \in Instants : now <= bootNS + StartDelay}

(* NewProjector, SetStartAnchor, the seeding, SetColdStart and, last,      *)
(* StatusRunning.  SeedHistory would move a phase on to the bar after its  *)
(* last one, and its queue's slot with it, were that anchor still ahead.   *)
SeedAndRun(now) ==
  LET start == [p \in Phases |-> FirstAfter(p, now)]
      bars(p) == IF recovering = "sub" THEN UNION {HistoryBars(r) : r \in RowsOf(p)} ELSE {}
      behind(p) == {n \in bars(p) : n + 1 > start[p]}
      next == [p \in Phases |->
                 IF behind(p) = {} THEN start[p]
                 ELSE 1 + CHOOSE n \in behind(p) : \A m \in behind(p) : m <= n]
  IN  /\ daemon = "booted"
      /\ daemon' = "running" /\ status' = "running"
      /\ bootNS' = now
      /\ phaseNext' = next
      /\ phaseSlots' = [p \in Phases |-> IF behind(p) = {} THEN 0 ELSE next[p]]
      /\ prices' = [r \in Rows |-> StartPrices(r)]
      /\ cold' = IF recovering = "sub" THEN 0 ELSE ColdBars
      /\ passedOver' = passedOver \cup
           UNION {{p} \X (phaseNext[p] .. next[p] - 1) : p \in Phases}
      /\ UNCHANGED <<firstAnchor, lastWritten, slotAnchor, slotData, frameAnchor,
                     committing, cur, stage, newest, restarts, recovering, headerVars,
                     flags, exact>>

Hub ==
  \/ CloseBar \/ SetFrameFlags \/ FinalizeFrame \/ CommitStep
  \/ Kill \/ PublishRecovery
  \/ \E now \in Instants : Quarantine(now) \/ Replace(now)
  \/ \E now \in StartInstants : SeedAndRun(now)

-----------------------------------------------------------------------------
RecoveryTypeOK ==
  /\ daemon \in {"running", "dead", "replaced", "quarantined", "moded", "booted"}
  /\ restarts \in 0 .. MaxRestarts /\ bootNS \in Nat
  /\ {recovering, recMode} \subseteq {"cold", "sub", "gap"}
  /\ generation \in Nat /\ bootID \in Nat /\ cold \in 0 .. ColdBars
  /\ flags \in [Phases -> [Slots -> BOOLEAN]]
  /\ prices \in [Rows -> [0 .. QueueSize - 1 -> Nat \cup {Prevailing}]]
  /\ phaseSlots \in [Phases -> Nat]
  /\ exact \in [Rows -> [Slots -> BOOLEAN]]

(* The bars a restarted daemon seeds its projector from are whole and of   *)
(* the anchors they are taken for, whatever frame its predecessor was      *)
(* writing when it died and whatever frames earlier restarts passed over.  *)
SeedsWhole ==
  daemon = "booted" /\ recovering = "sub" =>
    \A r \in Rows : \A n \in HistoryBars(r) : slotData[r][Slot(n)] = n

(* After a cold start or a gap, a frame of the phase that closes last in   *)
(* each round carries FlagColdStart or returns over its own bars.          *)
FlagCoversGap ==
  [][lastWritten' # lastWritten /\ cur = LastPhase /\ recovering # "sub" =>
       CurrentFlag \/ \A r \in RowsOf(cur) : exact[r][Slot(phaseNext[cur])]]_lastWritten

(* What the change log says of sub-cadence recovery: a restart that is     *)
(* taken for one within a cadence misses no frame (daemon.go:257 puts the  *)
(* first anchor of every phase after the restart).                         *)
NoFrameMissed ==
  [][daemon = "booted" /\ daemon' = "running" /\ recovering = "sub" =>
       \A p \in Phases : \A n \in 1 .. LastIndex :
         AnchorNS(p, n) > lastWritten => n >= phaseNext'[p]]_daemon

(* How far the code departs from that.  Each frame missed by a restart     *)
(* that is taken for one within a cadence had come due when the daemon     *)
(* read the clock for its first anchors.  Of those due when it decided on  *)
(* the mode, none is of the last published anchor's phase and at most one  *)
(* of any other; the rest came due between the two looks at the clock.     *)
SubCadenceMisses ==
  [][daemon = "booted" /\ daemon' = "running" /\ recovering = "sub" =>
       \A p \in Phases :
         LET missed == {n \in 1 .. LastIndex :
                          AnchorNS(p, n) > lastWritten /\ n < phaseNext'[p]}
             before == {n \in missed : AnchorNS(p, n) <= bootNS}
         IN  /\ \A n \in missed : AnchorNS(p, n) <= bootNS'
             /\ \A n, m \in before : n = m
             /\ (lastWritten - Offset[p]) % Cadence = 0 => before = {}]_daemon

(* What the change log says of a gap: FlagColdStart is enforced for as     *)
(* many seconds as the longest return looks back, so that no frame of any  *)
(* phase has returns across the gap without it (closePhase).               *)
FlagCoversEveryPhase ==
  [][lastWritten' # lastWritten /\ recovering = "gap" =>
       CurrentFlag \/ \A r \in RowsOf(cur) : exact[r][Slot(phaseNext[cur])]]_lastWritten

(* Rolling return queues remain continuous: a frame without FlagColdStart  *)
(* whose bars are all in the ring, with returns over their own bars, has   *)
(* its own returns over its own bars.                                      *)
ReturnsContinuous ==
  [][lastWritten' # lastWritten /\ ~CurrentFlag =>
       \A r \in RowsOf(cur) :
         LET n == phaseNext[cur]
             whole(m) == m > 0 /\ slotAnchor[r][Slot(m)] = m /\ exact[r][Slot(m)]
         IN  (\A k \in 1 .. LongReturn : whole(n - k)) => exact[r][Slot(n)]]_lastWritten
=============================================================================
