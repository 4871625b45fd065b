------------------------------- MODULE Projector -------------------------------
(***************************************************************************)
(* The 44-feature projector: ticks come in, whole-second bars and phase    *)
(* frames come out.  In live mode ticks arrive in any order, wait in a     *)
(* min-heap and are drained by Flush, which the daemon's timer calls with  *)
(* the wall time less the watermark; in historical mode the merged stream  *)
(* is sorted and every tick first closes what it has passed.               *)
(*                                                                         *)
(* Sources: pkg/project/projector.go, the quote filter and accumulators of *)
(* pkg/project/window.go, the loops of cmd/tickhub/daemon.go (live) and    *)
(* cmd/tickhub/worker.go (historical).                                     *)
(*                                                                         *)
(* A bar is the set of ticks accumulated in it; the state as of an anchor  *)
(* is the last quote and trade and the set of ticks counted so far.  The   *)
(* 250 ms rings and the snapshot cells written on the way are not part of  *)
(* this module.                                                            *)
(***************************************************************************)
EXTENDS Integers, FiniteSets

CONSTANTS
  Ticks,      \* ticks, [id, sym, kind, ts, px]
  Symbols,    \* uniqueSymbols, as integers in their order
  Phases,     \* 0 .. number of phases - 1
  Offset,     \* [Phases -> 0 .. Cadence-1]
  Members,    \* [Phases -> SUBSET Symbols]: the symbols of each phase
  Cadence,    \* cadenceNS
  Watermark,  \* watermarkBufferNS
  Jitter,     \* [Ticks -> Nat]: a live tick arrives at most so long after its time
  Jobs,       \* what the projector may be set up for: [live, start, active, ticks]
  EndNS       \* end of the worker's chunk; live: bound on now

Quote == 0
Trade == 1

ASSUME StreamAssumption ==
  /\ Cadence \in Nat \ {0} /\ Watermark \in Nat /\ Jitter \in [Ticks -> Nat]
  /\ EndNS \in Nat /\ IsFiniteSet(Ticks) /\ Symbols \subseteq Int
  /\ Offset \in [Phases -> 0 .. Cadence - 1]
  /\ Members \in [Phases -> SUBSET Symbols]
  /\ \A j \in Jobs : j \in [live : BOOLEAN, start : Nat, active : SUBSET Symbols,
                          ticks : SUBSET Ticks]
  /\ \A t \in Ticks : t.sym \in Symbols /\ t.kind \in {Quote, Trade} /\ t.ts \in Nat
  (* runDaemon calls SetStartAnchor and projects every symbol; when it      *)
  (* starts no tick is late already.                                        *)
  /\ \A j \in Jobs : j.live => /\ j.start > 0 /\ j.active = Symbols
                               /\ \A t \in j.ticks : j.start <= t.ts + Jitter[t]

NoTick == [id |-> 0, sym |-> 0, kind |-> Quote, ts |-> 0, px |-> 0]
NoRow == [bar |-> {}, quote |-> NoTick, trade |-> NoTick, seen |-> {}]
NoFrame == [anchor |-> 0, rows |-> [s \in {} |-> NoRow]]

VARIABLES
  job,        \* live: isLiveMode; start: argument of SetStartAnchor, 0 when it is
              \* not called; active: the target symbol of a worker, or all
              \* symbols; ticks: those of which the stream has some
  now,        \* wall clock, live mode
  wire,       \* ticks that have not reached the projector
  seq,        \* [Ticks -> Nat]: arrival number (liveSeq), 0 before arrival
  heap,       \* liveHeap
  pc,         \* "idle", "flush", "ingest", "done"
  limit,      \* target of the Flush, timestamp of the tick being ingested
  cur,        \* the tick being ingested (historical mode)
  phaseNext,  \* [Phases -> phaseNextAnchor], 0 before the first tick
  nextSec,    \* nextSecondAnchorNS
  symNext,    \* [Symbols -> symNextSecondNS]
  acc,        \* [Symbols -> ticks in the open bar's accumulators]
  quote,      \* [Symbols -> last recorded quote, the baseline of AcceptQuote]
  trade,      \* [Symbols -> last trade]
  seen,       \* [Symbols -> ticks counted: ccmCumQuotes, ccmCumTrades]
  barRing,    \* [Symbols -> [0..3 -> closed bar]]: symBarRing, symBarAnchor
  lastBar,    \* [Symbols -> last closed bar]: uniqueLastCCMBar
  frame,      \* [Phases -> last frame committed]
  lastWritten,\* header.LastWrittenAnchorNS
  late        \* lateDroppedTicks

clockVars == <<now, wire, seq>>
anchorVars == <<job, phaseNext, nextSec>>
historyVars == <<quote, trade, seen>>
barVars == <<symNext, barRing, lastBar>>
frameVars == <<frame, lastWritten>>
vars == <<clockVars, heap, pc, limit, cur, anchorVars, historyVars, barVars, acc,
          frameVars, late>>

-----------------------------------------------------------------------------
Arrived == {t \in Ticks : seq[t] > 0}

(* The order of tickMinHeap.less: time, quotes before trades, symbol, arrival. *)
Before(a, b) ==
  \/ a.ts < b.ts
  \/ a.ts = b.ts /\ a.kind < b.kind
  \/ a.ts = b.ts /\ a.kind = b.kind /\ a.sym < b.sym
  \/ a.ts = b.ts /\ a.kind = b.kind /\ a.sym = b.sym /\ seq[a] < seq[b]

(* The first anchor of an offset's lattice after ts. *)
FirstAfter(ts, off) == LET a == ((ts - off) \div Cadence) * Cadence + off
                       IN  IF a <= ts THEN a + Cadence ELSE a
Floor(anchor) == (anchor \div Cadence) * Cadence
BarSlot(anchor) == (anchor \div Cadence) % 4

(* SetStartAnchor, or the first sorted tick. *)
PhaseStarts(ts) == [p \in Phases |-> FirstAfter(ts, Offset[p])]

Init ==
  /\ job \in Jobs
  /\ now = job.start /\ wire \in SUBSET job.ticks /\ seq = [t \in Ticks |-> 0]
  /\ heap = {} /\ pc = "idle" /\ limit = 0 /\ cur = NoTick
  /\ phaseNext = IF job.start = 0 THEN [p \in Phases |-> 0] ELSE PhaseStarts(job.start)
  /\ nextSec = IF job.start = 0 THEN 0 ELSE FirstAfter(job.start, 0)
  /\ symNext = [s \in Symbols |-> IF job.start = 0 THEN 0 ELSE FirstAfter(job.start, 0)]
  /\ acc = [s \in Symbols |-> {}]
  /\ quote = [s \in Symbols |-> NoTick] /\ trade = [s \in Symbols |-> NoTick]
  /\ seen = [s \in Symbols |-> {}]
  /\ barRing = [s \in Symbols |-> [k \in 0 .. 3 |-> [anchor |-> 0, bar |-> {}]]]
  /\ lastBar = [s \in Symbols |-> {}]
  /\ frame = [p \in Phases |-> NoFrame] /\ lastWritten = 0
  /\ late = 0

(* AcceptQuote drops invalid and repeated quotes. *)
Accepts(t) == t.kind = Quote => t.px > 0 /\ t.px # quote[t.sym].px

IsLate(t) == symNext[t.sym] > 0 /\ t.ts < symNext[t.sym] - Cadence

(* recordCCMQuoteState, classifyCCMTrade: every accepted tick, late or not. *)
Record(t) ==
  /\ quote' = IF t.kind = Quote THEN [quote EXCEPT ![t.sym] = t] ELSE quote
  /\ trade' = IF t.kind = Trade THEN [trade EXCEPT ![t.sym] = t] ELSE trade
  /\ seen' = [seen EXCEPT ![t.sym] = @ \cup {t}]

(* Fault: what has missed its bar is dropped without being counted. *)
ApplyLateUncounted(t) ==
  /\ Record(t)
  /\ late' = late
  /\ acc' = IF IsLate(t) THEN acc ELSE [acc EXCEPT ![t.sym] = @ \cup {t}]

(* The last part of ingestSortedCCM44Tick: a late tick updates the         *)
(* prevailing state but no bar.                                            *)
Apply(t) ==
  /\ Record(t)
  /\ IF IsLate(t)
       THEN late' = late + 1 /\ acc' = acc
       ELSE late' = late /\ acc' = [acc EXCEPT ![t.sym] = @ \cup {t}]

-----------------------------------------------------------------------------
(* Closing bars and phases *)

(* A Flush closes what is due at its target; a tick closes the phases      *)
(* before it, and the second it does not belong to.                        *)
PhaseDue(p) == phaseNext[p] > 0 /\ IF pc = "flush" THEN phaseNext[p] <= limit
                                                   ELSE phaseNext[p] < limit
SecondDue == nextSec > 0 /\ nextSec <= limit
Closing == pc = "flush" \/ (pc = "ingest" /\ ~IsLate(cur))

(* The whole second goes first at equal anchors. *)
SecondFirst == SecondDue /\ \A p \in Phases : PhaseDue(p) => nextSec <= phaseNext[p]

PhaseFirst(p) ==
  /\ PhaseDue(p) /\ ~SecondFirst
  /\ \A q \in Phases : PhaseDue(q) => \/ phaseNext[p] < phaseNext[q]
                                      \/ phaseNext[p] = phaseNext[q] /\ p <= q

(* Fault: a tick on a phase's anchor is left for the next frame. *)
DrainableBeforeAnchor(t) ==
  IF SecondFirst THEN t.ts < nextSec
  ELSE IF \E p \in Phases : PhaseDue(p)
    THEN \E p \in Phases : PhaseFirst(p) /\ t.ts < phaseNext[p]
    ELSE t.ts <= limit

(* What the live Flush drains before its next close, or before it returns. *)
Drainable(t) ==
  IF SecondFirst THEN t.ts < nextSec
  ELSE IF \E p \in Phases : PhaseDue(p)
    THEN \E p \in Phases : PhaseFirst(p) /\ t.ts <= phaseNext[p]
    ELSE t.ts <= limit

NothingToDrain == pc = "flush" /\ job.live => \A t \in heap : ~Drainable(t)

(* PopItem and ingestSortedCCM44Tick of the least tick of the heap. *)
DrainTick ==
  /\ pc = "flush" /\ job.live
  /\ \E t \in heap :
       /\ \A u \in heap \ {t} : Before(t, u)
       /\ Drainable(t)
       /\ heap' = heap \ {t}
       /\ IF Accepts(t) THEN Apply(t) ELSE UNCHANGED <<historyVars, acc, late>>
  /\ UNCHANGED <<clockVars, pc, limit, cur, anchorVars, barVars, frameVars>>

(* closeSecondBar *)
CloseSecond ==
  /\ Closing /\ SecondFirst /\ NothingToDrain
  /\ LET done == {s \in job.active : symNext[s] <= nextSec}
     IN  /\ barRing' = [s \in Symbols |-> IF s \in done
              THEN [barRing[s] EXCEPT ![BarSlot(nextSec)] =
                      [anchor |-> nextSec, bar |-> acc[s]]]
              ELSE barRing[s]]
         /\ lastBar' = [s \in Symbols |-> IF s \in done THEN acc[s] ELSE lastBar[s]]
         /\ acc' = [s \in Symbols |-> IF s \in done THEN {} ELSE acc[s]]
         /\ symNext' = [s \in Symbols |-> IF s \in done THEN nextSec + Cadence
                                                       ELSE symNext[s]]
  /\ nextSec' = nextSec + Cadence
  /\ UNCHANGED <<job, clockVars, heap, pc, limit, cur, phaseNext, historyVars,
                 frameVars, late>>

(* The row of a symbol in a frame: the bar that ended at the whole second  *)
(* of the anchor, and the state as of the anchor.                          *)
Row(s, anchor) ==
  LET kept == barRing[s][BarSlot(anchor)]
  IN  [bar |-> IF kept.anchor = Floor(anchor) THEN kept.bar ELSE lastBar[s],
       quote |-> quote[s], trade |-> trade[s], seen |-> seen[s]]

(* closePhase; the loops increment the phase's anchor after it.  The       *)
(* countdown of a cold start is Recovery's.                                *)
ClosePhase(p) ==
  /\ Closing /\ PhaseFirst(p) /\ NothingToDrain
  /\ frame' = [frame EXCEPT ![p] =
       [anchor |-> phaseNext[p],
        rows |-> [s \in Members[p] \cap job.active |-> Row(s, phaseNext[p])]]]
  /\ lastWritten' = phaseNext[p]
  /\ phaseNext' = [phaseNext EXCEPT ![p] = @ + Cadence]
  /\ UNCHANGED <<job, clockVars, heap, pc, limit, cur, nextSec, historyVars, barVars,
                 acc, late>>

NothingDue == ~SecondDue /\ \A p \in Phases : ~PhaseDue(p)

-----------------------------------------------------------------------------
(* Live mode: the daemon's select loop *)

(* A tick arrives with bounded delay. *)
Advance ==
  /\ job.live /\ pc = "idle"
  /\ now < EndNS
  /\ \A t \in wire : now < t.ts + Jitter[t]
  /\ now' = now + 1
  /\ UNCHANGED <<wire, seq, heap, pc, limit, cur, anchorVars, historyVars, barVars,
                 acc, frameVars, late>>

Arrive(t) ==
  /\ job.live /\ pc = "idle"
  /\ t \in wire /\ t.ts <= now
  /\ wire' = wire \ {t}
  /\ seq' = [seq EXCEPT ![t] = Cardinality(Arrived) + 1]
  /\ heap' = heap \cup {t}
  /\ UNCHANGED <<now, pc, limit, cur, anchorVars, historyVars, barVars, acc,
                 frameVars, late>>

(* flushNow: a Flush with the target of the one before it does nothing. *)
FlushNow ==
  /\ job.live /\ pc = "idle"
  /\ now > Watermark
  /\ limit' = now - Watermark /\ limit' # limit
  /\ pc' = "flush"
  /\ UNCHANGED <<clockVars, heap, cur, anchorVars, historyVars, barVars, acc,
                 frameVars, late>>

EndFlush ==
  /\ pc = "flush" /\ NothingDue /\ NothingToDrain
  /\ pc' = IF job.live THEN "idle" ELSE "done"
  /\ UNCHANGED <<clockVars, heap, limit, cur, anchorVars, historyVars, barVars, acc,
                 frameVars, late>>

-----------------------------------------------------------------------------
(* Historical mode: the merged stream *)

(* The merger's order; ticks that tie come in any order. *)
NextOfStream(t) ==
  /\ t \in wire
  /\ \A u \in wire : \/ t.ts < u.ts
                     \/ t.ts = u.ts /\ t.kind < u.kind
                     \/ t.ts = u.ts /\ t.kind = u.kind /\ t.sym <= u.sym

TakeFromStream(t) ==
  /\ ~job.live /\ pc = "idle"
  /\ NextOfStream(t)
  /\ wire' = wire \ {t}
  /\ seq' = [seq EXCEPT ![t] = Cardinality(Arrived) + 1]

(* Fault: ticks before the chunk go into its first bar. *)
IngestPreWindowToBar(t) ==
  /\ TakeFromStream(t)
  /\ t.ts < job.start
  /\ IF Accepts(t) THEN Apply(t) ELSE UNCHANGED <<historyVars, acc, late>>
  /\ UNCHANGED <<now, heap, pc, limit, cur, anchorVars, barVars, frameVars>>

(* IngestPreWindowTick: before the chunk's start a tick is only recorded.  *)
IngestPreWindow(t) ==
  /\ TakeFromStream(t)
  /\ t.ts < job.start
  /\ IF Accepts(t) THEN Record(t) ELSE UNCHANGED historyVars
  /\ UNCHANGED <<now, heap, pc, limit, cur, anchorVars, barVars, acc, frameVars, late>>

(* IngestTick up to the closing loop: the first tick sets the anchors, a   *)
(* quote that is not accepted closes nothing.                              *)
BeginIngest(t) ==
  /\ TakeFromStream(t)
  /\ t.ts >= job.start
  /\ IF nextSec = 0
       THEN /\ phaseNext' = PhaseStarts(t.ts)
            /\ nextSec' = FirstAfter(t.ts, 0)
            /\ symNext' = [s \in Symbols |-> FirstAfter(t.ts, 0)]
       ELSE UNCHANGED <<phaseNext, nextSec, symNext>>
  /\ IF Accepts(t)
       THEN pc' = "ingest" /\ cur' = t /\ limit' = t.ts
       ELSE UNCHANGED <<pc, cur, limit>>
  /\ UNCHANGED <<job, now, heap, historyVars, barRing, lastBar, acc, frameVars, late>>

EndIngest ==
  /\ pc = "ingest"
  /\ NothingDue \/ IsLate(cur)
  /\ Apply(cur)
  /\ pc' = "idle"
  /\ UNCHANGED <<clockVars, heap, limit, cur, anchorVars, barVars, frameVars>>

(* The Flush at the end of the chunk, or at the last tick of the files.    *)
FinalFlush ==
  /\ ~job.live /\ pc = "idle"
  /\ wire = {} /\ Arrived # {}
  /\ pc' = "flush"
  /\ limit' = IF job.start > 0 THEN EndNS
              ELSE CHOOSE n \in {t.ts : t \in Arrived} : \A t \in Arrived : t.ts <= n
  /\ UNCHANGED <<clockVars, heap, cur, anchorVars, historyVars, barVars, acc,
                 frameVars, late>>

LiveNext == \/ Advance \/ FlushNow \/ DrainTick
            \/ \E t \in Ticks : Arrive(t)
HistoricalNext == \/ \E t \in Ticks : IngestPreWindow(t) \/ BeginIngest(t)
                  \/ EndIngest \/ FinalFlush
Next == \/ LiveNext \/ HistoricalNext
        \/ CloseSecond \/ EndFlush
        \/ \E p \in Phases : ClosePhase(p)

Spec == Init /\ [][Next]_vars

-----------------------------------------------------------------------------
(* What a sorted stream would have produced *)

Valid(s) == {t \in Arrived : t.sym = s /\ t.kind = Quote /\ t.px > 0}
Last(S) == IF S = {} THEN NoTick
           ELSE CHOOSE t \in S : \A u \in S \ {t} : Before(u, t)
Counted(s) == {t \in Arrived : t.sym = s /\ t.kind = Trade} \cup
  {t \in Valid(s) : Last({u \in Valid(s) : Before(u, t)}).px # t.px}
UpTo(S, anchor) == {t \in S : t.ts <= anchor}

(* A live projector takes ticks of the whole of its first second, a worker *)
(* only those from its start on.                                           *)
InBar(t, end) == /\ end - Cadence <= t.ts /\ t.ts < end
                 /\ job.live \/ job.start <= t.ts
FirstSecond == IF job.start > 0 THEN FirstAfter(job.start, 0)
               ELSE FirstAfter((CHOOSE t \in Arrived : seq[t] = 1).ts, 0)

Reference(s, anchor) ==
  LET upTo == UpTo(Counted(s), anchor)
  IN  [bar |-> IF Floor(anchor) < FirstSecond THEN {}
               ELSE {t \in Counted(s) : InBar(t, Floor(anchor))},
       quote |-> Last({t \in upTo : t.kind = Quote}),
       trade |-> Last({t \in upTo : t.kind = Trade}),
       seen |-> upTo]

-----------------------------------------------------------------------------
(* Properties *)

(* Every variable keeps its type. *)
TypeOK ==
  /\ job \in Jobs /\ now \in Nat /\ wire \subseteq Ticks /\ heap \subseteq Ticks
  /\ seq \in [Ticks -> 0 .. Cardinality(Ticks)]
  /\ pc \in {"idle", "flush", "ingest", "done"} /\ limit \in Nat
  /\ cur \in Ticks \cup {NoTick}
  /\ phaseNext \in [Phases -> Nat] /\ nextSec \in Nat /\ symNext \in [Symbols -> Nat]
  /\ acc \in [Symbols -> SUBSET Ticks] /\ seen \in [Symbols -> SUBSET Ticks]
  /\ quote \in [Symbols -> Ticks \cup {NoTick}]
  /\ trade \in [Symbols -> Ticks \cup {NoTick}]
  /\ barRing \in [Symbols -> [0 .. 3 -> [anchor : Nat, bar : SUBSET Ticks]]]
  /\ lastBar \in [Symbols -> SUBSET Ticks]
  /\ lastWritten \in Nat /\ late \in Nat

(* No tick of the symbol is delayed by the watermark or more.              *)
Punctual(s) == job.live => \A t \in Arrived \cup wire : t.sym = s => Jitter[t] < Watermark

(* Every row of a frame is the one a sorted stream gives: ticks shuffled   *)
(* by less than the watermark, drained by Flush calls at any times, leave  *)
(* no trace in the bars, the as-of state or the cumulative counts of their *)
(* symbol, and the late ticks of one symbol none in those of another.      *)
FramesAsSorted ==
  \A p \in Phases : frame[p] # NoFrame =>
    \A s \in Members[p] \cap job.active : Punctual(s) =>
      /\ \A t \in wire : t.sym = s => t.ts > frame[p].anchor
      /\ frame[p].rows[s] = Reference(s, frame[p].anchor)

(* No bar, open or closed, ever holds a tick of another second, however    *)
(* late ticks are: what has missed its bar is in none.                     *)
BarsHonest ==
  \A s \in job.active :
    /\ \A t \in acc[s] : symNext[s] - Cadence <= t.ts /\ t.ts < symNext[s]
    /\ \A k \in 0 .. 3 : \A t \in barRing[s][k].bar : InBar(t, barRing[s][k].anchor)

(* The four bars that are kept are all there have been. *)
RingCovers == nextSec > 0 => nextSec <= FirstSecond + 4 * Cadence

(* As long as they are, lateDroppedTicks counts exactly the ticks that     *)
(* were taken out of the heap, or of the stream from the chunk's start on, *)
(* and are in no bar.                                                      *)
LateCounted ==
  LET Kept(s) == acc[s] \cup UNION {barRing[s][k].bar : k \in 0 .. 3}
      Due(s) == {t \in seen[s] : job.live \/ t.ts >= job.start}
  IN  RingCovers => late = Cardinality(UNION {Due(s) \ Kept(s) : s \in job.active})
=============================================================================
