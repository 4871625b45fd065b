-------------------------------- MODULE Ring250 --------------------------------
(***************************************************************************)
(* The ring of 250 ms buckets of one symbol: the projector's tracker       *)
(* closes buckets as ticks and anchors arrive, keeps the trailing 15       *)
(* minute baseline as a ring of prefix sums, and publishes both under a    *)
(* seqlock; a Python consumer copies the ring and takes a window from it.  *)
(*                                                                         *)
(* Sources: pkg/project/window.go (Tracker250ms), pkg/shm/layout.go        *)
(* (SymbolRing250ms) and python/tickhub/shm.py (load_window_250ms).        *)
(*                                                                         *)
(* Time is counted in buckets: what happens within a bucket happens at its *)
(* start.  A quote or a trade is a number, in the order of arrival; the    *)
(* volume of a bucket is the set of its lit trades, and what it adds to    *)
(* the baseline is their number.  The mid price, the signed sides and the  *)
(* square roots are functions of these and left out.                       *)
(***************************************************************************)
EXTENDS Integers, FiniteSets

CONSTANTS
  RingBars,     \* MaxRing250msBars: 64
  Baseline,     \* baseline15mBars: 3600
  SkipLimit,    \* columns a gap may have to be closed one by one: 100000
  WindowBars,   \* n_bars of a window: 41
  SecondBars,   \* buckets of a second: 4
  RthOpen,      \* the instant the exchange opens
  RthClose,     \* and the instant it closes
  MaxLate,      \* bound: how long before the open bucket a late tick's timestamp is
  MaxQuotes,    \* bound: quotes
  MaxTrades,    \* bound: trades that count
  LastInstant   \* bound: the last timestamp

ASSUME RingAssumption ==
  /\ {RingBars, Baseline, SkipLimit, WindowBars, SecondBars, MaxQuotes} \subseteq Nat \ {0}
  /\ WindowBars < RingBars /\ RingBars <= Baseline /\ Baseline < SkipLimit
  /\ {RthOpen, RthClose, MaxLate, MaxTrades, LastInstant} \subseteq Nat

NoCol == -1
NoQuote == 0
Idle == [kind |-> "idle"]

VARIABLES
  openNS,       \* Tracker250ms.openNS, or NoCol before openSet
  nextCol, lastClosedCol,
  quote,        \* the latest valid quote
  firstValidCol,
  curVol,       \* curLitBuyVol and curLitSellVol: the trades in them
  cs,           \* csNB + csNS
  csRing,       \* [0 .. Baseline -> Nat]: csNBRing and csNSRing
  trailing,     \* lastCnt15m
  pending,      \* the tick or anchor being worked on
  targetCol,    \* AdvanceTo's targetCol
  odd,          \* ring.SeqLockSeq is odd
  header,       \* ring.LastClosedCol and ring.Trailing15mCnt
  bars          \* [0 .. RingBars-1 -> bar]: ring.Bars

VARIABLES
  quoteAt,      \* history: [1 .. MaxQuotes -> timestamp]
  tradeAt,      \* history: [1 .. MaxTrades -> timestamp]
  quotes, trades,  \* how many of them there have been
  book,         \* history: [Columns -> trades of the column when it was closed]
  closed,       \* history: the columns closed
  jumpedTo      \* history: the columns that gaps beyond SkipLimit were left at

VARIABLES
  same,         \* ring.SeqLockSeq is still seq1, or nothing is being read
  read,         \* "none", "header", "bars", "check" or "done"
  copy          \* what it has copied

trackerVars == <<openNS, nextCol, lastClosedCol, quote, firstValidCol,
                 curVol, cs, csRing, trailing>>
ringVars == <<odd, header, bars>>
writerVars == <<pending, targetCol>>
historyVars == <<quoteAt, tradeAt, quotes, trades, book, closed, jumpedTo>>
readerVars == <<same, read, copy>>
vars == <<trackerVars, ringVars, writerVars, historyVars, readerVars>>

Columns == 0 .. LastInstant
Slots == 0 .. RingBars - 1
EmptyBar == [col |-> NoCol, quote |-> NoQuote, vol |-> {}, cnt |-> 0]
EmptyRing == [s \in Slots |-> EmptyBar]
EmptyHeader == [last |-> NoCol, cnt |-> 1]
NoCopy == [header |-> EmptyHeader, bars |-> EmptyRing]

(* Tracker250ms.Init, and SeedState's quote before the first tick, if any: *)
(* it is number 1, also for a symbol that was not seeded.                  *)
Init ==
  /\ openNS = NoCol /\ nextCol = 0 /\ lastClosedCol = NoCol
  /\ quote \in {NoQuote, 1}
  /\ firstValidCol = NoCol
  /\ curVol = {} /\ cs = 0 /\ csRing = [i \in 0 .. Baseline |-> 0]
  /\ trailing = 1
  /\ pending = Idle /\ targetCol = NoCol
  /\ odd = FALSE /\ header = EmptyHeader /\ bars = EmptyRing
  /\ quoteAt = [q \in 1 .. MaxQuotes |-> 0] /\ quotes = 1
  /\ tradeAt = [t \in 1 .. MaxTrades |-> 0] /\ trades = 0
  /\ book = [c \in Columns |-> {}] /\ closed = {} /\ jumpedTo = {}
  /\ same = TRUE /\ read = "none" /\ copy = NoCopy

-----------------------------------------------------------------------------
(* Ticks: OnQuote and OnTrade once AdvanceTo has returned *)

OpenSet == openNS # NoCol

(* ensureOpenNS: the exchange's open, or the second of a tick after its    *)
(* close.                                                                  *)
OpenFor(ts) == IF ts <= RthClose THEN RthOpen ELSE ts - (ts % SecondBars)

ApplyQuote(ts) ==
  /\ quotes' = quotes + 1 /\ quote' = quotes'
  /\ quoteAt' = [quoteAt EXCEPT ![quotes'] = ts]
  /\ UNCHANGED <<curVol, tradeAt, trades>>

(* A trade counts if it is lit and not at the mid, there is a quote to     *)
(* measure it by, and the exchange is open.                                *)
Counts(ts, lit) == lit /\ quote # NoQuote /\ ts >= openNS'

ApplyTrade(ts, lit) ==
  /\ IF Counts(ts, lit)
       THEN /\ trades' = trades + 1
            /\ tradeAt' = [tradeAt EXCEPT ![trades'] = ts]
            /\ curVol' = curVol \cup {trades'}
       ELSE UNCHANGED <<trades, tradeAt, curVol>>
  /\ UNCHANGED <<quote, quoteAt, quotes>>

tickVars == <<quote, curVol, quoteAt, tradeAt, quotes, trades>>

Apply(tick) ==
  \/ tick.kind = "quote" /\ ApplyQuote(tick.ts)
  \/ tick.kind = "trade" /\ ApplyTrade(tick.ts, tick.lit)
  \/ tick.kind = "anchor" /\ UNCHANGED tickVars

Instants ==
  {ts \in 1 .. LastInstant : OpenSet => ts >= openNS + nextCol - MaxLate}

Ticks ==
  [kind : {"anchor"}, ts : Instants]
    \cup (IF quotes < MaxQuotes THEN [kind : {"quote"}, ts : Instants] ELSE {})
    \cup (IF trades < MaxTrades THEN [kind : {"trade"}, ts : Instants, lit : BOOLEAN] ELSE {})

-----------------------------------------------------------------------------
(* AdvanceTo *)

(* Fault: a bucket is left open at the very instant of its end. *)
DueStrict(ts) == ts > openNS' + nextCol + 1

Due(ts) == ts >= openNS' + nextCol + 1

(* Fault: a symbol's first bucket is the one just over. *)
FirstColLatest(target) == IF lastClosedCol < 0 THEN target ELSE nextCol

(* Before its first bucket a symbol goes back a ring, and after a long gap *)
(* a baseline; any other gap is closed bucket by bucket.                   *)
FirstCol(target) ==
  IF lastClosedCol < 0 /\ target > RingBars THEN target - RingBars
  ELSE IF target - nextCol > SkipLimit THEN target - Baseline
  ELSE nextCol

Receive(tick) ==
  /\ pending = Idle
  /\ openNS' = IF OpenSet THEN openNS ELSE OpenFor(tick.ts)
  /\ IF Due(tick.ts)
       THEN LET target == tick.ts - openNS' - 1
                jumps == lastClosedCol >= 0 /\ FirstCol(target) # nextCol
            IN  /\ pending' = tick
                /\ targetCol' = target
                /\ nextCol' = FirstCol(target)
                /\ jumpedTo' = IF jumps THEN jumpedTo \cup {nextCol'} ELSE jumpedTo
                /\ odd' = TRUE /\ same' = (read = "none")
                /\ UNCHANGED tickVars
       ELSE /\ Apply(tick)
            /\ UNCHANGED <<nextCol, jumpedTo, odd, same, writerVars>>
  /\ UNCHANGED <<lastClosedCol, firstValidCol, cs, csRing,
                 trailing, header, bars, book, closed, read, copy>>

AtLeastOne(n) == IF n < 1 THEN 1 ELSE n

(* Fault: the ring of prefix sums is one entry too short. *)
PrefixSlotShort(i) == i % Baseline

PrefixSlot(i) == i % (Baseline + 1)

(* Fault: the volume of a bucket is not cleared when it is closed. *)
VolumeKept == curVol

VolumeLeft == {}

CloseBucket ==
  /\ pending # Idle /\ nextCol <= targetCol
  /\ LET b == nextCol
         first == quote # NoQuote /\ firstValidCol < 0
         start == IF b - Baseline + 1 < 0 THEN 0 ELSE b - Baseline + 1
         bar == [col |-> b, quote |-> quote, vol |-> curVol, cnt |-> trailing']
         filled == [bars EXCEPT ![b % RingBars] = bar]
     IN  /\ firstValidCol' = IF first THEN b ELSE firstValidCol
         /\ cs' = cs + Cardinality(curVol)
         /\ csRing' = [csRing EXCEPT ![PrefixSlot(b + 1)] = cs']
         /\ trailing' = AtLeastOne(cs' - csRing'[PrefixSlot(start)])
         /\ bars' = [s \in Slots |->
              IF first /\ filled[s].col \in 0 .. b - 1 /\ filled[s].quote = NoQuote
                THEN [filled[s] EXCEPT !.quote = quote] ELSE filled[s]]
         /\ lastClosedCol' = b /\ nextCol' = b + 1
         /\ book' = [book EXCEPT ![b] = curVol] /\ closed' = closed \cup {b}
  /\ curVol' = VolumeLeft
  /\ UNCHANGED <<openNS, quote, writerVars, odd, header, quoteAt, tradeAt,
                 quotes, trades, jumpedTo, readerVars>>

(* The header, the seqlock, and then the tick itself. *)
EndAdvance ==
  /\ pending # Idle /\ nextCol > targetCol
  /\ header' = [last |-> lastClosedCol, cnt |-> trailing]
  /\ odd' = FALSE /\ same' = (read = "none")
  /\ pending' = Idle /\ targetCol' = NoCol
  /\ openNS' = openNS
  /\ Apply(pending)
  /\ UNCHANGED <<nextCol, lastClosedCol, firstValidCol, cs, csRing,
                 trailing, bars, book, closed, jumpedTo, read, copy>>

-----------------------------------------------------------------------------
(* load_window_250ms: at most 100 tries, here any number.                  *)

BeginRead ==
  /\ read = "none"
  /\ ~odd
  /\ same' = TRUE
  /\ read' = "header"
  /\ UNCHANGED <<trackerVars, ringVars, writerVars, historyVars, copy>>

CopyHeader ==
  /\ read = "header"
  /\ copy' = [copy EXCEPT !.header = header]
  /\ read' = "bars"
  /\ UNCHANGED <<trackerVars, ringVars, writerVars, historyVars, same>>

CopyBars ==
  /\ read = "bars"
  /\ copy' = [copy EXCEPT !.bars = bars]
  /\ read' = "check"
  /\ UNCHANGED <<trackerVars, ringVars, writerVars, historyVars, same>>

(* Fault: the sequence is not loaded a second time. *)
StableUnchecked == TRUE

Stable == same

EndRead ==
  /\ read = "check"
  /\ Stable
  /\ read' = "done"
  /\ UNCHANGED <<trackerVars, ringVars, writerVars, historyVars, same, copy>>

(* What was copied is dropped, after a try that failed or with the window  *)
(* the caller is done with.                                                *)
TryAgain ==
  /\ read = "done" \/ (read = "check" /\ ~Stable)
  /\ read' = "none" /\ same' = TRUE /\ copy' = NoCopy
  /\ UNCHANGED <<trackerVars, ringVars, writerVars, historyVars>>

Next ==
  \/ \E tick \in Ticks : Receive(tick)
  \/ CloseBucket \/ EndAdvance
  \/ BeginRead \/ CopyHeader \/ CopyBars \/ EndRead \/ TryAgain

Spec == Init /\ [][Next]_vars

-----------------------------------------------------------------------------
Bars == [col : Columns \cup {NoCol}, quote : 0 .. MaxQuotes,
         vol : SUBSET (1 .. MaxTrades), cnt : Nat]

(* Every field of the tracker, of the ring and of the reader has its type. *)
TypeOK ==
  /\ {openNS, nextCol, lastClosedCol, targetCol, firstValidCol} \subseteq Nat \cup {NoCol}
  /\ jumpedTo \subseteq Columns
  /\ quote \in 0 .. MaxQuotes
  /\ curVol \subseteq 1 .. MaxTrades /\ cs \in Nat
  /\ csRing \in [0 .. Baseline -> Nat] /\ trailing \in Nat
  /\ {odd, same} \subseteq BOOLEAN /\ header \in [last : Columns \cup {NoCol}, cnt : Nat]
  /\ bars \in [Slots -> Bars]
  /\ read \in {"none", "header", "bars", "check", "done"}
  /\ copy \in [header : [last : Columns \cup {NoCol}, cnt : Nat], bars : [Slots -> Bars]]

(* No trade is counted twice and none is lost, however its bucket comes to *)
(* be closed: each is in the open volume or in that of one closed column.  *)
VolumeOnce ==
  /\ 1 .. trades = curVol \cup UNION {book[c] : c \in closed}
  /\ \A c \in closed : book[c] \cap curVol = {} /\
       \A d \in closed \ {c} : book[c] \cap book[d] = {}

(* Causal: no bucket in the ring holds a trade or a quote that carries a   *)
(* timestamp at or after the bucket's end, however late or early ticks     *)
(* come; but for the quote the buckets before the first are filled with.   *)
NoLookahead ==
  \A s \in Slots :
    LET end == openNS + bars[s].col + 1
    IN  bars[s].col # NoCol =>
          /\ \A t \in bars[s].vol : tradeAt[t] < end
          /\ bars[s].quote # NoQuote /\ bars[s].col >= firstValidCol
               => quoteAt[bars[s].quote] < end

(* The trailing count as it ought to be. *)
TrailingCount(c) ==
  AtLeastOne(Cardinality(UNION {book[d] : d \in {e \in closed : e > c - Baseline /\ e <= c}}))

(* The ring of prefix sums gives the trailing count of the latest bucket   *)
(* exactly, across wrap-arounds and jumps, and of every bucket in the ring *)
(* that has not been closed on the way of a jump over a long gap.          *)
TrailingExact ==
  /\ header.last # NoCol => header.cnt = TrailingCount(header.last)
  /\ \A s \in Slots :
       LET c == bars[s].col
       IN  c # NoCol /\ (\A j \in jumpedTo : c \notin j .. j + Baseline - 1)
             => bars[s].cnt = TrailingCount(c)

(* The latest column closed by the end of c that belongs in a slot. *)
Newest(c, s) ==
  LET there == {d \in closed : d <= c /\ d % RingBars = s}
  IN  IF there = {} THEN NoCol ELSE CHOOSE d \in there : \A e \in there : e <= d

(* A window that is handed out is of one state of the ring: the bars are   *)
(* those that had been closed when the header's column was, each with its  *)
(* own trades, whatever the tracker did while they were copied.            *)
WindowWhole ==
  [][read # "done" /\ read' = "done" =>
       \A s \in Slots :
         LET c == Newest(copy.header.last, s)
         IN  /\ copy.bars[s].col = c
             /\ c # NoCol => copy.bars[s].vol = book[c]]_read

(* valid_mask of the window that ends with column b. *)
Valid(from, b, n) ==
  {c \in b - (n - 1) .. b :
     LET k == IF c < 0 THEN 0 ELSE c IN from[k % RingBars].col = k}

(* The window that ends with the latest bucket has no bar filled in by a   *)
(* substitute, whatever gaps the symbol's ticks have had.                  *)
NewestWindowValid ==
  read = "done" /\ copy.header.last # NoCol =>
    LET b == copy.header.last
    IN  Valid(copy.bars, b, WindowBars) = b - (WindowBars - 1) .. b
=============================================================================
