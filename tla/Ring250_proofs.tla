----------------------------- MODULE Ring250_proofs -----------------------------
(***************************************************************************)
(* What the ring of 250 ms buckets promises, for every size of the ring,   *)
(* of the baseline and of the gap that is jumped over, any number of       *)
(* quotes, of trades and of jumps, and any hours of the exchange.          *)
(***************************************************************************)
EXTENDS Ring250, FiniteSetTheorems, TLAPS

-----------------------------------------------------------------------------
(* The inductive invariant *)

(* The histories, and the tick being worked on, are those of real ticks.   *)
InvTypes ==
  /\ TypeOK
  /\ quotes \in 1 .. MaxQuotes /\ trades \in 0 .. MaxTrades /\ quote <= quotes
  /\ quoteAt \in [1 .. MaxQuotes -> Nat] /\ tradeAt \in [1 .. MaxTrades -> Nat]
  /\ book \in [Columns -> SUBSET (1 .. MaxTrades)] /\ closed \subseteq Columns
  /\ \A s \in Slots : bars[s].quote <= quotes

Applicable(tick) ==
  /\ tick.kind \in {"anchor", "quote", "trade"} /\ tick.ts \in 1 .. LastInstant
  /\ tick.kind = "quote" => quotes < MaxQuotes
  /\ tick.kind = "trade" => trades < MaxTrades /\ tick.lit \in BOOLEAN

(* The column up to which the ring is closed once the advance is over.     *)
Goal == IF pending = Idle THEN lastClosedCol ELSE targetCol

(* Columns are closed in their order, up to the one that ends at the time  *)
(* of the tick; a whole ring of them without a gap.                        *)
InvColumns ==
  /\ odd <=> pending # Idle
  /\ pending # Idle =>
       /\ Applicable(pending) /\ openNS # NoCol
       /\ targetCol = pending.ts - openNS - 1 /\ targetCol \in Nat
  /\ lastClosedCol < nextCol /\ nextCol <= Goal + 1
  /\ nextCol > Goal => lastClosedCol = nextCol - 1
  /\ \A d \in closed : d <= lastClosedCol
  /\ IF lastClosedCol = NoCol THEN closed = {} ELSE lastClosedCol \in closed
  /\ openNS = NoCol => nextCol = 0 /\ pending = Idle
  /\ \A c \in Nat : Goal - RingBars < c /\ c < nextCol => c \in closed

(* A slot holds the latest of its columns, with the trades of that column. *)
InvBars ==
  \A s \in Slots :
    /\ bars[s].col # NoCol =>
         /\ bars[s].col \in closed /\ bars[s].col % RingBars = s
         /\ bars[s].vol = book[bars[s].col]
    /\ \A d \in closed : d % RingBars = s => bars[s].col # NoCol /\ d <= bars[s].col

(* Nothing has been seen from beyond the open bucket or a closed one.      *)
InvTimes ==
  /\ openNS = NoCol => curVol = {} /\ (quote # NoQuote => quoteAt[quote] = 0)
  /\ openNS # NoCol =>
       /\ \A t \in curVol : tradeAt[t] < openNS + nextCol + 1
       /\ quote # NoQuote => quoteAt[quote] < openNS + nextCol + 1
  /\ \A c \in closed : \A t \in book[c] : tradeAt[t] < openNS + c + 1
  /\ firstValidCol < 0 => \A s \in Slots : bars[s].quote = NoQuote
  /\ \A s \in Slots :
       bars[s].col # NoCol /\ bars[s].quote # NoQuote /\ bars[s].col >= firstValidCol
         => quoteAt[bars[s].quote] < openNS + bars[s].col + 1

(* The trades of the columns before i, and their number. *)
BooksBelow(i) == UNION {book[d] : d \in {e \in closed : e < i}}
Prefix(i) == Cardinality(BooksBelow(i))

Jumped(c) == \E j \in jumpedTo : c \in j .. j + Baseline - 1

(* The ring of prefix sums reaches back a baseline, but not beyond a jump. *)
InvSums ==
  /\ cs = Prefix(nextCol)
  /\ closed = {} => jumpedTo = {} /\ \A i \in 0 .. Baseline : csRing[i] = 0
  /\ \A j \in jumpedTo : j <= nextCol /\ j + Baseline <= Goal
  /\ \A i \in Nat :
       nextCol - Baseline <= i /\ i <= nextCol /\ (\A j \in jumpedTo : j < i)
         => csRing[PrefixSlot(i)] = Prefix(i)

InvCounts ==
  /\ lastClosedCol # NoCol /\ ~Jumped(lastClosedCol) => trailing = TrailingCount(lastClosedCol)
  /\ header.last <= lastClosedCol
  /\ header.last # NoCol => header.cnt = TrailingCount(header.last)
  /\ \A s \in Slots : bars[s].col # NoCol /\ ~Jumped(bars[s].col)
       => bars[s].cnt = TrailingCount(bars[s].col)

(* While the sequence stays the same the tracker does not touch the ring.  *)
InvReader ==
  /\ pending = Idle => header.last = lastClosedCol
  /\ same /\ read \in {"header", "bars", "check"} => pending = Idle
  /\ same /\ read \in {"bars", "check"} => copy.header = header
  /\ same /\ read = "check" => copy.bars = bars
  /\ NewestWindowValid

RingInv == /\ InvTypes /\ InvColumns /\ VolumeOnce /\ InvBars /\ InvTimes
           /\ InvSums /\ InvCounts /\ InvReader

-----------------------------------------------------------------------------
(* Slots and times *)

LEMMA SlotOfColumn ==
  ASSUME NEW c \in Nat PROVE c % RingBars \in Slots
  BY RingAssumption, SMT DEF Slots

LEMMA SlotOfPrefix ==
  ASSUME NEW i \in Nat PROVE PrefixSlot(i) \in 0 .. Baseline
  BY RingAssumption, SMT DEF PrefixSlot

(* Cancelling a positive factor. *)
LEMMA FactorCancels ==
  ASSUME NEW a \in Int, NEW b \in Int, NEW k \in Nat \ {0}, a * k < b * k
  PROVE  a < b
  BY SMT

(* Numbers with one residue are a multiple of the divisor apart. *)
LEMMA ResidueDistance ==
  ASSUME NEW a \in Nat, NEW b \in Nat, NEW k \in Nat \ {0}, a < b, a % k = b % k
  PROVE  a + k <= b
<1> DEFINE qa == a \div k
           qb == b \div k
<1>1. /\ qa \in Int /\ a = (k * qa) + (a % k)
      /\ qb \in Int /\ b = (k * qb) + (b % k)
      /\ a % k \in Nat
  BY SMT
<1>2. b - a = (qb - qa) * k
  BY <1>1, SMT
<1>3. 0 * k < (qb - qa) * k
  BY <1>2, SMT
<1> HIDE DEF qa, qb
<1>4. 0 < qb - qa
  BY <1>3, <1>1, FactorCancels
<1>5. (qb - qa) * k >= k
  BY <1>1, <1>4, SMT
<1> QED BY <1>2, <1>5, <1>1

(* The columns of one slot are whole rings apart. *)
LEMMA OneSlot ==
  ASSUME NEW c \in Nat, NEW d \in Nat, c % RingBars = d % RingBars, c < d
  PROVE  c + RingBars <= d
  BY ResidueDistance, RingAssumption

(* The prefix sums of a baseline are kept apart. *)
LEMMA PrefixSlotsApart ==
  ASSUME NEW i \in Nat, NEW k \in Nat, i < k, k <= i + Baseline
  PROVE  PrefixSlot(i) # PrefixSlot(k)
<1> SUFFICES ASSUME i % (Baseline + 1) = k % (Baseline + 1) PROVE FALSE
  BY DEF PrefixSlot
<1>1. Baseline + 1 \in Nat \ {0}
  BY RingAssumption
<1>2. i + (Baseline + 1) <= k
  BY <1>1, ResidueDistance
<1> QED BY <1>2, RingAssumption

LEMMA OpensInNat == ASSUME NEW ts \in Nat PROVE OpenFor(ts) \in Nat
  BY RingAssumption, SMT DEF OpenFor

LEMMA TicksApply == ASSUME NEW tick \in Ticks PROVE Applicable(tick) /\ tick # Idle
<1>1. CASE tick \in [kind : {"anchor"}, ts : Instants]
  BY <1>1 DEF Applicable, Instants, Idle
<1>2. CASE quotes < MaxQuotes /\ tick \in [kind : {"quote"}, ts : Instants]
  BY <1>2 DEF Applicable, Instants, Idle
<1>3. CASE trades < MaxTrades /\ tick \in [kind : {"trade"}, ts : Instants, lit : BOOLEAN]
  BY <1>3 DEF Applicable, Instants, Idle
<1> QED BY <1>1, <1>2, <1>3 DEF Ticks

(* The numbers of the state, one by one. *)
LEMMA StateNumbers ==
  ASSUME InvTypes
  PROVE  /\ openNS \in Nat \cup {NoCol} /\ nextCol \in Int /\ nextCol >= -1
         /\ lastClosedCol \in Nat \cup {NoCol} /\ targetCol \in Nat \cup {NoCol}
         /\ firstValidCol \in Nat \cup {NoCol} /\ NoCol = -1
         /\ quote \in Nat /\ quotes \in Nat /\ trades \in Nat /\ MaxTrades \in Nat /\ MaxQuotes \in Nat
         /\ closed \subseteq Nat /\ jumpedTo \subseteq Nat
         /\ RingBars \in Nat \ {0} /\ Baseline \in Nat \ {0} /\ SkipLimit \in Nat
         /\ WindowBars \in Nat \ {0}
         /\ WindowBars < RingBars /\ RingBars <= Baseline /\ Baseline < SkipLimit
         /\ LastInstant \in Nat
<1> USE RingAssumption DEF InvTypes, TypeOK
<1>1. /\ openNS \in Nat \cup {-1} /\ nextCol \in Nat \cup {-1}
      /\ lastClosedCol \in Nat \cup {-1} /\ targetCol \in Nat \cup {-1}
      /\ firstValidCol \in Nat \cup {-1}
  BY DEF NoCol
<1>2. /\ MaxTrades \in Nat /\ MaxQuotes \in Nat /\ LastInstant \in Nat
      /\ RingBars \in Nat \ {0} /\ Baseline \in Nat \ {0} /\ SkipLimit \in Nat
      /\ WindowBars \in Nat \ {0}
      /\ WindowBars < RingBars /\ RingBars <= Baseline /\ Baseline < SkipLimit
  OBVIOUS
<1>3. quote \in Nat /\ quotes \in Nat /\ trades \in Nat
  BY <1>2
<1>4. Columns \subseteq Nat
  BY <1>2 DEF Columns
<1>5. closed \subseteq Nat /\ jumpedTo \subseteq Nat
  BY <1>4
<1> QED BY <1>1, <1>2, <1>3, <1>5 DEF NoCol

-----------------------------------------------------------------------------
(* The trades of the closed columns *)

LEMMA BooksFinite ==
  ASSUME InvTypes, NEW S \in SUBSET closed
  PROVE  IsFiniteSet(UNION {book[d] : d \in S}) /\ IsFiniteSet(curVol)
<1>1. UNION {book[d] : d \in S} \subseteq 1 .. MaxTrades /\ curVol \subseteq 1 .. MaxTrades
  BY DEF InvTypes, TypeOK
<1>2. 1 \in Int /\ MaxTrades \in Int
  BY RingAssumption
<1>3. IsFiniteSet(1 .. MaxTrades)
  BY <1>2, FS_Interval
<1> QED BY <1>1, <1>3, FS_Subset

LEMMA PrefixType ==
  ASSUME InvTypes, NEW i \in Int
  PROVE  Prefix(i) \in Nat /\ IsFiniteSet(BooksBelow(i))
<1>1. {e \in closed : e < i} \in SUBSET closed
  OBVIOUS
<1>2. IsFiniteSet(BooksBelow(i))
  BY <1>1, BooksFinite DEF BooksBelow
<1> QED BY <1>2, FS_CardinalityType DEF Prefix

(* The trades of a span of columns are what two prefixes differ by. *)
LEMMA SpanOfPrefixes ==
  ASSUME InvTypes, VolumeOnce, NEW i \in Int, NEW k \in Int, i <= k
  PROVE  Cardinality(UNION {book[d] : d \in {e \in closed : i <= e /\ e < k}})
           = Prefix(k) - Prefix(i)
<1> DEFINE Span == UNION {book[d] : d \in {e \in closed : i <= e /\ e < k}}
<1>1. closed \subseteq Int
  BY StateNumbers
<1>2. {e \in closed : e < k} = {e \in closed : e < i} \cup {e \in closed : i <= e /\ e < k}
  <2>1. ASSUME NEW e \in closed PROVE e < k <=> e < i \/ (i <= e /\ e < k)
    BY <1>1
  <2> QED BY <2>1
<1>3. BooksBelow(k) = BooksBelow(i) \cup Span
  BY <1>2, Zenon DEF BooksBelow
<1>4. BooksBelow(i) \cap Span = {}
  <2> SUFFICES ASSUME NEW d \in closed, d < i, NEW e \in closed, i <= e
               PROVE  book[d] \cap book[e] = {}
    BY DEF BooksBelow
  <2>1. d # e
    BY <1>1
  <2> QED BY <2>1 DEF VolumeOnce
<1>5. IsFiniteSet(BooksBelow(i)) /\ Prefix(i) \in Nat /\ Prefix(k) \in Nat
  BY PrefixType
<1>6. {e \in closed : i <= e /\ e < k} \in SUBSET closed
  OBVIOUS
<1>7. IsFiniteSet(Span)
  BY <1>6, BooksFinite
<1>8. Cardinality(Span) \in Nat
  BY <1>7, FS_CardinalityType
<1> HIDE DEF Span
<1>9. Cardinality(BooksBelow(i) \cup Span)
        = Cardinality(BooksBelow(i)) + Cardinality(Span) - Cardinality(BooksBelow(i) \cap Span)
  BY <1>5, <1>7, FS_Union
<1>10. Cardinality(BooksBelow(i) \cap Span) = 0
  BY <1>4, FS_EmptySet
<1>11. Prefix(k) = Prefix(i) + Cardinality(Span)
  BY <1>3, <1>5, <1>8, <1>9, <1>10 DEF Prefix
<1>12. Cardinality(Span) = Prefix(k) - Prefix(i)
  BY <1>5, <1>8, <1>11
<1> QED BY <1>12 DEF Span

-----------------------------------------------------------------------------
(* The initial state *)

LEMMA InitInv == Init => RingInv
<1> SUFFICES ASSUME Init PROVE RingInv
  OBVIOUS
<1> USE RingAssumption
<1>1. /\ EmptyBar \in Bars /\ EmptyRing \in [Slots -> Bars]
      /\ EmptyHeader \in [last : Columns \cup {NoCol}, cnt : Nat]
  <2>1. NoQuote \in 0 .. MaxQuotes /\ {} \in SUBSET (1 .. MaxTrades)
    BY DEF NoQuote
  <2> QED BY <2>1 DEF EmptyBar, EmptyRing, EmptyHeader, Bars
<1>2. InvTypes
  <2>1. TypeOK
    <3>1. {openNS, nextCol, lastClosedCol, targetCol, firstValidCol} \subseteq Nat \cup {NoCol}
      BY DEF Init
    <3>2. quote \in 0 .. MaxQuotes
      BY DEF Init, NoQuote
    <3>3. /\ csRing \in [0 .. Baseline -> Nat]
          /\ copy \in [header : [last : Columns \cup {NoCol}, cnt : Nat], bars : [Slots -> Bars]]
      BY <1>1 DEF Init, NoCopy
    <3> QED BY <1>1, <3>1, <3>2, <3>3 DEF Init, TypeOK
  <2>2. quotes \in 1 .. MaxQuotes /\ trades \in 0 .. MaxTrades /\ quote <= quotes
    BY DEF Init, NoQuote
  <2>3. quoteAt \in [1 .. MaxQuotes -> Nat] /\ tradeAt \in [1 .. MaxTrades -> Nat]
    BY DEF Init
  <2>4. book \in [Columns -> SUBSET (1 .. MaxTrades)] /\ closed \subseteq Columns
    BY DEF Init
  <2>5. \A s \in Slots : bars[s].quote <= quotes
    BY DEF Init, EmptyRing, EmptyBar, NoQuote
  <2> QED BY <2>1, <2>2, <2>3, <2>4, <2>5 DEF InvTypes
<1>3. InvColumns
  BY DEF Init, InvColumns, Goal, NoCol
<1>4. VolumeOnce
  BY DEF Init, VolumeOnce
<1>5. InvBars
  BY DEF Init, InvBars, EmptyRing, EmptyBar
<1>6. InvTimes
  BY DEF Init, InvTimes, EmptyRing, EmptyBar, NoQuote, NoCol
<1>7. InvSums
  <2>1. \A i : Prefix(i) = 0
    BY FS_EmptySet DEF Init, Prefix, BooksBelow
  <2>2. \A i \in Nat : PrefixSlot(i) \in 0 .. Baseline
    BY SlotOfPrefix
  <2> QED BY <2>1, <2>2 DEF Init, InvSums
<1>8. InvCounts
  BY DEF Init, InvCounts, EmptyHeader, EmptyRing, EmptyBar, NoCol
<1>9. InvReader
  BY DEF Init, InvReader, EmptyHeader, NewestWindowValid
<1> QED BY <1>2, <1>3, <1>4, <1>5, <1>6, <1>7, <1>8, <1>9 DEF RingInv

-----------------------------------------------------------------------------
(* Ticks *)

(* What a tick that is applied leaves alone, and what it adds.             *)
LEMMA ApplyFacts ==
  ASSUME InvTypes, VolumeOnce, NEW tick, Applicable(tick), Apply(tick), UNCHANGED <<closed, book>>
  PROVE  /\ quotes' \in 1 .. MaxQuotes /\ trades' \in 0 .. MaxTrades
         /\ quote' \in 0 .. MaxQuotes /\ quote' <= quotes' /\ quotes <= quotes'
         /\ quoteAt' \in [1 .. MaxQuotes -> Nat] /\ tradeAt' \in [1 .. MaxTrades -> Nat]
         /\ curVol' \subseteq 1 .. MaxTrades
         /\ \A q \in 1 .. quotes : quoteAt'[q] = quoteAt[q]
         /\ \A t \in 1 .. trades : tradeAt'[t] = tradeAt[t]
         /\ \A t \in curVol' : t \in curVol \/ tradeAt'[t] = tick.ts
         /\ quote' = quote \/ quoteAt'[quote'] = tick.ts
         /\ VolumeOnce'
<1>1. /\ MaxQuotes \in Nat /\ MaxTrades \in Nat
      /\ quotes \in Nat /\ trades \in Nat /\ tick.ts \in Nat
  <2>1. LastInstant \in Nat /\ tick.ts \in 1 .. LastInstant
    BY StateNumbers DEF Applicable
  <2> QED BY <2>1, StateNumbers
<1> USE DEF Applicable, InvTypes, TypeOK, NoQuote
<1>2. CASE tick.kind = "quote" /\ ApplyQuote(tick.ts)
  <2>1. quotes' = quotes + 1 /\ quote' = quotes + 1 /\ quotes + 1 \in 1 .. MaxQuotes
    BY <1>1, <1>2 DEF ApplyQuote
  <2>2. /\ quoteAt' = [quoteAt EXCEPT ![quotes + 1] = tick.ts]
        /\ UNCHANGED <<curVol, tradeAt, trades>>
    BY <2>1, <1>2 DEF ApplyQuote
  <2>3. VolumeOnce'
    BY <2>2 DEF VolumeOnce
  <2>4. quoteAt' \in [1 .. MaxQuotes -> Nat]
    BY <1>1, <2>1, <2>2
  <2>5. \A q \in 1 .. quotes : quoteAt'[q] = quoteAt[q]
    BY <1>1, <2>1, <2>2
  <2>6. quoteAt'[quote'] = tick.ts
    BY <1>1, <2>1, <2>2
  <2> QED BY <1>1, <2>1, <2>2, <2>3, <2>4, <2>5, <2>6
<1>3. CASE tick.kind = "trade" /\ ApplyTrade(tick.ts, tick.lit)
  <2>1. UNCHANGED <<quote, quoteAt, quotes>>
    BY <1>3 DEF ApplyTrade
  <2>2. CASE UNCHANGED <<trades, tradeAt, curVol>>
    <3>1. VolumeOnce'
      BY <2>2 DEF VolumeOnce
    <3> QED BY <1>1, <2>1, <2>2, <3>1
  <2>3. CASE /\ trades' = trades + 1 /\ tradeAt' = [tradeAt EXCEPT ![trades + 1] = tick.ts]
             /\ curVol' = curVol \cup {trades + 1}
    <3>1. trades + 1 \in 1 .. MaxTrades
      BY <1>1, <1>3
    <3>2. 1 .. trades + 1 = (1 .. trades) \cup {trades + 1} /\ trades + 1 \notin 1 .. trades
      BY <1>1
    <3>3. /\ curVol \subseteq 1 .. trades
          /\ \A c \in closed : book[c] \subseteq 1 .. trades
      BY DEF VolumeOnce
    <3>4. VolumeOnce'
      BY <2>3, <3>2, <3>3 DEF VolumeOnce
    <3>5. tradeAt' \in [1 .. MaxTrades -> Nat] /\ tradeAt'[trades + 1] = tick.ts
      BY <1>1, <2>3, <3>1
    <3>6. \A t \in 1 .. trades : tradeAt'[t] = tradeAt[t]
      BY <1>1, <2>3, <3>1
    <3>7. trades' \in 0 .. MaxTrades /\ curVol' \subseteq 1 .. MaxTrades
      BY <1>1, <2>3, <3>1
    <3> QED BY <1>1, <2>1, <2>3, <3>4, <3>5, <3>6, <3>7
  <2> QED BY <1>3, <2>2, <2>3 DEF ApplyTrade
<1>4. CASE UNCHANGED tickVars
  <2>1. VolumeOnce'
    BY <1>4 DEF VolumeOnce, tickVars
  <2> QED BY <1>1, <1>4, <2>1 DEF tickVars
<1> QED BY <1>2, <1>3, <1>4 DEF Apply

(* A tick before the end of the open bucket looks ahead nowhere.           *)
LEMMA ApplyTimes ==
  ASSUME RingInv, NEW tick, Applicable(tick), Apply(tick),
         UNCHANGED <<nextCol, firstValidCol, bars, book, closed>>,
         openNS' \in Nat, openNS # NoCol => openNS' = openNS, tick.ts < openNS' + nextCol + 1
  PROVE  InvTimes' /\ VolumeOnce' /\ InvBars' /\ \A s \in Slots : bars'[s].quote <= quotes'
<1> USE DEF NoQuote
<1>1. /\ InvTypes /\ VolumeOnce /\ InvTimes /\ InvColumns /\ InvBars
      /\ openNS \in Nat \cup {NoCol} /\ nextCol \in Nat /\ NoCol = -1 /\ closed \subseteq Nat
      /\ quotes \in Nat /\ quote \in Nat /\ trades \in Nat
  <2>1. InvTypes /\ VolumeOnce /\ InvTimes /\ InvColumns /\ InvBars
    BY DEF RingInv
  <2>2. lastClosedCol < nextCol
    BY <2>1 DEF InvColumns
  <2> QED BY <2>1, <2>2, StateNumbers
<1>2. /\ quotes <= quotes'
      /\ \A q \in 1 .. quotes : quoteAt'[q] = quoteAt[q]
      /\ \A t \in 1 .. trades : tradeAt'[t] = tradeAt[t]
      /\ \A t \in curVol' : t \in curVol \/ tradeAt'[t] = tick.ts
      /\ quote' = quote \/ quoteAt'[quote'] = tick.ts
      /\ VolumeOnce'
  BY <1>1, ApplyFacts
<1>3. curVol \subseteq 1 .. trades /\ \A c \in closed : book[c] \subseteq 1 .. trades
  BY <1>1 DEF VolumeOnce
<1>4. \A s \in Slots : bars[s].quote \in 0 .. quotes
  <2> TAKE s \in Slots
  <2>1. bars[s].quote \in 0 .. MaxQuotes /\ bars[s].quote <= quotes
    BY <1>1 DEF InvTypes, TypeOK, Bars
  <2> QED BY <1>1, <2>1
<1>5. InvBars'
  BY <1>1 DEF InvBars
<1>6. openNS' # NoCol
  BY <1>1
<1>7. ASSUME NEW t \in curVol' PROVE tradeAt'[t] < openNS' + nextCol' + 1
  <2>1. CASE t \in curVol
    <3>1. openNS # NoCol
      BY <1>1, <2>1 DEF InvTimes
    <3>2. tradeAt[t] < openNS + nextCol + 1 /\ t \in 1 .. trades
      BY <1>1, <1>3, <2>1, <3>1 DEF InvTimes
    <3> QED BY <1>2, <3>1, <3>2
  <2> QED BY <1>2, <2>1
<1>8. ASSUME quote' # NoQuote PROVE quoteAt'[quote'] < openNS' + nextCol' + 1
  <2>1. CASE quote' = quote
    <3>1. quote \in 1 .. quotes
      BY <1>1, <1>8, <2>1 DEF InvTypes
    <3>2. CASE openNS = NoCol
      <4>1. quoteAt[quote] = 0
        BY <1>1, <1>8, <2>1, <3>2 DEF InvTimes
      <4> QED BY <1>1, <1>2, <2>1, <3>1, <4>1
    <3>3. CASE openNS # NoCol
      <4>1. quoteAt[quote] < openNS + nextCol + 1
        BY <1>1, <1>8, <2>1, <3>3 DEF InvTimes
      <4> QED BY <1>1, <1>2, <2>1, <3>1, <3>3, <4>1
    <3> QED BY <3>2, <3>3
  <2> QED BY <1>2, <2>1
<1>9. openNS = NoCol => closed = {}
  <2> SUFFICES ASSUME openNS = NoCol PROVE closed = {}
    OBVIOUS
  <2>1. nextCol = 0 /\ pending = Idle /\ lastClosedCol < 0
    BY <1>1 DEF InvColumns
  <2>2. lastClosedCol = NoCol
    BY <1>1, <2>1, StateNumbers
  <2> QED BY <1>1, <2>2 DEF InvColumns
<1>10. ASSUME NEW c \in closed', NEW t \in book'[c] PROVE tradeAt'[t] < openNS' + c + 1
  <2>1. c \in closed /\ t \in book[c] /\ t \in 1 .. trades /\ openNS' = openNS
    BY <1>3, <1>9, <1>10
  <2> QED BY <1>1, <1>2, <2>1 DEF InvTimes
<1>11. ASSUME NEW s \in Slots, bars'[s].col # NoCol, bars'[s].quote # NoQuote,
              bars'[s].col >= firstValidCol'
       PROVE  quoteAt'[bars'[s].quote] < openNS' + bars'[s].col + 1
  <2>1. openNS' = openNS
    BY <1>1, <1>9, <1>11 DEF InvBars
  <2>2. bars[s].quote \in 1 .. quotes
    BY <1>1, <1>4, <1>11
  <2> QED BY <1>1, <1>2, <1>11, <2>1, <2>2 DEF InvTimes
<1>12. firstValidCol' < 0 => \A s \in Slots : bars'[s].quote = NoQuote
  BY <1>1 DEF InvTimes
<1>13. \A s \in Slots : bars'[s].quote <= quotes'
  <2> TAKE s \in Slots
  <2>1. quotes' \in Nat
    <3>1. quotes' \in 1 .. MaxQuotes
      BY <1>1, ApplyFacts
    <3> QED BY <3>1
  <2> QED BY <1>1, <1>2, <1>4, <2>1
<1>14. InvTimes'
  BY <1>6, <1>7, <1>8, <1>10, <1>11, <1>12 DEF InvTimes
<1> QED BY <1>2, <1>5, <1>13, <1>14

-----------------------------------------------------------------------------
(* Steps that leave the sums, the counts or the columns alone *)

LEMMA SumsKept ==
  ASSUME InvSums, UNCHANGED <<cs, nextCol, closed, book, jumpedTo, csRing>>, Goal' = Goal
  PROVE  InvSums'
<1>1. \A i : Prefix(i)' = Prefix(i)
  BY DEF Prefix, BooksBelow
<1> QED BY <1>1 DEF InvSums

LEMMA CountsKept ==
  ASSUME InvCounts, UNCHANGED <<lastClosedCol, trailing, closed, book, header, bars>>,
         jumpedTo \subseteq jumpedTo'
  PROVE  InvCounts'
<1>1. \A c : /\ TrailingCount(c)' = TrailingCount(c)
             /\ ~Jumped(c)' => ~Jumped(c)
  BY DEF TrailingCount, Jumped
<1> QED BY <1>1 DEF InvCounts

(* The tracker between two advances. *)
LEMMA IdleTracker ==
  ASSUME RingInv, pending = Idle
  PROVE  /\ Goal = lastClosedCol /\ nextCol = lastClosedCol + 1
         /\ nextCol \in Nat /\ lastClosedCol \in Nat \cup {-1}
         /\ \A d \in closed : d < nextCol
         /\ openNS = NoCol => nextCol = 0
         /\ lastClosedCol < 0 <=> closed = {}
<1>1. InvTypes /\ InvColumns
  BY DEF RingInv
<1>2. Goal = lastClosedCol
  BY DEF Goal
<1>3. /\ lastClosedCol \in Nat \cup {-1} /\ nextCol \in Int /\ NoCol = -1
      /\ lastClosedCol < nextCol /\ nextCol <= lastClosedCol + 1 /\ closed \subseteq Nat
  BY <1>1, <1>2, StateNumbers DEF InvColumns
<1>4. \A d \in closed : d <= lastClosedCol
  BY <1>1 DEF InvColumns
<1>5. lastClosedCol < 0 <=> closed = {}
  BY <1>1, <1>3 DEF InvColumns
<1>6. \A d \in closed : d < nextCol
  <2> TAKE d \in closed
  <2>1. d \in Nat /\ d <= lastClosedCol
    BY <1>3, <1>4
  <2> QED BY <1>3, <2>1
<1>7. openNS = NoCol => nextCol = 0
  BY <1>1 DEF InvColumns
<1> QED BY <1>2, <1>3, <1>5, <1>6, <1>7

-----------------------------------------------------------------------------
(* A tick arrives *)

LEMMA ReceiveFacts ==
  ASSUME RingInv, NEW tick \in Ticks, Receive(tick)
  PROVE  /\ Applicable(tick) /\ tick # Idle /\ tick.ts \in Nat /\ tick.ts <= LastInstant
         /\ pending = Idle
         /\ openNS' \in Nat /\ openNS' # NoCol /\ (openNS # NoCol => openNS' = openNS)
<1>1. Applicable(tick) /\ tick # Idle
  BY TicksApply
<1>2. InvTypes
  BY DEF RingInv
<1>3. tick.ts \in Nat /\ tick.ts <= LastInstant
  BY <1>1, <1>2, StateNumbers DEF Applicable
<1>4. openNS' = IF openNS # NoCol THEN openNS ELSE OpenFor(tick.ts)
  BY DEF Receive, OpenSet
<1>5. OpenFor(tick.ts) \in Nat
  BY <1>3, OpensInNat
<1>6. openNS \in Nat \cup {NoCol} /\ NoCol = -1
  BY <1>2, StateNumbers
<1>7. openNS' \in Nat
  BY <1>4, <1>5, <1>6
<1>8. openNS' # NoCol
  BY <1>6, <1>7
<1> QED BY <1>1, <1>3, <1>4, <1>7, <1>8 DEF Receive

(* It belongs to the open bucket. *)
LEMMA ReceiveNow ==
  ASSUME RingInv, NEW tick \in Ticks, Receive(tick), ~Due(tick.ts)
  PROVE  RingInv'
<1>1. /\ InvTypes /\ InvColumns /\ VolumeOnce /\ InvBars /\ InvTimes /\ InvSums /\ InvCounts
      /\ InvReader
  BY DEF RingInv
<1>2. /\ Apply(tick)
      /\ UNCHANGED <<nextCol, jumpedTo, odd, same, writerVars, lastClosedCol, firstValidCol, cs,
                     csRing, trailing, header, bars, book, closed, read, copy>>
  BY DEF Receive
<1>3. UNCHANGED <<pending, targetCol>>
  BY <1>2 DEF writerVars
<1>4. /\ Applicable(tick) /\ tick.ts \in Nat /\ pending = Idle
      /\ openNS' \in Nat /\ openNS' # NoCol /\ (openNS # NoCol => openNS' = openNS)
  BY ReceiveFacts
<1>5. nextCol \in Nat
  BY <1>4, IdleTracker
<1>6. tick.ts < openNS' + nextCol + 1
  BY <1>4, <1>5 DEF Due
<1>7. InvTimes' /\ VolumeOnce' /\ InvBars' /\ \A s \in Slots : bars'[s].quote <= quotes'
  BY <1>2, <1>4, <1>6, ApplyTimes
<1>8. InvTypes'
  <2>1. /\ quotes' \in 1 .. MaxQuotes /\ trades' \in 0 .. MaxTrades
        /\ quote' \in 0 .. MaxQuotes /\ quote' <= quotes'
        /\ quoteAt' \in [1 .. MaxQuotes -> Nat] /\ tradeAt' \in [1 .. MaxTrades -> Nat]
        /\ curVol' \subseteq 1 .. MaxTrades
    BY <1>1, <1>2, <1>4, ApplyFacts
  <2>2. TypeOK'
    BY <1>1, <1>2, <1>3, <1>4, <2>1 DEF InvTypes, TypeOK
  <2> QED BY <1>1, <1>2, <1>7, <2>1, <2>2 DEF InvTypes
<1>9. Goal' = Goal
  BY <1>2, <1>3 DEF Goal
<1>10. InvColumns'
  BY <1>1, <1>2, <1>3, <1>4, <1>9 DEF InvColumns
<1>11. InvSums'
  BY <1>1, <1>2, <1>9, SumsKept
<1>12. InvCounts'
  BY <1>1, <1>2, CountsKept
<1>13. InvReader'
  BY <1>1, <1>2, <1>3 DEF InvReader, NewestWindowValid, Valid
<1> QED BY <1>7, <1>8, <1>10, <1>11, <1>12, <1>13 DEF RingInv

(* The column an advance begins with. *)
LEMMA FirstColFacts ==
  ASSUME RingInv, pending = Idle, NEW target \in Nat, nextCol <= target
  PROVE  /\ FirstCol(target) \in Nat /\ nextCol <= FirstCol(target) /\ FirstCol(target) <= target
         /\ \/ FirstCol(target) = nextCol
            \/ closed = {} /\ lastClosedCol < 0 /\ FirstCol(target) = target - RingBars
            \/ lastClosedCol >= 0 /\ FirstCol(target) = target - Baseline
<1>1. nextCol \in Nat /\ lastClosedCol \in Nat \cup {-1} /\ nextCol = lastClosedCol + 1
  BY IdleTracker
<1>2. /\ RingBars \in Nat \ {0} /\ Baseline \in Nat \ {0} /\ SkipLimit \in Nat
      /\ RingBars <= Baseline /\ Baseline < SkipLimit
  BY RingAssumption
<1>3. lastClosedCol < 0 => closed = {}
  BY IdleTracker
<1>4. CASE lastClosedCol < 0 /\ target > RingBars
  <2>1. FirstCol(target) = target - RingBars /\ nextCol = 0
    BY <1>1, <1>4 DEF FirstCol
  <2> QED BY <1>2, <1>3, <1>4, <2>1
<1>5. CASE ~(lastClosedCol < 0 /\ target > RingBars) /\ target - nextCol > SkipLimit
  <2>1. FirstCol(target) = target - Baseline
    BY <1>5 DEF FirstCol
  <2>2. lastClosedCol >= 0
    BY <1>1, <1>2, <1>5
  <2>3. target - Baseline \in Nat /\ nextCol <= target - Baseline
    BY <1>1, <1>2, <1>5
  <2> QED BY <1>2, <2>1, <2>2, <2>3
<1>6. CASE ~(lastClosedCol < 0 /\ target > RingBars) /\ ~(target - nextCol > SkipLimit)
  <2>1. FirstCol(target) = nextCol
    BY <1>6 DEF FirstCol
  <2> QED BY <1>1, <2>1
<1> QED BY <1>4, <1>5, <1>6

(* It lies beyond the open bucket: an advance begins. *)
LEMMA ReceiveDue ==
  ASSUME RingInv, NEW tick \in Ticks, Receive(tick), Due(tick.ts)
  PROVE  RingInv'
<1> DEFINE target == tick.ts - openNS' - 1
<1>1. /\ InvTypes /\ InvColumns /\ VolumeOnce /\ InvBars /\ InvTimes /\ InvSums /\ InvCounts
      /\ InvReader
  BY DEF RingInv
<1>2. /\ pending' = tick /\ targetCol' = target /\ nextCol' = FirstCol(target)
      /\ jumpedTo' = IF lastClosedCol >= 0 /\ FirstCol(target) # nextCol
                       THEN jumpedTo \cup {nextCol'} ELSE jumpedTo
      /\ odd' = TRUE /\ same' = (read = "none")
      /\ UNCHANGED <<quote, curVol, quoteAt, tradeAt, quotes, trades>>
      /\ UNCHANGED <<lastClosedCol, firstValidCol, cs, csRing, trailing, header, bars, book,
                     closed, read, copy>>
  BY DEF Receive, tickVars
<1>3. /\ Applicable(tick) /\ tick # Idle /\ tick.ts \in Nat /\ tick.ts <= LastInstant
      /\ pending = Idle
      /\ openNS' \in Nat /\ openNS' # NoCol /\ (openNS # NoCol => openNS' = openNS)
  BY ReceiveFacts
<1>4. /\ Goal = lastClosedCol /\ nextCol = lastClosedCol + 1
      /\ nextCol \in Nat /\ lastClosedCol \in Nat \cup {-1}
      /\ \A d \in closed : d < nextCol
      /\ openNS = NoCol => nextCol = 0
      /\ lastClosedCol < 0 <=> closed = {}
  BY <1>3, IdleTracker
<1>5. /\ target \in Nat /\ nextCol <= target /\ target <= LastInstant
  BY <1>3, <1>4, RingAssumption DEF Due
<1>6. /\ targetCol' = target /\ Goal' = target
  BY <1>2, <1>3 DEF Goal
<1> HIDE DEF target
<1>7. /\ nextCol' \in Nat /\ nextCol <= nextCol' /\ nextCol' <= target
      /\ \/ nextCol' = nextCol
         \/ closed = {} /\ lastClosedCol < 0 /\ nextCol' = target - RingBars
         \/ lastClosedCol >= 0 /\ nextCol' = target - Baseline
  BY <1>2, <1>3, <1>5, FirstColFacts
<1>8. /\ closed \subseteq Nat /\ jumpedTo \subseteq Nat /\ NoCol = -1 /\ LastInstant \in Nat
      /\ RingBars \in Nat \ {0} /\ Baseline \in Nat \ {0} /\ RingBars <= Baseline
      /\ openNS \in Nat \cup {NoCol} /\ trades \in Nat /\ quote \in Nat
  BY <1>1, StateNumbers
<1>9. jumpedTo' = jumpedTo \/ (jumpedTo' = jumpedTo \cup {nextCol'} /\ nextCol' = target - Baseline)
  BY <1>2, <1>4, <1>7, <1>8
<1>10. InvTypes'
  <2>1. jumpedTo' \subseteq Columns
    <3>1. nextCol' \in Columns
      BY <1>5, <1>7, <1>8 DEF Columns
    <3> QED BY <1>1, <1>9, <3>1 DEF InvTypes, TypeOK
  <2>2. TypeOK'
    BY <1>1, <1>2, <1>3, <1>5, <1>6, <1>7, <2>1 DEF InvTypes, TypeOK
  <2> QED BY <1>1, <1>2, <2>2 DEF InvTypes
<1>11. InvColumns'
  <2>1. pending' # Idle /\ Applicable(pending)'
    BY <1>2, <1>3 DEF Applicable
  <2>2. targetCol' = pending'.ts - openNS' - 1
    BY <1>2 DEF target
  <2>3. lastClosedCol' < nextCol' /\ nextCol' <= Goal' + 1 /\ ~(nextCol' > Goal')
    BY <1>2, <1>4, <1>5, <1>6, <1>7
  <2>4. ASSUME NEW c \in Nat, Goal' - RingBars < c, c < nextCol' PROVE c \in closed'
    <3>1. nextCol' = nextCol
      BY <1>5, <1>6, <1>7, <1>8, <2>4
    <3>2. Goal - RingBars < c
      BY <1>4, <1>5, <1>6, <1>8, <2>4
    <3> QED BY <1>1, <1>2, <2>4, <3>1, <3>2 DEF InvColumns
  <2>5. targetCol' \in Nat
    BY <1>5, <1>6
  <2> QED BY <1>1, <1>2, <1>3, <2>1, <2>2, <2>3, <2>4, <2>5 DEF InvColumns
<1>12. VolumeOnce' /\ InvBars'
  BY <1>1, <1>2 DEF VolumeOnce, InvBars
<1>13. InvTimes'
  <2>1. CASE openNS = NoCol
    <3>1. curVol = {} /\ closed = {} /\ (quote # NoQuote => quoteAt[quote] = 0)
      BY <1>1, <1>4, <1>8, <2>1 DEF InvTimes
    <3>2. \A s \in Slots : bars[s].col = NoCol
      BY <1>1, <3>1 DEF InvBars
    <3>3. 0 < openNS' + nextCol' + 1
      <4>1. openNS' \in Nat
        BY <1>3
      <4>2. nextCol' \in Nat
        BY <1>7
      <4>3. \A a, b \in Nat : 0 < a + b + 1
        OBVIOUS
      <4> QED BY <4>1, <4>2, <4>3
    <3>4. firstValidCol' < 0 => \A s \in Slots : bars'[s].quote = NoQuote
      BY <1>1, <1>2 DEF InvTimes
    <3> QED BY <1>2, <1>3, <3>1, <3>2, <3>3, <3>4 DEF InvTimes
  <2>2. CASE openNS # NoCol
    <3>1. openNS' = openNS /\ openNS + nextCol + 1 <= openNS' + nextCol' + 1
      BY <1>3, <1>4, <1>7, <2>2
    <3>2. ASSUME NEW t \in curVol PROVE tradeAt[t] < openNS' + nextCol' + 1
      <4>1. tradeAt[t] < openNS + nextCol + 1 /\ tradeAt[t] \in Nat
        BY <1>1, <2>2 DEF InvTimes, InvTypes, TypeOK
      <4> QED BY <1>3, <1>4, <1>7, <3>1, <4>1
    <3>3. ASSUME quote # NoQuote PROVE quoteAt[quote] < openNS' + nextCol' + 1
      <4>1. quoteAt[quote] < openNS + nextCol + 1
        BY <1>1, <2>2, <3>3 DEF InvTimes
      <4>2. quoteAt[quote] \in Nat
        <5>1. quote \in 1 .. MaxQuotes
          BY <1>1, <1>8, <3>3 DEF InvTypes, TypeOK, NoQuote
        <5> QED BY <1>1, <5>1 DEF InvTypes
      <4> QED BY <1>3, <1>4, <1>7, <3>1, <4>1, <4>2
    <3> QED BY <1>1, <1>2, <1>3, <2>2, <3>1, <3>2, <3>3 DEF InvTimes
  <2> QED BY <2>1, <2>2
<1>14. InvSums'
  <2>1. \A i : Prefix(i)' = Prefix(i)
    BY <1>2 DEF Prefix, BooksBelow
  <2>2. (cs = Prefix(nextCol))'
    <3>1. {e \in closed : e < nextCol'} = {e \in closed : e < nextCol}
      <4> SUFFICES ASSUME NEW e \in closed PROVE e < nextCol' <=> e < nextCol
        OBVIOUS
      <4> QED BY <1>4, <1>7, <1>8
    <3>2. Prefix(nextCol)' = Prefix(nextCol)
      BY <1>2, <3>1 DEF Prefix, BooksBelow
    <3> QED BY <1>1, <1>2, <3>2 DEF InvSums
  <2>3. closed' = {} => jumpedTo' = {} /\ \A i \in 0 .. Baseline : csRing'[i] = 0
    BY <1>1, <1>2, <1>4 DEF InvSums
  <2>4. \A j \in jumpedTo' : j <= nextCol' /\ j + Baseline <= Goal'
    <3>1. ASSUME NEW j \in jumpedTo PROVE j <= nextCol' /\ j + Baseline <= Goal'
      <4>1. j <= nextCol /\ j + Baseline <= lastClosedCol /\ j \in Nat
        BY <1>1, <1>4, <1>8 DEF InvSums
      <4> QED BY <1>4, <1>5, <1>6, <1>7, <1>8, <4>1
    <3>2. nextCol' = target - Baseline => nextCol' <= nextCol' /\ nextCol' + Baseline <= Goal'
      BY <1>5, <1>6, <1>7, <1>8
    <3> QED BY <1>9, <3>1, <3>2
  <2>5. ASSUME NEW i \in Nat, nextCol' - Baseline <= i, i <= nextCol', \A j \in jumpedTo' : j < i
        PROVE  csRing'[PrefixSlot(i)] = Prefix(i)'
    <3>1. CASE nextCol' = nextCol
      <4>1. \A j \in jumpedTo : j < i
        BY <1>9, <2>5
      <4> QED BY <1>1, <1>2, <2>1, <2>5, <3>1, <4>1 DEF InvSums
    <3>2. CASE closed = {}
      <4>1. csRing[PrefixSlot(i)] = 0
        BY <1>1, <3>2, SlotOfPrefix DEF InvSums
      <4>2. Prefix(i) = 0
        BY <3>2, FS_EmptySet DEF Prefix, BooksBelow
      <4> QED BY <1>2, <2>1, <4>1, <4>2
    <3>3. CASE nextCol' # nextCol /\ lastClosedCol >= 0
      <4>1. nextCol' \in jumpedTo'
        BY <1>2, <3>3
      <4>2. nextCol' < i
        BY <2>5, <4>1
      <4> QED BY <1>7, <2>5, <4>2
    <3> QED BY <1>7, <3>1, <3>2, <3>3
  <2> QED BY <2>2, <2>3, <2>4, <2>5 DEF InvSums
<1>15. InvCounts'
  BY <1>1, <1>2, <1>9, CountsKept
<1>16. InvReader'
  <2>1. pending' # Idle /\ ~(same' /\ read' \in {"header", "bars", "check"})
    BY <1>2, <1>3
  <2> QED BY <1>1, <1>2, <2>1 DEF InvReader, NewestWindowValid, Valid
<1> QED BY <1>10, <1>11, <1>12, <1>13, <1>14, <1>15, <1>16 DEF RingInv

-----------------------------------------------------------------------------
(* A bucket is closed *)

Start(b) == IF b - Baseline + 1 < 0 THEN 0 ELSE b - Baseline + 1

LEMMA CloseFacts ==
  ASSUME RingInv, CloseBucket
  PROVE  /\ pending # Idle /\ nextCol \in Columns /\ nextCol \in Nat /\ nextCol <= targetCol
         /\ targetCol \in Nat /\ Goal = targetCol /\ openNS \in Nat /\ openNS # NoCol
         /\ nextCol' = nextCol + 1 /\ lastClosedCol' = nextCol /\ Goal' = Goal
         /\ closed' = closed \cup {nextCol} /\ nextCol \notin closed
         /\ \A d \in closed : d \in Nat /\ d < nextCol
         /\ book' = [book EXCEPT ![nextCol] = curVol]
         /\ curVol' = {} /\ cs' = cs + Cardinality(curVol)
         /\ csRing' = [csRing EXCEPT ![PrefixSlot(nextCol + 1)] = cs']
         /\ trailing' = AtLeastOne(cs' - csRing'[PrefixSlot(Start(nextCol))])
         /\ firstValidCol' = IF quote # NoQuote /\ firstValidCol < 0 THEN nextCol ELSE firstValidCol
         /\ UNCHANGED <<openNS, quote, pending, targetCol, odd, header, quoteAt, tradeAt, quotes,
                        trades, jumpedTo, same, read, copy>>
<1>1. InvTypes /\ InvColumns
  BY DEF RingInv
<1>2. /\ pending # Idle /\ nextCol <= targetCol /\ nextCol' = nextCol + 1 /\ lastClosedCol' = nextCol
      /\ closed' = closed \cup {nextCol} /\ book' = [book EXCEPT ![nextCol] = curVol]
      /\ curVol' = {} /\ cs' = cs + Cardinality(curVol)
      /\ csRing' = [csRing EXCEPT ![PrefixSlot(nextCol + 1)] = cs']
      /\ trailing' = AtLeastOne(cs' - csRing'[PrefixSlot(Start(nextCol))])
      /\ firstValidCol' = IF quote # NoQuote /\ firstValidCol < 0 THEN nextCol ELSE firstValidCol
  BY DEF CloseBucket, VolumeLeft, Start
<1>3. UNCHANGED <<openNS, quote, pending, targetCol, odd, header, quoteAt, tradeAt, quotes,
                  trades, jumpedTo, same, read, copy>>
  BY DEF CloseBucket, writerVars, readerVars
<1>4. /\ targetCol \in Nat /\ openNS # NoCol /\ targetCol = pending.ts - openNS - 1
      /\ pending.ts \in 1 .. LastInstant
  BY <1>1, <1>2 DEF InvColumns, Applicable
<1>5. /\ openNS \in Nat /\ closed \subseteq Nat /\ LastInstant \in Nat
      /\ lastClosedCol \in Nat \cup {-1} /\ nextCol \in Int
  BY <1>1, <1>4, StateNumbers
<1>6. Goal = targetCol /\ Goal' = Goal
  BY <1>2, <1>3 DEF Goal
<1>7. lastClosedCol < nextCol /\ \A d \in closed : d <= lastClosedCol
  BY <1>1 DEF InvColumns
<1>8. nextCol \in Nat
  BY <1>5, <1>7
<1>9. targetCol <= LastInstant
  BY <1>4, <1>5
<1>10. nextCol \in Columns
  BY <1>2, <1>4, <1>5, <1>8, <1>9 DEF Columns
<1>11. \A d \in closed : d \in Nat /\ d < nextCol
  <2> TAKE d \in closed
  <2>1. d \in Nat /\ d <= lastClosedCol
    BY <1>5, <1>7
  <2> QED BY <1>5, <1>7, <2>1
<1>12. nextCol \notin closed
  BY <1>8, <1>11
<1> QED BY <1>2, <1>3, <1>4, <1>5, <1>6, <1>8, <1>10, <1>11, <1>12

(* What it does to the slots. *)
LEMMA ClosedBars ==
  ASSUME RingInv, CloseBucket
  PROVE  /\ nextCol % RingBars \in Slots
         /\ bars'[nextCol % RingBars]
              = [col |-> nextCol, quote |-> quote, vol |-> curVol, cnt |-> trailing']
         /\ \A s \in Slots \ {nextCol % RingBars} :
              /\ bars'[s].col = bars[s].col /\ bars'[s].vol = bars[s].vol
              /\ bars'[s].cnt = bars[s].cnt
              /\ \/ bars'[s] = bars[s]
                 \/ /\ quote # NoQuote /\ firstValidCol < 0 /\ bars[s].quote = NoQuote
                    /\ bars[s].col # NoCol
                    /\ bars'[s] = [bars[s] EXCEPT !.quote = quote]
<1> DEFINE b == nextCol
           first == quote # NoQuote /\ firstValidCol < 0
           bar == [col |-> b, quote |-> quote, vol |-> curVol, cnt |-> trailing']
           filled == [bars EXCEPT ![b % RingBars] = bar]
<1>1. b \in Nat /\ b % RingBars \in Slots /\ InvTypes
  BY CloseFacts, SlotOfColumn DEF RingInv
<1>2. bars \in [Slots -> Bars]
  BY <1>1 DEF InvTypes, TypeOK
<1>3. bars' = [s \in Slots |->
                 IF first /\ filled[s].col \in 0 .. b - 1 /\ filled[s].quote = NoQuote
                   THEN [filled[s] EXCEPT !.quote = quote] ELSE filled[s]]
  BY DEF CloseBucket
<1>4. filled[b % RingBars] = bar /\ \A s \in Slots \ {b % RingBars} : filled[s] = bars[s]
  BY <1>1, <1>2
<1> HIDE DEF filled
<1>5. bars'[b % RingBars] = bar
  <2>1. filled[b % RingBars].col \notin 0 .. b - 1
    BY <1>1, <1>4
  <2> QED BY <1>1, <1>3, <1>4, <2>1
<1>6. ASSUME NEW s \in Slots \ {b % RingBars}
      PROVE  /\ bars'[s].col = bars[s].col /\ bars'[s].vol = bars[s].vol
             /\ bars'[s].cnt = bars[s].cnt
             /\ \/ bars'[s] = bars[s]
                \/ /\ quote # NoQuote /\ firstValidCol < 0 /\ bars[s].quote = NoQuote
                   /\ bars[s].col # NoCol
                   /\ bars'[s] = [bars[s] EXCEPT !.quote = quote]
  <2>1. bars[s] \in Bars /\ filled[s] = bars[s]
    BY <1>2, <1>4
  <2>2. CASE first /\ bars[s].col \in 0 .. b - 1 /\ bars[s].quote = NoQuote
    <3>1. bars'[s] = [bars[s] EXCEPT !.quote = quote]
      BY <1>3, <2>1, <2>2
    <3>2. bars[s].col # NoCol
      BY <1>1, <2>2 DEF NoCol
    <3> QED BY <2>1, <2>2, <3>1, <3>2 DEF Bars
  <2>3. CASE ~(first /\ bars[s].col \in 0 .. b - 1 /\ bars[s].quote = NoQuote)
    <3>1. bars'[s] = bars[s]
      BY <1>3, <2>1, <2>3
    <3> QED BY <3>1
  <2> QED BY <2>2, <2>3
<1> QED BY <1>1, <1>5, <1>6

(* What it does to the trades of the columns.                              *)
LEMMA ClosedBooks ==
  ASSUME RingInv, CloseBucket
  PROVE  /\ \A d \in closed : book'[d] = book[d]
         /\ book'[nextCol] = curVol
         /\ \A i \in Int : i <= nextCol => Prefix(i)' = Prefix(i)
         /\ cs' = Prefix(nextCol)'
         /\ \A c \in Nat : c < nextCol => TrailingCount(c)' = TrailingCount(c)
<1>1. /\ InvTypes /\ VolumeOnce /\ InvSums
      /\ nextCol \in Columns /\ nextCol \in Nat /\ nextCol' = nextCol + 1
      /\ closed' = closed \cup {nextCol} /\ nextCol \notin closed
      /\ \A d \in closed : d \in Nat /\ d < nextCol
      /\ book' = [book EXCEPT ![nextCol] = curVol] /\ cs' = cs + Cardinality(curVol)
  BY CloseFacts DEF RingInv
<1>2. book \in [Columns -> SUBSET (1 .. MaxTrades)] /\ closed \subseteq Columns
  BY <1>1 DEF InvTypes
<1>3. /\ \A d \in closed : book'[d] = book[d]
      /\ book'[nextCol] = curVol
  BY <1>1, <1>2
<1>4. ASSUME NEW i \in Int, i <= nextCol PROVE Prefix(i)' = Prefix(i)
  <2>1. {e \in closed' : e < i} = {e \in closed : e < i}
    BY <1>1, <1>4
  <2>2. {book'[d] : d \in {e \in closed : e < i}} = {book[d] : d \in {e \in closed : e < i}}
    BY <1>3
  <2> QED BY <2>1, <2>2 DEF Prefix, BooksBelow
<1>5. cs' = Prefix(nextCol)'
  <2> DEFINE Before == UNION {book[d] : d \in closed}
  <2>1. BooksBelow(nextCol) = Before
    <3>1. {e \in closed : e < nextCol} = closed
      BY <1>1
    <3> QED BY <3>1 DEF BooksBelow
  <2>2. BooksBelow(nextCol)' = Before \cup curVol
    <3>1. {e \in closed' : e < nextCol'} = closed'
      BY <1>1
    <3>2. {book'[d] : d \in closed'} = {book[d] : d \in closed} \cup {curVol}
      BY <1>1, <1>3
    <3> QED BY <3>1, <3>2 DEF BooksBelow
  <2>3. Before \cap curVol = {}
    BY <1>1 DEF VolumeOnce
  <2>4. IsFiniteSet(Before) /\ IsFiniteSet(curVol)
    BY <1>1, BooksFinite
  <2>5. cs = Cardinality(Before)
    BY <1>1, <2>1 DEF InvSums, Prefix
  <2> HIDE DEF Before
  <2>6. Cardinality(Before \cup curVol)
          = Cardinality(Before) + Cardinality(curVol) - Cardinality(Before \cap curVol)
    BY <2>4, FS_Union
  <2>7. /\ Cardinality(Before \cap curVol) = 0 /\ Cardinality(Before) \in Nat
        /\ Cardinality(curVol) \in Nat
    BY <2>3, <2>4, FS_EmptySet, FS_CardinalityType
  <2>8. Cardinality(Before \cup curVol) = cs'
    BY <1>1, <2>5, <2>6, <2>7
  <2> QED BY <2>2, <2>8 DEF Prefix
<1>6. ASSUME NEW c \in Nat, c < nextCol PROVE TrailingCount(c)' = TrailingCount(c)
  <2>1. {e \in closed' : e > c - Baseline /\ e <= c} = {e \in closed : e > c - Baseline /\ e <= c}
    BY <1>1, <1>6
  <2>2. {book'[d] : d \in {e \in closed : e > c - Baseline /\ e <= c}}
          = {book[d] : d \in {e \in closed : e > c - Baseline /\ e <= c}}
    BY <1>3
  <2> QED BY <2>1, <2>2 DEF TrailingCount
<1> QED BY <1>3, <1>4, <1>5, <1>6

LEMMA ClosedVolume == ASSUME RingInv, CloseBucket PROVE VolumeOnce'
<1>1. /\ VolumeOnce /\ nextCol \notin closed /\ curVol' = {} /\ trades' = trades
      /\ closed' = closed \cup {nextCol}
      /\ \A d \in closed : book'[d] = book[d]
      /\ book'[nextCol] = curVol
  BY CloseFacts, ClosedBooks DEF RingInv
<1>2. {book'[c] : c \in closed'} = {book[c] : c \in closed} \cup {curVol}
  BY <1>1
<1>3. 1 .. trades' = curVol' \cup UNION {book'[c] : c \in closed'}
  BY <1>1, <1>2 DEF VolumeOnce
<1>4. ASSUME NEW c \in closed', NEW d \in closed', c # d PROVE book'[c] \cap book'[d] = {}
  BY <1>1, <1>4 DEF VolumeOnce
<1> QED BY <1>1, <1>3, <1>4 DEF VolumeOnce

(* The prefix sums after the bucket.                                       *)
LEMMA ClosedSums ==
  ASSUME RingInv, CloseBucket, InvTypes'
  PROVE  /\ InvSums'
         /\ ~Jumped(lastClosedCol)' => (trailing = TrailingCount(lastClosedCol))'
<1>1. /\ InvTypes /\ VolumeOnce /\ InvSums
      /\ nextCol \in Nat /\ nextCol' = nextCol + 1 /\ lastClosedCol' = nextCol /\ Goal' = Goal
      /\ closed' = closed \cup {nextCol}
      /\ csRing' = [csRing EXCEPT ![PrefixSlot(nextCol + 1)] = cs']
      /\ trailing' = AtLeastOne(cs' - csRing'[PrefixSlot(Start(nextCol))])
      /\ jumpedTo' = jumpedTo
      /\ \A i \in Int : i <= nextCol => Prefix(i)' = Prefix(i)
      /\ cs' = Prefix(nextCol)'
  BY CloseFacts, ClosedBooks DEF RingInv
<1>2. csRing \in [0 .. Baseline -> Nat] /\ Baseline \in Nat \ {0} /\ jumpedTo \subseteq Nat
  BY <1>1, StateNumbers DEF InvTypes, TypeOK
<1>3. \A j \in jumpedTo : j <= nextCol /\ j + Baseline <= Goal
  BY <1>1 DEF InvSums
<1>4. csRing'[PrefixSlot(nextCol + 1)] = cs'
  BY <1>1, <1>2, SlotOfPrefix
<1>5. ASSUME NEW i \in Nat, nextCol + 1 - Baseline <= i, i <= nextCol + 1,
             \A j \in jumpedTo : j < i
      PROVE  csRing'[PrefixSlot(i)] = Prefix(i)'
  <2>1. CASE i = nextCol + 1
    <3>1. i = nextCol'
      BY <1>1, <2>1
    <3>2. Prefix(i)' = Prefix(nextCol)'
      BY <3>1 DEF Prefix, BooksBelow
    <3> QED BY <1>1, <1>4, <2>1, <3>2
  <2>2. CASE i <= nextCol
    <3>1. PrefixSlot(i) # PrefixSlot(nextCol + 1)
      BY <1>1, <1>2, <1>5, <2>2, PrefixSlotsApart
    <3>2. csRing'[PrefixSlot(i)] = csRing[PrefixSlot(i)]
      BY <1>1, <1>2, <3>1, SlotOfPrefix
    <3>3. csRing[PrefixSlot(i)] = Prefix(i)
      BY <1>1, <1>2, <1>5, <2>2 DEF InvSums
    <3>4. Prefix(i)' = Prefix(i)
      BY <1>1, <2>2
    <3> QED BY <3>2, <3>3, <3>4
  <2> QED BY <1>1, <1>5, <2>1, <2>2
<1>6. InvSums'
  <2>1. \A j \in jumpedTo' : j <= nextCol' /\ j + Baseline <= Goal'
    BY <1>1, <1>2, <1>3
  <2>2. closed' # {}
    BY <1>1
  <2>3. ASSUME NEW i \in Nat, nextCol' - Baseline <= i, i <= nextCol', \A j \in jumpedTo' : j < i
        PROVE  csRing'[PrefixSlot(i)] = Prefix(i)'
    <3>1. nextCol' = nextCol + 1 /\ nextCol \in Nat /\ Baseline \in Nat
      BY <1>1, <1>2
    <3>2. nextCol + 1 - Baseline <= i /\ i <= nextCol + 1
      BY <2>3, <3>1
    <3>3. \A j \in jumpedTo : j < i
      BY <1>1, <2>3
    <3> QED BY <1>5, <3>2, <3>3
  <2> QED BY <1>1, <2>1, <2>2, <2>3 DEF InvSums
<1>7. ASSUME ~Jumped(lastClosedCol)' PROVE (trailing = TrailingCount(lastClosedCol))'
  <2>1. PICK b \in Nat : b = nextCol
    BY <1>1
  <2>2. PICK start \in Nat : start = Start(b)
    <3>1. Start(b) \in Nat
      BY <1>2, <2>1 DEF Start
    <3> QED BY <3>1
  <2>3. start <= b /\ b + 1 - Baseline <= start
    BY <1>2, <2>1, <2>2 DEF Start
  <2>4. \A j \in jumpedTo : j < start
    <3> SUFFICES ASSUME NEW j \in jumpedTo PROVE j < start
      OBVIOUS
    <3>1. b \notin j .. j + Baseline - 1
      BY <1>1, <1>7, <2>1 DEF Jumped
    <3>2. j \in Nat /\ j <= b
      BY <1>2, <1>3, <2>1
    <3>3. j + Baseline <= b
      BY <1>2, <3>1, <3>2
    <3> QED BY <1>2, <2>2, <3>2, <3>3 DEF Start
  <2>5. csRing'[PrefixSlot(start)] = Prefix(start)'
    BY <1>5, <2>1, <2>3, <2>4
  <2>6. TrailingCount(b)' = AtLeastOne(cs' - Prefix(start))
    <3> DEFINE Span == UNION {book[d] : d \in {e \in closed : start <= e /\ e < b}}
    <3>1. /\ \A d \in closed : book'[d] = book[d] /\ d \in Nat /\ d < b
          /\ book'[b] = curVol /\ closed' = closed \cup {b}
          /\ cs' = cs + Cardinality(curVol) /\ cs = Prefix(b)
      BY <1>1, <2>1, CloseFacts, ClosedBooks DEF InvSums
    <3>2. {e \in closed' : e > b - Baseline /\ e <= b} = {e \in closed : start <= e /\ e < b} \cup {b}
      <4>1. ASSUME NEW e \in closed
            PROVE  (e > b - Baseline /\ e <= b) <=> (start <= e /\ e < b)
        BY <1>2, <2>2, <3>1 DEF Start
      <4>2. b > b - Baseline /\ b <= b
        BY <1>2
      <4> QED BY <3>1, <4>1, <4>2
    <3>3. UNION {book'[d] : d \in {e \in closed' : e > b - Baseline /\ e <= b}} = Span \cup curVol
      BY <3>1, <3>2
    <3>4. Span \cap curVol = {}
      BY <1>1 DEF VolumeOnce
    <3>5. {e \in closed : start <= e /\ e < b} \in SUBSET closed
      OBVIOUS
    <3>6. IsFiniteSet(Span) /\ IsFiniteSet(curVol)
      BY <1>1, <3>5, BooksFinite
    <3>7. Cardinality(Span) = Prefix(b) - Prefix(start)
      BY <1>1, <2>3, SpanOfPrefixes
    <3>8. Prefix(b) \in Nat /\ Prefix(start) \in Nat
      BY <1>1, PrefixType
    <3> HIDE DEF Span
    <3>9. Cardinality(Span \cup curVol)
            = Cardinality(Span) + Cardinality(curVol) - Cardinality(Span \cap curVol)
      BY <3>6, FS_Union
    <3>10. Cardinality(Span \cap curVol) = 0 /\ Cardinality(curVol) \in Nat
      BY <3>4, <3>6, FS_EmptySet, FS_CardinalityType
    <3>11. Cardinality(Span \cup curVol) = cs' - Prefix(start)
      BY <3>1, <3>7, <3>8, <3>9, <3>10
    <3> QED BY <3>3, <3>11 DEF TrailingCount
  <2>7. Prefix(start)' = Prefix(start)
    BY <1>1, <2>1, <2>3
  <2>8. trailing' = TrailingCount(b)'
    BY <1>1, <2>1, <2>2, <2>5, <2>6, <2>7 DEF AtLeastOne
  <2>9. TrailingCount(lastClosedCol)' = TrailingCount(b)'
    BY <1>1, <2>1 DEF TrailingCount
  <2> QED BY <2>8, <2>9
<1> QED BY <1>6, <1>7

LEMMA ClosedTypes == ASSUME RingInv, CloseBucket PROVE InvTypes'
<1>1. /\ InvTypes /\ nextCol \in Columns /\ nextCol \in Nat
      /\ nextCol' = nextCol + 1 /\ lastClosedCol' = nextCol
      /\ closed' = closed \cup {nextCol}
      /\ book' = [book EXCEPT ![nextCol] = curVol]
      /\ curVol' = {} /\ cs' = cs + Cardinality(curVol)
      /\ csRing' = [csRing EXCEPT ![PrefixSlot(nextCol + 1)] = cs']
      /\ trailing' = AtLeastOne(cs' - csRing'[PrefixSlot(Start(nextCol))])
      /\ firstValidCol' = IF quote # NoQuote /\ firstValidCol < 0 THEN nextCol ELSE firstValidCol
      /\ UNCHANGED <<openNS, quote, pending, targetCol, odd, header, quoteAt, tradeAt, quotes,
                     trades, jumpedTo, same, read, copy>>
  BY CloseFacts DEF RingInv
<1>2. /\ TypeOK /\ Baseline \in Nat \ {0} /\ quote \in 0 .. MaxQuotes /\ quote <= quotes
      /\ curVol \in SUBSET (1 .. MaxTrades)
  BY <1>1, StateNumbers DEF InvTypes, TypeOK
<1>3. cs' \in Nat
  <2>1. {} \in SUBSET closed
    OBVIOUS
  <2>2. Cardinality(curVol) \in Nat
    BY <1>1, <2>1, BooksFinite, FS_CardinalityType
  <2> QED BY <1>1, <1>2, <2>2 DEF TypeOK
<1>4. csRing' \in [0 .. Baseline -> Nat]
  BY <1>1, <1>2, <1>3 DEF TypeOK
<1>5. trailing' \in Nat
  <2>1. Start(nextCol) \in Nat
    BY <1>1, <1>2 DEF Start
  <2>2. csRing'[PrefixSlot(Start(nextCol))] \in Nat
    BY <1>4, <2>1, SlotOfPrefix
  <2> QED BY <1>1, <1>3, <2>2 DEF AtLeastOne
<1>6. /\ nextCol % RingBars \in Slots
      /\ bars'[nextCol % RingBars]
           = [col |-> nextCol, quote |-> quote, vol |-> curVol, cnt |-> trailing']
      /\ \A s \in Slots \ {nextCol % RingBars} :
           \/ bars'[s] = bars[s]
           \/ bars'[s] = [bars[s] EXCEPT !.quote = quote]
  BY ClosedBars
<1>7. bars' \in [Slots -> Bars]
  <2>1. bars' = [s \in Slots |-> bars'[s]]
    BY DEF CloseBucket
  <2>2. ASSUME NEW s \in Slots PROVE bars'[s] \in Bars
    <3>1. bars[s] \in Bars
      BY <1>2 DEF TypeOK
    <3>2. CASE s = nextCol % RingBars
      BY <1>1, <1>2, <1>5, <1>6, <3>2 DEF Bars
    <3>3. CASE s # nextCol % RingBars
      BY <1>2, <1>6, <3>1, <3>3 DEF Bars
    <3> QED BY <3>2, <3>3
  <2> QED BY <2>1, <2>2
<1>8. ASSUME NEW s \in Slots PROVE bars'[s].quote <= quotes'
  <2>1. bars[s].quote <= quotes /\ bars[s] \in Bars
    BY <1>1, <1>2 DEF InvTypes, TypeOK
  <2>2. bars'[s].quote = quote \/ bars'[s].quote = bars[s].quote
    <3>1. CASE s = nextCol % RingBars
      BY <1>6, <3>1
    <3>2. CASE s # nextCol % RingBars
      BY <1>6, <2>1, <3>2 DEF Bars
    <3> QED BY <3>1, <3>2
  <2> QED BY <1>1, <1>2, <2>1, <2>2
<1>9. {openNS, nextCol, lastClosedCol, targetCol, firstValidCol}' \subseteq Nat \cup {NoCol}
  BY <1>1, <1>2 DEF TypeOK
<1>10. TypeOK'
  BY <1>1, <1>2, <1>3, <1>4, <1>5, <1>7, <1>9 DEF TypeOK
<1>11. book' \in [Columns -> SUBSET (1 .. MaxTrades)] /\ closed' \subseteq Columns
  BY <1>1, <1>2 DEF InvTypes
<1> QED BY <1>1, <1>8, <1>10, <1>11 DEF InvTypes

LEMMA ClosedColumns == ASSUME RingInv, CloseBucket PROVE InvColumns'
<1>1. /\ InvColumns /\ pending # Idle /\ nextCol \in Nat /\ nextCol <= targetCol /\ targetCol \in Nat
      /\ Goal = targetCol /\ Goal' = Goal
      /\ nextCol' = nextCol + 1 /\ lastClosedCol' = nextCol
      /\ closed' = closed \cup {nextCol} /\ openNS # NoCol
      /\ \A d \in closed : d \in Nat /\ d < nextCol
      /\ UNCHANGED <<openNS, pending, targetCol, odd, quotes, trades>>
      /\ NoCol = -1
  BY CloseFacts DEF RingInv, NoCol
<1>2. Applicable(pending)'
  BY <1>1 DEF InvColumns, Applicable
<1>3. \A d \in closed' : d <= lastClosedCol'
  BY <1>1
<1>4. lastClosedCol' < nextCol' /\ nextCol' <= Goal' + 1 /\ lastClosedCol' = nextCol' - 1
  BY <1>1
<1>5. lastClosedCol' # NoCol /\ lastClosedCol' \in closed'
  BY <1>1
<1>6. ASSUME NEW c \in Nat, Goal' - RingBars < c, c < nextCol' PROVE c \in closed'
  <2>1. c < nextCol \/ c = nextCol
    BY <1>1, <1>6
  <2>2. Goal - RingBars < c
    BY <1>1, <1>6
  <2> QED BY <1>1, <2>1, <2>2 DEF InvColumns
<1>7. targetCol' = pending'.ts - openNS' - 1 /\ targetCol' \in Nat /\ (odd' <=> pending' # Idle)
  BY <1>1 DEF InvColumns
<1> QED BY <1>1, <1>2, <1>3, <1>4, <1>5, <1>6, <1>7 DEF InvColumns

LEMMA ClosedSlots == ASSUME RingInv, CloseBucket PROVE InvBars'
<1> DEFINE slot == nextCol % RingBars
<1>1. /\ InvBars /\ nextCol \in Nat /\ closed' = closed \cup {nextCol}
      /\ \A d \in closed : d \in Nat /\ d < nextCol
      /\ \A d \in closed : book'[d] = book[d]
      /\ book'[nextCol] = curVol
      /\ slot \in Slots /\ NoCol = -1
      /\ bars'[slot] = [col |-> nextCol, quote |-> quote, vol |-> curVol, cnt |-> trailing']
      /\ \A s \in Slots \ {slot} : bars'[s].col = bars[s].col /\ bars'[s].vol = bars[s].vol
  BY CloseFacts, ClosedBooks, ClosedBars DEF RingInv, NoCol
<1>2. /\ bars'[slot].col = nextCol /\ bars'[slot].vol = book'[nextCol]
      /\ \A d \in closed' : d <= nextCol
  BY <1>1
<1>3. ASSUME NEW s \in Slots, s # slot
      PROVE  /\ bars'[s].col # NoCol =>
                  /\ bars'[s].col \in closed' /\ bars'[s].col % RingBars = s
                  /\ bars'[s].vol = book'[bars'[s].col]
             /\ \A d \in closed' : d % RingBars = s => bars'[s].col # NoCol /\ d <= bars'[s].col
  BY <1>1, <1>3 DEF InvBars
<1> QED BY <1>1, <1>2, <1>3 DEF InvBars

LEMMA ClosedTimes == ASSUME RingInv, CloseBucket PROVE InvTimes'
<1> DEFINE slot == nextCol % RingBars
<1>1. /\ InvTypes /\ InvTimes /\ InvBars
      /\ nextCol \in Nat /\ nextCol' = nextCol + 1 /\ closed' = closed \cup {nextCol}
      /\ openNS \in Nat /\ openNS # NoCol /\ curVol' = {} /\ NoCol = -1
      /\ \A d \in closed : d \in Nat /\ d < nextCol
      /\ \A d \in closed : book'[d] = book[d]
      /\ book'[nextCol] = curVol
      /\ firstValidCol' = IF quote # NoQuote /\ firstValidCol < 0 THEN nextCol ELSE firstValidCol
      /\ UNCHANGED <<openNS, quote, quoteAt, tradeAt>>
  BY CloseFacts, ClosedBooks DEF RingInv, NoCol
<1>2. /\ slot \in Slots
      /\ bars'[slot] = [col |-> nextCol, quote |-> quote, vol |-> curVol, cnt |-> trailing']
      /\ \A s \in Slots \ {slot} :
           /\ bars'[s].col = bars[s].col
           /\ \/ bars'[s] = bars[s]
              \/ quote # NoQuote /\ firstValidCol < 0
  BY ClosedBars
<1>3. bars'[slot].col = nextCol /\ bars'[slot].quote = quote
  BY <1>2
<1>4. quote # NoQuote => quoteAt[quote] \in Nat /\ quoteAt[quote] < openNS + nextCol + 1
  <2> SUFFICES ASSUME quote # NoQuote
               PROVE  quoteAt[quote] \in Nat /\ quoteAt[quote] < openNS + nextCol + 1
    OBVIOUS
  <2>1. quote \in 1 .. MaxQuotes
    BY <1>1, StateNumbers DEF InvTypes, TypeOK, NoQuote
  <2> QED BY <1>1, <2>1 DEF InvTypes, InvTimes
<1>5. quote' # NoQuote => quoteAt'[quote'] < openNS' + nextCol' + 1
  BY <1>1, <1>4
<1>6. ASSUME NEW c \in closed', NEW t \in book'[c] PROVE tradeAt'[t] < openNS' + c + 1
  BY <1>1, <1>6 DEF InvTimes
<1>7. ASSUME firstValidCol' < 0, NEW s \in Slots PROVE bars'[s].quote = NoQuote
  <2>1. firstValidCol < 0 /\ quote = NoQuote
    BY <1>1, <1>7
  <2>2. bars[s].quote = NoQuote
    BY <1>1, <2>1 DEF InvTimes
  <2> QED BY <1>2, <1>3, <2>1, <2>2
<1>8. ASSUME NEW s \in Slots, bars'[s].col # NoCol, bars'[s].quote # NoQuote,
             bars'[s].col >= firstValidCol'
      PROVE  quoteAt'[bars'[s].quote] < openNS' + bars'[s].col + 1
  <2>1. CASE s = slot
    BY <1>1, <1>3, <1>4, <1>8, <2>1
  <2>2. CASE s # slot
    <3>1. bars'[s].col = bars[s].col /\ bars[s].col \in closed
      BY <1>1, <1>2, <1>8, <2>2 DEF InvBars
    <3>2. bars[s].col \in Nat /\ bars[s].col < nextCol
      BY <1>1, <3>1
    <3>3. ~(quote # NoQuote /\ firstValidCol < 0)
      BY <1>1, <1>8, <3>1, <3>2
    <3>4. bars'[s] = bars[s] /\ firstValidCol' = firstValidCol
      BY <1>1, <1>2, <2>2, <3>3
    <3> QED BY <1>1, <1>8, <3>4 DEF InvTimes
  <2> QED BY <2>1, <2>2
<1> QED BY <1>1, <1>5, <1>6, <1>7, <1>8 DEF InvTimes

LEMMA CloseStep == ASSUME RingInv, CloseBucket PROVE RingInv'
<1> DEFINE slot == nextCol % RingBars
<1>1. InvTypes' /\ InvColumns' /\ VolumeOnce' /\ InvBars' /\ InvTimes'
  BY ClosedTypes, ClosedColumns, ClosedVolume, ClosedSlots, ClosedTimes
<1>2. InvSums' /\ (~Jumped(lastClosedCol)' => (trailing = TrailingCount(lastClosedCol))')
  BY <1>1, ClosedSums
<1>3. /\ InvTypes /\ InvColumns /\ InvCounts /\ InvReader /\ InvBars
      /\ pending # Idle /\ nextCol \in Nat /\ lastClosedCol' = nextCol
      /\ \A d \in closed : d \in Nat /\ d < nextCol
      /\ \A c \in Nat : c < nextCol => TrailingCount(c)' = TrailingCount(c)
      /\ UNCHANGED <<pending, header, jumpedTo, same, read, copy>>
  BY CloseFacts, ClosedBooks DEF RingInv
<1>4. InvCounts'
  <2>1. /\ slot \in Slots
        /\ bars'[slot] = [col |-> nextCol, quote |-> quote, vol |-> curVol, cnt |-> trailing']
        /\ \A s \in Slots \ {slot} : bars'[s].col = bars[s].col /\ bars'[s].cnt = bars[s].cnt
    BY ClosedBars
  <2>2. header.last \in Nat \cup {NoCol} /\ header.last < nextCol
    <3>1. header.last \in Nat \cup {NoCol}
      BY <1>3, StateNumbers DEF InvTypes, TypeOK, Columns
    <3>2. header.last <= lastClosedCol /\ lastClosedCol < nextCol
      BY <1>3 DEF InvCounts, InvColumns
    <3> QED BY <1>3, <3>1, <3>2, StateNumbers
  <2>3. header'.last <= lastClosedCol'
    BY <1>3, <2>2, StateNumbers
  <2>4. header'.last # NoCol => header'.cnt = TrailingCount(header.last)'
    <3> SUFFICES ASSUME header.last # NoCol PROVE header.cnt = TrailingCount(header.last)'
      BY <1>3
    <3>1. PICK c \in Nat : c = header.last
      BY <2>2
    <3>2. TrailingCount(c)' = TrailingCount(c) /\ header.cnt = TrailingCount(c)
      BY <1>3, <2>2, <3>1 DEF InvCounts
    <3>3. TrailingCount(header.last)' = TrailingCount(c)'
      BY <1>3, <3>1 DEF TrailingCount
    <3> QED BY <3>2, <3>3
  <2>5. ASSUME NEW s \in Slots, bars'[s].col # NoCol, ~Jumped(bars[s].col)'
        PROVE  bars'[s].cnt = TrailingCount(bars[s].col)'
    <3>1. CASE s = slot
      <4>1. bars'[s].col = lastClosedCol' /\ bars'[s].cnt = trailing'
        BY <1>3, <2>1, <3>1
      <4>2. ~Jumped(lastClosedCol)'
        BY <2>5, <4>1 DEF Jumped
      <4>3. TrailingCount(bars[s].col)' = TrailingCount(lastClosedCol)'
        BY <4>1 DEF TrailingCount
      <4> QED BY <1>2, <4>1, <4>2, <4>3
    <3>2. CASE s # slot
      <4>1. bars'[s].col = bars[s].col /\ bars'[s].cnt = bars[s].cnt
        BY <2>1, <3>2
      <4>2. bars[s].col \in closed
        BY <1>3, <2>5, <4>1 DEF InvBars
      <4>3. PICK c \in Nat : c = bars[s].col /\ c < nextCol
        BY <1>3, <4>2
      <4>4. ~Jumped(c)
        BY <1>3, <2>5, <4>1, <4>3 DEF Jumped
      <4>5. bars[s].cnt = TrailingCount(c)
        BY <1>3, <2>5, <4>1, <4>3, <4>4 DEF InvCounts
      <4>6. TrailingCount(bars[s].col)' = TrailingCount(c)'
        BY <4>1, <4>3 DEF TrailingCount
      <4> QED BY <1>3, <4>1, <4>3, <4>5, <4>6
    <3> QED BY <3>1, <3>2
  <2> QED BY <1>2, <2>3, <2>4, <2>5 DEF InvCounts
<1>5. InvReader'
  BY <1>3 DEF InvReader, NewestWindowValid, Valid
<1> QED BY <1>1, <1>2, <1>4, <1>5 DEF RingInv

-----------------------------------------------------------------------------
(* The advance ends, and the tick is applied *)

LEMMA EndStep == ASSUME RingInv, EndAdvance PROVE RingInv'
<1>1. /\ InvTypes /\ InvColumns /\ VolumeOnce /\ InvBars /\ InvTimes /\ InvSums /\ InvCounts
      /\ InvReader
  BY DEF RingInv
<1>2. /\ pending # Idle /\ nextCol > targetCol /\ Apply(pending)
      /\ header' = [last |-> lastClosedCol, cnt |-> trailing]
      /\ odd' = FALSE /\ same' = (read = "none")
      /\ pending' = Idle /\ targetCol' = NoCol /\ openNS' = openNS
      /\ UNCHANGED <<nextCol, lastClosedCol, firstValidCol, cs, csRing, trailing, bars, book,
                     closed, jumpedTo, read, copy>>
  BY DEF EndAdvance
<1>3. /\ Applicable(pending) /\ openNS # NoCol /\ pending.ts \in Nat
      /\ targetCol = pending.ts - openNS - 1 /\ targetCol \in Nat /\ Goal = targetCol
      /\ openNS \in Nat /\ nextCol \in Int /\ lastClosedCol \in Int
      /\ jumpedTo \subseteq Nat /\ Baseline \in Nat \ {0} /\ RingBars \in Nat \ {0} /\ NoCol = -1
  <2>1. /\ Applicable(pending) /\ openNS # NoCol
        /\ targetCol = pending.ts - openNS - 1 /\ targetCol \in Nat
    BY <1>1, <1>2 DEF InvColumns
  <2>2. pending.ts \in Nat
    BY <1>1, <2>1, StateNumbers DEF Applicable
  <2>3. Goal = targetCol
    BY <1>2 DEF Goal
  <2> QED BY <1>1, <2>1, <2>2, <2>3, StateNumbers
<1>4. nextCol = targetCol + 1 /\ lastClosedCol = targetCol
  BY <1>1, <1>2, <1>3 DEF InvColumns
<1>5. Goal' = Goal /\ Goal' = lastClosedCol'
  BY <1>2, <1>3, <1>4 DEF Goal
<1>6. pending.ts < openNS' + nextCol + 1
  BY <1>2, <1>3, <1>4
<1>7. InvTimes' /\ VolumeOnce' /\ InvBars' /\ \A s \in Slots : bars'[s].quote <= quotes'
  BY <1>2, <1>3, <1>6, ApplyTimes
<1>8. InvTypes'
  <2>1. /\ quotes' \in 1 .. MaxQuotes /\ trades' \in 0 .. MaxTrades
        /\ quote' \in 0 .. MaxQuotes /\ quote' <= quotes'
        /\ quoteAt' \in [1 .. MaxQuotes -> Nat] /\ tradeAt' \in [1 .. MaxTrades -> Nat]
        /\ curVol' \subseteq 1 .. MaxTrades
    BY <1>1, <1>2, <1>3, ApplyFacts
  <2>2. lastClosedCol \in Columns
    BY <1>1, <1>3, <1>4, SMTT(30) DEF InvColumns, InvTypes
  <2>3. header' \in [last : Columns \cup {NoCol}, cnt : Nat]
    BY <1>1, <1>2, <2>2 DEF InvTypes, TypeOK
  <2>4. TypeOK'
    BY <1>1, <1>2, <2>1, <2>3 DEF InvTypes, TypeOK
  <2> QED BY <1>1, <1>2, <1>7, <2>1, <2>4 DEF InvTypes
<1>9. InvColumns'
  BY <1>1, <1>2, <1>3, <1>4, <1>5 DEF InvColumns
<1>10. InvSums'
  BY <1>1, <1>2, <1>5, SumsKept
<1>11. InvCounts'
  <2>1. \A c : TrailingCount(c)' = TrailingCount(c) /\ (Jumped(c)' <=> Jumped(c))
    BY <1>2 DEF TrailingCount, Jumped
  <2>2. ~Jumped(lastClosedCol)
    <3> SUFFICES ASSUME NEW j \in jumpedTo, lastClosedCol \in j .. j + Baseline - 1
                 PROVE  FALSE
      BY DEF Jumped
    <3>1. j + Baseline <= Goal /\ j \in Nat
      BY <1>1, <1>3 DEF InvSums
    <3> QED BY <1>3, <1>4, <3>1
  <2>3. trailing = TrailingCount(lastClosedCol)
    BY <1>1, <1>3, <1>4, <2>2 DEF InvCounts
  <2>4. header'.last = lastClosedCol /\ header'.cnt = trailing
    BY <1>2
  <2>5. TrailingCount(header.last)' = TrailingCount(lastClosedCol)'
    BY <1>2, <2>4 DEF TrailingCount
  <2>6. header'.cnt = TrailingCount(header.last)' /\ header'.last <= lastClosedCol'
    BY <1>2, <1>3, <2>1, <2>3, <2>4, <2>5
  <2> QED BY <1>1, <1>2, <2>1, <2>6 DEF InvCounts
<1>12. InvReader'
  <2>1. ~(same' /\ read' \in {"header", "bars", "check"})
    BY <1>2
  <2> QED BY <1>1, <1>2, <2>1 DEF InvReader, NewestWindowValid, Valid
<1> QED BY <1>7, <1>8, <1>9, <1>10, <1>11, <1>12 DEF RingInv

-----------------------------------------------------------------------------
(* The reader *)

(* Between two advances the ring holds the columns that come just before   *)
(* the open one.                                                           *)
LEMMA RecentColumns ==
  ASSUME RingInv, pending = Idle, NEW c \in Nat, lastClosedCol - RingBars < c, c <= lastClosedCol
  PROVE  bars[c % RingBars].col = c
<1>1. /\ InvColumns /\ InvBars /\ Goal = lastClosedCol /\ nextCol = lastClosedCol + 1
      /\ lastClosedCol \in Nat \cup {-1} /\ closed \subseteq Nat /\ RingBars \in Nat \ {0}
      /\ c % RingBars \in Slots
  BY IdleTracker, StateNumbers, SlotOfColumn DEF RingInv
<1>2. c < nextCol
  BY <1>1
<1>3. c \in closed
  BY <1>1, <1>2 DEF InvColumns
<1>4. PICK d : d = bars[c % RingBars].col
  OBVIOUS
<1>5. d \in closed /\ d % RingBars = c % RingBars /\ c <= d
  BY <1>1, <1>3, <1>4 DEF InvBars
<1>6. d \in Nat /\ d <= lastClosedCol
  BY <1>1, <1>5 DEF InvColumns
<1>7. ~(c < d)
  <2> SUFFICES ASSUME c < d PROVE FALSE
    OBVIOUS
  <2>1. c + RingBars <= d
    BY <1>5, <1>6, OneSlot
  <2> QED BY <1>1, <1>6, <2>1
<1> QED BY <1>4, <1>5, <1>6, <1>7

LEMMA WindowOfRing ==
  ASSUME RingInv, pending = Idle, NEW b \in Nat, b = lastClosedCol
  PROVE  Valid(bars, b, WindowBars) = b - (WindowBars - 1) .. b
<1>1. WindowBars \in Nat \ {0} /\ RingBars \in Nat \ {0} /\ WindowBars < RingBars
  BY RingAssumption
<1>2. ASSUME NEW c \in b - (WindowBars - 1) .. b
      PROVE  LET k == IF c < 0 THEN 0 ELSE c IN bars[k % RingBars].col = k
  <2> DEFINE k == IF c < 0 THEN 0 ELSE c
  <2>1. c \in Int /\ b - (WindowBars - 1) <= c /\ c <= b
    BY <1>1, <1>2
  <2>2. k \in Nat /\ b - RingBars < k /\ k <= b
    BY <1>1, <2>1
  <2> HIDE DEF k
  <2>3. bars[k % RingBars].col = k
    BY <2>2, RecentColumns
  <2> QED BY <2>3 DEF k
<1> QED BY <1>2 DEF Valid

LEMMA NewestInRing ==
  ASSUME RingInv, pending = Idle, NEW s \in Slots
  PROVE  /\ bars[s].col = Newest(lastClosedCol, s)
         /\ bars[s].col # NoCol => bars[s].vol = book[bars[s].col]
<1>1. InvColumns /\ InvBars /\ closed \subseteq Nat /\ lastClosedCol \in Int
  BY StateNumbers DEF RingInv
<1>2. PICK there : there = {d \in closed : d <= lastClosedCol /\ d % RingBars = s}
  OBVIOUS
<1>3. there = {d \in closed : d % RingBars = s}
  BY <1>1, <1>2 DEF InvColumns
<1>4. CASE there = {}
  <2>1. bars[s].col = NoCol
    BY <1>1, <1>3, <1>4 DEF InvBars
  <2> QED BY <1>2, <1>4, <2>1 DEF Newest
<1>5. CASE there # {}
  <2>1. PICK m : m = bars[s].col
    OBVIOUS
  <2>2. m # NoCol /\ \A e \in there : e <= m
    BY <1>1, <1>3, <1>5, <2>1 DEF InvBars
  <2>3. m \in there
    BY <1>1, <1>3, <2>1, <2>2 DEF InvBars
  <2>4. \A d \in there : (\A e \in there : e <= d) => d = m
    <3> SUFFICES ASSUME NEW d \in there, \A e \in there : e <= d PROVE d = m
      OBVIOUS
    <3>1. d \in Nat /\ m \in Nat /\ d <= m /\ m <= d
      BY <1>1, <1>3, <2>2, <2>3
    <3> QED BY <3>1
  <2>5. (CHOOSE d \in there : \A e \in there : e <= d) = m
    BY <2>2, <2>3, <2>4
  <2>6. Newest(lastClosedCol, s) = m
    BY <1>2, <1>5, <2>5 DEF Newest
  <2> QED BY <1>1, <2>1, <2>6 DEF InvBars
<1> QED BY <1>4, <1>5

Reading == BeginRead \/ CopyHeader \/ CopyBars \/ EndRead \/ TryAgain

LEMMA ReadStep == ASSUME RingInv, Reading PROVE RingInv'
<1>1. /\ InvTypes /\ InvColumns /\ VolumeOnce /\ InvBars /\ InvTimes /\ InvSums /\ InvCounts
      /\ InvReader
  BY DEF RingInv
<1>2. UNCHANGED <<trackerVars, ringVars, writerVars, historyVars>>
  BY DEF Reading, BeginRead, CopyHeader, CopyBars, EndRead, TryAgain
<1>3. /\ UNCHANGED <<openNS, nextCol, lastClosedCol, quote, firstValidCol, curVol, cs, csRing,
                     trailing, odd, header, bars, pending, targetCol>>
      /\ UNCHANGED <<quoteAt, tradeAt, quotes, trades, book, closed, jumpedTo>>
  BY <1>2 DEF trackerVars, ringVars, writerVars, historyVars
<1>4. Goal' = Goal
  BY <1>3 DEF Goal
<1>5. /\ read' \in {"none", "header", "bars", "check", "done"} /\ same' \in BOOLEAN
      /\ copy' \in [header : [last : Columns \cup {NoCol}, cnt : Nat], bars : [Slots -> Bars]]
  <2>1. /\ header \in [last : Columns \cup {NoCol}, cnt : Nat] /\ bars \in [Slots -> Bars]
        /\ copy \in [header : [last : Columns \cup {NoCol}, cnt : Nat], bars : [Slots -> Bars]]
        /\ same \in BOOLEAN
    BY <1>1 DEF InvTypes, TypeOK
  <2>2. NoCopy \in [header : [last : Columns \cup {NoCol}, cnt : Nat], bars : [Slots -> Bars]]
    <3>1. NoQuote \in 0 .. MaxQuotes /\ {} \in SUBSET (1 .. MaxTrades)
      BY RingAssumption DEF NoQuote
    <3>2. EmptyRing \in [Slots -> Bars]
      BY <3>1 DEF EmptyRing, EmptyBar, Bars
    <3> QED BY <3>2 DEF NoCopy, EmptyHeader
  <2>3. CASE BeginRead
    BY <2>1, <2>3 DEF BeginRead
  <2>4. CASE CopyHeader
    BY <2>1, <2>4 DEF CopyHeader
  <2>5. CASE CopyBars
    BY <2>1, <2>5 DEF CopyBars
  <2>6. CASE EndRead
    BY <2>1, <2>6 DEF EndRead
  <2>7. CASE TryAgain
    BY <2>1, <2>2, <2>7 DEF TryAgain
  <2> QED BY <2>3, <2>4, <2>5, <2>6, <2>7 DEF Reading
<1>6. InvTypes'
  <2>1. TypeOK'
    BY <1>1, <1>3, <1>5 DEF InvTypes, TypeOK
  <2> QED BY <1>1, <1>3, <2>1 DEF InvTypes
<1>7. InvColumns'
  BY <1>1, <1>3, <1>4 DEF InvColumns, Applicable
<1>8. VolumeOnce' /\ InvBars' /\ InvTimes'
  BY <1>1, <1>3 DEF VolumeOnce, InvBars, InvTimes
<1>9. InvSums' /\ InvCounts'
  BY <1>1, <1>3, <1>4, SumsKept, CountsKept
<1>10. InvReader'
  <2>1. (pending = Idle => header.last = lastClosedCol)'
    BY <1>1, <1>3 DEF InvReader
  <2>2. CASE BeginRead
    <3>1. pending' = Idle /\ read' = "header"
      BY <1>1, <1>3, <2>2 DEF BeginRead, InvColumns
    <3> QED BY <2>1, <3>1 DEF InvReader, NewestWindowValid
  <2>3. CASE CopyHeader
    <3>1. copy'.header = header /\ read' = "bars" /\ read = "header" /\ same' = same
      BY <1>1, <2>3 DEF CopyHeader, InvTypes, TypeOK
    <3> QED BY <1>1, <1>3, <2>1, <3>1 DEF InvReader, NewestWindowValid
  <2>4. CASE CopyBars
    <3>1. /\ copy'.bars = bars /\ copy'.header = copy.header
          /\ read' = "check" /\ read = "bars" /\ same' = same
      BY <1>1, <2>4 DEF CopyBars, InvTypes, TypeOK
    <3> QED BY <1>1, <1>3, <2>1, <3>1 DEF InvReader, NewestWindowValid
  <2>5. CASE EndRead
    <3>1. same /\ read = "check" /\ read' = "done" /\ copy' = copy
      BY <2>5 DEF EndRead, Stable
    <3>2. pending = Idle /\ copy.header.last = lastClosedCol /\ copy.bars = bars
      BY <1>1, <3>1 DEF InvReader
    <3>3. NewestWindowValid'
      <4> SUFFICES ASSUME lastClosedCol # NoCol
                   PROVE  Valid(bars, lastClosedCol, WindowBars)
                            = lastClosedCol - (WindowBars - 1) .. lastClosedCol
        BY <3>1, <3>2 DEF NewestWindowValid, Valid
      <4>1. lastClosedCol \in Nat
        BY <1>1, StateNumbers
      <4> QED BY <3>2, <4>1, WindowOfRing
    <3> QED BY <2>1, <3>1, <3>3 DEF InvReader
  <2>6. CASE TryAgain
    <3>1. read' = "none"
      BY <2>6 DEF TryAgain
    <3> QED BY <2>1, <3>1 DEF InvReader, NewestWindowValid
  <2> QED BY <2>2, <2>3, <2>4, <2>5, <2>6 DEF Reading
<1> QED BY <1>6, <1>7, <1>8, <1>9, <1>10 DEF RingInv

LEMMA StutterStep == ASSUME RingInv, UNCHANGED vars PROVE RingInv'
<1>1. /\ UNCHANGED <<openNS, nextCol, lastClosedCol, quote, firstValidCol, curVol, cs, csRing,
                     trailing, odd, header, bars, pending, targetCol>>
      /\ UNCHANGED <<quoteAt, tradeAt, quotes, trades, book, closed, jumpedTo, same, read, copy>>
  BY DEF vars, trackerVars, ringVars, writerVars, historyVars, readerVars
<1>2. Goal' = Goal
  BY <1>1 DEF Goal
<1>3. InvTypes' /\ InvColumns'
  BY <1>1, <1>2 DEF RingInv, InvTypes, TypeOK, InvColumns, Applicable
<1>4. VolumeOnce' /\ InvBars' /\ InvTimes'
  BY <1>1 DEF RingInv, VolumeOnce, InvBars, InvTimes
<1>5. InvSums' /\ InvCounts'
  BY <1>1, <1>2, SumsKept, CountsKept DEF RingInv
<1>6. InvReader'
  BY <1>1 DEF RingInv, InvReader, NewestWindowValid, Valid
<1> QED BY <1>3, <1>4, <1>5, <1>6 DEF RingInv

-----------------------------------------------------------------------------
(* The theorems *)

(* The invariant holds throughout. *)
THEOREM RingInvariant == Spec => []RingInv
<1>1. ASSUME RingInv, [Next]_vars PROVE RingInv'
  <2>1. CASE \E tick \in Ticks : Receive(tick)
    BY <1>1, <2>1, ReceiveNow, ReceiveDue
  <2>2. CASE CloseBucket
    BY <1>1, <2>2, CloseStep
  <2>3. CASE EndAdvance
    BY <1>1, <2>3, EndStep
  <2>4. CASE Reading
    BY <1>1, <2>4, ReadStep
  <2>5. CASE UNCHANGED vars
    BY <1>1, <2>5, StutterStep
  <2> QED BY <1>1, <2>1, <2>2, <2>3, <2>4, <2>5 DEF Next, Reading
<1> QED BY InitInv, <1>1, PTL DEF Spec

(* Tracker, ring and reader keep their types. *)
THEOREM RingTypes == Spec => []TypeOK
<1>1. RingInv => TypeOK
  BY DEF RingInv, InvTypes
<1> QED BY RingInvariant, <1>1, PTL

(* AdvanceTo and the trades that follow it put every trade into the volume *)
(* of one bucket, over every jump.                                         *)
THEOREM TradesCountedOnce == Spec => []VolumeOnce
<1>1. RingInv => VolumeOnce
  BY DEF RingInv
<1> QED BY RingInvariant, <1>1, PTL

(* No bucket of the ring knows of a trade or a quote from after its end,   *)
(* for ticks that are late by any time.                                    *)
THEOREM BucketsAreCausal == Spec => []NoLookahead
<1>1. RingInv => NoLookahead
  <2> SUFFICES ASSUME RingInv, NEW s \in Slots, bars[s].col # NoCol
               PROVE  /\ \A t \in bars[s].vol : tradeAt[t] < openNS + bars[s].col + 1
                      /\ bars[s].quote # NoQuote /\ bars[s].col >= firstValidCol
                           => quoteAt[bars[s].quote] < openNS + bars[s].col + 1
    BY DEF NoLookahead
  <2>1. bars[s].col \in closed /\ bars[s].vol = book[bars[s].col]
    BY DEF RingInv, InvBars
  <2> QED BY <2>1 DEF RingInv, InvTimes
<1> QED BY RingInvariant, <1>1, PTL

(* The ring of prefix sums counts the trades of a baseline exactly, for    *)
(* any number of wrap-arounds and of jumps.                                *)
THEOREM TrailingCountsExact == Spec => []TrailingExact
<1>1. RingInv => TrailingExact
  BY DEF RingInv, InvCounts, TrailingExact, Jumped
<1> QED BY RingInvariant, <1>1, PTL

(* load_window_250ms finds every bar of the newest window in its slot.     *)
THEOREM NewestWindowsValid == Spec => []NewestWindowValid
<1>1. RingInv => NewestWindowValid
  BY DEF RingInv, InvReader
<1> QED BY RingInvariant, <1>1, PTL

(* The seqlock hands out copies of one state of the ring.                  *)
THEOREM WindowsAreWhole == Spec => WindowWhole
<1>1. RingInv /\ [Next]_vars =>
        [read # "done" /\ read' = "done" =>
           \A s \in Slots :
             LET c == Newest(copy.header.last, s)
             IN  /\ copy.bars[s].col = c
                 /\ c # NoCol => copy.bars[s].vol = book[c]]_read
  <2> SUFFICES ASSUME RingInv, [Next]_vars, read # "done", read' = "done", NEW s \in Slots
               PROVE  LET c == Newest(copy.header.last, s)
                      IN  /\ copy.bars[s].col = c
                          /\ c # NoCol => copy.bars[s].vol = book[c]
    OBVIOUS
  <2>1. EndRead
    BY DEF Next, vars, readerVars, Receive, CloseBucket, EndAdvance, BeginRead, CopyHeader,
           CopyBars, TryAgain
  <2>2. same /\ read = "check"
    BY <2>1 DEF EndRead, Stable
  <2>3. pending = Idle /\ copy.header.last = lastClosedCol /\ copy.bars = bars
    BY <2>2 DEF RingInv, InvReader
  <2> QED BY <2>3, NewestInRing
<1> QED BY RingInvariant, <1>1, PTL DEF Spec, WindowWhole
=============================================================================
