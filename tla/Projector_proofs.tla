---------------------------- MODULE Projector_proofs ----------------------------
(***************************************************************************)
(* What the projector promises for any stream, any delays, any number of   *)
(* phases and symbols: bars that hold no tick of another second, frames    *)
(* that are those of a sorted stream, and a count of the ticks that came   *)
(* too late.                                                               *)
(***************************************************************************)
EXTENDS Projector, FiniteSetTheorems, TLAPS

-----------------------------------------------------------------------------
(* The inductive invariant *)

(* Ticks that have arrived and are still to be applied; those the          *)
(* projector is through with; those ahead of it.                           *)
Pending == heap \cup (IF pc = "ingest" THEN {cur} ELSE {})
Done == Arrived \ Pending
Ahead == wire \cup Pending

(* Before and Last, for arrival numbers given: n is seq, or seq'. *)
Earlier(n, a, b) ==
  \/ a.ts < b.ts
  \/ a.ts = b.ts /\ a.kind < b.kind
  \/ a.ts = b.ts /\ a.kind = b.kind /\ a.sym < b.sym
  \/ a.ts = b.ts /\ a.kind = b.kind /\ a.sym = b.sym /\ n[a] < n[b]
IsLast(n, m, S) == IF S = {} THEN m = NoTick
                   ELSE m \in S /\ \A u \in S \ {m} : Earlier(n, u, m)
Quotes(S) == {t \in S : t.kind = Quote}
Trades(S) == {t \in S : t.kind = Trade}

InvTypes == TypeOK /\ frame = [p \in Phases |-> frame[p]]

(* A tick is on the wire, pending or done, and arrivals are numbered.      *)
InvPlace ==
  /\ \A t \in wire : seq[t] = 0
  /\ heap \subseteq Arrived /\ (heap # {} => job.live)
  /\ pc = "ingest" => /\ ~job.live /\ cur \in Arrived /\ job.start <= cur.ts
                      /\ limit = cur.ts /\ Accepts(cur) /\ nextSec > 0
  /\ \A s \in Symbols : seen[s] \subseteq {t \in Done : t.sym = s}
  /\ \A t \in Ticks : seq[t] <= Cardinality(Arrived)
  /\ \A t, u \in Arrived : seq[t] = seq[u] => t = u
  /\ Arrived # {} => \E t \in Arrived : seq[t] = 1

(* The anchors: whole seconds lie on the lattice, no phase is behind them, *)
(* and every active symbol is at the same second.                          *)
InvAnchors ==
  /\ job.start > 0 => nextSec > 0
  /\ nextSec = 0 => /\ Arrived = {} /\ late = 0
                    /\ \A p \in Phases : phaseNext[p] = 0 /\ frame[p] = NoFrame
                    /\ \A s \in Symbols : symNext[s] = 0
  /\ nextSec > 0 =>
       /\ FirstSecond \in Nat /\ Floor(nextSec) = nextSec
       /\ job.start < FirstSecond
       /\ job.start = 0 => Arrived # {}
       /\ job.start > 0 => FirstSecond - Cadence <= job.start
       /\ nextSec = FirstSecond \/ FirstSecond <= nextSec - Cadence
       /\ \A p \in Phases : job.start < phaseNext[p] /\ nextSec - Cadence <= phaseNext[p]
       /\ \A s \in Symbols : symNext[s] = IF s \in job.active THEN nextSec ELSE FirstSecond

(* What has been applied belongs before the next second and before, or on, *)
(* the next anchor of every phase.                                         *)
InvSeen ==
  \A s \in Symbols : \A t \in seen[s] :
    /\ t.ts < nextSec
    /\ \A p \in Phases : t.ts <= phaseNext[p]
    /\ t.kind = Quote => t.px > 0

(* Live: a Flush stays the watermark behind the clock, and a tick on the   *)
(* wire is not overdue.                                                    *)
InvClock ==
  job.live =>
    /\ pc \in {"idle", "flush"} /\ (pc = "flush" => limit > 0)
    /\ limit > 0 => limit + Watermark <= now
    /\ \A t \in wire : now <= t.ts + Jitter[t]
    /\ \A t \in Done : 0 < limit /\ t.ts <= limit

(* Historical: the stream is sorted. *)
InvStream ==
  ~job.live =>
    /\ \A u \in Arrived, t \in wire :
         \/ u.ts < t.ts
         \/ u.ts = t.ts /\ u.kind < t.kind
         \/ u.ts = t.ts /\ u.kind = t.kind /\ u.sym <= t.sym
    /\ Arrived # {} => \E t \in Arrived : \A u \in Arrived : u.ts <= t.ts
    /\ pc \in {"flush", "done"} => wire = {}
    /\ nextSec > 0 =>
         \A t \in Ahead : job.start <= t.ts => FirstSecond - Cadence <= t.ts

(* A punctual symbol: its ticks are applied in their order, and none is    *)
(* left behind by a second that is closed.                                 *)
InOrder(s) ==
  /\ \A u \in Done, t \in Pending : u.sym = s /\ t.sym = s => Earlier(seq, u, t)
  /\ nextSec > 0 /\ nextSec # FirstSecond =>
       \A t \in Ahead : t.sym = s => nextSec - Cadence <= t.ts

(* The ticks applied are those a sorted stream counts; the price of the    *)
(* last quote recorded is that of the last valid one.                      *)
InChain(s) ==
  /\ \A t \in Done : t.sym = s /\ t.kind = Trade => t \in seen[s]
  /\ \A t \in Done \cap Valid(s) : \E m \in Ticks \cup {NoTick} :
       /\ IsLast(seq, m, {u \in Valid(s) : Earlier(seq, u, t)})
       /\ t \in seen[s] <=> m.px # t.px
  /\ \E m \in Ticks \cup {NoTick} : IsLast(seq, m, Valid(s) \cap Done) /\ m.px = quote[s].px
  /\ IsLast(seq, quote[s], Quotes(seen[s])) /\ IsLast(seq, trade[s], Trades(seen[s]))

(* The bar closed last is that of the second before the next. *)
BarClosed(s) ==
  /\ lastBar[s] = IF nextSec = 0 \/ nextSec = FirstSecond THEN {}
                  ELSE {t \in seen[s] : InBar(t, nextSec - Cadence)}
  /\ LET kept == barRing[s][BarSlot(nextSec - Cadence)]
     IN  kept.anchor = nextSec - Cadence => kept.bar = lastBar[s]

InvPunctual ==
  \A s \in Symbols : Punctual(s) => InOrder(s) /\ InChain(s)
                                    /\ (s \in job.active => BarClosed(s))

(* Bars of active symbols hold what has been applied of their second, and  *)
(* each closed bar is in the slot of its anchor.                           *)
InvBars ==
  \A s \in job.active :
    /\ acc[s] = {t \in seen[s] : InBar(t, nextSec)}
    /\ \A k \in 0 .. 3 : LET kept == barRing[s][k]
                         IN  kept.bar # {} =>
         /\ \A t \in kept.bar : t \in seen[s] /\ InBar(t, kept.anchor)
         /\ FirstSecond <= kept.anchor /\ kept.anchor <= nextSec - Cadence
         /\ Floor(kept.anchor) = kept.anchor /\ BarSlot(kept.anchor) = k

(* A row of a committed frame, as a function of what has been applied.     *)
RowAsOf(s, anchor, row) ==
  /\ \A t \in Ahead : t.sym = s => anchor < t.ts
  /\ row = [bar |-> row.bar, quote |-> row.quote, trade |-> row.trade, seen |-> row.seen]
  /\ row.seen = UpTo(seen[s], anchor)
  /\ row.bar = IF Floor(anchor) < FirstSecond THEN {}
               ELSE {t \in seen[s] : InBar(t, Floor(anchor))}
  /\ IsLast(seq, row.quote, Quotes(UpTo(seen[s], anchor)))
  /\ IsLast(seq, row.trade, Trades(UpTo(seen[s], anchor)))

InvFrames ==
  \A p \in Phases : frame[p] # NoFrame =>
    /\ frame[p].anchor \in Nat
    /\ \A s \in Members[p] \cap job.active :
         Punctual(s) => RowAsOf(s, frame[p].anchor, frame[p].rows[s])

IInv == /\ InvTypes /\ InvPlace /\ InvAnchors /\ InvSeen /\ InvClock /\ InvStream
        /\ InvPunctual /\ InvBars /\ LateCounted /\ InvFrames

-----------------------------------------------------------------------------
(* Ticks, anchors, order *)

LEMMA Constants ==
  /\ Cadence \in Nat \ {0} /\ Watermark \in Nat /\ EndNS \in Nat
  /\ IsFiniteSet(Ticks)
  /\ \A t \in Ticks : /\ t.sym \in Symbols /\ t.sym \in Int /\ t.ts \in Nat
                      /\ t.kind \in {Quote, Trade} /\ Jitter[t] \in Nat
  /\ \A j \in Jobs : /\ j.live \in BOOLEAN /\ j.start \in Nat
                     /\ j.active \subseteq Symbols /\ j.ticks \subseteq Ticks
  /\ \A p \in Phases : Offset[p] \in 0 .. Cadence - 1
BY StreamAssumption

(* Division rounds towards minus infinity. *)
LEMMA FloorDivision ==
  ASSUME NEW x \in Int, NEW c \in Nat \ {0}
  PROVE  x \div c \in Int /\ (x \div c) * c <= x /\ x < ((x \div c) * c) + c
BY SMT

LEMMA CancelFactor ==
  ASSUME NEW a \in Int, NEW b \in Int, NEW c \in Nat \ {0}, a * c < b * c
  PROVE  a < b
<1> SUFFICES ASSUME b <= a PROVE FALSE
  OBVIOUS
<1>1. b * c <= a * c
  BY SMT
<1> QED BY <1>1, SMT

LEMMA MultipleQuotient ==
  ASSUME NEW k \in Int, NEW c \in Nat \ {0}
  PROVE  (k * c) \div c = k
<1> DEFINE q == (k * c) \div c
<1>1. k * c \in Int /\ q \in Int /\ q * c <= k * c /\ k * c < q * c + c
  BY FloorDivision, SMT
<1> HIDE DEF q
<1>2. q * c < (k + 1) * c /\ k * c < (q + 1) * c
  BY <1>1, SMT
<1>3. q < k + 1 /\ k < q + 1
  BY <1>1, <1>2, CancelFactor
<1> QED BY <1>1, <1>3 DEF q

(* FirstAfter is the anchor of the lattice in the cadence after ts. *)
LEMMA FirstAfterBounds ==
  ASSUME NEW ts \in Nat, NEW off \in 0 .. Cadence - 1
  PROVE  FirstAfter(ts, off) \in Nat /\ ts < FirstAfter(ts, off)
         /\ FirstAfter(ts, off) <= ts + Cadence
<1> DEFINE a == ((ts - off) \div Cadence) * Cadence + off
<1>1. /\ Cadence \in Nat \ {0} /\ a \in Int /\ a <= ts /\ ts < a + Cadence
  <2>1. Cadence \in Nat \ {0} /\ off \in Int /\ ts - off \in Int
    BY Constants
  <2> DEFINE q == (ts - off) \div Cadence
  <2>2. q \in Int /\ q * Cadence <= ts - off /\ ts - off < q * Cadence + Cadence
    BY <2>1, FloorDivision
  <2> HIDE DEF q
  <2>3. q * Cadence \in Int
    BY <2>1, <2>2, SMT
  <2>4. a = q * Cadence + off
    BY DEF q
  <2> QED BY <2>1, <2>2, <2>3, <2>4
<1>2. FirstAfter(ts, off) = a + Cadence
  BY <1>1 DEF FirstAfter
<1> HIDE DEF a
<1> QED BY <1>1, <1>2

LEMMA FirstSecondOnLattice ==
  ASSUME NEW ts \in Nat
  PROVE  Floor(FirstAfter(ts, 0)) = FirstAfter(ts, 0)
<1> DEFINE q == ts \div Cadence
<1>1. Cadence \in Nat \ {0} /\ q \in Int /\ q * Cadence \in Int
      /\ (ts - 0) \div Cadence = q
  <2>1. Cadence \in Nat \ {0} /\ ts - 0 = ts
    BY Constants
  <2>2. q \in Int
    BY <2>1, FloorDivision
  <2> QED BY <2>1, <2>2, SMT
<1> HIDE DEF q
<1>2. CASE q * Cadence <= ts
  <2>1. FirstAfter(ts, 0) = q * Cadence + Cadence
    BY <1>1, <1>2 DEF FirstAfter
  <2>2. q * Cadence + Cadence = (q + 1) * Cadence /\ q + 1 \in Int
    BY <1>1, SMT
  <2>3. ((q + 1) * Cadence) \div Cadence = q + 1
    BY <1>1, <2>2, MultipleQuotient
  <2> QED BY <2>1, <2>2, <2>3 DEF Floor
<1>3. CASE ~(q * Cadence <= ts)
  <2>1. FirstAfter(ts, 0) = q * Cadence
    BY <1>1, <1>3 DEF FirstAfter
  <2>2. (q * Cadence) \div Cadence = q
    BY <1>1, MultipleQuotient
  <2> QED BY <2>1, <2>2 DEF Floor
<1> QED BY <1>2, <1>3

(* The floor of an anchor; the lattice point after one. *)
LEMMA FloorOf ==
  ASSUME NEW n \in Int, Floor(n) = n, NEW a \in Int, n - Cadence <= a, a < n
  PROVE  Floor(a) = n - Cadence
<1> DEFINE j == n \div Cadence
           k == a \div Cadence
<1>1. /\ Cadence \in Nat \ {0} /\ j \in Int /\ k \in Int
      /\ n = j * Cadence
      /\ k * Cadence <= a /\ a < k * Cadence + Cadence
  BY Constants, FloorDivision DEF Floor
<1>2. Floor(a) = k * Cadence
  BY DEF Floor
<1> HIDE DEF j, k
<1>3. (j - 1) * Cadence < (k + 1) * Cadence /\ k * Cadence < j * Cadence
  BY <1>1, SMT
<1>4. j - 1 < k + 1 /\ k < j
  BY <1>1, <1>3, CancelFactor
<1>5. k = j - 1
  BY <1>1, <1>4
<1> QED BY <1>1, <1>2, <1>5, SMT

LEMMA NextOnLattice ==
  ASSUME NEW n \in Int, Floor(n) = n
  PROVE  Floor(n + Cadence) = n + Cadence
<1> DEFINE j == n \div Cadence
<1>1. Cadence \in Nat \ {0} /\ j \in Int /\ n = j * Cadence
  BY Constants, FloorDivision DEF Floor
<1> HIDE DEF j
<1>2. n + Cadence = (j + 1) * Cadence /\ j + 1 \in Int
  BY <1>1, SMT
<1>3. (n + Cadence) \div Cadence = j + 1
  BY <1>1, <1>2, MultipleQuotient
<1> QED BY <1>2, <1>3 DEF Floor

LEMMA FloorBelow ==
  ASSUME NEW a \in Int
  PROVE  Floor(a) \in Int /\ Floor(a) <= a
<1> DEFINE k == a \div Cadence
<1>1. Cadence \in Nat \ {0} /\ k \in Int /\ k * Cadence <= a
  BY Constants, FloorDivision
<1>2. Floor(a) = k * Cadence
  BY DEF Floor
<1> HIDE DEF k
<1> QED BY <1>1, <1>2, SMT

LEMMA FirstIs ==
  ASSUME NEW S, NEW f, NEW t \in S, f[t] = 1, \A u, v \in S : f[u] = f[v] => u = v
  PROVE  (CHOOSE u \in S : f[u] = 1) = t
<1> DEFINE c == CHOOSE u \in S : f[u] = 1
<1>1. c \in S /\ f[c] = 1
  OBVIOUS
<1> HIDE DEF c
<1> QED BY <1>1 DEF c

LEMMA BeforeIs == \A a, b : Before(a, b) <=> Earlier(seq, a, b)
BY DEF Before, Earlier

(* The last tick of a set is its Last. *)
LEMMA LastIs ==
  ASSUME seq \in [Ticks -> Nat], NEW S \in SUBSET Ticks, NEW m, IsLast(seq, m, S)
  PROVE  Last(S) = m
<1>1. CASE S = {}
  BY <1>1 DEF IsLast, Last
<1>2. CASE S # {}
  <2>1. m \in S /\ \A u \in S \ {m} : Before(u, m)
    BY <1>2, BeforeIs DEF IsLast
  <2> DEFINE c == CHOOSE t \in S : \A u \in S \ {t} : Before(u, t)
  <2>2. c \in S /\ \A u \in S \ {c} : Before(u, c)
    BY <2>1
  <2>3. Last(S) = c
    BY <1>2 DEF Last
  <2> HIDE DEF c
  <2>4. c \in Ticks /\ m \in Ticks
    BY <2>1, <2>2
  <2>5. ~(Before(c, m) /\ Before(m, c))
    BY <2>4, Constants DEF Before, Quote, Trade
  <2> QED BY <2>1, <2>2, <2>3, <2>5
<1> QED BY <1>1, <1>2

-----------------------------------------------------------------------------
(* The initial states *)

LEMMA SeqZero ==
  ASSUME seq = [t \in Ticks |-> 0]
  PROVE  Arrived = {}
BY SMT DEF Arrived

LEMMA InitIInv == Init => IInv
<1> SUFFICES ASSUME Init PROVE IInv
  OBVIOUS
<1>1. /\ job \in Jobs /\ job.start \in Nat /\ job.live \in BOOLEAN
      /\ job.active \subseteq Symbols /\ job.ticks \subseteq Ticks
  BY Constants DEF Init
<1>2. Arrived = {} /\ Pending = {} /\ Done = {}
  BY SeqZero DEF Init, Pending, Done
<1>3. /\ \A p \in Phases : job.start > 0 =>
            phaseNext[p] \in Nat /\ job.start < phaseNext[p]
            /\ phaseNext[p] <= job.start + Cadence
      /\ job.start = 0 => \A p \in Phases : phaseNext[p] = 0
      /\ phaseNext \in [Phases -> Nat]
  <2>1. \A p \in Phases : Offset[p] \in 0 .. Cadence - 1
    BY Constants
  <2>2. \A p \in Phases : FirstAfter(job.start, Offset[p]) \in Nat
        /\ job.start < FirstAfter(job.start, Offset[p])
        /\ FirstAfter(job.start, Offset[p]) <= job.start + Cadence
    BY <1>1, <2>1, FirstAfterBounds
  <2> QED BY <1>1, <2>2 DEF Init, PhaseStarts
<1>4. 0 \in 0 .. Cadence - 1
  BY Constants
<1>5. /\ FirstAfter(job.start, 0) \in Nat /\ job.start < FirstAfter(job.start, 0)
      /\ FirstAfter(job.start, 0) <= job.start + Cadence
      /\ Floor(FirstAfter(job.start, 0)) = FirstAfter(job.start, 0)
  BY <1>1, <1>4, FirstAfterBounds, FirstSecondOnLattice
<1>6. job.start > 0 => nextSec = FirstSecond /\ nextSec = FirstAfter(job.start, 0)
                       /\ nextSec > 0
  BY <1>1, <1>5 DEF Init, FirstSecond
<1>7. InvTypes
  <2>1. Cardinality(Ticks) \in Nat
    BY Constants, FS_CardinalityType
  <2>2. seq \in [Ticks -> 0 .. Cardinality(Ticks)]
    BY <2>1 DEF Init
  <2>3. nextSec \in Nat /\ symNext \in [Symbols -> Nat]
    BY <1>5 DEF Init
  <2>4. barRing \in [Symbols -> [0 .. 3 -> [anchor : Nat, bar : SUBSET Ticks]]]
    BY DEF Init
  <2>5. /\ acc \in [Symbols -> SUBSET Ticks] /\ seen \in [Symbols -> SUBSET Ticks]
        /\ quote \in [Symbols -> Ticks \cup {NoTick}]
        /\ trade \in [Symbols -> Ticks \cup {NoTick}]
        /\ lastBar \in [Symbols -> SUBSET Ticks]
    BY DEF Init
  <2>6. /\ now \in Nat /\ wire \subseteq Ticks /\ heap \subseteq Ticks
        /\ pc \in {"idle", "flush", "ingest", "done"} /\ limit \in Nat
        /\ cur \in Ticks \cup {NoTick} /\ lastWritten \in Nat /\ late \in Nat
        /\ frame = [p \in Phases |-> frame[p]]
    BY <1>1 DEF Init
  <2> QED BY <1>1, <1>3, <2>2, <2>3, <2>4, <2>5, <2>6 DEF InvTypes, TypeOK
<1>8. InvPlace
  <2>1. Cardinality(Arrived) = 0
    BY <1>2, FS_EmptySet
  <2>2. wire \subseteq Ticks /\ \A t \in Ticks : seq[t] = 0
    BY <1>1 DEF Init
  <2>3. heap = {} /\ pc = "idle" /\ \A s \in Symbols : seen[s] = {}
    BY DEF Init
  <2> QED BY <1>2, <2>1, <2>2, <2>3 DEF InvPlace
<1>9. InvAnchors
  <2>1. job.start = 0 => nextSec = 0 /\ late = 0 /\ (\A s \in Symbols : symNext[s] = 0)
                         /\ \A p \in Phases : frame[p] = NoFrame
    BY DEF Init
  <2>2. job.start > 0 => \A s \in Symbols : symNext[s] = nextSec
    BY <1>1 DEF Init
  <2> QED BY <1>1, <1>2, <1>3, <1>5, <1>6, <2>1, <2>2, Constants DEF InvAnchors
<1>10. InvSeen
  BY DEF Init, InvSeen
<1>11. InvClock
  <2>1. job.live => \A t \in wire : now <= t.ts + Jitter[t]
    BY <1>1, StreamAssumption DEF Init
  <2> QED BY <1>2, <2>1 DEF Init, InvClock
<1>12. InvStream
  <2>1. pc = "idle"
    BY DEF Init
  <2>2. ASSUME nextSec > 0, NEW t \in Ahead, job.start <= t.ts
        PROVE  FirstSecond - Cadence <= t.ts
    <3>1. t.ts \in Nat
      BY <1>1, <1>2, Constants DEF Ahead, Init
    <3>2. job.start > 0
      BY <1>1, <2>2 DEF Init
    <3> QED BY <1>1, <1>5, <1>6, <2>2, <3>1, <3>2, Constants
  <2> QED BY <1>2, <2>1, <2>2 DEF InvStream
<1>13. InvPunctual
  <2> SUFFICES ASSUME NEW s \in Symbols
               PROVE  InOrder(s) /\ InChain(s) /\ BarClosed(s)
    BY DEF InvPunctual
  <2>1. seen[s] = {} /\ quote[s] = NoTick /\ trade[s] = NoTick /\ lastBar[s] = {}
    BY DEF Init
  <2>2. InOrder(s)
    BY <1>1, <1>2, <1>5, <1>6 DEF InOrder, Init
  <2>3. InChain(s)
    BY <1>2, <2>1 DEF InChain, IsLast, Quotes, Trades
  <2>4. barRing[s] = [k \in 0 .. 3 |-> [anchor |-> 0, bar |-> {}]]
    BY DEF Init
  <2>5. BarSlot(nextSec - Cadence) \in 0 .. 3
    <3>1. nextSec \in Int /\ Cadence \in Nat \ {0}
      BY <1>7, Constants DEF InvTypes, TypeOK
    <3>2. (nextSec - Cadence) \div Cadence \in Int
      BY <3>1, FloorDivision
    <3> QED BY <3>2 DEF BarSlot
  <2>6. barRing[s][BarSlot(nextSec - Cadence)].bar = {}
    BY <2>4, <2>5
  <2>7. nextSec = 0 \/ nextSec = FirstSecond
    BY <1>1, <1>6 DEF Init
  <2> QED BY <2>1, <2>2, <2>3, <2>6, <2>7 DEF BarClosed
<1>14. InvBars
  <2>1. \A s \in Symbols : acc[s] = {} /\ seen[s] = {}
        /\ \A k \in 0 .. 3 : barRing[s][k].bar = {}
    BY DEF Init
  <2> QED BY <1>1, <2>1 DEF InvBars
<1>15. LateCounted
  <2>1. \A s \in Symbols : seen[s] = {}
    BY DEF Init
  <2>2. late = 0
    BY DEF Init
  <2> DEFINE f(s) == {t \in seen[s] : job.live \/ t.ts >= job.start} \
                       (acc[s] \cup UNION {barRing[s][k].bar : k \in 0 .. 3})
  <2>3. UNION {f(s) : s \in job.active} = {}
    BY <1>1, <2>1
  <2>4. Cardinality({}) = 0
    BY FS_EmptySet
  <2> QED BY <2>2, <2>3, <2>4 DEF LateCounted
<1>16. InvFrames
  BY DEF Init, InvFrames
<1> QED BY <1>7, <1>8, <1>9, <1>10, <1>11, <1>12, <1>13, <1>14, <1>15, <1>16 DEF IInv

-----------------------------------------------------------------------------
(* Steps that finish, or take up, a tick *)

Due(s) == {t \in seen[s] : job.live \/ t.ts >= job.start}
Kept(s) == acc[s] \cup UNION {barRing[s][k].bar : k \in 0 .. 3}
Dropped == UNION {Due(s) \ Kept(s) : s \in job.active}

LEMMA LateIs == LateCounted <=> (RingCovers => late = Cardinality(Dropped))
BY DEF LateCounted, Dropped, Due, Kept

LEMMA LateIsNext == LateCounted' <=> (RingCovers' => late' = Cardinality(Dropped'))
BY DEF LateCounted, Dropped, Due, Kept

(* The ticks of F are finished, after all of their symbol that are, and    *)
(* before all that are still pending.                                      *)
Settles(s, F) ==
  \A u \in Done \cup F, v \in Arrived' \ Done :
    u # v /\ u.sym = s /\ v.sym = s => Earlier(seq', u, v)

(* What finishing a tick does to the state it is applied to. *)
Applied(t) ==
  /\ IF Accepts(t) THEN Record(t) ELSE UNCHANGED historyVars
  /\ IF Accepts(t) /\ (job.live \/ job.start <= t.ts) THEN Apply(t)
                                                      ELSE UNCHANGED <<acc, late>>

TakesUp(F) ==
  /\ nextSec > 0
  /\ Done' = Done \cup F /\ F \subseteq Ahead
  /\ Arrived \subseteq Arrived' /\ (\A u \in Arrived : seq'[u] = seq[u])
  /\ Ahead' \subseteq Ahead /\ Arrived \cup wire \subseteq Arrived' \cup wire'
  /\ \A s \in Symbols : Punctual(s) => Settles(s, F)
  /\ \/ F = {} /\ UNCHANGED <<historyVars, acc, late>>
     \/ \E t \in Ticks : /\ F = {t} /\ Applied(t)
                         /\ Accepts(t) => /\ t.ts < nextSec
                                          /\ \A p \in Phases : t.ts <= phaseNext[p]
  /\ UNCHANGED <<job, nextSec, phaseNext, symNext, barRing, lastBar, frame>>

LEMMA Apart ==
  ASSUME InvTypes, InvPlace
  PROVE  /\ Arrived \subseteq Ticks /\ Pending \subseteq Arrived /\ wire \cap Arrived = {}
         /\ Done \subseteq Arrived /\ Ahead \cap Done = {} /\ Ahead \subseteq Ticks
         /\ \A s \in Symbols : seen[s] \subseteq Done
         /\ \A t \in Ticks : seq[t] \in Nat
<1>1. wire \subseteq Ticks /\ heap \subseteq Ticks /\ \A t \in Ticks : seq[t] \in Nat
  BY Constants, FS_CardinalityType DEF InvTypes, TypeOK
<1>2. Arrived \subseteq Ticks /\ \A t \in wire : seq[t] = 0
  BY DEF InvPlace, Arrived
<1>3. wire \cap Arrived = {}
  BY <1>2 DEF Arrived
<1>4. Pending \subseteq Arrived
  BY DEF InvPlace, Pending
<1>5. \A s \in Symbols : seen[s] \subseteq Done
  BY DEF InvPlace
<1> QED BY <1>1, <1>2, <1>3, <1>4, <1>5 DEF Done, Ahead

LEMMA EarlierIsStrict ==
  ASSUME NEW n, \A t \in Ticks : n[t] \in Nat, NEW a \in Ticks, NEW b \in Ticks
  PROVE  ~(Earlier(n, a, b) /\ Earlier(n, b, a))
BY Constants DEF Earlier, Quote, Trade

LEMMA FirstSecondKept ==
  ASSUME InvTypes, InvPlace, InvAnchors, InvPlace', nextSec > 0, job' = job,
         Arrived \subseteq Arrived', \A u \in Arrived : seq'[u] = seq[u]
  PROVE  FirstSecond' = FirstSecond
<1>0. job.start \in Nat /\ (job.start = 0 => Arrived # {})
  BY Constants DEF InvTypes, TypeOK, InvAnchors
<1>1. CASE job.start > 0
  BY <1>1 DEF FirstSecond
<1>2. CASE ~(job.start > 0) /\ Arrived # {}
  <2>1. PICK t \in Arrived : seq[t] = 1
    BY <1>2 DEF InvPlace
  <2>2. t \in Arrived' /\ seq'[t] = 1
    BY <2>1
  <2>3. \A u, v \in Arrived : seq[u] = seq[v] => u = v
    BY DEF InvPlace
  <2>4. \A u, v \in Arrived' : seq'[u] = seq'[v] => u = v
    BY DEF InvPlace
  <2>5. (CHOOSE u \in Arrived : seq[u] = 1) = t
    BY <2>1, <2>3, FirstIs
  <2>6. (CHOOSE u \in Arrived' : seq'[u] = 1) = t
    BY <2>2, <2>4, FirstIs
  <2>7. FirstSecond = FirstAfter(t.ts, 0)
    BY <1>2, <2>5, Zenon DEF FirstSecond
  <2>8. ~(job.start > 0)'
    BY <1>2
  <2>9. FirstSecond' = FirstAfter((CHOOSE u \in Arrived' : seq'[u] = 1).ts, 0)
    BY <2>8, Zenon DEF FirstSecond
  <2> QED BY <2>6, <2>7, <2>9, Zenon
<1> QED BY <1>0, <1>1, <1>2

(* What is known of the order of the ticks that are done stays known. *)
LEMMA OrderKept ==
  ASSUME InvTypes, InvPlace, InvTypes', InvPlace', NEW s \in Symbols, NEW F,
         Settles(s, F),
         Arrived \subseteq Arrived', \A u \in Arrived : seq'[u] = seq[u]
  PROVE  /\ \A u, v \in Arrived : Earlier(seq', u, v) <=> Earlier(seq, u, v)
         /\ \A m : \A S \in SUBSET Arrived : IsLast(seq, m, S) => IsLast(seq', m, S)
         /\ \A u \in Done : u.sym = s =>
              {v \in Valid(s)' : Earlier(seq', v, u)} = {v \in Valid(s) : Earlier(seq, v, u)}
         /\ Valid(s)' \cap Done = Valid(s) \cap Done
<1>1. \A u, v \in Arrived : Earlier(seq', u, v) <=> Earlier(seq, u, v)
  BY DEF Earlier
<1>2. \A m : \A S \in SUBSET Arrived : IsLast(seq, m, S) => IsLast(seq', m, S)
  BY <1>1 DEF IsLast
<1>3. /\ Arrived \subseteq Ticks /\ Arrived' \subseteq Ticks /\ Done \subseteq Arrived
      /\ \A t \in Ticks : seq'[t] \in Nat
  <2>1. \A t \in Ticks : seq'[t] \in Nat
    BY Constants, FS_CardinalityType DEF InvTypes, TypeOK
  <2> QED BY <2>1, Apart DEF Arrived
<1>4. ASSUME NEW u \in Done, u.sym = s
      PROVE  {v \in Valid(s)' : Earlier(seq', v, u)} = {v \in Valid(s) : Earlier(seq, v, u)}
  <2>1. ASSUME NEW v \in Arrived', v.sym = s, v \notin Arrived
        PROVE  ~Earlier(seq', v, u)
    <3>1. Earlier(seq', u, v)
      BY <1>3, <1>4, <2>1 DEF Settles
    <3>2. u \in Ticks /\ v \in Ticks
      BY <1>3
    <3> QED BY <1>3, <3>1, <3>2, EarlierIsStrict
  <2>2. \A v \in Arrived : Earlier(seq', v, u) <=> Earlier(seq, v, u)
    BY <1>1, <1>3
  <2> QED BY <2>1, <2>2 DEF Valid
<1>5. Valid(s)' \cap Done = Valid(s) \cap Done
  BY <1>3 DEF Valid
<1> QED BY <1>1, <1>2, <1>4, <1>5

LEMMA ChainKept ==
  ASSUME IInv, InvTypes', InvPlace', NEW F, TakesUp(F), NEW s \in Symbols, Punctual(s)
  PROVE  InChain(s)'
<1>1. InvTypes /\ InvPlace /\ InvSeen /\ InChain(s)
  BY DEF IInv, InvPunctual
<1>2. /\ Settles(s, F) /\ F \subseteq Ahead /\ Done' = Done \cup F
      /\ Arrived \subseteq Arrived' /\ \A u \in Arrived : seq'[u] = seq[u]
  BY DEF TakesUp
<1>3. /\ \A m : \A S \in SUBSET Arrived : IsLast(seq, m, S) => IsLast(seq', m, S)
      /\ \A u \in Done : u.sym = s =>
           {v \in Valid(s)' : Earlier(seq', v, u)} = {v \in Valid(s) : Earlier(seq, v, u)}
      /\ Valid(s)' \cap Done = Valid(s) \cap Done
  BY <1>1, <1>2, OrderKept
<1>4. /\ Arrived \subseteq Ticks /\ Arrived' \subseteq Ticks /\ Done \subseteq Arrived
      /\ Done' \subseteq Arrived' /\ Ahead \cap Done = {} /\ F \subseteq Arrived'
      /\ (\A t \in Ticks : seq'[t] \in Nat) /\ seen[s] \subseteq Done
      /\ \A t \in seen[s] : t.sym = s
  <2>1. \A t \in Ticks : seq'[t] \in Nat
    BY Constants, FS_CardinalityType DEF InvTypes, TypeOK
  <2>2. Done' \subseteq Arrived'
    BY DEF Done
  <2>3. \A t \in seen[s] : t.sym = s
    BY <1>1 DEF InvPlace
  <2> QED BY <1>1, <1>2, <2>1, <2>2, <2>3, Apart DEF Arrived
<1> DEFINE Prices(n, V, D, S) ==
             \A t \in D \cap V : \E m \in Ticks \cup {NoTick} :
               /\ IsLast(n, m, {u \in V : Earlier(n, u, t)})
               /\ t \in S <=> m.px # t.px
           Newest(n, V, D, px) ==
             \E m \in Ticks \cup {NoTick} : IsLast(n, m, V \cap D) /\ m.px = px
<1>5. /\ \A t \in Done : t.sym = s /\ t.kind = Trade => t \in seen[s]
      /\ Prices(seq, Valid(s), Done, seen[s])
      /\ Newest(seq, Valid(s), Done, quote[s].px)
      /\ IsLast(seq, quote[s], Quotes(seen[s])) /\ IsLast(seq, trade[s], Trades(seen[s]))
  BY <1>1 DEF InChain
<1>6. SUFFICES
        /\ \A t \in Done' : t.sym = s /\ t.kind = Trade => t \in seen'[s]
        /\ Prices(seq', Valid(s)', Done', seen'[s])
        /\ Newest(seq', Valid(s)', Done', quote'[s].px)
        /\ IsLast(seq', quote'[s], Quotes(seen'[s]))
        /\ IsLast(seq', trade'[s], Trades(seen'[s]))
  BY Zenon DEF InChain, Quotes, Trades
<1>7. Prices(seq', Valid(s)', Done, seen[s])
  <2>1. \A u \in Done \cap Valid(s) : u.sym = s
    BY DEF Valid
  <2>2. \A u : {v \in Valid(s) : Earlier(seq, v, u)} \in SUBSET Arrived
    BY DEF Valid
  <2> QED BY <1>3, <1>5, <2>1, <2>2
<1>8. Newest(seq', Valid(s)', Done, quote[s].px)
  <2>1. Valid(s) \cap Done \in SUBSET Arrived
    BY DEF Valid
  <2> QED BY <1>3, <1>5, <2>1
<1>9. IsLast(seq', quote[s], Quotes(seen[s])) /\ IsLast(seq', trade[s], Trades(seen[s]))
  <2>1. Quotes(seen[s]) \in SUBSET Arrived /\ Trades(seen[s]) \in SUBSET Arrived
    BY <1>4 DEF Quotes, Trades
  <2> QED BY <1>3, <1>5, <2>1
<1>10. CASE \/ F = {} /\ UNCHANGED historyVars
            \/ \E t \in Ticks : F = {t} /\ Applied(t) /\ t.sym # s
  <2>1. seen'[s] = seen[s] /\ quote'[s] = quote[s] /\ trade'[s] = trade[s]
    <3>1. CASE UNCHANGED historyVars
      BY <3>1 DEF historyVars
    <3>2. ASSUME NEW t \in Ticks, Record(t), t.sym # s
          PROVE  seen'[s] = seen[s] /\ quote'[s] = quote[s] /\ trade'[s] = trade[s]
      BY <1>1, <3>2 DEF Record, InvTypes, TypeOK
    <3> QED BY <1>10, <3>1, <3>2 DEF Applied
  <2>2. \A u \in Done' : u.sym = s => u \in Done
    BY <1>2, <1>10
  <2>3. Valid(s)' \cap Done' = Valid(s)' \cap Done /\ Done' \cap Valid(s)' = Done \cap Valid(s)'
    BY <1>2, <2>2 DEF Valid
  <2>4. \A t \in Done' : t.sym = s /\ t.kind = Trade => t \in seen'[s]
    BY <1>5, <2>1, <2>2
  <2>5. Prices(seq', Valid(s)', Done', seen'[s])
    BY <1>7, <2>1, <2>3
  <2>6. Newest(seq', Valid(s)', Done', quote'[s].px)
    BY <1>8, <2>1, <2>3
  <2> HIDE DEF Prices, Newest
  <2> QED BY <1>9, <2>1, <2>4, <2>5, <2>6
<1>11. ASSUME NEW t \in Ticks, F = {t}, Applied(t), t.sym = s
       PROVE  /\ \A u \in Done' : u.sym = s /\ u.kind = Trade => u \in seen'[s]
              /\ Prices(seq', Valid(s)', Done', seen'[s])
              /\ Newest(seq', Valid(s)', Done', quote'[s].px)
              /\ IsLast(seq', quote'[s], Quotes(seen'[s]))
              /\ IsLast(seq', trade'[s], Trades(seen'[s]))
  <2>1. t \in Arrived' /\ t \notin Done /\ t \notin seen[s] /\ Done' = Done \cup {t}
    BY <1>2, <1>4, <1>11
  <2>2. ASSUME NEW v \in Done, v.sym = s
        PROVE  Earlier(seq', v, t) /\ ~Earlier(seq', t, v)
    <3>1. Earlier(seq', v, t)
      BY <1>2, <1>11, <2>1, <2>2 DEF Settles
    <3> QED BY <1>4, <3>1, EarlierIsStrict
  <2>3. ASSUME NEW v \in Arrived', v.sym = s, v \notin Done
        PROVE  ~Earlier(seq', v, t)
    <3>1. CASE v = t
      BY <1>4, <3>1, EarlierIsStrict
    <3>2. CASE v # t
      <4>1. Earlier(seq', t, v)
        BY <1>2, <1>11, <2>3, <3>2 DEF Settles
      <4> QED BY <1>4, <4>1, EarlierIsStrict
    <3> QED BY <3>1, <3>2
  <2>4. {v \in Valid(s)' : Earlier(seq', v, t)} = Valid(s)' \cap Done
    <3>1. \A v \in Valid(s)' : v \in Arrived' /\ v.sym = s
      BY DEF Valid
    <3> QED BY <2>2, <2>3, <3>1
  <2>5. PICK m \in Ticks \cup {NoTick} :
          IsLast(seq', m, Valid(s)' \cap Done) /\ m.px = quote[s].px
    BY <1>8
  <2>6. t \in Valid(s)' <=> t.kind = Quote /\ t.px > 0
    BY <1>11, <2>1 DEF Valid
  <2>7. Accepts(t) <=> (t.kind = Quote => t.px > 0 /\ m.px # t.px)
    BY <1>11, <2>5 DEF Accepts
  <2>8. /\ seen'[s] = IF Accepts(t) THEN seen[s] \cup {t} ELSE seen[s]
        /\ quote'[s] = IF Accepts(t) /\ t.kind = Quote THEN t ELSE quote[s]
        /\ trade'[s] = IF Accepts(t) /\ t.kind = Trade THEN t ELSE trade[s]
    <3>1. CASE Accepts(t)
      <4>1. Record(t)
        BY <1>11, <3>1 DEF Applied
      <4> QED BY <1>1, <1>11, <3>1, <4>1 DEF Record, InvTypes, TypeOK
    <3>2. CASE ~Accepts(t)
      BY <1>11, <3>2 DEF Applied, historyVars
    <3> QED BY <3>1, <3>2
  <2>9. \A u \in Done' : u.sym = s /\ u.kind = Trade => u \in seen'[s]
    <3>1. t.kind = Trade => Accepts(t)
      BY DEF Accepts, Quote, Trade
    <3> QED BY <1>5, <2>1, <2>8, <3>1
  <2>10. Prices(seq', Valid(s)', Done', seen'[s])
    <3> SUFFICES ASSUME NEW u \in Done' \cap Valid(s)'
                 PROVE  \E k \in Ticks \cup {NoTick} :
                          /\ IsLast(seq', k, {v \in Valid(s)' : Earlier(seq', v, u)})
                          /\ u \in seen'[s] <=> k.px # u.px
      OBVIOUS
    <3>1. CASE u = t
      <4>1. t \in seen'[s] <=> m.px # t.px
        BY <2>1, <2>6, <2>7, <2>8, <3>1
      <4> QED BY <2>4, <2>5, <3>1, <4>1
    <3>2. CASE u # t
      <4>1. u \in Done /\ (u \in seen'[s] <=> u \in seen[s])
        BY <2>1, <2>8, <3>2
      <4> QED BY <1>7, <4>1
    <3> QED BY <3>1, <3>2
  <2>11. Newest(seq', Valid(s)', Done', quote'[s].px)
    <3>1. CASE t \in Valid(s)'
      <4>1. IsLast(seq', t, Valid(s)' \cap Done')
        <5>1. \A v \in (Valid(s)' \cap Done') \ {t} : v \in Done /\ v.sym = s
          BY <2>1 DEF Valid
        <5>2. t \in Valid(s)' \cap Done'
          BY <2>1, <3>1
        <5> QED BY <2>2, <5>1, <5>2 DEF IsLast
      <4>2. t.px = quote'[s].px
        BY <2>5, <2>6, <2>7, <2>8, <3>1
      <4> QED BY <4>1, <4>2
    <3>2. CASE t \notin Valid(s)'
      <4>1. Valid(s)' \cap Done' = Valid(s)' \cap Done
        BY <2>1, <3>2
      <4>2. quote'[s] = quote[s]
        BY <2>6, <2>7, <2>8, <3>2
      <4> QED BY <1>8, <4>1, <4>2
    <3> QED BY <3>1, <3>2
  <2>12. ASSUME NEW S \in SUBSET seen[s]
         PROVE  IsLast(seq', t, S \cup {t})
    <3>1. \A v \in S : v \in Done /\ v.sym = s
      BY <1>4, <2>12
    <3> QED BY <2>2, <3>1 DEF IsLast
  <2>13. IsLast(seq', quote'[s], Quotes(seen'[s]))
    <3>1. CASE Accepts(t) /\ t.kind = Quote
      <4>1. Quotes(seen'[s]) = Quotes(seen[s]) \cup {t} /\ Quotes(seen[s]) \in SUBSET seen[s]
        BY <2>8, <3>1 DEF Quotes
      <4> QED BY <2>8, <2>12, <3>1, <4>1
    <3>2. CASE ~(Accepts(t) /\ t.kind = Quote)
      <4>1. Quotes(seen'[s]) = Quotes(seen[s])
        BY <2>8, <3>2 DEF Quotes
      <4> QED BY <1>9, <2>8, <3>2, <4>1
    <3> QED BY <3>1, <3>2
  <2>14. IsLast(seq', trade'[s], Trades(seen'[s]))
    <3>1. CASE Accepts(t) /\ t.kind = Trade
      <4>1. Trades(seen'[s]) = Trades(seen[s]) \cup {t} /\ Trades(seen[s]) \in SUBSET seen[s]
        BY <2>8, <3>1 DEF Trades
      <4> QED BY <2>8, <2>12, <3>1, <4>1
    <3>2. CASE ~(Accepts(t) /\ t.kind = Trade)
      <4>1. Trades(seen'[s]) = Trades(seen[s])
        BY <2>8, <3>2 DEF Trades
      <4> QED BY <1>9, <2>8, <3>2, <4>1
    <3> QED BY <3>1, <3>2
  <2> HIDE DEF Prices, Newest
  <2> QED BY <2>9, <2>10, <2>11, <2>13, <2>14
<1> HIDE DEF Prices, Newest
<1> QED BY <1>10, <1>11 DEF TakesUp

LEMMA PunctualBefore ==
  ASSUME job' = job, Arrived \cup wire \subseteq Arrived' \cup wire', NEW s \in Symbols,
         Punctual(s)'
  PROVE  Punctual(s)
BY DEF Punctual

(* Ticks of symbols that are not projected never miss their bar. *)
LEMMA OthersNeverLate ==
  ASSUME IInv, nextSec > 0, NEW t \in Ahead, job.live \/ job.start <= t.ts,
         t.sym \notin job.active
  PROVE  ~IsLate(t)
<1>1. InvTypes /\ InvPlace /\ InvAnchors /\ InvStream
  BY DEF IInv
<1>2. t \in Ticks /\ t.sym \in Symbols /\ t.ts \in Nat
  BY <1>1, Apart, Constants
<1>3. ~job.live
  BY <1>1, <1>2, StreamAssumption DEF InvTypes, TypeOK
<1>4. symNext[t.sym] = FirstSecond /\ FirstSecond \in Nat /\ FirstSecond - Cadence <= t.ts
  BY <1>1, <1>2, <1>3 DEF InvAnchors, InvStream
<1> QED BY <1>2, <1>4, Constants DEF IsLate

(* Which bar a tick goes into when it is applied. *)
LEMMA AppliedToBar ==
  ASSUME IInv, nextSec > 0, NEW t \in Ahead, Applied(t),
         Accepts(t) => t.ts < nextSec
  PROVE  \A s \in job.active :
           /\ acc'[s] = acc[s] \cup {u \in {t} : Accepts(t) /\ t.sym = s /\ InBar(t, nextSec)}
           /\ seen'[s] = seen[s] \cup {u \in {t} : Accepts(t) /\ t.sym = s}
<1>1. InvTypes /\ InvPlace /\ InvAnchors
  BY DEF IInv
<1>2. t \in Ticks /\ t.sym \in Symbols /\ t.ts \in Nat
  BY <1>1, Apart, Constants
<1>3. /\ acc \in [Symbols -> SUBSET Ticks] /\ seen \in [Symbols -> SUBSET Ticks]
      /\ nextSec \in Nat /\ Cadence \in Nat \ {0} /\ job.active \subseteq Symbols
      /\ job.start \in Nat
  BY <1>1, Constants DEF InvTypes, TypeOK
<1> SUFFICES ASSUME NEW s \in job.active
             PROVE
               /\ acc'[s] = acc[s] \cup {u \in {t} : Accepts(t) /\ t.sym = s /\ InBar(t, nextSec)}
               /\ seen'[s] = seen[s] \cup {u \in {t} : Accepts(t) /\ t.sym = s}
  OBVIOUS
<1>4. CASE ~Accepts(t)
  BY <1>4 DEF Applied, historyVars
<1>5. CASE Accepts(t)
  <2>1. Record(t) /\ t.ts < nextSec
    BY <1>5 DEF Applied
  <2>2. seen'[s] = seen[s] \cup {u \in {t} : Accepts(t) /\ t.sym = s}
    BY <1>2, <1>3, <1>5, <2>1 DEF Record
  <2>3. CASE ~(job.live \/ job.start <= t.ts)
    BY <1>5, <2>2, <2>3 DEF Applied, InBar
  <2>4. CASE job.live \/ job.start <= t.ts
    <3>1. Apply(t)
      BY <1>5, <2>4 DEF Applied
    <3>2. CASE t.sym # s
      BY <1>2, <1>3, <2>2, <3>1, <3>2 DEF Apply
    <3>3. CASE t.sym = s
      <4>1. symNext[s] = nextSec
        BY <1>1, <1>3 DEF InvAnchors
      <4>2. IsLate(t) <=> t.ts < nextSec - Cadence
        BY <1>3, <3>3, <4>1 DEF IsLate
      <4>3. InBar(t, nextSec) <=> ~IsLate(t)
        BY <1>2, <1>3, <2>1, <2>4, <4>2 DEF InBar
      <4> QED BY <1>2, <1>3, <1>5, <2>2, <3>1, <3>3, <4>3 DEF Apply
    <3> QED BY <3>2, <3>3
  <2> QED BY <2>3, <2>4
<1> QED BY <1>4, <1>5

LEMMA TakesUpBars ==
  ASSUME IInv, NEW F, TakesUp(F), FirstSecond' = FirstSecond
  PROVE  InvBars'
<1>1. InvTypes /\ InvBars /\ InvPlace
  BY DEF IInv
<1>2. UNCHANGED <<job, nextSec, barRing>>
  BY DEF TakesUp
<1> SUFFICES ASSUME NEW s \in job.active
             PROVE
               /\ acc'[s] = {t \in seen'[s] : InBar(t, nextSec)}
               /\ \A k \in 0 .. 3 : LET kept == barRing[s][k]
                                    IN  kept.bar # {} =>
                    /\ \A t \in kept.bar : t \in seen'[s] /\ InBar(t, kept.anchor)
                    /\ FirstSecond <= kept.anchor /\ kept.anchor <= nextSec - Cadence
                    /\ Floor(kept.anchor) = kept.anchor /\ BarSlot(kept.anchor) = k
  BY <1>2 DEF InvBars, InBar
<1>3. acc'[s] = {t \in seen'[s] : InBar(t, nextSec)} /\ seen[s] \subseteq seen'[s]
  <2>1. acc[s] = {t \in seen[s] : InBar(t, nextSec)}
    BY <1>1 DEF InvBars
  <2>2. CASE UNCHANGED <<historyVars, acc, late>>
    BY <2>1, <2>2 DEF historyVars
  <2>3. ASSUME NEW t \in Ahead, Applied(t), Accepts(t) => t.ts < nextSec
        PROVE  acc'[s] = {u \in seen'[s] : InBar(u, nextSec)} /\ seen[s] \subseteq seen'[s]
    <3>1. /\ acc'[s] = acc[s] \cup {u \in {t} : Accepts(t) /\ t.sym = s /\ InBar(t, nextSec)}
          /\ seen'[s] = seen[s] \cup {u \in {t} : Accepts(t) /\ t.sym = s}
      BY <2>3, AppliedToBar DEF TakesUp
    <3> QED BY <2>1, <3>1
  <2> QED BY <2>2, <2>3 DEF TakesUp
<1> QED BY <1>1, <1>3 DEF InvBars

LEMMA TakesUpLate ==
  ASSUME IInv, NEW F, TakesUp(F), FirstSecond' = FirstSecond
  PROVE  LateCounted'
<1>1. InvTypes /\ InvBars /\ InvPlace /\ InvAnchors /\ (RingCovers => late = Cardinality(Dropped))
  BY LateIs DEF IInv
<1>2. UNCHANGED <<job, nextSec, barRing>>
  BY DEF TakesUp
<1>3. LateCounted' <=> (RingCovers' => late' = Cardinality(Dropped'))
  BY LateIsNext
<1>4. RingCovers' <=> RingCovers
  BY <1>2 DEF RingCovers
<1>5. SUFFICES ASSUME RingCovers PROVE late' = Cardinality(Dropped')
  BY <1>3, <1>4
<1>6. CASE UNCHANGED <<historyVars, acc, late>>
  <2>1. seen' = seen /\ acc' = acc /\ late' = late
    BY <1>6 DEF historyVars
  <2>2. Dropped' = Dropped
    BY <1>2, <2>1 DEF Dropped, Due, Kept
  <2> QED BY <1>1, <1>5, <2>1, <2>2
<1>7. ASSUME NEW t \in Ahead, Applied(t), Accepts(t) => t.ts < nextSec
      PROVE  late' = Cardinality(Dropped')
  <2>1. t \in Ticks /\ t.sym \in Symbols /\ \A s \in Symbols : t \notin seen[s]
    BY <1>1, Apart, Constants
  <2>2. nextSec > 0 /\ nextSec \in Nat /\ job.active \subseteq Symbols /\ late \in Nat
        /\ job.start \in Nat
    BY <1>1, Constants DEF TakesUp, InvTypes, TypeOK
  <2>3. \A s \in job.active : Kept(s) \subseteq seen[s]
    BY <1>1 DEF Kept, InvBars
  <2>4. \A s \in job.active :
          /\ acc'[s] = acc[s] \cup {u \in {t} : Accepts(t) /\ t.sym = s /\ InBar(t, nextSec)}
          /\ seen'[s] = seen[s] \cup {u \in {t} : Accepts(t) /\ t.sym = s}
    BY <1>7, <2>2, AppliedToBar
  <2> DEFINE Drops == Accepts(t) /\ t.sym \in job.active /\ (job.live \/ t.ts >= job.start)
                      /\ ~InBar(t, nextSec)
  <2>5. ASSUME NEW s \in job.active
        PROVE  Due(s)' \ Kept(s)' = (Due(s) \ Kept(s)) \cup {u \in {t} : Drops /\ t.sym = s}
    <3>1. Kept(s)' = Kept(s) \cup {u \in {t} : Accepts(t) /\ t.sym = s /\ InBar(t, nextSec)}
      BY <1>2, <2>4 DEF Kept
    <3>2. Due(s)' = Due(s) \cup {u \in {t} : Accepts(t) /\ t.sym = s
                                             /\ (job.live \/ t.ts >= job.start)}
      BY <1>2, <2>4 DEF Due
    <3>3. t \notin Due(s) /\ t \notin Kept(s)
      BY <2>1, <2>2, <2>3 DEF Due
    <3>4. InBar(t, nextSec) => job.live \/ t.ts >= job.start
      BY <2>1, <2>2, Constants DEF InBar
    <3> QED BY <3>1, <3>2, <3>3, <3>4
  <2>6. Dropped' = Dropped \cup {u \in {t} : Drops}
    <3>1. Dropped' = UNION {Due(s)' \ Kept(s)' : s \in job.active}
      BY <1>2 DEF Dropped
    <3>2. Dropped = UNION {Due(s) \ Kept(s) : s \in job.active}
      BY DEF Dropped
    <3>3. Drops => t.sym \in job.active
      OBVIOUS
    <3> HIDE DEF Drops
    <3>4. \A x : x \in Dropped' <=> \E s \in job.active : x \in Due(s)' \ Kept(s)'
      BY <3>1
    <3>5. \A x : x \in Dropped <=> \E s \in job.active : x \in Due(s) \ Kept(s)
      BY <3>2
    <3>6. \A x : x \in Dropped' <=> x \in Dropped \/ (x = t /\ Drops)
      BY <2>5, <3>3, <3>4, <3>5
    <3> QED BY <3>6
  <2>7. late' = IF Drops THEN late + 1 ELSE late
    <3>1. CASE ~(Accepts(t) /\ (job.live \/ t.ts >= job.start))
      <4>1. ~(Accepts(t) /\ (job.live \/ job.start <= t.ts)) /\ ~Drops
        BY <2>1, <2>2, <3>1, Constants
      <4> QED BY <1>7, <4>1 DEF Applied
    <3>2. CASE Accepts(t) /\ (job.live \/ t.ts >= job.start)
      <4>1. job.live \/ job.start <= t.ts
        BY <2>1, <2>2, <3>2, Constants
      <4>2. late' = IF IsLate(t) THEN late + 1 ELSE late
        BY <1>7, <3>2, <4>1 DEF Applied, Apply
      <4>3. CASE t.sym \notin job.active
        BY <1>7, <2>2, <4>1, <4>2, <4>3, OthersNeverLate
      <4>4. CASE t.sym \in job.active
        <5>1. symNext[t.sym] = nextSec /\ t.ts < nextSec /\ t.ts \in Nat /\ Cadence \in Nat
          BY <1>1, <1>7, <2>1, <2>2, <3>2, <4>4, Constants DEF InvAnchors
        <5>2. IsLate(t) <=> ~InBar(t, nextSec)
          BY <2>2, <4>1, <5>1 DEF IsLate, InBar
        <5> QED BY <3>2, <4>2, <4>4, <5>2
      <4> QED BY <4>3, <4>4
    <3> QED BY <3>1, <3>2
  <2>8. \A s \in Symbols : seen[s] \subseteq Ticks
    BY <1>1 DEF InvTypes, TypeOK
  <2>9. Dropped \subseteq Ticks /\ t \notin Dropped
    BY <2>1, <2>2, <2>8 DEF Dropped, Due
  <2>10. IsFiniteSet(Dropped)
    BY <2>9, Constants, FS_Subset
  <2>11. Cardinality(Dropped \cup {t}) = Cardinality(Dropped) + 1
    BY <2>9, <2>10, FS_AddElement
  <2>12. late = Cardinality(Dropped)
    BY <1>1, <1>5
  <2>13. CASE Drops
    <3>1. Dropped' = Dropped \cup {t}
      BY <2>6, <2>13
    <3> QED BY <2>7, <2>11, <2>12, <2>13, <3>1
  <2>14. CASE ~Drops
    <3>1. Dropped' = Dropped
      BY <2>6, <2>14
    <3> QED BY <2>7, <2>12, <2>14, <3>1
  <2> QED BY <2>13, <2>14
<1> QED BY <1>6, <1>7 DEF TakesUp

LEMMA TakesUpPunctual ==
  ASSUME IInv, InvTypes', InvPlace', NEW F, TakesUp(F), FirstSecond' = FirstSecond
  PROVE  InvPunctual'
<1>1. InvTypes /\ InvPlace /\ InvAnchors /\ InvPunctual
  BY DEF IInv
<1>2. /\ UNCHANGED <<job, nextSec, barRing, lastBar>> /\ nextSec > 0
      /\ Ahead' \subseteq Ahead /\ F \subseteq Ahead /\ Done' = Done \cup F
      /\ Arrived \cup wire \subseteq Arrived' \cup wire'
  BY DEF TakesUp
<1>3. nextSec \in Nat /\ Cadence \in Nat \ {0} /\ job.active \subseteq Symbols
  BY <1>1, Constants DEF InvTypes, TypeOK
<1> SUFFICES ASSUME NEW s \in Symbols, Punctual(s)'
             PROVE  InOrder(s)' /\ InChain(s)' /\ (s \in job.active => BarClosed(s)')
  BY <1>2 DEF InvPunctual
<1>4. Punctual(s)
  BY <1>2, PunctualBefore
<1>5. InOrder(s) /\ (s \in job.active => BarClosed(s)) /\ Settles(s, F)
  BY <1>1, <1>4 DEF InvPunctual, TakesUp
<1>6. InOrder(s)'
  <2>1. ASSUME NEW u \in Done', NEW t \in Pending', u.sym = s, t.sym = s
        PROVE  Earlier(seq', u, t)
    <3>1. t \in Arrived' /\ t \notin Done'
      BY <2>1 DEF Done, Pending, InvPlace
    <3> QED BY <1>2, <1>5, <2>1, <3>1 DEF Settles
  <2>2. nextSec # FirstSecond => \A t \in Ahead : t.sym = s => nextSec - Cadence <= t.ts
    BY <1>2, <1>5 DEF InOrder
  <2>3. nextSec # FirstSecond => \A t \in Ahead' : t.sym = s => nextSec - Cadence <= t.ts
    BY <1>2, <2>2
  <2>4. nextSec' = nextSec
    BY <1>2
  <2> QED BY <2>1, <2>3, <2>4 DEF InOrder
<1>7. ASSUME s \in job.active
      PROVE  BarClosed(s)'
  <2>1. seen'[s] = seen[s] \/ \E t \in Ahead : t.sym = s /\ seen'[s] = seen[s] \cup {t}
    <3>1. CASE UNCHANGED historyVars
      BY <3>1 DEF historyVars
    <3>2. ASSUME NEW t \in Ahead, Applied(t), Accepts(t) => t.ts < nextSec
          PROVE  seen'[s] = seen[s] \/ (t.sym = s /\ seen'[s] = seen[s] \cup {t})
      <4>1. seen'[s] = seen[s] \cup {u \in {t} : Accepts(t) /\ t.sym = s}
        BY <1>2, <1>7, <3>2, AppliedToBar
      <4> QED BY <4>1
    <3>3. F \subseteq Ahead
      BY <1>2
    <3>4. \/ UNCHANGED historyVars
          \/ \E t \in F : Applied(t) /\ (Accepts(t) => t.ts < nextSec)
      BY DEF TakesUp
    <3> QED BY <3>1, <3>2, <3>3, <3>4
  <2>2. nextSec # FirstSecond =>
          {t \in seen'[s] : InBar(t, nextSec - Cadence)}
            = {t \in seen[s] : InBar(t, nextSec - Cadence)}
    <3> SUFFICES ASSUME nextSec # FirstSecond, NEW t \in Ahead, t.sym = s
                 PROVE  ~InBar(t, nextSec - Cadence)
      BY <2>1
    <3>1. nextSec - Cadence <= t.ts
      BY <1>2, <1>5 DEF InOrder
    <3>2. t.ts \in Nat
      BY <1>1, Apart, Constants
    <3> QED BY <1>3, <3>1, <3>2 DEF InBar
  <2>3. BarClosed(s)
    BY <1>5, <1>7
  <2> DEFINE new == {t \in seen'[s] : InBar(t, nextSec - Cadence)}
  <2>4. BarClosed(s)' <=>
          /\ lastBar[s] = IF nextSec = 0 \/ nextSec = FirstSecond THEN {} ELSE new
          /\ LET kept == barRing[s][BarSlot(nextSec - Cadence)]
             IN  kept.anchor = nextSec - Cadence => kept.bar = lastBar[s]
    BY <1>2 DEF BarClosed, InBar
  <2> HIDE DEF new
  <2>5. nextSec # FirstSecond => new = {t \in seen[s] : InBar(t, nextSec - Cadence)}
    BY <2>2 DEF new
  <2> QED BY <2>3, <2>4, <2>5 DEF BarClosed
<1> QED BY <1>1, <1>4, <1>6, <1>7, ChainKept

LEMMA TakesUpFrames ==
  ASSUME IInv, InvTypes', InvPlace', NEW F, TakesUp(F), FirstSecond' = FirstSecond
  PROVE  InvFrames'
<1>1. InvTypes /\ InvPlace /\ InvFrames
  BY DEF IInv
<1>2. /\ UNCHANGED <<job, frame>> /\ Ahead' \subseteq Ahead
      /\ Arrived \subseteq Arrived' /\ (\A u \in Arrived : seq'[u] = seq[u])
      /\ Arrived \cup wire \subseteq Arrived' \cup wire'
  BY DEF TakesUp
<1>3. job.active \subseteq Symbols
  BY <1>1, Constants DEF InvTypes, TypeOK
<1> SUFFICES ASSUME NEW p \in Phases, frame[p] # NoFrame, NEW s \in Members[p] \cap job.active,
                    Punctual(s)'
             PROVE  RowAsOf(s, frame[p].anchor, frame[p].rows[s])'
  BY <1>1, <1>2 DEF InvFrames
<1>4. Punctual(s) /\ s \in Symbols
  BY <1>2, <1>3, PunctualBefore
<1> DEFINE a == frame[p].anchor
           row == frame[p].rows[s]
           upTo == UpTo(seen[s], a)
<1>5. /\ a \in Nat
      /\ \A t \in Ahead : t.sym = s => a < t.ts
      /\ row = [bar |-> row.bar, quote |-> row.quote, trade |-> row.trade, seen |-> row.seen]
      /\ row.seen = upTo
      /\ row.bar = IF Floor(a) < FirstSecond THEN {}
                   ELSE {t \in seen[s] : InBar(t, Floor(a))}
      /\ IsLast(seq, row.quote, Quotes(upTo)) /\ IsLast(seq, row.trade, Trades(upTo))
  BY <1>1, <1>4 DEF InvFrames, RowAsOf
<1> HIDE DEF upTo
<1>6. seen'[s] = seen[s] \/ \E t \in Ahead : t.sym = s /\ seen'[s] = seen[s] \cup {t}
  <2>1. CASE UNCHANGED historyVars
    BY <2>1 DEF historyVars
  <2>2. ASSUME NEW t \in Ahead, Applied(t), Accepts(t) => t.ts < nextSec
        PROVE  seen'[s] = seen[s] \/ (t.sym = s /\ seen'[s] = seen[s] \cup {t})
    <3>1. seen'[s] = seen[s] \cup {u \in {t} : Accepts(t) /\ t.sym = s}
      BY <2>2, AppliedToBar DEF TakesUp
    <3> QED BY <3>1
  <2>3. \/ UNCHANGED historyVars
        \/ \E t \in F : Applied(t) /\ (Accepts(t) => t.ts < nextSec)
    BY DEF TakesUp
  <2>4. F \subseteq Ahead
    BY DEF TakesUp
  <2> QED BY <2>1, <2>2, <2>3, <2>4
<1>7. ASSUME NEW t \in Ahead, t.sym = s
      PROVE  ~(t.ts <= a) /\ ~InBar(t, Floor(a))
  <2>1. t.ts \in Nat /\ a < t.ts
    BY <1>1, <1>5, <1>7, Apart, Constants
  <2>2. Floor(a) \in Int /\ Floor(a) <= a
    BY <1>5, FloorBelow
  <2> QED BY <1>5, <2>1, <2>2 DEF InBar
<1>8. UpTo(seen'[s], a) = upTo
  BY <1>6, <1>7 DEF UpTo, upTo
<1>9. {t \in seen'[s] : InBar(t, Floor(a))} = {t \in seen[s] : InBar(t, Floor(a))}
  BY <1>6, <1>7
<1>10. IsLast(seq', row.quote, Quotes(upTo)) /\ IsLast(seq', row.trade, Trades(upTo))
  <2>1. seen[s] \subseteq Arrived
    BY <1>1, <1>4, Apart
  <2>2. Quotes(upTo) \subseteq Arrived /\ Trades(upTo) \subseteq Arrived
    BY <2>1 DEF Quotes, Trades, UpTo, upTo
  <2>3. ASSUME NEW m, NEW S \in SUBSET Arrived, IsLast(seq, m, S)
        PROVE  IsLast(seq', m, S)
    BY <1>2, <2>3 DEF IsLast, Earlier
  <2> QED BY <1>5, <2>2, <2>3
<1>11. (\A t \in Ahead' : t.sym = s => a < t.ts) /\ a' = a /\ row' = row
  BY <1>2, <1>5
<1>12. RowAsOf(s, frame[p].anchor, frame[p].rows[s])' <=>
         /\ \A t \in Ahead' : t.sym = s => a < t.ts
         /\ row = [bar |-> row.bar, quote |-> row.quote, trade |-> row.trade, seen |-> row.seen]
         /\ row.seen = UpTo(seen'[s], a)
         /\ row.bar = IF Floor(a) < FirstSecond THEN {}
                      ELSE {t \in seen'[s] : InBar(t, Floor(a))}
         /\ IsLast(seq', row.quote, Quotes(UpTo(seen'[s], a)))
         /\ IsLast(seq', row.trade, Trades(UpTo(seen'[s], a)))
  BY <1>2 DEF RowAsOf, InBar, IsLast, Quotes, Trades, UpTo
<1> HIDE DEF a, row
<1> QED BY <1>5, <1>8, <1>9, <1>10, <1>11, <1>12

LEMMA TakesUpSeen ==
  ASSUME IInv, InvTypes', NEW F, TakesUp(F)
  PROVE  InvSeen'
<1>1. InvTypes /\ InvSeen
  BY DEF IInv
<1>2. UNCHANGED <<nextSec, phaseNext>>
  BY DEF TakesUp
<1>3. CASE UNCHANGED historyVars
  BY <1>1, <1>2, <1>3 DEF InvSeen, historyVars
<1>4. ASSUME NEW t \in Ticks, Applied(t),
             Accepts(t) => t.ts < nextSec /\ \A p \in Phases : t.ts <= phaseNext[p]
      PROVE  InvSeen'
  <2>1. CASE ~Accepts(t)
    BY <1>1, <1>2, <1>4, <2>1 DEF InvSeen, historyVars, Applied
  <2>2. CASE Accepts(t)
    <3>1. Record(t) /\ (t.kind = Quote => t.px > 0)
      BY <1>4, <2>2 DEF Applied, Accepts
    <3>2. ASSUME NEW s \in Symbols, NEW u \in seen'[s]
          PROVE  u \in seen[s] \/ u = t
      BY <1>1, <3>1, <3>2 DEF Record, InvTypes, TypeOK
    <3> QED BY <1>1, <1>2, <1>4, <2>2, <3>1, <3>2 DEF InvSeen
  <2> QED BY <2>1, <2>2
<1> QED BY <1>3, <1>4 DEF TakesUp

LEMMA TakesUpAnchors ==
  ASSUME IInv, NEW F, TakesUp(F), FirstSecond' = FirstSecond
  PROVE  InvAnchors'
<1>1. InvTypes /\ InvAnchors
  BY DEF IInv
<1>2. /\ UNCHANGED <<job, nextSec, phaseNext, symNext, frame>> /\ nextSec > 0
      /\ Arrived \subseteq Arrived'
  BY DEF TakesUp
<1>3. nextSec \in Nat
  BY <1>1 DEF InvTypes, TypeOK
<1> QED BY <1>1, <1>2, <1>3 DEF InvAnchors, Floor

(* The whole of what such a step keeps. *)
LEMMA TakesUpKeeps ==
  ASSUME IInv, InvTypes', InvPlace', NEW F, TakesUp(F)
  PROVE  InvAnchors' /\ InvSeen' /\ InvPunctual' /\ InvBars' /\ LateCounted' /\ InvFrames'
<1>1. FirstSecond' = FirstSecond
  BY FirstSecondKept DEF IInv, TakesUp
<1> QED BY <1>1, TakesUpAnchors, TakesUpSeen, TakesUpPunctual, TakesUpBars, TakesUpLate,
           TakesUpFrames

-----------------------------------------------------------------------------
(* The actions that take up or finish a tick *)

(* A tick that arrives gets the next number. *)
LEMMA Arrival ==
  ASSUME InvTypes, InvPlace, NEW t \in wire,
         seq' = [seq EXCEPT ![t] = Cardinality(Arrived) + 1]
  PROVE  /\ t \in Ticks /\ t \notin Arrived /\ Arrived' = Arrived \cup {t}
         /\ seq' \in [Ticks -> 0 .. Cardinality(Ticks)]
         /\ \A u \in Arrived : seq'[u] = seq[u] /\ seq'[u] < seq'[t] /\ seq'[u] \in Nat
         /\ \A u \in Ticks : seq'[u] <= Cardinality(Arrived')
         /\ \A u \in Ticks \ {t} : seq'[u] = seq[u]
         /\ \A u, v \in Arrived' : seq'[u] = seq'[v] => u = v
         /\ \E u \in Arrived' : seq'[u] = 1
         /\ Arrived = {} => seq'[t] = 1
<1>1. /\ t \in Ticks /\ t \notin Arrived /\ Arrived \subseteq Ticks
      /\ \A u \in Ticks : seq[u] \in Nat
      /\ seq \in [Ticks -> 0 .. Cardinality(Ticks)]
  BY Apart DEF InvTypes, TypeOK
<1>2. IsFiniteSet(Arrived) /\ IsFiniteSet(Arrived \cup {t})
  BY <1>1, Constants, FS_Subset, FS_AddElement
<1>3. /\ Cardinality(Arrived) \in Nat /\ Cardinality(Ticks) \in Nat
      /\ Cardinality(Arrived \cup {t}) = Cardinality(Arrived) + 1
      /\ Cardinality(Arrived \cup {t}) <= Cardinality(Ticks)
  BY <1>1, <1>2, Constants, FS_CardinalityType, FS_AddElement, FS_Subset
<1>4. seq'[t] = Cardinality(Arrived) + 1 /\ \A u \in Ticks \ {t} : seq'[u] = seq[u]
  BY <1>1
<1>5. seq' \in [Ticks -> 0 .. Cardinality(Ticks)]
  BY <1>1, <1>3
<1>6. Arrived' = Arrived \cup {t}
  <2>1. ASSUME NEW u \in Ticks
        PROVE  seq'[u] > 0 <=> (u = t \/ seq[u] > 0)
    BY <1>1, <1>3, <1>4
  <2>2. Arrived' = {u \in Ticks : seq'[u] > 0} /\ Arrived = {u \in Ticks : seq[u] > 0}
    BY DEF Arrived
  <2> QED BY <1>1, <2>1, <2>2
<1>7. \A u \in Ticks : seq[u] <= Cardinality(Arrived)
  BY DEF InvPlace
<1>8. \A u \in Arrived : seq'[u] = seq[u] /\ seq'[u] < seq'[t] /\ seq'[u] \in Nat
  BY <1>1, <1>3, <1>4, <1>7
<1>9. \A u \in Ticks : seq'[u] <= Cardinality(Arrived')
  BY <1>1, <1>3, <1>4, <1>6, <1>7
<1>10. \A u, v \in Arrived' : seq'[u] = seq'[v] => u = v
  <2>1. \A u, v \in Arrived : seq[u] = seq[v] => u = v
    BY DEF InvPlace
  <2>2. seq'[t] \in Int
    BY <1>3, <1>4
  <2> QED BY <1>6, <1>8, <2>1, <2>2
<1>11. Arrived = {} => seq'[t] = 1
  BY <1>4, FS_EmptySet
<1>12. \E u \in Arrived' : seq'[u] = 1
  <2>1. CASE Arrived = {}
    BY <1>6, <1>11, <2>1
  <2>2. CASE Arrived # {}
    <3>1. PICK u \in Arrived : seq[u] = 1
      BY <2>2 DEF InvPlace
    <3> QED BY <1>6, <1>8, <3>1
  <2> QED BY <2>1, <2>2
<1> QED BY <1>1, <1>4, <1>5, <1>6, <1>8, <1>9, <1>10, <1>11, <1>12

LEMMA ArriveStep ==
  ASSUME IInv, NEW t \in Ticks, Arrive(t)
  PROVE  IInv'
<1>1. InvTypes /\ InvPlace /\ InvAnchors /\ InvClock /\ InvPunctual
  BY DEF IInv
<1>2. /\ job.live /\ pc = "idle" /\ t \in wire /\ wire' = wire \ {t}
      /\ seq' = [seq EXCEPT ![t] = Cardinality(Arrived) + 1]
      /\ heap' = heap \cup {t}
      /\ UNCHANGED <<now, pc, limit, cur, anchorVars, historyVars, barVars, acc,
                     frameVars, late>>
  BY DEF Arrive
<1>3. /\ t \in Ticks /\ t \notin Arrived /\ Arrived' = Arrived \cup {t}
      /\ seq' \in [Ticks -> 0 .. Cardinality(Ticks)]
      /\ \A u \in Arrived : seq'[u] = seq[u] /\ seq'[u] < seq'[t] /\ seq'[u] \in Nat
      /\ \A u \in Ticks : seq'[u] <= Cardinality(Arrived')
      /\ \A u \in Ticks \ {t} : seq'[u] = seq[u]
      /\ \A u, v \in Arrived' : seq'[u] = seq'[v] => u = v
      /\ \E u \in Arrived' : seq'[u] = 1
  BY <1>1, <1>2, Arrival
<1>4. /\ Pending = heap /\ Pending' = heap \cup {t} /\ Done' = Done
      /\ Ahead' = Ahead /\ heap \subseteq Arrived
  BY <1>1, <1>2, <1>3 DEF Pending, Done, Ahead, InvPlace
<1>5. InvTypes'
  BY <1>1, <1>2, <1>3 DEF InvTypes, TypeOK, anchorVars, historyVars, barVars, frameVars
<1>6. InvPlace'
  <2>1. wire \subseteq Ticks /\ \A u \in wire : seq[u] = 0
    BY <1>1 DEF InvTypes, TypeOK, InvPlace
  <2>2. \A u \in wire' : seq'[u] = 0
    BY <1>2, <1>3, <2>1
  <2>3. heap' \subseteq Arrived' /\ (heap' # {} => job.live) /\ pc' # "ingest"
    BY <1>2, <1>3, <1>4
  <2>4. \A s \in Symbols : seen'[s] \subseteq {u \in Done' : u.sym = s}
    BY <1>1, <1>2, <1>4 DEF InvPlace, historyVars
  <2>5. job' = job
    BY <1>2 DEF anchorVars
  <2> QED BY <1>3, <2>2, <2>3, <2>4, <2>5 DEF InvPlace
<1>7. TakesUp({})
  <2>1. ASSUME NEW s \in Symbols, Punctual(s)
        PROVE  Settles(s, {})
    <3> SUFFICES ASSUME NEW u \in Done, NEW v \in Arrived' \ Done, u # v, u.sym = s, v.sym = s
                 PROVE  Earlier(seq', u, v)
      BY DEF Settles
    <3>1. u \in Arrived
      BY DEF Done
    <3>2. CASE v = t
      <4>1. /\ limit > 0 /\ u.ts <= limit /\ limit + Watermark <= now
            /\ now <= t.ts + Jitter[t]
        BY <1>1, <1>2 DEF InvClock
      <4>2. Jitter[t] < Watermark
        BY <1>2, <2>1, <3>2 DEF Punctual
      <4>3. u.ts \in Nat /\ t.ts \in Nat /\ Jitter[t] \in Nat /\ Watermark \in Nat
            /\ now \in Nat /\ limit \in Nat
        BY <1>1, <3>1, Constants DEF Arrived, InvTypes, TypeOK
      <4>4. u.ts < t.ts
        BY <4>1, <4>2, <4>3
      <4> QED BY <3>2, <4>4 DEF Earlier
    <3>3. CASE v # t
      <4>1. v \in Pending /\ v \in Arrived
        BY <1>3, <3>3 DEF Done
      <4>2. Earlier(seq, u, v)
        BY <1>1, <2>1, <4>1 DEF InvPunctual, InOrder
      <4> QED BY <1>3, <3>1, <4>1, <4>2 DEF Earlier
    <3> QED BY <3>2, <3>3
  <2>2. nextSec > 0
    BY <1>1, <1>2, StreamAssumption DEF InvTypes, TypeOK, InvAnchors
  <2> QED BY <1>2, <1>3, <1>4, <2>1, <2>2
          DEF TakesUp, anchorVars, historyVars, barVars, frameVars
<1>8. InvClock'
  BY <1>1, <1>2, <1>4 DEF InvClock, anchorVars
<1>9. InvStream'
  BY <1>2 DEF InvStream, anchorVars
<1> QED BY <1>5, <1>6, <1>7, <1>8, <1>9, TakesUpKeeps DEF IInv

(* What a Flush drains belongs before the next second, and before or on    *)
(* the next anchor of every phase.                                         *)
LEMMA DrainedInTime ==
  ASSUME InvTypes, nextSec > 0, \A p \in Phases : phaseNext[p] > 0,
         pc = "flush", NEW t \in Ticks, Drainable(t)
  PROVE  t.ts <= limit /\ t.ts < nextSec /\ \A p \in Phases : t.ts <= phaseNext[p]
<1>1. /\ t.ts \in Nat /\ limit \in Nat /\ nextSec \in Nat
      /\ \A p \in Phases : phaseNext[p] \in Nat
  BY Constants DEF InvTypes, TypeOK
<1>2. \A p \in Phases : PhaseDue(p) <=> phaseNext[p] <= limit
  BY DEF PhaseDue
<1>3. SecondDue <=> nextSec <= limit
  BY DEF SecondDue
<1>4. CASE SecondFirst
  <2>1. t.ts < nextSec /\ nextSec <= limit
    BY <1>3, <1>4 DEF Drainable, SecondFirst
  <2>2. \A p \in Phases : phaseNext[p] <= limit => nextSec <= phaseNext[p]
    BY <1>2, <1>4 DEF SecondFirst
  <2> QED BY <1>1, <2>1, <2>2
<1>5. CASE ~SecondFirst /\ \E p \in Phases : PhaseDue(p)
  <2>1. PICK p \in Phases : PhaseFirst(p) /\ t.ts <= phaseNext[p]
    BY <1>5 DEF Drainable
  <2>2. phaseNext[p] <= limit /\ \A q \in Phases : phaseNext[q] <= limit =>
                                                     phaseNext[p] <= phaseNext[q]
    BY <1>1, <1>2, <2>1 DEF PhaseFirst
  <2>3. nextSec <= limit => \E q \in Phases : phaseNext[q] <= limit /\ phaseNext[q] < nextSec
    BY <1>1, <1>2, <1>3, <1>5 DEF SecondFirst
  <2> QED BY <1>1, <2>1, <2>2, <2>3
<1>6. CASE ~SecondFirst /\ ~\E p \in Phases : PhaseDue(p)
  <2>1. t.ts <= limit /\ ~(nextSec <= limit) /\ \A p \in Phases : ~(phaseNext[p] <= limit)
    BY <1>2, <1>3, <1>6 DEF Drainable, SecondFirst
  <2> QED BY <1>1, <2>1
<1> QED BY <1>4, <1>5, <1>6

LEMMA AppliedTypes ==
  ASSUME InvTypes, NEW t \in Ticks, Applied(t)
  PROVE  /\ acc' \in [Symbols -> SUBSET Ticks] /\ seen' \in [Symbols -> SUBSET Ticks]
         /\ quote' \in [Symbols -> Ticks \cup {NoTick}] /\ late' \in Nat
         /\ trade' \in [Symbols -> Ticks \cup {NoTick}]
         /\ \A s \in Symbols : seen'[s] \subseteq seen[s] \cup {u \in {t} : u.sym = s}
<1>1. /\ acc \in [Symbols -> SUBSET Ticks] /\ seen \in [Symbols -> SUBSET Ticks]
      /\ quote \in [Symbols -> Ticks \cup {NoTick}] /\ late \in Nat
      /\ trade \in [Symbols -> Ticks \cup {NoTick}]
  BY DEF InvTypes, TypeOK
<1>2. t.sym \in Symbols
  BY Constants
<1>3. acc' \in [Symbols -> SUBSET Ticks] /\ late' \in Nat
  <2>1. CASE UNCHANGED <<acc, late>>
    BY <1>1, <2>1
  <2>2. CASE Apply(t)
    BY <1>1, <1>2, <2>2 DEF Apply
  <2> QED BY <2>1, <2>2 DEF Applied
<1>4. /\ seen' \in [Symbols -> SUBSET Ticks]
      /\ quote' \in [Symbols -> Ticks \cup {NoTick}]
      /\ trade' \in [Symbols -> Ticks \cup {NoTick}]
      /\ \A s \in Symbols : seen'[s] \subseteq seen[s] \cup {u \in {t} : u.sym = s}
  <2>1. CASE UNCHANGED historyVars
    BY <1>1, <2>1 DEF historyVars
  <2>2. CASE Record(t)
    <3>1. seen' = [seen EXCEPT ![t.sym] = @ \cup {t}]
      BY <2>2 DEF Record
    <3>2. quote' = quote \/ quote' = [quote EXCEPT ![t.sym] = t]
      BY <2>2 DEF Record
    <3>3. trade' = trade \/ trade' = [trade EXCEPT ![t.sym] = t]
      BY <2>2 DEF Record
    <3> QED BY <1>1, <1>2, <3>1, <3>2, <3>3
  <2> QED BY <2>1, <2>2 DEF Applied
<1> QED BY <1>3, <1>4

LEMMA DrainTickStep ==
  ASSUME IInv, DrainTick
  PROVE  IInv'
<1>1. InvTypes /\ InvPlace /\ InvAnchors /\ InvClock /\ InvPunctual
  BY DEF IInv
<1>2. PICK t \in heap :
        /\ \A u \in heap \ {t} : Before(t, u)
        /\ Drainable(t)
        /\ heap' = heap \ {t}
        /\ IF Accepts(t) THEN Apply(t) ELSE UNCHANGED <<historyVars, acc, late>>
  BY DEF DrainTick
<1>3. /\ pc = "flush" /\ job.live
      /\ UNCHANGED <<clockVars, pc, limit, cur, anchorVars, barVars, frameVars>>
  BY DEF DrainTick
<1>4. /\ t \in Ticks /\ t \in Arrived /\ Arrived' = Arrived /\ seq' = seq /\ job' = job
      /\ heap \subseteq Arrived
  BY <1>1, <1>3 DEF clockVars, anchorVars, Arrived, InvPlace, InvTypes, TypeOK
<1>5. /\ Pending = heap /\ Pending' = heap \ {t} /\ Done' = Done \cup {t}
      /\ Ahead' \subseteq Ahead /\ t \in Ahead /\ wire' = wire
  BY <1>2, <1>3, <1>4 DEF Pending, Done, Ahead, clockVars
<1>6. Applied(t)
  BY <1>2, <1>3 DEF Applied, Apply
<1>7. /\ acc' \in [Symbols -> SUBSET Ticks] /\ seen' \in [Symbols -> SUBSET Ticks]
      /\ quote' \in [Symbols -> Ticks \cup {NoTick}] /\ late' \in Nat
      /\ trade' \in [Symbols -> Ticks \cup {NoTick}]
      /\ \A s \in Symbols : seen'[s] \subseteq seen[s] \cup {u \in {t} : u.sym = s}
  BY <1>1, <1>4, <1>6, AppliedTypes
<1>8. InvTypes'
  BY <1>1, <1>2, <1>3, <1>7
     DEF InvTypes, TypeOK, clockVars, anchorVars, barVars, frameVars
<1>9. InvPlace'
  <2>1. \A s \in Symbols : seen'[s] \subseteq {u \in Done' : u.sym = s}
    BY <1>1, <1>5, <1>7 DEF InvPlace
  <2>2. heap' \subseteq Arrived' /\ (heap' # {} => job'.live) /\ pc' # "ingest"
    BY <1>2, <1>3, <1>4
  <2> QED BY <1>1, <1>4, <1>5, <2>1, <2>2 DEF InvPlace
<1>10. nextSec > 0 /\ \A p \in Phases : phaseNext[p] > 0
  <2>1. job.start > 0 /\ job.start \in Nat
    BY <1>1, <1>3, StreamAssumption, Constants DEF InvTypes, TypeOK
  <2>2. nextSec > 0 /\ \A p \in Phases : job.start < phaseNext[p]
    BY <1>1, <2>1 DEF InvAnchors
  <2> QED BY <1>1, <2>1, <2>2 DEF InvTypes, TypeOK
<1>11. t.ts <= limit /\ t.ts < nextSec /\ \A p \in Phases : t.ts <= phaseNext[p]
  BY <1>1, <1>2, <1>3, <1>4, <1>10, DrainedInTime
<1>12. TakesUp({t})
  <2>1. ASSUME NEW s \in Symbols, Punctual(s)
        PROVE  Settles(s, {t})
    <3> SUFFICES ASSUME NEW u \in Done \cup {t}, NEW v \in Arrived \ Done, u # v,
                        u.sym = s, v.sym = s
                 PROVE  Earlier(seq, u, v)
      BY <1>4 DEF Settles
    <3>1. v \in heap
      BY <1>5 DEF Done
    <3>2. CASE u = t
      BY <1>2, <3>1, <3>2, BeforeIs
    <3>3. CASE u \in Done
      BY <1>1, <1>5, <2>1, <3>1, <3>3 DEF InvPunctual, InOrder
    <3> QED BY <3>2, <3>3
  <2> QED BY <1>3, <1>4, <1>5, <1>6, <1>10, <1>11, <2>1
          DEF TakesUp, anchorVars, barVars, frameVars, clockVars
<1>13. InvClock'
  BY <1>1, <1>3, <1>4, <1>5, <1>11 DEF InvClock, clockVars
<1>14. InvStream'
  BY <1>3, <1>4 DEF InvStream
<1> QED BY <1>8, <1>9, <1>12, <1>13, <1>14, TakesUpKeeps DEF IInv

(* The next tick of the sorted stream comes after all that have arrived.   *)
LEMMA Taken ==
  ASSUME IInv, NEW t \in Ticks, TakeFromStream(t), UNCHANGED heap
  PROVE  /\ t \in Arrived' /\ t \notin Arrived /\ Arrived' = Arrived \cup {t}
         /\ t \in wire /\ wire' = wire \ {t} /\ heap = {} /\ Done = Arrived /\ Ahead = wire
         /\ seq' \in [Ticks -> 0 .. Cardinality(Ticks)]
         /\ \A u \in Arrived : seq'[u] = seq[u]
         /\ \A u \in Arrived : u.sym = t.sym => Earlier(seq', u, t)
         /\ \A u \in wire' : seq'[u] = 0
         /\ \A u \in Ticks : seq'[u] <= Cardinality(Arrived')
         /\ \A u, v \in Arrived' : seq'[u] = seq'[v] => u = v
         /\ \E u \in Arrived' : seq'[u] = 1
         /\ \A u \in Arrived', v \in wire' :
              \/ u.ts < v.ts
              \/ u.ts = v.ts /\ u.kind < v.kind
              \/ u.ts = v.ts /\ u.kind = v.kind /\ u.sym <= v.sym
         /\ \A u \in Arrived' : u.ts <= t.ts
         /\ \A u \in wire : t.ts <= u.ts
         /\ Arrived = {} => seq'[t] = 1
<1>1. /\ InvTypes /\ InvPlace /\ InvStream /\ ~job.live /\ pc = "idle"
      /\ t \in wire /\ NextOfStream(t) /\ wire' = wire \ {t}
      /\ seq' = [seq EXCEPT ![t] = Cardinality(Arrived) + 1]
  BY DEF IInv, TakeFromStream, NextOfStream
<1>2. /\ t \in Ticks /\ t \notin Arrived /\ Arrived' = Arrived \cup {t}
      /\ seq' \in [Ticks -> 0 .. Cardinality(Ticks)]
      /\ \A u \in Arrived : seq'[u] = seq[u] /\ seq'[u] < seq'[t] /\ seq'[u] \in Nat
      /\ \A u \in Ticks : seq'[u] <= Cardinality(Arrived')
      /\ \A u \in Ticks \ {t} : seq'[u] = seq[u]
      /\ \A u, v \in Arrived' : seq'[u] = seq'[v] => u = v
      /\ \E u \in Arrived' : seq'[u] = 1
      /\ Arrived = {} => seq'[t] = 1
  BY <1>1, Arrival
<1>3. heap = {} /\ Pending = {} /\ Done = Arrived /\ Ahead = wire
  BY <1>1 DEF InvPlace, Pending, Done, Ahead
<1>4. wire \subseteq Ticks /\ Arrived \subseteq Ticks /\ \A u \in wire : seq[u] = 0
  BY <1>1 DEF InvTypes, TypeOK, InvPlace, Arrived
<1>5. \A u \in Arrived, v \in wire :
        \/ u.ts < v.ts
        \/ u.ts = v.ts /\ u.kind < v.kind
        \/ u.ts = v.ts /\ u.kind = v.kind /\ u.sym <= v.sym
  BY <1>1 DEF InvStream
<1>6. \A v \in wire :
        \/ t.ts < v.ts
        \/ t.ts = v.ts /\ t.kind < v.kind
        \/ t.ts = v.ts /\ t.kind = v.kind /\ t.sym <= v.sym
  BY <1>1 DEF NextOfStream
<1>7. \A u \in Arrived : u.sym = t.sym => Earlier(seq', u, t)
  BY <1>1, <1>2, <1>5 DEF Earlier
<1>8. \A u \in wire' : seq'[u] = 0
  BY <1>1, <1>2, <1>4
<1>9. /\ \A u \in Arrived : u.ts <= t.ts
      /\ \A u \in wire : t.ts <= u.ts
      /\ t.ts <= t.ts
  BY <1>1, <1>4, <1>5, <1>6, Constants
<1>10. \A u \in Arrived', v \in wire' :
         \/ u.ts < v.ts
         \/ u.ts = v.ts /\ u.kind < v.kind
         \/ u.ts = v.ts /\ u.kind = v.kind /\ u.sym <= v.sym
  BY <1>1, <1>2, <1>5, <1>6
<1>11. \A u \in Arrived' : u.ts <= t.ts
  BY <1>2, <1>9
<1>12. t \in Arrived' /\ t \in wire /\ wire' = wire \ {t}
  BY <1>1, <1>2
<1> QED BY <1>2, <1>3, <1>7, <1>8, <1>9, <1>10, <1>11, <1>12

LEMMA TakenSettles ==
  ASSUME IInv, NEW t \in Ticks, TakeFromStream(t), UNCHANGED heap, NEW F,
         F = {} \/ F = {t}, NEW s \in Symbols
  PROVE  Settles(s, F)
<1> SUFFICES ASSUME NEW u \in Done \cup F, NEW v \in Arrived' \ Done, u # v,
                    u.sym = s, v.sym = s
             PROVE  Earlier(seq', u, v)
  BY DEF Settles
<1>1. /\ Arrived' = Arrived \cup {t} /\ Done = Arrived
      /\ \A w \in Arrived : w.sym = t.sym => Earlier(seq', w, t)
  BY Taken
<1> QED BY <1>1

LEMMA IngestPreWindowStep ==
  ASSUME IInv, NEW t \in Ticks, IngestPreWindow(t)
  PROVE  IInv'
<1>1. InvTypes /\ InvPlace /\ InvAnchors /\ InvStream
  BY DEF IInv
<1>2. /\ TakeFromStream(t) /\ t.ts < job.start /\ ~job.live /\ pc = "idle"
      /\ IF Accepts(t) THEN Record(t) ELSE UNCHANGED historyVars
      /\ UNCHANGED <<now, heap, pc, limit, cur, anchorVars, barVars, acc, frameVars, late>>
  BY DEF IngestPreWindow, TakeFromStream
<1>3. /\ t \in Arrived' /\ t \notin Arrived /\ Arrived' = Arrived \cup {t}
      /\ t \in wire /\ wire' = wire \ {t} /\ heap = {} /\ Done = Arrived /\ Ahead = wire
      /\ seq' \in [Ticks -> 0 .. Cardinality(Ticks)]
      /\ \A u \in Arrived : seq'[u] = seq[u]
      /\ \A u \in wire' : seq'[u] = 0
      /\ \A u \in Ticks : seq'[u] <= Cardinality(Arrived')
      /\ \A u, v \in Arrived' : seq'[u] = seq'[v] => u = v
      /\ \E u \in Arrived' : seq'[u] = 1
      /\ \A u \in Arrived', v \in wire' :
           \/ u.ts < v.ts
           \/ u.ts = v.ts /\ u.kind < v.kind
           \/ u.ts = v.ts /\ u.kind = v.kind /\ u.sym <= v.sym
      /\ \A u \in Arrived' : u.ts <= t.ts
  BY <1>2, Taken
<1>4. job' = job /\ nextSec' = nextSec /\ phaseNext' = phaseNext
  BY <1>2 DEF anchorVars
<1>5. /\ Pending' = {} /\ Done' = Done \cup {t} /\ Ahead' = wire'
  BY <1>2, <1>3 DEF Pending, Done, Ahead
<1>6. /\ t.ts \in Nat /\ job.start \in Nat /\ nextSec \in Nat /\ wire \subseteq Ticks
      /\ \A p \in Phases : phaseNext[p] \in Nat
  BY <1>1, Constants DEF InvTypes, TypeOK
<1>7. Applied(t)
  <2>1. ~(job.live \/ job.start <= t.ts)
    BY <1>2, <1>6
  <2> QED BY <1>2, <2>1 DEF Applied
<1>8. /\ nextSec > 0 /\ t.ts < nextSec /\ \A p \in Phases : t.ts <= phaseNext[p]
  <2>1. job.start > 0
    BY <1>2, <1>6
  <2>2. /\ nextSec > 0 /\ FirstSecond \in Nat /\ job.start < FirstSecond
        /\ nextSec = FirstSecond \/ FirstSecond <= nextSec - Cadence
        /\ \A p \in Phases : job.start < phaseNext[p]
    BY <1>1, <2>1 DEF InvAnchors
  <2> QED BY <1>2, <1>6, <2>2, Constants
<1>9. InvTypes'
  <2>1. /\ seen' \in [Symbols -> SUBSET Ticks]
        /\ quote' \in [Symbols -> Ticks \cup {NoTick}]
        /\ trade' \in [Symbols -> Ticks \cup {NoTick}]
    BY <1>1, <1>7, AppliedTypes
  <2>2. wire' \subseteq Ticks
    BY <1>3, <1>6
  <2> QED BY <1>1, <1>2, <1>3, <2>1, <2>2
          DEF InvTypes, TypeOK, anchorVars, barVars, frameVars
<1>10. InvPlace'
  <2>1. \A s \in Symbols : seen'[s] \subseteq seen[s] \cup {u \in {t} : u.sym = s}
    BY <1>1, <1>7, AppliedTypes
  <2>2. \A s \in Symbols : seen'[s] \subseteq {u \in Done' : u.sym = s}
    BY <1>1, <1>5, <2>1 DEF InvPlace
  <2>3. heap' = {} /\ pc' # "ingest"
    BY <1>2, <1>3
  <2> QED BY <1>3, <2>2, <2>3 DEF InvPlace
<1>11. TakesUp({t})
  <2>1. \A s \in Symbols : Settles(s, {t})
    BY <1>2, TakenSettles
  <2> QED BY <1>2, <1>3, <1>5, <1>7, <1>8, <2>1
          DEF TakesUp, anchorVars, barVars, frameVars
<1>12. InvStream'
  <2>1. FirstSecond' = FirstSecond
    BY <1>1, <1>3, <1>4, <1>8, <1>10, FirstSecondKept
  <2>2. \A u \in Ahead' : job.start <= u.ts => FirstSecond - Cadence <= u.ts
    BY <1>1, <1>2, <1>3, <1>5, <1>8 DEF InvStream
  <2>3. \E u \in Arrived' : \A v \in Arrived' : v.ts <= u.ts
    BY <1>3
  <2>4. pc' = "idle"
    BY <1>2
  <2> QED BY <1>3, <1>4, <2>1, <2>2, <2>3, <2>4 DEF InvStream
<1>13. InvClock'
  BY <1>2, <1>4 DEF InvClock
<1> QED BY <1>9, <1>10, <1>11, <1>12, <1>13, TakesUpKeeps DEF IInv

LEMMA EndIngestStep ==
  ASSUME IInv, EndIngest
  PROVE  IInv'
<1>1. InvTypes /\ InvPlace /\ InvAnchors /\ InvStream /\ InvPunctual
  BY DEF IInv
<1>2. /\ pc = "ingest" /\ (NothingDue \/ IsLate(cur)) /\ Apply(cur) /\ pc' = "idle"
      /\ UNCHANGED <<clockVars, heap, limit, cur, anchorVars, barVars, frameVars>>
  BY DEF EndIngest
<1>3. /\ ~job.live /\ cur \in Arrived /\ job.start <= cur.ts /\ limit = cur.ts
      /\ Accepts(cur) /\ nextSec > 0 /\ heap = {}
  BY <1>1, <1>2 DEF InvPlace
<1>4. /\ cur \in Ticks /\ Arrived' = Arrived /\ seq' = seq /\ job' = job /\ wire' = wire
      /\ nextSec' = nextSec
  BY <1>2, <1>3 DEF clockVars, anchorVars, Arrived
<1>5. /\ Pending = {cur} /\ Pending' = {} /\ Done' = Done \cup {cur} /\ Ahead' \subseteq Ahead
      /\ cur \in Ahead
  BY <1>2, <1>3, <1>4 DEF Pending, Done, Ahead
<1>6. Applied(cur)
  BY <1>2, <1>3 DEF Applied, Apply
<1>7. cur.ts < nextSec /\ \A p \in Phases : cur.ts <= phaseNext[p]
  <2>1. /\ cur.ts \in Nat /\ cur.sym \in Symbols /\ nextSec \in Nat /\ Cadence \in Nat \ {0}
        /\ \A p \in Phases : phaseNext[p] \in Nat
    BY <1>1, <1>4, Constants DEF InvTypes, TypeOK
  <2>2. /\ symNext[cur.sym] = nextSec \/ symNext[cur.sym] = FirstSecond
        /\ FirstSecond \in Nat /\ (nextSec = FirstSecond \/ FirstSecond <= nextSec - Cadence)
        /\ job.start < FirstSecond
        /\ \A p \in Phases : job.start < phaseNext[p] /\ nextSec - Cadence <= phaseNext[p]
    BY <1>1, <1>3, <2>1 DEF InvAnchors
  <2>3. CASE NothingDue
    <3>1. ~(nextSec <= cur.ts) /\ \A p \in Phases : phaseNext[p] > 0 => ~(phaseNext[p] < cur.ts)
      BY <1>2, <1>3, <2>3 DEF NothingDue, SecondDue, PhaseDue
    <3>2. \A p \in Phases : phaseNext[p] > 0
      <4>1. job.start \in Nat
        BY <1>1, Constants DEF InvTypes, TypeOK
      <4> QED BY <2>1, <2>2, <4>1
    <3> QED BY <2>1, <3>1, <3>2
  <2>4. CASE IsLate(cur)
    <3>1. cur.ts < symNext[cur.sym] - Cadence
      BY <2>4 DEF IsLate
    <3> QED BY <2>1, <2>2, <3>1
  <2> QED BY <1>2, <2>3, <2>4
<1>8. /\ acc' \in [Symbols -> SUBSET Ticks] /\ seen' \in [Symbols -> SUBSET Ticks]
      /\ quote' \in [Symbols -> Ticks \cup {NoTick}] /\ late' \in Nat
      /\ trade' \in [Symbols -> Ticks \cup {NoTick}]
      /\ \A s \in Symbols : seen'[s] \subseteq seen[s] \cup {u \in {cur} : u.sym = s}
  BY <1>1, <1>4, <1>6, AppliedTypes
<1>9. InvTypes'
  BY <1>1, <1>2, <1>8 DEF InvTypes, TypeOK, clockVars, anchorVars, barVars, frameVars
<1>10. InvPlace'
  <2>1. \A s \in Symbols : seen'[s] \subseteq {u \in Done' : u.sym = s}
    BY <1>1, <1>5, <1>8 DEF InvPlace
  <2>2. heap' = {} /\ pc' # "ingest"
    BY <1>2, <1>3
  <2> QED BY <1>1, <1>4, <2>1, <2>2 DEF InvPlace
<1>11. TakesUp({cur})
  <2>1. ASSUME NEW s \in Symbols, Punctual(s)
        PROVE  Settles(s, {cur})
    <3> SUFFICES ASSUME NEW u \in Done \cup {cur}, NEW v \in Arrived \ Done, u # v,
                        u.sym = s, v.sym = s
                 PROVE  Earlier(seq, u, v)
      BY <1>4 DEF Settles
    <3>1. v = cur /\ u \in Done
      BY <1>5 DEF Done
    <3> QED BY <1>1, <1>5, <2>1, <3>1 DEF InvPunctual, InOrder
  <2> QED BY <1>2, <1>3, <1>4, <1>5, <1>6, <1>7, <2>1
          DEF TakesUp, anchorVars, barVars, frameVars
<1>12. InvStream'
  <2>1. FirstSecond' = FirstSecond
    BY <1>4 DEF FirstSecond
  <2>2. pc' = "idle"
    BY <1>2
  <2>3. /\ \A u \in Arrived, t \in wire :
             \/ u.ts < t.ts
             \/ u.ts = t.ts /\ u.kind < t.kind
             \/ u.ts = t.ts /\ u.kind = t.kind /\ u.sym <= t.sym
        /\ Arrived # {} => \E t \in Arrived : \A u \in Arrived : u.ts <= t.ts
        /\ \A t \in Ahead' : job.start <= t.ts => FirstSecond - Cadence <= t.ts
    BY <1>1, <1>3, <1>5 DEF InvStream
  <2> QED BY <1>4, <2>1, <2>2, <2>3 DEF InvStream
<1>13. InvClock'
  BY <1>3, <1>4 DEF InvClock
<1> QED BY <1>9, <1>10, <1>11, <1>12, <1>13, TakesUpKeeps DEF IInv

LEMMA BarSlotRange ==
  ASSUME NEW a \in Int
  PROVE  BarSlot(a) \in 0 .. 3
<1>1. a \div Cadence \in Int
  BY Constants, FloorDivision
<1> QED BY <1>1 DEF BarSlot

(* The first tick of a playback sets the anchors. *)
LEMMA FirstIngestStep ==
  ASSUME IInv, NEW t \in Ticks, BeginIngest(t), nextSec = 0
  PROVE  IInv'
<1>1. /\ InvTypes /\ InvPlace /\ InvAnchors /\ InvStream /\ InvPunctual /\ InvBars
      /\ LateCounted
  BY DEF IInv
<1>2. /\ TakeFromStream(t) /\ ~job.live /\ pc = "idle"
      /\ phaseNext' = PhaseStarts(t.ts) /\ nextSec' = FirstAfter(t.ts, 0)
      /\ symNext' = [s \in Symbols |-> FirstAfter(t.ts, 0)]
      /\ IF Accepts(t) THEN pc' = "ingest" /\ cur' = t /\ limit' = t.ts
                       ELSE UNCHANGED <<pc, cur, limit>>
      /\ UNCHANGED <<job, now, heap, historyVars, barRing, lastBar, acc, frameVars, late>>
  BY DEF BeginIngest, TakeFromStream
<1>3. /\ t \in Arrived' /\ Arrived' = Arrived \cup {t}
      /\ t \in wire /\ wire' = wire \ {t} /\ heap = {}
      /\ seq' \in [Ticks -> 0 .. Cardinality(Ticks)]
      /\ \A u \in wire' : seq'[u] = 0
      /\ \A u \in Ticks : seq'[u] <= Cardinality(Arrived')
      /\ \A u, v \in Arrived' : seq'[u] = seq'[v] => u = v
      /\ \E u \in Arrived' : seq'[u] = 1
      /\ \A u \in Arrived', v \in wire' :
           \/ u.ts < v.ts
           \/ u.ts = v.ts /\ u.kind < v.kind
           \/ u.ts = v.ts /\ u.kind = v.kind /\ u.sym <= v.sym
      /\ \A u \in Arrived' : u.ts <= t.ts
      /\ \A u \in wire : t.ts <= u.ts
      /\ Arrived = {} => seq'[t] = 1
  BY <1>2, Taken
<1>4. /\ job \in Jobs /\ job.start \in Nat /\ job.start = 0
      /\ Arrived = {} /\ late = 0 /\ Done = {} /\ Arrived' = {t} /\ seq'[t] = 1
      /\ \A p \in Phases : frame[p] = NoFrame
      /\ job.active \subseteq Symbols
  BY <1>1, <1>3, Constants DEF InvTypes, TypeOK, InvAnchors, Done
<1>5. /\ t.ts \in Nat /\ Cadence \in Nat \ {0} /\ wire \subseteq Ticks
      /\ \A s \in Symbols : seen[s] = {}
  BY <1>1, <1>4, Constants DEF InvTypes, TypeOK, InvPlace
<1>6. /\ nextSec' \in Nat /\ t.ts < nextSec' /\ nextSec' <= t.ts + Cadence
      /\ Floor(nextSec') = nextSec'
  <2>1. 0 \in 0 .. Cadence - 1
    BY <1>5
  <2> QED BY <1>2, <1>5, <2>1, FirstAfterBounds, FirstSecondOnLattice
<1>7. FirstSecond' = nextSec'
  <2>1. ~(job.start > 0)'
    BY <1>2, <1>4
  <2>2. FirstSecond' = FirstAfter((CHOOSE u \in Arrived' : seq'[u] = 1).ts, 0)
    BY <2>1, Zenon DEF FirstSecond
  <2>3. (CHOOSE u \in Arrived' : seq'[u] = 1) = t
    BY <1>4
  <2> QED BY <1>2, <2>2, <2>3
<1>8. /\ phaseNext' \in [Phases -> Nat]
      /\ \A p \in Phases : t.ts < phaseNext'[p]
  <2>1. \A p \in Phases : Offset[p] \in 0 .. Cadence - 1
    BY Constants
  <2>2. \A p \in Phases : FirstAfter(t.ts, Offset[p]) \in Nat
        /\ t.ts < FirstAfter(t.ts, Offset[p])
    BY <1>5, <2>1, FirstAfterBounds
  <2> QED BY <1>2, <2>2 DEF PhaseStarts
<1>9. /\ symNext' \in [Symbols -> Nat] /\ \A s \in Symbols : symNext'[s] = nextSec'
  BY <1>2, <1>6
<1>10. Ahead' \subseteq wire
  BY <1>2, <1>3 DEF Ahead, Pending
<1>11. Done' = IF Accepts(t) THEN {} ELSE {t}
  BY <1>2, <1>3, <1>4 DEF Done, Pending
<1>12. seen' = seen /\ quote' = quote /\ trade' = trade
  BY <1>2 DEF historyVars
<1>13. InvTypes'
  <2>1. limit' \in Nat /\ cur' \in Ticks \cup {NoTick}
        /\ pc' \in {"idle", "flush", "ingest", "done"}
    BY <1>1, <1>2, <1>5 DEF InvTypes, TypeOK
  <2>2. wire' \subseteq Ticks /\ nextSec' \in Nat
    BY <1>3, <1>5, <1>6
  <2> QED BY <1>1, <1>2, <1>3, <1>8, <1>9, <1>12, <2>1, <2>2
          DEF InvTypes, TypeOK, frameVars
<1>14. InvPlace'
  <2>1. pc' = "ingest" => /\ ~job'.live /\ cur' \in Arrived' /\ job'.start <= cur'.ts
                          /\ limit' = cur'.ts /\ Accepts(cur)' /\ nextSec' > 0
    <3>1. pc' = "ingest" => Accepts(t) /\ cur' = t /\ limit' = t.ts
      BY <1>2
    <3>2. Accepts(t) /\ cur' = t => Accepts(cur)'
      BY <1>12 DEF Accepts
    <3> QED BY <1>2, <1>3, <1>4, <1>5, <1>6, <3>1, <3>2
  <2>2. heap' = {} /\ \A s \in Symbols : seen'[s] = {}
    BY <1>2, <1>3, <1>5, <1>12
  <2> QED BY <1>3, <2>1, <2>2 DEF InvPlace
<1>15. InvAnchors'
  <2>1. nextSec' > 0 /\ nextSec' = FirstSecond' /\ job' = job
    BY <1>2, <1>5, <1>6, <1>7
  <2>2. \A p \in Phases : job.start < phaseNext'[p] /\ nextSec' - Cadence <= phaseNext'[p]
    BY <1>4, <1>5, <1>6, <1>8
  <2>3. Floor(nextSec)' = Floor(nextSec')
    BY DEF Floor
  <2>4. job.start < FirstSecond' /\ FirstSecond' \in Nat /\ Arrived' # {}
    BY <1>3, <1>4, <1>6, <2>1
  <2> QED BY <1>4, <1>6, <1>9, <2>1, <2>2, <2>3, <2>4 DEF InvAnchors
<1>16. InvSeen'
  BY <1>5, <1>12 DEF InvSeen
<1>17. InvClock'
  BY <1>2 DEF InvClock
<1>18. InvStream'
  <2>1. \A u \in Ahead' : FirstSecond' - Cadence <= u.ts
    <3>1. \A u \in Ahead' : t.ts <= u.ts /\ u.ts \in Nat
      BY <1>3, <1>5, <1>10, Constants
    <3> QED BY <1>5, <1>6, <1>7, <3>1
  <2>2. pc' \in {"idle", "ingest"}
    BY <1>2
  <2>3. \E u \in Arrived' : \A v \in Arrived' : v.ts <= u.ts
    BY <1>3
  <2> QED BY <1>3, <2>1, <2>2, <2>3 DEF InvStream
<1>19. InvPunctual'
  <2> SUFFICES ASSUME NEW s \in Symbols
               PROVE  InOrder(s)' /\ InChain(s)' /\ (s \in job.active => BarClosed(s)')
    BY <1>2 DEF InvPunctual
  <2>1. InOrder(s)'
    <3>1. Pending' \subseteq {t} /\ (Accepts(t) => Done' = {}) /\ (~Accepts(t) => Pending' = {})
      BY <1>2, <1>3, <1>11 DEF Pending
    <3>2. \A u \in Done', v \in Pending' : Earlier(seq', u, v)
      BY <3>1
    <3> QED BY <1>7, <3>2 DEF InOrder
  <2>2. quote[s] = NoTick /\ trade[s] = NoTick
    <3>1. Punctual(s)
      BY <1>2 DEF Punctual
    <3>2. InChain(s)
      BY <1>1, <3>1 DEF InvPunctual
    <3> QED BY <1>5, <3>2 DEF InChain, IsLast, Quotes, Trades
  <2>3. ASSUME NEW u \in Done'
        PROVE  u.kind # Trade /\ u \notin Valid(s)'
    <3>1. u = t /\ ~Accepts(t)
      BY <1>11, <2>3
    <3>2. CASE u.sym # s
      BY <3>1, <3>2 DEF Valid, Accepts, Quote, Trade
    <3>3. CASE u.sym = s
      BY <2>2, <3>1, <3>3 DEF Valid, Accepts, Quote, Trade, NoTick
    <3> QED BY <3>2, <3>3
  <2>4. InChain(s)'
    <3>1. seen'[s] = {} /\ quote'[s] = NoTick /\ trade'[s] = NoTick /\ quote[s] = NoTick
      BY <1>5, <1>12, <2>2
    <3>2. Valid(s)' \cap Done' = {} /\ Done' \cap Valid(s)' = {}
      BY <2>3
    <3>3. IsLast(seq', NoTick, {}) /\ Quotes({}) = {} /\ Trades({}) = {}
      BY DEF IsLast, Quotes, Trades
    <3>4. IsLast(seq', quote'[s], Quotes(seen'[s])) /\ IsLast(seq', trade'[s], Trades(seen'[s]))
      BY <3>1, <3>3
    <3>5. \E m \in Ticks \cup {NoTick} :
            IsLast(seq', m, Valid(s)' \cap Done') /\ m.px = quote'[s].px
      BY <3>1, <3>2, <3>3
    <3>6. InChain(s)' <=>
            /\ \A u \in Done' : u.sym = s /\ u.kind = Trade => u \in seen'[s]
            /\ \A u \in Done' \cap Valid(s)' : \E m \in Ticks \cup {NoTick} :
                 /\ IsLast(seq', m, {v \in Valid(s)' : Earlier(seq', v, u)})
                 /\ u \in seen'[s] <=> m.px # u.px
            /\ \E m \in Ticks \cup {NoTick} :
                 IsLast(seq', m, Valid(s)' \cap Done') /\ m.px = quote'[s].px
            /\ IsLast(seq', quote'[s], Quotes(seen'[s]))
            /\ IsLast(seq', trade'[s], Trades(seen'[s]))
      BY Zenon DEF InChain, Quotes, Trades
    <3> QED BY <2>3, <3>2, <3>4, <3>5, <3>6
  <2>5. ASSUME s \in job.active
        PROVE  BarClosed(s)'
    <3>1. lastBar[s] = {}
      <4>1. Punctual(s)
        BY <1>2 DEF Punctual
      <4> QED BY <1>1, <2>5, <4>1 DEF InvPunctual, BarClosed
    <3>2. \A k \in 0 .. 3 : barRing[s][k].bar = {}
      BY <1>1, <1>5, <2>5 DEF InvBars
    <3>3. BarSlot(nextSec' - Cadence) \in 0 .. 3
      BY <1>5, <1>6, BarSlotRange
    <3>4. nextSec' = FirstSecond' /\ lastBar' = lastBar /\ barRing' = barRing
      BY <1>2, <1>7
    <3> DEFINE k == BarSlot(nextSec' - Cadence)
    <3>5. barRing[s][k].bar = {}
      BY <3>2, <3>3
    <3>6. BarSlot(nextSec - Cadence)' = k
      BY DEF BarSlot
    <3> HIDE DEF k
    <3> QED BY <3>1, <3>4, <3>5, <3>6 DEF BarClosed
  <2> QED BY <1>2, <2>1, <2>4, <2>5
<1>20. InvBars'
  <2>1. \A s \in job.active : acc[s] = {} /\ \A k \in 0 .. 3 : barRing[s][k].bar = {}
    BY <1>1, <1>4, <1>5 DEF InvBars
  <2> QED BY <1>2, <1>4, <1>5, <1>12, <2>1 DEF InvBars
<1>21. LateCounted'
  <2>1. \A s \in job.active : Due(s)' = {}
    BY <1>4, <1>5, <1>12 DEF Due
  <2>2. Dropped' = {}
    BY <1>2, <2>1 DEF Dropped
  <2>3. late' = 0 /\ Cardinality({}) = 0
    BY <1>2, <1>4, FS_EmptySet
  <2> QED BY <2>2, <2>3, LateIsNext
<1>22. InvFrames'
  BY <1>2, <1>4 DEF InvFrames, frameVars
<1> QED BY <1>13, <1>14, <1>15, <1>16, <1>17, <1>18, <1>19, <1>20, <1>21, <1>22 DEF IInv

LEMMA BeginIngestStep ==
  ASSUME IInv, NEW t \in Ticks, BeginIngest(t)
  PROVE  IInv'
<1>1. InvTypes /\ InvPlace /\ InvAnchors /\ InvStream
  BY DEF IInv
<1>2. CASE nextSec = 0
  BY <1>2, FirstIngestStep
<1>3. CASE nextSec # 0
  <2>1. /\ TakeFromStream(t) /\ ~job.live /\ pc = "idle" /\ job.start <= t.ts
        /\ IF Accepts(t) THEN pc' = "ingest" /\ cur' = t /\ limit' = t.ts
                         ELSE UNCHANGED <<pc, cur, limit>>
        /\ UNCHANGED <<phaseNext, nextSec, symNext>>
        /\ UNCHANGED <<job, now, heap, historyVars, barRing, lastBar, acc, frameVars, late>>
    <3>1. t.ts \in Nat /\ job.start \in Nat
      BY <1>1, Constants DEF InvTypes, TypeOK
    <3> QED BY <1>3, <3>1 DEF BeginIngest, TakeFromStream
  <2>2. /\ t \in Arrived' /\ t \notin Arrived /\ Arrived' = Arrived \cup {t}
        /\ t \in wire /\ wire' = wire \ {t} /\ heap = {} /\ Done = Arrived /\ Ahead = wire
        /\ seq' \in [Ticks -> 0 .. Cardinality(Ticks)]
        /\ \A u \in Arrived : seq'[u] = seq[u]
        /\ \A u \in wire' : seq'[u] = 0
        /\ \A u \in Ticks : seq'[u] <= Cardinality(Arrived')
        /\ \A u, v \in Arrived' : seq'[u] = seq'[v] => u = v
        /\ \E u \in Arrived' : seq'[u] = 1
        /\ \A u \in Arrived', v \in wire' :
             \/ u.ts < v.ts
             \/ u.ts = v.ts /\ u.kind < v.kind
             \/ u.ts = v.ts /\ u.kind = v.kind /\ u.sym <= v.sym
        /\ \A u \in Arrived' : u.ts <= t.ts
    BY <2>1, Taken
  <2>3. nextSec \in Nat /\ nextSec > 0 /\ t.ts \in Nat /\ wire \subseteq Ticks
    BY <1>1, <1>3, Constants DEF InvTypes, TypeOK
  <2> DEFINE F == IF Accepts(t) THEN {} ELSE {t}
  <2>4. Done' = Done \cup F /\ Ahead' \subseteq Ahead
    <3>1. Pending' = IF Accepts(t) THEN {t} ELSE {}
      BY <2>1, <2>2 DEF Pending
    <3> QED BY <2>2, <3>1 DEF Done, Ahead
  <2>5. seen' = seen /\ quote' = quote /\ trade' = trade
    BY <2>1 DEF historyVars
  <2>6. InvTypes'
    <3>1. limit' \in Nat /\ cur' \in Ticks \cup {NoTick}
          /\ pc' \in {"idle", "flush", "ingest", "done"}
      BY <1>1, <2>1, <2>3 DEF InvTypes, TypeOK
    <3>2. wire' \subseteq Ticks
      BY <2>2, <2>3
    <3> QED BY <1>1, <2>1, <2>2, <2>5, <3>1, <3>2 DEF InvTypes, TypeOK, frameVars
  <2>7. InvPlace'
    <3>1. pc' = "ingest" => /\ ~job'.live /\ cur' \in Arrived' /\ job'.start <= cur'.ts
                            /\ limit' = cur'.ts /\ Accepts(cur)' /\ nextSec' > 0
      <4>1. pc' = "ingest" => Accepts(t) /\ cur' = t /\ limit' = t.ts
        BY <2>1
      <4>2. Accepts(t) /\ cur' = t => Accepts(cur)'
        BY <2>5 DEF Accepts
      <4> QED BY <2>1, <2>2, <2>3, <4>1, <4>2
    <3>2. \A s \in Symbols : seen'[s] \subseteq {u \in Done' : u.sym = s}
      BY <1>1, <2>4, <2>5 DEF InvPlace
    <3>3. heap' = {}
      BY <2>1, <2>2
    <3> QED BY <2>2, <3>1, <3>2, <3>3 DEF InvPlace
  <2>8. TakesUp(F)
    <3>1. \A s \in Symbols : Settles(s, F)
      BY <2>1, TakenSettles
    <3>2. \/ F = {} /\ UNCHANGED <<historyVars, acc, late>>
          \/ F = {t} /\ Applied(t) /\ ~Accepts(t)
      BY <2>1 DEF Applied
    <3>3. F \subseteq Ahead
      BY <2>2
    <3> HIDE DEF F
    <3>4. \/ F = {} /\ UNCHANGED <<historyVars, acc, late>>
          \/ \E u \in Ticks : /\ F = {u} /\ Applied(u)
                              /\ Accepts(u) => /\ u.ts < nextSec
                                               /\ \A p \in Phases : u.ts <= phaseNext[p]
      BY <3>2
    <3>5. /\ Arrived \cup wire \subseteq Arrived' \cup wire' /\ Arrived \subseteq Arrived'
          /\ \A u \in Arrived : seq'[u] = seq[u]
      BY <2>2
    <3> QED BY <2>1, <2>3, <2>4, <3>1, <3>3, <3>4, <3>5 DEF TakesUp, frameVars
  <2>9. InvStream'
    <3>1. FirstSecond' = FirstSecond
      BY <1>1, <2>1, <2>2, <2>3, <2>7, FirstSecondKept
    <3>2. \A u \in Ahead' : job.start <= u.ts => FirstSecond - Cadence <= u.ts
      BY <1>1, <2>1, <2>3, <2>4 DEF InvStream
    <3>3. \E u \in Arrived' : \A v \in Arrived' : v.ts <= u.ts
      BY <2>2
    <3>4. pc' \in {"idle", "ingest"} /\ job' = job /\ nextSec' = nextSec
      BY <2>1
    <3> QED BY <2>2, <3>1, <3>2, <3>3, <3>4 DEF InvStream
  <2>10. InvClock'
    BY <2>1 DEF InvClock
  <2> QED BY <2>6, <2>7, <2>8, <2>9, <2>10, TakesUpKeeps DEF IInv
<1> QED BY <1>2, <1>3

-----------------------------------------------------------------------------
(* The actions that close a second or a phase *)

(* Slots of bars less than four seconds apart are different. *)
LEMMA SlotsApart ==
  ASSUME NEW a \in Int, NEW n \in Int, Floor(a) = a, Floor(n) = n,
         n - 3 * Cadence <= a, a <= n - Cadence
  PROVE  BarSlot(a) # BarSlot(n)
<1> DEFINE i == a \div Cadence
           j == n \div Cadence
<1>1. Cadence \in Nat \ {0} /\ i \in Int /\ j \in Int /\ a = i * Cadence /\ n = j * Cadence
  BY Constants, FloorDivision DEF Floor
<1>2. BarSlot(a) = i % 4 /\ BarSlot(n) = j % 4
  BY DEF BarSlot
<1> HIDE DEF i, j
<1>3. (j - 3) * Cadence < (i + 1) * Cadence /\ i * Cadence < j * Cadence
  BY <1>1, SMT
<1>4. j - 3 < i + 1 /\ i < j
  BY <1>1, <1>3, CancelFactor
<1>5. i % 4 # j % 4
  <2>1. i = j - 1 \/ i = j - 2 \/ i = j - 3
    BY <1>1, <1>4
  <2> QED BY <1>1, <2>1, SMT
<1> QED BY <1>2, <1>5

LEMMA SlotOfFloor ==
  ASSUME NEW a \in Int
  PROVE  BarSlot(Floor(a)) = BarSlot(a)
<1>1. a \div Cadence \in Int /\ Cadence \in Nat \ {0}
  BY Constants, FloorDivision
<1>2. ((a \div Cadence) * Cadence) \div Cadence = a \div Cadence
  BY <1>1, MultipleQuotient
<1> QED BY <1>2 DEF BarSlot, Floor

(* While something is being closed at an anchor, what is ahead of the      *)
(* projector lies beyond the anchor.                                       *)
LEMMA AheadOfAnchor ==
  ASSUME IInv, Closing, NEW s \in Symbols, Punctual(s), NEW a \in Nat, a <= limit,
         NEW t \in Ahead, t.sym = s, t \in heap => a <= t.ts
  PROVE  /\ a <= t.ts
         /\ t \notin heap /\ (pc = "ingest" => a < limit) => a < t.ts
<1>1. InvTypes /\ InvPlace /\ InvClock /\ InvStream
  BY DEF IInv
<1>2. t \in Ticks /\ t.ts \in Nat /\ limit \in Nat /\ now \in Nat
      /\ Jitter[t] \in Nat /\ Watermark \in Nat
  BY <1>1, Apart, Constants DEF InvTypes, TypeOK
<1>3. CASE t \in heap
  BY <1>3
<1>4. CASE t \in wire /\ job.live
  <2>1. limit + Watermark <= now /\ now <= t.ts + Jitter[t]
    BY <1>1, <1>4 DEF InvClock, Closing, InvPlace
  <2>2. Jitter[t] < Watermark
    BY <1>4 DEF Punctual
  <2> QED BY <1>2, <2>1, <2>2
<1>5. CASE ~job.live
  <2>1. pc = "ingest"
    BY <1>1, <1>5 DEF InvStream, InvPlace, Closing, Ahead, Pending
  <2>2. cur \in Arrived /\ limit = cur.ts /\ cur.ts \in Nat /\ Pending = {cur}
    BY <1>1, <1>5, <2>1, Apart, Constants DEF InvPlace, Pending
  <2>3. limit <= t.ts
    BY <1>1, <1>2, <1>5, <2>2 DEF InvStream, Ahead
  <2> QED BY <1>2, <2>1, <2>3
<1>6. t \in heap \/ t \in wire \/ ~job.live
  BY <1>1 DEF Ahead, Pending, InvPlace
<1> QED BY <1>3, <1>4, <1>5, <1>6

LEMMA SameReferences ==
  ASSUME IInv, UNCHANGED <<job, wire, seq, historyVars>>, Pending' = Pending
  PROVE  /\ FirstSecond' = FirstSecond /\ Arrived' = Arrived /\ Done' = Done /\ Ahead' = Ahead
         /\ \A s \in Symbols : /\ Punctual(s)' => Punctual(s)
                               /\ InChain(s) => InChain(s)'
         /\ \A t, e : InBar(t, e)' <=> InBar(t, e)
         /\ \A s, a, row : RowAsOf(s, a, row) => RowAsOf(s, a, row)'
<1>1. FirstSecond' = FirstSecond
  BY DEF FirstSecond, Arrived
<1>2. Arrived' = Arrived
  BY DEF Arrived
<1>3. Done' = Done /\ Ahead' = Ahead
  BY <1>2 DEF Done, Ahead
<1>4. \A t, e : InBar(t, e)' <=> InBar(t, e)
  BY DEF InBar
<1>5. seq' = seq /\ seen' = seen /\ quote' = quote /\ trade' = trade
  BY DEF historyVars
<1>6. \A s \in Symbols : /\ Punctual(s)' => Punctual(s)
                         /\ InChain(s) => InChain(s)'
  <2> TAKE s \in Symbols
  <2>1. Punctual(s)' => Punctual(s)
    BY <1>2 DEF Punctual
  <2>2. Valid(s)' = Valid(s)
    BY <1>2 DEF Valid
  <2>3. InChain(s) => InChain(s)'
    BY <1>3, <1>5, <2>2 DEF InChain, Quotes, Trades
  <2> QED BY <2>1, <2>3
<1>7. \A s, a, row : RowAsOf(s, a, row) => RowAsOf(s, a, row)'
  <2> SUFFICES ASSUME NEW s, NEW a, NEW row, RowAsOf(s, a, row)
               PROVE  RowAsOf(s, a, row)'
    OBVIOUS
  <2>1. UpTo(seen[s], a)' = UpTo(seen[s], a)
    BY <1>5 DEF UpTo
  <2>2. {t \in seen[s] : InBar(t, Floor(a))}' = {t \in seen[s] : InBar(t, Floor(a))}
    BY <1>5 DEF InBar
  <2>3. \A t \in Ahead' : t.sym = s => a < t.ts
    BY <1>3 DEF RowAsOf
  <2>4. row.seen = UpTo(seen[s], a)'
    BY <2>1 DEF RowAsOf
  <2>5. row.bar = IF Floor(a) < FirstSecond' THEN {}
                  ELSE {t \in seen[s] : InBar(t, Floor(a))}'
    BY <1>1, <2>2 DEF RowAsOf
  <2>6. /\ IsLast(seq', row.quote, Quotes(UpTo(seen[s], a)'))
        /\ IsLast(seq', row.trade, Trades(UpTo(seen[s], a)'))
    BY <1>5, <2>1 DEF RowAsOf
  <2>7. row = [bar |-> row.bar, quote |-> row.quote, trade |-> row.trade, seen |-> row.seen]
    BY DEF RowAsOf
  <2> QED BY <2>3, <2>4, <2>5, <2>6, <2>7 DEF RowAsOf
<1> QED BY <1>1, <1>2, <1>3, <1>4, <1>6, <1>7

LEMMA CloseSecondStep ==
  ASSUME IInv, CloseSecond
  PROVE  IInv'
<1>1. /\ InvTypes /\ InvPlace /\ InvAnchors /\ InvSeen /\ InvClock /\ InvStream
      /\ InvPunctual /\ InvBars /\ LateCounted /\ InvFrames
  BY DEF IInv
<1>2. /\ Closing /\ SecondFirst /\ NothingToDrain
      /\ nextSec' = nextSec + Cadence
      /\ UNCHANGED <<job, clockVars, heap, pc, limit, cur, phaseNext, historyVars,
                     frameVars, late>>
  BY DEF CloseSecond
<1>3. /\ nextSec > 0 /\ nextSec <= limit
      /\ \A p \in Phases : PhaseDue(p) => nextSec <= phaseNext[p]
  BY <1>2 DEF SecondFirst, SecondDue
<1>4. /\ nextSec \in Nat /\ limit \in Nat /\ Cadence \in Nat \ {0}
      /\ job.active \subseteq Symbols /\ job.start \in Nat
      /\ \A p \in Phases : phaseNext[p] \in Nat
  BY <1>1, Constants DEF InvTypes, TypeOK
<1>5. /\ FirstSecond \in Nat /\ Floor(nextSec) = nextSec
      /\ nextSec = FirstSecond \/ FirstSecond <= nextSec - Cadence
      /\ \A p \in Phases : job.start < phaseNext[p] /\ nextSec - Cadence <= phaseNext[p]
      /\ \A s \in Symbols : symNext[s] = IF s \in job.active THEN nextSec ELSE FirstSecond
  BY <1>1, <1>3 DEF InvAnchors
<1>6. /\ UNCHANGED <<job, wire, seq, historyVars>> /\ Pending' = Pending
      /\ seen' = seen /\ quote' = quote /\ trade' = trade /\ frame' = frame /\ late' = late
      /\ now' = now /\ phaseNext' = phaseNext
  BY <1>2 DEF clockVars, historyVars, frameVars, Pending
<1>7. /\ FirstSecond' = FirstSecond /\ Arrived' = Arrived /\ Done' = Done /\ Ahead' = Ahead
      /\ \A s \in Symbols : /\ Punctual(s)' => Punctual(s)
                            /\ InChain(s) => InChain(s)'
      /\ \A t, e : InBar(t, e)' <=> InBar(t, e)
      /\ \A s, a, row : RowAsOf(s, a, row) => RowAsOf(s, a, row)'
  BY <1>6, SameReferences
<1>8. \A s \in job.active : symNext[s] <= nextSec
  BY <1>4, <1>5
<1>9. /\ barRing' = [s \in Symbols |-> IF s \in job.active
            THEN [barRing[s] EXCEPT ![BarSlot(nextSec)] = [anchor |-> nextSec, bar |-> acc[s]]]
            ELSE barRing[s]]
      /\ lastBar' = [s \in Symbols |-> IF s \in job.active THEN acc[s] ELSE lastBar[s]]
      /\ acc' = [s \in Symbols |-> IF s \in job.active THEN {} ELSE acc[s]]
      /\ symNext' = [s \in Symbols |-> IF s \in job.active THEN nextSec + Cadence
                                                          ELSE symNext[s]]
  <2>1. {s \in job.active : symNext[s] <= nextSec} = job.active
    BY <1>8
  <2> QED BY <2>1 DEF CloseSecond
<1>10. BarSlot(nextSec) \in 0 .. 3
  BY <1>4, BarSlotRange
<1>11. InvTypes'
  <2>1. /\ acc \in [Symbols -> SUBSET Ticks] /\ symNext \in [Symbols -> Nat]
        /\ lastBar \in [Symbols -> SUBSET Ticks]
        /\ barRing \in [Symbols -> [0 .. 3 -> [anchor : Nat, bar : SUBSET Ticks]]]
    BY <1>1 DEF InvTypes, TypeOK
  <2>2. /\ acc' \in [Symbols -> SUBSET Ticks] /\ symNext' \in [Symbols -> Nat]
        /\ lastBar' \in [Symbols -> SUBSET Ticks] /\ nextSec' \in Nat
    BY <1>2, <1>4, <1>9, <2>1
  <2>3. barRing' \in [Symbols -> [0 .. 3 -> [anchor : Nat, bar : SUBSET Ticks]]]
    <3>1. ASSUME NEW s \in Symbols
          PROVE  [barRing[s] EXCEPT ![BarSlot(nextSec)] = [anchor |-> nextSec, bar |-> acc[s]]]
                   \in [0 .. 3 -> [anchor : Nat, bar : SUBSET Ticks]]
      <4>1. [anchor |-> nextSec, bar |-> acc[s]] \in [anchor : Nat, bar : SUBSET Ticks]
        BY <1>4, <2>1
      <4>2. barRing[s] \in [0 .. 3 -> [anchor : Nat, bar : SUBSET Ticks]]
        BY <2>1
      <4> QED BY <4>1, <4>2
    <3> QED BY <1>9, <2>1, <3>1
  <2> QED BY <1>1, <1>2, <1>6, <2>2, <2>3 DEF InvTypes, TypeOK, frameVars
<1>12. InvPlace'
  <2>1. Accepts(cur)' <=> Accepts(cur)
    BY <1>2, <1>6 DEF Accepts
  <2>2. nextSec' > 0
    BY <1>2, <1>3, <1>4
  <2> QED BY <1>1, <1>2, <1>6, <1>7, <2>1, <2>2 DEF InvPlace
<1>13. InvAnchors'
  <2>1. Floor(nextSec') = nextSec'
    BY <1>2, <1>4, <1>5, NextOnLattice
  <2>2. \A p \in Phases : nextSec <= phaseNext[p]
    <3> SUFFICES ASSUME NEW p \in Phases, ~PhaseDue(p) PROVE nextSec <= phaseNext[p]
      BY <1>3
    <3>1. phaseNext[p] > 0
      BY <1>4, <1>5
    <3>2. ~(phaseNext[p] < limit)
      BY <1>4, <3>1 DEF PhaseDue
    <3> QED BY <1>3, <1>4, <3>2
  <2>3. nextSec' - Cadence = nextSec /\ nextSec' > 0
    BY <1>2, <1>3, <1>4
  <2>4. FirstSecond <= nextSec
    BY <1>4, <1>5
  <2>5. Floor(nextSec)' = Floor(nextSec')
    BY DEF Floor
  <2>6. \A s \in Symbols : symNext'[s] = IF s \in job.active THEN nextSec' ELSE FirstSecond
    BY <1>2, <1>5, <1>9
  <2>7. /\ job.start < FirstSecond /\ (job.start = 0 => Arrived # {})
        /\ job.start > 0 => FirstSecond - Cadence <= job.start
    BY <1>1, <1>3 DEF InvAnchors
  <2> QED BY <1>4, <1>5, <1>6, <1>7, <2>1, <2>2, <2>3, <2>4, <2>5, <2>6, <2>7
          DEF InvAnchors
<1>14. InvSeen'
  <2>1. \A s \in Symbols : \A t \in seen[s] : t.ts < nextSec /\ t.ts \in Nat
    <3>1. \A s \in Symbols : seen[s] \subseteq Ticks
      BY <1>1 DEF InvTypes, TypeOK
    <3> QED BY <1>1, <3>1, Constants DEF InvSeen
  <2> QED BY <1>1, <1>2, <1>4, <1>6, <2>1 DEF InvSeen
<1>15. InvClock'
  BY <1>1, <1>2, <1>6, <1>7 DEF InvClock
<1>16. InvStream'
  <2>1. nextSec' > 0 /\ nextSec > 0
    BY <1>2, <1>3, <1>4
  <2> QED BY <1>1, <1>2, <1>6, <1>7, <2>1 DEF InvStream
<1>17. InvPunctual'
  <2> SUFFICES ASSUME NEW s \in Symbols, Punctual(s)'
               PROVE  InOrder(s)' /\ InChain(s)' /\ (s \in job.active => BarClosed(s)')
    BY <1>6 DEF InvPunctual
  <2>1. Punctual(s) /\ InOrder(s) /\ InChain(s)
    BY <1>1, <1>7 DEF InvPunctual
  <2>2. ASSUME NEW t \in Ahead, t.sym = s
        PROVE  nextSec <= t.ts
    <3>1. t \in heap => nextSec <= t.ts
      <4>1. ASSUME t \in heap PROVE ~(t.ts < nextSec) /\ t.ts \in Nat
        <5>1. pc = "flush" /\ job.live
          BY <1>1, <1>2, <4>1 DEF Closing, InvPlace
        <5> QED BY <1>1, <1>2, <4>1, <5>1, Apart, Constants DEF NothingToDrain, Drainable
      <4> QED BY <1>4, <4>1
    <3> QED BY <1>2, <1>3, <1>4, <2>1, <2>2, <3>1, AheadOfAnchor
  <2>3. InOrder(s)'
    BY <1>2, <1>4, <1>6, <1>7, <2>1, <2>2 DEF InOrder
  <2>4. ASSUME s \in job.active
        PROVE  BarClosed(s)'
    <3>1. lastBar'[s] = acc[s] /\ acc[s] = {t \in seen[s] : InBar(t, nextSec)}
      BY <1>1, <1>9, <2>4 DEF InvBars
    <3>2. nextSec' - Cadence = nextSec /\ nextSec' # FirstSecond /\ nextSec' # 0
      BY <1>2, <1>3, <1>4, <1>5
    <3>3. barRing'[s][BarSlot(nextSec)] = [anchor |-> nextSec, bar |-> acc[s]]
      <4>1. barRing[s] \in [0 .. 3 -> [anchor : Nat, bar : SUBSET Ticks]]
        BY <1>1 DEF InvTypes, TypeOK
      <4> QED BY <1>9, <1>10, <2>4, <4>1
    <3>4. BarSlot(nextSec - Cadence)' = BarSlot(nextSec)
      BY <3>2 DEF BarSlot
    <3>5. \A t : InBar(t, nextSec - Cadence)' <=> InBar(t, nextSec)
      BY <1>6, <3>2 DEF InBar
    <3>6. lastBar'[s] = {t \in seen'[s] : InBar(t, nextSec - Cadence)'}
      BY <1>6, <3>1, <3>5
    <3>7. barRing'[s][BarSlot(nextSec - Cadence)'].bar = lastBar'[s]
      BY <3>1, <3>3, <3>4
    <3> QED BY <1>7, <3>2, <3>6, <3>7 DEF BarClosed
  <2> QED BY <1>7, <2>1, <2>3, <2>4
<1>18. InvBars'
  <2> SUFFICES ASSUME NEW s \in job.active
               PROVE
                 /\ acc'[s] = {t \in seen[s] : InBar(t, nextSec')}
                 /\ \A k \in 0 .. 3 : LET kept == barRing'[s][k]
                                      IN  kept.bar # {} =>
                      /\ \A t \in kept.bar : t \in seen[s] /\ InBar(t, kept.anchor)
                      /\ FirstSecond <= kept.anchor /\ kept.anchor <= nextSec' - Cadence
                      /\ Floor(kept.anchor) = kept.anchor /\ BarSlot(kept.anchor) = k
    BY <1>6, <1>7 DEF InvBars, Floor, BarSlot
  <2>1. acc'[s] = {t \in seen[s] : InBar(t, nextSec')}
    <3>1. \A t \in seen[s] : t.ts < nextSec /\ t.ts \in Nat
      <4>1. seen[s] \subseteq Ticks
        BY <1>1, <1>4 DEF InvTypes, TypeOK
      <4> QED BY <1>1, <1>4, <4>1, Constants DEF InvSeen
    <3>2. \A t \in seen[s] : ~InBar(t, nextSec')
      BY <1>2, <1>4, <3>1 DEF InBar
    <3>3. acc'[s] = {}
      BY <1>4, <1>9
    <3> QED BY <3>2, <3>3
  <2>2. ASSUME NEW k \in 0 .. 3, barRing'[s][k].bar # {}
        PROVE  LET kept == barRing'[s][k]
               IN  /\ \A t \in kept.bar : t \in seen[s] /\ InBar(t, kept.anchor)
                   /\ FirstSecond <= kept.anchor /\ kept.anchor <= nextSec' - Cadence
                   /\ Floor(kept.anchor) = kept.anchor /\ BarSlot(kept.anchor) = k
    <3>1. barRing[s] \in [0 .. 3 -> [anchor : Nat, bar : SUBSET Ticks]]
      BY <1>1, <1>4 DEF InvTypes, TypeOK
    <3>2. barRing'[s] = [barRing[s] EXCEPT ![BarSlot(nextSec)] =
                                              [anchor |-> nextSec, bar |-> acc[s]]]
      BY <1>4, <1>9
    <3>3. CASE k = BarSlot(nextSec)
      <4>1. barRing'[s][k] = [anchor |-> nextSec, bar |-> acc[s]]
        BY <3>1, <3>2, <3>3
      <4>2. acc[s] = {t \in seen[s] : InBar(t, nextSec)}
        BY <1>1 DEF InvBars
      <4> QED BY <1>2, <1>4, <1>5, <3>3, <4>1, <4>2
    <3>4. CASE k # BarSlot(nextSec)
      <4>1. barRing'[s][k] = barRing[s][k] /\ barRing[s][k].anchor \in Nat
        BY <3>1, <3>2, <3>4
      <4> QED BY <1>1, <1>2, <1>4, <2>2, <4>1 DEF InvBars
    <3> QED BY <3>3, <3>4
  <2> QED BY <2>1, <2>2
<1>19. LateCounted'
  <2> SUFFICES ASSUME RingCovers' PROVE late' = Cardinality(Dropped')
    BY LateIsNext
  <2>1. nextSec + Cadence <= FirstSecond + 4 * Cadence
    BY <1>2, <1>3, <1>4, <1>7 DEF RingCovers
  <2>2. late = Cardinality(Dropped)
    BY <1>1, <1>4, <1>5, <2>1, LateIs DEF RingCovers
  <2>3. ASSUME NEW s \in job.active
        PROVE  Kept(s)' = Kept(s) /\ Due(s)' = Due(s)
    <3> DEFINE b == BarSlot(nextSec)
    <3>1. barRing[s] \in [0 .. 3 -> [anchor : Nat, bar : SUBSET Ticks]]
      BY <1>1, <1>4 DEF InvTypes, TypeOK
    <3>2. barRing[s][b].bar = {}
      <4> SUFFICES ASSUME barRing[s][b].bar # {} PROVE FALSE
        OBVIOUS
      <4> DEFINE a == barRing[s][b].anchor
      <4>1. /\ FirstSecond <= a /\ a <= nextSec - Cadence /\ Floor(a) = a /\ BarSlot(a) = b
            /\ a \in Nat
        BY <1>1, <1>10, <3>1 DEF InvBars
      <4>2. nextSec - 3 * Cadence <= a
        BY <1>4, <1>5, <2>1, <4>1
      <4> HIDE DEF a
      <4> QED BY <1>4, <1>5, <4>1, <4>2, SlotsApart
    <3>3. barRing'[s] = [barRing[s] EXCEPT ![b] = [anchor |-> nextSec, bar |-> acc[s]]]
      BY <1>4, <1>9
    <3>4. /\ barRing'[s][b].bar = acc[s]
          /\ \A k \in (0 .. 3) \ {b} : barRing'[s][k].bar = barRing[s][k].bar
      BY <1>10, <3>1, <3>3
    <3>5. acc'[s] = {}
      BY <1>4, <1>9
    <3>6. Kept(s)' = Kept(s)
      <4>1. \A x : x \in Kept(s)' <=> \E k \in 0 .. 3 : x \in barRing'[s][k].bar
        BY <3>5 DEF Kept
      <4>2. \A x : x \in Kept(s) <=> x \in acc[s] \/ \E k \in 0 .. 3 : x \in barRing[s][k].bar
        BY DEF Kept
      <4>3. \A x : x \in Kept(s)' <=> x \in Kept(s)
        BY <1>10, <3>2, <3>4, <4>1, <4>2
      <4> QED BY <4>3 DEF Kept
    <3> QED BY <1>6, <3>6 DEF Due
  <2>4. Dropped' = Dropped
    BY <1>6, <2>3 DEF Dropped
  <2> QED BY <1>6, <2>2, <2>4
<1>20. InvFrames'
  BY <1>1, <1>4, <1>6, <1>7 DEF InvFrames
<1> QED BY <1>11, <1>12, <1>13, <1>14, <1>15, <1>16, <1>17, <1>18, <1>19, <1>20 DEF IInv

(* The anchor of the phase being closed lies in the second before the next *)
(* one, and everything up to it has been applied.                          *)
LEMMA PhaseBeforeSecond ==
  ASSUME IInv, Closing, NEW p \in Phases, PhaseFirst(p)
  PROVE  /\ nextSec > 0 /\ phaseNext[p] \in Nat /\ phaseNext[p] > 0
         /\ phaseNext[p] <= limit /\ (pc = "ingest" => phaseNext[p] < limit)
         /\ phaseNext[p] < nextSec /\ Floor(phaseNext[p]) = nextSec - Cadence
<1>1. InvTypes /\ InvAnchors /\ PhaseDue(p) /\ ~SecondFirst
  BY DEF IInv, PhaseFirst
<1>2. /\ nextSec \in Nat /\ limit \in Nat /\ Cadence \in Nat \ {0}
      /\ \A q \in Phases : phaseNext[q] \in Nat
  BY <1>1, Constants DEF InvTypes, TypeOK
<1>3. /\ phaseNext[p] > 0 /\ phaseNext[p] <= limit
      /\ pc = "ingest" => phaseNext[p] < limit
  BY <1>1, <1>2 DEF PhaseDue
<1>4. nextSec > 0
  BY <1>1, <1>2, <1>3 DEF InvAnchors
<1>5. phaseNext[p] < nextSec
  <2>1. CASE nextSec <= limit
    <3>1. PICK q \in Phases : PhaseDue(q) /\ ~(nextSec <= phaseNext[q])
      BY <1>1, <1>4, <2>1 DEF SecondFirst, SecondDue
    <3>2. phaseNext[p] <= phaseNext[q]
      BY <1>2, <3>1 DEF PhaseFirst
    <3> QED BY <1>2, <3>1, <3>2
  <2>2. CASE ~(nextSec <= limit)
    BY <1>2, <1>3, <2>2
  <2> QED BY <2>1, <2>2
<1>6. Floor(nextSec) = nextSec /\ nextSec - Cadence <= phaseNext[p]
  BY <1>1, <1>4 DEF InvAnchors
<1>7. Floor(phaseNext[p]) = nextSec - Cadence
  BY <1>2, <1>5, <1>6, FloorOf
<1> QED BY <1>2, <1>3, <1>4, <1>5, <1>7

LEMMA RowOfFrame ==
  ASSUME IInv, Closing, NothingToDrain, NEW p \in Phases, PhaseFirst(p),
         NEW s \in job.active, Punctual(s)
  PROVE  RowAsOf(s, phaseNext[p], Row(s, phaseNext[p]))
<1> DEFINE a == phaseNext[p]
           row == Row(s, a)
           kept == barRing[s][BarSlot(a)]
<1>1. InvTypes /\ InvPlace /\ InvAnchors /\ InvSeen /\ InvPunctual
  BY DEF IInv
<1>2. /\ nextSec > 0 /\ a \in Nat /\ a <= limit /\ (pc = "ingest" => a < limit)
      /\ a < nextSec /\ Floor(a) = nextSec - Cadence
  BY PhaseBeforeSecond
<1>3. /\ s \in Symbols /\ nextSec \in Nat /\ Cadence \in Nat \ {0} /\ limit \in Nat
  BY <1>1, Constants DEF InvTypes, TypeOK
<1>4. InChain(s) /\ BarClosed(s)
  BY <1>1, <1>3 DEF InvPunctual
<1>5. ASSUME NEW t \in Ahead, t.sym = s
      PROVE  a < t.ts
  <2>1. t \in heap => a < t.ts
    <3> SUFFICES ASSUME t \in heap PROVE a < t.ts
      OBVIOUS
    <3>1. pc = "flush" /\ job.live
      BY <1>1 DEF Closing, InvPlace
    <3>2. ~Drainable(t) /\ t.ts \in Nat
      BY <1>1, <3>1, Apart, Constants DEF NothingToDrain
    <3>3. ~(t.ts <= phaseNext[p])
      BY <3>2 DEF Drainable, PhaseFirst
    <3> QED BY <1>2, <3>2, <3>3
  <2>2. t \in heap => a <= t.ts
    <3>1. t.ts \in Nat
      BY <1>1, Apart, Constants
    <3> QED BY <1>2, <2>1, <3>1
  <2> HIDE DEF a
  <2>3. a \in Nat /\ a <= limit /\ t.sym = s
    BY <1>2, <1>5
  <2>4. t \notin heap /\ (pc = "ingest" => a < limit) => a < t.ts
    BY <1>3, <2>2, <2>3, AheadOfAnchor
  <2> QED BY <1>2, <2>1, <2>4
<1>6. UpTo(seen[s], a) = seen[s]
  BY <1>1, <1>3 DEF InvSeen, UpTo
<1>7. row = [bar |-> IF kept.anchor = Floor(a) THEN kept.bar ELSE lastBar[s],
             quote |-> quote[s], trade |-> trade[s], seen |-> seen[s]]
  BY DEF Row
<1>8. BarSlot(nextSec - Cadence) = BarSlot(a)
  BY <1>2, SlotOfFloor
<1>9. row.bar = lastBar[s]
  <2>1. kept.anchor = Floor(a) => kept.bar = lastBar[s]
    BY <1>2, <1>4, <1>8 DEF BarClosed
  <2> QED BY <1>7, <2>1
<1>10. row.bar = IF Floor(a) < FirstSecond THEN {}
                 ELSE {t \in seen[s] : InBar(t, Floor(a))}
  <2>1. FirstSecond \in Nat /\ (nextSec = FirstSecond \/ FirstSecond <= nextSec - Cadence)
    BY <1>1, <1>2 DEF InvAnchors
  <2>2. nextSec = FirstSecond <=> Floor(a) < FirstSecond
    BY <1>2, <1>3, <2>1
  <2> QED BY <1>2, <1>4, <1>9, <2>2 DEF BarClosed
<1>11. /\ row.seen = seen[s] /\ row.quote = quote[s] /\ row.trade = trade[s]
       /\ row = [bar |-> row.bar, quote |-> row.quote, trade |-> row.trade, seen |-> row.seen]
  BY <1>7
<1>12. IsLast(seq, quote[s], Quotes(seen[s])) /\ IsLast(seq, trade[s], Trades(seen[s]))
  BY <1>4 DEF InChain
<1> HIDE DEF row, a
<1> QED BY <1>5, <1>6, <1>10, <1>11, <1>12 DEF RowAsOf, row, a

LEMMA ClosePhaseStep ==
  ASSUME IInv, NEW p \in Phases, ClosePhase(p)
  PROVE  IInv'
<1>1. /\ InvTypes /\ InvPlace /\ InvAnchors /\ InvSeen /\ InvClock /\ InvStream
      /\ InvPunctual /\ InvBars /\ LateCounted /\ InvFrames
  BY DEF IInv
<1>2. /\ Closing /\ PhaseFirst(p) /\ NothingToDrain
      /\ frame' = [frame EXCEPT ![p] =
           [anchor |-> phaseNext[p],
            rows |-> [s \in Members[p] \cap job.active |-> Row(s, phaseNext[p])]]]
      /\ lastWritten' = phaseNext[p]
      /\ phaseNext' = [phaseNext EXCEPT ![p] = @ + Cadence]
      /\ UNCHANGED <<job, clockVars, heap, pc, limit, cur, nextSec, historyVars, barVars,
                     acc, late>>
  BY DEF ClosePhase
<1>3. nextSec > 0 /\ phaseNext[p] \in Nat /\ phaseNext[p] > 0
  BY <1>2, PhaseBeforeSecond
<1>4. /\ UNCHANGED <<job, wire, seq, historyVars>> /\ Pending' = Pending
      /\ seen' = seen /\ quote' = quote /\ trade' = trade /\ now' = now
      /\ symNext' = symNext /\ barRing' = barRing /\ lastBar' = lastBar
  BY <1>2 DEF clockVars, historyVars, barVars, Pending
<1>5. /\ FirstSecond' = FirstSecond /\ Arrived' = Arrived /\ Done' = Done /\ Ahead' = Ahead
      /\ \A s \in Symbols : /\ Punctual(s)' => Punctual(s)
                            /\ InChain(s) => InChain(s)'
      /\ \A t, e : InBar(t, e)' <=> InBar(t, e)
      /\ \A s, a, row : RowAsOf(s, a, row) => RowAsOf(s, a, row)'
  BY <1>4, SameReferences
<1>6. /\ Cadence \in Nat \ {0} /\ nextSec \in Nat /\ job.active \subseteq Symbols
      /\ job.start \in Nat
      /\ phaseNext \in [Phases -> Nat] /\ frame = [q \in Phases |-> frame[q]]
  BY <1>1, Constants DEF InvTypes, TypeOK
<1>7. /\ phaseNext' \in [Phases -> Nat]
      /\ \A q \in Phases : phaseNext[q] <= phaseNext'[q]
  BY <1>2, <1>6
<1>8. /\ \A q \in Phases \ {p} : frame'[q] = frame[q]
      /\ frame'[p] = [anchor |-> phaseNext[p],
                      rows |-> [s \in Members[p] \cap job.active |-> Row(s, phaseNext[p])]]
      /\ frame' = [q \in Phases |-> frame'[q]]
  BY <1>2, <1>6
<1>9. InvTypes'
  BY <1>1, <1>2, <1>3, <1>4, <1>7, <1>8 DEF InvTypes, TypeOK
<1>10. InvPlace'
  <2>1. Accepts(cur)' <=> Accepts(cur)
    BY <1>2, <1>4 DEF Accepts
  <2> QED BY <1>1, <1>2, <1>4, <1>5, <2>1 DEF InvPlace
<1>11. InvAnchors'
  <2>1. \A q \in Phases : job.start < phaseNext'[q] /\ nextSec - Cadence <= phaseNext'[q]
    <3>1. \A q \in Phases : job.start < phaseNext[q] /\ nextSec - Cadence <= phaseNext[q]
      BY <1>1, <1>3 DEF InvAnchors
    <3> QED BY <1>6, <1>7, <3>1
  <2>2. nextSec' = nextSec /\ ~(nextSec = 0)
    BY <1>2, <1>3
  <2>3. Floor(nextSec)' = Floor(nextSec)
    BY <2>2 DEF Floor
  <2> QED BY <1>1, <1>3, <1>4, <1>5, <2>1, <2>2, <2>3 DEF InvAnchors
<1>12. InvSeen'
  <2> SUFFICES ASSUME NEW s \in Symbols, NEW t \in seen[s], NEW q \in Phases
               PROVE  t.ts <= phaseNext'[q]
    BY <1>1, <1>2, <1>4 DEF InvSeen
  <2>1. t.ts \in Nat /\ t.ts <= phaseNext[q]
    BY <1>1, Constants DEF InvSeen, InvTypes, TypeOK
  <2> QED BY <1>6, <1>7, <2>1
<1>13. InvClock'
  BY <1>1, <1>2, <1>4, <1>5 DEF InvClock
<1>14. InvStream'
  BY <1>1, <1>2, <1>4, <1>5 DEF InvStream
<1>15. InvPunctual'
  <2> SUFFICES ASSUME NEW s \in Symbols, Punctual(s)'
               PROVE  InOrder(s)' /\ InChain(s)' /\ (s \in job.active => BarClosed(s)')
    BY <1>4 DEF InvPunctual
  <2>1. InOrder(s) /\ InChain(s) /\ (s \in job.active => BarClosed(s))
    BY <1>1, <1>5 DEF InvPunctual
  <2>2. InOrder(s)'
    BY <1>2, <1>4, <1>5, <2>1 DEF InOrder
  <2>3. BarClosed(s) => BarClosed(s)'
    BY <1>2, <1>4, <1>5 DEF BarClosed, BarSlot, InBar
  <2> QED BY <1>5, <2>1, <2>2, <2>3
<1>16. InvBars'
  BY <1>1, <1>2, <1>4, <1>5 DEF InvBars, BarSlot, Floor
<1>17. LateCounted'
  <2>1. Dropped' = Dropped
    BY <1>2, <1>4 DEF Dropped, Due, Kept
  <2>2. RingCovers' <=> RingCovers
    BY <1>2, <1>5 DEF RingCovers
  <2> QED BY <1>1, <1>2, <2>1, <2>2, LateIs, LateIsNext
<1>18. InvFrames'
  <2> SUFFICES ASSUME NEW q \in Phases, frame'[q] # NoFrame
               PROVE  /\ frame'[q].anchor \in Nat
                      /\ \A s \in Members[q] \cap job.active :
                           Punctual(s)' => RowAsOf(s, frame[q].anchor, frame[q].rows[s])'
    BY <1>4 DEF InvFrames
  <2>1. CASE q # p
    <3>1. frame'[q] = frame[q] /\ frame[q] # NoFrame
      BY <1>8, <2>1
    <3>2. frame[q].anchor \in Nat
      BY <1>1, <3>1 DEF InvFrames
    <3>3. ASSUME NEW s \in Members[q] \cap job.active, Punctual(s)'
          PROVE  RowAsOf(s, frame[q].anchor, frame[q].rows[s])'
      <4>1. RowAsOf(s, frame[q].anchor, frame[q].rows[s])
        BY <1>1, <1>5, <1>6, <3>1, <3>3 DEF InvFrames
      <4> DEFINE anchor == frame[q].anchor
                 row == frame[q].rows[s]
      <4>2. PICK a, r : a = frame[q].anchor /\ r = frame[q].rows[s]
        OBVIOUS
      <4>3. RowAsOf(s, a, r)'
        BY <1>5, <4>1, <4>2
      <4>4. frame'[q].anchor = a /\ frame'[q].rows[s] = r
        BY <3>1, <4>2
      <4> QED BY <4>3, <4>4 DEF RowAsOf, UpTo, InBar
    <3> QED BY <3>1, <3>2, <3>3
  <2>2. CASE q = p
    <3>1. frame'[q].anchor = phaseNext[p]
          /\ \A s \in Members[q] \cap job.active : frame'[q].rows[s] = Row(s, phaseNext[p])
      BY <1>8, <2>2
    <3>2. ASSUME NEW s \in Members[q] \cap job.active, Punctual(s)'
          PROVE  RowAsOf(s, frame[q].anchor, frame[q].rows[s])'
      <4>1. RowAsOf(s, phaseNext[p], Row(s, phaseNext[p]))
        BY <1>2, <1>5, <1>6, <3>2, RowOfFrame
      <4>2. PICK a, r : a = phaseNext[p] /\ r = Row(s, phaseNext[p])
        OBVIOUS
      <4>3. RowAsOf(s, a, r)'
        BY <1>5, <4>1, <4>2
      <4>4. frame'[q].anchor = a /\ frame'[q].rows[s] = r
        BY <3>1, <4>2
      <4> QED BY <4>3, <4>4 DEF RowAsOf, UpTo, InBar
    <3> QED BY <1>3, <3>1, <3>2
  <2> QED BY <2>1, <2>2
<1> QED BY <1>9, <1>10, <1>11, <1>12, <1>13, <1>14, <1>15, <1>16, <1>17, <1>18 DEF IInv

-----------------------------------------------------------------------------
(* The actions that touch no tick, bar or frame *)

LEMMA QuietKeeps ==
  ASSUME IInv, Pending' = Pending,
         UNCHANGED <<job, wire, seq, phaseNext, nextSec, historyVars, barVars, acc,
                     frameVars, late>>
  PROVE  InvAnchors' /\ InvSeen' /\ InvPunctual' /\ InvBars' /\ LateCounted' /\ InvFrames'
<1>1. InvAnchors /\ InvSeen /\ InvPunctual /\ InvBars /\ LateCounted /\ InvFrames /\ InvTypes
  BY DEF IInv
<1>2. /\ UNCHANGED <<job, wire, seq, phaseNext, nextSec, seen, symNext, barRing, lastBar, acc,
                     frame, late>>
      /\ job.active \subseteq Symbols
  BY <1>1, Constants DEF historyVars, barVars, frameVars, InvTypes, TypeOK
<1>3. /\ FirstSecond' = FirstSecond /\ Arrived' = Arrived /\ Done' = Done /\ Ahead' = Ahead
      /\ \A s \in Symbols : /\ Punctual(s)' => Punctual(s)
                            /\ InChain(s) => InChain(s)'
      /\ \A t, e : InBar(t, e)' <=> InBar(t, e)
      /\ \A s, a, row : RowAsOf(s, a, row) => RowAsOf(s, a, row)'
  BY SameReferences
<1>4. InvAnchors'
  BY <1>1, <1>2, <1>3 DEF InvAnchors, Floor
<1>5. InvSeen'
  BY <1>1, <1>2 DEF InvSeen
<1>6. InvPunctual'
  <2> SUFFICES ASSUME NEW s \in Symbols, Punctual(s)'
               PROVE  InOrder(s)' /\ InChain(s)' /\ (s \in job.active => BarClosed(s)')
    BY <1>2 DEF InvPunctual
  <2>1. InOrder(s) /\ InChain(s) /\ (s \in job.active => BarClosed(s))
    BY <1>1, <1>3 DEF InvPunctual
  <2>2. InOrder(s)'
    BY <1>2, <1>3, <2>1 DEF InOrder
  <2>3. BarClosed(s) => BarClosed(s)'
    BY <1>2, <1>3 DEF BarClosed, BarSlot, InBar
  <2> QED BY <1>3, <2>1, <2>2, <2>3
<1>7. InvBars'
  BY <1>1, <1>2, <1>3 DEF InvBars, BarSlot, Floor
<1>8. LateCounted'
  <2>1. Dropped' = Dropped
    BY <1>2 DEF Dropped, Due, Kept
  <2>2. RingCovers' <=> RingCovers
    BY <1>2, <1>3 DEF RingCovers
  <2> QED BY <1>1, <1>2, <2>1, <2>2, LateIs, LateIsNext
<1>9. InvFrames'
  BY <1>1, <1>2, <1>3 DEF InvFrames
<1> QED BY <1>4, <1>5, <1>6, <1>7, <1>8, <1>9

LEMMA QuietPlace ==
  ASSUME IInv, UNCHANGED <<job, wire, seq, heap, cur, nextSec, historyVars>>,
         pc # "ingest", pc' # "ingest"
  PROVE  InvPlace' /\ Pending' = Pending
<1>1. Arrived' = Arrived
  BY DEF Arrived
<1>2. Pending' = Pending
  BY DEF Pending
<1>3. Done' = Done
  BY <1>1, <1>2 DEF Done
<1>4. seen' = seen
  BY DEF historyVars
<1> QED BY <1>1, <1>2, <1>3, <1>4 DEF IInv, InvPlace

LEMMA AdvanceStep == ASSUME IInv, Advance PROVE IInv'
<1>1. InvTypes /\ InvClock /\ InvStream
  BY DEF IInv
<1>2. /\ job.live /\ pc = "idle" /\ now' = now + 1
      /\ \A t \in wire : now < t.ts + Jitter[t]
      /\ UNCHANGED <<wire, seq, heap, pc, limit, cur, anchorVars, historyVars, barVars,
                     acc, frameVars, late>>
      /\ UNCHANGED <<job, phaseNext, nextSec>>
  BY DEF Advance, anchorVars
<1>3. InvPlace' /\ Pending' = Pending
  BY <1>2, QuietPlace
<1>4. InvTypes'
  BY <1>1, <1>2 DEF InvTypes, TypeOK, historyVars, barVars, frameVars
<1>5. InvClock'
  <2>1. /\ now \in Nat /\ limit \in Nat /\ Watermark \in Nat
        /\ \A t \in wire : t.ts \in Nat /\ Jitter[t] \in Nat
    BY <1>1, Constants DEF InvTypes, TypeOK
  <2>2. \A t \in wire : now' <= t.ts + Jitter[t]
    BY <1>2, <2>1
  <2>3. limit > 0 => limit + Watermark <= now'
    BY <1>1, <1>2, <2>1 DEF InvClock
  <2>4. Done' = Done
    BY <1>2, <1>3 DEF Done, Arrived
  <2> QED BY <1>1, <1>2, <2>2, <2>3, <2>4 DEF InvClock
<1>6. InvStream'
  BY <1>2 DEF InvStream
<1> QED BY <1>2, <1>3, <1>4, <1>5, <1>6, QuietKeeps DEF IInv

LEMMA FlushNowStep == ASSUME IInv, FlushNow PROVE IInv'
<1>1. InvTypes /\ InvClock /\ InvStream
  BY DEF IInv
<1>2. /\ job.live /\ pc = "idle" /\ now > Watermark /\ limit' = now - Watermark
      /\ pc' = "flush"
      /\ UNCHANGED <<clockVars, heap, cur, anchorVars, historyVars, barVars, acc,
                     frameVars, late>>
      /\ UNCHANGED <<job, phaseNext, nextSec, now, wire, seq>>
  BY DEF FlushNow, anchorVars, clockVars
<1>3. InvPlace' /\ Pending' = Pending
  BY <1>2, QuietPlace
<1>4. now \in Nat /\ limit \in Nat /\ Watermark \in Nat
  BY <1>1, Constants DEF InvTypes, TypeOK
<1>5. limit' \in Nat /\ limit' > 0 /\ limit' + Watermark <= now /\ (limit > 0 => limit <= limit')
  BY <1>1, <1>2, <1>4 DEF InvClock
<1>6. InvTypes'
  BY <1>1, <1>2, <1>5 DEF InvTypes, TypeOK, historyVars, barVars, frameVars
<1>7. InvClock'
  <2>1. Done' = Done
    BY <1>2, <1>3 DEF Done, Arrived
  <2>2. \A t \in Done : t.ts \in Nat
    BY Constants, Apart DEF IInv
  <2>3. \A t \in Done : t.ts <= limit'
    BY <1>1, <1>2, <1>4, <1>5, <2>2 DEF InvClock
  <2> QED BY <1>1, <1>2, <1>5, <2>1, <2>3 DEF InvClock
<1>8. InvStream'
  BY <1>2 DEF InvStream
<1> QED BY <1>2, <1>3, <1>6, <1>7, <1>8, QuietKeeps DEF IInv

LEMMA EndFlushStep == ASSUME IInv, EndFlush PROVE IInv'
<1>1. InvTypes /\ InvClock /\ InvStream
  BY DEF IInv
<1>2. /\ pc = "flush" /\ pc' = IF job.live THEN "idle" ELSE "done"
      /\ UNCHANGED <<clockVars, heap, limit, cur, anchorVars, historyVars, barVars, acc,
                     frameVars, late>>
      /\ UNCHANGED <<job, phaseNext, nextSec, now, wire, seq>>
  BY DEF EndFlush, anchorVars, clockVars
<1>3. InvPlace' /\ Pending' = Pending
  BY <1>2, QuietPlace
<1>4. InvTypes'
  BY <1>1, <1>2 DEF InvTypes, TypeOK, historyVars, barVars, frameVars
<1>5. Done' = Done /\ Arrived' = Arrived /\ Ahead' = Ahead
  BY <1>2, <1>3 DEF Done, Arrived, Ahead
<1>6. InvClock'
  BY <1>1, <1>2, <1>5 DEF InvClock
<1>7. InvStream'
  <2>1. FirstSecond' = FirstSecond
    BY <1>2, <1>5 DEF FirstSecond
  <2> QED BY <1>1, <1>2, <1>5, <2>1 DEF InvStream
<1> QED BY <1>2, <1>3, <1>4, <1>6, <1>7, QuietKeeps DEF IInv

LEMMA FinalFlushStep == ASSUME IInv, FinalFlush PROVE IInv'
<1>1. InvTypes /\ InvClock /\ InvStream
  BY DEF IInv
<1>2. /\ ~job.live /\ pc = "idle" /\ wire = {} /\ Arrived # {} /\ pc' = "flush"
      /\ limit' = IF job.start > 0 THEN EndNS
                  ELSE CHOOSE n \in {t.ts : t \in Arrived} : \A t \in Arrived : t.ts <= n
      /\ UNCHANGED <<clockVars, heap, cur, anchorVars, historyVars, barVars, acc,
                     frameVars, late>>
      /\ UNCHANGED <<job, phaseNext, nextSec, now, wire, seq>>
  BY DEF FinalFlush, anchorVars, clockVars
<1>3. InvPlace' /\ Pending' = Pending
  BY <1>2, QuietPlace
<1>4. limit' \in Nat
  <2>1. PICK t \in Arrived : \A u \in Arrived : u.ts <= t.ts
    BY <1>1, <1>2 DEF InvStream
  <2> DEFINE n == CHOOSE n \in {u.ts : u \in Arrived} : \A u \in Arrived : u.ts <= n
  <2>2. n \in {u.ts : u \in Arrived}
    BY <2>1
  <2>3. \A u \in Arrived : u.ts \in Nat
    BY Constants DEF Arrived
  <2> HIDE DEF n
  <2>4. n \in Nat
    BY <2>2, <2>3
  <2> QED BY <1>2, <2>4, Constants DEF n
<1>5. InvTypes'
  BY <1>1, <1>2, <1>4 DEF InvTypes, TypeOK, historyVars, barVars, frameVars
<1>6. Done' = Done /\ Arrived' = Arrived /\ Ahead' = Ahead
  BY <1>2, <1>3 DEF Done, Arrived, Ahead
<1>7. InvClock'
  BY <1>2 DEF InvClock
<1>8. InvStream'
  <2>1. FirstSecond' = FirstSecond
    BY <1>2, <1>6 DEF FirstSecond
  <2> QED BY <1>1, <1>2, <1>6, <2>1 DEF InvStream
<1> QED BY <1>2, <1>3, <1>5, <1>7, <1>8, QuietKeeps DEF IInv

LEMMA StutterStep == ASSUME IInv, UNCHANGED vars PROVE IInv'
<1>1. UNCHANGED <<job, now, wire, seq, heap, pc, limit, cur, phaseNext, nextSec, symNext,
                  acc, quote, trade, seen, barRing, lastBar, frame, lastWritten, late>>
  BY DEF vars, clockVars, anchorVars, historyVars, barVars, frameVars
<1>2. Arrived' = Arrived /\ Pending' = Pending
  BY <1>1 DEF Arrived, Pending
<1>3. Done' = Done /\ Ahead' = Ahead /\ FirstSecond' = FirstSecond
  BY <1>1, <1>2 DEF Done, Ahead, FirstSecond
<1>4. InvTypes'
  BY <1>1 DEF IInv, InvTypes, TypeOK
<1>5. InvPlace'
  BY <1>1, <1>2, <1>3 DEF IInv, InvPlace, Accepts
<1>6. InvClock' /\ InvStream'
  BY <1>1, <1>2, <1>3 DEF IInv, InvClock, InvStream
<1> QED BY <1>1, <1>2, <1>4, <1>5, <1>6, QuietKeeps DEF IInv, historyVars, barVars, frameVars

-----------------------------------------------------------------------------
(* The theorems *)

(* The invariant of the projector: where every tick is, what is in the     *)
(* bars, and what the frames committed so far say, hold throughout.        *)
THEOREM ProjectorInvariant == Spec => []IInv
<1>1. Init => IInv
  BY InitIInv
<1>2. IInv /\ [Next]_vars => IInv'
  <2> SUFFICES ASSUME IInv, [Next]_vars PROVE IInv'
    OBVIOUS
  <2>1. CASE UNCHANGED vars
    BY <2>1, StutterStep
  <2>2. CASE LiveNext
    BY <2>2, AdvanceStep, FlushNowStep, DrainTickStep, ArriveStep DEF LiveNext
  <2>3. CASE HistoricalNext
    BY <2>3, IngestPreWindowStep, BeginIngestStep, EndIngestStep, FinalFlushStep
       DEF HistoricalNext
  <2>4. CASE CloseSecond
    BY <2>4, CloseSecondStep
  <2>5. CASE EndFlush
    BY <2>5, EndFlushStep
  <2>6. CASE \E p \in Phases : ClosePhase(p)
    BY <2>6, ClosePhaseStep
  <2> QED BY <2>1, <2>2, <2>3, <2>4, <2>5, <2>6 DEF Next
<1> QED BY <1>1, <1>2, PTL DEF Spec

(* Every variable keeps its type. *)
THEOREM ProjectorTypes == Spec => []TypeOK
<1>1. IInv => TypeOK
  BY DEF IInv, InvTypes
<1> QED BY <1>1, ProjectorInvariant, PTL

(* No bar, open or closed, holds a tick of another second: the guards of   *)
(* the closing loops and IsLate together keep every accumulator to the     *)
(* second that is open, however late a tick is.                            *)
THEOREM BarsStayHonest == Spec => []BarsHonest
<1>1. IInv => BarsHonest
  <2> SUFFICES ASSUME IInv, NEW s \in job.active
               PROVE  /\ \A t \in acc[s] : symNext[s] - Cadence <= t.ts /\ t.ts < symNext[s]
                      /\ \A k \in 0 .. 3 : \A t \in barRing[s][k].bar :
                           InBar(t, barRing[s][k].anchor)
    BY DEF BarsHonest
  <2>1. InvTypes /\ InvPlace /\ InvAnchors /\ InvBars /\ InvSeen
    BY DEF IInv
  <2>2. s \in Symbols /\ nextSec \in Nat
    BY <2>1, Constants DEF InvTypes, TypeOK
  <2>3. ASSUME NEW t \in acc[s]
        PROVE  symNext[s] - Cadence <= t.ts /\ t.ts < symNext[s]
    <3>1. t \in seen[s] /\ InBar(t, nextSec)
      BY <2>1 DEF InvBars
    <3>2. nextSec > 0
      <4>1. t \in Arrived
        BY <2>1, <2>2, <3>1, Apart
      <4> QED BY <2>1, <2>2, <4>1 DEF InvAnchors
    <3>3. symNext[s] = nextSec
      BY <2>1, <2>2, <3>2 DEF InvAnchors
    <3> QED BY <3>1, <3>3 DEF InBar
  <2> QED BY <2>1, <2>3 DEF InvBars
<1> QED BY <1>1, ProjectorInvariant, PTL

(* As long as the four bars that are kept are all there have been,         *)
(* lateDroppedTicks is the number of ticks applied that are in no bar.     *)
THEOREM LateTicksCounted == Spec => []LateCounted
<1>1. IInv => LateCounted
  BY DEF IInv
<1> QED BY <1>1, ProjectorInvariant, PTL

(* Every row of a committed frame whose symbol is punctual is what the     *)
(* whole stream, sorted, would have given, whenever the frame is looked at *)
(* and whatever has arrived since.                                         *)
THEOREM FramesSorted == Spec => []FramesAsSorted
<1>1. IInv => FramesAsSorted
  <2> SUFFICES ASSUME IInv, NEW p \in Phases, frame[p] # NoFrame,
                      NEW s \in Members[p] \cap job.active, Punctual(s)
               PROVE  /\ \A t \in wire : t.sym = s => t.ts > frame[p].anchor
                      /\ frame[p].rows[s] = Reference(s, frame[p].anchor)
    BY DEF FramesAsSorted
  <2> DEFINE a == frame[p].anchor
             row == frame[p].rows[s]
             upTo == UpTo(Counted(s), a)
  <2>1. /\ InvTypes /\ InvPlace /\ InvAnchors /\ InvFrames /\ InvPunctual /\ InvSeen
    BY DEF IInv
  <2>2. a \in Nat /\ RowAsOf(s, a, row)
    BY <2>1 DEF InvFrames
  <2>3. /\ s \in Symbols /\ InChain(s) /\ seq \in [Ticks -> Nat]
        /\ wire \subseteq Ticks
    <3>1. s \in Symbols
      BY <2>1, Constants DEF InvTypes, TypeOK
    <3>2. InChain(s)
      BY <2>1, <3>1 DEF InvPunctual
    <3>3. Cardinality(Ticks) \in Nat
      BY Constants, FS_CardinalityType
    <3>4. 0 .. Cardinality(Ticks) \subseteq Nat
      BY <3>3
    <3>5. /\ wire \subseteq Ticks
          /\ seq \in [Ticks -> 0 .. Cardinality(Ticks)]
      BY <2>1 DEF InvTypes, TypeOK
    <3>6. seq \in [Ticks -> Nat]
      BY <3>4, <3>5
    <3> QED BY <3>1, <3>2, <3>5, <3>6
  <2>4. \A t \in Ahead : t.sym = s => a < t.ts
    BY <2>2 DEF RowAsOf
  <2>5. Arrived \subseteq Ticks /\ Done \subseteq Arrived /\ seen[s] \subseteq Done
        /\ \A t \in seen[s] : t.sym = s
    BY <2>1, <2>3, Apart DEF InvPlace
  <2>6. ASSUME NEW t \in Done, t.sym = s
        PROVE  t \in Counted(s) <=> t \in seen[s]
    <3>1. t \in Arrived /\ t \in Ticks
      BY <2>5
    <3>2. CASE t.kind = Trade
      BY <2>3, <2>6, <3>1, <3>2 DEF Counted, InChain
    <3>3. CASE t.kind = Quote /\ ~(t.px > 0)
      BY <2>1, <2>3, <3>3 DEF Counted, Valid, InvSeen, Quote, Trade
    <3>4. CASE t.kind = Quote /\ t.px > 0
      <4>1. t \in Done \cap Valid(s)
        BY <2>6, <3>1, <3>4 DEF Valid
      <4>2. PICK m \in Ticks \cup {NoTick} :
              /\ IsLast(seq, m, {u \in Valid(s) : Earlier(seq, u, t)})
              /\ t \in seen[s] <=> m.px # t.px
        BY <2>3, <4>1 DEF InChain
      <4>3. {u \in Valid(s) : Before(u, t)} = {u \in Valid(s) : Earlier(seq, u, t)}
        BY BeforeIs
      <4>4. {u \in Valid(s) : Earlier(seq, u, t)} \in SUBSET Ticks
        BY <2>5 DEF Valid
      <4>5. Last({u \in Valid(s) : Before(u, t)}) = m
        BY <2>3, <4>2, <4>3, <4>4, LastIs
      <4>6. t \in Counted(s) <=> Last({u \in Valid(s) : Before(u, t)}).px # t.px
        BY <3>4, <4>1 DEF Counted, Quote, Trade
      <4> QED BY <4>2, <4>5, <4>6
    <3>5. t.kind \in {Quote, Trade}
      BY <3>1, Constants
    <3> QED BY <3>2, <3>3, <3>4, <3>5
  <2>7. ASSUME NEW t \in Counted(s), t.ts <= a
        PROVE  t \in seen[s]
    <3>1. t \in Arrived /\ t.sym = s
      BY <2>7 DEF Counted, Valid
    <3>2. t \in Done
      <4>1. t \notin Ahead
        BY <2>2, <2>4, <2>5, <2>7, <3>1, Constants
      <4> QED BY <3>1, <4>1 DEF Done, Ahead
    <3> QED BY <2>6, <2>7, <3>1, <3>2
  <2>8. seen[s] \subseteq Counted(s)
    BY <2>5, <2>6
  <2>9. upTo = UpTo(seen[s], a)
    BY <2>7, <2>8 DEF UpTo
  <2>10. {t \in Counted(s) : InBar(t, Floor(a))} = {t \in seen[s] : InBar(t, Floor(a))}
    <3>1. ASSUME NEW t \in Counted(s), InBar(t, Floor(a))
          PROVE  t.ts <= a
      <4>1. t \in Ticks
        BY <2>5 DEF Counted, Valid
      <4>2. Floor(a) \in Int /\ Floor(a) <= a /\ t.ts \in Nat
        BY <2>2, <4>1, FloorBelow, Constants
      <4> QED BY <2>2, <3>1, <4>2 DEF InBar
    <3> QED BY <2>7, <2>8, <3>1
  <2>11. /\ row.quote = Last({t \in upTo : t.kind = Quote})
         /\ row.trade = Last({t \in upTo : t.kind = Trade})
    <3>1. /\ {t \in upTo : t.kind = Quote} = Quotes(UpTo(seen[s], a))
          /\ {t \in upTo : t.kind = Trade} = Trades(UpTo(seen[s], a))
      BY <2>9 DEF Quotes, Trades
    <3>2. /\ Quotes(UpTo(seen[s], a)) \in SUBSET Ticks
          /\ Trades(UpTo(seen[s], a)) \in SUBSET Ticks
      BY <2>5 DEF Quotes, Trades, UpTo
    <3> HIDE DEF a, row
    <3>3. /\ IsLast(seq, row.quote, Quotes(UpTo(seen[s], a)))
          /\ IsLast(seq, row.trade, Trades(UpTo(seen[s], a)))
      BY <2>2 DEF RowAsOf
    <3> QED BY <2>3, <3>1, <3>2, <3>3, LastIs
  <2>12. \A t \in wire : t.sym = s => t.ts > a
    <3>1. \A t \in wire : t.ts \in Nat
      BY <2>3, Constants
    <3> QED BY <2>2, <2>4, <3>1 DEF Ahead
  <2>13. row = Reference(s, a)
    <3> HIDE DEF a, row
    <3>1. /\ row = [bar |-> row.bar, quote |-> row.quote, trade |-> row.trade, seen |-> row.seen]
          /\ row.seen = UpTo(seen[s], a)
          /\ row.bar = IF Floor(a) < FirstSecond THEN {}
                       ELSE {t \in seen[s] : InBar(t, Floor(a))}
      BY <2>2 DEF RowAsOf
    <3>2. Reference(s, a) = [bar |-> row.bar, quote |-> row.quote, trade |-> row.trade,
                             seen |-> row.seen]
      BY <2>9, <2>10, <2>11, <3>1 DEF Reference
    <3> QED BY <3>1, <3>2
  <2> QED BY <2>12, <2>13
<1> QED BY <1>1, ProjectorInvariant, PTL
==============================================================================
