------------------------ MODULE SnapshotSeqLock_proofs ------------------------
(***************************************************************************)
(* For any set of fields, any number of readers and any number of updates: *)
(* if the daemon is only killed between updates, the SeqLock cells behave  *)
(* as atomic registers.                                                    *)
(***************************************************************************)
EXTENDS SnapshotSeqLock, TLAPS

-----------------------------------------------------------------------------
(* The inductive invariant *)

Odd(n) == n % 2 = 1

(* The sequence of a cell is odd exactly while the cell is written. *)
InvParity == \A c \in Cells : Odd(seq[c]) <=> wpc = c

(* A cell at rest is of one update; one being written is of the new update *)
(* in the fields stored and of one older update in the others.             *)
InvMem ==
  \A c \in Cells : \A f, g \in Fields :
    /\ mem[c][f] <= ver
    /\ wpc # c => mem[c][f] = mem[c][g]
    /\ wpc = c /\ f \notin wleft => mem[c][f] = ver

(* The micro cell is of the last update, or of the one before while the    *)
(* update is under way.                                                    *)
InvMicro ==
  \A f \in Fields :
    /\ mem["micro"][f] >= ver - 1
    /\ wpc \in {"idle", "dead", "closed"} => mem["micro"][f] = ver
    /\ wpc \in {"snap", "mid"} => mem["micro"][f] = ver - 1

(* A copy whose sequence is still current has met no write. *)
InvCopy ==
  \A r \in Readers : LET c == rcell[r] IN
    /\ rpc[r] = "copy" => ~Odd(rseq[r])
    /\ rpc[r] \in {"copy", "fallback"} =>
         /\ rseq[r] <= seq[c]
         /\ rseq[r] = seq[c] /\ wpc # c =>
              \A f \in Fields \ rleft[r] : rbuf[r][f] = mem[c][f]
    /\ r \in Pythons => rpc[r] # "fallback"

(* An attempt under way is one of the attempts allowed. *)
InvTries == \A r \in Readers : rpc[r] = "copy" => tries[r] < MaxTries
TypeInv == TypeOK /\ InvTries

(* What a snapshot() call holds. *)
InvGot ==
  \A r \in Pythons :
    /\ \A c \in Cells : got[r][c] # NoRow => \A f, g \in Fields :
         got[r][c][f] = got[r][c][g] /\ got[r][c][f] <= ver
    /\ got[r]["micro"] # NoRow => got[r]["snap"] # NoRow
    /\ rpc[r] # "idle" => got[r]["micro"] = NoRow
    /\ rpc[r] # "idle" /\ rcell[r] = "micro" => got[r]["snap"] # NoRow

(* What a relay connection has sent. *)
InvSent ==
  \A r \in Relays, c \in Cells :
    /\ gotSeq[r][c] <= seq[c]
    /\ gotSeq[r][c] = seq[c] /\ wpc # c => got[r][c] = mem[c]

IInv == /\ TypeInv /\ InvParity /\ InvMem /\ InvMicro
        /\ InvCopy /\ InvGot /\ MicroNotBehind /\ InvSent

-----------------------------------------------------------------------------
(* Incrementing a sequence flips its parity. *)
LEMMA Flip == ASSUME NEW n \in Nat PROVE Odd(n + 1) <=> ~Odd(n)
  BY SMT DEF Odd

LEMMA TwoCells == "snap" \in Cells /\ "micro" \in Cells /\ Cells = {"snap", "micro"}
  BY DEF Cells

(* A row of fields is never the absent row. *)
LEMMA RowPresent == ASSUME NEW row \in [Fields -> Nat] PROVE row # NoRow
<1>1. DOMAIN row = Fields
  OBVIOUS
<1>2. DOMAIN NoRow = {}
  BY DEF NoRow
<1> QED BY <1>1, <1>2, SeqLockAssumption

(* Setting one cell of one reader. *)
LEMMA SetCell ==
  ASSUME NEW S, NEW a \in [Readers -> [Cells -> S]],
         NEW r \in Readers, NEW c \in Cells, NEW x \in S
  PROVE  [a EXCEPT ![r][c] = x] \in [Readers -> [Cells -> S]]
<1>1. [a[r] EXCEPT ![c] = x] \in [Cells -> S]
  OBVIOUS
<1> QED BY <1>1

LEMMA TypeStep == TypeInv /\ [Next]_vars => TypeInv'
<1> SUFFICES ASSUME TypeInv, [Next]_vars PROVE TypeInv'
  OBVIOUS
<1> USE DEF TypeInv, TypeOK, InvTries, cellVars, anchorVars, writerVars, relayVars,
            readerVars
<1> DEFINE Pcs == {"idle", "try", "copy", "fallback", "status", "ended"}
<1>0. /\ MaxTries \in Nat \ {0} /\ 0 \in 0 .. MaxTries /\ 0 < MaxTries
      /\ \A r \in Readers : /\ tries[r] \in 0 .. MaxTries
                            /\ tries[r] < MaxTries => tries[r] + 1 \in 0 .. MaxTries
  BY SeqLockAssumption
<1>1. ASSUME NEW c \in Cells, BeginWrite(c) PROVE TypeInv'
  BY <1>1 DEF BeginWrite
<1>2. ASSUME NEW f \in Fields, WriteField(f) PROVE TypeInv'
  BY <1>2 DEF WriteField
<1>3. CASE EndWrite
  BY <1>3 DEF EndWrite
<1>4. CASE CommitAnchor \/ CloseHub \/ Crash \/ WarmRestart
  BY <1>4 DEF CommitAnchor, CloseHub, Crash, WarmRestart
<1>0a. ASSUME NEW r \in Readers, StartReading(r)
       PROVE  /\ rpc' \in [Readers -> Pcs] /\ rcell' \in [Readers -> Cells]
              /\ tries' \in [Readers -> 0 .. MaxTries]
              /\ \A q \in Readers : rpc'[q] = "copy" => tries'[q] < MaxTries
  BY <1>0, <1>0a, TwoCells DEF StartReading
<1>5. ASSUME NEW r \in Readers, Call(r) PROVE TypeInv'
  <2>1. /\ rpc' \in [Readers -> Pcs]
        /\ rcell' \in [Readers -> Cells]
        /\ tries' \in [Readers -> 0 .. MaxTries]
        /\ UNCHANGED <<seq, mem, ver, wpc, wleft, last, covered, next, final,
                       rseq, rbuf, rleft>>
    BY <1>0, <1>5, TwoCells DEF Call, StartReading
  <2>2. /\ got' \in [Readers -> [Cells -> [Fields -> Nat] \cup {NoRow}]]
        /\ gotSeq' \in [Readers -> [Cells -> Nat \cup {NoSeq}]]
    <3>1. [c \in Cells |-> NoRow] \in [Cells -> [Fields -> Nat] \cup {NoRow}]
      OBVIOUS
    <3>2. [c \in Cells |-> NoSeq] \in [Cells -> Nat \cup {NoSeq}]
      OBVIOUS
    <3>3. /\ got' = [got EXCEPT ![r] = [c \in Cells |-> NoRow]]
          /\ gotSeq' = [gotSeq EXCEPT ![r] = [c \in Cells |-> NoSeq]]
      BY <1>5 DEF Call
    <3> QED BY <3>1, <3>2, <3>3, ZenonT(40)
  <2>3. \A q \in Readers : rpc'[q] = "copy" => tries'[q] < MaxTries
    BY <1>0, <1>5 DEF Call, StartReading
  <2> QED BY <2>1, <2>2, <2>3
<1>6. ASSUME NEW r \in Readers, LoadSeq(r) PROVE TypeInv'
  <2>1. CASE seq[rcell[r]] % 2 # 0
    <3>1. /\ tries' = [tries EXCEPT ![r] = @ + 1] /\ tries[r] < MaxTries
          /\ UNCHANGED <<rpc, rseq, rleft>> /\ rpc[r] = "try"
      BY <1>6, <2>1 DEF LoadSeq
    <3>2. /\ tries' \in [Readers -> 0 .. MaxTries]
          /\ \A q \in Readers : rpc'[q] = "copy" => tries'[q] < MaxTries
      BY <1>0, <3>1
    <3> QED BY <1>6, <3>1, <3>2 DEF LoadSeq
  <2>2. CASE ~(seq[rcell[r]] % 2 # 0)
    <3>1. /\ rpc' = [rpc EXCEPT ![r] = "copy"] /\ tries[r] < MaxTries
          /\ rseq' = [rseq EXCEPT ![r] = seq[rcell[r]]]
          /\ rleft' = [rleft EXCEPT ![r] = Fields] /\ UNCHANGED tries
      BY <1>6, <2>2 DEF LoadSeq
    <3>2. seq[rcell[r]] \in Nat /\ Fields \in SUBSET Fields
      OBVIOUS
    <3>3. rseq' \in [Readers -> Nat] /\ rleft' \in [Readers -> SUBSET Fields]
      BY <3>1, <3>2
    <3>4. /\ rpc' \in [Readers -> Pcs]
          /\ \A q \in Readers : rpc'[q] = "copy" => tries'[q] < MaxTries
      BY <3>1
    <3> QED BY <1>6, <3>1, <3>3, <3>4 DEF LoadSeq
  <2> QED BY <2>1, <2>2
<1>7. ASSUME NEW r \in Readers, NEW f \in Fields, CopyField(r, f) PROVE TypeInv'
  BY <1>7 DEF CopyField
<1>8. ASSUME NEW r \in Readers, Accept(r) \/ TakeBestEffort(r) PROVE TypeInv'
  <2>1. TakeRow(r) /\ UNCHANGED <<seq, mem, ver, wpc, wleft, last, covered, final,
                                  rseq, rbuf, rleft>>
    BY <1>8 DEF Accept, TakeBestEffort
  <2>2. /\ rpc' \in [Readers -> Pcs]
        /\ rcell' \in [Readers -> Cells]
        /\ tries' \in [Readers -> 0 .. MaxTries]
    BY <1>0, <2>1, TwoCells DEF TakeRow, AfterCell
  <2>3. /\ got' \in [Readers -> [Cells -> [Fields -> Nat] \cup {NoRow}]]
        /\ gotSeq' \in [Readers -> [Cells -> Nat \cup {NoSeq}]]
    <3> DEFINE c == rcell[r]
    <3>1. c \in Cells /\ rbuf[r] \in [Fields -> Nat] /\ rseq[r] \in Nat
      OBVIOUS
    <3>2. \/ UNCHANGED <<got, gotSeq>>
          \/ /\ got' = [got EXCEPT ![r][c] = rbuf[r]]
             /\ gotSeq' = [gotSeq EXCEPT ![r][c] = rseq[r]]
      BY <2>1 DEF TakeRow
    <3> DEFINE Row == [Fields -> Nat] \cup {NoRow}
               Sq == Nat \cup {NoSeq}
    <3>3. /\ got \in [Readers -> [Cells -> Row]] /\ rbuf[r] \in Row
          /\ gotSeq \in [Readers -> [Cells -> Sq]] /\ rseq[r] \in Sq
      OBVIOUS
    <3> HIDE DEF c, Row, Sq
    <3>4. got' \in [Readers -> [Cells -> Row]]
      <4>1. [got EXCEPT ![r][c] = rbuf[r]] \in [Readers -> [Cells -> Row]]
        BY <3>1, <3>3, SetCell
      <4> QED BY <3>2, <3>3, <4>1
    <3>5. gotSeq' \in [Readers -> [Cells -> Sq]]
      <4>1. [gotSeq EXCEPT ![r][c] = rseq[r]] \in [Readers -> [Cells -> Sq]]
        BY <3>1, <3>3, SetCell
      <4> QED BY <3>2, <3>3, <4>1
    <3> QED BY <3>4, <3>5 DEF Row, Sq
  <2>4. \A q \in Readers : rpc'[q] = "copy" => tries'[q] < MaxTries
    BY <1>0, <2>1 DEF TakeRow, AfterCell
  <2>5. next' \in [Relays -> Nat]
    BY <2>1 DEF TakeRow, NextDue
  <2> QED BY <2>1, <2>2, <2>3, <2>4, <2>5
<1>9. ASSUME NEW r \in Readers, Reject(r) PROVE TypeInv'
  <2>1. /\ rpc' \in [Readers -> Pcs]
        /\ tries' \in [Readers -> 0 .. MaxTries]
    BY <1>0, <1>9 DEF Reject
  <2>2. \A q \in Readers : rpc'[q] = "copy" => tries'[q] < MaxTries
    BY <1>0, <1>9 DEF Reject
  <2> QED BY <1>9, <2>1, <2>2 DEF Reject
<1>10. ASSUME NEW r \in Readers, GiveUp(r) \/ BestEffort(r) PROVE TypeInv'
  <2>1. CASE GiveUp(r)
    BY <2>1 DEF GiveUp
  <2>2. CASE BestEffort(r)
    BY <2>2 DEF BestEffort
  <2> QED BY <1>10, <2>1, <2>2
<1>11. ASSUME NEW r \in Readers, SeeFirstAnchor(r) PROVE TypeInv'
  <2>1. next' \in [Relays -> Nat]
    BY <1>11, SMT DEF SeeFirstAnchor
  <2> QED BY <1>11, <2>1 DEF SeeFirstAnchor
<1>12. ASSUME NEW r \in Readers, LoadLast(r) PROVE TypeInv'
  <2>1. CASE next[r] <= last
    <3>1. next[r] \in Nat /\ NotOverrun(next[r]) \in Nat
      BY <1>12, SeqLockAssumption DEF LoadLast, NotOverrun
    <3>2. next' \in [Relays -> Nat] /\ StartReading(r)
      BY <1>12, <2>1, <3>1 DEF LoadLast
    <3> QED BY <1>0a, <1>12, <3>2 DEF LoadLast
  <2>2. CASE ~(next[r] <= last)
    <3>1. rpc' = [rpc EXCEPT ![r] = "status"] /\ UNCHANGED <<next, rcell, tries>>
      BY <1>12, <2>2 DEF LoadLast
    <3> QED BY <1>12, <3>1 DEF LoadLast
  <2> QED BY <2>1, <2>2
<1>13. ASSUME NEW r \in Readers, TestStatus(r) PROVE TypeInv'
  <2>1. CASE wpc = "closed"
    <3>1. final' \in [Relays -> BOOLEAN] /\ StartReading(r)
      BY <1>13, <2>1 DEF TestStatus
    <3> QED BY <1>0a, <1>13, <3>1 DEF TestStatus
  <2>2. CASE wpc # "closed"
    <3>1. rpc' = [rpc EXCEPT ![r] = "idle"] /\ UNCHANGED <<final, rcell, tries>>
      BY <1>13, <2>2 DEF TestStatus
    <3> QED BY <1>13, <3>1 DEF TestStatus
  <2> QED BY <2>1, <2>2
<1>14. CASE UNCHANGED vars
  BY <1>14 DEF vars
<1> QED BY <1>1, <1>2, <1>3, <1>4, <1>5, <1>6, <1>7, <1>8, <1>9, <1>10, <1>11,
           <1>12, <1>13, <1>14
        DEF Next, Writer, Reader

-----------------------------------------------------------------------------
(* Initial states *)

LEMMA InitIInv == Init => IInv
<1> SUFFICES ASSUME Init PROVE IInv
  OBVIOUS
<1> USE DEF Init
<1>0. 0 \in 0 .. MaxTries /\ "snap" \in Cells
  BY SeqLockAssumption, TwoCells
<1>1. TypeOK
  BY <1>0 DEF TypeOK
<1>2. InvTries /\ InvMem /\ InvMicro /\ InvCopy
  BY TwoCells DEF InvTries, InvMem, InvMicro, InvCopy
<1>3. InvParity
  BY TwoCells, SMT DEF InvParity, Odd, Cells
<1>4. InvGot /\ MicroNotBehind
  BY TwoCells DEF InvGot, MicroNotBehind, Readers
<1>5. InvSent
  BY DEF InvSent, NoSeq, Readers
<1> QED BY <1>1, <1>2, <1>3, <1>4, <1>5 DEF IInv, TypeInv

-----------------------------------------------------------------------------
(* Steps of the writer *)

LEMMA BeginWriteStep ==
  ASSUME IInv, NEW c \in Cells, BeginWrite(c) PROVE IInv'
<1>1. /\ TypeInv /\ TypeOK /\ InvParity /\ InvMem /\ InvMicro
      /\ InvCopy /\ InvGot /\ MicroNotBehind /\ InvSent
  BY DEF IInv, TypeInv
<1>2. TypeInv'
  BY <1>1, TypeStep DEF Next, Writer
<1>3. /\ wpc \in {"idle", "mid"} /\ wpc' = c /\ wleft' = Fields
      /\ ver \in Nat /\ ver' \in Nat /\ ver <= ver' /\ ver' <= ver + 1
      /\ wpc = "idle" => ver' = ver + 1
      /\ wpc = "mid" => ver' = ver /\ c = "micro"
      /\ seq[c] \in Nat /\ seq'[c] = seq[c] + 1
      /\ \A d \in Cells \ {c} : seq'[d] = seq[d]
      /\ UNCHANGED <<mem, rpc, rcell, rseq, rbuf, rleft, got, gotSeq>>
  BY <1>1 DEF BeginWrite, TypeOK, readerVars
<1>4. InvParity'
  <2>1. \A d \in Cells : ~Odd(seq[d])
    BY <1>1, <1>3, TwoCells DEF InvParity
  <2>2. Odd(seq'[c])
    BY <1>3, <2>1, Flip
  <2>3. \A d \in Cells : Odd(seq'[d]) <=> d = c
    BY <1>3, <2>1, <2>2
  <2> QED BY <1>3, <2>3 DEF InvParity, Odd
<1>5. InvMem'
  <2>1. \A d \in Cells, f \in Fields : mem[d][f] \in Nat /\ wpc # d
    BY <1>1, <1>3, TwoCells DEF TypeOK
  <2> QED BY <1>1, <1>3, <2>1 DEF InvMem
<1>6. InvMicro'
  <2>1. \A f \in Fields : /\ mem["micro"][f] \in Nat
                          /\ wpc = "idle" => mem["micro"][f] = ver
                          /\ wpc = "mid" => mem["micro"][f] = ver - 1
    <3>1. \A f \in Fields : mem["micro"][f] \in Nat
      BY <1>1, TwoCells DEF TypeOK
    <3> QED BY <1>1, <3>1 DEF InvMicro
  <2>2. \A f \in Fields : mem["micro"][f] = ver' - 1
    <3>1. CASE wpc = "idle"
      <4>1. ver' = ver + 1 /\ ver \in Nat
        BY <1>3, <3>1
      <4> QED BY <2>1, <3>1, <4>1
    <3>2. CASE wpc = "mid"
      <4>1. ver' = ver /\ ver \in Nat
        BY <1>3, <3>2
      <4> QED BY <2>1, <3>2, <4>1
    <3> QED BY <1>3, <3>1, <3>2
  <2> QED BY <1>3, <2>1, <2>2 DEF InvMicro, Cells
<1>7. InvCopy'
  <2>1. \A r \in Readers : rseq[r] \in Nat /\ rcell[r] \in Cells
    BY <1>1 DEF TypeOK
  <2> QED BY <1>1, <1>3, <2>1, TwoCells DEF InvCopy, Odd
<1>8. InvGot' /\ MicroNotBehind'
  <2>1. \A r \in Pythons, d \in Cells : got[r][d] # NoRow =>
          \A f \in Fields : got[r][d][f] \in Nat
    BY <1>1 DEF TypeOK, Readers
  <2> QED BY <1>1, <1>3, <2>1 DEF InvGot, MicroNotBehind
<1>9. InvSent'
  <2>1. \A r \in Relays, d \in Cells : gotSeq[r][d] \in Int
    BY <1>1 DEF TypeOK, Readers, NoSeq
  <2> QED BY <1>1, <1>3, <2>1, TwoCells DEF InvSent
<1> QED BY <1>2, <1>4, <1>5, <1>6, <1>7, <1>8, <1>9 DEF IInv

LEMMA WriteFieldStep ==
  ASSUME IInv, NEW f \in Fields, WriteField(f) PROVE IInv'
<1>1. /\ TypeInv /\ TypeOK /\ InvParity /\ InvMem /\ InvMicro
      /\ InvCopy /\ InvGot /\ MicroNotBehind /\ InvSent
  BY DEF IInv, TypeInv
<1>2. TypeInv'
  BY <1>1, TypeStep DEF Next, Writer
<1>3. /\ wpc \in Cells /\ f \in wleft /\ wleft' = wleft \ {f}
      /\ mem'[wpc][f] = ver /\ ver \in Nat
      /\ \A g \in Fields \ {f} : mem'[wpc][g] = mem[wpc][g]
      /\ \A d \in Cells \ {wpc} : mem'[d] = mem[d]
      /\ UNCHANGED <<seq, ver, wpc, rpc, rcell, rseq, rbuf, rleft, got, gotSeq>>
  BY <1>1 DEF WriteField, TypeOK, readerVars
<1>4. InvParity'
  BY <1>1, <1>3 DEF InvParity, Odd
<1>5. InvMem'
  BY <1>1, <1>3 DEF InvMem
<1>6. InvMicro'
  BY <1>1, <1>3, TwoCells DEF InvMicro, Cells
<1>7. InvCopy'
  BY <1>1, <1>3 DEF InvCopy, Odd, TypeOK
<1>8. InvGot' /\ MicroNotBehind' /\ InvSent'
  BY <1>1, <1>3 DEF InvGot, MicroNotBehind, InvSent
<1> QED BY <1>2, <1>4, <1>5, <1>6, <1>7, <1>8 DEF IInv

LEMMA EndWriteStep ==
  ASSUME IInv, EndWrite PROVE IInv'
<1>1. /\ TypeInv /\ TypeOK /\ InvParity /\ InvMem /\ InvMicro
      /\ InvCopy /\ InvGot /\ MicroNotBehind /\ InvSent
  BY DEF IInv, TypeInv
<1>2. TypeInv'
  BY <1>1, TypeStep DEF Next, Writer
<1>3. /\ wpc \in Cells /\ wleft = {} /\ wpc' \notin Cells
      /\ wpc' = IF wpc = "snap" THEN "mid" ELSE "idle"
      /\ seq[wpc] \in Nat /\ seq'[wpc] = seq[wpc] + 1
      /\ \A d \in Cells \ {wpc} : seq'[d] = seq[d]
      /\ UNCHANGED <<mem, ver, rpc, rcell, rseq, rbuf, rleft, got, gotSeq>>
  BY <1>1 DEF EndWrite, TypeOK, readerVars, Cells
<1>4. InvParity'
  <2>1. \A d \in Cells : Odd(seq[d]) <=> d = wpc
    BY <1>1 DEF InvParity
  <2>2. ~Odd(seq'[wpc])
    BY <1>3, <2>1, Flip
  <2>3. \A d \in Cells : ~Odd(seq'[d]) /\ wpc' # d
    BY <1>3, <2>1, <2>2
  <2> QED BY <2>3 DEF InvParity, Odd
<1>5. InvMem'
  BY <1>1, <1>3 DEF InvMem
<1>6. InvMicro'
  <2>1. CASE wpc = "snap"
    BY <1>1, <1>3, <2>1 DEF InvMicro
  <2>2. CASE wpc = "micro"
    BY <1>1, <1>3, <2>2, TwoCells DEF InvMicro, InvMem
  <2> QED BY <1>3, <2>1, <2>2 DEF Cells
<1>7. InvCopy'
  <2>1. \A r \in Readers : rseq[r] \in Nat /\ rcell[r] \in Cells
    BY <1>1 DEF TypeOK
  <2> QED BY <1>1, <1>3, <2>1 DEF InvCopy, Odd
<1>8. InvGot' /\ MicroNotBehind'
  BY <1>1, <1>3 DEF InvGot, MicroNotBehind
<1>9. InvSent'
  <2>1. \A r \in Relays, d \in Cells : gotSeq[r][d] \in Int
    BY <1>1 DEF TypeOK, Readers, NoSeq
  <2> QED BY <1>1, <1>3, <2>1 DEF InvSent
<1> QED BY <1>2, <1>4, <1>5, <1>6, <1>7, <1>8, <1>9 DEF IInv

(* Between updates an anchor, the end of the hub, a crash and a warm        *)
(* restart leave nothing half done.                                        *)
LEMMA CrashStep ==
  ASSUME IInv, ~CrashInUpdate,
         CommitAnchor \/ CloseHub \/ Crash \/ WarmRestart \/ UNCHANGED vars
  PROVE  IInv'
<1>1. /\ TypeInv /\ TypeOK /\ InvParity /\ InvMem /\ InvMicro
      /\ InvCopy /\ InvGot /\ MicroNotBehind /\ InvSent
  BY DEF IInv, TypeInv
<1>2. TypeInv'
  BY <1>1, TypeStep DEF Next, Writer
<1>3. /\ UNCHANGED <<seq, mem, ver, rpc, rcell, rseq, rbuf, rleft, got, gotSeq>>
      /\ \/ UNCHANGED <<wpc, wleft>>
         \/ wpc \in {"idle", "dead"} /\ wpc' \in {"idle", "dead", "closed"}
  BY DEF CommitAnchor, CloseHub, Crash, WarmRestart, vars, cellVars, writerVars,
         readerVars
<1>4. \A c \in Cells : wpc' = c <=> wpc = c
  BY <1>3, TwoCells
<1>5. InvParity' /\ InvMem' /\ InvMicro'
  BY <1>1, <1>3, <1>4, TwoCells DEF InvParity, InvMem, InvMicro, Odd
<1>6. InvCopy'
  <2>1. \A r \in Readers : rcell[r] \in Cells
    BY <1>1 DEF TypeOK
  <2> QED BY <1>1, <1>3, <1>4, <2>1 DEF InvCopy, Odd
<1>7. InvGot' /\ MicroNotBehind' /\ InvSent'
  BY <1>1, <1>3, <1>4 DEF InvGot, MicroNotBehind, InvSent
<1> QED BY <1>2, <1>5, <1>6, <1>7 DEF IInv

-----------------------------------------------------------------------------
(* Steps of the readers *)

(* A step of a reader leaves the cells and the writer alone. *)
LEMMA CellsUntouched ==
  ASSUME IInv, NEW r \in Readers, Reader(r)
  PROVE  /\ TypeInv' /\ InvParity' /\ InvMem' /\ InvMicro'
         /\ UNCHANGED <<seq, mem, ver, wpc>>
<1>1. TypeInv /\ InvParity /\ InvMem /\ InvMicro
  BY DEF IInv
<1>2. TypeInv'
  BY <1>1, TypeStep DEF Next
<1>3. UNCHANGED <<seq, mem, ver, wpc, wleft>>
  BY DEF Reader, Call, SeeFirstAnchor, LoadLast, TestStatus, LoadSeq, CopyField,
         Accept, Reject, GiveUp, BestEffort, TakeBestEffort, cellVars, writerVars
<1>4. InvParity' /\ InvMem' /\ InvMicro'
  BY <1>1, <1>3 DEF InvParity, InvMem, InvMicro, Odd
<1> QED BY <1>2, <1>3, <1>4

LEMMA CallStep ==
  ASSUME IInv, NEW r \in Readers, Call(r) PROVE IInv'
<1>1. /\ TypeInv /\ TypeOK /\ InvCopy /\ InvGot /\ MicroNotBehind /\ InvSent
  BY DEF IInv, TypeInv
<1>2. /\ TypeInv' /\ InvParity' /\ InvMem' /\ InvMicro'
      /\ UNCHANGED <<seq, mem, ver, wpc>>
  BY CellsUntouched DEF Reader
<1>3. /\ rpc' = [rpc EXCEPT ![r] = "try"] /\ rcell' = [rcell EXCEPT ![r] = "snap"]
      /\ UNCHANGED <<rseq, rbuf, rleft>>
  BY DEF Call, StartReading
<1>4. /\ \A q \in Readers \ {r} : got'[q] = got[q] /\ gotSeq'[q] = gotSeq[q]
      /\ r \in Pythons /\ r \notin Relays
      /\ \A c \in Cells : got'[r][c] = NoRow
  BY <1>1, SeqLockAssumption DEF Call, TypeOK
<1>5. InvCopy'
  BY <1>1, <1>2, <1>3 DEF InvCopy, TypeOK, Odd
<1>6. InvGot' /\ MicroNotBehind'
  <2>1. /\ rcell'[r] = "snap" /\ "snap" # "micro"
        /\ \A q \in Readers \ {r} : rpc'[q] = rpc[q] /\ rcell'[q] = rcell[q]
    BY <1>1, <1>3 DEF TypeOK
  <2>2. \A q \in Pythons : q \in Readers
    BY DEF Readers
  <2>3. InvGot'
    BY <1>1, <1>2, <1>4, <2>1, <2>2, TwoCells DEF InvGot
  <2>4. MicroNotBehind'
    BY <1>1, <1>4, <2>2, TwoCells DEF MicroNotBehind
  <2> QED BY <2>3, <2>4
<1>7. InvSent'
  BY <1>1, <1>2, <1>4 DEF InvSent, Readers
<1> QED BY <1>2, <1>5, <1>6, <1>7 DEF IInv

(* A connection that looks for an anchor or tests the status sends nothing. *)
LEMMA PollStep ==
  ASSUME IInv, NEW r \in Readers,
         SeeFirstAnchor(r) \/ LoadLast(r) \/ TestStatus(r)
  PROVE  IInv'
<1>1. /\ TypeInv /\ TypeOK /\ InvCopy /\ InvGot /\ MicroNotBehind /\ InvSent
  BY DEF IInv, TypeInv
<1>2. /\ TypeInv' /\ InvParity' /\ InvMem' /\ InvMicro'
      /\ UNCHANGED <<seq, mem, ver, wpc>>
  BY CellsUntouched DEF Reader
<1>3. /\ r \in Relays /\ r \notin Pythons
      /\ UNCHANGED <<rseq, rbuf, rleft, got, gotSeq>>
      /\ \A q \in Readers \ {r} : rpc'[q] = rpc[q] /\ rcell'[q] = rcell[q]
      /\ rpc'[r] \notin {"copy", "fallback"}
  BY <1>1, SeqLockAssumption
     DEF SeeFirstAnchor, LoadLast, TestStatus, StartReading, TypeOK
<1>4. InvCopy'
  BY <1>1, <1>2, <1>3 DEF InvCopy, TypeOK, Odd
<1>5. InvGot' /\ MicroNotBehind'
  BY <1>1, <1>2, <1>3 DEF InvGot, MicroNotBehind, Readers
<1>6. InvSent'
  BY <1>1, <1>2, <1>3 DEF InvSent
<1> QED BY <1>2, <1>4, <1>5, <1>6 DEF IInv

(* Attempts that begin, go on or fail return nothing. *)
LEMMA AttemptStep ==
  ASSUME IInv, NEW r \in Readers,
         \/ LoadSeq(r) \/ Reject(r) \/ GiveUp(r) \/ BestEffort(r)
         \/ \E f \in Fields : CopyField(r, f)
  PROVE  IInv'
<1>1. /\ TypeInv /\ TypeOK /\ InvCopy /\ InvGot /\ MicroNotBehind /\ InvSent
      /\ InvParity
  BY DEF IInv, TypeInv
<1>2. /\ TypeInv' /\ InvParity' /\ InvMem' /\ InvMicro'
      /\ UNCHANGED <<seq, mem, ver, wpc>>
  BY CellsUntouched DEF Reader
<1>3. /\ UNCHANGED <<rcell, got, gotSeq>>
      /\ \A q \in Readers \ {r} : /\ rpc'[q] = rpc[q] /\ rseq'[q] = rseq[q]
                                  /\ rbuf'[q] = rbuf[q] /\ rleft'[q] = rleft[q]
      /\ rpc'[r] # "idle" => rpc[r] # "idle"
  BY <1>1 DEF LoadSeq, Reject, GiveUp, BestEffort, CopyField, TypeOK
<1>4. InvGot' /\ MicroNotBehind' /\ InvSent'
  BY <1>1, <1>2, <1>3 DEF InvGot, MicroNotBehind, InvSent, Readers
<1>5. InvCopy'
  <2> DEFINE Copy(q) ==
        /\ rpc[q] = "copy" => ~Odd(rseq[q])
        /\ rpc[q] \in {"copy", "fallback"} =>
             /\ rseq[q] <= seq[rcell[q]]
             /\ rseq[q] = seq[rcell[q]] /\ wpc # rcell[q] =>
                  \A f \in Fields \ rleft[q] : rbuf[q][f] = mem[rcell[q]][f]
        /\ q \in Pythons => rpc[q] # "fallback"
  <2>1. ASSUME NEW q \in Readers \ {r} PROVE Copy(q)'
    BY <1>1, <1>2, <1>3 DEF InvCopy, Odd
  <2>2. Copy(r)'
    <3>0. rcell[r] \in Cells /\ seq[rcell[r]] \in Nat /\ rcell'[r] = rcell[r]
      BY <1>1, <1>3 DEF TypeOK
    <3>1. CASE Reject(r) \/ GiveUp(r)
      <4>1. rpc'[r] \notin {"copy", "fallback"}
        BY <1>1, <3>1 DEF Reject, GiveUp, TypeOK
      <4> QED BY <4>1
    <3>2. CASE LoadSeq(r)
      <4>1. CASE rpc'[r] = "copy"
        <5>1. /\ seq[rcell[r]] % 2 = 0 /\ rseq'[r] = seq[rcell[r]]
              /\ rleft'[r] = Fields
          BY <1>1, <3>2, <4>1 DEF LoadSeq, TypeOK
        <5> QED BY <1>2, <3>0, <4>1, <5>1 DEF Odd
      <4>2. CASE rpc'[r] # "copy"
        <5>1. rpc'[r] = "try"
          BY <1>1, <3>2, <4>2 DEF LoadSeq, TypeOK
        <5> QED BY <5>1
      <4> QED BY <4>1, <4>2
    <3>3. CASE BestEffort(r)
      <4>1. /\ rpc'[r] = "fallback" /\ rseq'[r] = seq[rcell[r]]
            /\ rleft'[r] = Fields /\ r \notin Pythons
        BY <1>1, <3>3, SeqLockAssumption DEF BestEffort, TypeOK
      <4> QED BY <1>2, <3>0, <4>1
    <3>4. ASSUME NEW f \in Fields, CopyField(r, f) PROVE Copy(r)'
      <4>1. /\ rpc'[r] = rpc[r] /\ rseq'[r] = rseq[r]
            /\ rpc[r] \in {"copy", "fallback"}
            /\ rleft'[r] = rleft[r] \ {f} /\ rbuf'[r][f] = mem[rcell[r]][f]
            /\ \A g \in Fields \ {f} : rbuf'[r][g] = rbuf[r][g]
        BY <1>1, <3>4 DEF CopyField, TypeOK
      <4> QED BY <1>1, <1>2, <3>0, <4>1 DEF InvCopy, Odd
    <3> QED BY <3>1, <3>2, <3>3, <3>4
  <2>3. \A q \in Readers : Copy(q)'
    BY <2>1, <2>2
  <2> QED BY <2>3 DEF InvCopy
<1> QED BY <1>2, <1>4, <1>5 DEF IInv

(* A row the second load accepts is the content of a cell at rest. *)
LEMMA AcceptedRow ==
  ASSUME IInv, NEW r \in Readers, Accept(r)
  PROVE  LET c == rcell[r] IN
         c \in Cells /\ wpc # c /\ rbuf[r] = mem[c] /\ rbuf[r] \in [Fields -> Nat]
<1> DEFINE c == rcell[r]
<1>1. /\ c \in Cells /\ rbuf[r] \in [Fields -> Nat] /\ mem[c] \in [Fields -> Nat]
      /\ rpc[r] = "copy" /\ rleft[r] = {} /\ seq[c] = rseq[r]
  BY DEF IInv, TypeInv, TypeOK, Accept
<1>2. ~Odd(seq[c]) /\ (wpc # c => \A f \in Fields : rbuf[r][f] = mem[c][f])
  BY <1>1 DEF IInv, InvCopy
<1>3. wpc # c
  BY <1>1, <1>2 DEF IInv, InvParity
<1> QED BY <1>1, <1>2, <1>3

LEMMA TakeStep ==
  ASSUME IInv, NEW r \in Readers, Accept(r) \/ TakeBestEffort(r)
  PROVE  IInv'
<1>1. /\ TypeInv /\ TypeOK /\ InvCopy /\ InvGot /\ MicroNotBehind /\ InvSent
      /\ InvMem /\ InvMicro
  BY DEF IInv, TypeInv
<1>2. /\ TypeInv' /\ InvParity' /\ InvMem' /\ InvMicro'
      /\ UNCHANGED <<seq, mem, ver, wpc>>
  BY CellsUntouched DEF Reader
<1> DEFINE c == rcell[r]
<1>3. /\ c \in Cells /\ rbuf[r] \in [Fields -> Nat] /\ rleft[r] = {}
      /\ rpc[r] \in {"copy", "fallback"} /\ UNCHANGED <<rseq, rbuf, rleft>>
      /\ rcell' = [rcell EXCEPT ![r] = "micro"]
      /\ rpc' = [rpc EXCEPT ![r] = AfterCell(r)]
      /\ AfterCell(r) \notin {"copy", "fallback"}
      /\ r \in Pythons => AfterCell(r) = IF c = "snap" THEN "try" ELSE "idle"
      /\ \/ UNCHANGED <<got, gotSeq>> /\ r \notin Pythons
         \/ /\ got' = [got EXCEPT ![r][c] = rbuf[r]]
            /\ gotSeq' = [gotSeq EXCEPT ![r][c] = rseq[r]]
  BY <1>1, SeqLockAssumption
     DEF Accept, TakeBestEffort, TakeRow, Wanted, AfterCell, TypeOK
<1>4. /\ \A q \in Readers \ {r} : got'[q] = got[q] /\ gotSeq'[q] = gotSeq[q]
      /\ \A d \in Cells \ {c} : got'[r][d] = got[r][d] /\ gotSeq'[r][d] = gotSeq[r][d]
      /\ \/ UNCHANGED <<got, gotSeq>> /\ r \notin Pythons
         \/ got'[r][c] = rbuf[r] /\ gotSeq'[r][c] = rseq[r]
  BY <1>1, <1>3 DEF TypeOK
<1>5. InvCopy'
  BY <1>1, <1>2, <1>3 DEF InvCopy, TypeOK, Odd
<1>6. InvSent'
  <2>1. ASSUME NEW q \in Relays, NEW d \in Cells
        PROVE  /\ gotSeq'[q][d] <= seq[d]
               /\ gotSeq'[q][d] = seq[d] /\ wpc # d => got'[q][d] = mem[d]
    <3>1. CASE got'[q][d] = got[q][d] /\ gotSeq'[q][d] = gotSeq[q][d]
      BY <1>1, <3>1 DEF InvSent
    <3>2. CASE q = r /\ d = c /\ got'[r][c] = rbuf[r] /\ gotSeq'[r][c] = rseq[r]
      <4>1. /\ rseq[r] <= seq[c]
            /\ rseq[r] = seq[c] /\ wpc # c =>
                 \A f \in Fields : rbuf[r][f] = mem[c][f]
        BY <1>1, <1>3 DEF InvCopy
      <4>2. mem[c] \in [Fields -> Nat]
        BY <1>1, <1>3 DEF TypeOK
      <4>3. rseq[r] = seq[c] /\ wpc # c => rbuf[r] = mem[c]
        BY <1>3, <4>1, <4>2
      <4> QED BY <3>2, <4>1, <4>3
    <3> QED BY <1>4, <3>1, <3>2 DEF Readers
  <2> QED BY <1>2, <2>1 DEF InvSent
<1>7. InvGot' /\ MicroNotBehind'
  <2>1. ASSUME NEW q \in Pythons
        PROVE  /\ \A d \in Cells : got'[q][d] # NoRow => \A f, g \in Fields :
                    got'[q][d][f] = got'[q][d][g] /\ got'[q][d][f] <= ver
               /\ got'[q]["micro"] # NoRow => got'[q]["snap"] # NoRow
               /\ rpc'[q] # "idle" => got'[q]["micro"] = NoRow
               /\ rpc'[q] # "idle" /\ rcell'[q] = "micro" => got'[q]["snap"] # NoRow
               /\ \A f, g \in Fields : got'[q]["micro"] # NoRow =>
                    got'[q]["micro"][f] >= got'[q]["snap"][g] - 1
    <3>0. q \in Readers
      BY DEF Readers
    <3>1. CASE q # r
      <4>1. got'[q] = got[q] /\ rpc'[q] = rpc[q] /\ rcell'[q] = rcell[q]
        BY <1>1, <1>3, <1>4, <3>0, <3>1 DEF TypeOK
      <4> QED BY <1>1, <4>1 DEF InvGot, MicroNotBehind
    <3>2. CASE q = r
      <4>1. Accept(r)
        BY <1>1, <3>2 DEF TakeBestEffort, InvCopy
      <4>2. wpc # c /\ rbuf[r] = mem[c] /\ got'[r][c] = mem[c]
        BY <1>4, <3>2, <4>1, AcceptedRow
      <4>3. /\ got'[r][c] # NoRow
            /\ \A f, g \in Fields : mem[c][f] = mem[c][g] /\ mem[c][f] <= ver
        BY <1>1, <1>3, <4>2, RowPresent DEF InvMem
      <4>4. /\ rpc[r] # "idle" /\ got[r]["micro"] = NoRow
            /\ rcell'[r] = "micro"
        BY <1>1, <1>3, <3>2 DEF InvGot, TypeOK
      <4>5. CASE c = "snap"
        BY <1>1, <1>4, <3>2, <4>2, <4>3, <4>4, <4>5, TwoCells DEF InvGot
      <4>6. CASE c = "micro"
        <5>1. /\ got'[r]["snap"] = got[r]["snap"] /\ got[r]["snap"] # NoRow
              /\ rpc'[r] = "idle"
          BY <1>1, <1>3, <1>4, <3>2, <4>4, <4>6, TwoCells DEF InvGot, TypeOK
        <5>2. \A f, g \in Fields : /\ mem["micro"][f] \in Nat /\ ver \in Nat
                                   /\ mem["micro"][f] >= ver - 1
                                   /\ got[r]["snap"][g] <= ver
                                   /\ got[r]["snap"][g] \in Nat
          BY <1>1, <3>2, <5>1, TwoCells DEF InvMicro, InvGot, TypeOK
        <5>3. \A f, g \in Fields : mem["micro"][f] >= got[r]["snap"][g] - 1
          BY <5>2
        <5> QED BY <1>1, <1>4, <3>2, <4>2, <4>3, <4>6, <5>1, <5>3, TwoCells
                DEF InvGot
      <4> QED BY <1>3, <4>5, <4>6, TwoCells
    <3> QED BY <3>1, <3>2
  <2> QED BY <1>2, <2>1 DEF InvGot, MicroNotBehind
<1> QED BY <1>2, <1>5, <1>6, <1>7 DEF IInv

-----------------------------------------------------------------------------
(* The theorems *)

LEMMA Inductive ==
  ASSUME ~CrashInUpdate, IInv, [Next]_vars PROVE IInv'
<1> QED BY BeginWriteStep, WriteFieldStep, EndWriteStep, CrashStep, CallStep,
           PollStep, AttemptStep, TakeStep
        DEF Next, Writer, Reader

LEMMA Untorn == IInv => UntornReads
  BY DEF IInv, InvGot, UntornReads

(* Every variable keeps its type, crashes inside updates included. *)
THEOREM TypeCorrect == Spec => []TypeOK
<1>1. Init => TypeInv
  BY InitIInv DEF IInv
<1>2. TypeInv => TypeOK
  BY DEF TypeInv
<1> QED BY <1>1, <1>2, TypeStep, PTL DEF Spec

(* If the daemon is only killed between updates, snapshot() never returns  *)
(* a cell with fields of two updates (WriteSnapshot, WriteMicroSnapshot).  *)
THEOREM NoTornReads == ~CrashInUpdate => (Spec => []UntornReads)
<1> SUFFICES ASSUME ~CrashInUpdate PROVE Spec => []UntornReads
  OBVIOUS
<1>1. IInv /\ [Next]_vars => IInv'
  BY Inductive
<1> QED BY <1>1, InitIInv, Untorn, PTL DEF Spec

(* Under the same condition the two cells of one call fit together. *)
THEOREM CellsFit == ~CrashInUpdate => (Spec => []MicroNotBehind)
<1> SUFFICES ASSUME ~CrashInUpdate PROVE Spec => []MicroNotBehind
  OBVIOUS
<1>1. IInv /\ [Next]_vars => IInv'
  BY Inductive
<1>2. IInv => MicroNotBehind
  BY DEF IInv
<1> QED BY <1>1, <1>2, InitIInv, PTL DEF Spec

(* Under the same condition the relay's record of the sequences it has     *)
(* sent is sound: a cell it will not send again has been sent as it is,    *)
(* unchecked best-effort copies included.                                  *)
THEOREM DeltaSound == ~CrashInUpdate => (Spec => []SentIsCurrent)
<1> SUFFICES ASSUME ~CrashInUpdate PROVE Spec => []SentIsCurrent
  OBVIOUS
<1>1. IInv /\ [Next]_vars => IInv'
  BY Inductive
<1>2. IInv => SentIsCurrent
  BY DEF IInv, InvSent, SentIsCurrent
<1> QED BY <1>1, <1>2, InitIInv, PTL DEF Spec

-----------------------------------------------------------------------------
(* Refinement of the atomic registers *)

(* The instance's constants and rows are those of this module. *)
LEMMA AtomicNames ==
  /\ Atomic!Cells = Cells /\ Atomic!NoRow = NoRow
  /\ \A v : Atomic!Whole(v) = [f \in Fields |-> v]
  BY DEF Atomic!Cells, Atomic!NoRow, Atomic!Whole, Cells, NoRow

(* The value of a cell, at rest and being written. *)
ValueOK ==
  /\ Value \in [Cells -> Nat]
  /\ \A c \in Cells : wpc = c => Value[c] = ver
  /\ \A c \in Cells : wpc # c => \A f \in Fields : Value[c] = mem[c][f]

LEMMA ValueFacts == IInv => ValueOK
<1> SUFFICES ASSUME IInv PROVE ValueOK
  OBVIOUS
<1>1. (CHOOSE f \in Fields : TRUE) \in Fields
  BY SeqLockAssumption
<1>2. /\ ver \in Nat /\ mem \in [Cells -> [Fields -> Nat]]
      /\ \A c \in Cells : wpc # c => \A f, g \in Fields : mem[c][f] = mem[c][g]
  BY DEF IInv, TypeInv, TypeOK, InvMem
<1>3. \A c \in Cells : mem[c][CHOOSE f \in Fields : TRUE] \in Nat
  BY <1>1, <1>2
<1>4. \A c \in Cells : wpc # c =>
        \A f \in Fields : mem[c][CHOOSE g \in Fields : TRUE] = mem[c][f]
  BY <1>1, <1>2
<1> QED BY <1>2, <1>3, <1>4 DEF Value, ValueOK

LEMMA ValueFactsNext == IInv' => ValueOK'
  BY ValueFacts, PTL

LEMMA AtomicInit == Init => Atomic!Init
<1> SUFFICES ASSUME Init PROVE Atomic!Init
  OBVIOUS
<1>1. (CHOOSE f \in Fields : TRUE) \in Fields
  BY SeqLockAssumption
<1>2. Value = [c \in Cells |-> 0]
  BY <1>1, TwoCells DEF Init, Value
<1>3. [r \in Pythons |-> got[r]] = [r \in Pythons |-> [c \in Cells |-> NoRow]]
  BY DEF Init, Readers
<1> QED BY <1>2, <1>3, AtomicNames DEF Atomic!Init

LEMMA AtomicStep ==
  ASSUME ~CrashInUpdate, IInv, IInv', [Next]_vars
  PROVE  [Atomic!Next]_(Atomic!vars)
<1> DEFINE Got == [r \in Pythons |-> got[r]]
<1>0. /\ TypeOK /\ InvMem /\ InvMicro /\ ValueOK /\ ValueOK'
  BY ValueFacts, ValueFactsNext DEF IInv, TypeInv
<1>1. ASSUME NEW c \in Cells, BeginWrite(c)
      PROVE  [Atomic!Next]_(Atomic!vars)
  <2>1. /\ wpc \notin Cells /\ wpc' = c /\ mem' = mem /\ Got' = Got
        /\ ver \in Nat
        /\ \/ wpc = "idle" /\ ver' = ver + 1
           \/ wpc = "mid" /\ c = "micro" /\ ver' = ver
    BY <1>0, <1>1, TwoCells DEF BeginWrite, readerVars, TypeOK
  <2>2. PICK f \in Fields : TRUE
    BY SeqLockAssumption
  <2>3. /\ mem[c][f] \in Nat /\ mem[c][f] <= ver
        /\ wpc = "mid" /\ c = "micro" => mem[c][f] = ver - 1
    BY <1>0, <2>2 DEF InvMem, InvMicro, TypeOK
  <2>4. ver' > mem[c][f]
    <3>1. CASE wpc = "idle"
      BY <2>1, <2>3, <3>1
    <3>2. CASE wpc = "mid"
      BY <2>1, <2>3, <3>2
    <3> QED BY <2>1, <3>1, <3>2
  <2>5. /\ Value' \in [Cells -> Nat] /\ Value'[c] = ver' /\ Value[c] = mem[c][f]
        /\ \A d \in Cells \ {c} : Value'[d] = mem[d][f] /\ Value[d] = mem[d][f]
    BY <2>1, <2>2, <1>0 DEF ValueOK
  <2>6. Atomic!Write(c)
    BY <2>1, <2>4, <2>5, AtomicNames DEF Atomic!Write
  <2> QED BY <2>6, AtomicNames DEF Atomic!Next
<1>2. ASSUME NEW f \in Fields, WriteField(f)
      PROVE  [Atomic!Next]_(Atomic!vars)
  <2>1. /\ wpc \in Cells /\ UNCHANGED <<ver, wpc, got>>
        /\ \A d \in Cells \ {wpc} : mem'[d] = mem[d]
    BY <1>0, <1>2 DEF WriteField, readerVars, TypeOK
  <2>2. \A d \in Cells : Value'[d] = Value[d]
    BY <1>2, <2>1, <1>0 DEF ValueOK
  <2>3. Value' = Value /\ Got' = Got
    BY <2>1, <2>2, <1>0 DEF ValueOK
  <2> QED BY <2>3 DEF Atomic!vars
<1>3. CASE EndWrite
  <2>1. /\ wpc \in Cells /\ wpc' \notin Cells /\ wleft = {} /\ UNCHANGED <<mem, ver, got>>
    BY <1>3, TwoCells DEF EndWrite, readerVars
  <2>2. PICK f \in Fields : TRUE
    BY SeqLockAssumption
  <2>3. mem[wpc][f] = ver
    BY <1>0, <2>1, <2>2 DEF InvMem
  <2>4. \A d \in Cells : Value'[d] = Value[d]
    BY <2>1, <2>2, <2>3, <1>0 DEF ValueOK
  <2>5. Value' = Value /\ Got' = Got
    BY <2>1, <2>4, <1>0 DEF ValueOK
  <2> QED BY <2>5 DEF Atomic!vars
<1>4. CASE CommitAnchor \/ CloseHub \/ Crash \/ WarmRestart \/ UNCHANGED vars
  <2>1. /\ UNCHANGED <<mem, ver, got>>
        /\ UNCHANGED wpc \/ (wpc \notin Cells /\ wpc' \notin Cells)
    BY <1>4, TwoCells DEF CommitAnchor, CloseHub, Crash, WarmRestart, vars, cellVars,
         writerVars, readerVars
  <2>2. \A d \in Cells : wpc' = d <=> wpc = d
    BY <2>1
  <2>3. Value' = Value /\ Got' = Got
    BY <2>1, <2>2 DEF Value
  <2> QED BY <2>3 DEF Atomic!vars
<1>5. ASSUME NEW r \in Readers, Reader(r)
      PROVE  [Atomic!Next]_(Atomic!vars)
  <2>1. Value' = Value
    BY <1>5, CellsUntouched DEF Value
  <2>2. CASE Call(r)
    <3>1. r \in Pythons
      BY <2>2 DEF Call
    <3>2. Got' = [Got EXCEPT ![r] = [c \in Cells |-> NoRow]]
      BY <1>0, <2>2, <3>1 DEF Call, TypeOK, Readers
    <3>3. Atomic!Call(r)
      BY <2>1, <3>2, AtomicNames DEF Atomic!Call
    <3> QED BY <3>1, <3>3 DEF Atomic!Next
  <2>3. CASE Accept(r) /\ r \in Pythons
    <3>0. PICK c \in Cells : c = rcell[r]
      BY <2>3, AcceptedRow
    <3>1. /\ wpc # c /\ rbuf[r] = mem[c] /\ rbuf[r] \in [Fields -> Nat]
      BY <2>3, <3>0, AcceptedRow
    <3>2. \A f \in Fields : rbuf[r][f] = Value[c]
      BY <3>1, <1>0 DEF ValueOK
    <3>3. rbuf[r] = [f \in Fields |-> Value[c]]
      BY <3>1, <3>2
    <3>4. got' = [got EXCEPT ![r][c] = rbuf[r]]
      BY <2>3, <3>0 DEF Accept, TakeRow, Wanted
    <3>5. Got' = [Got EXCEPT ![r][c] = rbuf[r]]
      <4>1. \A q \in Pythons : got'[q] = IF q = r THEN [got[r] EXCEPT ![c] = rbuf[r]]
                                               ELSE got[q]
        BY <1>0, <3>4 DEF TypeOK, Readers
      <4> QED BY <2>3, <4>1
    <3> HIDE DEF Got
    <3>6. Atomic!Read(r, c)
      BY <2>1, <3>3, <3>5, AtomicNames DEF Atomic!Read, Got
    <3> QED BY <2>3, <3>6, AtomicNames DEF Atomic!Next
  <2>4. CASE \/ (Accept(r) /\ r \notin Pythons) \/ TakeBestEffort(r)
             \/ SeeFirstAnchor(r) \/ LoadLast(r) \/ TestStatus(r)
             \/ LoadSeq(r) \/ Reject(r) \/ GiveUp(r) \/ BestEffort(r)
             \/ \E f \in Fields : CopyField(r, f)
    <3>1. \A q \in Pythons : got'[q] = got[q]
      <4>1. TakeBestEffort(r) => r \notin Pythons
        BY DEF TakeBestEffort, IInv, InvCopy
      <4>2. CASE got' = got
        BY <4>2
      <4>3. CASE r \notin Pythons /\ got' = [got EXCEPT ![r][rcell[r]] = rbuf[r]]
        BY <1>0, <4>3 DEF TypeOK, Readers
      <4> QED BY <2>4, <4>1, <4>2, <4>3 DEF Accept, TakeBestEffort, TakeRow,
            SeeFirstAnchor, LoadLast, TestStatus, LoadSeq, Reject, GiveUp,
            BestEffort, CopyField
    <3>2. Got' = Got
      BY <3>1
    <3> QED BY <2>1, <3>2 DEF Atomic!vars
  <2> QED BY <1>5, <2>2, <2>3, <2>4 DEF Reader
<1> QED BY <1>1, <1>2, <1>3, <1>4, <1>5 DEF Next, Writer

(* If the daemon is only killed between updates, the two cells are atomic  *)
(* registers to every snapshot() call (AtomicSnapshot): each cell is read  *)
(* as if in one step, at the second load of its sequence.                  *)
THEOREM RefinesAtomic == ~CrashInUpdate => (Spec => ImplementsAtomic)
<1> SUFFICES ASSUME ~CrashInUpdate PROVE Spec => ImplementsAtomic
  OBVIOUS
<1>1. IInv /\ [Next]_vars => IInv'
  BY Inductive
<1>2. IInv /\ IInv' /\ [Next]_vars => [Atomic!Next]_(Atomic!vars)
  BY AtomicStep
<1> QED BY <1>1, <1>2, InitIInv, AtomicInit, PTL DEF Spec, ImplementsAtomic, Atomic!Spec
=============================================================================
