------------------------------ MODULE MCProjector ------------------------------
(* Two phases half a cadence apart over two symbols.  The stream has ticks   *)
(* on both sides of a boundary and on it, repeated and invalid quotes, and   *)
(* ticks that tie in time.                                                   *)
EXTENDS Projector

MCPhases == {0, 1}
MCOffset == [p \in MCPhases |-> p]
MCSymbols == {1, 2}
MCMembers == [p \in MCPhases |-> IF p = 0 THEN {1} ELSE {1, 2}]
Q(id, sym, ts, px) == [id |-> id, sym |-> sym, kind |-> Quote, ts |-> ts, px |-> px]
T(id, sym, ts) == [id |-> id, sym |-> sym, kind |-> Trade, ts |-> ts, px |-> 1]
MCTicks == {Q(1, 1, 3, 7), Q(2, 1, 4, 8), Q(3, 1, 4, 8), T(4, 1, 4),
            Q(5, 2, 5, 7), Q(6, 1, 5, 7), T(7, 1, 3)}
(* A file that begins before the chunk. *)
MCFile == {Q(1, 1, 1, 7), Q(2, 1, 2, 7), Q(3, 1, 3, 8), T(4, 1, 4), Q(5, 1, 4, 0),
           T(6, 1, 6), Q(7, 1, 6, 8), Q(8, 1, 8, 9), T(9, 2, 5), T(10, 2, 5)}
(* The daemon; a playback of whole files; a worker's chunk for one symbol  *)
(* that starts inside a second.                                            *)
Daemon == [live |-> TRUE, start |-> 2, active |-> MCSymbols, ticks |-> MCTicks]
Playback == [live |-> FALSE, start |-> 0, active |-> MCSymbols, ticks |-> MCFile]
Chunk == [live |-> FALSE, start |-> 3, active |-> {1}, ticks |-> MCFile]
AllTicks == MCTicks \cup MCFile
(* One trade may be later than the watermark. *)
MCJitter == [t \in AllTicks |-> IF t \in MCTicks /\ t.id = 7 THEN 4 ELSE 1]
AllJobs == {Daemon, Playback, Chunk}
=============================================================================
