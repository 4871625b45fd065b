---------------------------- MODULE MCLiveReaders ----------------------------
(* Two phases half a cadence apart; the consumer follows the two rows of    *)
(* the first.  The frames of index 4 are outside the trading hours, and     *)
(* midnight falls between them and those of index 5.                        *)
EXTENDS LiveReaders, TLC

CONSTANTS p0s0, p0s1, p1s0

MCPhases == {0, 1}
MCOffset == [p \in MCPhases |-> p]
MCRows == {p0s0, p0s1, p1s0}
MCPhaseOf == [r \in MCRows |-> IF r = p1s0 THEN 1 ELSE 0]
MCCursors == {p0s0, p0s1}
MCTradingHours == (0 .. 7) \cup (10 .. 13)
(* A recorder that is started again finds every snapshot stable, a relay    *)
(* that serves from the start keeps its first connection, and a hub whose   *)
(* recorder has been started again, or whose relay has been connected       *)
(* again, is not followed beyond its commit of frame 6, or of frame 5.      *)
MCBound ==
  /\ reopens + busy <= 1 /\ (fromStart => breaks = 0)
  /\ \A p \in Phases : /\ reopens > 0 => phaseNext[p] <= 6
                       /\ breaks > 0 => phaseNext[p] <= 5
(* The two rows of phase 0 are interchangeable. *)
MCSymmetry == Permutations(MCCursors)
=============================================================================
