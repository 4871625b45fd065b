---------------------------- MODULE MCLiveRestarts ----------------------------
(* Two phases half a cadence apart with one row each; the consumer follows  *)
(* the row of the second.  A hub without a reader is restarted twice, one   *)
(* with a reader once.                                                      *)
EXTENDS LiveReaders

CONSTANTS p0s0, p1s0

MCPhases == {0, 1}
MCOffset == [p \in MCPhases |-> p]
MCRows == {p0s0, p1s0}
MCPhaseOf == [r \in MCRows |-> IF r = p1s0 THEN 1 ELSE 0]
MCCursors == {p1s0}
(* The same hub with its first phase only. *)
MCOnePhase == {0}
MCOneRow == {p0s0}
MCOneOffset == [p \in MCOnePhase |-> 0]
MCOnePhaseOf == [r \in MCOneRow |-> 0]

MCBound == reader # "none" => restarts <= 1 /\ autoRealign
=============================================================================
