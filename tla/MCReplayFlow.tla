----------------------------- MODULE MCReplayFlow -----------------------------
(* Two phases half a cadence apart, as the sample configurations have, with *)
(* two rows in the first; the replay laps the rings.                        *)
EXTENDS ReplayFlow, TLC

MCPhases == {0, 1}
MCOffset == [p \in MCPhases |-> p]
MCRows == {"p0s0", "p0s1", "p1s0"}
MCPhaseOf == [r \in MCRows |-> IF r = "p1s0" THEN 1 ELSE 0]
MCStart == [p \in MCPhases |-> 1]
MCPair == {"p0s0", "p1s0"}
MCPairPhaseOf == [r \in MCPair |-> IF r = "p1s0" THEN 1 ELSE 0]
(* Replay that starts between the two offsets: phase 1 comes first. *)
MCLateStart == [p \in MCPhases |-> IF p = 0 THEN 2 ELSE 1]
GateFirst == {0}
GateNone == {}

(* Either a consumer that does what the reader's calls allow, or exits,    *)
(* with a producer whose wait may fail, or the exporter with a producer    *)
(* whose wait is ended by nothing but the exporter's release.              *)
VARIABLE exporter

EitherInit == Init /\ exporter \in BOOLEAN
EitherNext ==
  /\ \/ ~exporter /\ Next
     \/ exporter /\ (Replaying \/ Drain)
  /\ UNCHANGED exporter

(* Both processes keep running: the producer's loop polls every 50us, the  *)
(* exporter spins on the anchor word.                                      *)
EitherSpec ==
  /\ EitherInit /\ [][EitherNext]_<<vars, exporter>>
  /\ WF_vars(exporter /\ Replaying /\ UNCHANGED exporter)
  /\ WF_vars(exporter /\ Drain /\ UNCHANGED exporter)

(* The exporter gets every row of every round: it and a producer that      *)
(* waits for room never wait for each other (WaitConsumerAdvance,          *)
(* export_features).                                                       *)
ExporterServed == exporter => EveryFrameDelivered
=============================================================================
