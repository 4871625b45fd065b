----------------------------- MODULE LiveReaders -----------------------------
(***************************************************************************)
(* A live hub with one of its readers: a Python consumer, the recorder or  *)
(* the relay.  The readers share nothing but the segment, which none of    *)
(* them writes, so one at a time shows all that each of them can meet.     *)
(***************************************************************************)
EXTENDS LiveCursor, LiveRecorder, LiveRelay

CONSTANT Readers    \* the readers that may be attached

VARIABLE reader     \* which of the readers is attached

vars == <<liveVars, recoveryVars, cursorVars, recorderVars, relayVars, reader>>

Init ==
  /\ LiveInit /\ RecoveryInit /\ CursorInit /\ RecorderInit /\ RelayInit
  /\ reader \in Readers
  /\ reader # "cursor" => autoRealign
  /\ reader # "relay" => ~fromStart

Next ==
  \/ /\ Hub
     /\ UNCHANGED <<cursorVars, recorderVars, relayVars, reader>>
  \/ /\ reader = "cursor" /\ Cursor
     /\ UNCHANGED <<liveVars, recoveryVars, recorderVars, relayVars, reader>>
  \/ /\ reader = "recorder" /\ Recorder
     /\ UNCHANGED <<liveVars, recoveryVars, cursorVars, relayVars, reader>>
  \/ /\ reader = "relay" /\ Relay
     /\ UNCHANGED <<liveVars, recoveryVars, cursorVars, recorderVars, reader>>

Spec == Init /\ [][Next]_vars

(* Every word, counter and program position of the hub and of its readers  *)
(* keeps its type.                                                         *)
TypeOK == LiveTypeOK /\ RecoveryTypeOK /\ CursorTypeOK /\ RecorderTypeOK /\ RelayTypeOK
=============================================================================
