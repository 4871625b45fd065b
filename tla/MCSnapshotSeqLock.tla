-------------------------- MODULE MCSnapshotSeqLock --------------------------
EXTENDS SnapshotSeqLock, TLC

MCFields == {"bid", "ask"}
OnePython == {"py"}
OneRelay == {"relay"}
Nobody == {}

(* No reader writes anything the writer or another reader looks at: a run   *)
(* of one reader at a time shows all that any of them can see.  snapshot()  *)
(* does not look at the anchors, so that its runs go without.               *)
VARIABLE only   \* the reader that runs

SoloInit == Init /\ only \in Readers
SoloNext ==
  /\ \/ Writer /\ (only \in Pythons => last' = last)
     \/ Reader(only)
  /\ UNCHANGED only

(* The projector finishes the update it has begun, whether or not another  *)
(* tick ever comes; the connection's loop goes on.  No update, anchor,     *)
(* restart or orderly end has to come.                                     *)
SoloSpec ==
  /\ SoloInit /\ [][SoloNext]_<<vars, only>>
  /\ WF_vars(BeginWrite("micro") /\ wpc = "mid" /\ UNCHANGED only)
  /\ WF_vars(((\E f \in Fields : WriteField(f)) \/ EndWrite) /\ UNCHANGED only)
  /\ WF_vars(Reader(only) /\ UNCHANGED only)

=============================================================================
