----------------------------- MODULE FrameChannel -----------------------------
(***************************************************************************)
(* What historical replay promises to a consumer, without any ring: every  *)
(* row of every frame is handed over once, whole, in index order, and none *)
(* is handed over before it was produced.                                  *)
(***************************************************************************)
EXTENDS Integers

CONSTANTS Rows, First      \* First \in [Rows -> Nat]: index of the first frame

VARIABLES
  produced,   \* [Rows -> index of the last frame produced]
  consumed,   \* [Rows -> index of the last frame handed over]
  item        \* [Rows -> the frame in the consumer's hands, or NoItem]

vars == <<produced, consumed, item>>

NoItem == -2

Init ==
  /\ produced = [r \in Rows |-> First[r] - 1]
  /\ consumed = [r \in Rows |-> First[r] - 1]
  /\ item = [r \in Rows |-> NoItem]

Produce(r) ==
  /\ produced' = [produced EXCEPT ![r] = @ + 1]
  /\ UNCHANGED <<consumed, item>>

HandOver(r) ==
  /\ item[r] = NoItem
  /\ consumed[r] < produced[r]
  /\ consumed' = [consumed EXCEPT ![r] = @ + 1]
  /\ item' = [item EXCEPT ![r] = consumed[r] + 1]
  /\ UNCHANGED produced

(* The consumer is done with the frames of a set of rows (a phase). *)
Release(S) ==
  /\ \A r \in S : item[r] # NoItem
  /\ item' = [r \in Rows |-> IF r \in S THEN NoItem ELSE item[r]]
  /\ UNCHANGED <<produced, consumed>>

Next == \/ \E r \in Rows : Produce(r) \/ HandOver(r)
        \/ \E S \in SUBSET Rows : Release(S)

Spec == Init /\ [][Next]_vars
=============================================================================
