---------------------------- MODULE AtomicSnapshot ----------------------------
(***************************************************************************)
(* What the snapshot area promises its readers: each cell of a symbol is a *)
(* register written and read in one step.                                  *)
(***************************************************************************)
EXTENDS Integers

CONSTANTS Fields, Readers

VARIABLES
  value,   \* [Cells -> update number]: what the cell holds
  got      \* [Readers -> [Cells -> row or NoRow]]: what the call has read

vars == <<value, got>>

Cells == {"snap", "micro"}
Whole(v) == [f \in Fields |-> v]
NoRow == [f \in {} |-> 0]

Init == /\ value = [c \in Cells |-> 0]
        /\ got = [r \in Readers |-> [c \in Cells |-> NoRow]]

Write(c) == /\ value' \in [Cells -> Nat]
            /\ value'[c] > value[c]
            /\ \A d \in Cells \ {c} : value'[d] = value[d]
            /\ UNCHANGED got

Call(r) == /\ got' = [got EXCEPT ![r] = [c \in Cells |-> NoRow]]
           /\ UNCHANGED value

Read(r, c) == /\ got' = [got EXCEPT ![r][c] = Whole(value[c])]
              /\ UNCHANGED value

Next == \/ \E c \in Cells : Write(c)
        \/ \E r \in Readers : Call(r) \/ \E c \in Cells : Read(r, c)

Spec == Init /\ [][Next]_vars
=============================================================================
