--------------------------- MODULE MCControlLine ---------------------------
(* Instances of ControlLine with a ring of four slots (two of them usable  *)
(* by the gated row), an early and a late window of it that share slots, a *)
(* symbol that is slow to replay and one without files.  The payload of a  *)
(* request that was given up may mix with the next one's, which makes      *)
(* windows that do not fit.                                                *)
EXTENDS ControlLine

CONSTANTS A, B, X

Chunk(s, a, b) == [sym |-> s, start |-> a, end |-> b]

MCSymbols == {A, B, X}
MCWithFiles == {A, B}

MCSlow == {B}
MCRequests == {Chunk(A, 1, 3), Chunk(A, 8, 10), Chunk(B, 5, 7), Chunk(X, 1, 3)}
=============================================================================
