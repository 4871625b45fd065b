------------------------------- MODULE MCRing250 -------------------------------
(* A ring and a baseline of 3 buckets, and gaps of up to 4 closed bucket by *)
(* bucket, stand for 64, 3600 and 100000; a window is of 2 bars, for 41.    *)
EXTENDS Ring250
=============================================================================
