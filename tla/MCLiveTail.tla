------------------------------ MODULE MCLiveTail ------------------------------
(* Small instances of LiveTail.                                            *)
EXTENDS LiveTail

CONSTANTS v1, w1, w2
=============================================================================
