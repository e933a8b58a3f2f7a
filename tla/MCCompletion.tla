----------------------------- MODULE MCCompletion -----------------------------
(* Small instances of Completion.                                          *)
EXTENDS Completion

CONSTANTS w1, w2, c1, c2
=============================================================================
