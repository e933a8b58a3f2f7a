---------------------------- MODULE MCStreamRoutes ----------------------------
(* Small instances of StreamRoutes.  Requests differ in nothing but what   *)
(* they do, and no liveness is checked, so they may be permuted.           *)
EXTENDS StreamRoutes, TLC

CONSTANTS h1, h2

Symmetry == Permutations(Handler)
=============================================================================
