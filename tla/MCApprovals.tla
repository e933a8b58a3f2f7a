----------------------------- MODULE MCApprovals -----------------------------
(* Small instances of Approvals: the callers are model values.             *)
EXTENDS Approvals

CONSTANTS a1, r1, r2
=============================================================================
