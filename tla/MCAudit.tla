------------------------------- MODULE MCAudit -------------------------------
(***************************************************************************)
(* Audit for TLC: two runs; metadata is the only field.                    *)
(***************************************************************************)
EXTENDS Audit

CONSTANTS r1, r2, v1, sk1, sk2

MCField == {"metadata"}
=============================================================================
