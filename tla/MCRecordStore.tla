---------------------------- MODULE MCRecordStore ----------------------------
(***************************************************************************)
(* RecordStore for TLC.  The fields kept are content (client text) and     *)
(* metadata (client text, or what the server writes there itself).         *)
(***************************************************************************)
EXTENDS RecordStoreProofs

CONSTANTS k1, k2, v1

MCField == {"content", "metadata"}
=============================================================================
