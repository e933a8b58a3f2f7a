---------------------------- MODULE MCMemoryStream ----------------------------
(* Small instances of MemoryStream.                                        *)
EXTENDS MemoryStream

CONSTANTS c1, c2
=============================================================================
