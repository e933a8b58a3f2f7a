---------------------------- MODULE MCRedisStream ----------------------------
(* Small instances of RedisStream.                                         *)
EXTENDS RedisStream

CONSTANTS c1, c2, e1, e2
=============================================================================
