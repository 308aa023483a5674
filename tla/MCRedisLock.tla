---------------------------- MODULE MCRedisLock ----------------------------
(* Instances of RedisLock for TLC.                                         *)
EXTENDS RedisLock, TLC

CONSTANTS i1, i2, r1, r2, r3, r4

TwoEach == r1 :> i1 @@ r2 :> i1 @@ r3 :> i2 @@ r4 :> i2
=============================================================================
