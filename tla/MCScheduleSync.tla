--------------------------- MODULE MCScheduleSync ---------------------------
(* Finite instances of ScheduleSync.                                       *)
EXTENDS ScheduleSync, TLC

CONSTANTS p1, p2, r1, k1, k2

\* p1 and r1 run on instances that share a key, p2 on another.
ShardsOf3 == p1 :> k1 @@ p2 :> k2 @@ r1 :> k1
ShardsOfPair == p1 :> k1 @@ r1 :> k1
=============================================================================
