---------------------------- MODULE MCCachedFeed ----------------------------
(* Finite instances of CachedFeed.                                         *)
EXTENDS CachedFeed, TLC
=============================================================================
