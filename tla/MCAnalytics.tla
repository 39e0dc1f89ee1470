---------------------------- MODULE MCAnalytics ----------------------------
(* Finite instances of Analytics.                                          *)
EXTENDS Analytics, TLC

CONSTANTS p1, p2, d1, d2, home, schedule
=============================================================================
