-------------------------- MODULE MCOfflineWrites --------------------------
(* Finite instances of OfflineWrites.                                      *)
EXTENDS OfflineWrites, TLC

CONSTANTS d1, d2

\* All clocks right; the clock of d1 fast, by less than the window of the
\* rules.
NoSkew == d1 :> 0 @@ d2 :> 0
Fast == d1 :> 2 @@ d2 :> 0

=============================================================================
