--------------------------- MODULE MCAuthSession ---------------------------
(* Finite instances of AuthSession.                                        *)
EXTENDS AuthSession, TLC

CONSTANTS u1, u2, d1, d2

\* Each user has a database of their own.
Apart == u1 :> d1 @@ u2 :> d2
=============================================================================
