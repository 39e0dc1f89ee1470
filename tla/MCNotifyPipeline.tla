-------------------------- MODULE MCNotifyPipeline --------------------------
(* Finite instances of NotifyPipeline.                                     *)
EXTENDS NotifyPipeline

CONSTANTS u1, u2, f1, f2, s1, s2

TwoShards == <<f1, f2>>
Alone == u1 :> f1

\* Changed details, the survey, or nothing that concerns a session.
OneChange == {s1 :> "details"}
AnyChange == OneChange \cup {s1 :> "survey", <<>>}
=============================================================================
