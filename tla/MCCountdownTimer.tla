-------------------------- MODULE MCCountdownTimer --------------------------
(* Seconds that make minutes of 3, hours of 6, days of 12, in binary digits. *)
EXTENDS CountdownTimer

\* The countdown goes from four days (three binary digits) to three, or ends.
MCTimes == {7, 8} \cup (53..57)

MCStart == {7, 53, 56}
=============================================================================
