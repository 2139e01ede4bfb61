------------------------- MODULE MCSessionLifecycle -------------------------
(* Instances of SessionLifecycle for TLC.                                  *)
EXTENDS SessionLifecycle, TLC

\* Logins are interchangeable, and so are Logouts.
Symmetry == Permutations(Logins) \cup Permutations(Logouts)
=============================================================================
