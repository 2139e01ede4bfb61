----------------------------- MODULE MCWindows -----------------------------
(* Instances of Windows for TLC; workers are interchangeable.              *)
EXTENDS Windows, TLC

Symmetry == Permutations(Workers)
=============================================================================
