----------------------------- MODULE MCStaging -----------------------------
(* Instances of Staging for TLC; jobs, parts and files left are each       *)
(* interchangeable.                                                        *)
EXTENDS Staging, TLC

Symmetry == Permutations(Jobs) \cup Permutations(Parts) \cup Permutations(Earlier)
=============================================================================
