------------------------------- MODULE MCHub -------------------------------
(* Instances of Hub for TLC.                                               *)
EXTENDS Hub
=============================================================================
