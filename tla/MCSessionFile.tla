--------------------------- MODULE MCSessionFile ---------------------------
(* Instances of SessionFile for TLC.                                       *)
EXTENDS SessionFile
=============================================================================
