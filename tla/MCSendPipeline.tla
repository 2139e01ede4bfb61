--------------------------- MODULE MCSendPipeline ---------------------------
(* Instances of SendPipeline for TLC.                                      *)
EXTENDS SendPipeline
=============================================================================
