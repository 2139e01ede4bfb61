--------------------------- MODULE MCSyncEmission ---------------------------
(* Instances of SyncEmission for TLC.                                      *)
EXTENDS SyncEmission
=============================================================================
