---------------------------- MODULE MCRelayQueue ----------------------------
(* Instances of RelayQueue for TLC.                                        *)
EXTENDS RelayQueue
=============================================================================
