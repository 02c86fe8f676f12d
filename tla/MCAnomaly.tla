------------------------------ MODULE MCAnomaly ------------------------------
(* Instances of Anomaly for TLC.                                            *)
EXTENDS Anomaly
=============================================================================
