---------------------------- MODULE MCProcessScan ----------------------------
(* Instances of ProcessScan for TLC.                                         *)
EXTENDS ProcessScan
=============================================================================
