-------------------------- MODULE MCAuditBaselines ---------------------------
(* Instances of AuditBaselines for TLC.                                     *)
EXTENDS AuditBaselines

CONSTANTS i1, i2, v1, v2
=============================================================================
