----------------------------- MODULE MCStateFile -----------------------------
(* Instances of StateFile for TLC. *)
EXTENDS StateFile

TickAndAudit == {"tick", "audit"}
OneSave      == {"audit", "status"}

==============================================================================
