---------------------------- MODULE MCTickAlerts -----------------------------
(* Instances of TickAlerts for TLC. *)
EXTENDS TickAlerts

==============================================================================
