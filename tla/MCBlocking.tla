----------------------------- MODULE MCBlocking ------------------------------
(* Instances of Blocking for TLC.                                          *)
EXTENDS Blocking

CONSTANTS
  tick, detect,     \* a tick and a run of --detect-botnet
  a1, v6,           \* an IPv4 and an IPv6 address
  A, V              \* what subnet_24 makes of them

MCSubnetOf == (a1 :> A) @@ (v6 :> V)
MCSimilar  == (A :> {A}) @@ (V :> {V})
=============================================================================
