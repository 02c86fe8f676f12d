----------------------------- MODULE MCDelivery ------------------------------
(* Instances of Delivery for TLC.                                            *)
EXTENDS Delivery

CONSTANTS line, routine, block
=============================================================================
