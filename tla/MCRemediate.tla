----------------------------- MODULE MCRemediate -----------------------------
(* Instances of Remediate for TLC.                                          *)
EXTENDS Remediate

CONSTANTS t1, t2

(* One thing anywhere, another in /tmp or in sudoers.d.                     *)
AnyAndOne  == {w \in [{t1, t2} -> Place] : w[t2] \in {"tmp", "sudoersd"}}

(* Everything that has a handler, one check taken off the list, disabled.   *)
AllOneNone == {Check, Check \ {"tmp_executable"}, {}}
=============================================================================
