---------------------------- MODULE StateRegister ----------------------------
(***************************************************************************)
(* What the state store of secmon promises to the modes that use it: a     *)
(* register whose content is replaced in one step.  A mode loads the whole *)
(* document, adds its own updates in memory and stores the whole document  *)
(* back.  The register promises NO atomic read-modify-write: Store writes  *)
(* what the mode loaded plus its own updates, whatever was stored since.   *)
(*                                                                         *)
(* A document is the set of updates recorded in it; the default document   *)
(* of a first run (default_state) is the empty set.                        *)
(***************************************************************************)

CONSTANTS
  Proc,        \* secmon processes
  Update       \* the updates modes record

VARIABLES
  content,     \* the document the next load returns
  safe,        \* the document a power loss falls back to
  view         \* view[p]: the document process p loaded, {} when none

vars == <<content, safe, view>>

Init ==
  /\ content = {}
  /\ safe = {}
  /\ view = [p \in Proc |-> {}]

(* load_state returns the current document. *)
Load(p) ==
  /\ view' = [view EXCEPT ![p] = content]
  /\ UNCHANGED <<content, safe>>

(* save_state replaces the document by the one p has in memory. *)
Store(p) ==
  /\ view[p] \subseteq content'
  /\ content' \subseteq view[p] \cup Update
  /\ UNCHANGED <<safe, view>>

(* The process ends, is killed, or starts without a document. *)
Forget(p) ==
  /\ view' = [view EXCEPT ![p] = {}]
  /\ UNCHANGED <<content, safe>>

(* The operating system makes the latest document durable. *)
Flush ==
  /\ safe' = content
  /\ UNCHANGED <<content, view>>

(* Power loss: every process is gone and the durable document is back. *)
Outage ==
  /\ content' = safe
  /\ view' = [p \in Proc |-> {}]
  /\ UNCHANGED safe

(* The medium damages the document: what is left reads as the default. *)
Damage ==
  /\ content' = {}
  /\ safe' = {}
  /\ UNCHANGED view

Next ==
  \/ \E p \in Proc : Load(p) \/ Store(p) \/ Forget(p)
  \/ Flush
  \/ Outage
  \/ Damage

Spec == Init /\ [][Next]_vars

==============================================================================
