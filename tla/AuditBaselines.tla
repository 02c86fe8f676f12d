---------------------------- MODULE AuditBaselines ----------------------------
(***************************************************************************)
(* The deep audit and the baselines it compares the host with              *)
(* (audit/network.py, file_integrity.py, auth.py, threat_intel.py, the     *)
(* layers of audit/__init__.py), run by a tick every six hours             *)
(* (modes/tick.py:52-74) or at any time by --audit (modes/audit_mode.py).  *)
(*                                                                         *)
(* Each kind of thing watched has a policy of its own: what counts as      *)
(* news, whether the baseline is replaced or merged, what a probe that     *)
(* fails looks like.  The policies do not touch each other, so a behaviour *)
(* watches the items of one kind.  The question is the same for all: does  *)
(* a change reach the alert log (or, below HIGH, the stored findings)      *)
(* before it becomes part of the baseline?                                 *)
(*                                                                         *)
(* Items the configuration exempts are not among Item.  Time passes in     *)
(* slots of which Window make six hours, between runs.                     *)
(***************************************************************************)
EXTENDS Naturals, FiniteSets

CONSTANTS
  Item,        \* things of one kind: ports, files, programs, users, units, ...
  Value,       \* what an item may be: a listening process, a content
  Here,        \* the only value of items that are just there or not
  Plain,       \* items that are just there or not whatever their kind
  Absent,      \* the item is not there
  Unread,      \* a file that cannot be read
  Severe,      \* persistence entries of systemd and cron: their news are HIGH
  Window,      \* slots in six hours: the dedup window, and between audits
  MaxFaults    \* bound: probes that fail, runs killed, saves that fail

ASSUME ValueAssumption  == /\ Here \in Value
                           /\ {Absent, Unread} \cap Value = {} /\ Absent # Unread
ASSUME ItemAssumption   == Plain \subseteq Item /\ Severe \subseteq Item
ASSUME NumberAssumption == Window \in Nat \ {0} /\ MaxFaults \in Nat

(* What is watched: known_ports, file_hashes, suid_cache, users, groups,   *)
(* authorized_keys_hashes, persistence; "unit" is services, and timers.    *)
Kind == {"port", "file", "suid", "user", "member", "key", "persist", "unit"}

ValueOf(k, i) ==
  IF k \in {"suid", "user", "member", "unit"} \/ i \in Plain THEN {Here} ELSE Value
Known      == Value \cup {Absent}
Event      == {"new", "changed", "removed"}
Finding    == Item \X Event
Age        == 0..Window        \* slots since; Window: six hours or more, or never

(* The part of the state document an audit reads and writes: the baseline, *)
(* reported_removed_ports, the dedup times, last_audit_check.              *)
Document == [base : [Item -> Known], removed : SUBSET Item,
             dedup : [Finding -> Age], audited : Age]

VARIABLES
  kind,        \* the kind of item this behaviour watches
  host,        \* host[i]: what item i is
  disk,        \* the document in state.json
  mem,         \* the document the running process works on
  run,         \* where the process is, what it saw and found
  faults,      \* how many faults so far
  told,        \* told[i]: what the operator was last told item i is
  excuse       \* history: items whose baseline may differ from what was told

vars == <<kind, host, disk, mem, run, faults, told, excuse>>

PC   == {"idle", "digest", "dispatch", "save"}
Idle == [pc |-> "idle", mode |-> "audit", seen |-> [i \in Item |-> Absent],
         found |-> {}, stored |-> FALSE]

(* A host whose baseline was taken when at least one item was there.       *)
Init ==
  /\ kind \in Kind
  /\ host \in {h \in [Item -> Known] : \A i \in Item : h[i] \in ValueOf(kind, i) \cup {Absent}}
  /\ \E i \in Item : host[i] # Absent
  /\ disk = [base |-> host, removed |-> {}, dedup |-> [f \in Finding |-> Window],
             audited |-> Window]
  /\ mem = disk
  /\ run = Idle
  /\ faults = 0
  /\ told = host
  /\ excuse = {}

Fault == faults < MaxFaults /\ faults' = faults + 1

-----------------------------------------------------------------------------
(* The host *)

Change(i, v) ==
  /\ run.pc = "idle"
  /\ v # host[i]
  /\ host' = [host EXCEPT ![i] = v]
  /\ UNCHANGED <<kind, disk, mem, run, faults, told, excuse>>

Later(age) == IF age < Window THEN age + 1 ELSE Window

PassTime ==
  /\ run.pc = "idle"
  /\ disk' = [disk EXCEPT !.dedup = [f \in Finding |-> Later(@[f])],
                          !.audited = Later(@)]
  /\ disk' # disk
  /\ UNCHANGED <<kind, host, mem, run, faults, told, excuse>>

-----------------------------------------------------------------------------
(* The layers *)

(* What cannot be read: one file or persistence entry, or the listing (ss, *)
(* find, systemctl, /etc/shadow) that shows all items of the kind.         *)
Hidden ==
  IF kind \in {"file", "key", "persist"}
  THEN SUBSET {i \in Item : host[i] # Absent} ELSE {{}, Item}

(* An unreadable file is passed over; what a listing does not show, or a   *)
(* persistence entry without a digest, is taken for absent.                *)
Seen(hidden) ==
  [i \in Item |-> IF i \notin hidden THEN host[i]
                  ELSE IF kind \in {"file", "key"} THEN Unread ELSE Absent]

(* The layer auth opens /etc/shadow after it has stored the users and      *)
(* before it looks at the groups: if that raises, its findings are lost.   *)
Raises(hidden) == kind \in {"user", "member"} /\ hidden # {}

(* Which differences from the baseline are findings.                       *)
Reports ==
  CASE kind \in {"port", "file", "persist"} -> Event
    [] kind \in {"suid", "user", "member", "unit"} -> {"new"}
    [] kind = "key" -> {"changed"}

(* Some baselines are not compared with while they are empty.              *)
Comparable(base) ==
  kind \in {"persist", "unit"} => \E i \in Item : base[i] # Absent

Difference(i, old, now) ==
  CASE old = Absent /\ now \in Value             -> "new"
    [] old \in Value /\ now \in Value \ {old}    -> "changed"
    [] old \in Value /\ now = Absent             -> "removed"
    [] OTHER                                     -> "none"

(* Mutant of NewBase: an item that is known keeps its first value.         *)
NewBaseKeepsFirst(base, seen) ==
  [i \in Item |-> IF base[i] = Absent /\ seen[i] \in Value THEN seen[i] ELSE base[i]]

(* Baselines that keep what is not there any more; the others are replaced *)
(* by what was seen (known_ports drops a port once it was reported).       *)
NewBase(base, seen) ==
  IF kind \in {"file", "key", "user"}
  THEN [i \in Item |-> IF seen[i] \in Value THEN seen[i] ELSE base[i]]
  ELSE seen

(* Mutant of Compared: the baseline is updated before the comparison.      *)
ComparedTooLate(base, seen) == NewBase(base, seen)

(* What the findings are differences from: the baseline as it was stored.  *)
Compared(base, seen) == base

Findings(base, removed, seen) ==
  {f \in Finding :
     /\ f[2] \in Reports
     /\ Comparable(base)
     /\ f[2] = Difference(f[1], Compared(base, seen)[f[1]], seen[f[1]])
     /\ kind = "port" /\ f[2] = "removed" => f[1] \notin removed}

(* Mutant of StillRemoved: a port that is back stays in the list.          *)
StillRemovedForever(removed, seen) == removed

(* reported_removed_ports without the ports that listen again.             *)
StillRemoved(removed, seen) == {i \in removed : seen[i] = Absent}

(* Findings below HIGH never become alerts.                                *)
Alerts(found) ==
  {f \in found :
     CASE kind = "user"    -> FALSE
       [] kind = "port"    -> f[2] # "changed"
       [] kind = "file"    -> f[2] # "new"
       [] kind = "persist" -> f[2] # "removed" /\ f[1] \in Severe
       [] OTHER            -> TRUE}

(* Items that enter the baseline without a comparison.                     *)
Adopted(base, seen, hidden) ==
  {i \in Item : seen[i] # base[i] /\ \/ ~Comparable(base)
                                     \/ kind = "key" /\ base[i] = Absent
                                     \/ Raises(hidden)}

(* Mutant of Due: more than six hours.                                     *)
DueLate == disk.audited > Window

Due == disk.audited = Window

(* A tick audits when it is due, sets last_audit_check, and may have the   *)
(* daily digest to save before it dispatches; --audit does neither.        *)
Audit(mode) ==
  /\ run.pc = "idle"
  /\ mode = "tick" => Due
  /\ \E hidden \in Hidden :
       LET raised == Raises(hidden)
           seen   == IF raised THEN Seen({}) ELSE Seen(hidden)
           base   == disk.base
           found  == IF raised THEN {} ELSE Findings(base, disk.removed, seen)
           gone   == {f[1] : f \in {g \in found : kind = "port" /\ g[2] = "removed"}}
       IN  /\ IF hidden = {} THEN UNCHANGED faults ELSE Fault
           /\ mem' = [base    |-> IF raised /\ kind = "member" THEN base
                                  ELSE NewBase(base, seen),
                      removed |-> StillRemoved(disk.removed \cup gone, seen),
                      dedup   |-> disk.dedup,
                      audited |-> IF mode = "tick" THEN 0 ELSE disk.audited]
           /\ excuse' = excuse \cup Adopted(base, seen, hidden)
           /\ \E pc \in (IF mode = "tick" THEN {"digest", "dispatch"} ELSE {"dispatch"}) :
                run' = [pc |-> pc, mode |-> mode, seen |-> seen, found |-> found,
                        stored |-> FALSE]
  /\ UNCHANGED <<kind, host, disk, told>>

-----------------------------------------------------------------------------
(* The rest of the run *)

(* Saved findings below HIGH are in last_audit_findings with the baseline  *)
(* they belong to; that an item is gone is for some kinds no news at all.  *)
ToldBySave ==
  [i \in Item |->
     IF \/ \E f \in run.found \ Alerts(run.found) : f[1] = i
        \/ "removed" \notin Reports /\ mem.base[i] = Absent
     THEN mem.base[i] ELSE told[i]]

SaveOrFail ==
  \/ disk' = mem /\ told' = ToldBySave /\ UNCHANGED faults
  \/ Fault /\ UNCHANGED <<disk, told>>

(* The digest of the day saves the new baseline before the dispatch.       *)
Digest ==
  /\ run.pc = "digest"
  /\ SaveOrFail
  /\ run' = [run EXCEPT !.pc = "dispatch", !.stored = (disk' = mem)]
  /\ UNCHANGED <<kind, host, mem, excuse>>

(* The alert of a finding has the key audit:<check>:<message>; the message *)
(* names the item, not its content.                                        *)
IsDuplicate(f) == mem.dedup[f] < Window

Logged == {f \in Alerts(run.found) : ~IsDuplicate(f)}

(* What an alert that is suppressed would have said is never said.         *)
Dispatch ==
  /\ run.pc = "dispatch"
  /\ mem' = [mem EXCEPT !.dedup = [f \in Finding |-> IF f \in Logged THEN 0 ELSE @[f]]]
  /\ told' = [i \in Item |-> IF \E f \in Logged : f[1] = i THEN run.seen[i] ELSE told[i]]
  /\ excuse' = (excuse \ {f[1] : f \in Logged}) \cup {f[1] : f \in Alerts(run.found) \ Logged}
  /\ run' = [run EXCEPT !.pc = "save"]
  /\ UNCHANGED <<kind, host, disk, faults>>

(* History: the items a lost document had alerts for.                      *)
Alerted == {f[1] : f \in Alerts(run.found)}

Save ==
  /\ run.pc = "save"
  /\ SaveOrFail
  /\ excuse' = IF disk' = mem THEN excuse ELSE excuse \cup Alerted
  /\ run' = Idle
  /\ mem' = disk'
  /\ UNCHANGED <<kind, host>>

Kill ==
  /\ run.pc # "idle"
  /\ Fault
  /\ excuse' = IF run.pc = "save" \/ run.stored
               THEN excuse \cup Alerted ELSE excuse
  /\ run' = Idle
  /\ mem' = disk
  /\ UNCHANGED <<kind, host, disk, told>>

Step == Audit("tick") \/ Digest \/ Dispatch \/ Save

Next ==
  \/ \E i \in Item : \E v \in ValueOf(kind, i) \cup {Absent} : Change(i, v)
  \/ PassTime
  \/ Audit("audit")
  \/ Step
  \/ Kill

Spec == Init /\ [][Next]_vars

(* Time passes however often runs are started, cron starts a tick when one *)
(* is due, and a run goes on.                                              *)
FairSpec == Spec /\ SF_vars(PassTime) /\ WF_vars(Step)

-----------------------------------------------------------------------------
(* Properties *)

TypeOK ==
  /\ kind \in Kind
  /\ host \in [Item -> Known] /\ told \in [Item -> Known]
  /\ disk \in Document /\ mem \in Document
  /\ run.pc \in PC /\ run.mode \in {"tick", "audit"} /\ run.found \subseteq Finding
  /\ run.seen \in [Item -> Known \cup {Unread}] /\ run.stored \in BOOLEAN
  /\ faults \in 0..MaxFaults /\ excuse \subseteq Item

(* The two lists of ports are edited at four places of the layer and saved *)
(* by several modes: a port of the saved known_ports is never among the    *)
(* reported_removed_ports, which would suppress the next time it goes.     *)
RemovalIsNews == \A i \in Item : disk.base[i] # Absent => i \notin disk.removed

(* A critical file that is missing keeps its digest, and its coming back   *)
(* as it was is no news.                                                   *)
MissingFile(i) == kind = "file" /\ told[i] = Absent

(* What the saved baseline takes an item for is what the operator was last *)
(* told it is.  The exceptions are named by excuse: the baseline was empty *)
(* or the key file new, auth raised, the alert was taken for a duplicate   *)
(* of one within six hours, or the run was killed between the save of the  *)
(* digest and the end.  A failing probe alone never hides a change.        *)
BaselineIsTold ==
  run.pc # "save" /\ ~run.stored =>
    \A i \in Item \ excuse : disk.base[i] = told[i] \/ MissingFile(i)

(* An alert says something new: that an item is what it was last said to   *)
(* be is repeated only after a change that was never told, and for a file  *)
(* that is still missing; a failed probe alone makes no audit repeat it.   *)
NothingToldTwice ==
  [][run.pc = "dispatch" =>
       \A f \in Logged : \/ run.seen[f[1]] # told[f[1]]
                         \/ f[1] \in excuse
                         \/ kind = "file" /\ f[2] = "removed"]_vars

(* Of some kinds an audit never says that an item is gone.                 *)
News(i) == host[i] # told[i] /\ (host[i] = Absent => "removed" \in Reports)

(* An item is what the saved baseline takes it for although the operator   *)
(* was told something else, which no later audit says: its alert was lost  *)
(* with a run killed after the digest had saved, or suppressed as a        *)
(* duplicate; it entered an empty baseline or, a key file, was seen first; *)
(* auth raised; it was told by a run that could not save, and is back as   *)
(* it was before; or it is a file that was missing.                        *)
TakenOver(i) == host[i] = disk.base[i] /\ (i \in excuse \/ MissingFile(i))

(* A change that stays is told in the end unless it was taken over; so a   *)
(* run that is killed or cannot save loses nothing as long as the baseline *)
(* on disk is the old one.                                                 *)
ChangeTold == \A i \in Item : News(i) ~> ~News(i) \/ TakenOver(i)
=============================================================================
