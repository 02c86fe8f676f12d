------------------------------ MODULE Remediate ------------------------------
(***************************************************************************)
(* Auto-remediation of audit findings (remediate.py) in an --audit run     *)
(* (modes/audit_mode.py): the audit looks at the host, then one handler    *)
(* after the other acts on what was found while the host goes on changing, *)
(* and what was resolved is no longer an alert.                            *)
(*                                                                         *)
(* A thing is what a path, a package or a unit names, whatever is there at *)
(* the moment; paths name files and directories, not links.  Files of      *)
(* sudoers.d are UTF-8, and others replace them as visudo does, by another *)
(* file.  Of the handlers only the one that rewrites such a file takes     *)
(* several steps; a check finds a thing once in an audit.  Dedup is left   *)
(* to AuditBaselines: an alert here is one handed to dispatch.             *)
(***************************************************************************)
EXTENDS Naturals, FiniteSets

(* The checks that have a handler.                                         *)
Check == {"world_writable", "hidden_tmp", "nopasswd", "systemd_failed", "tmp_executable",
          "secret_world_readable", "secret_key_tmp", "secret_pattern",
          "secret_authkeys_perm", "unattended"}

(* Where a thing is, and the checks that can find it there: a file in /tmp *)
(* that has the name of a private key, or not, a directory there; the same *)
(* in /var/tmp or /dev/shm; a file of /root, of a web root, of /etc (of    *)
(* root, or not), of sudoers.d, the main sudoers file; the authorized_keys *)
(* of a user whose home is /home/<name>, or elsewhere, where another file  *)
(* may go by /home/<name>/.ssh/authorized_keys (shadowed) or none; a       *)
(* package; a unit.                                                        *)
Finds ==
  [tmp       |-> {"hidden_tmp", "tmp_executable", "secret_world_readable", "secret_pattern"},
   tmpkey    |-> {"tmp_executable", "secret_world_readable", "secret_key_tmp",
                  "secret_pattern"},
   tmpdir    |-> {"hidden_tmp"},
   othertmp  |-> {"hidden_tmp", "tmp_executable", "secret_world_readable", "secret_pattern"},
   otherkey  |-> {"tmp_executable", "secret_world_readable", "secret_key_tmp",
                  "secret_pattern"},
   rootdir   |-> {"secret_world_readable", "secret_pattern"},
   web       |-> {"world_writable", "secret_world_readable", "secret_pattern"},
   etc       |-> {"world_writable"},
   foreign   |-> {"world_writable"},
   sudoersd  |-> {"nopasswd", "world_writable"},
   sudoers   |-> {"nopasswd", "world_writable"},
   home      |-> {"secret_authkeys_perm"},
   elsewhere |-> {"secret_authkeys_perm", "secret_pattern"},
   shadowed  |-> {"secret_authkeys_perm", "secret_pattern"},
   package   |-> {"unattended"},
   unit      |-> {"systemd_failed"}]
Place == DOMAIN Finds

CONSTANTS
  Thing,        \* paths, packages and units that findings are about
  Where,        \* where they may be: functions from Thing to Place
  Whitelists,   \* values of auto_remediate.whitelist to look at; {}: disabled
  MaxChanges,   \* bound: things that change by themselves
  MaxFaults     \* bound: system calls and commands that fail, runs killed

ASSUME WhereAssumption == Where \subseteq [Thing -> Place]
ASSUME WhitelistAssumption == Whitelists \subseteq SUBSET Check
ASSUME BoundAssumption == MaxChanges \in Nat /\ MaxFaults \in Nat

(* The order in which the layers find them.                                *)
Layer(c) ==
  CASE c \in {"world_writable", "hidden_tmp"} -> 1
    [] c = "nopasswd"                         -> 4
    [] c = "systemd_failed"                   -> 5
    [] c \in {"tmp_executable"}               -> 6
    [] c = "unattended"                       -> 8
    [] OTHER                                  -> 7     \* _scan_secrets

Alarming == {"world_writable", "tmp_executable", "secret_world_readable",
             "secret_key_tmp", "secret_pattern", "secret_authkeys_perm"}
Removing == {"secret_pattern", "secret_key_tmp", "hidden_tmp"}

VARIABLES
  place,      \* place[t]: where t is
  whitelist,  \* auto_remediate.whitelist, {} when not enabled
  there,      \* things that exist
  bad,        \* bad[t]: the checks that would find t now
  rules,      \* rules[t]: what a file of sudoers.d holds, but for NOPASSWD: the rules
              \* its owner last gave it ("own"), earlier ones ("old"), or "none"
  excused,    \* history: files whose rewrite was killed or failed once it was opened,
              \* or was of rules read before another change
  run,        \* the run: pc, findings still to handle, what came of the others; changed:
              \* things that changed since its audit; of a rewrite, the rules read, and
              \* whether the name still means the file that was opened (held)
  alerted,    \* the alerts of the last run that finished
  changes, faults

host == <<there, bad, rules>>
vars == <<place, whitelist, host, excused, run, alerted, changes, faults>>

Finding == Check \X Thing
Idle == [pc |-> "idle", at |-> {}, todo |-> {}, open |-> {}, resolved |-> {}, failed |-> {},
         changed |-> {}, read |-> "own", held |-> TRUE]

(* What the checks find of a file with flaws cs.  A private key in a       *)
(* temporary directory is found as that unless it is found world-readable. *)
Seen(p, cs) ==
  IF p \in {"tmpkey", "otherkey"} /\ "secret_world_readable" \notin cs
  THEN cs \cup {"secret_key_tmp"} ELSE cs \ {"secret_key_tmp"}

Init ==
  /\ place \in Where
  /\ whitelist \in Whitelists
  /\ there = Thing
  /\ bad = [t \in Thing |-> Seen(place[t], {})]
  /\ rules = [t \in Thing |-> "own"]
  /\ excused = {} /\ run = Idle /\ alerted = {} /\ changes = 0 /\ faults = 0

Fault == faults < MaxFaults /\ faults' = faults + 1

-----------------------------------------------------------------------------
(* The host *)

Happens ==
  /\ changes < MaxChanges /\ changes' = changes + 1
  /\ UNCHANGED <<place, whitelist, alerted, faults>>

Rewritten(t) == \E f \in run.at : f[2] = t

(* A thing gets a flaw.                                                    *)
Spoil(t, c) ==
  /\ Happens
  /\ t \in there /\ c \in Finds[place[t]] \ (bad[t] \cup {"nopasswd", "secret_key_tmp"})
  /\ bad' = [bad EXCEPT ![t] = Seen(place[t], @ \cup {c})]
  /\ run' = IF run.pc = "idle" THEN run ELSE [run EXCEPT !.changed = @ \cup {t}]
  /\ UNCHANGED <<there, rules, excused>>

(* Another thing goes by the name, or none: what was read of a file that   *)
(* is rewritten is old then, and what was opened is not that file.         *)
Other(t) ==
  /\ Happens
  /\ rules' = [rules EXCEPT ![t] = "own"]
  /\ excused' = excused \ {t}
  /\ run' = IF run.pc = "idle" THEN run
            ELSE [run EXCEPT !.changed = @ \cup {t},
                             !.read = IF Rewritten(t) THEN "old" ELSE @,
                             !.held = @ /\ ~Rewritten(t)]

(* It comes, is replaced, or is put right; with a flaw or without.         *)
Appear(t, cs) ==
  /\ Other(t)
  /\ cs \subseteq Finds[place[t]]
  /\ there' = there \cup {t}
  /\ bad' = [bad EXCEPT ![t] = Seen(place[t], cs)]

Vanish(t) ==
  /\ Other(t)
  /\ t \in there /\ place[t] \notin {"package", "unit"}
  /\ there' = there \ {t}
  /\ bad' = [bad EXCEPT ![t] = {}]

-----------------------------------------------------------------------------
(* The run *)

Audit ==
  /\ run.pc = "idle"
  /\ run' = [Idle EXCEPT !.pc = "handle",
                         !.todo = {f \in Finding : f[1] \in bad[f[2]]}]
  /\ UNCHANGED <<place, whitelist, host, excused, alerted, changes, faults>>

Now(f) == f \in run.todo /\ \A g \in run.todo : Layer(f[1]) <= Layer(g[1])

(* What the handler returned: None or an exception, success, or failure.   *)
Return(f, as) ==
  run' = [run EXCEPT !.pc = "handle", !.at = {}, !.todo = @ \ {f},
                     !.read = "own", !.held = TRUE,
                     !.open     = IF as = "open" THEN @ \cup {f} ELSE @,
                     !.resolved = IF as = "resolved" THEN @ \cup {f} ELSE @,
                     !.failed   = IF as = "failed" THEN @ \cup {f} ELSE @]

(* Mutant of Skips: any path will do.                                      *)
SkipsNoPath(c, t) == c \notin whitelist \/ c = "systemd_failed"

(* A finding that a handler leaves alone, and why.                         *)
Skips(c, t) ==
  \/ c \notin whitelist
  \/ c \in Removing /\ place[t] \notin {"tmp", "tmpkey", "tmpdir"}
  \/ c = "world_writable" /\ t \in there /\ place[t] = "foreign"
  \/ c = "tmp_executable" /\ t \in there /\ c \notin bad[t]
  \/ c = "nopasswd" /\ place[t] # "sudoersd"
  \/ c = "systemd_failed"           \* the finding names no unit

(* Without a rule of this kind the text may still be in a comment.         *)
Skip(f) ==
  /\ Skips(f[1], f[2]) \/ (f[1] = "nopasswd" /\ f[2] \in there /\ f[1] \notin bad[f[2]])
  /\ Return(f, "open") /\ UNCHANGED <<host, excused, faults>>

(* The path does not exist, or os.remove is asked to remove a directory.   *)
Impossible(c, t) ==
  \/ t \notin there /\ place[t] # "shadowed"
  \/ c = "hidden_tmp" /\ place[t] = "tmpdir"
  \/ c = "secret_authkeys_perm" /\ place[t] = "elsewhere"

(* The finding names another file, or none.                                *)
Misnamed(f) == f[1] = "secret_authkeys_perm" /\ place[f[2]] = "shadowed"

(* Mutant of Cannot: an error counts as success.                           *)
CannotButResolved(f) ==
  /\ ~Skips(f[1], f[2]) /\ f[1] # "unattended"
  /\ IF Impossible(f[1], f[2]) \/ Misnamed(f) THEN UNCHANGED faults ELSE Fault
  /\ Return(f, "resolved") /\ UNCHANGED <<host, excused>>

Cannot(f) ==
  /\ ~Skips(f[1], f[2]) /\ f[1] # "unattended"
  /\ IF Impossible(f[1], f[2]) \/ Misnamed(f) THEN UNCHANGED faults ELSE Fault
  /\ Return(f, "failed") /\ UNCHANGED <<host, excused>>

Remove(f) ==
  /\ f[1] \in Removing
  /\ ~Skips(f[1], f[2]) /\ ~Impossible(f[1], f[2])
  /\ there' = there \ {f[2]}
  /\ bad' = [bad EXCEPT ![f[2]] = {}]
  /\ Return(f, "resolved") /\ UNCHANGED <<rules, excused, faults>>

(* Mutant of Ends: the wrong bit is taken away.                            *)
EndsElse(c) == IF c = "world_writable" THEN {"tmp_executable"} ELSE {c}

(* What a new mode ends: chmod 600, or one bit taken away.                 *)
Ends(c) ==
  IF c \in {"secret_world_readable", "secret_authkeys_perm"}
  THEN {"secret_world_readable", "secret_authkeys_perm", "tmp_executable", "world_writable"}
  ELSE {c}

(* The mode of what the path names, which is not always the thing.         *)
Chmod(f) ==
  /\ f[1] \in {"world_writable", "secret_world_readable", "secret_authkeys_perm", "tmp_executable"}
  /\ ~Skips(f[1], f[2]) /\ ~Impossible(f[1], f[2])
  /\ bad' = IF Misnamed(f) THEN bad
            ELSE [bad EXCEPT ![f[2]] = Seen(place[f[2]], @ \ Ends(f[1]))]
  /\ Return(f, "resolved") /\ UNCHANGED <<there, rules, excused, faults>>

ReadRules(f) ==
  /\ f[1] = "nopasswd"
  /\ ~Skips(f[1], f[2]) /\ ~Impossible(f[1], f[2])
  /\ run' = [run EXCEPT !.pc = "truncate", !.at = {f}, !.read = rules[f[2]]]
  /\ UNCHANGED <<host, excused, faults>>

(* open(path, "w") empties the file that has the name now, or creates one. *)
TruncateRules(f) ==
  \/ /\ there' = there \cup {f[2]}
     /\ rules' = [rules EXCEPT ![f[2]] = "none"]
     /\ bad' = [bad EXCEPT ![f[2]] = @ \ {"nopasswd"}]
     /\ excused' = IF run.held THEN excused ELSE excused \cup {f[2]}
     /\ run' = [run EXCEPT !.pc = "write", !.held = TRUE]
     /\ UNCHANGED faults
  \/ Fault /\ Return(f, "failed") /\ UNCHANGED <<host, excused>>

Cut == IF run.pc = "write" /\ run.held THEN excused \cup {f[2] : f \in run.at} ELSE excused

(* Mutant of WriteRules: the rules are read after the file was opened.     *)
WriteRulesReadLate(f) ==
  \/ Return(f, "resolved") /\ UNCHANGED <<host, excused, faults>>
  \/ Fault /\ Return(f, "failed") /\ excused' = Cut /\ UNCHANGED host

WriteRules(f) ==
  \/ /\ rules' = IF run.held THEN [rules EXCEPT ![f[2]] = run.read] ELSE rules
     /\ Return(f, "resolved") /\ UNCHANGED <<there, bad, excused, faults>>
  \/ Fault /\ Return(f, "failed") /\ excused' = Cut /\ UNCHANGED host

(* Installed and configured; or apt-get or dpkg-reconfigure fails, or is   *)
(* stopped after its timeout, which the handler does not catch.            *)
Install(f) ==
  /\ f[1] = "unattended" /\ ~Skips(f[1], f[2])
  /\ \/ /\ bad' = [bad EXCEPT ![f[2]] = {}]
        /\ Return(f, "resolved") /\ UNCHANGED faults
     \/ /\ Fault
        /\ bad' \in {bad, [bad EXCEPT ![f[2]] = {}]}
        /\ \E as \in {"failed", "open"} : Return(f, as)
  /\ UNCHANGED <<there, rules, excused>>

Handle ==
  /\ \E f \in run.todo :
       /\ Now(f)
       /\ \/ run.pc = "handle" /\ (\/ Skip(f) \/ Cannot(f) \/ Remove(f) \/ Chmod(f)
                                   \/ ReadRules(f) \/ Install(f))
          \/ run.pc = "truncate" /\ f \in run.at /\ TruncateRules(f)
          \/ run.pc = "write" /\ f \in run.at /\ WriteRules(f)
  /\ UNCHANGED <<place, whitelist, alerted, changes>>

(* Mutant of Alerts: a failed fix is left out like a successful one.       *)
AlertsUntouched == {f \in run.open : f[1] \in Alarming}

(* What goes to dispatch: findings of HIGH and above that are not INFO now.*)
Alerts == {f \in run.open \cup run.failed : f[1] \in Alarming}

Finish ==
  /\ run.pc = "handle" /\ run.todo = {}
  /\ alerted' = Alerts
  /\ run' = Idle
  /\ UNCHANGED <<place, whitelist, host, excused, changes, faults>>

Kill ==
  /\ run.pc # "idle" /\ Fault
  /\ run' = Idle /\ excused' = Cut
  /\ UNCHANGED <<place, whitelist, host, alerted, changes>>

Next ==
  \/ \E t \in Thing, c \in Check : Spoil(t, c)
  \/ \E t \in Thing : Vanish(t) \/ \E cs \in {{}} \cup {{c} : c \in Check} : Appear(t, cs)
  \/ Audit \/ Handle \/ Finish \/ Kill

Spec == Init /\ [][Next]_vars

(* Audits are run again and again, and a run goes on.                      *)
FairSpec == Spec /\ WF_vars(Audit) /\ WF_vars(Handle) /\ WF_vars(Finish)

-----------------------------------------------------------------------------
(* Properties *)

(* Every variable has its type; what is not there has nothing wrong, and   *)
(* nothing but files of sudoers.d is ever rewritten.                       *)
TypeOK ==
  /\ place \in Where /\ whitelist \in Whitelists
  /\ there \subseteq Thing
  /\ \A t \in Thing : bad[t] \subseteq Finds[place[t]] /\ (bad[t] # {} => t \in there)
  /\ rules \in [Thing -> {"own", "old", "none"}]
  /\ \A t \in Thing : rules[t] # "own" => t \in there /\ place[t] = "sudoersd"
  /\ excused \subseteq Thing
  /\ run.pc \in {"idle", "handle", "truncate", "write"}
  /\ run.todo \cup run.open \cup run.resolved \cup run.failed \cup alerted \subseteq Finding
  /\ changes \in 0..MaxChanges /\ faults \in 0..MaxFaults

(* Whatever the host does meanwhile, a file of sudoers.d holds the rules   *)
(* its owner last gave it (but for NOPASSWD) unless it is being written    *)
(* at the moment, or its last rewrite was killed or failed after the file  *)
(* was opened, or overwrote a change made since the file was read.         *)
RulesKept ==
  \A t \in Thing : rules[t] # "own" =>
    t \in excused \/ (run.pc = "write" /\ run.held /\ Rewritten(t))

(* A handler changes nothing but what its finding names.  It removes only  *)
(* from /tmp, and something that is still what was found there unless it   *)
(* was changed or replaced since the audit (os.remove does not look).  It  *)
(* takes away no flaw but what a new mode ends; a file of sudoers.d that   *)
(* is rewritten loses only NOPASSWD, and if it was removed meanwhile it is *)
(* there again.  (The file that a finding on another home names is none of *)
(* these things; its mode is set.)                                         *)
HostProtected ==
  [][Handle => \A t \in Thing :
       \/ bad'[t] = bad[t] /\ (t \in there' <=> t \in there)
       \/ \E f \in run.todo :
            /\ f[2] = t /\ f[1] \in whitelist
            /\ \/ /\ t \notin there' /\ place[t] \in {"tmp", "tmpkey"}
                  /\ f[1] \in bad[t] \/ t \in run.changed
               \/ t \in there' /\ t \in there /\ bad[t] \ bad'[t] \subseteq Ends(f[1])
               \/ t \in there' /\ f[1] = "nopasswd" /\ t \in run.changed]_vars

(* A finding that no alert is made of was below HIGH, or what it was about *)
(* had gone when its handler returned; but for an authorized_keys of a     *)
(* home elsewhere, instead of which another file was changed, and a file   *)
(* of sudoers.d that was replaced while it was written.                    *)
SilencedIsFixed ==
  [][Handle => \A f \in run'.resolved \ run.resolved :
       \/ f[1] \notin bad'[f[2]]
       \/ Misnamed(f)
       \/ f[1] = "nopasswd" /\ ~run.held]_vars

Fixable(c, t) ==
  /\ c \in whitelist \ {"systemd_failed"}
  /\ place[t] \notin {"tmpdir", "foreign", "elsewhere", "shadowed"}
  /\ c \in Removing => place[t] \in {"tmp", "tmpkey"}
  /\ c = "nopasswd" => place[t] = "sudoersd"

(* Once the host leaves off changing, what a handler can fix gets fixed,   *)
(* whatever failed before, and stays so.                                   *)
FixedInTheEnd ==
  <>[](\A t \in Thing : \A c \in bad[t] : ~Fixable(c, t))

(* Once the host leaves off changing, what is HIGH or above is fixed or is *)
(* in the alerts of every run, whatever the handlers make of it, unless    *)
(* the finding names another file.                                         *)
FixedOrTold ==
  <>[](\A t \in Thing : \A c \in bad[t] \cap Alarming :
         <<c, t>> \in alerted \/ Misnamed(<<c, t>>))
=============================================================================
