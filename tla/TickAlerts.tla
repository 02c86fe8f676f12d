----------------------------- MODULE TickAlerts ------------------------------
(***************************************************************************)
(* The alert pipeline of --tick and --check: load the state document, run  *)
(* the checks (here the two that compare the host with the document:       *)
(* checks/ports.py and checks/ssh_session.py), save in the middle when the *)
(* daily digest is due (modes/tick.py:76-84), dispatch the alerts through  *)
(* the dedup store and print those that are new (alerts.py:220-252), save. *)
(*                                                                         *)
(* Of the connections ss lists, _peer_ips takes the first address of the   *)
(* line, which is the local one: whatever the code keeps and says of a     *)
(* peer is about that address (see PeerAlerted).                           *)
(*                                                                         *)
(* One process runs at a time (the cron scheduler does not overlap runs of *)
(* one job); it may be killed between any two steps and then leaves only   *)
(* what it saved.  Loading and saving are the atomic operations of module  *)
(* StateRegister.  Time passes in slots; Day slots make 24 hours.          *)
(***************************************************************************)
EXTENDS Naturals

CONSTANTS
  Port,              \* TCP ports
  Local, Remote,     \* addresses of this host, and of its SSH peers
  Edited,            \* addresses the operator may put on the whitelist and take off
  Mode,              \* {"tick", "check"} or one of them
  Day,               \* slots in a day: the dedup window of a port, in slots
  MaxSlot,           \* bound: the last slot
  MaxSession,        \* bound: times an address appears among the sessions
  MaxFaults          \* bound: faults of all kinds

Address == Local \cup Remote

ASSUME KeyAssumption  == Port \cap Address = {} /\ Local \cap Remote = {}
ASSUME EditAssumption == Edited \subseteq Address
ASSUME ModeAssumption == Mode \subseteq {"tick", "check"}
ASSUME DayAssumption  == Day \in Nat \ {0}
ASSUME BoundAssumption ==
  MaxSlot \in Nat /\ MaxSession \in Nat /\ MaxFaults \in Nat

Key   == Port \cup Address \* the dedup keys port:<n> and ssh:<ip>
Slot  == 0..MaxSlot
Never == MaxSlot + 1       \* no entry: never dispatched, no digest yet

(* An established SSH connection, a line of ss -tnp 'dport = :22'.         *)
Connection == [local : Local, peer : Remote]

(* known_ports_output: the ports ss listed, or the empty string.           *)
Output   == [ok : BOOLEAN, ports : SUBSET Port]
NoOutput == [ok |-> FALSE, ports |-> {}]

(* The part of the state document the pipeline reads and writes: the last  *)
(* port snapshot, active_ssh_sessions, the times in dedup_store, the day   *)
(* of last_daily.                                                          *)
Document == [known : Output, active : SUBSET Address, dedup : [Key -> Slot \cup {Never}],
             lastDaily : Nat]

Alert == [key : Port, event : {"opened", "closed"}]
         \cup [key : Address, event : {"session"}]

VARIABLES
  listening, connected, trusted,  \* the host and its configuration
  now,                            \* the current slot
  session,                        \* session[q]: times q appeared among the sessions
  disk,                           \* the document in state.json
  pc, mode,                       \* where the running process is, its mode
  mem,                            \* the document it works on
  alerts,                         \* its alerts not yet dispatched
  unlogged,                       \* its new alerts that are not in the log, nor printed yet
  faults,                         \* how many faults of each kind so far
  reported,                       \* reported[k]: the last alert for k, logged or printed
  repeated,                       \* history: keys reported again too early without a fault
  accounted,                      \* history: ports in the first snapshot or reported open
  absent,                         \* history: addresses this run has seen absent
  unheard,                        \* history: those not reported since a saved run saw them absent
  lapsed                          \* history: keys taken for known in one of the two ways below

host    == <<listening, connected, trusted, now, session>>
process == <<pc, mode, mem, alerts, unlogged>>
history == <<repeated, accounted, absent, unheard, lapsed>>
vars    == <<host, disk, process, faults, reported, history>>

(* Edits of whitelist.known_ssh_ips, runs killed, calls of save_state that *)
(* return False, calls of ss that fail and checks that raise, lines that   *)
(* cannot be appended to the log file.                                     *)
Fault == {"trust", "kill", "save", "probe", "log"}

Suffer(f) ==
  /\ faults.trust + faults.kill + faults.save + faults.probe + faults.log < MaxFaults
  /\ faults' = [faults EXCEPT ![f] = @ + 1]

(* A host whose first snapshot has been taken. *)
Init ==
  /\ listening \in SUBSET Port
  /\ connected = {}
  /\ trusted = {}
  /\ now = 0
  /\ session = [q \in Address |-> 0]
  /\ disk = [known     |-> [ok |-> TRUE, ports |-> listening],
             active    |-> {},
             dedup     |-> [k \in Key |-> Never],
             lastDaily |-> Never]
  /\ pc = "idle" /\ mode = "check"
  /\ mem = disk
  /\ alerts = {} /\ unlogged = {}
  /\ faults = [f \in Fault |-> 0]
  /\ reported = [k \in Key |-> [at |-> Never, nth |-> 0]]
  /\ repeated = {}
  /\ accounted = listening
  /\ absent = {}
  /\ unheard = Address
  /\ lapsed = {}

-----------------------------------------------------------------------------
(* The host *)

OpenPort(x) ==
  /\ x \notin listening
  /\ listening' = listening \cup {x}
  /\ UNCHANGED <<connected, trusted, now, session, disk, process, faults, reported, history>>

ClosePort(x) ==
  /\ x \in listening
  /\ listening' = listening \ {x}
  /\ UNCHANGED <<connected, trusted, now, session, disk, process, faults, reported, history>>

(* The addresses _peer_ips extracts are not those of the peers: re.search  *)
(* stops at the first IP:port of a line, and ss prints the local end first. *)
FirstIps(lines) == {c.local : c \in lines}

Connect(c) ==
  /\ c \notin connected
  /\ session[c.local] < MaxSession
  /\ connected' = connected \cup {c}
  /\ session' = IF c.local \in FirstIps(connected) THEN session
                ELSE [session EXCEPT ![c.local] = @ + 1]
  /\ UNCHANGED <<listening, trusted, now, disk, process, faults, reported, history>>

Disconnect(c) ==
  /\ c \in connected
  /\ connected' = connected \ {c}
  /\ UNCHANGED <<listening, trusted, now, session, disk, process, faults, reported, history>>

(* The operator edits known_ssh_ips or own_ip; a process reads its         *)
(* configuration once, at its start.                                       *)
EditWhitelist(q) ==
  /\ pc = "idle"
  /\ Suffer("trust")
  /\ trusted' = IF q \in trusted THEN trusted \ {q} ELSE trusted \cup {q}
  /\ UNCHANGED <<listening, connected, now, session, disk, process, reported, history>>

PassTime ==
  /\ now < MaxSlot
  /\ now' = now + 1
  /\ UNCHANGED <<listening, connected, trusted, session, disk, process, faults, reported, history>>

-----------------------------------------------------------------------------
(* The process *)

Goto(from, to) == pc = from /\ pc' = to

(* main loads the document.  The save that opens a tick writes it back     *)
(* with a new last_tick, which nothing here depends on.                    *)
Start ==
  /\ Goto("idle", "ports")
  /\ mode' \in Mode
  /\ mem' = disk
  /\ alerts' = {}
  /\ UNCHANGED <<host, disk, unlogged, faults, reported, history>>

(* run_cmd_safe: the output of ss, or "" when ss fails or times out. *)
Probe(seen, out) ==
  \/ out = [ok |-> TRUE, ports |-> seen] /\ UNCHANGED faults
  \/ out = [ok |-> FALSE, ports |-> {}] /\ Suffer("probe")

(* Mutants of CheckPorts: the document is saved at once, before the alerts *)
(* are reported; a first snapshot is never replaced.                       *)
CheckPortsSavesAtOnce ==
  /\ Goto("ports", "ssh")
  /\ alerts' = {[key |-> x, event |-> "opened"] :
                  x \in IF mem.known.ok THEN listening \ mem.known.ports ELSE {}}
  /\ mem' = [mem EXCEPT !.known = [ok |-> TRUE, ports |-> listening]]
  /\ disk' = mem'
  /\ UNCHANGED <<host, mode, unlogged, faults, reported, history>>

CheckPortsKeepsFirst ==
  /\ Goto("ports", "ssh")
  /\ alerts' = {[key |-> x, event |-> "opened"] : x \in listening \ mem.known.ports}
  /\ mem' = [mem EXCEPT !.known =
                IF @.ok THEN @ ELSE [ok |-> TRUE, ports |-> listening]]
  /\ UNCHANGED <<host, disk, mode, unlogged, faults, reported, history>>

(* checks/ports.py: compare with the previous output if there is one, and  *)
(* keep the new output in any case.  run_checks ignores a check that       *)
(* raises (ss prints bytes that are not text).                             *)
CheckPorts ==
  /\ Goto("ports", "ssh")
  /\ \/ \E out \in Output :
          /\ Probe(listening, out)
          /\ alerts' =
               {[key |-> x, event |-> "opened"] :
                  x \in IF mem.known.ok THEN out.ports \ mem.known.ports ELSE {}}
               \cup
               {[key |-> x, event |-> "closed"] : x \in mem.known.ports \ out.ports}
          /\ mem' = [mem EXCEPT !.known = out]
          /\ lapsed' = IF mem.known.ok THEN lapsed ELSE lapsed \cup (out.ports \ accounted)
     \/ Suffer("probe") /\ UNCHANGED <<mem, alerts, lapsed>>
  /\ UNCHANGED <<host, disk, mode, unlogged, reported, repeated, accounted, absent, unheard>>

(* Mutants of SshOutcome: an ended session keeps its dedup entry; a trusted *)
(* address loses it; an alert is marked as dispatched when it is made.      *)
SshOutcomeKeepsDedup(ips) ==
  /\ alerts' = alerts \cup
       {[key |-> q, event |-> "session"] : q \in (ips \ trusted) \ mem.active}
  /\ mem' = [mem EXCEPT !.active = ips \ trusted]

SshOutcomeForgetsTrusted(ips) ==
  /\ alerts' = alerts \cup
       {[key |-> q, event |-> "session"] : q \in (ips \ trusted) \ mem.active}
  /\ mem' = [mem EXCEPT
       !.active = ips \ trusted,
       !.dedup  = [k \in Key |-> IF k \in mem.active \ (ips \ trusted)
                                  THEN Never ELSE mem.dedup[k]]]

SshOutcomeMarksEarly(ips) ==
  /\ alerts' = alerts \cup
       {[key |-> q, event |-> "session"] : q \in (ips \ trusted) \ mem.active}
  /\ mem' = [mem EXCEPT
       !.active = ips \ trusted,
       !.dedup  = [k \in Key |-> IF k \in (ips \ trusted) \ mem.active
                                  THEN now ELSE mem.dedup[k]]]

(* checks/ssh_session.py with the addresses it extracts: a trusted one     *)
(* leaves the active sessions, an unknown one joins them with an alert, an *)
(* active one no longer seen leaves them together with its dedup entry.    *)
SshOutcome(ips) ==
  LET open  == (mem.active \ (ips \cap trusted)) \cup (ips \ trusted)
      ended == open \ ips
  IN  /\ alerts' = alerts \cup
           {[key |-> q, event |-> "session"] : q \in (ips \ trusted) \ mem.active}
      /\ mem' = [mem EXCEPT
           !.active = open \ ended,
           !.dedup  = [k \in Key |-> IF k \in ended THEN Never ELSE mem.dedup[k]]]

CheckSsh ==
  /\ Goto("ssh", IF mode = "tick" THEN "digest" ELSE "dispatch")
  /\ \/ /\ SshOutcome(FirstIps(connected))
        /\ absent' = Address \ FirstIps(connected)
        /\ UNCHANGED faults
     \/ /\ Suffer("probe")
        /\ SshOutcome({})
        /\ absent' = {}
     \/ /\ Suffer("probe")
        /\ absent' = {}
        /\ UNCHANGED <<mem, alerts>>
  /\ UNCHANGED <<host, disk, mode, unlogged, reported, repeated, accounted, unheard, lapsed>>

(* The document goes to disk as a whole, or save_state returns False,      *)
(* which no caller looks at; pending: alerts that are still to be made.    *)
SaveOrFail(doc, pending) ==
  \/ /\ disk' = doc /\ unheard' = unheard \cup absent /\ UNCHANGED faults
     /\ lapsed' = (lapsed \ absent) \cup {a.key : a \in {b \in pending : b.event # "closed"}}
  \/ Suffer("save") /\ UNCHANGED <<disk, unheard, lapsed>>

Today      == now \div Day
DigestDue  == /\ Day > 1 => now % Day # 0     \* from 08:00 on
              /\ mem.lastDaily = Never \/ mem.lastDaily < Today

(* The digest is due: run_daily notes the day, and the document is saved   *)
(* with what the checks changed in it, before any alert is dispatched.     *)
Digest ==
  /\ DigestDue
  /\ Goto("digest", "dispatch")
  /\ mem' = [mem EXCEPT !.lastDaily = Today]
  /\ SaveOrFail(mem', alerts)
  /\ UNCHANGED <<host, mode, alerts, unlogged, reported, repeated, accounted, absent>>

(* It is not due, or run_daily raises, which run_tick logs and ignores. *)
SkipDigest ==
  /\ Goto("digest", "dispatch")
  /\ UNCHANGED <<host, disk, mode, mem, alerts, unlogged, faults, reported, history>>

(* is_duplicate: an address is suppressed while its session is active, a    *)
(* port for 24 hours.                                                          *)
IsDuplicate(a) ==
  /\ mem.dedup[a.key] # Never
  /\ \/ a.key \in mem.active
     \/ a.key \in Port /\ now - mem.dedup[a.key] < Day

Suppress(a) ==
  /\ pc = "dispatch"
  /\ a \in alerts
  /\ IsDuplicate(a)
  /\ alerts' = alerts \ {a}
  /\ UNCHANGED <<host, disk, pc, mode, mem, unlogged, faults, reported, history>>

(* A run that is killed or cannot save makes a later one repeat its        *)
(* alerts; after a failing ss every session is a new one.                  *)
Excused(k) == \/ faults["kill"] > 0 \/ faults["save"] > 0
              \/ k \in Address /\ faults["probe"] > 0

TooEarly(k) ==
  /\ reported[k].at # Never /\ ~Excused(k)
  /\ \/ k \in Port /\ now - reported[k].at < Day
     \/ k \in Address /\ session[k] = reported[k].nth

(* The new alerts of a set are now in the log or printed: of each, when it *)
(* was dispatched, and of an address in which session.                     *)
Tell(new) ==
  LET keys(events) == {a.key : a \in {b \in new : b.event \in events}} IN
  /\ reported' = [k \in Key |->
       IF k \in keys({"opened", "closed", "session"})
       THEN [at |-> mem'.dedup[k], nth |-> IF k \in Address THEN session[k] ELSE 0]
       ELSE reported[k]]
  /\ accounted' = accounted \cup keys({"opened"})
  /\ unheard' = unheard \ keys({"session"})
  /\ lapsed' = lapsed \ keys({"opened", "session"})

(* mark_dispatched, then a line in the log file; an OSError of the write   *)
(* is swallowed (alerts.py:108).                                           *)
Report(a) ==
  /\ pc = "dispatch"
  /\ a \in alerts
  /\ ~IsDuplicate(a)
  /\ mem' = [mem EXCEPT !.dedup[a.key] = now]
  /\ alerts' = alerts \ {a}
  /\ repeated' = IF TooEarly(a.key) THEN repeated \cup {a.key} ELSE repeated
  /\ \/ Tell({a}) /\ UNCHANGED <<unlogged, faults>>
     \/ /\ Suffer("log")
        /\ unlogged' = unlogged \cup {a}
        /\ UNCHANGED <<reported, accounted, unheard, lapsed>>
  /\ UNCHANGED <<host, disk, pc, mode, absent>>

(* All new alerts are printed, those that are not in the log as well.      *)
Show ==
  /\ alerts = {}
  /\ Goto("dispatch", "save")
  /\ UNCHANGED <<host, disk, mode, mem, alerts, faults, repeated, absent>>
  /\ Tell(unlogged) /\ unlogged' = {}

(* The document is saved, the process exits. *)
Finish ==
  /\ Goto("save", "idle")
  /\ SaveOrFail(mem, {})
  /\ mem' = disk' /\ absent' = {}
  /\ UNCHANGED <<host, mode, alerts, unlogged, reported, repeated, accounted>>

(* The 180 s timeout of scripts/tick.py, an exception outside the checks   *)
(* (run_bpf_watch, collect_metrics), a reboot.                             *)
Kill ==
  /\ pc # "idle"
  /\ pc' = "idle"
  /\ Suffer("kill")
  /\ alerts' = {} /\ unlogged' = {}
  /\ mem' = disk /\ absent' = {}
  /\ UNCHANGED <<host, disk, mode, reported, repeated, accounted, unheard, lapsed>>

-----------------------------------------------------------------------------
Host ==
  \/ \E x \in Port : OpenPort(x) \/ ClosePort(x)
  \/ \E c \in Connection : Connect(c) \/ Disconnect(c)
  \/ \E q \in Edited : EditWhitelist(q)
  \/ PassTime

Run ==
  \/ Start \/ CheckPorts \/ CheckSsh \/ Digest \/ SkipDigest
  \/ \E a \in Alert : Suppress(a) \/ Report(a)
  \/ Show \/ Finish

Next == Host \/ Run \/ Kill

Spec == Init /\ [][Next]_vars

(* Cron starts one run after the other, and a run that is not killed takes *)
(* its next step: the process never stays as it is for ever.               *)
FairSpec == Spec /\ []<><<TRUE>>_process

-----------------------------------------------------------------------------
(* Properties *)

TypeOK ==
  /\ listening \subseteq Port /\ connected \subseteq Connection /\ trusted \subseteq Address
  /\ now \in Slot
  /\ session \in [Address -> 0..MaxSession]
  /\ disk \in Document /\ mem \in Document
  /\ pc \in {"idle", "ports", "ssh", "digest", "dispatch", "save"}
  /\ mode \in {"tick", "check"}
  /\ alerts \subseteq Alert /\ unlogged \subseteq Alert
  /\ faults \in [Fault -> Nat]
  /\ reported \in [Key -> [at : Slot \cup {Never}, nth : 0..MaxSession]]
  /\ repeated \subseteq Key
  /\ accounted \subseteq Port /\ absent \subseteq Address /\ unheard \subseteq Address
  /\ lapsed \subseteq Key

(* "Any new port -> CRITICAL alert" (SECURITY-AUDIT-SPEC.MD, 7.2.4): a     *)
(* port the saved snapshot takes for known was in the first snapshot or    *)
(* has been reported as new, also when runs are killed or saves fail, ...  *)
(* but for two ways to lose it (lapsed): the digest saved the snapshot     *)
(* before the alert was dispatched (tick.py:82), or the snapshot before    *)
(* was the empty output of a failing ss (ports.py:51).                     *)
NewPortReported == pc = "idle" => disk.known.ports \subseteq accounted \cup lapsed

(* Of the addresses the code takes for peers, which are local ones: one    *)
(* that is saved as active has been reported since it was last seen        *)
(* absent, unless the save of the digest came before its alert; this needs *)
(* a whitelist that stays as it is (ssh_session.py:33).                    *)
SessionReported ==
  pc = "idle" /\ faults["trust"] = 0 => disk.active \cap unheard \subseteq lapsed

(* "Any connection from non-whitelisted IP -> CRITICAL alert with peer     *)
(* IP.  Dedup: Per peer IP, until session ends (tracked by presence in     *)
(* subsequent checks)" (SECURITY-AUDIT-SPEC.MD:659-663): if ss answers, a  *)
(* peer that is not whitelisted and not tracked is alerted by its address. *)
(* The code does not (ssh_session.py:15): see FirstIps.                    *)
PeerAlerted ==
  [][CheckSsh /\ UNCHANGED faults =>
       \A q \in {c.peer : c \in connected} \ (trusted \cup mem.active) :
         [key |-> q, event |-> "session"] \in alerts']_vars

(* "Once alerted, never repeat within window" (skills/hermes-secmon/       *)
(* SKILL.md:135): unless a run was killed or could not save, no port is    *)
(* reported twice within 24 hours and, if ss answered as well, no SSH      *)
(* session twice, even if its address is whitelisted and taken off the     *)
(* whitelist meanwhile.                                                    *)
NoRepeat == repeated = {}

(* A dedup entry reaches the disk only for an alert that is in the log or  *)
(* was printed: no crash, and no log file that cannot be written, makes    *)
(* secmon believe it has reported what it has not.                         *)
DedupImpliesReported ==
  \A k \in Key : disk.dedup[k] # Never =>
    reported[k].at # Never /\ disk.dedup[k] <= reported[k].at

(* A port that stays open ends up in the saved snapshot. *)
PortNoticed ==
  \A x \in Port : (x \in listening) ~> (x \in disk.known.ports \/ x \notin listening)

==============================================================================
