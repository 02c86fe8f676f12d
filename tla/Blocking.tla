------------------------------- MODULE Blocking -------------------------------
(***************************************************************************)
(* The botnet blocker (botnet.py): count the failed logins of the journal  *)
(* by /24 subnet, append a DROP rule to the iptables chain BOTNET for each *)
(* subnet over the thresholds, save the rules for the next boot, report    *)
(* what was blocked.  Two runs may overlap: a tick (modes/tick.py:48-50)   *)
(* and a run of --detect-botnet, from the command line or the plugin.      *)
(*                                                                         *)
(* The chain is a sequence, as iptables lists it: a rule can be there      *)
(* twice, and unblock_subnet deletes the first line that matches.  Each    *)
(* command of iptables is a step.  run_cmd does not check the exit code:   *)
(* a refused command of run_cmd looks like success, a refused command of   *)
(* run_cmd_safe like one that printed nothing.                             *)
(***************************************************************************)
EXTENDS Naturals, FiniteSetsExt, SequencesExt

CONSTANTS
  Proc,             \* processes: the tick and other runs
  Tick,             \* the one that is a tick; the others run --detect-botnet
  Source,           \* addresses that fail to log in
  Subnet,           \* what subnet_24 makes of them: a /24, or an IPv6 address
  SubnetOf,         \* subnet_24, as a function of the address
  Subnet6,          \* the subnets that are single IPv6 addresses
  FirstListed,      \* the /24s whose address .1 is in network_prefixes
  Own,              \* the /24s of own_ip (at most one)
  Bulletproof,      \* the /24s whose .1 is in bulletproof_prefixes
  Similar,          \* Similar[s]: the subnets whose text contains that of s
  MinIps, MinHits, SoloMinHits,  \* the thresholds of the configuration
  Netfilter,        \* whether netfilter-persistent is installed (/etc/iptables exists)
  MaxHits,          \* bound: failed logins of one address in the journal
  MaxEvents         \* bound: runs by hand, failed commands, kills, reboots, unblocks

ASSUME ProcAssumption   == Tick \in Proc
ASSUME SubnetAssumption == /\ SubnetOf \in [Source -> Subnet]
                           /\ Subnet6 \subseteq Subnet
                           /\ Similar \in [Subnet -> SUBSET Subnet]
                           /\ \A s \in Subnet : s \in Similar[s]
ASSUME WhitelistAssumption == FirstListed \cup Own \cup Bulletproof \subseteq Subnet \ Subnet6
ASSUME NumberAssumption ==
  /\ MinIps \in Nat /\ MinHits \in Nat /\ SoloMinHits \in Nat \ {0}
  /\ Netfilter \in BOOLEAN
  /\ MaxHits \in Nat /\ MaxEvents \in Nat

VARIABLES
  hits,       \* the journal of the last lookback_hours: failed logins by address
  chain,      \* the rules of BOTNET in the kernel
  rules,      \* the rules in /etc/iptables/rules.v4
  due,        \* whether last_botnet_check of state.json is 6 hours old
  run,        \* run[p]: where process p is, and what it has read
  announced,  \* the alert log: subnets reported as blocked
  events,     \* how many of these so far
  orphaned,   \* history: subnets blocked by a run that died before it reported
  raced,      \* history: subnets blocked by a run that could not know they were
  unsaved     \* history: a run was kept from saving the rules it added

vars == <<hits, chain, rules, due, run, announced, events, orphaned, raced, unsaved>>

(* "dump", "write" and "persist" are the three steps of _persist_rules.    *)
Saving   == {"dump", "write", "persist"}
Busy     == {"block"} \cup Saving
PC       == {"idle", "list", "dispatch", "save"} \cup Busy

(* blocked: what get_blocked_subnets returned, and what the run added.     *)
(* unseen: history, what it cannot know of: blocked by others after that,  *)
(* or by anyone if the listing failed.                                     *)
Progress == [pc : PC, todo : SUBSET Subnet, blocked : SUBSET Subnet, unseen : SUBSET Subnet,
             dump : Seq(Subnet), alerts : SUBSET Subnet, checked : BOOLEAN]
Idle == [pc |-> "idle", todo |-> {}, blocked |-> {}, unseen |-> {}, dump |-> <<>>,
         alerts |-> {}, checked |-> FALSE]

Init ==
  /\ hits = [a \in Source |-> 0]
  /\ chain = <<>> /\ rules = <<>>
  /\ due = TRUE
  /\ run = [p \in Proc |-> Idle]
  /\ announced = {}
  /\ events = 0
  /\ orphaned = {} /\ raced = {} /\ unsaved = FALSE

Event == events < MaxEvents /\ events' = events + 1

(* A command works, or it fails, and failures are bounded.                 *)
Works == UNCHANGED events
Fails == Event

Goto(p, pc) == run' = [run EXCEPT ![p].pc = pc]

-----------------------------------------------------------------------------
(* The host *)

(* An address fails to log in once more.                                   *)
Attack(a) ==
  /\ hits[a] < MaxHits
  /\ hits' = [hits EXCEPT ![a] = @ + 1]
  /\ UNCHANGED <<chain, rules, due, run, announced, events, orphaned, raced, unsaved>>

(* Six hours pass; the journal may have left the lookback window behind.   *)
PassTime ==
  /\ ~due
  /\ due' = TRUE
  /\ hits' \in {hits, [a \in Source |-> 0]}
  /\ UNCHANGED <<chain, rules, run, announced, events, orphaned, raced, unsaved>>

(* Runs that end without a report of what they blocked.                    *)
Abandon(P) ==
  /\ run' = [p \in Proc |-> IF p \in P THEN Idle ELSE run[p]]
  /\ orphaned' = orphaned \cup UNION {run[p].alerts : p \in P}
  /\ unsaved' = (unsaved \/ \E p \in P : run[p].pc \in Saving)

(* The file is truncated when it is opened for writing.                     *)
Kill(p) ==
  /\ run[p].pc # "idle"
  /\ Event
  /\ Abandon({p})
  /\ \/ UNCHANGED rules
     \/ run[p].pc = "write" /\ rules' = <<>>
  /\ UNCHANGED <<hits, chain, due, announced, raced>>

(* A boot restores the rules of the file.                                  *)
Reboot ==
  /\ Event
  /\ Abandon(Proc)
  /\ chain' = rules
  /\ UNCHANGED <<hits, rules, due, announced, raced>>

(* unblock_subnet: the first line whose text contains the address goes.    *)
FirstLine(s) == {i \in DOMAIN chain : /\ chain[i] \in Similar[s]
                                      /\ \A j \in 1..i-1 : chain[j] \notin Similar[s]}
ChainsWithout(s) == {RemoveAt(chain, i) : i \in FirstLine(s)}

(* unblock_subnet(s) or flush_botnet_chain, which nothing in the program   *)
(* calls, and the save that follows, in one step.  iptables may refuse; of *)
(* the save, what fails leaves the old rules or a truncated file.          *)
Unblock ==
  /\ Event
  /\ chain # <<>>
  /\ chain' \in {<<>>, chain} \cup UNION {ChainsWithout(s) : s \in Subnet}
  /\ rules' \in {chain', rules, <<>>} /\ unsaved' = (rules' # chain')
  /\ UNCHANGED <<hits, due, run, announced, orphaned, raced>>

-----------------------------------------------------------------------------
(* A run *)

(* A tick asks whether the check is due; other runs are started by hand.   *)
(* ensure_botnet_chain fails when the jump is missing and iptables cannot  *)
(* be run: then nothing is done, and the time of the check is not set.     *)
Begin(p) ==
  /\ run[p].pc = "idle"
  /\ \/ p = Tick /\ due /\ Works /\ Goto(p, "list")
     \/ p = Tick /\ due /\ Fails /\ Goto(p, "dispatch")
     \/ p # Tick /\ Event /\ Goto(p, "list")
  /\ UNCHANGED <<hits, chain, rules, due, announced, orphaned, raced, unsaved>>

(* The thresholds, over the hits of all addresses of the subnet.           *)
Triggered(s) ==
  LET ips   == {a \in Source : SubnetOf[a] = s /\ hits[a] > 0}
      total == MapThenSumSet(LAMBDA a : hits[a], ips)
  IN  (Cardinality(ips) >= MinIps /\ total >= MinHits) \/ total >= SoloMinHits

(* Mutant of Blocked: no line of the listing matches.                      *)
BlockedUnparsed == {}

(* Mutant of Blocked: what was reported is taken for blocked.              *)
BlockedAsReported == announced

(* get_blocked_subnets.                                                    *)
Blocked == Range(chain)

(* The journal and the chain are read once.  A listing that fails is read  *)
(* as an empty one.                                                        *)
List(p) ==
  /\ run[p].pc = "list"
  /\ \E journal, listing \in BOOLEAN :
       /\ IF journal /\ listing THEN Works ELSE Fails
       /\ run' = [run EXCEPT ![p] =
            [@ EXCEPT !.pc = "block",
                      !.todo = IF journal THEN {s \in Subnet : Triggered(s)} ELSE {},
                      !.blocked = IF listing THEN Blocked ELSE {},
                      !.unseen = IF listing THEN {} ELSE Subnet]]
  /\ UNCHANGED <<hits, chain, rules, due, announced, orphaned, raced, unsaved>>

(* _is_whitelisted asks for the address .1 of the subnet.  The prefixes of *)
(* bulletproof hosting are in the same list.                               *)
IsWhitelisted(s) == s \in FirstListed \cup Own \cup Bulletproof

Skip(p, s) ==
  /\ run[p].pc = "block" /\ s \in run[p].todo
  /\ s \notin Subnet6
  /\ IsWhitelisted(s) \/ s \in run[p].blocked
  /\ run' = [run EXCEPT ![p].todo = @ \ {s}]
  /\ UNCHANGED <<hits, chain, rules, due, announced, events, orphaned, raced, unsaved>>

(* _is_whitelisted takes the second part of an address split at dots: an   *)
(* IPv6 address has none.  Nothing catches the IndexError.                 *)
Raise(p, s) ==
  /\ run[p].pc = "block" /\ s \in run[p].todo
  /\ s \in Subnet6
  /\ Abandon({p})
  /\ UNCHANGED <<hits, chain, rules, due, announced, events, raced>>

(* What follows a command that was run; the alert is made after the rules  *)
(* are saved, which a kill in between does not tell apart.                 *)
Added(p, s) ==
  [run[p] EXCEPT !.pc = "dump", !.todo = @ \ {s}, !.blocked = @ \cup {s},
                 !.alerts = @ \cup {s}]

(* iptables -A may work; be refused, which is taken for success; or not be *)
(* run at all, which is logged and forgotten.                              *)
Block(p, s) ==
  /\ run[p].pc = "block" /\ s \in run[p].todo
  /\ s \notin Subnet6
  /\ ~IsWhitelisted(s) /\ s \notin run[p].blocked
  /\ LET done == Added(p, s)
     IN  \/ /\ Works
            /\ chain' = Append(chain, s)
            /\ run' = [q \in Proc |->
                 IF q = p THEN done
                 ELSE IF run[q].pc \in Busy THEN [run[q] EXCEPT !.unseen = @ \cup {s}]
                 ELSE run[q]]
            /\ raced' = raced \cup (run[p].unseen \cap {s})
         \/ /\ Fails
            /\ run' = [run EXCEPT ![p] = done]
            /\ UNCHANGED <<chain, raced>>
         \/ /\ Fails
            /\ run' = [run EXCEPT ![p].todo = @ \ {s}]
            /\ UNCHANGED <<chain, raced>>
  /\ UNCHANGED <<hits, rules, due, announced, orphaned, unsaved>>

(* Mutant of Dump: a failing iptables-save raises, and the except clause   *)
(* of the loop skips the alert.                                            *)
DumpRaises(p) ==
  /\ run[p].pc = "dump"
  /\ \/ Works /\ run' = [run EXCEPT ![p].pc = "write", ![p].dump = chain] /\ UNCHANGED unsaved
     \/ Fails /\ run' = [run EXCEPT ![p].pc = "block", ![p].alerts = {}] /\ unsaved' = TRUE
  /\ UNCHANGED <<hits, chain, rules, due, announced, orphaned, raced>>

(* _persist_rules: iptables-save, ...                                      *)
Dump(p) ==
  /\ run[p].pc = "dump"
  /\ \/ Works /\ run' = [run EXCEPT ![p].pc = "write", ![p].dump = chain] /\ UNCHANGED unsaved
     \/ Fails /\ Goto(p, "persist") /\ unsaved' = TRUE
  /\ UNCHANGED <<hits, chain, rules, due, announced, orphaned, raced>>

(* ... its output to rules.v4 (an error is logged and forgotten, and may   *)
(* leave the file empty), ...                                              *)
Write(p) ==
  /\ run[p].pc = "write"
  /\ \/ Works /\ rules' = run[p].dump /\ UNCHANGED unsaved
     \/ Fails /\ rules' \in {rules, <<>>} /\ unsaved' = TRUE
  /\ run' = [run EXCEPT ![p].pc = "persist", ![p].dump = <<>>]
  /\ UNCHANGED <<hits, chain, due, announced, orphaned, raced>>

(* Mutant of Persist: netfilter-persistent is not called.                  *)
PersistFileOnly(p) ==
  /\ run[p].pc = "persist"
  /\ Goto(p, "block")
  /\ UNCHANGED <<hits, chain, rules, due, announced, events, orphaned, raced, unsaved>>

(* ... and netfilter-persistent save, which does the same in one go.       *)
Persist(p) ==
  /\ run[p].pc = "persist"
  /\ \/ Netfilter /\ Works /\ rules' = chain /\ unsaved' = FALSE
     \/ Netfilter /\ Fails /\ unsaved' = TRUE /\ UNCHANGED rules
     \/ ~Netfilter /\ UNCHANGED <<rules, unsaved, events>>
  /\ Goto(p, "block")
  /\ UNCHANGED <<hits, chain, due, announced, orphaned, raced>>

(* After the last subnet the time of the check is set.                     *)
EndBlocking(p) ==
  /\ run[p].pc = "block" /\ run[p].todo = {}
  /\ run' = [run EXCEPT ![p] = [Idle EXCEPT !.pc = "dispatch", !.alerts = run[p].alerts,
                                            !.checked = TRUE]]
  /\ UNCHANGED <<hits, chain, rules, due, announced, events, orphaned, raced, unsaved>>

(* dispatch, whose dedup is the matter of module TickAlerts: what it drops *)
(* has been announced within the window.                                   *)
Dispatch(p) ==
  /\ run[p].pc = "dispatch"
  /\ announced' = announced \cup run[p].alerts
  /\ run' = [run EXCEPT ![p].pc = "save", ![p].alerts = {}]
  /\ UNCHANGED <<hits, chain, rules, due, events, orphaned, raced, unsaved>>

(* save_state, which may fail.                                             *)
Save(p) ==
  /\ run[p].pc = "save"
  /\ \/ Works /\ due' = (due /\ ~run[p].checked)
     \/ Fails /\ UNCHANGED due
  /\ run' = [run EXCEPT ![p] = Idle]
  /\ UNCHANGED <<hits, chain, rules, announced, orphaned, raced, unsaved>>

Step(p) ==
  \/ Begin(p) \/ List(p) \/ EndBlocking(p)
  \/ \E s \in Subnet : Skip(p, s) \/ Raise(p, s) \/ Block(p, s)
  \/ Dump(p) \/ Write(p) \/ Persist(p) \/ Dispatch(p) \/ Save(p)

Host ==
  \/ \E a \in Source : Attack(a)
  \/ PassTime \/ Reboot \/ Unblock
  \/ \E p \in Proc : Kill(p)

Next == Host \/ \E p \in Proc : Step(p)

Spec == Init /\ [][Next]_vars

(* Time passes, cron starts a tick when one is due, and a run that was     *)
(* started goes on.                                                        *)
FairSpec ==
  /\ Spec
  /\ WF_vars(PassTime) /\ WF_vars(run[Tick].pc = "idle" /\ Step(Tick))
  /\ \A p \in Proc : WF_vars(run[p].pc # "idle" /\ Step(p))

-----------------------------------------------------------------------------
(* Properties *)

TypeOK ==
  /\ hits \in [Source -> 0..MaxHits]
  /\ chain \in Seq(Subnet) /\ rules \in Seq(Subnet)
  /\ due \in BOOLEAN /\ unsaved \in BOOLEAN
  /\ announced \cup raced \cup orphaned \subseteq Subnet
  /\ events \in 0..MaxEvents
  /\ run \in [Proc -> Progress]

(* Every subnet that is dropped, now or after the next boot, is reported   *)
(* or going to be by a run in progress, unless the run that blocked it was *)
(* killed or ended by the IndexError of an IPv6 address: later runs find   *)
(* it blocked and say nothing (botnet.py:54, 112-128, modes/tick.py:86).   *)
SilentOnlyByDeath ==
  Range(chain) \cup Range(rules)
    \subseteq announced \cup orphaned \cup UNION {run[p].alerts : p \in Proc}

(* A rule is in the chain twice only because another run blocked the       *)
(* subnet after this one had listed the chain, or because a listing failed *)
(* (botnet.py:100, 112): get_blocked_subnets is asked once per run.        *)
TwiceOnlyByRace ==
  \A i, j \in DOMAIN chain : i # j /\ chain[i] = chain[j] => chain[i] \in raced

(* Where netfilter-persistent is installed the next boot restores the very *)
(* rules of the chain, whatever runs overlap, unless a run was killed or a *)
(* command failed on the way (botnet.py:71-81): iptables-save and its file *)
(* are written in two steps, and a late run may write an old dump.         *)
BootRestoresChain ==
  Netfilter /\ ~unsaved /\ (\A p \in Proc : run[p].pc \notin Saving)
    => rules = chain

(* An attack that goes on is blocked in the end, whatever commands failed, *)
(* and also when the subnet was unblocked, provided no IPv6 address is     *)
(* over the thresholds: a check is due again after six hours and asks the  *)
(* chain, not a memory of its own (botnet.py:100).                         *)
AttackBlocked ==
  \A s \in Subnet \ Subnet6 : ~IsWhitelisted(s) =>
     (Triggered(s) ~> \/ s \in Range(chain)
                      \/ ~Triggered(s)
                      \/ \E v \in Subnet6 : Triggered(v))
=============================================================================
