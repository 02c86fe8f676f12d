----------------------------- MODULE ProcessScan -----------------------------
(***************************************************************************)
(* The process layer of the deep audit (audit/process.py): one list of     *)
(* /proc, one ps, and then loop after loop over that list, each reading    *)
(* the files of one process after the other, while processes are started,  *)
(* execute other programs, and exit.                                       *)
(*                                                                         *)
(* A process identifier is not used again within one audit.  The lists of  *)
(* exclusions in config.yaml are empty.                                    *)
(***************************************************************************)
EXTENDS Integers, FiniteSets, FiniteSetsExt

CONSTANTS
  Pid,         \* process identifiers other than that of init
  Kind,        \* what processes are, of AllKinds
  MaxNamed,    \* how many hidden processes the finding names (10)
  MaxMaps,     \* of how many processes the memory maps are read (300)
  MaxChanges   \* bound: changes of the process table

(* Nothing of interest; with secmon in its command line and its comm; with *)
(* an anonymous executable mapping; a web server; a shell; an interpreter  *)
(* with code in its command line; not root's, or root's, with its          *)
(* executable in /tmp; not shown by ps.  All but "tmp" are root's.         *)
AllKinds ==
  {"plain", "secmon", "anon", "web", "shell", "inject", "tmp", "roottmp", "hidden"}
init == 1

ASSUME PidAssumption  == Pid \subseteq Nat \ {0, init} /\ IsFiniteSet(Pid)
ASSUME KindAssumption == Kind \subseteq AllKinds /\ {"plain", "secmon"} \subseteq Kind
ASSUME BoundAssumption == MaxNamed \in Nat \ {0} /\ MaxMaps \in Nat /\ MaxChanges \in Nat

VARIABLES
  alive, parent, kind,   \* the process table
  self,      \* the process of the audit
  pc, todo,  \* the loop, and the processes it has still to look at
  walk,      \* where _parent_chain is
  listed,    \* proc_pids
  shown,     \* ps_pids, and whether ps worked
  cluster,   \* secmon_cluster
  info,      \* proc_info
  found,     \* findings
  changes,
  family,    \* history: the ancestor below init a process came from
  was,       \* history: <<reading, kind>> if since the listing a process could be
             \* read as reading and was, then or later, of that kind
  steady,    \* history: processes that have not changed since the listing
  named      \* history: families with a secmon process since the listing

table   == <<alive, parent, kind, family, self>>
results == <<listed, shown, cluster, info, found>>
history == <<was, steady, named>>
vars    == <<table, pc, todo, walk, results, changes, history>>

(* The parents of each are below init without a cycle.                     *)
Forest(f) ==
  \E rank \in [Pid -> 1..Cardinality(Pid)] : \A p \in Pid : f[p] # init => rank[f[p]] < rank[p]

(* What the audit reads of a process in the loop over the table.           *)
Reading == [parent : Pid \cup {init}, kind : Kind]
Read(p) == [parent |-> parent[p], kind |-> kind[p]]

Named == {family[p] : p \in {q \in alive : kind[q] = "secmon"}}

Init ==
  /\ self \in Pid /\ alive \in SUBSET Pid /\ self \in alive
  /\ kind \in {k \in [Pid -> Kind] : k[self] = "secmon" /\ \A p \in Pid \ alive : k[p] = "plain"}
  /\ parent \in {f \in [Pid -> Pid \cup {init}] :
                   /\ Forest(f)
                   /\ \A p \in Pid : f[p] \in alive \cup {init} /\ (p \notin alive => f[p] = init)}
  /\ family \in {g \in [Pid -> Pid] :
                   \A p \in Pid : g[p] = IF parent[p] = init THEN p ELSE g[parent[p]]}
  /\ pc = "list" /\ todo = {} /\ walk = init
  /\ listed = {} /\ shown = [ok |-> TRUE, pids |-> {}] /\ cluster = {}
  /\ info = [p \in {} |-> <<>>] /\ found = {} /\ changes = 0
  /\ was = [p \in Pid |-> {<<Read(p), kind[p]>>}] /\ steady = alive /\ named = Named

-----------------------------------------------------------------------------
(* The process table changes while the audit looks at it. *)

MayChange == changes < MaxChanges /\ pc \notin {"list", "done"}

Changed(ps) ==
  /\ changes' = changes + 1
  /\ steady' = steady \ ps
  /\ was' = [p \in Pid |-> was[p] \cup
               ({x[1] : x \in was[p]} \cup {[parent |-> parent'[p], kind |-> kind'[p]]})
                 \X {kind'[p]}]
  /\ named' = named \cup {family'[p] : p \in {q \in alive' : kind'[q] = "secmon"}}
  /\ UNCHANGED <<self, pc, todo, walk, results>>

(* A new process, whose identifier the listing does not have.              *)
Fork(p, q) ==
  /\ MayChange
  /\ p \in Pid \ (alive \cup listed) /\ q \in alive
  /\ alive' = alive \cup {p}
  /\ parent' = [parent EXCEPT ![p] = q]
  /\ family' = [family EXCEPT ![p] = family[q]]
  /\ kind' = [kind EXCEPT ![p] = kind[q]]
  /\ Changed({})

Exec(p, k) ==
  /\ MayChange
  /\ p \in alive \ {self} /\ k # kind[p]
  /\ kind' = [kind EXCEPT ![p] = k]
  /\ UNCHANGED <<alive, parent, family>> /\ Changed({p})

(* The children of a process that exits become children of init.           *)
Leave(p) ==
  /\ MayChange
  /\ p \in alive \ {self}
  /\ alive' = alive \ {p}
  /\ parent' = [q \in Pid |-> IF parent[q] = p THEN init ELSE parent[q]]
  /\ UNCHANGED <<kind, family>>
  /\ Changed({p} \cup {q \in Pid : parent[q] = p})

-----------------------------------------------------------------------------
(* The audit *)

Quiet == UNCHANGED <<table, changes, history>>

List ==
  /\ pc = "list" /\ pc' = "ps"
  /\ listed' = alive
  /\ UNCHANGED <<todo, walk, shown, cluster, info, found>> /\ Quiet

Ps ==
  /\ pc = "ps" /\ pc' = "compare"
  /\ shown' \in {[ok |-> TRUE, pids |-> {p \in alive : kind[p] # "hidden"}],
                 [ok |-> FALSE, pids |-> {}]}
  /\ UNCHANGED <<todo, walk, listed, cluster, info, found>> /\ Quiet

(* Mutant of Hidden: /proc is listed after ps.                             *)
HiddenNow == alive \ shown.pids
Hidden    == listed \ shown.pids

(* The one finding about them names the first.                             *)
FirstHidden == {p \in Hidden : Cardinality({q \in Hidden : q < p}) < MaxNamed}

Compare ==
  /\ pc = "compare" /\ pc' = "names" /\ todo' = listed
  /\ found' = found \cup {<<"hidden", p>> : p \in FirstHidden}
  /\ UNCHANGED <<walk, listed, shown, cluster, info>> /\ Quiet

(* The order in which Python enumerates the set is the same in each loop.  *)
Look(loop, p) == pc = loop /\ walk = init /\ todo # {} /\ p = Min(todo) /\ todo' = todo \ {p}

Names ==
  /\ \E p \in todo :
       /\ Look("names", p)
       /\ cluster' = IF p \in alive /\ kind[p] = "secmon" THEN cluster \cup {p} ELSE cluster
  /\ UNCHANGED <<pc, walk, listed, shown, info, found>> /\ Quiet

(* Mutant of Chained: init belongs to the chain.                           *)
ChainedToInit(p) == {p}  \cup IF p \in alive /\ parent[p] = init THEN {init} ELSE {}
Chained(p)       == {p}

(* _parent_chain, one process per step.                                    *)
Climb ==
  /\ pc = "up"
  /\ \/ walk = init /\ (\E p \in todo : Look("up", p) /\ walk' = p) /\ UNCHANGED cluster
     \/ /\ walk # init
        /\ cluster' = cluster \cup Chained(walk)
        /\ walk' = IF walk \in alive THEN parent[walk] ELSE init
        /\ UNCHANGED todo
  /\ UNCHANGED <<pc, listed, shown, info, found>> /\ Quiet

Descend ==
  /\ \E p \in todo :
       /\ Look("down", p)
       /\ cluster' = IF p \in alive /\ parent[p] \in cluster THEN cluster \cup {p} ELSE cluster
  /\ UNCHANGED <<pc, walk, listed, shown, info, found>> /\ Quiet

(* Mutant of Passed: the cluster does not count.                           *)
PassedByName(p) == kind[p] = "secmon"

(* In the cluster, or of the name of secmon.                               *)
Passed(p) == p \in cluster \/ kind[p] = "secmon"

Maps ==
  /\ \E p \in todo :
       /\ Look("maps", p)
       /\ found' = IF ~Passed(p) /\ p \in alive /\ kind[p] = "anon"
                   THEN found \cup {<<"hollow", p>>} ELSE found
  /\ UNCHANGED <<pc, walk, listed, shown, cluster, info>> /\ Quiet

Stat ==
  /\ \E p \in todo :
       /\ Look("stat", p)
       /\ info' = [q \in DOMAIN info \cup (alive \cap {p}) |->
                     IF q = p THEN Read(p) ELSE info[q]]
  /\ UNCHANGED <<pc, walk, listed, shown, cluster, found>> /\ Quiet

(* Shells whose parent, if it was read as well, was a web server, ...      *)
Spawned == {p \in DOMAIN info : /\ info[p].kind = "shell" /\ info[p].parent \in DOMAIN info
                                /\ info[info[p].parent].kind = "web"}

(* ... and interpreters with any parent that was read; init always is.     *)
Injected == {p \in DOMAIN info : /\ info[p].kind = "inject"
                                 /\ info[p].parent \in DOMAIN info \cup {init}}

Judge ==
  /\ pc = "judge" /\ pc' = "status" /\ todo' = DOMAIN info
  /\ found' = found \cup {<<"spawned", p, info[p].parent>> : p \in Spawned}
                   \cup {<<"inject", p>> : p \in Injected}
  /\ UNCHANGED <<walk, listed, shown, cluster, info>> /\ Quiet

(* The user is read now, the executable was read before.                   *)
Status ==
  /\ \E p \in todo :
       /\ Look("status", p)
       /\ found' = IF /\ p \in alive /\ kind[p] # "tmp"
                      /\ info[p].kind \in {"tmp", "roottmp"}
                   THEN found \cup {<<"roottmp", p>>} ELSE found
  /\ UNCHANGED <<pc, walk, listed, shown, cluster, info>> /\ Quiet

FirstListed == {p \in listed : Cardinality({q \in listed : q < p}) < MaxMaps}

After == [names |-> "up", up |-> "down", down |-> "maps", maps |-> "stat",
          stat |-> "judge", status |-> "done"]

NextLoop ==
  /\ pc \in DOMAIN After /\ todo = {} /\ walk = init
  /\ pc' = After[pc]
  /\ todo' = CASE pc' = "up"   -> cluster
               [] pc' = "maps" -> FirstListed
               [] pc' \in {"down", "stat"} -> listed
               [] OTHER -> {}
  /\ UNCHANGED <<walk, results>> /\ Quiet

Scan ==
  \/ List \/ Ps \/ Compare \/ Names \/ Climb \/ Descend \/ Maps \/ Stat
  \/ Judge \/ Status \/ NextLoop

Next ==
  \/ Scan
  \/ \E p, q \in Pid : Fork(p, q)
  \/ \E p \in Pid, k \in Kind : Exec(p, k)
  \/ \E p \in Pid : Leave(p)

Spec == Init /\ [][Next]_vars

-----------------------------------------------------------------------------
(* Properties *)

TypeOK ==
  /\ self \in alive /\ alive \subseteq Pid /\ kind \in [Pid -> Kind]
  /\ parent \in [Pid -> Pid \cup {init}] /\ \A p \in alive : parent[p] \in alive \cup {init}
  /\ family \in [Pid -> Pid] /\ walk \in Pid \cup {init}
  /\ todo \subseteq listed /\ listed \subseteq Pid /\ cluster \subseteq listed
  /\ shown.pids \subseteq Pid /\ DOMAIN info \subseteq listed
  /\ \A f \in found : f[1] \in {"hidden", "hollow", "spawned", "inject", "roottmp"} /\ f[2] \in listed
  /\ changes \in 0..MaxChanges

(* What is suspicious before the listing and stays as it is to the end is  *)
(* found, whatever other processes do meanwhile, unless its maps are not   *)
(* among the first MaxMaps or it is of the family of a secmon process;     *)
(* what ps hides raises the finding, which names it if it is among the     *)
(* first MaxNamed that are missing (all are if ps fails).                  *)
SteadyIsFound ==
  pc = "done" =>
    \A p \in steady :
      /\ kind[p] = "anon" /\ p \in FirstListed /\ family[p] \notin named => <<"hollow", p>> \in found
      /\ kind[p] = "roottmp" => <<"roottmp", p>> \in found
      /\ kind[p] = "hidden" => \E q \in listed : <<"hidden", q>> \in found
      /\ kind[p] = "hidden" /\ p \in FirstHidden => <<"hidden", p>> \in found
      /\ kind[p] = "shell" /\ parent[p] \in steady /\ kind[parent[p]] = "web"
           => <<"spawned", p, parent[p]>> \in found
      /\ kind[p] = "inject" /\ parent[p] \in steady \cup {init} => <<"inject", p>> \in found

(* What a finding says was so during the audit, though not all of it at    *)
(* one moment.  A hollowed process had the mapping and an injected one its *)
(* command line.  Of a root process in /tmp the executable was there, and  *)
(* then or later, perhaps after it had executed another program, it was    *)
(* root's (process.py:338).  A shell was a child of the process named as   *)
(* its parent, which was a web server at the same or another moment.  A    *)
(* hidden process was not shown, or exited since, or ps failed.            *)
FoundWasSo ==
  \A f \in found :
    LET before == was[f[2]] IN
    CASE f[1] = "hollow"  -> \E x \in before : x[1].kind = "anon"
      [] f[1] = "inject"  -> \E x \in before : x[1].kind = "inject"
      [] f[1] = "roottmp" -> \E x \in before : x[1].kind \in {"tmp", "roottmp"} /\ x[2] # "tmp"
      [] f[1] = "spawned" -> /\ \E x \in before : x[1] = [parent |-> f[3], kind |-> "shell"]
                             /\ \E y \in was[f[3]] : y[1].kind = "web"
      [] f[1] = "hidden"  -> \/ \E x \in before : x[1].kind = "hidden"
                             \/ f[2] \notin alive \/ ~shown.ok

(* The audit, and the processes between it and init: what is in every set  *)
(* that holds the audit and with each process its parent.                  *)
SelfLine ==
  {p \in Pid : \A up \in SUBSET Pid :
                 self \in up /\ (\A q \in up : parent[q] \in up \cup {init}) => p \in up}

(* "The audit shouldn't flag itself" (audit/process.py:163): its own       *)
(* process, those it descends from, and their children are not taken for   *)
(* hollowed as long as they stay what they are.                            *)
AuditSpared ==
  \A p \in steady :
    <<"hollow", p>> \in found /\ SelfLine \subseteq steady =>
      p \notin SelfLine /\ parent[p] \notin SelfLine
=============================================================================
