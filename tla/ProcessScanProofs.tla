-------------------------- MODULE ProcessScanProofs --------------------------
(***************************************************************************)
(* Proofs about ProcessScan for any processes, kinds and bounds: type      *)
(* correctness; a finding names a process that was what the finding says;  *)
(* what is suspicious and stays as it is is found; the audit does not      *)
(* accuse itself.                                                          *)
(***************************************************************************)
EXTENDS ProcessScan, FiniteSetTheorems, WellFoundedInduction, TLAPS

(* The process table and what is remembered of it: parents are alive and   *)
(* of the same family, what is has been, who is called secmon is named.    *)
TableInv ==
  /\ was \in [Pid -> SUBSET (Reading \X Kind)] /\ \A p \in Pid : <<Read(p), kind[p]>> \in was[p]
  /\ \A p \in Pid : /\ parent[p] \in alive \cup {init}
                    /\ parent[p] # init => family[parent[p]] = family[p]
  /\ steady \subseteq alive
  /\ \A p \in alive : kind[p] = "secmon" => family[p] \in named

(* The listing holds the steady processes, and parents with their children. *)
ListInv ==
  /\ pc = "list" => listed = {}
  /\ pc # "list" => steady \subseteq listed
  /\ \A p \in listed : parent[p] \in listed \cup {init}

(* Of the cluster, and of the chain that is being climbed, all are of      *)
(* families with a secmon process.                                         *)
ClusterInv ==
  /\ walk \in listed \cup {init}
  /\ pc = "up" => todo \subseteq cluster
  /\ \A p \in cluster : family[p] \in named
  /\ walk # init => family[walk] \in named

(* What was read of a process was so, before it was of the kind it is now, *)
(* and still is if it is steady.                                           *)
InfoInv ==
  /\ info \in [DOMAIN info -> Reading]
  /\ \A p \in DOMAIN info : <<info[p], kind[p]>> \in was[p]
  /\ \A p \in steady \cap DOMAIN info : info[p] = Read(p)
  /\ pc = "stat" => steady \subseteq todo \cup DOMAIN info
  /\ pc \in {"judge", "status"} => steady \subseteq DOMAIN info
  /\ pc = "status" => todo \subseteq DOMAIN info

(* Who is missing in what ps printed was hidden or has exited, or ps       *)
(* failed.                                                                 *)
HiddenSo(p) == (\E x \in was[p] : x[1].kind = "hidden") \/ p \notin alive \/ ~shown.ok

HiddenInv ==
  /\ pc \in {"list", "ps"} => found = {}
  /\ pc = "compare" => /\ \A p \in listed \ shown.pids : HiddenSo(p)
                       /\ \A p \in steady : kind[p] = "hidden" => p \notin shown.pids
  /\ pc \notin {"list", "ps", "compare"} =>
       \A p \in steady :
         kind[p] = "hidden" => /\ \E q \in listed : <<"hidden", q>> \in found
                               /\ p \notin FirstHidden \/ <<"hidden", p>> \in found

(* What the loops over the maps, the table and the users have found.       *)
Hollow(p) == kind[p] = "anon" /\ p \in FirstListed /\ family[p] \notin named

LoopInv ==
  /\ pc = "maps" => \A p \in steady : Hollow(p) => p \in todo \/ <<"hollow", p>> \in found
  /\ pc \in {"stat", "judge", "status", "done"} =>
       \A p \in steady : Hollow(p) => <<"hollow", p>> \in found
  /\ pc \in {"status", "done"} =>
       \A p \in steady :
         /\ kind[p] = "shell" /\ parent[p] \in steady /\ kind[parent[p]] = "web"
              => <<"spawned", p, parent[p]>> \in found
         /\ kind[p] = "inject" /\ parent[p] \in steady \cup {init} => <<"inject", p>> \in found
  /\ pc = "status" =>
       \A p \in steady : kind[p] = "roottmp" => p \in todo \/ <<"roottmp", p>> \in found
  /\ pc = "done" => \A p \in steady : kind[p] = "roottmp" => <<"roottmp", p>> \in found

(* What FoundWasSo says of one finding. *)
FoundSo(f) ==
  /\ f[1] = "hollow" => \E x \in was[f[2]] : x[1].kind = "anon"
  /\ f[1] = "inject" => \E x \in was[f[2]] : x[1].kind = "inject"
  /\ f[1] = "roottmp" => \E x \in was[f[2]] : x[1].kind \in {"tmp", "roottmp"} /\ x[2] # "tmp"
  /\ f[1] = "spawned" => /\ f[3] \in listed
                         /\ \E x \in was[f[2]] : x[1] = [parent |-> f[3], kind |-> "shell"]
                         /\ \E y \in was[f[3]] : y[1].kind = "web"
  /\ f[1] = "hidden" => HiddenSo(f[2])

FoundInv == \A f \in found : FoundSo(f)

(* The processes that the audit is to spare. *)
Spared(p) == p \in SelfLine \/ parent[p] \in SelfLine

(* Those of the audit's line that were climbed from the audit to walk.     *)
Climbed(up) ==
  /\ up \subseteq cluster \cap SelfLine /\ self \in up \cup {walk}
  /\ \A q \in up : parent[q] \in up \cup {walk, init}

(* As long as the audit's line stays what it is, each loop brings more of  *)
(* it into the cluster: the audit, its line, and the children of these.    *)
SparedInv ==
  SelfLine \subseteq steady =>
    /\ kind[self] = "secmon"
    /\ pc = "names" => self \in todo \cup cluster
    /\ pc = "up" => self \in todo \/ \E up \in SUBSET Pid : Climbed(up)
    /\ pc = "down" => /\ SelfLine \subseteq cluster
                      /\ \A p \in steady : parent[p] \in SelfLine => p \in todo \cup cluster
    /\ pc = "maps" => \A p \in steady : Spared(p) => p \in cluster
    /\ \A p \in steady : Spared(p) => <<"hollow", p>> \notin found

-----------------------------------------------------------------------------
(* Changes of the process table *)

(* What they leave alone: the audit, and all that is listed or steady.     *)
Change ==
  /\ pc \notin {"list", "done"} /\ UNCHANGED <<self, pc, todo, walk, results>>
  /\ steady' \subseteq steady /\ named \subseteq named'
  /\ \A p \in Pid : /\ was[p] \subseteq was'[p]
                    /\ \A x \in was[p] : <<x[1], kind'[p]>> \in was'[p]
  /\ \A p \in listed : /\ family'[p] = family[p] /\ parent'[p] \in {parent[p], init}
                       /\ p \in alive' => p \in alive
  /\ \A p \in steady' : kind'[p] = kind[p] /\ parent'[p] = parent[p] /\ p \in alive'

TableStep ==
  \/ \E p, q \in Pid : Fork(p, q)
  \/ \E p \in Pid, k \in Kind : Exec(p, k)
  \/ \E p \in Pid : Leave(p)

(* The types that do not depend on the audit. *)
TableTypes ==
  /\ self \in alive /\ alive \subseteq Pid /\ kind \in [Pid -> Kind]
  /\ parent \in [Pid -> Pid \cup {init}]
  /\ family \in [Pid -> Pid] /\ changes \in 0..MaxChanges

(* A change keeps the table in order and does no more than Change says.    *)
LEMMA TableChange ==
  ASSUME TableTypes, TableInv, ListInv, listed \subseteq Pid, TableStep
  PROVE  TableTypes' /\ TableInv' /\ Change
<1> USE DEF TableTypes, TableInv, Change
<1>0. init \notin Pid
  BY PidAssumption
<1>1. changes' \in 0..MaxChanges
  BY BoundAssumption DEF TableStep, Fork, Exec, Leave, MayChange, Changed
<1>2. ASSUME NEW ps, MayChange, Changed(ps), kind' \in [Pid -> Kind],
             parent' \in [Pid -> Pid \cup {init}]
      PROVE  /\ pc \notin {"list", "done"} /\ UNCHANGED <<self, pc, todo, walk, results>>
             /\ steady' = steady \ ps /\ Reading' = Reading /\ named \subseteq named'
             /\ \A p \in Pid : /\ was[p] \subseteq was'[p] /\ <<Read(p)', kind'[p]>> \in was'[p]
                               /\ \A x \in was[p] : <<x[1], kind'[p]>> \in was'[p]
             /\ was' \in [Pid -> SUBSET (Reading \X Kind)]
             /\ \A p \in alive' : kind'[p] = "secmon" => family'[p] \in named'
             /\ steady \subseteq listed
  <2> DEFINE now(p) == [parent |-> parent'[p], kind |-> kind'[p]]
             firsts(p) == {x[1] : x \in was[p]} \cup {now(p)}
  <2>1. \A p \in Pid : was'[p] = was[p] \cup (firsts(p) \X {kind'[p]})
    BY <1>2 DEF Changed
  <2>2. \A p \in Pid : now(p) \in Reading /\ firsts(p) \subseteq Reading
    BY <1>2 DEF Reading
  <2>3. was' \in [Pid -> SUBSET (Reading \X Kind)]
    <3>1. \A p \in Pid : was[p] \cup (firsts(p) \X {kind'[p]}) \subseteq Reading \X Kind
      BY <1>2, <2>2
    <3> HIDE DEF firsts
    <3>2. was' = [p \in Pid |-> was[p] \cup (firsts(p) \X {kind'[p]})]
      BY <1>2 DEF Changed, firsts
    <3> QED
      BY <3>1, <3>2
  <2>4. \A p \in Pid : Read(p)' = now(p)
    BY DEF Read
  <2>5. \A p \in Pid : <<Read(p)', kind'[p]>> \in was'[p]
    BY <2>1, <2>4
  <2>6. \A p \in Pid : \A x \in was[p] : <<x[1], kind'[p]>> \in was'[p]
    BY <2>1
  <2> QED
    BY <1>2, <2>1, <2>3, <2>5, <2>6 DEF Changed, MayChange, ListInv, Reading
<1>3. ASSUME NEW p \in Pid, NEW q \in Pid, Fork(p, q)
      PROVE  TableTypes' /\ TableInv' /\ Change
  <2>1. /\ MayChange /\ p \notin alive /\ p \notin listed /\ q \in alive /\ alive' = alive \cup {p}
        /\ parent' = [parent EXCEPT ![p] = q] /\ family' = [family EXCEPT ![p] = family[q]]
        /\ kind' = [kind EXCEPT ![p] = kind[q]] /\ Changed({})
    BY <1>3 DEF Fork
  <2>2. kind' \in [Pid -> Kind] /\ parent' \in [Pid -> Pid \cup {init}]
    BY <2>1
  <2>3. \A x \in Pid \ {p} : /\ parent'[x] = parent[x] /\ family'[x] = family[x]
                             /\ kind'[x] = kind[x]
    BY <2>1
  <2>4. parent'[p] = q /\ family'[p] = family[q] /\ p # q
    BY <2>1
  <2>5. \A x \in Pid : /\ parent'[x] \in alive' \cup {init}
                       /\ parent'[x] # init => family'[parent'[x]] = family'[x]
    BY <1>0, <2>1, <2>3, <2>4
  <2>6. TableTypes'
    BY <1>1, <1>2, <2>1, <2>2
  <2>7. /\ pc \notin {"list", "done"} /\ UNCHANGED <<self, pc, todo, walk, results>>
        /\ steady' = steady \ {} /\ Reading' = Reading /\ named \subseteq named'
        /\ was' \in [Pid -> SUBSET (Reading \X Kind)] /\ steady \subseteq listed
    BY <1>2, <2>1, <2>2
  <2>8. \A x \in Pid : /\ was[x] \subseteq was'[x] /\ <<Read(x)', kind'[x]>> \in was'[x]
                       /\ \A y \in was[x] : <<y[1], kind'[x]>> \in was'[x]
    BY <1>2, <2>1, <2>2
  <2>9. \A x \in alive' : kind'[x] = "secmon" => family'[x] \in named'
    BY <1>2, <2>1, <2>2
  <2>10. TableInv'
    BY <2>7, <2>8, <2>9, <2>1, <2>3, <2>5
  <2>11. \A x \in listed : /\ family'[x] = family[x] /\ parent'[x] \in {parent[x], init}
                           /\ x \in alive' => x \in alive
    BY <2>1, <2>3
  <2>12. steady' \subseteq steady
         /\ \A x \in steady' : kind'[x] = kind[x] /\ parent'[x] = parent[x] /\ x \in alive'
    BY <2>1, <2>3, <2>7
  <2>13. Change
    BY <2>7, <2>8, <2>11, <2>12
  <2> QED
    BY <2>6, <2>10, <2>13
<1>4. ASSUME NEW p \in Pid, NEW k \in Kind, Exec(p, k)
      PROVE  TableTypes' /\ TableInv' /\ Change
  <2>1. /\ kind' = [kind EXCEPT ![p] = k] /\ UNCHANGED <<alive, parent, family>>
        /\ MayChange /\ Changed({p})
    BY <1>4 DEF Exec
  <2>2. kind' \in [Pid -> Kind] /\ \A x \in Pid \ {p} : kind'[x] = kind[x]
    BY <2>1
  <2>3. TableTypes'
    BY <1>1, <2>1, <2>2, <1>2
  <2>4. /\ pc \notin {"list", "done"} /\ UNCHANGED <<self, pc, todo, walk, results>>
        /\ steady' = steady \ {p} /\ Reading' = Reading /\ named \subseteq named'
        /\ was' \in [Pid -> SUBSET (Reading \X Kind)] /\ steady \subseteq listed
    BY <1>2, <2>1, <2>2
  <2>5. \A x \in Pid : /\ was[x] \subseteq was'[x] /\ <<Read(x)', kind'[x]>> \in was'[x]
                       /\ \A y \in was[x] : <<y[1], kind'[x]>> \in was'[x]
    BY <1>2, <2>1, <2>2
  <2>6. \A x \in alive' : kind'[x] = "secmon" => family'[x] \in named'
    BY <1>2, <2>1, <2>2
  <2>7. TableInv'
    BY <2>4, <2>5, <2>6, <2>1, <2>2
  <2>8. Change
    BY <2>4, <2>5, <2>1, <2>2
  <2> QED
    BY <2>3, <2>7, <2>8
<1>5. ASSUME NEW p \in Pid, Leave(p)
      PROVE  TableTypes' /\ TableInv' /\ Change
  <2> DEFINE gone == {p} \cup {q \in Pid : parent[q] = p}
  <2>1. /\ p # self /\ alive' = alive \ {p}
        /\ parent' = [q \in Pid |-> IF parent[q] = p THEN init ELSE parent[q]]
        /\ UNCHANGED <<kind, family>> /\ MayChange /\ Changed(gone)
    BY <1>5 DEF Leave
  <2>2. \A x \in Pid : /\ parent'[x] = IF parent[x] = p THEN init ELSE parent[x]
                       /\ x \in gone \/ (parent'[x] = parent[x] /\ x # p)
    BY <2>1
  <2>3. parent' \in [Pid -> Pid \cup {init}]
    BY <2>1
  <2> HIDE DEF gone
  <2>4. TableTypes'
    BY <1>1, <1>2, <2>1, <2>3
  <2>5. /\ pc \notin {"list", "done"} /\ UNCHANGED <<self, pc, todo, walk, results>>
        /\ steady' = steady \ gone /\ Reading' = Reading /\ named \subseteq named'
        /\ was' \in [Pid -> SUBSET (Reading \X Kind)] /\ steady \subseteq listed
    BY <1>2, <2>1, <2>3
  <2>6. \A x \in Pid : /\ was[x] \subseteq was'[x] /\ <<Read(x)', kind'[x]>> \in was'[x]
                       /\ \A y \in was[x] : <<y[1], kind'[x]>> \in was'[x]
    BY <1>2, <2>1, <2>3
  <2>7. \A x \in alive' : kind'[x] = "secmon" => family'[x] \in named'
    BY <1>2, <2>1, <2>3
  <2>8. TableInv'
    BY <2>5, <2>6, <2>7, <2>1, <2>2
  <2>9. Change
    BY <2>5, <2>6, <2>1, <2>2
  <2> QED
    BY <2>4, <2>8, <2>9
<1> QED
  BY <1>3, <1>4, <1>5 DEF TableStep

(* A step of the model changes the table, or is one of the audit, or none. *)
LEMMA Steps == [Next]_vars => TableStep \/ Scan \/ UNCHANGED vars
BY DEF Next, TableStep

-----------------------------------------------------------------------------
(* Types *)

AuditTypes ==
  /\ walk \in Pid \cup {init}
  /\ todo \subseteq listed /\ listed \subseteq Pid /\ cluster \subseteq listed
  /\ shown.pids \subseteq Pid /\ DOMAIN info \subseteq listed
  /\ \A f \in found : f[1] \in {"hidden", "hollow", "spawned", "inject", "roottmp"} /\ f[2] \in listed

Types == TableTypes /\ AuditTypes

(* Which loop follows which, and over which processes. *)
LEMMA LoopOrder ==
  NextLoop =>
    /\ todo = {} /\ walk = init /\ UNCHANGED <<walk, results>> /\ Quiet
    /\ \/ pc = "names" /\ pc' = "up" /\ todo' = cluster
       \/ pc = "up" /\ pc' = "down" /\ todo' = listed
       \/ pc = "down" /\ pc' = "maps" /\ todo' = FirstListed
       \/ pc = "maps" /\ pc' = "stat" /\ todo' = listed
       \/ pc = "stat" /\ pc' = "judge" /\ todo' = {}
       \/ pc = "status" /\ pc' = "done" /\ todo' = {}
<1> SUFFICES ASSUME NextLoop
             PROVE  \/ pc = "names" /\ pc' = "up" /\ todo' = cluster
                    \/ pc = "up" /\ pc' = "down" /\ todo' = listed
                    \/ pc = "down" /\ pc' = "maps" /\ todo' = FirstListed
                    \/ pc = "maps" /\ pc' = "stat" /\ todo' = listed
                    \/ pc = "stat" /\ pc' = "judge" /\ todo' = {}
                    \/ pc = "status" /\ pc' = "done" /\ todo' = {}
  BY DEF NextLoop
<1>1. pc \in {"names", "up", "down", "maps", "stat", "status"} /\ pc' = After[pc]
  BY DEF NextLoop, After
<1>2. \/ pc = "names" /\ pc' = "up"
      \/ pc = "up" /\ pc' = "down"
      \/ pc = "down" /\ pc' = "maps"
      \/ pc = "maps" /\ pc' = "stat"
      \/ pc = "stat" /\ pc' = "judge"
      \/ pc = "status" /\ pc' = "done"
  BY <1>1 DEF After
<1> QED
  BY <1>2 DEF NextLoop

(* What the loop that looks at p may assume. *)
LEMMA Looked ==
  \A loop : \A p \in todo :
    Look(loop, p) => pc = loop /\ walk = init /\ todo' = todo \ {p}
BY DEF Look

(* The initial state is well typed. *)
LEMMA TypeInit == Init => Types
BY BoundAssumption DEF Init, Types, TableTypes, AuditTypes

(* What was found or read so far is of listed processes. *)
LEMMA AuditTypeStep ==
  ASSUME Types, TableInv, ListInv, HiddenInv, ClusterInv, Scan
  PROVE  AuditTypes'
<1> USE DEF Types, AuditTypes, Quiet, table, results, history
<1>1. CASE List
  BY <1>1 DEF List, TableTypes, ListInv, HiddenInv
<1>2. CASE Ps
  BY <1>2 DEF Ps, TableTypes
<1>3. CASE Compare
  <2>1. /\ found' = found \cup {<<"hidden", p>> : p \in FirstHidden} /\ todo' = listed
        /\ UNCHANGED <<walk, listed, shown, cluster, info>>
    BY <1>3 DEF Compare
  <2>2. FirstHidden \subseteq listed
    BY DEF FirstHidden, Hidden
  <2> QED
    BY <2>1, <2>2
<1>4. CASE Names
  BY <1>4, Looked DEF Names
<1>5. CASE Climb
  <2>1. walk' \in listed \cup {init} /\ cluster' \subseteq listed /\ todo' \subseteq todo
    BY <1>5, Looked DEF Climb, Chained, ClusterInv, ListInv
  <2> QED
    BY <1>5, <2>1 DEF Climb
<1>6. CASE Descend
  BY <1>6, Looked DEF Descend
<1>7. CASE Maps
  BY <1>7, Looked DEF Maps
<1>8. CASE Stat
  BY <1>8, Looked DEF Stat
<1>9. CASE Judge
  BY <1>9 DEF Judge, Spawned, Injected
<1>10. CASE Status
  BY <1>10, Looked DEF Status
<1>11. CASE NextLoop
  BY <1>11, LoopOrder DEF FirstListed
<1> QED
  BY <1>1, <1>2, <1>3, <1>4, <1>5, <1>6, <1>7, <1>8, <1>9, <1>10, <1>11 DEF Scan

(* The audit only looks: the process table is the same afterwards. *)
LEMMA OnlyLooks == Scan => UNCHANGED <<table, changes, history>>
BY DEF Scan, List, Ps, Compare, Names, Climb, Descend, Maps, Stat, Judge, Status, NextLoop, Quiet

-----------------------------------------------------------------------------
(* The invariant *)

IInv == TableInv /\ ListInv /\ ClusterInv /\ InfoInv /\ HiddenInv /\ LoopInv /\ FoundInv

(* It holds initially. *)
LEMMA InvInit == Init => IInv
<1> SUFFICES ASSUME Init PROVE IInv
  OBVIOUS
<1>1. init \notin Pid
  BY PidAssumption
<1>2. TableInv
  <2>1. /\ kind \in [Pid -> Kind] /\ parent \in [Pid -> Pid \cup {init}]
        /\ was = [p \in Pid |-> {<<Read(p), kind[p]>>}]
    BY DEF Init
  <2>2. \A p \in Pid : Read(p) \in Reading
    BY <2>1 DEF Read, Reading
  <2>3. was \in [Pid -> SUBSET (Reading \X Kind)] /\ \A p \in Pid : <<Read(p), kind[p]>> \in was[p]
    BY <2>1, <2>2
  <2>4. \A p \in Pid : /\ parent[p] \in alive \cup {init}
                       /\ parent[p] # init => family[parent[p]] = family[p]
    BY <1>1 DEF Init
  <2>5. steady = alive /\ \A p \in alive : kind[p] = "secmon" => family[p] \in named
    BY DEF Init, Named
  <2> QED
    BY <2>3, <2>4, <2>5 DEF TableInv
<1>3. ListInv /\ ClusterInv /\ InfoInv /\ HiddenInv /\ LoopInv
  BY DEF Init, ListInv, ClusterInv, InfoInv, HiddenInv, LoopInv
<1>4. FoundInv
  BY DEF Init, FoundInv
<1> QED
  BY <1>2, <1>3, <1>4 DEF IInv

(* A change of the process table keeps what the audit relies on. *)
LEMMA ChangeKeepsInv ==
  ASSUME Types, IInv, TableStep
  PROVE  Types' /\ IInv'
<1>1. TableTypes' /\ TableInv' /\ Change
  BY TableChange DEF IInv, Types, AuditTypes
<1>2. /\ pc \notin {"list", "done"} /\ UNCHANGED <<pc, todo, walk>>
      /\ UNCHANGED <<listed, shown, cluster, info, found>>
      /\ steady' \subseteq steady /\ named \subseteq named'
      /\ \A p \in Pid : /\ was[p] \subseteq was'[p]
                        /\ \A x \in was[p] : <<x[1], kind'[p]>> \in was'[p]
      /\ \A p \in listed : /\ family'[p] = family[p] /\ parent'[p] \in {parent[p], init}
                           /\ p \in alive' => p \in alive
      /\ \A p \in steady' : kind'[p] = kind[p] /\ parent'[p] = parent[p]
  BY <1>1 DEF Change, results
<1>3. listed \subseteq Pid /\ cluster \subseteq listed /\ DOMAIN info \subseteq listed
      /\ steady \subseteq listed /\ init \notin Pid
  BY <1>2, PidAssumption DEF Types, AuditTypes, IInv, ListInv
<1>4. AuditTypes'
  BY <1>2 DEF Types, AuditTypes
<1>5. ListInv'
  BY <1>2 DEF IInv, ListInv
<1>6. ClusterInv'
  BY <1>2, <1>3 DEF IInv, ClusterInv
<1>7. InfoInv'
  <2>1. \A p \in DOMAIN info : <<info[p], kind'[p]>> \in was'[p]
    BY <1>2, <1>3 DEF IInv, InfoInv
  <2>2. \A p \in steady' \cap DOMAIN info : info[p] = Read(p)'
    BY <1>2 DEF IInv, InfoInv, Read
  <2> QED
    BY <1>2, <2>1, <2>2 DEF IInv, InfoInv
<1>8. HiddenInv'
  BY <1>2, <1>3 DEF IInv, HiddenInv, HiddenSo, FirstHidden, Hidden
<1>9. LoopInv'
  <2>1. \A p \in steady' : Hollow(p)' => Hollow(p)
    BY <1>2, <1>3 DEF Hollow, FirstListed
  <2>2. \A p \in steady' : /\ parent'[p] \in steady' =>
                                 kind'[parent'[p]] = kind[parent[p]] /\ parent[p] \in steady
                           /\ parent'[p] = parent[p] /\ kind'[p] = kind[p] /\ p \in steady
    BY <1>2
  <2> QED
    BY <1>2, <2>1, <2>2 DEF IInv, LoopInv
<1>10. FoundInv'
  <2> SUFFICES ASSUME NEW f \in found PROVE FoundSo(f)'
    BY <1>2 DEF FoundInv
  <2>1. FoundSo(f) /\ f[2] \in listed
    BY DEF IInv, FoundInv, Types, AuditTypes
  <2> QED
    BY <1>2, <1>3, <2>1 DEF FoundSo, HiddenSo
<1> QED
  BY <1>1, <1>4, <1>5, <1>6, <1>7, <1>8, <1>9, <1>10 DEF IInv, Types

(* The listing is made once. *)
LEMMA ListStep ==
  ASSUME Types, TableInv, ListInv, Scan
  PROVE  ListInv'
<1> USE DEF ListInv, results
<1>1. CASE List
  BY <1>1 DEF List, Quiet, table, history, TableInv, Types, TableTypes
<1>2. CASE ~List
  <2>1. pc # "list" /\ pc' # "list" /\ UNCHANGED listed
    BY <1>2, LoopOrder
       DEF Scan, Ps, Compare, Names, Climb, Descend, Maps, Stat, Judge, Status, Look
  <2> QED
    BY <2>1, OnlyLooks DEF table, history
<1> QED
  BY <1>1, <1>2

(* Only families with a secmon process come into the cluster. *)
LEMMA ClusterStep ==
  ASSUME Types, TableInv, ListInv, HiddenInv, ClusterInv, Scan
  PROVE  ClusterInv'
<1> USE DEF ClusterInv, results
<1>1. UNCHANGED <<alive, parent, kind, family, named>>
  BY OnlyLooks DEF table, history
<1>2. init \notin Pid /\ cluster \subseteq listed /\ listed \subseteq Pid
  BY PidAssumption DEF Types, AuditTypes
<1>3. CASE List
  <2>1. cluster = {} /\ cluster' = {} /\ walk' = walk /\ walk = init
    BY <1>3 DEF List, ListInv, Types, AuditTypes
  <2> QED
    BY <1>1, <1>3, <2>1 DEF List
<1>4. CASE Names
  <2>1. PICK p \in todo :
          /\ pc = "names"
          /\ cluster' = IF p \in alive /\ kind[p] = "secmon" THEN cluster \cup {p} ELSE cluster
    BY <1>4, Looked DEF Names
  <2> QED
    BY <1>1, <1>4, <2>1 DEF Names, TableInv
<1>5. CASE Climb
  <2>1. CASE walk = init /\ UNCHANGED cluster
    <3>1. walk' \in cluster /\ todo' \subseteq cluster /\ UNCHANGED listed
      BY <1>5, <2>1, <1>2, Looked DEF Climb
    <3> QED
      BY <1>1, <1>2, <2>1, <3>1
  <2>2. CASE walk # init
    <3>1. /\ cluster' = cluster \cup {walk} /\ UNCHANGED <<listed, todo>>
          /\ pc = "up"
          /\ walk' = IF walk \in alive THEN parent[walk] ELSE init
      BY <1>5, <2>2 DEF Climb, Chained
    <3> QED
      BY <1>1, <1>2, <2>2, <3>1 DEF TableInv, ListInv
  <2> QED
    BY <1>5, <2>1, <2>2 DEF Climb
<1>6. CASE Descend
  <2>1. PICK p \in todo :
          /\ pc = "down"
          /\ cluster' = IF p \in alive /\ parent[p] \in cluster THEN cluster \cup {p} ELSE cluster
    BY <1>6, Looked DEF Descend
  <2>2. p \in Pid /\ (parent[p] \in cluster => parent[p] # init)
    BY <1>2 DEF Types, AuditTypes
  <2>3. parent[p] \in cluster => family[p] \in named
    BY <2>2 DEF TableInv
  <2>4. \A c \in cluster' : family[c] \in named
    BY <2>1, <2>3
  <2>5. pc' = "down" /\ UNCHANGED <<walk, listed>>
    BY <1>6, <2>1 DEF Descend
  <2> QED
    BY <1>1, <2>4, <2>5
<1>7. CASE Ps \/ Compare \/ Maps \/ Stat \/ Judge \/ Status \/ NextLoop
  <2>1. UNCHANGED <<walk, cluster, listed>> /\ (pc' = "up" => todo' = cluster)
    <3>1. Maps \/ Stat \/ Status => pc' # "up"
      BY DEF Maps, Stat, Status, Look
    <3>2. Ps \/ Compare \/ Judge => pc' # "up"
      BY DEF Ps, Compare, Judge
    <3>3. NextLoop => (pc' = "up" => todo' = cluster)
      BY LoopOrder
    <3>4. UNCHANGED <<walk, cluster, listed>>
      BY <1>7 DEF Ps, Compare, Maps, Stat, Judge, Status, NextLoop
    <3> QED
      BY <1>7, <3>1, <3>2, <3>3, <3>4
  <2> QED
    BY <1>1, <2>1
<1> QED
  BY <1>3, <1>4, <1>5, <1>6, <1>7 DEF Scan

(* What was read of a steady process is still so. *)
LEMMA InfoStep ==
  ASSUME Types, TableInv, ListInv, InfoInv, Scan
  PROVE  InfoInv'
<1> USE DEF InfoInv, results
<1>1. UNCHANGED <<alive, parent, kind, steady, was>>
  BY OnlyLooks DEF table, history
<1>2. steady \subseteq alive /\ alive \subseteq Pid
  BY DEF Types, TableTypes, TableInv
<1>3. CASE Stat
  <2>1. PICK p \in todo :
          /\ pc = "stat" /\ todo' = todo \ {p} /\ UNCHANGED pc
          /\ info' = [q \in DOMAIN info \cup (alive \cap {p}) |->
                        IF q = p THEN Read(p) ELSE info[q]]
    BY <1>3, Looked DEF Stat
  <2>2. DOMAIN info' = DOMAIN info \cup (alive \cap {p})
    BY <2>1
  <2>3. \A q \in DOMAIN info' : info'[q] = IF q = p THEN Read(p) ELSE info[q]
    BY <2>1, <2>2
  <2>4. p \in Pid /\ Read(p) \in Reading /\ <<Read(p), kind[p]>> \in was[p]
    BY DEF Types, TableTypes, AuditTypes, TableInv, Read, Reading
  <2>5. \A q \in DOMAIN info' : info'[q] \in Reading /\ <<info'[q], kind[q]>> \in was[q]
    <3> SUFFICES ASSUME NEW q \in DOMAIN info'
                 PROVE  info'[q] \in Reading /\ <<info'[q], kind[q]>> \in was[q]
      OBVIOUS
    <3>1. CASE q = p
      BY <2>3, <2>4, <3>1
    <3>2. CASE q # p
      BY <2>2, <2>3, <3>2
    <3> QED
      BY <3>1, <3>2
  <2>6. info' \in [DOMAIN info' -> Reading]
    BY <2>1, <2>2, <2>5
  <2>7. \A q \in steady \cap DOMAIN info' : info'[q] = Read(q)
    BY <2>2, <2>3
  <2>8. steady \subseteq todo' \cup DOMAIN info'
    BY <1>2, <2>1, <2>2
  <2> QED
    BY <1>1, <2>1, <2>5, <2>6, <2>7, <2>8 DEF Read
<1>4. CASE NextLoop
  <2>1. UNCHANGED info /\ (pc' = "stat" => todo' = listed /\ pc # "list")
        /\ pc' # "status" /\ (pc' = "judge" => pc = "stat" /\ todo = {})
    BY <1>4, LoopOrder
  <2> QED
    BY <1>1, <2>1 DEF ListInv, Read
<1>5. CASE List \/ Ps \/ Compare \/ Names \/ Climb \/ Descend \/ Maps \/ Judge \/ Status
  <2>1. UNCHANGED info
    BY <1>5 DEF List, Ps, Compare, Names, Climb, Descend, Maps, Judge, Status
  <2>2. pc' # "stat" /\ pc' # "judge"
    BY <1>5 DEF List, Ps, Compare, Names, Climb, Descend, Maps, Judge, Status, Look
  <2>3. pc' = "status" => /\ pc \in {"judge", "status"}
                          /\ todo' = DOMAIN info \/ (pc = "status" /\ todo' \subseteq todo)
    <3>1. Judge => pc = "judge" /\ todo' = DOMAIN info
      BY DEF Judge
    <3>2. Status => pc = "status" /\ todo' \subseteq todo
      BY DEF Status, Look
    <3>3. List \/ Ps \/ Compare \/ Names \/ Climb \/ Descend \/ Maps => pc' # "status"
      BY DEF List, Ps, Compare, Names, Climb, Descend, Maps, Look
    <3> QED
      BY <1>5, <3>1, <3>2, <3>3
  <2> QED
    BY <1>1, <2>1, <2>2, <2>3 DEF Read
<1> QED
  BY <1>3, <1>4, <1>5 DEF Scan

(* The order of process identifiers is well founded.                       *)
LEMMA PidOrder == IsWellFoundedOn({ss \in Nat \X Nat : ss[1] < ss[2]}, Nat)
BY ONLY NatLessThanWellFounded DEF OpToRel

(* If ps did not show all that are listed, the first of them is named.     *)
LEMMA FirstIsNamed ==
  ASSUME Types, Hidden # {}
  PROVE  FirstHidden # {}
<1>1. Hidden \subseteq Nat
  BY PidAssumption DEF Hidden, Types, AuditTypes
<1> DEFINE L == {ss \in Nat \X Nat : ss[1] < ss[2]}
<1>2. PICK p \in Hidden : \A q \in Hidden : ~ (<<q, p>> \in L)
  <2>1. IsWellFoundedOn(L, Nat)
    BY PidOrder DEF L
  <2> HIDE DEF L
  <2> QED
    BY <1>1, <2>1, WFMin
<1>3. {q \in Hidden : q < p} = {}
  BY <1>1, <1>2
<1>4. Cardinality({q \in Hidden : q < p}) < MaxNamed
  BY <1>3, FS_EmptySet, BoundAssumption
<1> QED
  BY <1>4 DEF FirstHidden

(* Who is not shown was hidden, exited, or could not be shown. *)
LEMMA HiddenStep ==
  ASSUME Types, TableInv, ListInv, HiddenInv, Scan
  PROVE  HiddenInv'
<1> USE DEF HiddenInv, HiddenSo, results
<1>1. UNCHANGED <<alive, kind, steady, was>>
  BY OnlyLooks DEF table, history
<1>2. listed \subseteq Pid /\ steady \subseteq alive
  BY DEF Types, AuditTypes, TableInv
<1>3. CASE List
  BY <1>1, <1>3 DEF List
<1>4. CASE Ps
  <2>1. \/ shown' = [ok |-> TRUE, pids |-> {p \in alive : kind[p] # "hidden"}]
        \/ shown' = [ok |-> FALSE, pids |-> {}]
    BY <1>4 DEF Ps
  <2>2. ASSUME NEW p \in listed \ shown'.pids, p \in alive, shown'.ok
        PROVE  \E x \in was[p] : x[1].kind = "hidden"
    <3>1. p \in Pid /\ kind[p] = "hidden"
      BY <1>2, <2>1, <2>2
    <3>2. <<Read(p), kind[p]>> \in was[p] /\ Read(p).kind = "hidden"
      BY <3>1 DEF TableInv, Read
    <3> QED
      BY <3>2
  <2>3. \A p \in steady : kind[p] = "hidden" => p \notin shown'.pids
    BY <2>1
  <2> QED
    BY <1>1, <1>4, <2>2, <2>3 DEF Ps
<1>5. CASE Compare
  <2>1. /\ pc = "compare" /\ pc' = "names" /\ UNCHANGED <<listed, shown>>
        /\ found' = found \cup {<<"hidden", p>> : p \in FirstHidden}
    BY <1>5 DEF Compare
  <2>2. FirstHidden' = FirstHidden /\ FirstHidden \subseteq listed
    BY <2>1 DEF FirstHidden, Hidden
  <2>3. ASSUME NEW p \in steady, kind[p] = "hidden"
        PROVE  \E q \in listed : <<"hidden", q>> \in found'
    <3>1. p \in Hidden
      BY <2>1, <2>3 DEF Hidden, ListInv
    <3>2. PICK q \in FirstHidden : TRUE
      BY <3>1, FirstIsNamed
    <3> QED
      BY <2>1, <2>2, <3>2
  <2> QED
    BY <1>1, <2>1, <2>2, <2>3
<1>6. CASE Names \/ Climb \/ Descend \/ Maps \/ Stat \/ Judge \/ Status \/ NextLoop
  <2>1. pc \notin {"list", "ps", "compare"} /\ pc' \notin {"list", "ps", "compare"}
    BY <1>6, LoopOrder DEF Names, Climb, Descend, Maps, Stat, Judge, Status, Look
  <2>2. found \subseteq found'
    BY <1>6, LoopOrder DEF Names, Climb, Descend, Maps, Stat, Judge, Status
  <2>3. UNCHANGED <<listed, shown>>
    BY <1>6, LoopOrder DEF Names, Climb, Descend, Maps, Stat, Judge, Status
  <2>4. FirstHidden' = FirstHidden
    BY <2>3 DEF FirstHidden, Hidden
  <2> QED
    BY <1>1, <2>1, <2>2, <2>3, <2>4
<1> QED
  BY <1>3, <1>4, <1>5, <1>6 DEF Scan

(* Each loop finds what it looks for in the steady processes. *)
LEMMA LoopStep ==
  ASSUME Types, TableInv, ListInv, ClusterInv, InfoInv, LoopInv, Scan
  PROVE  LoopInv'
<1> USE DEF LoopInv, results
<1>1. UNCHANGED <<alive, parent, kind, family, steady, named>>
  BY OnlyLooks DEF table, history
<1>2. steady \subseteq alive /\ alive \subseteq Pid /\ listed \subseteq Pid
  BY DEF Types, TableTypes, AuditTypes, TableInv
<1>3. CASE List \/ Ps \/ Compare \/ Names \/ Climb \/ Descend
  <2>1. pc' \notin {"maps", "stat", "judge", "status", "done"}
    BY <1>3 DEF List, Ps, Compare, Names, Climb, Descend, Look
  <2> QED
    BY <2>1
<1>4. CASE Maps
  <2>1. PICK p \in todo :
          /\ pc = "maps" /\ UNCHANGED <<pc, listed>> /\ todo' = todo \ {p}
          /\ found' = IF ~Passed(p) /\ p \in alive /\ kind[p] = "anon"
                      THEN found \cup {<<"hollow", p>>} ELSE found
    BY <1>4, Looked DEF Maps
  <2>2. p \in steady /\ Hollow(p) => <<"hollow", p>> \in found'
    BY <1>2, <2>1 DEF Hollow, Passed, ClusterInv
  <2>3. \A q \in steady : Hollow(q)' => Hollow(q)
    BY <1>1, <2>1 DEF Hollow, FirstListed
  <2> QED
    BY <1>1, <2>1, <2>2, <2>3
<1>5. CASE Stat
  <2>1. pc = "stat" /\ UNCHANGED <<pc, listed, found>>
    BY <1>5, Looked DEF Stat
  <2>2. \A q \in steady : Hollow(q)' => Hollow(q)
    BY <1>1, <2>1 DEF Hollow, FirstListed
  <2> QED
    BY <1>1, <2>1, <2>2
<1>6. CASE Judge
  <2>1. /\ pc = "judge" /\ pc' = "status" /\ todo' = DOMAIN info
        /\ found' = found \cup {<<"spawned", p, info[p].parent>> : p \in Spawned}
                         \cup {<<"inject", p>> : p \in Injected}
        /\ UNCHANGED listed
    BY <1>6 DEF Judge
  <2>2. steady \subseteq DOMAIN info
        /\ \A p \in steady : info[p].kind = kind[p] /\ info[p].parent = parent[p]
    BY <2>1 DEF InfoInv, Read
  <2>3. \A q \in steady : Hollow(q)' => Hollow(q)
    BY <1>1, <2>1 DEF Hollow, FirstListed
  <2>4. ASSUME NEW p \in steady,
               kind[p] = "shell", parent[p] \in steady, kind[parent[p]] = "web"
        PROVE  <<"spawned", p, parent[p]>> \in found'
    <3>1. p \in Spawned /\ info[p].parent = parent[p]
      BY <2>2, <2>4 DEF Spawned
    <3> QED
      BY <2>1, <3>1
  <2>5. ASSUME NEW p \in steady, kind[p] = "inject", parent[p] \in steady \cup {init}
        PROVE  <<"inject", p>> \in found'
    <3>1. p \in Injected
      BY <2>2, <2>5 DEF Injected
    <3> QED
      BY <2>1, <3>1
  <2>6. \A p \in steady : Hollow(p) => <<"hollow", p>> \in found'
    BY <2>1
  <2>7. steady \subseteq todo'
    BY <2>1, <2>2
  <2> QED
    BY <1>1, <2>1, <2>3, <2>4, <2>5, <2>6, <2>7
<1>7. CASE Status
  <2>1. PICK p \in todo :
          /\ pc = "status" /\ UNCHANGED <<pc, listed, info>> /\ todo' = todo \ {p}
          /\ found' = IF p \in alive /\ kind[p] # "tmp" /\ info[p].kind \in {"tmp", "roottmp"}
                      THEN found \cup {<<"roottmp", p>>} ELSE found
    BY <1>7, Looked DEF Status
  <2>2. steady \subseteq DOMAIN info /\ \A q \in steady : info[q].kind = kind[q]
    BY <2>1 DEF InfoInv, Read
  <2>3. p \in steady /\ kind[p] = "roottmp" => <<"roottmp", p>> \in found'
    BY <1>2, <2>1, <2>2
  <2>4. \A q \in steady : Hollow(q)' => Hollow(q)
    BY <1>1, <2>1 DEF Hollow, FirstListed
  <2> QED
    BY <1>1, <2>1, <2>3, <2>4
<1>8. CASE NextLoop
  <2>1. UNCHANGED <<listed, found>>
    BY <1>8 DEF NextLoop
  <2>2. \A q \in steady : Hollow(q)' => Hollow(q)
    BY <1>1, <2>1 DEF Hollow, FirstListed
  <2>3. \A q \in steady : Hollow(q) => q \in FirstListed
    BY DEF Hollow
  <2> QED
    BY <1>1, <1>8, <2>1, <2>2, <2>3, LoopOrder
<1> QED
  BY <1>3, <1>4, <1>5, <1>6, <1>7, <1>8 DEF Scan

(* Every finding is of a process that was so. *)
LEMMA FoundStep ==
  ASSUME Types, TableInv, InfoInv, HiddenInv, FoundInv, Scan
  PROVE  FoundInv'
<1> USE DEF FoundInv, results
<1>1. UNCHANGED <<alive, kind, was>>
      /\ \A p \in Pid : <<Read(p), kind[p]>> \in was[p] /\ Read(p).kind = kind[p]
  BY OnlyLooks DEF table, history, TableInv, Read
<1>2. \A f \in found : FoundSo(f)
  OBVIOUS
<1>3. alive \subseteq Pid
  BY DEF Types, TableTypes
<1>4. CASE List \/ Ps
  <2>1. found' = {}
    BY <1>4 DEF List, Ps, HiddenInv
  <2> QED
    BY <2>1
<1>5. CASE Compare
  <2>1. UNCHANGED <<listed, shown>>
        /\ found' = found \cup {<<"hidden", p>> : p \in FirstHidden}
        /\ FirstHidden \subseteq listed \ shown.pids
    BY <1>5 DEF Compare, FirstHidden, Hidden
  <2>2. \A p \in listed \ shown.pids : HiddenSo(p)
    BY <1>5 DEF Compare, HiddenInv
  <2> QED
    BY <1>1, <1>2, <2>1, <2>2 DEF FoundSo, HiddenSo
<1>6. CASE Maps
  <2>1. PICK p \in todo :
          /\ UNCHANGED <<listed, shown>>
          /\ \/ found' = found
             \/ p \in alive /\ kind[p] = "anon" /\ found' = found \cup {<<"hollow", p>>}
    BY <1>6 DEF Maps
  <2>2. kind[p] = "anon" /\ p \in alive => \E x \in was[p] : x[1].kind = "anon"
    BY <1>1, <1>3
  <2> QED
    BY <1>1, <1>2, <2>1, <2>2 DEF FoundSo, HiddenSo
<1>7. CASE Judge
  <2>1. /\ UNCHANGED <<listed, shown>>
        /\ found' = found \cup {<<"spawned", p, info[p].parent>> : p \in Spawned}
                         \cup {<<"inject", p>> : p \in Injected}
    BY <1>7 DEF Judge
  <2>2. DOMAIN info \subseteq listed
        /\ \A p \in DOMAIN info : info[p] \in Reading /\ \E x \in was[p] : x[1] = info[p]
    BY DEF InfoInv, Types, AuditTypes
  <2>3. ASSUME NEW p \in Spawned
        PROVE  /\ info[p].parent \in listed
               /\ \E x \in was[p] : x[1] = [parent |-> info[p].parent, kind |-> "shell"]
               /\ \E y \in was[info[p].parent] : y[1].kind = "web"
    <3>1. /\ p \in DOMAIN info /\ info[p].kind = "shell"
          /\ info[p].parent \in DOMAIN info /\ info[info[p].parent].kind = "web"
      BY DEF Spawned
    <3>2. info[p] = [parent |-> info[p].parent, kind |-> "shell"]
      BY <2>2, <3>1 DEF Reading
    <3> QED
      BY <2>2, <3>1, <3>2
  <2>4. \A p \in Injected : \E x \in was[p] : x[1].kind = "inject"
    BY <2>2 DEF Injected
  <2>5. \A p \in Spawned : FoundSo(<<"spawned", p, info[p].parent>>)
    BY <2>3 DEF FoundSo
  <2>6. \A p \in Injected : FoundSo(<<"inject", p>>)
    BY <2>4 DEF FoundSo
  <2>7. \A f \in found' : FoundSo(f)
    BY <1>2, <2>1, <2>5, <2>6
  <2> QED
    BY <1>1, <2>1, <2>7 DEF FoundSo, HiddenSo
<1>8. CASE Status
  <2>1. PICK p \in todo :
          /\ UNCHANGED <<listed, shown>> /\ pc = "status"
          /\ \/ found' = found
             \/ /\ kind[p] # "tmp" /\ info[p].kind \in {"tmp", "roottmp"}
                /\ found' = found \cup {<<"roottmp", p>>}
    BY <1>8, Looked DEF Status
  <2>2. <<info[p], kind[p]>> \in was[p]
    BY <2>1 DEF InfoInv
  <2> QED
    BY <1>1, <1>2, <2>1, <2>2 DEF FoundSo, HiddenSo
<1>9. CASE Names \/ Climb \/ Descend \/ Stat \/ NextLoop
  <2>1. UNCHANGED <<listed, shown, found>>
    BY <1>9 DEF Names, Climb, Descend, Stat, NextLoop
  <2> QED
    BY <1>1, <1>2, <2>1 DEF FoundSo, HiddenSo
<1> QED
  BY <1>4, <1>5, <1>6, <1>7, <1>8, <1>9 DEF Scan

-----------------------------------------------------------------------------
(* The audit's own line *)

(* A set that holds the audit and with each process its parent. *)
Upward(up) == self \in up /\ \A q \in up : parent[q] \in up \cup {init}

(* The line holds the audit and with each process its parent, and is the   *)
(* least such set.                                                         *)
LEMMA LineIsLeast ==
  ASSUME self \in Pid, parent \in [Pid -> Pid \cup {init}]
  PROVE  /\ SelfLine \subseteq Pid /\ Upward(SelfLine)
         /\ \A up \in SUBSET Pid : Upward(up) => SelfLine \subseteq up
<1>1. SelfLine \subseteq Pid /\ \A up \in SUBSET Pid : Upward(up) => SelfLine \subseteq up
  BY DEF SelfLine, Upward
<1>2. self \in SelfLine
  BY DEF SelfLine
<1>3. ASSUME NEW q \in SelfLine, parent[q] # init
      PROVE  parent[q] \in SelfLine
  <2>1. parent[q] \in Pid
    BY <1>1, <1>3
  <2>2. ASSUME NEW up \in SUBSET Pid, Upward(up)
        PROVE  parent[q] \in up
    BY <1>1, <1>3, <2>2 DEF Upward
  <2> QED
    BY <2>1, <2>2 DEF SelfLine, Upward
<1> QED
  BY <1>1, <1>2, <1>3 DEF Upward

(* A change after which the whole line is what it was does not change it.  *)
LEMMA LineStays ==
  ASSUME Types, Types', Change, SelfLine' \subseteq steady'
  PROVE  SelfLine' = SelfLine
<1>1. /\ SelfLine \subseteq Pid /\ Upward(SelfLine)
      /\ \A up \in SUBSET Pid : Upward(up) => SelfLine \subseteq up
  BY LineIsLeast DEF Types, TableTypes
<1>2. /\ SelfLine' \subseteq Pid /\ Upward(SelfLine)'
      /\ \A up \in SUBSET Pid : Upward(up)' => SelfLine' \subseteq up
  <2>1. self' \in Pid /\ parent' \in [Pid -> Pid \cup {init}]
    BY DEF Types, TableTypes
  <2>2. SelfLine' \subseteq Pid
    BY DEF SelfLine
  <2>3. ASSUME NEW up \in SUBSET Pid, self' \in up /\ \A q \in up : parent'[q] \in up \cup {init}
        PROVE  SelfLine' \subseteq up
    BY <2>3 DEF SelfLine
  <2>4. self' \in SelfLine'
    BY <2>1 DEF SelfLine
  <2> QED
    BY <2>1, <2>2, <2>3, <2>4 DEF Upward, SelfLine
<1>3. self' = self /\ \A p \in steady' : parent'[p] = parent[p]
  BY DEF Change
<1>4. SelfLine \subseteq SelfLine'
  BY <1>1, <1>2, <1>3 DEF Upward
<1>5. SelfLine' \subseteq SelfLine
  BY <1>1, <1>2, <1>3, <1>4 DEF Upward
<1> QED
  BY <1>4, <1>5

(* A change of the process table does not disturb the loops. *)
LEMMA SparedChange ==
  ASSUME Types, Types', Change, SparedInv
  PROVE  SparedInv'
<1> SUFFICES ASSUME (SelfLine \subseteq steady)' PROVE SparedInv'
  BY DEF SparedInv
<1>1. SelfLine' = SelfLine
  BY LineStays
<1>2. /\ UNCHANGED <<self, pc, todo, walk, cluster, found>> /\ steady' \subseteq steady
      /\ \A p \in steady' : kind'[p] = kind[p] /\ parent'[p] = parent[p]
  BY DEF Change, results
<1>3. SelfLine \subseteq steady' /\ self \in SelfLine
  BY <1>1, LineIsLeast DEF Types, TableTypes, Upward
<1>4. \A p \in steady' : Spared(p)' => Spared(p)
  BY <1>1, <1>2 DEF Spared
<1>5. \A up : Climbed(up) => Climbed(up)'
  BY <1>1, <1>2, <1>3 DEF Climbed
<1>6. /\ kind'[self'] = "secmon"
      /\ pc' = "names" => self' \in todo' \cup cluster'
      /\ pc' = "up" => self' \in todo' \/ \E up \in SUBSET Pid : Climbed(up)'
      /\ pc' = "down" => SelfLine' \subseteq cluster'
  BY <1>1, <1>2, <1>3, <1>5 DEF SparedInv
<1>7. /\ pc' = "down" => \A p \in steady' : parent'[p] \in SelfLine' => p \in todo' \cup cluster'
      /\ pc' = "maps" => \A p \in steady' : Spared(p)' => p \in cluster'
      /\ \A p \in steady' : Spared(p)' => <<"hollow", p>> \notin found'
  BY <1>1, <1>2, <1>3, <1>4 DEF SparedInv
<1> QED
  BY <1>6, <1>7 DEF SparedInv

(* The climb from the audit goes on to its parent; that from another       *)
(* process leaves alone what was climbed.                                  *)
LEMMA ClimbStep ==
  ASSUME Types, TableInv, SelfLine \subseteq steady, SparedInv, Climb
  PROVE  self' \in todo' \/ \E up \in SUBSET Pid : Climbed(up)'
<1>1. /\ pc = "up" /\ UNCHANGED <<self, parent>> /\ init \notin Pid /\ SelfLine' = SelfLine
      /\ steady \subseteq alive
  BY PidAssumption DEF Climb, Quiet, table, SelfLine, TableInv
<1>2. SelfLine \subseteq Pid /\ Upward(SelfLine)
  BY LineIsLeast DEF Types, TableTypes
<1>3. self \in todo \/ \E up \in SUBSET Pid : Climbed(up)
  BY <1>1 DEF SparedInv
<1>4. CASE walk = init /\ UNCHANGED cluster /\ \E p \in todo : Look("up", p) /\ walk' = p
  <2>1. PICK p \in todo : todo' = todo \ {p} /\ walk' = p
    BY <1>4, Looked
  <2>2. CASE self \in todo
    <3>1. self \in todo' \/ walk' = self
      BY <2>1, <2>2
    <3>2. walk' = self => Climbed({})'
      BY <1>1 DEF Climbed
    <3> QED
      BY <1>1, <3>1, <3>2
  <2>3. CASE self \notin todo
    <3>1. PICK up \in SUBSET Pid : Climbed(up)
      BY <1>3, <2>3
    <3>2. Climbed(up)'
      BY <1>1, <1>2, <1>4, <3>1 DEF Climbed, Upward
    <3> QED
      BY <3>2
  <2> QED
    BY <2>2, <2>3
<1>5. CASE /\ walk # init /\ cluster' = cluster \cup {walk} /\ UNCHANGED todo
           /\ walk' = IF walk \in alive THEN parent[walk] ELSE init
  <2>1. CASE self \in todo
    BY <1>1, <1>5, <2>1
  <2>2. CASE self \notin todo
    <3>1. PICK up \in SUBSET Pid : Climbed(up)
      BY <1>3, <2>2
    <3>2. CASE walk \in SelfLine
      <4>1. PICK next \in SUBSET Pid : next = up \cup {walk}
        BY <1>2, <3>2
      <4>2. walk' = parent[walk]
        BY <1>1, <1>5, <3>2
      <4>3. Climbed(next)'
        BY <1>1, <1>5, <3>1, <3>2, <4>1, <4>2 DEF Climbed
      <4> QED
        BY <4>3
    <3>3. CASE walk \notin SelfLine
      <4>1. \A q \in up : parent[q] \in SelfLine \cup {init}
        BY <1>2, <3>1 DEF Climbed, Upward
      <4>2. Climbed(up)'
        BY <1>1, <1>2, <1>5, <3>1, <3>3, <4>1 DEF Climbed, Upward
      <4> QED
        BY <4>2
    <3> QED
      BY <3>2, <3>3
  <2> QED
    BY <2>1, <2>2
<1> QED
  BY <1>4, <1>5 DEF Climb, Chained

(* Each loop does its part for the audit's line. *)
LEMMA SparedStep ==
  ASSUME Types, TableInv, ListInv, HiddenInv, SparedInv, Scan
  PROVE  SparedInv'
<1>1. UNCHANGED <<self, alive, parent, kind, steady>>
  BY OnlyLooks DEF table, history
<1>2. SelfLine' = SelfLine
  BY <1>1 DEF SelfLine
<1> SUFFICES ASSUME SelfLine \subseteq steady PROVE SparedInv'
  BY <1>1, <1>2 DEF SparedInv
<1>3. /\ SelfLine \subseteq Pid /\ Upward(SelfLine)
      /\ \A up \in SUBSET Pid : Upward(up) => SelfLine \subseteq up
  BY LineIsLeast DEF Types, TableTypes
<1>4. self \in SelfLine /\ self \in steady /\ steady \subseteq alive /\ init \notin Pid
  BY <1>3, PidAssumption DEF Upward, TableInv
<1>5. /\ kind[self] = "secmon"
      /\ \A p \in steady : Spared(p) => <<"hollow", p>> \notin found
      /\ \A p : Spared(p)' <=> Spared(p)
  BY <1>1, <1>2 DEF SparedInv, Spared
<1> USE DEF results
<1>6. CASE List \/ Ps \/ Stat \/ Status \/ Judge
  <2>1. pc' \notin {"names", "up", "down", "maps"}
    BY <1>6 DEF List, Ps, Stat, Status, Judge, Look
  <2>2. \A p : <<"hollow", p>> \in found' => <<"hollow", p>> \in found
    BY <1>6 DEF List, Ps, Stat, Status, Judge
  <2> QED
    BY <1>1, <1>2, <1>5, <2>1, <2>2 DEF SparedInv
<1>7. CASE Compare
  <2>1. pc = "compare" /\ pc' = "names" /\ todo' = listed /\ steady \subseteq listed
    BY <1>7 DEF Compare, ListInv
  <2>2. \A p : <<"hollow", p>> \in found' => <<"hollow", p>> \in found
    BY <1>7 DEF Compare
  <2> QED
    BY <1>1, <1>2, <1>4, <1>5, <2>1, <2>2 DEF SparedInv
<1>8. CASE Names
  <2>1. PICK p \in todo :
          /\ pc = "names" /\ UNCHANGED <<pc, found>> /\ todo' = todo \ {p}
          /\ cluster' = IF p \in alive /\ kind[p] = "secmon" THEN cluster \cup {p} ELSE cluster
    BY <1>8, Looked DEF Names
  <2>2. self \in todo' \cup cluster'
    BY <1>4, <1>5, <2>1 DEF SparedInv
  <2> QED
    BY <1>1, <1>2, <1>5, <2>1, <2>2 DEF SparedInv
<1>9. CASE Climb
  <2>1. pc = "up" /\ UNCHANGED <<pc, found>>
    BY <1>9 DEF Climb
  <2> QED
    BY <1>1, <1>2, <1>5, <1>9, <2>1, ClimbStep DEF SparedInv
<1>10. CASE Descend
  <2>1. PICK p \in todo :
          /\ pc = "down" /\ UNCHANGED <<pc, found>> /\ todo' = todo \ {p}
          /\ cluster' = IF p \in alive /\ parent[p] \in cluster THEN cluster \cup {p} ELSE cluster
    BY <1>10, Looked DEF Descend
  <2>2. /\ SelfLine \subseteq cluster'
        /\ \A q \in steady : parent[q] \in SelfLine => q \in todo' \cup cluster'
    BY <1>4, <2>1 DEF SparedInv
  <2> QED
    BY <1>1, <1>2, <1>5, <2>1, <2>2 DEF SparedInv
<1>11. CASE Maps
  <2>1. PICK p \in todo :
          /\ pc = "maps" /\ UNCHANGED <<pc, cluster>>
          /\ found' = IF ~Passed(p) /\ p \in alive /\ kind[p] = "anon"
                      THEN found \cup {<<"hollow", p>>} ELSE found
    BY <1>11, Looked DEF Maps
  <2>2. \A q \in steady : Spared(q) => q \in cluster
    BY <2>1 DEF SparedInv
  <2>3. \A q \in steady : Spared(q) => <<"hollow", q>> \notin found'
    BY <1>5, <2>1, <2>2 DEF Passed
  <2> QED
    BY <1>1, <1>2, <1>5, <2>1, <2>2, <2>3 DEF SparedInv
<1>12. CASE NextLoop
  <2>1. UNCHANGED <<cluster, found, walk>> /\ todo = {} /\ walk = init
    BY <1>12, LoopOrder
  <2>2. CASE pc = "names" /\ pc' = "up" /\ todo' = cluster
    BY <1>1, <1>2, <1>5, <2>1, <2>2 DEF SparedInv
  <2>3. CASE pc = "up" /\ pc' = "down" /\ todo' = listed
    <3>1. PICK up \in SUBSET Pid : Climbed(up)
      BY <2>1, <2>3 DEF SparedInv
    <3>2. self \in Pid
      BY <1>3, <1>4
    <3>3. Upward(up) /\ up \subseteq cluster
      BY <1>4, <2>1, <3>1, <3>2 DEF Climbed, Upward
    <3>4. SelfLine \subseteq cluster
      BY <1>3, <3>3
    <3>5. steady \subseteq todo'
      BY <2>3 DEF ListInv
    <3> QED
      BY <1>1, <1>2, <1>5, <2>1, <2>3, <3>4, <3>5 DEF SparedInv
  <2>4. CASE pc = "down" /\ pc' = "maps"
    <3>1. \A p \in steady : Spared(p) => p \in cluster
      BY <2>1, <2>4 DEF SparedInv, Spared
    <3> QED
      BY <1>1, <1>2, <1>5, <2>1, <2>4, <3>1 DEF SparedInv
  <2>5. CASE pc' \in {"stat", "judge", "done"}
    BY <1>1, <1>2, <1>5, <2>1, <2>5 DEF SparedInv
  <2> QED
    BY <1>12, <2>2, <2>3, <2>4, <2>5, LoopOrder
<1> QED
  BY <1>6, <1>7, <1>8, <1>9, <1>10, <1>11, <1>12 DEF Scan

-----------------------------------------------------------------------------
(* The theorems *)

(* Types and invariant go together: a type of the audit needs the listing. *)
LEMMA Step == Types /\ IInv /\ [Next]_vars => (Types /\ IInv)'
<1> SUFFICES ASSUME Types, IInv, [Next]_vars PROVE (Types /\ IInv)'
  OBVIOUS
<1>1. CASE TableStep
  BY <1>1, ChangeKeepsInv
<1>2. CASE Scan
  <2>1. Types'
    BY <1>2, AuditTypeStep, OnlyLooks DEF IInv, Types, TableTypes, table
  <2>2. TableInv'
    BY <1>2, OnlyLooks DEF IInv, TableInv, table, history, Read, Reading
  <2> QED
    BY <1>2, <2>1, <2>2, ListStep, ClusterStep, InfoStep, HiddenStep, LoopStep, FoundStep
       DEF IInv, Types
<1>3. CASE UNCHANGED vars
  <2>1. UNCHANGED <<alive, parent, kind, family, self, pc, todo, walk, listed, shown, cluster,
                    info, found, changes, was, steady, named>>
    BY <1>3 DEF vars, table, results, history
  <2>2. Types'
    BY <2>1 DEF Types, TableTypes, AuditTypes
  <2>3. TableInv' /\ ListInv' /\ ClusterInv'
    BY <2>1 DEF IInv, TableInv, ListInv, ClusterInv, Read, Reading
  <2>4. InfoInv'
    BY <2>1 DEF IInv, InfoInv, Read, Reading
  <2>5. HiddenInv' /\ FoundInv'
    BY <2>1 DEF IInv, HiddenInv, HiddenSo, FirstHidden, Hidden, FoundInv, FoundSo
  <2>6. LoopInv'
    BY <2>1 DEF IInv, LoopInv, Hollow, FirstListed
  <2> QED
    BY <2>2, <2>3, <2>4, <2>5, <2>6 DEF IInv
<1> QED
  BY <1>1, <1>2, <1>3, Steps

(* The invariant holds in every reachable state. *)
LEMMA Invariant == Spec => [](Types /\ IInv)
<1>1. Init => Types /\ IInv
  BY TypeInit, InvInit
<1> QED
  BY <1>1, Step, PTL DEF Spec

(* Every behaviour of the audit is well typed. *)
THEOREM TypeCorrect == Spec => []TypeOK
<1>1. Types /\ IInv => TypeOK
  BY DEF Types, TableTypes, AuditTypes, IInv, TableInv, TypeOK
<1> QED
  BY <1>1, Invariant, PTL

(* audit/process.py: what a finding says was so during the audit, a web    *)
(* server's shell being a child of the very process that is named as its   *)
(* parent, and a process in /tmp being root's then or later (not always at *)
(* one moment, process.py:338).  What is called hidden may have exited, or *)
(* ps failed.                                                              *)
THEOREM FindingsWereSo == Spec => []FoundWasSo
<1>1. Types /\ IInv => FoundWasSo
  BY DEF IInv, FoundInv, FoundSo, HiddenSo, FoundWasSo, Types, AuditTypes
<1> QED
  BY <1>1, Invariant, PTL

(* The audit's line is spared in every reachable state. *)
LEMMA LineIsSpared == Spec => []SparedInv
<1>1. Init => SparedInv
  BY DEF Init, SparedInv
<1>2. Types /\ IInv /\ SparedInv /\ (Types /\ IInv)' /\ [Next]_vars => SparedInv'
  <2> SUFFICES ASSUME Types, IInv, SparedInv, Types', [Next]_vars PROVE SparedInv'
    OBVIOUS
  <2>1. CASE TableStep
    <3>1. Change
      BY <2>1, TableChange DEF IInv, Types, AuditTypes
    <3> QED
      BY <3>1, SparedChange
  <2>2. CASE Scan
    BY <2>2, SparedStep DEF IInv
  <2>3. CASE UNCHANGED vars
    BY <2>3 DEF vars, table, results, history, SparedInv, SelfLine, Spared, Climbed
  <2> QED
    BY <2>1, <2>2, <2>3, Steps
<1> QED
  BY <1>1, <1>2, Invariant, PTL DEF Spec

(* audit/process.py: the audit does not take itself, what it descends from *)
(* and the children of these for hollowed as long as they stay what they   *)
(* are.                                                                    *)
THEOREM AuditIsSpared == Spec => []AuditSpared
<1>1. SparedInv => AuditSpared
  BY DEF SparedInv, Spared, AuditSpared
<1> QED
  BY <1>1, LineIsSpared, PTL

(* audit/process.py: what is suspicious before the listing and stays as it *)
(* is, is found, except the mappings of a process that is not among the    *)
(* first MaxMaps or is of the family of a secmon process.  What is hidden  *)
(* is named if it is among the first MaxNamed that ps did not show; of     *)
(* others only the finding is certain.                                     *)
THEOREM SteadyFound == Spec => []SteadyIsFound
<1>1. Types /\ IInv => SteadyIsFound
  BY DEF IInv, LoopInv, HiddenInv, Hollow, SteadyIsFound
<1> QED
  BY <1>1, Invariant, PTL
=============================================================================
