---------------------------- MODULE BlockingProofs ----------------------------
(***************************************************************************)
(* Proofs about Blocking for any processes, addresses, whitelist,          *)
(* thresholds and bounds: type correctness; what is dropped was reported   *)
(* or its run died; rules are doubled only by a race; where                *)
(* netfilter-persistent is installed, the saved rules are those of the     *)
(* chain.                                                                  *)
(***************************************************************************)
EXTENDS Blocking, SequenceTheorems, TLAPS

(* What was reported, will be, or was lost with a run. *)
Told == announced \cup orphaned \cup UNION {run[p].alerts : p \in Proc}

(* A run that is over, or only begins, has nothing to report. *)
ReportedInv == \A p \in Proc : run[p].pc \in {"idle", "list", "save"} => run[p].alerts = {}

(* All rules, also those on their way to the file, are of such subnets. *)
SilentInv ==
  /\ Range(chain) \subseteq Told /\ Range(rules) \subseteq Told
  /\ \A p \in Proc : Range(run[p].dump) \subseteq Told

DoubledIn(s, R) == \A i, j \in DOMAIN s : i # j /\ s[i] = s[j] => s[i] \in R

(* A run that blocks knows the chain but for what was hidden from it. *)
KnownInv ==
  \A p \in Proc : run[p].pc \in Busy => Range(chain) \subseteq run[p].blocked \cup run[p].unseen

RaceInv ==
  /\ DoubledIn(chain, raced) /\ DoubledIn(rules, raced)
  /\ \A p \in Proc : DoubledIn(run[p].dump, raced)
  /\ KnownInv

(* If the file differs, a run is about to save the rules. *)
BootInv ==
  Netfilter /\ ~unsaved => rules = chain \/ \E p \in Proc : run[p].pc \in Saving

-----------------------------------------------------------------------------
(* Sequences of rules *)

(* A rule appended to a chain. *)
LEMMA Appended ==
  ASSUME NEW S, NEW s \in Seq(S), NEW x \in S
  PROVE  /\ Append(s, x) \in Seq(S)
         /\ Range(Append(s, x)) = Range(s) \cup {x}
         /\ DOMAIN Append(s, x) = DOMAIN s \cup {Len(s) + 1}
         /\ Len(s) + 1 \notin DOMAIN s
         /\ \A i \in DOMAIN s : Append(s, x)[i] = s[i]
         /\ Append(s, x)[Len(s) + 1] = x
<1>1. /\ DOMAIN Append(s, x) = DOMAIN s \cup {Len(s) + 1}
      /\ Len(s) + 1 \notin DOMAIN s
      /\ \A i \in DOMAIN s : Append(s, x)[i] = s[i]
      /\ Append(s, x)[Len(s) + 1] = x
  OBVIOUS
<1> QED
  BY <1>1 DEF Range

(* A rule deleted from a chain: the others keep their order. *)
LEMMA Removed ==
  ASSUME NEW S, NEW s \in Seq(S), NEW n \in DOMAIN s
  PROVE  /\ RemoveAt(s, n) \in Seq(S)
         /\ DOMAIN RemoveAt(s, n) = 1..(Len(s) - 1)
         /\ \A i \in 1..(Len(s) - 1) : RemoveAt(s, n)[i] = s[IF i < n THEN i ELSE i + 1]
<1> DEFINE front == SubSeq(s, 1, n - 1)
           back  == SubSeq(s, n + 1, Len(s))
<1>1. n \in 1..Len(s) /\ Len(s) \in Nat
  OBVIOUS
<1>2. /\ front \in Seq(S) /\ Len(front) = n - 1
      /\ \A i \in 1..(n - 1) : front[i] = s[i]
  BY <1>1
<1>3. /\ back \in Seq(S) /\ Len(back) = Len(s) - n
      /\ \A i \in 1..(Len(s) - n) : back[i] = s[n + i]
  BY <1>1
<1>4. RemoveAt(s, n) = front \o back
  BY DEF RemoveAt
<1> HIDE DEF front, back
<1>5. /\ front \o back \in Seq(S) /\ Len(front \o back) = Len(s) - 1
      /\ DOMAIN (front \o back) = 1..(Len(s) - 1)
  BY <1>1, <1>2, <1>3
<1>6. ASSUME NEW i \in 1..(Len(s) - 1)
      PROVE  (front \o back)[i] = s[IF i < n THEN i ELSE i + 1]
  <2>1. (front \o back)[i] = IF i <= Len(front) THEN front[i] ELSE back[i - Len(front)]
    <3>1. i \in 1..(Len(front) + Len(back))
      BY <1>1, <1>2, <1>3
    <3> QED
      BY <1>2, <1>3, <3>1, ConcatProperties
  <2>2. CASE i < n
    BY <1>1, <1>2, <2>1, <2>2
  <2>3. CASE ~(i < n)
    <3>1. i - (n - 1) \in 1..(Len(s) - n) /\ n + (i - (n - 1)) = i + 1
      BY <1>1, <2>3
    <3>2. (front \o back)[i] = back[i - (n - 1)]
      BY <1>1, <1>2, <2>1, <2>3
    <3> QED
      BY <1>3, <2>3, <3>1, <3>2
  <2> QED
    BY <2>2, <2>3
<1> QED
  BY <1>4, <1>5, <1>6

(* It adds no rule. *)
LEMMA RemovedRange ==
  ASSUME NEW S, NEW s \in Seq(S), NEW n \in DOMAIN s
  PROVE  Range(RemoveAt(s, n)) \subseteq Range(s)
<1> SUFFICES ASSUME NEW i \in DOMAIN RemoveAt(s, n)
             PROVE  RemoveAt(s, n)[i] \in Range(s)
  BY DEF Range
<1>1. i \in 1..(Len(s) - 1) /\ RemoveAt(s, n)[i] = s[IF i < n THEN i ELSE i + 1]
  BY Removed
<1>2. (IF i < n THEN i ELSE i + 1) \in DOMAIN s
  BY <1>1
<1> QED
  BY <1>1, <1>2 DEF Range

-----------------------------------------------------------------------------
(* Types *)

(* The initial state is well typed. *)
LEMMA TypeInit == Init => TypeOK
<1> SUFFICES ASSUME Init PROVE TypeOK
  OBVIOUS
<1>1. <<>> \in Seq(Subnet)
  OBVIOUS
<1>2. Idle \in Progress
  BY <1>1 DEF Progress, Idle, PC
<1>3. 0 \in 0..MaxHits /\ 0 \in 0..MaxEvents
  BY NumberAssumption
<1> QED
  BY <1>1, <1>2, <1>3 DEF Init, TypeOK

(* The rules that unblocking can leave. *)
LEMMA Unblocked ==
  ASSUME TypeOK, Unblock
  PROVE  /\ chain' \in Seq(Subnet)
         /\ chain' \in {<<>>, chain} \/ \E n \in DOMAIN chain : chain' = RemoveAt(chain, n)
         /\ rules' \in Seq(Subnet) /\ unsaved' \in BOOLEAN
<1>1. chain \in Seq(Subnet) /\ rules \in Seq(Subnet)
  BY DEF TypeOK
<1>2. chain' \in {<<>>, chain} \/ \E s \in Subnet : chain' \in ChainsWithout(s)
  BY DEF Unblock
<1>3. chain' \in {<<>>, chain} \/ \E n \in DOMAIN chain : chain' = RemoveAt(chain, n)
  BY <1>2 DEF ChainsWithout, FirstLine
<1>4. \A n \in DOMAIN chain : RemoveAt(chain, n) \in Seq(Subnet)
  BY <1>1, Removed
<1>5. <<>> \in Seq(Subnet)
  OBVIOUS
<1>6. chain' \in Seq(Subnet)
  BY <1>1, <1>3, <1>4, <1>5
<1>7. rules' \in {chain', rules, <<>>} /\ unsaved' = (rules' # chain')
  BY DEF Unblock
<1> QED
  BY <1>1, <1>3, <1>5, <1>6, <1>7

(* Every action keeps the types. *)
LEMMA TypeStep == TypeOK /\ [Next]_vars => TypeOK'
<1> SUFFICES ASSUME TypeOK, [Next]_vars PROVE TypeOK'
  OBVIOUS
<1>0. events' \in 0..MaxEvents
  <2>1. UNCHANGED events \/ Event
    BY ZenonT(60) DEF Next, Host, Step, Attack, PassTime, Kill, Reboot, Unblock, Begin, List, Skip, Raise,
           Block, Dump, Write, Persist, EndBlocking, Dispatch, Save, Works, Fails, vars
  <2> QED
    BY <2>1, NumberAssumption DEF Event, TypeOK
<1>1. Idle \in Progress
  BY DEF Idle, Progress, PC
<1>2. ASSUME NEW P \in SUBSET Proc, Abandon(P)
      PROVE  /\ run' \in [Proc -> Progress] /\ orphaned' \subseteq Subnet
             /\ unsaved' \in BOOLEAN
  <2>1. run' \in [Proc -> Progress]
    BY <1>1, <1>2 DEF Abandon, TypeOK
  <2>2. \A p \in P : run[p].alerts \subseteq Subnet
    BY DEF TypeOK, Progress
  <2> QED
    BY <1>2, <2>1, <2>2 DEF Abandon, TypeOK
<1>3. ASSUME NEW p \in Proc, NEW r \in Progress, run' = [run EXCEPT ![p] = r]
      PROVE  run' \in [Proc -> Progress]
  BY <1>3 DEF TypeOK
<1>4. ASSUME NEW p \in Proc, NEW to \in PC, Goto(p, to)
      PROVE  run' \in [Proc -> Progress]
  BY <1>4 DEF Goto, TypeOK, Progress
<1>5. \A s \in Seq(Subnet), v \in Subnet : Append(s, v) \in Seq(Subnet)
  BY Appended
<1> USE <1>0 DEF TypeOK
<1>6. ASSUME NEW a \in Source, Attack(a) PROVE TypeOK'
  BY <1>6, NumberAssumption DEF Attack
<1>7. CASE PassTime
  BY <1>7, NumberAssumption DEF PassTime
<1>8. ASSUME NEW p \in Proc, Kill(p) PROVE TypeOK'
  <2>1. {p} \in SUBSET Proc /\ <<>> \in Seq(Subnet) /\ Abandon({p})
    BY <1>8 DEF Kill
  <2>2. run' \in [Proc -> Progress] /\ orphaned' \subseteq Subnet /\ unsaved' \in BOOLEAN
    BY <1>2, <2>1
  <2> QED
    BY <1>8, <2>1, <2>2 DEF Kill
<1>9. CASE Reboot
  BY <1>2, <1>9 DEF Reboot
<1>10. CASE Unblock
  BY <1>10, Unblocked DEF Unblock
<1>11. ASSUME NEW p \in Proc, Begin(p) PROVE TypeOK'
  BY <1>4, <1>11 DEF Begin, PC
<1>12. ASSUME NEW p \in Proc, List(p) PROVE TypeOK'
  <2>1. Blocked \subseteq Subnet
    BY DEF Blocked, Range
  <2>2. "block" \in PC /\ {s \in Subnet : Triggered(s)} \subseteq Subnet
    BY DEF PC, Busy
  <2>3. PICK journal \in BOOLEAN, listing \in BOOLEAN :
          run' = [run EXCEPT ![p] =
            [@ EXCEPT !.pc = "block",
                      !.todo = IF journal THEN {s \in Subnet : Triggered(s)} ELSE {},
                      !.blocked = IF listing THEN Blocked ELSE {},
                      !.unseen = IF listing THEN {} ELSE Subnet]]
    BY <1>12 DEF List
  <2> DEFINE todo    == IF journal THEN {s \in Subnet : Triggered(s)} ELSE {}
             blocked == IF listing THEN Blocked ELSE {}
             unseen  == IF listing THEN {} ELSE Subnet
  <2>4. todo \in SUBSET Subnet /\ blocked \in SUBSET Subnet /\ unseen \in SUBSET Subnet
    BY <2>1, <2>2
  <2> HIDE DEF todo, blocked, unseen
  <2>5. run' = [run EXCEPT ![p] = [@ EXCEPT !.pc = "block", !.todo = todo,
                                            !.blocked = blocked, !.unseen = unseen]]
    BY <2>3 DEF todo, blocked, unseen
  <2>6. run' \in [Proc -> Progress]
    BY <2>2, <2>4, <2>5, ZenonT(60) DEF Progress
  <2> QED
    BY <1>12, <2>6 DEF List
<1>13. ASSUME NEW p \in Proc, NEW s \in Subnet, Skip(p, s) PROVE TypeOK'
  BY <1>13, ZenonT(60) DEF Skip, Progress
<1>14. ASSUME NEW p \in Proc, NEW s \in Subnet, Raise(p, s) PROVE TypeOK'
  BY <1>2, <1>14 DEF Raise
<1>15. ASSUME NEW p \in Proc, NEW s \in Subnet, Block(p, s) PROVE TypeOK'
  <2>1. Added(p, s) \in Progress
    BY DEF Added, Progress, PC, Busy, Saving
  <2>2. \A q \in Proc : [run[q] EXCEPT !.unseen = @ \cup {s}] \in Progress
    BY DEF Progress
  <2>3. [run[p] EXCEPT !.todo = @ \ {s}] \in Progress
    BY DEF Progress
  <2>4. run' \in [Proc -> Progress]
    BY <1>15, <2>1, <2>2, <2>3 DEF Block
  <2>5. chain' \in Seq(Subnet) /\ raced' \subseteq Subnet
    BY <1>5, <1>15 DEF Block
  <2> QED
    BY <1>15, <2>4, <2>5 DEF Block
<1>16. ASSUME NEW p \in Proc, Dump(p) PROVE TypeOK'
  <2>1. {"write", "persist"} \subseteq PC
    BY DEF PC, Busy, Saving
  <2>2. CASE run' = [run EXCEPT ![p].pc = "write", ![p].dump = chain] /\ UNCHANGED unsaved
    <3>1. run' \in [Proc -> Progress]
      BY <2>1, <2>2, ZenonT(60) DEF Progress
    <3> QED
      BY <1>16, <2>2, <3>1 DEF Dump
  <2>3. CASE Goto(p, "persist") /\ unsaved'
    BY <1>4, <1>16, <2>1, <2>3 DEF Dump
  <2> QED
    BY <1>16, <2>2, <2>3 DEF Dump
<1>17. ASSUME NEW p \in Proc, Write(p) PROVE TypeOK'
  <2>1. "persist" \in PC /\ <<>> \in Seq(Subnet)
    BY DEF PC, Busy, Saving
  <2>2. run' \in [Proc -> Progress] /\ rules' \in Seq(Subnet)
    BY <1>17, <2>1, ZenonT(60) DEF Write, Progress
  <2> QED
    BY <1>17, <2>2 DEF Write
<1>18. ASSUME NEW p \in Proc, Persist(p) PROVE TypeOK'
  <2>1. "block" \in PC
    BY DEF PC, Busy
  <2>2. run' \in [Proc -> Progress]
    BY <1>4, <1>18, <2>1 DEF Persist
  <2> QED
    BY <1>18, <2>2 DEF Persist
<1>19. ASSUME NEW p \in Proc, EndBlocking(p) PROVE TypeOK'
  <2>1. [Idle EXCEPT !.pc = "dispatch", !.alerts = run[p].alerts, !.checked = TRUE] \in Progress
    BY <1>1 DEF Progress, PC
  <2> QED
    BY <1>3, <1>19, <2>1 DEF EndBlocking
<1>20. ASSUME NEW p \in Proc, Dispatch(p) PROVE TypeOK'
  <2>1. "save" \in PC
    BY DEF PC
  <2>2. run[p].alerts \subseteq Subnet
    BY DEF Progress
  <2>3. run' \in [Proc -> Progress]
    BY <1>20, <2>1, ZenonT(60) DEF Dispatch, Progress
  <2> QED
    BY <1>20, <2>2, <2>3 DEF Dispatch
<1>21. ASSUME NEW p \in Proc, Save(p) PROVE TypeOK'
  BY <1>1, <1>3, <1>21 DEF Save
<1>22. CASE UNCHANGED vars
  BY <1>22 DEF vars
<1> QED
  BY <1>6, <1>7, <1>8, <1>9, <1>10, <1>11, <1>12, <1>13, <1>14, <1>15, <1>16, <1>17, <1>18,
     <1>19, <1>20, <1>21, <1>22 DEF Next, Host, Step

-----------------------------------------------------------------------------
(* What the steps of a run change in it *)

Others(p) == \A q \in Proc \ {p} : run'[q] = run[q]

(* A run that only goes on. *)
LEMMA GotoEffect ==
  ASSUME TypeOK, NEW p \in Proc, NEW to, Goto(p, to)
  PROVE  /\ run'[p].pc = to /\ Others(p)
         /\ run'[p].alerts = run[p].alerts /\ run'[p].dump = run[p].dump
         /\ run'[p].blocked = run[p].blocked /\ run'[p].unseen = run[p].unseen
BY DEF TypeOK, Progress, Goto, Others

(* A run that asks iptables-save. *)
LEMMA DumpEffect ==
  ASSUME TypeOK, NEW p \in Proc, Dump(p)
  PROVE  /\ run'[p].alerts = run[p].alerts /\ run'[p].blocked = run[p].blocked
         /\ run'[p].unseen = run[p].unseen /\ Others(p)
         /\ \/ run'[p].pc = "write" /\ run'[p].dump = chain /\ UNCHANGED unsaved
            \/ run'[p].pc = "persist" /\ run'[p].dump = run[p].dump /\ unsaved'
<1>1. CASE Goto(p, "persist") /\ unsaved' = TRUE
  BY <1>1, GotoEffect
<1>2. CASE run' = [run EXCEPT ![p].pc = "write", ![p].dump = chain] /\ UNCHANGED unsaved
  BY <1>2 DEF TypeOK, Progress, Others
<1> QED
  BY <1>1, <1>2 DEF Dump

(* A run that adds a rule, and the others, which do not see it. *)
LEMMA BlockEffect ==
  ASSUME TypeOK, NEW p \in Proc, NEW s \in Subnet, Block(p, s)
  PROVE  /\ run[p].pc = "block" /\ s \notin run[p].blocked
         /\ run'[p].pc \in {"block", "dump"}
         /\ run'[p].dump = run[p].dump /\ run'[p].unseen = run[p].unseen
         /\ run[p].alerts \subseteq run'[p].alerts /\ run[p].blocked \subseteq run'[p].blocked
         /\ \A q \in Proc \ {p} :
              /\ run'[q].pc = run[q].pc /\ run'[q].alerts = run[q].alerts
              /\ run'[q].dump = run[q].dump /\ run'[q].blocked = run[q].blocked
              /\ run[q].unseen \subseteq run'[q].unseen
         /\ \/ UNCHANGED <<chain, raced>>
            \/ /\ chain' = Append(chain, s) /\ raced' = raced \cup (run[p].unseen \cap {s})
               /\ s \in run'[p].alerts /\ s \in run'[p].blocked
               /\ run'[p].pc = "dump"
               /\ \A q \in Proc \ {p} : run[q].pc \in Busy => s \in run'[q].unseen
         /\ run'[p].pc = "block" => UNCHANGED chain
<1>1. \A q \in Proc : run[q] \in Progress
  BY DEF TypeOK
<1>2. /\ Added(p, s).pc = "dump" /\ Added(p, s).dump = run[p].dump
      /\ Added(p, s).unseen = run[p].unseen
      /\ Added(p, s).alerts = run[p].alerts \cup {s}
      /\ Added(p, s).blocked = run[p].blocked \cup {s}
  BY <1>1 DEF Added, Progress
<1>3. run[p].pc = "block" /\ s \notin run[p].blocked
  BY DEF Block
<1>4. CASE /\ chain' = Append(chain, s)
           /\ run' = [q \in Proc |->
                IF q = p THEN Added(p, s)
                ELSE IF run[q].pc \in Busy THEN [run[q] EXCEPT !.unseen = @ \cup {s}]
                ELSE run[q]]
           /\ raced' = raced \cup (run[p].unseen \cap {s})
  <2>1. run'[p] = Added(p, s)
    BY <1>4
  <2>2. ASSUME NEW q \in Proc \ {p}
        PROVE  /\ run'[q].pc = run[q].pc /\ run'[q].alerts = run[q].alerts
               /\ run'[q].dump = run[q].dump /\ run'[q].blocked = run[q].blocked
               /\ run[q].unseen \subseteq run'[q].unseen
               /\ run[q].pc \in Busy => s \in run'[q].unseen
    <3>1. run'[q] = IF run[q].pc \in Busy THEN [run[q] EXCEPT !.unseen = @ \cup {s}]
                    ELSE run[q]
      BY <1>4
    <3> QED
      BY <1>1, <3>1 DEF Progress
  <2> QED
    BY <1>2, <1>3, <1>4, <2>1, <2>2
<1>5. CASE run' = [run EXCEPT ![p] = Added(p, s)] /\ UNCHANGED <<chain, raced>>
  <2>1. run'[p] = Added(p, s) /\ \A q \in Proc \ {p} : run'[q] = run[q]
    BY <1>5 DEF TypeOK
  <2> QED
    BY <1>2, <1>3, <1>5, <2>1
<1>6. CASE run' = [run EXCEPT ![p].todo = @ \ {s}] /\ UNCHANGED <<chain, raced>>
  <2>1. /\ run'[p].pc = run[p].pc /\ run'[p].dump = run[p].dump
        /\ run'[p].unseen = run[p].unseen /\ run'[p].alerts = run[p].alerts
        /\ run'[p].blocked = run[p].blocked
        /\ \A q \in Proc \ {p} : run'[q] = run[q]
    BY <1>1, <1>6 DEF TypeOK, Progress
  <2> QED
    BY <1>3, <1>6, <2>1
<1> QED
  BY <1>4, <1>5, <1>6 DEF Block

-----------------------------------------------------------------------------
(* Where rules and alerts go *)

(* A run has something to report from its first rule to its dispatch. *)
LEMMA ReportedStep == TypeOK /\ ReportedInv /\ [Next]_vars => ReportedInv'
<1> SUFFICES ASSUME TypeOK, ReportedInv, [Next]_vars PROVE ReportedInv'
  OBVIOUS
<1> USE DEF ReportedInv, Goto
<1>1. \A p \in Proc : run[p] \in Progress
  BY DEF TypeOK
<1>2. ASSUME NEW P, Abandon(P) PROVE ReportedInv'
  BY <1>2 DEF Abandon, Idle
<1>3. ASSUME NEW a \in Source, Attack(a) PROVE ReportedInv'
  BY <1>3 DEF Attack
<1>4. CASE PassTime \/ Unblock
  BY <1>4 DEF PassTime, Unblock
<1>5. ASSUME NEW p \in Proc, Kill(p) PROVE ReportedInv'
  BY <1>2, <1>5 DEF Kill
<1>6. CASE Reboot
  BY <1>2, <1>6 DEF Reboot
<1>7. ASSUME NEW p \in Proc, Begin(p) PROVE ReportedInv'
  BY <1>7, GotoEffect DEF Begin, Others
<1>8. ASSUME NEW p \in Proc, List(p) PROVE ReportedInv'
  <2>1. run'[p].pc = "block" /\ \A q \in Proc \ {p} : run'[q] = run[q]
    BY <1>8 DEF List, TypeOK, Progress
  <2> QED
    BY <2>1
<1>9. ASSUME NEW p \in Proc, NEW s \in Subnet, Skip(p, s) PROVE ReportedInv'
  BY <1>1, <1>9 DEF Skip, TypeOK, Progress
<1>10. ASSUME NEW p \in Proc, NEW s \in Subnet, Raise(p, s) PROVE ReportedInv'
  BY <1>2, <1>10 DEF Raise
<1>11. ASSUME NEW p \in Proc, NEW s \in Subnet, Block(p, s) PROVE ReportedInv'
  BY <1>11, BlockEffect
<1>12. ASSUME NEW p \in Proc, Dump(p) PROVE ReportedInv'
  BY <1>12, DumpEffect DEF Others
<1>13. ASSUME NEW p \in Proc, Write(p) PROVE ReportedInv'
  BY <1>1, <1>13 DEF Write, TypeOK, Progress
<1>14. ASSUME NEW p \in Proc, Persist(p) PROVE ReportedInv'
  BY <1>1, <1>14 DEF Persist, TypeOK, Progress
<1>15. ASSUME NEW p \in Proc, EndBlocking(p) PROVE ReportedInv'
  BY <1>1, <1>15 DEF EndBlocking, Idle, TypeOK, Progress
<1>16. ASSUME NEW p \in Proc, Dispatch(p) PROVE ReportedInv'
  BY <1>1, <1>16 DEF Dispatch, TypeOK, Progress
<1>17. ASSUME NEW p \in Proc, Save(p) PROVE ReportedInv'
  BY <1>1, <1>17 DEF Save, Idle, TypeOK
<1>18. CASE UNCHANGED vars
  BY <1>18 DEF vars
<1> QED
  BY <1>3, <1>4, <1>5, <1>6, <1>7, <1>8, <1>9, <1>10, <1>11, <1>12, <1>13, <1>14, <1>15, <1>16,
     <1>17, <1>18 DEF Next, Host, Step

(* What a step does: alerts are announced or orphaned before they are      *)
(* dropped; a dump is one of the chain; the file gets the chain or a dump; *)
(* a rule comes into the chain from the file or with an alert.             *)
Flow ==
  /\ announced \subseteq announced' /\ orphaned \subseteq orphaned' /\ raced \subseteq raced'
  /\ \A p \in Proc : /\ run[p].alerts \subseteq run'[p].alerts \cup announced' \cup orphaned'
                     /\ run'[p].dump \in {run[p].dump, <<>>, chain}
  /\ rules' \in {rules, <<>>, chain'} \cup {run[p].dump : p \in Proc}
  /\ \/ chain' \in {chain, <<>>, rules}
     \/ \E n \in DOMAIN chain : chain' = RemoveAt(chain, n)
     \/ \E p \in Proc, s \in Subnet :
          Block(p, s) /\ chain' = Append(chain, s) /\ s \in run'[p].alerts

(* Every step does no more. *)
LEMMA FlowStep == TypeOK /\ ReportedInv /\ [Next]_vars => Flow
<1> SUFFICES ASSUME TypeOK, ReportedInv, [Next]_vars PROVE Flow
  OBVIOUS
<1> USE DEF Flow, Goto
<1>1. \A p \in Proc : run[p] \in Progress
  BY DEF TypeOK
<1>2. ASSUME NEW P, Abandon(P)
      PROVE  /\ orphaned \subseteq orphaned'
             /\ \A p \in Proc : /\ run[p].alerts \subseteq run'[p].alerts \cup orphaned'
                                /\ run'[p].dump \in {run[p].dump, <<>>, chain}
  <2>1. \A p \in P : run[p].alerts \subseteq orphaned'
    BY <1>2 DEF Abandon
  <2>2. \A p \in Proc : run'[p] = IF p \in P THEN Idle ELSE run[p]
    BY <1>2 DEF Abandon
  <2>3. Idle.dump = <<>>
    BY DEF Idle
  <2> QED
    BY <1>2, <2>1, <2>2, <2>3 DEF Abandon
<1>3. ASSUME NEW a \in Source, Attack(a) PROVE Flow
  BY <1>3 DEF Attack
<1>4. CASE PassTime
  BY <1>4 DEF PassTime
<1>5. CASE Unblock
  BY <1>5, Unblocked DEF Unblock
<1>6. ASSUME NEW p \in Proc, Kill(p) PROVE Flow
  BY <1>2, <1>6 DEF Kill
<1>7. CASE Reboot
  BY <1>2, <1>7 DEF Reboot
<1>8. ASSUME NEW p \in Proc, Begin(p) PROVE Flow
  BY <1>8, GotoEffect DEF Begin, Others
<1>9. ASSUME NEW p \in Proc, List(p) PROVE Flow
  <2>1. run'[p].alerts = run[p].alerts /\ run'[p].dump = run[p].dump
    BY <1>1, <1>9 DEF List, TypeOK, Progress
  <2>2. \A q \in Proc \ {p} : run'[q] = run[q]
    BY <1>1, <1>9 DEF List, TypeOK
  <2> QED
    BY <1>9, <2>1, <2>2 DEF List
<1>10. ASSUME NEW p \in Proc, NEW s \in Subnet, Skip(p, s) PROVE Flow
  BY <1>1, <1>10 DEF Skip, TypeOK, Progress
<1>11. ASSUME NEW p \in Proc, NEW s \in Subnet, Raise(p, s) PROVE Flow
  BY <1>2, <1>11 DEF Raise
<1>12. ASSUME NEW p \in Proc, NEW s \in Subnet, Block(p, s) PROVE Flow
  BY <1>12, BlockEffect DEF Block
<1>13. ASSUME NEW p \in Proc, Dump(p) PROVE Flow
  BY <1>13, DumpEffect DEF Dump, Others
<1>14. ASSUME NEW p \in Proc, Write(p) PROVE Flow
  BY <1>1, <1>14 DEF Write, TypeOK, Progress
<1>15. ASSUME NEW p \in Proc, Persist(p) PROVE Flow
  BY <1>1, <1>15 DEF Persist, TypeOK, Progress
<1>16. ASSUME NEW p \in Proc, EndBlocking(p) PROVE Flow
  BY <1>1, <1>16 DEF EndBlocking, Idle, TypeOK, Progress
<1>17. ASSUME NEW p \in Proc, Dispatch(p) PROVE Flow
  BY <1>1, <1>17 DEF Dispatch, TypeOK, Progress
<1>18. ASSUME NEW p \in Proc, Save(p) PROVE Flow
  BY <1>1, <1>18 DEF Save, Idle, TypeOK, ReportedInv
<1>19. CASE UNCHANGED vars
  BY <1>19 DEF vars
<1> QED
  BY <1>3, <1>4, <1>5, <1>6, <1>7, <1>8, <1>9, <1>10, <1>11, <1>12, <1>13, <1>14, <1>15, <1>16,
     <1>17, <1>18, <1>19 DEF Next, Host, Step

-----------------------------------------------------------------------------
(* The invariant *)

IInv == ReportedInv /\ SilentInv /\ RaceInv /\ BootInv

(* It holds initially. *)
LEMMA InvInit == Init => IInv
<1> SUFFICES ASSUME Init PROVE IInv
  OBVIOUS
<1>1. chain = <<>> /\ rules = <<>> /\ \A p \in Proc : run[p] = Idle
  BY DEF Init
<1>2. DOMAIN <<>> = {} /\ Range(<<>>) = {}
  BY DEF Range
<1>3. Idle.pc = "idle" /\ Idle.alerts = {} /\ Idle.dump = <<>> /\ "idle" \notin Busy
  BY DEF Idle, Busy, Saving
<1> QED
  BY <1>1, <1>2, <1>3
     DEF IInv, ReportedInv, SilentInv, RaceInv, KnownInv, DoubledIn, BootInv

(* The sequences that a step can leave are of subnets told of. *)
LEMMA SilentStep == TypeOK /\ ReportedInv /\ SilentInv /\ [Next]_vars => SilentInv'
<1> SUFFICES ASSUME TypeOK, SilentInv, Flow PROVE SilentInv'
  BY FlowStep
<1>1. Told \subseteq Told'
  <2>1. \A p \in Proc : run[p].alerts \subseteq Told'
    BY DEF Flow, Told
  <2> QED
    BY <2>1 DEF Flow, Told
<1>2. Range(<<>>) = {}
  BY DEF Range
<1>3. chain \in Seq(Subnet)
  BY DEF TypeOK
<1>4. \A n \in DOMAIN chain : Range(RemoveAt(chain, n)) \subseteq Range(chain)
  BY <1>3, RemovedRange
<1>5. \A s \in Subnet : Range(Append(chain, s)) = Range(chain) \cup {s}
  BY <1>3, Appended
<1>6. Range(chain') \subseteq Told'
  <2>1. CASE chain' \in {chain, <<>>, rules}
    BY <1>1, <1>2, <2>1 DEF SilentInv
  <2>2. CASE \E n \in DOMAIN chain : chain' = RemoveAt(chain, n)
    BY <1>1, <1>4, <2>2 DEF SilentInv
  <2>3. CASE \E p \in Proc, s \in Subnet : chain' = Append(chain, s) /\ s \in run'[p].alerts
    <3>1. PICK p \in Proc, s \in Subnet : chain' = Append(chain, s) /\ s \in run'[p].alerts
      BY <2>3
    <3>2. s \in Told'
      BY <3>1 DEF Told
    <3> QED
      BY <1>1, <1>5, <3>1, <3>2 DEF SilentInv
  <2> QED
    BY <2>1, <2>2, <2>3 DEF Flow
<1>7. Range(rules') \subseteq Told'
  BY <1>1, <1>2, <1>6 DEF Flow, SilentInv
<1>8. \A p \in Proc : Range(run'[p].dump) \subseteq Told'
  BY <1>1, <1>2 DEF Flow, SilentInv
<1> QED
  BY <1>6, <1>7, <1>8 DEF SilentInv

(* A run that blocks goes on to know the chain: it listed it, it added the *)
(* rule itself, or the rule counts as hidden from it.                      *)
LEMMA KnownStep == TypeOK /\ KnownInv /\ [Next]_vars => KnownInv'
<1> SUFFICES ASSUME TypeOK, KnownInv, [Next]_vars PROVE KnownInv'
  OBVIOUS
<1> USE DEF KnownInv, Goto
<1>0. "idle" \notin Busy /\ "list" \notin Busy /\ "dispatch" \notin Busy /\ "save" \notin Busy
      /\ {"block", "dump", "write", "persist"} \subseteq Busy
  BY DEF Busy, Saving
<1>1. chain \in Seq(Subnet) /\ \A p \in Proc : run[p] \in Progress
  BY DEF TypeOK
<1>2. ASSUME NEW P, Abandon(P) PROVE \A q \in Proc : run'[q].pc \in Busy => run'[q] = run[q]
  BY <1>0, <1>2 DEF Abandon, Idle
<1>3. ASSUME NEW a \in Source, Attack(a) PROVE KnownInv'
  BY <1>3 DEF Attack
<1>4. CASE PassTime
  BY <1>4 DEF PassTime
<1>5. CASE Unblock
  <2>1. Range(chain') \subseteq Range(chain)
    <3>1. Range(<<>>) = {}
      BY DEF Range
    <3> QED
      BY <1>1, <1>5, <3>1, Unblocked, RemovedRange
  <2> QED
    BY <1>5, <2>1 DEF Unblock
<1>6. ASSUME NEW p \in Proc, Kill(p) PROVE KnownInv'
  BY <1>2, <1>6 DEF Kill
<1>7. CASE Reboot
  <2>1. \A q \in Proc : run'[q].pc \notin Busy
    BY <1>0, <1>7 DEF Reboot, Abandon, Idle
  <2> QED
    BY <2>1
<1>8. ASSUME NEW p \in Proc, Begin(p) PROVE KnownInv'
  <2>1. UNCHANGED chain /\ (Goto(p, "list") \/ Goto(p, "dispatch"))
    BY <1>8 DEF Begin
  <2> QED
    BY <1>0, <2>1, GotoEffect DEF Others
<1>9. ASSUME NEW p \in Proc, List(p) PROVE KnownInv'
  <2>1. UNCHANGED chain /\ \A q \in Proc \ {p} : run'[q] = run[q]
    BY <1>9 DEF List, TypeOK
  <2>2. Range(chain) \subseteq Subnet
    BY <1>1 DEF Range
  <2>3. run'[p].blocked = Range(chain) \/ run'[p].unseen = Subnet
    BY <1>1, <1>9 DEF List, Blocked, TypeOK, Progress
  <2> QED
    BY <2>1, <2>2, <2>3
<1>10. ASSUME NEW p \in Proc, NEW s \in Subnet, Skip(p, s) PROVE KnownInv'
  BY <1>1, <1>10 DEF Skip, TypeOK, Progress
<1>11. ASSUME NEW p \in Proc, NEW s \in Subnet, Raise(p, s) PROVE KnownInv'
  BY <1>2, <1>11 DEF Raise
<1>12. ASSUME NEW p \in Proc, NEW s \in Subnet, Block(p, s) PROVE KnownInv'
  <2>1. /\ run[p].pc \in Busy /\ Range(chain') \subseteq Range(chain) \cup {s}
    <3>1. run[p].pc \in Busy /\ (chain' = chain \/ chain' = Append(chain, s))
      BY <1>0, <1>12, BlockEffect
    <3>2. Range(Append(chain, s)) = Range(chain) \cup {s}
      BY <1>1, Appended
    <3> QED
      BY <3>1, <3>2
  <2>2. CASE UNCHANGED chain
    BY <1>12, <2>1, <2>2, BlockEffect
  <2>3. CASE ~UNCHANGED chain
    BY <1>12, <2>1, <2>3, BlockEffect
  <2> QED
    BY <2>2, <2>3
<1>13. ASSUME NEW p \in Proc, Dump(p) PROVE KnownInv'
  <2>1. UNCHANGED chain /\ run[p].pc \in Busy
    BY <1>0, <1>13 DEF Dump
  <2> QED
    BY <1>13, <2>1, DumpEffect DEF Others
<1>14. ASSUME NEW p \in Proc, Write(p) PROVE KnownInv'
  BY <1>0, <1>1, <1>14 DEF Write, TypeOK, Progress
<1>15. ASSUME NEW p \in Proc, Persist(p) PROVE KnownInv'
  <2>1. UNCHANGED chain /\ run[p].pc \in Busy /\ Goto(p, "block")
    BY <1>0, <1>15 DEF Persist
  <2> QED
    BY <2>1, GotoEffect DEF Others
<1>16. ASSUME NEW p \in Proc, EndBlocking(p) \/ Dispatch(p) \/ Save(p) PROVE KnownInv'
  <2>1. /\ run'[p].pc \notin Busy /\ UNCHANGED chain
        /\ \A q \in Proc \ {p} : run'[q] = run[q]
    <3>1. EndBlocking(p) => run'[p].pc = "dispatch"
      BY DEF EndBlocking, Idle, TypeOK
    <3>2. Dispatch(p) => run'[p].pc = "save"
      BY <1>1 DEF Dispatch, TypeOK, Progress
    <3>3. Save(p) => run'[p].pc = "idle"
      BY DEF Save, Idle, TypeOK
    <3> QED
      BY <1>0, <1>16, <3>1, <3>2, <3>3 DEF EndBlocking, Dispatch, Save, TypeOK
  <2> QED
    BY <2>1
<1>17. CASE UNCHANGED vars
  BY <1>17 DEF vars
<1> QED
  BY <1>3, <1>4, <1>5, <1>6, <1>7, <1>8, <1>9, <1>10, <1>11, <1>12, <1>13, <1>14, <1>15, <1>16,
     <1>17 DEF Next, Host, Step

(* Rules are doubled only by a run that could not see the first one. *)
LEMMA RaceStep == TypeOK /\ ReportedInv /\ RaceInv /\ [Next]_vars => RaceInv'
<1> SUFFICES ASSUME TypeOK, RaceInv, [Next]_vars, Flow PROVE RaceInv'
  BY FlowStep
<1>1. raced \subseteq raced' /\ chain \in Seq(Subnet)
  BY DEF Flow, TypeOK
<1>2. DoubledIn(<<>>, raced')
  BY DEF DoubledIn
<1>3. DoubledIn(chain, raced') /\ DoubledIn(rules, raced')
      /\ \A p \in Proc : DoubledIn(run[p].dump, raced')
  BY <1>1 DEF RaceInv, DoubledIn
<1>4. ASSUME NEW n \in DOMAIN chain PROVE DoubledIn(RemoveAt(chain, n), raced')
  <2> SUFFICES ASSUME NEW i \in DOMAIN RemoveAt(chain, n), NEW j \in DOMAIN RemoveAt(chain, n),
                      i # j, RemoveAt(chain, n)[i] = RemoveAt(chain, n)[j]
               PROVE  RemoveAt(chain, n)[i] \in raced'
    BY DEF DoubledIn
  <2> DEFINE before(k) == IF k < n THEN k ELSE k + 1
  <2>1. /\ i \in 1..(Len(chain) - 1) /\ RemoveAt(chain, n)[i] = chain[before(i)]
        /\ j \in 1..(Len(chain) - 1) /\ RemoveAt(chain, n)[j] = chain[before(j)]
    BY <1>1, Removed
  <2>2. before(i) \in DOMAIN chain /\ before(j) \in DOMAIN chain /\ before(i) # before(j)
    BY <1>1, <1>4, <2>1
  <2> QED
    BY <1>3, <2>1, <2>2 DEF DoubledIn
<1>5. ASSUME NEW p \in Proc, NEW s \in Subnet, Block(p, s), chain' = Append(chain, s)
      PROVE  DoubledIn(chain', raced')
  <2>1. chain' # chain
    BY <1>1, <1>5
  <2>2. /\ run[p].pc \in Busy /\ s \notin run[p].blocked
        /\ raced' = raced \cup (run[p].unseen \cap {s})
    BY <1>5, <2>1, BlockEffect DEF Busy
  <2>3. s \in Range(chain) => s \in raced'
    BY <2>2 DEF RaceInv, KnownInv
  <2>4. \A i \in DOMAIN chain : chain[i] = s => s \in raced'
    BY <2>3 DEF Range
  <2>5. /\ DOMAIN chain' = DOMAIN chain \cup {Len(chain) + 1}
        /\ \A i \in DOMAIN chain : chain'[i] = chain[i]
        /\ chain'[Len(chain) + 1] = s
    BY <1>1, <1>5, Appended
  <2> QED
    BY <1>3, <2>4, <2>5 DEF DoubledIn
<1>6. DoubledIn(chain', raced')
  BY <1>2, <1>3, <1>4, <1>5 DEF Flow
<1>7. DoubledIn(rules', raced') /\ \A p \in Proc : DoubledIn(run'[p].dump, raced')
  BY <1>2, <1>3, <1>6 DEF Flow
<1> QED
  BY <1>6, <1>7, KnownStep DEF RaceInv

(* Where netfilter-persistent is installed only a run that is saving, or   *)
(* one that failed to, keeps the file from being the chain.                *)
LEMMA BootStep == TypeOK /\ BootInv /\ [Next]_vars => BootInv'
<1> SUFFICES ASSUME TypeOK, BootInv, [Next]_vars, Netfilter, ~unsaved'
             PROVE  rules' = chain' \/ \E p \in Proc : run'[p].pc \in Saving
  BY DEF BootInv
<1> USE DEF BootInv, Goto, Saving
<1>1. ASSUME NEW P, Abandon(P), ~unsaved
      PROVE  \A q \in Proc : run[q].pc \in Saving => q \notin P /\ run'[q] = run[q]
  BY <1>1 DEF Abandon
<1>2. ASSUME NEW P, Abandon(P) PROVE ~unsaved
  BY <1>2 DEF Abandon
<1>3. ASSUME NEW a \in Source, Attack(a) PROVE BootInv'
  BY <1>3 DEF Attack
<1>4. CASE PassTime \/ Unblock
  BY <1>4 DEF PassTime, Unblock
<1>5. ASSUME NEW p \in Proc, Kill(p) PROVE BootInv'
  <2>1. Abandon({p}) /\ UNCHANGED chain /\ (run[p].pc = "write" \/ UNCHANGED rules)
    BY <1>5 DEF Kill
  <2>2. run[p].pc \notin Saving
    BY <1>1, <1>2, <2>1
  <2> QED
    BY <1>1, <1>2, <2>1, <2>2
<1>6. CASE Reboot
  BY <1>6 DEF Reboot
<1>7. ASSUME NEW p \in Proc, Begin(p) PROVE BootInv'
  BY <1>7, GotoEffect DEF Begin, Others
<1>8. ASSUME NEW p \in Proc, List(p) PROVE BootInv'
  <2>1. run[p].pc = "list" /\ \A q \in Proc \ {p} : run'[q] = run[q]
    BY <1>8 DEF List, TypeOK
  <2> QED
    BY <1>8, <2>1 DEF List
<1>9. ASSUME NEW p \in Proc, NEW s \in Subnet, Skip(p, s) PROVE BootInv'
  BY <1>9 DEF Skip, TypeOK
<1>10. ASSUME NEW p \in Proc, NEW s \in Subnet, Raise(p, s) PROVE BootInv'
  BY <1>1, <1>2, <1>10 DEF Raise
<1>11. ASSUME NEW p \in Proc, NEW s \in Subnet, Block(p, s) PROVE BootInv'
  <2>1. UNCHANGED <<rules, unsaved>>
    BY <1>11 DEF Block
  <2> QED
    BY <1>11, <2>1, BlockEffect
<1>12. ASSUME NEW p \in Proc, Dump(p) PROVE BootInv'
  BY <1>12, DumpEffect
<1>13. ASSUME NEW p \in Proc, Write(p) PROVE BootInv'
  <2>1. run'[p].pc = "persist"
    BY <1>13 DEF Write, TypeOK, Progress
  <2> QED
    BY <2>1
<1>14. ASSUME NEW p \in Proc, Persist(p) PROVE BootInv'
  BY <1>14 DEF Persist
<1>15. ASSUME NEW p \in Proc, EndBlocking(p) \/ Dispatch(p) \/ Save(p) PROVE BootInv'
  <2>1. /\ run[p].pc \notin Saving /\ UNCHANGED <<chain, rules, unsaved>>
        /\ \A q \in Proc \ {p} : run'[q] = run[q]
    BY <1>15 DEF EndBlocking, Dispatch, Save, TypeOK
  <2> QED
    BY <2>1
<1>16. CASE UNCHANGED vars
  BY <1>16 DEF vars
<1> QED
  BY <1>3, <1>4, <1>5, <1>6, <1>7, <1>8, <1>9, <1>10, <1>11, <1>12, <1>13, <1>14, <1>15, <1>16
     DEF Next, Host, Step

-----------------------------------------------------------------------------
(* The theorems *)

(* Every behaviour of the blocker is well typed. *)
THEOREM TypeCorrect == Spec => []TypeOK
  BY TypeInit, TypeStep, PTL DEF Spec

(* The invariant holds in every reachable state. *)
LEMMA Invariant == Spec => [](TypeOK /\ IInv)
<1>1. Init => TypeOK /\ IInv
  BY TypeInit, InvInit
<1>2. (TypeOK /\ IInv) /\ [Next]_vars => (TypeOK /\ IInv)'
  BY TypeStep, ReportedStep, SilentStep, RaceStep, BootStep DEF IInv
<1> QED
  BY <1>1, <1>2, PTL DEF Spec

(* botnet.py with modes/tick.py and modes/detect_botnet.py: a subnet that  *)
(* is dropped, now or after the next boot, was reported, is going to be,   *)
(* or was blocked by a run that died.                                      *)
THEOREM BlocksReported == Spec => []SilentOnlyByDeath
<1>1. TypeOK /\ IInv => SilentOnlyByDeath
  BY DEF IInv, SilentInv, Told, SilentOnlyByDeath
<1> QED
  BY <1>1, Invariant, PTL

(* botnet.py:100: a rule is in the chain twice only if another run added   *)
(* it unseen, or a listing had failed.                                     *)
THEOREM DoublesRaced == Spec => []TwiceOnlyByRace
<1>1. TypeOK /\ IInv => TwiceOnlyByRace
  BY DEF IInv, RaceInv, DoubledIn, TwiceOnlyByRace
<1> QED
  BY <1>1, Invariant, PTL

(* botnet.py:71: with netfilter-persistent, and no kill or failure on the  *)
(* way, the file that is restored at boot is the chain.                    *)
THEOREM FileIsChain == Spec => []BootRestoresChain
<1>1. TypeOK /\ IInv => BootRestoresChain
  BY DEF IInv, BootInv, BootRestoresChain
<1> QED
  BY <1>1, Invariant, PTL
===============================================================================
