--------------------------- MODULE DeliveryProofs ----------------------------
(***************************************************************************)
(* Proofs about Delivery for any alerts, windows and bounds: type          *)
(* correctness; a job that ends well drops no line; the tick job repeats   *)
(* an alert within its window only if the first mark was not saved; a mark *)
(* stands for a message unless a fault or an operator comes in between.    *)
(***************************************************************************)
EXTENDS Delivery, TLAPS

(* A stored mark is at least as young as the message it belongs to: what   *)
(* was sent long ago may have been marked again since, not the reverse.    *)
AgeInv == \A a \in Alert : dedup[a] <= sentAge[a]

(* A running job prints alerts whose cause holds; a tick prints what it    *)
(* marks, and that had no mark.                                            *)
PrintInv ==
  run.pc # "idle" =>
    /\ run.out \subseteq holding
    /\ run.job = "tick" => /\ run.marked = run.out
                           /\ \A a \in run.out : sentAge[a] = Window(a)

(* The marks of the job are stored, all of them or none.                   *)
MarkInv ==
  /\ run.pc = "dispatched" => unsaved = {}
  /\ run.pc = "printed" =>
       unsaved = run.marked \/ (\A a \in run.marked : dedup[a] = 0)

IInv == TypeOK /\ AgeInv /\ PrintInv /\ MarkInv /\ LineNotDropped

-----------------------------------------------------------------------------
(* Windows are positive numbers.                                           *)
LEMMA Windows == \A a \in Alert : Window(a) \in Nat /\ Window(a) > 0
BY WindowAssumption DEF Window

(* Time makes an age at most the window, and keeps the order of ages.      *)
LEMMA Ages ==
  ASSUME NEW w \in Nat, NEW m \in 0..w, NEW n \in 0..w
  PROVE  /\ Older(m, w) \in 0..w
         /\ m <= n => Older(m, w) <= Older(n, w)
BY DEF Older

(* A message is part of what was printed, and of a tick's it has every     *)
(* line if it has anything.                                                *)
LEMMA MessageOfOut ==
  ASSUME NEW job \in Job, NEW out
  PROVE  /\ Message(job, out) \subseteq out
         /\ job = "audit" => Message(job, out) = out
         /\ job = "tick" => out \cap Line \subseteq Message(job, out)
BY DEF Message, Job

(* The invariant holds at first.                                           *)
LEMMA AtFirst == Init => IInv
<1> SUFFICES ASSUME Init PROVE IInv
  OBVIOUS
<1>1. \A a \in Alert : Window(a) \in 0..Window(a)
  BY Windows
<1>2. TypeOK
  BY <1>1, BoundAssumption, WindowAssumption DEF Init, TypeOK, Idle, NoneEnded, Ended, Job
<1> QED
  BY <1>1, <1>2, Windows
     DEF Init, IInv, AgeInv, PrintInv, MarkInv, LineNotDropped, Idle, NoneEnded, Ended

(* What a job that ends leaves behind, however it ends.                    *)
LEMMA Ends ==
  ASSUME IInv, Deliver \/ Timeout
  PROVE  /\ run' = Idle /\ dedup' = dedup /\ unsaved' = unsaved /\ holding' = holding
         /\ auditAge' = auditAge /\ setup' = setup /\ checks' = checks
         /\ faults' \in 0..MaxFaults
         /\ last' \in [job : Job, exit : {0, 1}, out : SUBSET Alert, message : SUBSET Alert]
         /\ last'.job = run.job /\ last'.out = run.out
         /\ last'.message = {} \/ (Deliver /\ last'.message = Message(run.job, run.out))
         /\ LineNotDropped'
         /\ told' \subseteq holding /\ told \subseteq told'
         /\ \/ sentAge' = sentAge
            \/ /\ run.job = "tick" /\ run.pc = "printed"
               /\ sentAge' = [a \in Alert |-> IF a \in Message(run.job, run.out) \ unsaved
                                               THEN 0 ELSE sentAge[a]]
<1>1. /\ run.job \in Job /\ run.out \in SUBSET Alert /\ faults \in 0..MaxFaults
      /\ told \subseteq holding
  BY DEF IInv, TypeOK
<1>2. /\ Message(run.job, run.out) \subseteq run.out
      /\ run.job = "audit" => Message(run.job, run.out) = run.out
      /\ run.job = "tick" => run.out \cap Line \subseteq Message(run.job, run.out)
  BY <1>1, MessageOfOut
<1>3. run.pc # "idle" => run.out \subseteq holding
  BY DEF IInv, PrintInv
<1>4. Fault => faults' \in 0..MaxFaults
  BY <1>1, BoundAssumption DEF Fault
<1>5. ASSUME NEW code \in {0, 1}, NEW message \in SUBSET run.out, Exit(code, message)
      PROVE  /\ run' = Idle
             /\ last' \in [job : Job, exit : {0, 1}, out : SUBSET Alert, message : SUBSET Alert]
             /\ last'.job = run.job /\ last'.out = run.out /\ last'.message = message
             /\ last'.exit = code
  BY <1>1, <1>5 DEF Exit, Ended
<1>6. CASE Timeout
  BY <1>1, <1>4, <1>5, <1>6 DEF Timeout, LineNotDropped
<1>7. CASE Deliver
  <2> USE <1>7 DEF Deliver
  <2>0. run.pc = "printed"
    OBVIOUS
  <2>1. CASE SilentTick
    BY <1>1, <1>5, <2>1 DEF SilentTick, LineNotDropped
  <2>2. CASE NoToken
    BY <1>1, <1>5, <2>2 DEF NoToken, LineNotDropped
  <2>3. CASE NothingToSend
    BY <1>1, <1>2, <1>5, <2>3 DEF NothingToSend, LineNotDropped, Job
  <2>4. CASE Send
    <3>1. CASE Fault /\ Exit(1, {}) /\ UNCHANGED <<told, sentAge>>
      BY <1>1, <1>4, <1>5, <3>1 DEF LineNotDropped
    <3>2. CASE /\ Exit(0, Message(run.job, run.out)) /\ UNCHANGED faults
               /\ Message(run.job, run.out) # {}
               /\ told' = told \cup Message(run.job, run.out)
               /\ sentAge' = IF run.job = "tick"
                             THEN [a \in Alert |->
                                     IF a \in Message(run.job, run.out) \ unsaved
                                     THEN 0 ELSE sentAge[a]]
                             ELSE sentAge
      BY <1>1, <1>2, <1>3, <1>5, <2>0, <3>2 DEF LineNotDropped, Job
    <3>3. \/ /\ Exit(0, Message(run.job, run.out)) /\ UNCHANGED faults
             /\ Message(run.job, run.out) # {}
             /\ told' = told \cup Message(run.job, run.out)
             /\ sentAge' = IF run.job = "tick"
                           THEN [a \in Alert |->
                                   IF a \in Message(run.job, run.out) \ unsaved
                                   THEN 0 ELSE sentAge[a]]
                           ELSE sentAge
          \/ Fault /\ Exit(1, {}) /\ UNCHANGED <<told, sentAge>>
      BY <2>4 DEF Send
    <3> QED
      BY <3>1, <3>2, <3>3
  <2> QED
    BY <2>1, <2>2, <2>3, <2>4
<1> QED
  BY <1>6, <1>7

(* Every step preserves the invariant.                                     *)
LEMMA NextStep == IInv /\ [Next]_vars => IInv'
<1> SUFFICES ASSUME IInv, [Next]_vars PROVE IInv'
  OBVIOUS
<1> USE DEF IInv
<1>0. \A a \in Alert : Window(a) \in Nat /\ Window(a) > 0
  BY Windows
<1>1. ASSUME NEW a \in Alert, Arise(a) \/ Cease(a) PROVE IInv'
  BY <1>1 DEF Arise, Cease, TypeOK, AgeInv, PrintInv, MarkInv, LineNotDropped
<1>2. ASSUME NEW job \in Job, Start(job) PROVE IInv'
  <2>1. \A a \in Alert : sentAge[a] \in 0..Window(a) /\ dedup[a] <= sentAge[a]
    BY DEF TypeOK, AgeInv
  <2>2. ASSUME NEW a \in Alert, ~IsDuplicate(a) PROVE sentAge[a] = Window(a)
    BY <1>0, <2>1, <2>2 DEF IsDuplicate, TypeOK
  <2>3. /\ run'.pc = "dispatched" /\ run'.out \subseteq holding
        /\ run'.job = "tick" => run'.marked = run'.out /\ \A a \in run'.out : ~IsDuplicate(a)
        /\ run' \in [pc : {"idle", "dispatched", "printed"}, job : Job, deep : BOOLEAN,
                     marked : SUBSET Alert, out : SUBSET Alert]
    <3>1. holding \subseteq Alert
      BY DEF TypeOK
    <3>2. CASE RunTick
      <4> DEFINE deep == auditAge = AuditWindow
                 new  == {a \in IF deep THEN holding ELSE holding \ Finding : ~IsDuplicate(a)}
      <4>1. run' = [pc |-> "dispatched", job |-> "tick", deep |-> deep,
                    marked |-> new, out |-> new]
        BY <3>2 DEF RunTick
      <4>2. deep \in BOOLEAN
        OBVIOUS
      <4>3. new \subseteq holding /\ \A a \in new : ~IsDuplicate(a)
        OBVIOUS
      <4> HIDE DEF deep, new
      <4> QED
        BY <3>1, <4>1, <4>2, <4>3 DEF Job
    <3>3. CASE RunAudit
      BY <3>1, <3>3 DEF RunAudit, Job
    <3> QED
      BY <1>2, <3>2, <3>3 DEF Start
  <2>4. TypeOK'
    BY <1>2, <2>3 DEF Start, TypeOK, NoneEnded, Ended, Job
  <2>5. PrintInv'
    BY <1>2, <2>2, <2>3 DEF Start, PrintInv, TypeOK, Window
  <2> QED
    BY <1>2, <2>3, <2>4, <2>5 DEF Start, AgeInv, MarkInv, LineNotDropped, NoneEnded, Ended
<1>3. CASE Save
  <2>1. run' = [run EXCEPT !.pc = "printed"] /\ run.pc = "dispatched"
    BY <1>3 DEF Save
  <2>2. /\ run'.pc = "printed" /\ run'.job = run.job /\ run'.out = run.out
        /\ run'.marked = run.marked
        /\ run' \in [pc : {"idle", "dispatched", "printed"}, job : Job, deep : BOOLEAN,
                     marked : SUBSET Alert, out : SUBSET Alert]
    BY <2>1 DEF TypeOK
  <2>3. /\ \A a \in Alert : dedup'[a] \in {0, dedup[a]}
        /\ faults' \in 0..MaxFaults /\ auditAge' \in {0, auditAge}
        /\ unsaved' = run.marked \/ (unsaved' = {} /\ \A a \in run.marked : dedup'[a] = 0)
    BY <1>3, BoundAssumption DEF Save, Fault, TypeOK, MarkInv
  <2>4. TypeOK'
    BY <1>0, <1>3, <2>2, <2>3, WindowAssumption DEF Save, TypeOK, Window
  <2>5. AgeInv'
    BY <1>0, <1>3, <2>3 DEF Save, TypeOK, AgeInv
  <2> QED
    BY <1>3, <2>1, <2>2, <2>3, <2>4, <2>5
       DEF Save, PrintInv, MarkInv, LineNotDropped, Window
<1>4. CASE OperatorCheck
  <2>1. \A a \in Alert : dedup'[a] \in {0, dedup[a]}
    BY <1>4 DEF OperatorCheck
  <2>2. TypeOK'
    BY <1>0, <1>4, <2>1, BoundAssumption DEF OperatorCheck, TypeOK, Window
  <2>3. AgeInv'
    BY <1>0, <1>4, <2>1 DEF OperatorCheck, TypeOK, AgeInv
  <2> QED
    BY <1>4, <2>2, <2>3 DEF OperatorCheck, PrintInv, MarkInv, LineNotDropped
<1>5. CASE PassTime
  <2>1. /\ \A a \in Alert : /\ dedup'[a] = Older(dedup[a], Window(a))
                            /\ sentAge'[a] = Older(sentAge[a], Window(a))
        /\ auditAge' = Older(auditAge, AuditWindow) /\ run.pc = "idle"
    BY <1>5 DEF PassTime
  <2>2. ASSUME NEW a \in Alert
        PROVE  /\ dedup'[a] \in 0..Window(a) /\ sentAge'[a] \in 0..Window(a)
               /\ dedup'[a] <= sentAge'[a]
    <3>1. /\ Window(a) \in Nat /\ dedup[a] \in 0..Window(a) /\ sentAge[a] \in 0..Window(a)
          /\ dedup[a] <= sentAge[a]
      BY <1>0 DEF TypeOK, AgeInv
    <3>2. /\ Older(dedup[a], Window(a)) \in 0..Window(a)
          /\ Older(sentAge[a], Window(a)) \in 0..Window(a)
          /\ Older(dedup[a], Window(a)) <= Older(sentAge[a], Window(a))
      BY <3>1, Ages
    <3> QED
      BY <2>1, <3>2
  <2>3. auditAge' \in 0..AuditWindow
    BY <2>1, Ages, WindowAssumption DEF TypeOK
  <2> QED
    BY <1>5, <2>1, <2>2, <2>3
       DEF PassTime, TypeOK, AgeInv, PrintInv, MarkInv, LineNotDropped, Window
<1>6. CASE Deliver \/ Timeout
  <2>1. /\ run'.pc = "idle"
        /\ run' \in [pc : {"idle", "dispatched", "printed"}, job : Job, deep : BOOLEAN,
                     marked : SUBSET Alert, out : SUBSET Alert]
    <3>1. Idle.pc = "idle" /\ Idle \in [pc : {"idle", "dispatched", "printed"}, job : Job,
                                        deep : BOOLEAN, marked : SUBSET Alert,
                                        out : SUBSET Alert]
      BY DEF Idle, Job
    <3>2. run' = Idle
      BY <1>6, Ends
    <3> QED
      BY <3>1, <3>2
  <2>2. ASSUME NEW a \in Alert
        PROVE  sentAge'[a] = sentAge[a] \/ (sentAge'[a] = 0 /\ dedup[a] = 0)
    <3>1. CASE sentAge' = sentAge
      BY <3>1
    <3>2. CASE /\ run.job = "tick" /\ run.pc = "printed"
               /\ sentAge' = [x \in Alert |-> IF x \in Message(run.job, run.out) \ unsaved
                                               THEN 0 ELSE sentAge[x]]
      <4>1. Message(run.job, run.out) \subseteq run.marked
        BY <3>2, MessageOfOut DEF PrintInv, Job
      <4> QED
        BY <3>2, <4>1 DEF MarkInv
    <3> QED
      BY <1>6, <3>1, <3>2, Ends
  <2>3. AgeInv' /\ \A a \in Alert : sentAge'[a] \in 0..Window(a)
    BY <1>0, <1>6, <2>2, Ends DEF AgeInv, TypeOK
  <2>4. TypeOK'
    BY <1>6, <2>1, <2>3, Ends DEF TypeOK, Window
  <2> QED
    BY <1>6, <2>1, <2>3, <2>4, Ends DEF PrintInv, MarkInv
<1>7. CASE UNCHANGED vars
  BY <1>7 DEF vars, TypeOK, AgeInv, PrintInv, MarkInv, LineNotDropped, Window
<1> QED
  BY <1>1, <1>2, <1>3, <1>4, <1>5, <1>6, <1>7 DEF Next

-----------------------------------------------------------------------------
(* Marks and messages *)

(* Without faults and operator checks, and with a token, the mark of an    *)
(* alert of a check that is not routine is as old as its last message, but *)
(* for one that a tick has just stored and will send.                      *)
Undisturbed == HasToken /\ checks = 0 /\ faults = 0

QuietInv ==
  Undisturbed =>
    /\ unsaved = {}
    /\ run.pc # "idle" /\ run.job = "audit" => run.marked \subseteq Finding
    /\ \A a \in Line \ Finding :
         dedup[a] = IF run.pc = "printed" /\ a \in run.marked THEN 0 ELSE sentAge[a]

(* What was undisturbed after a step was so before it, and the step was no *)
(* fault.                                                                  *)
LEMMA NoFault ==
  ASSUME IInv, [Next]_vars, Undisturbed'
  PROVE  Undisturbed /\ ~Fault /\ ~OperatorCheck
<1>1. checks \in Nat /\ faults \in Nat
  BY BoundAssumption DEF IInv, TypeOK
<1>2. ~Fault
  BY <1>1 DEF Fault, Undisturbed
<1>3. ~OperatorCheck
  BY <1>1 DEF OperatorCheck, Undisturbed
<1>4. setup' = setup /\ faults' = faults /\ checks' = checks
  BY <1>2, <1>3
     DEF Next, Arise, Cease, Start, Save, Deliver, Timeout, PassTime, vars,
         SilentTick, NoToken, NothingToSend, Send
<1> QED
  BY <1>2, <1>3, <1>4 DEF Undisturbed, HasToken

(* A tick that no fault disturbs sends the lines it marked.                *)
LEMMA TickSends ==
  ASSUME IInv, QuietInv, Undisturbed, Deliver, ~Fault, run.job = "tick",
         NEW a \in Line
  PROVE  sentAge'[a] = IF a \in run.marked THEN 0 ELSE sentAge[a]
<1>1. /\ run.pc = "printed" /\ run.marked = run.out /\ unsaved = {}
      /\ a \in Alert /\ run.out \subseteq Alert
  BY DEF IInv, PrintInv, QuietInv, TypeOK, Deliver, Alert
<1>2. HasToken
  BY DEF Undisturbed
<1>3. /\ Message("tick", run.out) \subseteq run.out
      /\ run.out \cap Line \subseteq Message("tick", run.out)
  BY <1>1, MessageOfOut DEF Job
<1>4. CASE SilentTick
  BY <1>1, <1>4 DEF SilentTick
<1>5. CASE NoToken
  BY <1>2, <1>5 DEF NoToken
<1>6. CASE NothingToSend
  BY <1>1, <1>3, <1>6 DEF NothingToSend
<1>7. CASE Send
  <2>1. sentAge' = [x \in Alert |-> IF x \in Message("tick", run.out) \ unsaved
                                    THEN 0 ELSE sentAge[x]]
    BY <1>7 DEF Send
  <2> QED
    BY <1>1, <1>3, <2>1
<1> QED
  BY <1>4, <1>5, <1>6, <1>7 DEF Deliver

(* Every step preserves it.                                                *)
LEMMA QuietStep == IInv /\ QuietInv /\ [Next]_vars => QuietInv'
<1> SUFFICES ASSUME IInv, QuietInv, [Next]_vars, Undisturbed'
             PROVE  /\ unsaved' = {}
                    /\ run'.pc # "idle" /\ run'.job = "audit" => run'.marked \subseteq Finding
                    /\ \A a \in Line \ Finding :
                         dedup'[a] = IF run'.pc = "printed" /\ a \in run'.marked
                                     THEN 0 ELSE sentAge'[a]
  BY DEF QuietInv
<1>0. Undisturbed /\ ~Fault /\ ~OperatorCheck
  BY NoFault
<1>1. /\ unsaved = {}
      /\ run.pc # "idle" /\ run.job = "audit" => run.marked \subseteq Finding
      /\ \A a \in Line \ Finding :
           dedup[a] = IF run.pc = "printed" /\ a \in run.marked THEN 0 ELSE sentAge[a]
  BY <1>0 DEF QuietInv
<1>2. ASSUME NEW a \in Alert, Arise(a) \/ Cease(a) PROVE QuietInv'
  BY <1>1, <1>2 DEF Arise, Cease, QuietInv
<1>3. ASSUME NEW job \in Job, Start(job) PROVE QuietInv'
  <2>1. /\ run.pc = "idle" /\ run'.pc = "dispatched" /\ unsaved' = {}
        /\ dedup' = dedup /\ sentAge' = sentAge
        /\ run'.job = "audit" => run'.marked \subseteq Finding
    BY <1>3 DEF Start, RunTick, RunAudit
  <2> QED
    BY <1>1, <2>1 DEF QuietInv
<1>4. CASE Save
  <2>1. /\ run.pc = "dispatched" /\ run' = [run EXCEPT !.pc = "printed"]
        /\ dedup' = [a \in Alert |-> IF a \in run.marked THEN 0 ELSE dedup[a]]
        /\ sentAge' = sentAge /\ unsaved' = unsaved
    BY <1>0, <1>4 DEF Save
  <2>2. run'.pc = "printed" /\ run'.job = run.job /\ run'.marked = run.marked
    BY <2>1 DEF IInv, TypeOK
  <2> QED
    BY <1>1, <2>1, <2>2 DEF QuietInv, Alert
<1>5. CASE PassTime
  <2>1. \A a \in Alert : /\ dedup'[a] = Older(dedup[a], Window(a))
                         /\ sentAge'[a] = Older(sentAge[a], Window(a))
    BY <1>5 DEF PassTime
  <2>2. run.pc = "idle" /\ run' = run /\ unsaved' = unsaved
    BY <1>5 DEF PassTime
  <2> QED
    BY <1>1, <2>1, <2>2 DEF QuietInv, Alert
<1>6. CASE Timeout
  BY <1>0, <1>6 DEF Timeout
<1>7. CASE Deliver
  <2>1. run'.pc = "idle" /\ dedup' = dedup /\ unsaved' = unsaved /\ run.pc = "printed"
    BY <1>7, Ends DEF Deliver, Idle
  <2>2. CASE run.job = "tick"
    BY <1>0, <1>1, <1>7, <2>1, <2>2, TickSends DEF QuietInv
  <2>3. CASE run.job = "audit"
    <3>1. sentAge' = sentAge
      BY <1>7, <2>3 DEF Deliver, SilentTick, NoToken, NothingToSend, Send
    <3>2. run.marked \subseteq Finding
      BY <1>1, <2>1, <2>3
    <3> QED
      BY <1>1, <2>1, <3>1, <3>2 DEF QuietInv
  <2> QED
    BY <2>2, <2>3 DEF IInv, TypeOK, Job
<1>8. CASE UNCHANGED vars
  BY <1>1, <1>8 DEF vars, QuietInv
<1> QED
  BY <1>0, <1>2, <1>3, <1>4, <1>5, <1>6, <1>7, <1>8 DEF Next, QuietInv

-----------------------------------------------------------------------------
(* The theorems *)

(* The invariant holds in every reachable state.                           *)
LEMMA Invariant == Spec => []IInv
BY AtFirst, NextStep, PTL DEF Spec

(* Every behaviour of the jobs is well typed.                              *)
THEOREM TypeCorrect == Spec => []TypeOK
<1>1. IInv => TypeOK
  BY DEF IInv
<1> QED
  BY <1>1, Invariant, PTL

(* scripts/tick.py and audit.py: a job that ends well has sent every line  *)
(* that is not routine, and an audit every finding.                        *)
THEOREM LinesSent == Spec => []LineNotDropped
<1>1. IInv => LineNotDropped
  BY DEF IInv
<1> QED
  BY <1>1, Invariant, PTL

(* scripts/tick.py with alerts.py: an alert is sent twice within its       *)
(* window only if the mark of the first was not saved.                     *)
THEOREM RepeatsUnsaved == Spec => RepeatOnlyIfUnsaved
<1>1. ASSUME IInv, Deliver, last'.job = "tick", NEW a \in last'.message
      PROVE  sentAge[a] >= Window(a)
  <2>1. run.job = "tick" /\ a \in Message(run.job, run.out)
    BY <1>1, Ends
  <2>2. a \in run.out /\ run.pc = "printed"
    BY <1>1, <2>1, MessageOfOut DEF Deliver, Job
  <2>3. a \in Alert /\ sentAge[a] = Window(a)
    BY <1>1, <2>1, <2>2 DEF IInv, PrintInv, TypeOK
  <2> QED
    BY <2>3, Windows
<1>2. IInv => [Deliver /\ last'.job = "tick" =>
                 \A a \in last'.message : sentAge[a] >= Window(a)]_vars
  BY <1>1
<1> QED
  BY <1>2, Invariant, PTL DEF RepeatOnlyIfUnsaved

(* alerts.py with scripts/tick.py: without faults and operator checks a    *)
(* mark silences an alert exactly as long as its last message is young.    *)
THEOREM MarksSent == Spec => []MarkedIsSent
<1>1. Init => QuietInv
  BY DEF Init, QuietInv, Idle, Alert
<1>2. QuietInv => MarkedIsSent
  BY DEF QuietInv, Undisturbed, MarkedIsSent
<1> QED
  BY <1>1, <1>2, QuietStep, Invariant, PTL DEF Spec
=============================================================================
