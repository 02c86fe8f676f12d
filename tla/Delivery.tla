------------------------------ MODULE Delivery -------------------------------
(***************************************************************************)
(* From an alert to a message: the jobs of the cron scheduler              *)
(* (scripts/tick.py, scripts/audit.py) run secmon with a timeout, read     *)
(* what it printed, choose what of it to send, and send it once.  secmon   *)
(* has by then marked the alerts as dispatched (alerts.py, dispatch), and  *)
(* an operator's --check marks them too.                                   *)
(*                                                                         *)
(* Jobs do not overlap here (what overlapping does to the state document   *)
(* is in StateFile), and a job is short against a slot of time.            *)
(***************************************************************************)
EXTENDS Naturals, FiniteSets

CONSTANTS
  Line,         \* alerts printed as one line, with the hint in backquotes
  Routine,      \* such alerts that match ROUTINE_PATTERNS
  Block,        \* alerts printed on two lines, with an explanation between
  Finding,      \* those that only an audit raises, of HIGH and above
  CheckWindow,  \* dedup window of an alert of a check, in slots
  AuditWindow,  \* dedup window of an audit finding, and the time between
                \* the deep audits of --tick
  MaxChecks,    \* bound: --check runs of an operator
  MaxFaults     \* bound: failed saves, timeouts, failed requests

Alert == Line \cup Routine \cup Block
Job   == {"tick", "audit"}

ASSUME AlertAssumption ==
  /\ Line \cap Routine = {} /\ Block \cap (Line \cup Routine) = {}
  /\ Block \subseteq Finding /\ Finding \subseteq Alert
ASSUME WindowAssumption ==
  /\ CheckWindow \in Nat \ {0} /\ AuditWindow \in Nat /\ AuditWindow >= CheckWindow
ASSUME BoundAssumption == MaxChecks \in Nat /\ MaxFaults \in Nat

VARIABLES
  setup,      \* whether TELEGRAM_BOT_TOKEN is in the .env file, in the environment
  holding,    \* alerts whose cause lasts
  dedup,      \* dedup_store: the age of the entry, up to the window
  auditAge,   \* the age of last_audit_check, up to AuditWindow
  run,        \* the job: where it is, what it marked, what it printed
  last,       \* how a job just ended, with what it had printed and sent
  checks, faults,
  told,       \* history: of holding, the alerts sent since their cause began
  sentAge,    \* history: slots since the tick job sent the alert and its mark was saved
  unsaved     \* history: alerts whose marks the last job could not save

vars == <<setup, holding, dedup, auditAge, run, last, checks, faults, told, sentAge, unsaved>>

Ended(job, code, out, message) == [job |-> job, exit |-> code, out |-> out, message |-> message]
NoneEnded == Ended("tick", 0, {}, {})

Window(a) == IF a \in Finding THEN AuditWindow ELSE CheckWindow
Idle == [pc |-> "idle", job |-> "tick", deep |-> FALSE, marked |-> {}, out |-> {}]

Init ==
  /\ setup \in [file : BOOLEAN, env : BOOLEAN]
  /\ holding = {} /\ run = Idle
  /\ dedup = [a \in Alert |-> Window(a)] /\ auditAge = AuditWindow
  /\ last = NoneEnded /\ checks = 0 /\ faults = 0
  /\ told = {} /\ sentAge = [a \in Alert |-> Window(a)] /\ unsaved = {}

Fault == faults < MaxFaults /\ faults' = faults + 1

-----------------------------------------------------------------------------
(* The world *)

(* What changes while a job runs is seen by the next one.                  *)
Arise(a) ==
  /\ run.pc = "idle" /\ a \notin holding
  /\ holding' = holding \cup {a}
  /\ UNCHANGED <<setup, dedup, auditAge, run, last, checks, faults, told, sentAge, unsaved>>

Cease(a) ==
  /\ run.pc = "idle" /\ a \in holding
  /\ holding' = holding \ {a} /\ told' = told \ {a}
  /\ UNCHANGED <<setup, dedup, auditAge, run, last, checks, faults, sentAge, unsaved>>

Older(n, window) == IF n < window THEN n + 1 ELSE n

PassTime ==
  /\ run.pc = "idle"
  /\ dedup' = [a \in Alert |-> Older(dedup[a], Window(a))]
  /\ sentAge' = [a \in Alert |-> Older(sentAge[a], Window(a))]
  /\ auditAge' = Older(auditAge, AuditWindow)
  /\ UNCHANGED <<setup, holding, run, last, checks, faults, told, unsaved>>

-----------------------------------------------------------------------------
(* secmon *)

(* Mutant of IsDuplicate: an entry expires a slot early.                   *)
IsDuplicateShort(a) == dedup[a] + 1 < Window(a)
IsDuplicate(a)      == dedup[a] < Window(a)

(* --tick: the checks, and every six hours the deep audit, whose findings  *)
(* join the alerts; what is new is marked, logged and printed.             *)
RunTick ==
  LET deep  == auditAge = AuditWindow
      found == IF deep THEN holding ELSE holding \ Finding
      new   == {a \in found : ~IsDuplicate(a)}
  IN run' = [pc |-> "dispatched", job |-> "tick", deep |-> deep, marked |-> new, out |-> new]

(* Mutant of RunAudit: it dispatches the alerts of the checks too, which   *)
(* its table does not show.                                                *)
RunAuditAndChecks ==
  run' = [pc |-> "dispatched", job |-> "audit", deep |-> FALSE,
          marked |-> {a \in holding : ~IsDuplicate(a)}, out |-> holding \cap Finding]

(* --audit: what is new is marked and logged; the table that is printed    *)
(* has every finding.                                                      *)
RunAudit ==
  LET found == holding \cap Finding IN
  run' = [pc |-> "dispatched", job |-> "audit", deep |-> FALSE,
          marked |-> {a \in found : ~IsDuplicate(a)}, out |-> found]

Start(job) ==
  /\ run.pc = "idle"
  /\ IF job = "tick" THEN RunTick ELSE RunAudit
  /\ last' = NoneEnded /\ unsaved' = {}
  /\ UNCHANGED <<setup, holding, dedup, auditAge, checks, faults, told, sentAge>>

(* Nobody looks at what save_state returns.                                *)
Save ==
  /\ run.pc = "dispatched"
  /\ run' = [run EXCEPT !.pc = "printed"]
  /\ \/ /\ dedup' = [a \in Alert |-> IF a \in run.marked THEN 0 ELSE dedup[a]]
        /\ auditAge' = IF run.deep THEN 0 ELSE auditAge
        /\ UNCHANGED <<faults, unsaved>>
     \/ /\ Fault
        /\ unsaved' = run.marked
        /\ UNCHANGED <<dedup, auditAge>>
  /\ UNCHANGED <<setup, holding, last, checks, told, sentAge>>

(* An operator's --check: no audit, and the terminal shows what is new.    *)
OperatorCheck ==
  /\ run.pc = "idle" /\ checks < MaxChecks /\ checks' = checks + 1
  /\ dedup' = [a \in Alert |-> IF a \in holding \ Finding /\ ~IsDuplicate(a) THEN 0 ELSE dedup[a]]
  /\ UNCHANGED <<setup, holding, auditAge, run, last, faults, told, sentAge, unsaved>>

-----------------------------------------------------------------------------
(* The script *)

Exit(code, message) ==
  /\ run' = Idle
  /\ last' = Ended(run.job, code, run.out, message)

(* subprocess.run kills secmon after its timeout and raises.               *)
Timeout ==
  /\ run.pc \in {"dispatched", "printed"} /\ Fault
  /\ Exit(1, {})
  /\ UNCHANGED <<setup, holding, dedup, auditAge, checks, told, sentAge, unsaved>>

(* Mutant of HasToken: the token of the file is overwritten.               *)
HasTokenInEnv == setup.env

(* Both scripts take the token of the .env file or else, with or without a *)
(* file, that of the environment.                                          *)
HasToken == setup.file \/ setup.env

(* Mutant of Message: routine lines silence the rest.                      *)
MessageUnlessRoutine(job, out) ==
  IF job = "tick" /\ out \cap Routine # {} THEN {} ELSE out

(* What is sent of what was printed: of a tick the lines DISPATCH_PATTERN  *)
(* matches without the routine ones; nothing, if only routine ones match;  *)
(* all of it, if none matches.                                             *)
Message(job, out) ==
  IF job = "audit" THEN out
  ELSE IF out \cap Line # {} THEN out \cap Line
  ELSE IF out \cap Routine # {} THEN {} ELSE out

(* Nothing was printed by --tick, ...                                      *)
SilentTick ==
  /\ run.job = "tick" /\ run.out = {}
  /\ Exit(0, {}) /\ UNCHANGED <<faults, told, sentAge>>

(* ... there is no token, ...                                              *)
NoToken ==
  /\ ~(run.job = "tick" /\ run.out = {}) /\ ~HasToken
  /\ Exit(1, {}) /\ UNCHANGED <<faults, told, sentAge>>

(* ... nothing is left to send, ...                                        *)
NothingToSend ==
  /\ ~(run.job = "tick" /\ run.out = {}) /\ HasToken
  /\ Message(run.job, run.out) = {}
  /\ Exit(0, {}) /\ UNCHANGED <<faults, told, sentAge>>

(* ... or one request is made.                                             *)
Send ==
  LET message == Message(run.job, run.out) IN
  /\ HasToken /\ message # {}
  /\ \/ /\ Exit(0, message)
        /\ told' = told \cup message
        /\ sentAge' = IF run.job = "tick"
                      THEN [a \in Alert |-> IF a \in message \ unsaved THEN 0 ELSE sentAge[a]]
                      ELSE sentAge
        /\ UNCHANGED faults
     \/ Fault /\ Exit(1, {}) /\ UNCHANGED <<told, sentAge>>

Deliver ==
  /\ run.pc = "printed"
  /\ SilentTick \/ NoToken \/ NothingToSend \/ Send
  /\ UNCHANGED <<setup, holding, dedup, auditAge, checks, unsaved>>

Next ==
  \/ \E a \in Alert : Arise(a) \/ Cease(a)
  \/ \E job \in Job : Start(job)
  \/ Save \/ Deliver \/ Timeout \/ OperatorCheck \/ PassTime

Spec == Init /\ [][Next]_vars

(* Every job has its hour again and again, time passes, and a job goes on. *)
FairSpec ==
  /\ Spec /\ SF_vars(PassTime) /\ WF_vars(Save) /\ WF_vars(Deliver)
  /\ \A job \in Job : SF_vars(Start(job))

-----------------------------------------------------------------------------
(* Properties *)

TypeOK ==
  /\ setup \in [file : BOOLEAN, env : BOOLEAN]
  /\ told \subseteq holding /\ holding \subseteq Alert /\ unsaved \subseteq Alert
  /\ \A a \in Alert : dedup[a] \in 0..Window(a) /\ sentAge[a] \in 0..Window(a)
  /\ auditAge \in 0..AuditWindow
  /\ run \in [pc : {"idle", "dispatched", "printed"}, job : Job, deep : BOOLEAN,
              marked : SUBSET Alert, out : SUBSET Alert]
  /\ last \in [job : Job, exit : {0, 1}, out : SUBSET Alert, message : SUBSET Alert]
  /\ checks \in 0..MaxChecks /\ faults \in 0..MaxFaults

(* The tick job sends an alert twice within its window only if the mark of *)
(* the first was not saved: neither audits, checks nor timeouts in between *)
(* make it repeat itself, and it never sends what it did not mark.         *)
RepeatOnlyIfUnsaved ==
  [][Deliver /\ last'.job = "tick" =>
       \A a \in last'.message : sentAge[a] >= Window(a)]_vars

(* A mark silences an alert for its window, so it should stand for a       *)
(* message: with a token, and but for an operator's --check (which marks   *)
(* for the terminal) and a fault between the mark and the message, the     *)
(* alert of a check that is not routine is silenced exactly as long as     *)
(* its last message is young.                                              *)
MarkedIsSent ==
  run.pc = "idle" /\ HasToken /\ checks = 0 /\ faults = 0
    => \A a \in Line \ Finding : dedup[a] = sentAge[a]

(* A job that ends well has sent every alert of a check that is not        *)
(* routine, and an audit every finding.                                    *)
LineNotDropped ==
  last.exit = 0 =>
    IF last.job = "tick" THEN last.out \cap Line \subseteq last.message
                         ELSE last.out \subseteq last.message

(* What lasts is sent in the end, whatever failed and although failures    *)
(* are not repeated, since its mark expires: with a token in either place  *)
(* an alert printed on one line and, by the audit job, whatever the tick   *)
(* job makes of it, a finding.                                             *)
LastingIsSent ==
  \A a \in Line \cup Finding :
    a \in holding /\ (setup.file \/ setup.env) ~> a \in told \/ a \notin holding

(* "Only routine findings" (scripts/tick.py:136): what a tick job leaves   *)
(* unsent although it printed something and ended well was routine.        *)
SilencedIsRoutine ==
  last.job = "tick" /\ last.exit = 0 /\ last.message = {} => last.out \subseteq Routine
=============================================================================
