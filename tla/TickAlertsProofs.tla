-------------------------- MODULE TickAlertsProofs ---------------------------
(***************************************************************************)
(* Proofs about TickAlerts for any ports, addresses, modes and bounds:     *)
(* type correctness; what the saved document takes for known or active was *)
(* reported; a dedup entry is of an alert that was logged or printed;      *)
(* without faults no alert is repeated within its window or session.       *)
(***************************************************************************)
EXTENDS TickAlerts, TLAPS

Pending(e)   == {a.key : a \in {b \in alerts : b.event = e}}
Unprinted(e) == {a.key : a \in {b \in unlogged : b.event = e}}
Untold       == {a.key : a \in unlogged}

(* A run that has not asked ss yet has the saved document and no alerts.   *)
ControlInv ==
  /\ pc \in {"idle", "ports"} => alerts = {} /\ mem = disk
  /\ pc \in {"idle", "ports", "ssh"} => absent = {}
  /\ pc = "save" => alerts = {}
  /\ pc # "dispatch" => unlogged = {}
  /\ \A a \in alerts :
       a.event = "session" => a.key \in mem.active /\ pc # "ssh"

(* Known ports are accounted for, lapsed, or about to be reported.         *)
PortInv ==
  /\ disk.known.ports \subseteq accounted \cup lapsed
  /\ mem.known.ports \subseteq accounted \cup lapsed \cup Pending("opened") \cup Unprinted("opened")
  /\ Pending("closed") \subseteq accounted \cup lapsed
  /\ \A x \in Port :
       /\ disk.dedup[x] # Never => x \in accounted \cup lapsed
       /\ mem.dedup[x] # Never => x \in accounted \cup lapsed \cup Unprinted("opened")

(* An entry of a document is of an alert that was told no earlier.         *)
ToldEntry(doc, k) ==
  doc.dedup[k] # Never => reported[k].at # Never /\ doc.dedup[k] <= reported[k].at

(* Entries are of alerts that were told, in the saved document and in that *)
(* of the run, but for those the run has still to print: their entries are *)
(* younger than what was told of the same key.                             *)
DedupInv ==
  \A k \in Key :
    /\ reported[k].at # Never => reported[k].at <= now
    /\ ToldEntry(disk, k)
    /\ k \notin Untold => ToldEntry(mem, k)
    /\ k \in Untold => /\ mem.dedup[k] # Never /\ mem.dedup[k] <= now
                       /\ reported[k].at # Never => reported[k].at <= mem.dedup[k]

(* Active sessions are reported, lapsed, or about to be; only they have    *)
(* dedup entries.                                                          *)
SessionsTold ==
  /\ trusted = {}
  /\ disk.active \cap unheard \subseteq lapsed
  /\ mem.active \cap unheard \subseteq lapsed \cup Pending("session") \cup Unprinted("session")
  /\ mem.active \cap absent = {}
  /\ \A q \in Address : disk.dedup[q] # Never => q \in disk.active
  /\ \A q \in Address : mem.dedup[q] # Never => q \in mem.active
  /\ \A q \in Pending("session") : mem.dedup[q] = Never

SessionInv == faults["trust"] = 0 => SessionsTold

(* As long as no run was killed and every save worked, the entry of a port *)
(* is the time of its last report; that of an address lasts as long as the *)
(* session it was reported in.                                             *)
Quiet == faults["kill"] = 0 /\ faults["save"] = 0

(* An entry is missing only if the session is over. *)
SessionEntries ==
  \A q \in FirstIps(connected) \cup Pending("session") :
    reported[q].at # Never /\ reported[q].nth = session[q] => mem.dedup[q] # Never

RepeatInv ==
  /\ repeated = {}
  /\ \A q \in Address : reported[q].nth <= session[q]
  /\ Quiet => \A x \in Port \ Untold : mem.dedup[x] = reported[x].at
  /\ Quiet /\ faults["probe"] = 0 => SessionEntries

IInv == ControlInv /\ PortInv /\ DedupInv /\ SessionInv /\ RepeatInv

-----------------------------------------------------------------------------
(* Types *)

(* What a fault does to the counters. *)
LEMMA FaultCounted ==
  ASSUME faults \in [Fault -> Nat], NEW f \in Fault, Suffer(f)
  PROVE  /\ faults' \in [Fault -> Nat]
         /\ faults'[f] > 0
         /\ \A g \in Fault : faults'[g] >= faults[g] /\ (g # f => faults'[g] = faults[g])
BY DEF Suffer

(* The times of the slots, and of no slot. *)
LEMMA Times == Slot \subseteq Nat /\ Never \in Nat /\ Never \notin Slot
BY BoundAssumption DEF Slot, Never

(* What is told has the types of the log and of what is remembered of it.  *)
LEMMA ToldTypes ==
  ASSUME TypeOK, mem' \in Document, NEW new \in SUBSET Alert, Tell(new)
  PROVE  /\ reported' \in [Key -> [at : Slot \cup {Never}, nth : 0..MaxSession]]
         /\ accounted' \subseteq Port /\ unheard' \subseteq Address /\ lapsed' \subseteq Key
<1>1. {a.key : a \in {b \in new : b.event \in {"opened"}}} \subseteq Port
  BY DEF Alert
<1>2. \A k \in Key : /\ mem'.dedup[k] \in Slot \cup {Never}
                     /\ (IF k \in Address THEN session[k] ELSE 0) \in 0..MaxSession
  BY BoundAssumption DEF Document, TypeOK
<1>3. \A k \in Key : reported[k] \in [at : Slot \cup {Never}, nth : 0..MaxSession]
  BY DEF TypeOK
<1>4. reported' \in [Key -> [at : Slot \cup {Never}, nth : 0..MaxSession]]
  BY <1>2, <1>3 DEF Tell
<1> QED
  BY <1>1, <1>4 DEF Tell, TypeOK

(* The initial state is well typed. *)
LEMMA TypeInit == Init => TypeOK
BY BoundAssumption DEF Init, TypeOK, Document, Output, Slot, Never, Key

(* Every action keeps the types. *)
LEMMA TypeStep == TypeOK /\ [Next]_vars => TypeOK'
<1> SUFFICES ASSUME TypeOK, [Next]_vars PROVE TypeOK'
  OBVIOUS
<1> USE Times DEF TypeOK, Goto, host, process, history
<1>1. ASSUME NEW x \in Port, OpenPort(x) \/ ClosePort(x) PROVE TypeOK'
  BY <1>1 DEF OpenPort, ClosePort
<1>2. ASSUME NEW c \in Connection, Connect(c) \/ Disconnect(c) PROVE TypeOK'
  BY <1>2, BoundAssumption DEF Connect, Disconnect, Connection, Address
<1>3. ASSUME NEW q \in Address, EditWhitelist(q) PROVE TypeOK'
  <2>1. faults' \in [Fault -> Nat]
    BY <1>3, FaultCounted DEF EditWhitelist, Fault
  <2> QED
    BY <1>3, <2>1 DEF EditWhitelist
<1>4. CASE PassTime
  BY <1>4, BoundAssumption DEF PassTime, Slot
<1>5. CASE Start
  BY <1>5, ModeAssumption DEF Start
<1>6. CASE CheckPorts
  <2>1. faults' \in [Fault -> Nat]
    BY <1>6, FaultCounted DEF CheckPorts, Probe, Fault
  <2>2. CASE UNCHANGED <<mem, alerts, lapsed>>
    BY <1>6, <2>1, <2>2 DEF CheckPorts
  <2>3. ASSUME NEW out \in Output, Probe(listening, out),
               alerts' =
                 {[key |-> x, event |-> "opened"] :
                    x \in IF mem.known.ok THEN out.ports \ mem.known.ports ELSE {}}
                 \cup {[key |-> x, event |-> "closed"] : x \in mem.known.ports \ out.ports},
               mem' = [mem EXCEPT !.known = out],
               lapsed' = IF mem.known.ok THEN lapsed ELSE lapsed \cup (out.ports \ accounted)
        PROVE  TypeOK'
    <3>1. mem' \in Document
      BY <2>3 DEF Document
    <3>2. out.ports \subseteq Port /\ mem.known.ports \subseteq Port
      BY <2>3 DEF Document, Output
    <3>3. alerts' \subseteq Alert /\ lapsed' \subseteq Key
      BY <2>3, <3>2 DEF Alert, Key
    <3> QED
      BY <1>6, <2>1, <3>1, <3>3 DEF CheckPorts
  <2> QED
    BY <1>6, <2>2, <2>3 DEF CheckPorts
<1>7. CASE CheckSsh
  <2>1. faults' \in [Fault -> Nat]
    BY <1>7, FaultCounted DEF CheckSsh, Fault
  <2>2. ASSUME NEW ips \in SUBSET Address, SshOutcome(ips)
        PROVE  mem' \in Document /\ alerts' \subseteq Alert
    <3>1. alerts' \subseteq Alert
      BY <2>2 DEF SshOutcome, Alert
    <3> DEFINE open == (mem.active \ (ips \cap trusted)) \cup (ips \ trusted)
               d == [k \in Key |-> IF k \in open \ ips THEN Never ELSE mem.dedup[k]]
    <3>2. open \ (open \ ips) \in SUBSET Address /\ d \in [Key -> Slot \cup {Never}]
      BY DEF Document
    <3>3. mem' = [mem EXCEPT !.active = open \ (open \ ips), !.dedup = d]
      BY <2>2 DEF SshOutcome
    <3> HIDE DEF open, d
    <3>4. mem' \in Document
      BY <3>2, <3>3 DEF Document
    <3> QED
      BY <3>1, <3>4
  <2>3. FirstIps(connected) \in SUBSET Address
    BY DEF FirstIps, Connection, Address
  <2>4. mem' \in Document /\ alerts' \subseteq Alert
    BY <1>7, <2>2, <2>3 DEF CheckSsh
  <2> QED
    BY <1>7, <2>1, <2>4 DEF CheckSsh
<1>8. CASE Digest
  <2>1. Today \in Nat
    BY DayAssumption, BoundAssumption DEF Today, Slot
  <2>2. mem' \in Document
    BY <1>8, <2>1 DEF Digest, Document
  <2>3. disk' \in Document /\ faults' \in [Fault -> Nat]
        /\ unheard' \subseteq Address /\ lapsed' \subseteq Key
    <3>1. {a.key : a \in {b \in alerts : b.event # "closed"}} \subseteq Key
      BY DEF Alert, Key
    <3> QED
      BY <1>8, <2>2, <3>1, FaultCounted DEF Digest, SaveOrFail, Fault
  <2> QED
    BY <1>8, <2>2, <2>3 DEF Digest
<1>9. CASE SkipDigest
  BY <1>9 DEF SkipDigest
<1>10. ASSUME NEW a \in Alert, Suppress(a) PROVE TypeOK'
  BY <1>10 DEF Suppress
<1>11. ASSUME NEW a \in Alert, Report(a) PROVE TypeOK'
  <2>1. a.key \in Key
    BY DEF Alert, Key
  <2>2. mem' \in Document
    <3>1. mem' = [mem EXCEPT !.dedup = [@ EXCEPT ![a.key] = now]]
      BY <1>11 DEF Report
    <3>2. [mem.dedup EXCEPT ![a.key] = now] \in [Key -> Slot \cup {Never}]
      BY <2>1 DEF Document
    <3> QED
      BY <3>1, <3>2 DEF Document
  <2>3. CASE Tell({a}) /\ UNCHANGED <<unlogged, faults>>
    <3>1. {a} \in SUBSET Alert
      OBVIOUS
    <3> QED
      BY <1>11, <2>1, <2>2, <2>3, <3>1, ToldTypes DEF Report
  <2>4. CASE Suffer("log") /\ unlogged' = unlogged \cup {a}
             /\ UNCHANGED <<reported, accounted, unheard, lapsed>>
    <3>1. faults' \in [Fault -> Nat]
      BY <2>4, FaultCounted DEF Fault
    <3> QED
      BY <1>11, <2>1, <2>2, <2>4, <3>1 DEF Report
  <2> QED
    BY <1>11, <2>3, <2>4 DEF Report
<1>15. CASE Show
  BY <1>15, ToldTypes DEF Show
<1>12. CASE Finish
  <2>1. disk' \in Document /\ faults' \in [Fault -> Nat]
        /\ unheard' \subseteq Address /\ lapsed' \subseteq Key
    BY <1>12, FaultCounted DEF Finish, SaveOrFail, Fault
  <2> QED
    BY <1>12, <2>1 DEF Finish
<1>13. CASE Kill
  <2>1. faults' \in [Fault -> Nat]
    BY <1>13, FaultCounted DEF Kill, Fault
  <2> QED
    BY <1>13, <2>1 DEF Kill
<1>14. CASE UNCHANGED vars
  BY <1>14 DEF vars
<1> QED
  BY <1>1, <1>2, <1>3, <1>4, <1>5, <1>6, <1>7, <1>8, <1>9, <1>10, <1>11, <1>12, <1>13, <1>14,
     <1>15, EditAssumption DEF Next, Host, Run

-----------------------------------------------------------------------------
(* Steps of the host *)

(* What the host does is not seen by the process, moves the clock forward  *)
(* only, edits the whitelist only as a fault, and counts the sessions.     *)
HostEffect ==
  /\ UNCHANGED <<disk, process, reported, history>>
  /\ now' >= now
  /\ \A f \in Fault : faults'[f] = 0 => faults[f] = 0
  /\ faults'["trust"] = 0 => UNCHANGED trusted
  /\ \A q \in Address :
       /\ session'[q] >= session[q]
       /\ q \in FirstIps(connected') =>
            q \in FirstIps(connected) \/ session'[q] > session[q]

(* Every step of the host has these effects. *)
LEMMA HostStep == TypeOK /\ Host => HostEffect
<1> SUFFICES ASSUME TypeOK, Host PROVE HostEffect
  OBVIOUS
<1> USE DEF TypeOK, HostEffect, Slot
<1>1. ASSUME NEW x \in Port, OpenPort(x) \/ ClosePort(x) PROVE HostEffect
  BY <1>1 DEF OpenPort, ClosePort
<1>2. ASSUME NEW c \in Connection, Connect(c) PROVE HostEffect
  <2>1. c.local \in Address
    BY DEF Connection, Address
  <2>2. FirstIps(connected') = FirstIps(connected) \cup {c.local}
    BY <1>2 DEF Connect, FirstIps
  <2>3. \A q \in Address : session'[q] >= session[q]
    BY <1>2, <2>1, BoundAssumption DEF Connect
  <2>4. ASSUME c.local \notin FirstIps(connected) PROVE session'[c.local] > session[c.local]
    BY <1>2, <2>1, <2>4, BoundAssumption DEF Connect
  <2>5. \A q \in Address : q \in FirstIps(connected') =>
                              q \in FirstIps(connected) \/ session'[q] > session[q]
    BY <2>2, <2>4
  <2>6. UNCHANGED <<disk, process, reported, history, now, faults, trusted>>
    BY <1>2 DEF Connect
  <2> QED
    BY <2>3, <2>5, <2>6
<1>3. ASSUME NEW c \in Connection, Disconnect(c) PROVE HostEffect
  <2>1. FirstIps(connected') \subseteq FirstIps(connected)
    BY <1>3 DEF Disconnect, FirstIps
  <2>2. \A q \in Address : session[q] \in Nat
    BY BoundAssumption
  <2>3. UNCHANGED <<disk, process, reported, history, now, faults, trusted, session>>
    BY <1>3 DEF Disconnect
  <2> QED
    BY <2>1, <2>2, <2>3
<1>4. ASSUME NEW q \in Address, EditWhitelist(q) PROVE HostEffect
  <2>1. /\ \A f \in Fault : faults'[f] = 0 => faults[f] = 0
        /\ faults'["trust"] > 0
    BY <1>4, FaultCounted DEF EditWhitelist, Fault
  <2> QED
    BY <1>4, <2>1, BoundAssumption DEF EditWhitelist
<1>5. CASE PassTime
  BY <1>5, BoundAssumption DEF PassTime
<1> QED
  BY <1>1, <1>2, <1>3, <1>4, <1>5, EditAssumption DEF Host

-----------------------------------------------------------------------------
(* The invariant *)

(* It holds initially. *)
LEMMA InvInit == Init => IInv
<1> SUFFICES ASSUME Init PROVE IInv
  OBVIOUS
<1>1. TypeOK
  BY TypeInit
<1> USE DEF Init, Key
<1>2. ControlInv
  BY DEF ControlInv
<1>3. PortInv
  BY DEF PortInv, Pending, Unprinted
<1>4. DedupInv
  BY DEF DedupInv, ToldEntry, Untold
<1>5. SessionInv
  BY DEF SessionInv, SessionsTold, Pending, Unprinted
<1>6. RepeatInv
  BY DEF RepeatInv, SessionEntries, Pending, Untold, FirstIps
<1> QED
  BY <1>2, <1>3, <1>4, <1>5, <1>6 DEF IInv

(* A run starts from the saved document and ends with it. *)
LEMMA ControlStep == TypeOK /\ ControlInv /\ [Next]_vars => ControlInv'
<1> SUFFICES ASSUME TypeOK, ControlInv, [Next]_vars PROVE ControlInv'
  OBVIOUS
<1> USE DEF ControlInv, Goto, process, history
<1>1. CASE Host
  BY <1>1, HostStep DEF HostEffect
<1>2. CASE Start
  BY <1>2 DEF Start
<1>3. CASE CheckPorts
  <2>1. \A a \in alerts' : a.event # "session"
    BY <1>3 DEF CheckPorts
  <2> QED
    BY <1>3, <2>1 DEF CheckPorts
<1>4. CASE CheckSsh
  <2>1. pc' \notin {"idle", "ports", "ssh"}
    BY <1>4 DEF CheckSsh
  <2>2. ASSUME NEW ips, SshOutcome(ips)
        PROVE  \A a \in alerts' : a.event = "session" => a.key \in mem'.active
    <3>1. \A q \in ips \ trusted : q \in mem'.active
      BY <2>2 DEF SshOutcome, TypeOK, Document
    <3> QED
      BY <1>4, <2>2, <3>1 DEF SshOutcome, CheckSsh
  <2> QED
    BY <1>4, <2>1, <2>2 DEF CheckSsh
<1>5. CASE Digest
  <2>1. mem'.active = mem.active
    BY <1>5 DEF Digest, TypeOK, Document
  <2> QED
    BY <1>5, <2>1 DEF Digest
<1>6. CASE SkipDigest
  BY <1>6 DEF SkipDigest
<1>7. ASSUME NEW a \in Alert, Suppress(a) PROVE ControlInv'
  BY <1>7 DEF Suppress
<1>8. ASSUME NEW a \in Alert, Report(a) PROVE ControlInv'
  <2>1. mem'.active = mem.active
    BY <1>8 DEF Report, TypeOK, Document
  <2> QED
    BY <1>8, <2>1 DEF Report
<1>9. CASE Finish
  BY <1>9 DEF Finish
<1>10. CASE Kill
  BY <1>10 DEF Kill
<1>11. CASE UNCHANGED vars
  BY <1>11 DEF vars
<1>12. CASE Show
  BY <1>12 DEF Show
<1> QED
  BY <1>1, <1>2, <1>3, <1>4, <1>5, <1>6, <1>7, <1>8, <1>9, <1>10, <1>11, <1>12 DEF Next, Run

(* Alerts about sessions, and only they, have an address as their key. *)
LEMMA AlertKeys ==
  ASSUME NEW a \in Alert
  PROVE  /\ a.key \in Key
         /\ a.event \in {"opened", "closed"} => a.key \in Port /\ a.key \notin Address
         /\ a.event = "session" => a.key \in Address /\ a.key \notin Port
         /\ a.event \in {"opened", "closed", "session"}
         /\ a = [key |-> a.key, event |-> a.event]
BY KeyAssumption DEF Alert, Key

(* What is told of a set of new alerts: their keys are in the log, opened  *)
(* ports accounted for, sessions heard of; nothing else lapses or does not. *)
LEMMA ToldEffect ==
  ASSUME TypeOK, NEW new \in SUBSET Alert, Tell(new)
  PROVE  /\ \A k \in Key : k \in {a.key : a \in new} =>
              /\ reported'[k].at = mem'.dedup[k]
              /\ k \in Address => reported'[k].nth = session[k]
         /\ \A k \in Key : k \notin {a.key : a \in new} => reported'[k] = reported[k]
         /\ accounted' = accounted \cup {a.key : a \in {b \in new : b.event = "opened"}}
         /\ unheard' = unheard \ {a.key : a \in {b \in new : b.event = "session"}}
         /\ lapsed' \subseteq lapsed
         /\ \A x \in Port : x \in lapsed => x \in lapsed' \cup accounted'
         /\ \A q \in Address : q \in lapsed /\ q \in unheard' => q \in lapsed'
<1> DEFINE keys(events) == {a.key : a \in {b \in new : b.event \in events}}
<1>1. /\ reported' = [k \in Key |->
           IF k \in keys({"opened", "closed", "session"})
           THEN [at |-> mem'.dedup[k], nth |-> IF k \in Address THEN session[k] ELSE 0]
           ELSE reported[k]]
      /\ accounted' = accounted \cup keys({"opened"})
      /\ unheard' = unheard \ keys({"session"})
      /\ lapsed' = lapsed \ keys({"opened", "session"})
  BY DEF Tell
<1>2. /\ keys({"opened", "closed", "session"}) = {a.key : a \in new}
      /\ keys({"opened"}) = {a.key : a \in {b \in new : b.event = "opened"}}
      /\ keys({"session"}) = {a.key : a \in {b \in new : b.event = "session"}}
      /\ keys({"opened", "session"}) = keys({"opened"}) \cup keys({"session"})
  BY AlertKeys
<1>3. keys({"opened"}) \cap Address = {} /\ keys({"session"}) \cap Port = {}
  BY AlertKeys
<1> HIDE DEF keys
<1>4. \A k \in Key : k \in {a.key : a \in new} =>
        reported'[k] = [at |-> mem'.dedup[k], nth |-> IF k \in Address THEN session[k] ELSE 0]
  BY <1>1, <1>2
<1>5. \A k \in Key : k \notin {a.key : a \in new} => reported'[k] = reported[k]
  BY <1>1, <1>2
<1> QED
  BY <1>1, <1>2, <1>3, <1>4, <1>5

(* What a save leaves of the ports and addresses that are accounted for:   *)
(* a port is never absent.                                                 *)
LEMMA PortsKept ==
  ASSUME TypeOK, NEW doc, NEW pending \in SUBSET Alert, SaveOrFail(doc, pending)
  PROVE  \A x \in Port : x \in lapsed => x \in lapsed'
BY KeyAssumption DEF SaveOrFail, TypeOK

(* No action makes a port known to a saved document without an account.    *)
LEMMA PortStep == TypeOK /\ ControlInv /\ PortInv /\ [Next]_vars => PortInv'
<1> SUFFICES ASSUME TypeOK, ControlInv, PortInv, [Next]_vars PROVE PortInv'
  OBVIOUS
<1> USE DEF PortInv, Pending, Unprinted, Goto, process, history
<1>1. CASE Host
  BY <1>1, HostStep DEF HostEffect
<1>2. CASE Start
  <2>1. alerts' = {} /\ mem' = disk /\ UNCHANGED <<disk, accounted, lapsed, unlogged>>
    BY <1>2 DEF Start
  <2> QED
    BY <2>1
<1>3. CASE CheckPorts
  <2>1. mem = disk /\ alerts = {} /\ unlogged = {} /\ UNCHANGED <<disk, accounted, unlogged>>
    BY <1>3 DEF CheckPorts, ControlInv
  <2>2. CASE UNCHANGED <<mem, alerts, lapsed>>
    BY <2>1, <2>2
  <2>3. ASSUME NEW out \in Output,
               alerts' =
                 {[key |-> x, event |-> "opened"] :
                    x \in IF mem.known.ok THEN out.ports \ mem.known.ports ELSE {}}
                 \cup {[key |-> x, event |-> "closed"] : x \in mem.known.ports \ out.ports},
               mem' = [mem EXCEPT !.known = out],
               lapsed' = IF mem.known.ok THEN lapsed ELSE lapsed \cup (out.ports \ accounted)
        PROVE  PortInv'
    <3>1. mem'.known.ports = out.ports /\ mem'.dedup = mem.dedup
      BY <2>3 DEF TypeOK, Document
    <3>2. Pending("closed")' \subseteq mem.known.ports \ out.ports
      BY <2>3
    <3>3. ASSUME mem.known.ok, NEW x \in out.ports \ mem.known.ports
          PROVE  x \in Pending("opened")'
      <4>1. [key |-> x, event |-> "opened"] \in alerts'
        BY <2>3, <3>3
      <4> QED
        BY <4>1
    <3>4. mem.known.ports \subseteq accounted \cup lapsed'
      BY <2>1, <2>3
    <3> HIDE DEF PortInv, Pending, Unprinted
    <3>5. mem'.known.ports \subseteq (accounted \cup lapsed \cup Pending("opened"))'
      BY <2>1, <2>3, <3>1, <3>3, <3>4
    <3>6. disk'.known.ports \subseteq accounted' \cup lapsed'
      BY <2>1, <3>4
    <3>7. Pending("closed")' \subseteq accounted' \cup lapsed'
      BY <2>1, <3>2, <3>4
    <3>8. \A x \in Port : disk'.dedup[x] # Never \/ mem'.dedup[x] # Never
                           => x \in accounted' \cup lapsed'
      BY <2>1, <2>3, <3>1 DEF PortInv
    <3> QED
      BY <3>5, <3>6, <3>7, <3>8 DEF PortInv
  <2> QED
    BY <1>3, <2>2, <2>3 DEF CheckPorts
<1>4. CASE CheckSsh
  <2>1. UNCHANGED <<disk, accounted, lapsed, unlogged>>
    BY <1>4 DEF CheckSsh
  <2>2. ASSUME NEW ips \in SUBSET Address, SshOutcome(ips) PROVE PortInv'
    <3>1. /\ Pending("opened")' = Pending("opened")
          /\ Pending("closed")' = Pending("closed")
      BY <2>2 DEF SshOutcome
    <3>2. mem'.known = mem.known
      BY <2>2 DEF SshOutcome, TypeOK, Document
    <3>3. \A x \in Port : mem'.dedup[x] = mem.dedup[x]
      <4> DEFINE open == (mem.active \ (ips \cap trusted)) \cup (ips \ trusted)
      <4>1. mem'.dedup = [k \in Key |-> IF k \in open \ ips THEN Never ELSE mem.dedup[k]]
        BY <2>2 DEF SshOutcome, TypeOK, Document
      <4>2. open \subseteq Address
        BY <2>2 DEF TypeOK, Document
      <4> QED
        BY <4>1, <4>2, KeyAssumption DEF Key
    <3> QED
      BY <2>1, <3>1, <3>2, <3>3
  <2>3. FirstIps(connected) \in SUBSET Address
    BY DEF FirstIps, Connection, Address, TypeOK
  <2>4. CASE UNCHANGED <<mem, alerts>>
    BY <2>1, <2>4
  <2> QED
    BY <1>4, <2>2, <2>3, <2>4 DEF CheckSsh
<1>5. CASE Digest
  <2>1. /\ mem'.known = mem.known /\ mem'.dedup = mem.dedup
        /\ SaveOrFail(mem', alerts)
        /\ UNCHANGED <<alerts, accounted, unlogged>> /\ unlogged = {}
    BY <1>5 DEF Digest, TypeOK, Document, ControlInv
  <2>2. disk' = mem' \/ UNCHANGED <<disk, lapsed>>
    BY <2>1 DEF SaveOrFail
  <2>3. \A x \in Port : x \in lapsed => x \in lapsed'
    BY <2>1, PortsKept DEF TypeOK
  <2>4. ASSUME disk' = mem', ~UNCHANGED <<disk, lapsed>>
        PROVE  Pending("opened") \subseteq lapsed'
    BY <2>1, <2>4 DEF SaveOrFail
  <2>5. /\ disk.known.ports \subseteq Port /\ mem.known.ports \subseteq Port
        /\ Pending("closed") \subseteq Port
    BY AlertKeys DEF TypeOK, Document, Output
  <2> QED
    BY <2>1, <2>2, <2>3, <2>4, <2>5
<1>6. CASE SkipDigest
  BY <1>6 DEF SkipDigest
<1>7. ASSUME NEW a \in Alert, Suppress(a) PROVE PortInv'
  <2>1. /\ UNCHANGED <<disk, mem, accounted, lapsed, unlogged>>
        /\ alerts' = alerts \ {a} /\ IsDuplicate(a)
    BY <1>7 DEF Suppress
  <2>2. a.event = "opened" => a.key \in accounted \cup lapsed \cup Unprinted("opened")
    BY <2>1, AlertKeys DEF IsDuplicate
  <2> QED
    BY <2>1, <2>2
<1>8. ASSUME NEW a \in Alert, Report(a) PROVE PortInv'
  <2>1. /\ mem'.known = mem.known
        /\ mem'.dedup = [mem.dedup EXCEPT ![a.key] = now]
        /\ alerts' = alerts \ {a} /\ a \in alerts /\ disk' = disk
    BY <1>8 DEF Report, TypeOK, Document
  <2>2. \A x \in Port \ {a.key} : mem'.dedup[x] = mem.dedup[x]
    BY <2>1 DEF TypeOK, Document, Key
  <2>3. /\ disk.known.ports \subseteq Port /\ mem.known.ports \subseteq Port
        /\ Pending("closed") \subseteq Port /\ Pending("opened") \subseteq Port
    BY AlertKeys DEF TypeOK, Document, Output
  <2>4. /\ Pending("closed")' \subseteq Pending("closed")
        /\ Pending("opened") \subseteq Pending("opened")' \cup
             (IF a.event = "opened" THEN {a.key} ELSE {})
        /\ a.event = "closed" => a.key \in Pending("closed")
    BY <2>1, AlertKeys
  <2>5. a.key \in Port => a.event \in {"opened", "closed"}
    BY AlertKeys
  <2>6. CASE Tell({a}) /\ UNCHANGED unlogged
    <3>1. {a} \in SUBSET Alert
      OBVIOUS
    <3>2. /\ \A x \in Port : x \in accounted \cup lapsed => x \in accounted' \cup lapsed'
          /\ a.event = "opened" => a.key \in accounted'
          /\ Unprinted("opened")' = Unprinted("opened")
      BY <2>6, <3>1, ToldEffect
    <3> HIDE DEF Pending, Unprinted
    <3>3. a.key \in Port => a.key \in accounted' \cup lapsed'
      BY <2>4, <2>5, <3>2
    <3> QED
      BY <2>1, <2>2, <2>3, <2>4, <3>2, <3>3
  <2>7. CASE unlogged' = unlogged \cup {a} /\ UNCHANGED <<accounted, lapsed>>
    <3>1. /\ Unprinted("opened") \subseteq Unprinted("opened")'
          /\ a.event = "opened" => a.key \in Unprinted("opened")'
      BY <2>7
    <3> HIDE DEF Pending, Unprinted
    <3> QED
      BY <2>1, <2>2, <2>3, <2>4, <2>5, <2>7, <3>1
  <2> QED
    BY <1>8, <2>6, <2>7 DEF Report
<1>9. CASE Finish
  <2>1. /\ mem' = disk' /\ alerts = {} /\ unlogged = {} /\ SaveOrFail(mem, {})
        /\ UNCHANGED <<alerts, accounted, unlogged>>
    BY <1>9 DEF Finish, ControlInv
  <2>2. disk' = mem \/ UNCHANGED <<disk, lapsed>>
    BY <2>1 DEF SaveOrFail
  <2>3. \A x \in Port : x \in lapsed => x \in lapsed'
    BY <2>1, PortsKept DEF TypeOK
  <2>4. disk.known.ports \subseteq Port /\ mem.known.ports \subseteq Port
    BY DEF TypeOK, Document, Output
  <2> QED
    BY <2>1, <2>2, <2>3, <2>4
<1>10. CASE Kill
  <2>1. alerts' = {} /\ unlogged' = {} /\ mem' = disk /\ UNCHANGED <<disk, accounted, lapsed>>
    BY <1>10 DEF Kill
  <2> QED
    BY <2>1
<1>11. CASE UNCHANGED vars
  BY <1>11 DEF vars
<1>12. CASE Show
  <2>1. /\ UNCHANGED <<disk, mem, alerts>> /\ alerts = {} /\ unlogged' = {}
        /\ Tell(unlogged) /\ unlogged \in SUBSET Alert
    BY <1>12 DEF Show, TypeOK
  <2>2. /\ \A x \in Port : x \in accounted \cup lapsed => x \in accounted' \cup lapsed'
        /\ Unprinted("opened") \subseteq accounted'
    BY <2>1, ToldEffect
  <2>3. /\ disk.known.ports \subseteq Port /\ mem.known.ports \subseteq Port
        /\ Pending("closed") = {} /\ Pending("closed")' = {} /\ Pending("opened") = {}
    BY <2>1 DEF TypeOK, Document, Output
  <2> HIDE DEF Pending, Unprinted
  <2> QED
    BY <2>1, <2>2, <2>3
<1> QED
  BY <1>1, <1>2, <1>3, <1>4, <1>5, <1>6, <1>7, <1>8, <1>9, <1>10, <1>11, <1>12 DEF Next, Run

(* The SSH check: what it leaves of the sessions and of the entries.       *)
LEMMA SshEffect ==
  ASSUME TypeOK, NEW ips \in SUBSET Address, SshOutcome(ips)
  PROVE  /\ mem'.active = ips \ trusted
         /\ \A k \in Key : mem'.dedup[k] \in {mem.dedup[k], Never}
         /\ \A k \in Key : k \notin (mem.active \cup ips) \ ips => mem'.dedup[k] = mem.dedup[k]
         /\ \A q \in mem.active \ ips :
              q \in Address /\ mem'.dedup[q] = Never
         /\ alerts' = alerts \cup
              {[key |-> q, event |-> "session"] : q \in (ips \ trusted) \ mem.active}
<1> DEFINE open == (mem.active \ (ips \cap trusted)) \cup (ips \ trusted)
<1>1. /\ mem'.active = open \ (open \ ips)
      /\ mem'.dedup = [k \in Key |-> IF k \in open \ ips THEN Never ELSE mem.dedup[k]]
      /\ alerts' = alerts \cup
           {[key |-> q, event |-> "session"] : q \in (ips \ trusted) \ mem.active}
  BY DEF SshOutcome, TypeOK, Document
<1>2. open \ ips = mem.active \ ips
  OBVIOUS
<1>3. open \ (open \ ips) = ips \ trusted
  OBVIOUS
<1>4. mem.active \subseteq Address
  BY DEF TypeOK, Document
<1> HIDE DEF open
<1> QED
  BY <1>1, <1>2, <1>3, <1>4 DEF Key

(* Entries stay those of alerts that were told, or are about to be.        *)
LEMMA DedupStep == TypeOK /\ ControlInv /\ DedupInv /\ [Next]_vars => DedupInv'
<1> SUFFICES ASSUME TypeOK, ControlInv, DedupInv, [Next]_vars PROVE DedupInv'
  OBVIOUS
<1> USE Times DEF DedupInv, ToldEntry, Untold, Goto, process, history
<1>0. /\ disk \in Document /\ mem \in Document /\ now \in Nat
      /\ \A k \in Key : /\ reported[k].at \in Nat
                        /\ disk.dedup[k] \in Nat /\ mem.dedup[k] \in Nat
  BY DEF TypeOK, Document
<1>1. CASE Host
  <2>1. UNCHANGED <<disk, mem, reported, unlogged>> /\ now' >= now /\ now' \in Nat
    BY <1>1, HostStep, TypeStep DEF HostEffect, TypeOK
  <2> QED
    BY <1>0, <2>1
<1>2. CASE Start
  BY <1>2 DEF Start, host, ControlInv
<1>3. CASE CheckPorts
  <2>1. mem'.dedup = mem.dedup /\ UNCHANGED <<disk, reported, now, unlogged>>
    BY <1>3 DEF CheckPorts, host, TypeOK, Document
  <2> QED
    BY <2>1
<1>4. CASE CheckSsh
  <2>1. FirstIps(connected) \in SUBSET Address
    BY DEF FirstIps, Connection, Address, TypeOK
  <2>2. /\ UNCHANGED <<disk, reported, now, unlogged>> /\ unlogged = {}
        /\ \A k \in Key : mem'.dedup[k] \in {mem.dedup[k], Never}
    BY <1>4, <2>1, SshEffect DEF CheckSsh, host, ControlInv
  <2> QED
    BY <2>2
<1>5. CASE Digest
  <2>1. /\ mem'.dedup = mem.dedup /\ disk' \in {disk, mem'}
        /\ UNCHANGED <<reported, now, unlogged>> /\ unlogged = {}
    BY <1>5 DEF Digest, SaveOrFail, host, TypeOK, Document, ControlInv
  <2> QED
    BY <2>1
<1>6. CASE SkipDigest
  BY <1>6 DEF SkipDigest, host
<1>7. ASSUME NEW a \in Alert, Suppress(a) PROVE DedupInv'
  BY <1>7 DEF Suppress, host
<1>8. ASSUME NEW a \in Alert, Report(a) PROVE DedupInv'
  <2>1. /\ mem'.dedup = [mem.dedup EXCEPT ![a.key] = now] /\ a.key \in Key
        /\ UNCHANGED <<disk, now>>
    BY <1>8, AlertKeys DEF Report, host, TypeOK, Document
  <2>2. /\ mem'.dedup[a.key] = now /\ now # Never
        /\ \A k \in Key \ {a.key} : mem'.dedup[k] = mem.dedup[k]
    BY <2>1 DEF TypeOK, Document
  <2>3. CASE Tell({a}) /\ UNCHANGED unlogged
    <3>1. {a} \in SUBSET Alert /\ a.key \in {b.key : b \in {a}}
      OBVIOUS
    <3>2. \A k \in Key : k # a.key => k \notin {b.key : b \in {a}}
      OBVIOUS
    <3>3. /\ reported'[a.key].at = now
          /\ \A k \in Key \ {a.key} : reported'[k] = reported[k]
      BY <2>1, <2>2, <2>3, <3>1, <3>2, ToldEffect
    <3> QED
      BY <1>0, <2>1, <2>2, <2>3, <3>3
  <2>4. CASE unlogged' = unlogged \cup {a} /\ UNCHANGED reported
    <3>1. Untold' = Untold \cup {a.key}
      BY <2>4
    <3> HIDE DEF Untold
    <3> QED
      BY <1>0, <2>1, <2>2, <2>4, <3>1
  <2> QED
    BY <1>8, <2>3, <2>4 DEF Report
<1>9. CASE Finish
  <2>1. /\ disk' \in {disk, mem} /\ mem' = disk'
        /\ UNCHANGED <<reported, now, unlogged>> /\ unlogged = {}
    BY <1>9 DEF Finish, SaveOrFail, host, ControlInv
  <2> QED
    BY <2>1
<1>10. CASE Kill
  BY <1>10 DEF Kill, host
<1>11. CASE UNCHANGED vars
  BY <1>11 DEF vars, host
<1>12. CASE Show
  <2>1. /\ UNCHANGED <<disk, mem, now>> /\ unlogged' = {}
        /\ Tell(unlogged) /\ unlogged \in SUBSET Alert
    BY <1>12 DEF Show, TypeOK, host
  <2>2. Untold = {a.key : a \in unlogged} /\ Untold' = {}
    BY <2>1
  <2> HIDE DEF Untold
  <2>3. \A k \in Key : /\ k \in Untold => reported'[k].at = mem.dedup[k]
                       /\ k \notin Untold => reported'[k] = reported[k]
    BY <2>1, <2>2, ToldEffect
  <2> QED
    BY <1>0, <2>1, <2>2, <2>3
<1> QED
  BY <1>1, <1>2, <1>3, <1>4, <1>5, <1>6, <1>7, <1>8, <1>9, <1>10, <1>11, <1>12 DEF Next, Run

(* Faults are counted and never forgotten. *)
LEMMA FaultsStay ==
  TypeOK /\ [Next]_vars => /\ \A f \in Fault : faults'[f] = 0 => faults[f] = 0
                           /\ faults'["trust"] = 0 => UNCHANGED trusted
                           /\ Kill => faults'["kill"] # 0
<1> SUFFICES ASSUME TypeOK, [Next]_vars
             PROVE  /\ \A f \in Fault : faults'[f] = 0 => faults[f] = 0
                    /\ faults'["trust"] = 0 => UNCHANGED trusted
                    /\ Kill => faults'["kill"] # 0
  OBVIOUS
<1>1. faults \in [Fault -> Nat]
  BY DEF TypeOK
<1>2. \A f \in Fault :
        Suffer(f) => faults'[f] # 0 /\ \A g \in Fault : faults'[g] = 0 => faults[g] = 0
  BY <1>1, FaultCounted
<1>3. Kill => faults'["kill"] # 0
  BY <1>2 DEF Kill, Fault
<1>4. Host => /\ \A f \in Fault : faults'[f] = 0 => faults[f] = 0
              /\ faults'["trust"] = 0 => UNCHANGED trusted
  BY HostStep DEF HostEffect
<1>5. Run \/ Kill \/ UNCHANGED vars =>
        /\ UNCHANGED trusted
        /\ UNCHANGED faults \/ \E f \in Fault : Suffer(f)
  BY DEF Run, Start, CheckPorts, Probe, CheckSsh, Digest, SkipDigest, Suppress, Report, Show, Finish,
         Kill, SaveOrFail, host, vars, Fault
<1> QED
  BY <1>2, <1>3, <1>4, <1>5 DEF Next

(* A saved document forgets no session alert: what is active and unheard   *)
(* is not absent, so it has lapsed or is about to be reported.             *)
LEMMA SavedSessions ==
  ASSUME NEW doc, NEW pending, SaveOrFail(doc, pending),
         disk.active \cap unheard \subseteq lapsed,
         doc.active \cap absent = {},
         doc.active \cap unheard \subseteq
           lapsed \cup {a.key : a \in {b \in pending : b.event = "session"}}
  PROVE  /\ disk'.active \cap unheard' \subseteq lapsed'
         /\ doc.active \cap unheard' \subseteq
              lapsed' \cup {a.key : a \in {b \in pending : b.event = "session"}}
<1>1. CASE UNCHANGED <<disk, unheard, lapsed>>
  BY <1>1
<1>2. CASE /\ disk' = doc /\ unheard' = unheard \cup absent
           /\ lapsed' = (lapsed \ absent) \cup {a.key : a \in {b \in pending : b.event # "closed"}}
  <2>1. {a.key : a \in {b \in pending : b.event = "session"}} \subseteq lapsed'
    BY <1>2
  <2> QED
    BY <1>2, <2>1
<1> QED
  BY <1>1, <1>2 DEF SaveOrFail

(* As long as the whitelist is not edited, an active session is reported,  *)
(* lapsed or about to be.                                                  *)
LEMMA SessionStep == TypeOK /\ ControlInv /\ SessionInv /\ [Next]_vars => SessionInv'
<1> SUFFICES ASSUME TypeOK, ControlInv, SessionsTold, [Next]_vars, UNCHANGED trusted
             PROVE  SessionsTold'
  BY FaultsStay DEF SessionInv, Fault
<1> USE DEF SessionsTold, Unprinted, Goto, process, history
<1>1. CASE Host
  BY <1>1, HostStep DEF HostEffect, Pending
<1>2. CASE Start
  <2>1. alerts = {} /\ alerts' = {} /\ mem' = disk /\ absent = {}
        /\ UNCHANGED <<disk, unheard, lapsed, absent, unlogged>>
    BY <1>2 DEF Start, ControlInv
  <2> QED
    BY <2>1 DEF Pending
<1>3. CASE CheckPorts
  <2>1. /\ mem'.active = mem.active /\ mem'.dedup = mem.dedup
        /\ lapsed \subseteq lapsed' /\ UNCHANGED <<disk, unheard, absent, unlogged>>
    BY <1>3 DEF CheckPorts, TypeOK, Document
  <2>2. Pending("session")' = {} /\ Pending("session") = {}
    BY <1>3 DEF CheckPorts, ControlInv, Pending
  <2> QED
    BY <2>1, <2>2
<1>4. CASE CheckSsh
  <2>1. Pending("session") = {} /\ unlogged = {} /\ UNCHANGED <<disk, unheard, lapsed, unlogged>>
    BY <1>4 DEF CheckSsh, ControlInv, Pending
  <2>2. ASSUME NEW ips \in SUBSET Address, SshOutcome(ips), absent' \cap ips = {}
        PROVE  SessionsTold'
    <3>1. Pending("session")' \subseteq ips \ mem.active
      BY <2>1, <2>2, SshEffect DEF Pending
    <3>2. ips \ mem.active \subseteq Pending("session")'
      <4> SUFFICES ASSUME NEW q \in ips \ mem.active PROVE q \in Pending("session")'
        OBVIOUS
      <4>1. [key |-> q, event |-> "session"] \in alerts'
        BY <2>2, SshEffect
      <4> QED
        BY <4>1 DEF Pending
    <3>3. mem'.active = ips
      BY <2>2, SshEffect
    <3>4. \A q \in Address : /\ mem'.dedup[q] \in {mem.dedup[q], Never}
                             /\ q \in mem.active \ ips => mem'.dedup[q] = Never
      BY <2>2, SshEffect DEF Key
    <3> QED
      BY <2>1, <2>2, <3>1, <3>2, <3>3, <3>4
  <2>3. FirstIps(connected) \in SUBSET Address
    BY DEF FirstIps, Connection, Address, TypeOK
  <2>4. CASE UNCHANGED <<mem, alerts>> /\ absent' = {}
    BY <2>1, <2>4 DEF Pending
  <2> QED
    BY <1>4, <2>2, <2>3, <2>4 DEF CheckSsh
<1>5. CASE Digest
  <2>1. /\ mem'.active = mem.active /\ mem'.dedup = mem.dedup
        /\ SaveOrFail(mem', alerts) /\ UNCHANGED <<alerts, absent, unlogged>> /\ unlogged = {}
    BY <1>5 DEF Digest, TypeOK, Document, ControlInv
  <2>2. disk' = mem' \/ disk' = disk
    BY <2>1 DEF SaveOrFail
  <2>3. Pending("session")' = Pending("session")
    BY <2>1 DEF Pending
  <2>4. /\ disk'.active \cap unheard' \subseteq lapsed'
        /\ mem'.active \cap unheard' \subseteq lapsed' \cup Pending("session")
    BY <2>1, SavedSessions DEF Pending
  <2> QED
    BY <2>1, <2>2, <2>3, <2>4
<1>6. CASE SkipDigest
  BY <1>6 DEF SkipDigest, Pending
<1>7. ASSUME NEW a \in Alert, Suppress(a) PROVE SessionsTold'
  <2>1. UNCHANGED <<disk, mem, unheard, lapsed, absent, unlogged>> /\ alerts' = alerts \ {a}
    BY <1>7 DEF Suppress
  <2>2. a.event # "session"
    BY <1>7 DEF Suppress, IsDuplicate, Pending
  <2>3. Pending("session")' = Pending("session")
    BY <2>1, <2>2 DEF Pending
  <2> QED
    BY <2>1, <2>3
<1>8. ASSUME NEW a \in Alert, Report(a) PROVE SessionsTold'
  <2>1. /\ mem'.active = mem.active
        /\ mem'.dedup = [mem.dedup EXCEPT ![a.key] = now]
        /\ alerts' = alerts \ {a} /\ a \in alerts /\ UNCHANGED <<disk, absent>>
    BY <1>8 DEF Report, TypeOK, Document
  <2>2. \A q \in Address \ {a.key} : mem'.dedup[q] = mem.dedup[q]
    BY <2>1 DEF TypeOK, Document, Key
  <2>3. a.key \in Address => a.key \in mem.active
    BY <2>1, AlertKeys DEF ControlInv
  <2>4. Pending("session")' = Pending("session") \ {a.key}
    <3>1. \A b \in alerts : b.event = "session" /\ b.key = a.key => b = a
      BY AlertKeys DEF TypeOK
    <3> QED
      BY <2>1, <3>1 DEF Pending
  <2>5. Pending("session") \subseteq Address
    BY AlertKeys DEF Pending, TypeOK
  <2>6. a.key \in Pending("session") => a.event = "session"
    BY <2>1, <2>5, AlertKeys
  <2>7. /\ mem'.active \cap absent' = {}
        /\ \A q \in Address : disk'.dedup[q] # Never => q \in disk'.active
        /\ \A q \in Address : mem'.dedup[q] # Never => q \in mem'.active
        /\ \A q \in Pending("session")' : mem'.dedup[q] = Never
    BY <2>1, <2>2, <2>3, <2>4, <2>5
  <2>8. disk.active \subseteq Address /\ mem.active \subseteq Address
    BY DEF TypeOK, Document
  <2>9. CASE Tell({a}) /\ UNCHANGED unlogged
    <3>1. {a} \in SUBSET Alert
      OBVIOUS
    <3>2. /\ unheard' \subseteq unheard
          /\ a.event = "session" => a.key \notin unheard'
          /\ \A q \in Address : q \in lapsed /\ q \in unheard' => q \in lapsed'
      BY <2>9, <3>1, ToldEffect
    <3>3. Unprinted("session")' = Unprinted("session")
      BY <2>9
    <3> HIDE DEF Unprinted
    <3> QED
      BY <2>1, <2>4, <2>6, <2>7, <2>8, <3>2, <3>3
  <2>10. CASE unlogged' = unlogged \cup {a} /\ UNCHANGED <<unheard, lapsed>>
    <3>1. /\ Unprinted("session") \subseteq Unprinted("session")'
          /\ a.event = "session" => a.key \in Unprinted("session")'
      BY <2>10
    <3> HIDE DEF Unprinted
    <3> QED
      BY <2>1, <2>4, <2>6, <2>7, <2>8, <2>10, <3>1
  <2> QED
    BY <1>8, <2>9, <2>10 DEF Report
<1>9. CASE Finish
  <2>1. mem' = disk' /\ Pending("session") = {} /\ Pending("session")' = {} /\ absent' = {}
        /\ SaveOrFail(mem, {}) /\ unlogged = {} /\ UNCHANGED unlogged
    BY <1>9 DEF Finish, Pending, ControlInv
  <2>2. disk' = mem \/ disk' = disk
    BY <2>1 DEF SaveOrFail
  <2>3. disk'.active \cap unheard' \subseteq lapsed'
    <3>1. mem.active \cap unheard \subseteq
            lapsed \cup {a.key : a \in {b \in {} : b.event = "session"}}
      BY <2>1
    <3> QED
      BY <2>1, <3>1, SavedSessions
  <2> QED
    BY <2>1, <2>2, <2>3
<1>10. CASE Kill
  <2>1. /\ alerts' = {} /\ unlogged' = {} /\ mem' = disk /\ absent' = {}
        /\ UNCHANGED <<disk, unheard, lapsed>>
    BY <1>10 DEF Kill
  <2> QED
    BY <2>1 DEF Pending
<1>11. CASE UNCHANGED vars
  BY <1>11 DEF vars, Pending
<1>12. CASE Show
  <2>1. /\ UNCHANGED <<disk, mem, alerts, absent>> /\ alerts = {} /\ unlogged' = {}
        /\ Tell(unlogged) /\ unlogged \in SUBSET Alert
    BY <1>12 DEF Show, TypeOK
  <2>2. /\ unheard' = unheard \ Unprinted("session")
        /\ \A q \in Address : q \in lapsed /\ q \in unheard' => q \in lapsed'
    BY <2>1, ToldEffect
  <2>3. disk.active \subseteq Address /\ mem.active \subseteq Address
    BY DEF TypeOK, Document
  <2>4. Pending("session") = {} /\ Pending("session")' = {}
    BY <2>1 DEF Pending
  <2> HIDE DEF Unprinted
  <2> QED
    BY <2>1, <2>2, <2>3, <2>4
<1> QED
  BY <1>1, <1>2, <1>3, <1>4, <1>5, <1>6, <1>7, <1>8, <1>9, <1>10, <1>11, <1>12 DEF Next, Run

(* The addresses of which a session alert can be pending, or a session     *)
(* open, are addresses.                                                    *)
LEMMA SessionAddresses ==
  TypeOK => FirstIps(connected) \subseteq Address /\ Pending("session") \subseteq Address
<1> SUFFICES ASSUME TypeOK
             PROVE  FirstIps(connected) \subseteq Address /\ Pending("session") \subseteq Address
  OBVIOUS
<1>1. FirstIps(connected) \subseteq Address
  BY DEF TypeOK, FirstIps, Connection, Address
<1>2. Pending("session") \subseteq Address
  BY AlertKeys DEF TypeOK, Pending
<1> QED
  BY <1>1, <1>2

(* What is reported is no repetition: its entry would have suppressed it.  *)
LEMMA ReportOnce ==
  ASSUME TypeOK, ControlInv, DedupInv, RepeatInv, NEW a \in Alert, Report(a)
  PROVE  ~TooEarly(a.key)
<1> SUFFICES ASSUME TooEarly(a.key) PROVE FALSE
  OBVIOUS
<1>1. a \in alerts /\ ~IsDuplicate(a)
  BY DEF Report
<1>2. faults["kill"] = 0 /\ faults["save"] = 0 /\ (a.key \in Address => faults["probe"] = 0)
  BY DEF TooEarly, Excused, TypeOK, Fault
<1>3. CASE a.key \in Port /\ now - reported[a.key].at < Day
  <2>1. CASE a.key \notin Untold
    <3>1. mem.dedup[a.key] = reported[a.key].at
      BY <1>2, <1>3, <2>1 DEF RepeatInv, Quiet
    <3> QED
      BY <1>1, <1>3, <3>1 DEF TooEarly, IsDuplicate
  <2>2. CASE a.key \in Untold
    <3>1. /\ mem.dedup[a.key] # Never /\ reported[a.key].at <= mem.dedup[a.key]
          /\ mem.dedup[a.key] \in Nat /\ reported[a.key].at \in Nat /\ now \in Nat /\ Day \in Nat
      BY <1>3, <2>2, Times, AlertKeys, DayAssumption DEF DedupInv, TooEarly, TypeOK, Document
    <3>2. ~(now - mem.dedup[a.key] < Day)
      BY <1>1, <1>3, <3>1 DEF IsDuplicate
    <3> QED
      BY <1>3, <3>1, <3>2
  <2> QED
    BY <2>1, <2>2
<1>4. CASE a.key \in Address /\ session[a.key] = reported[a.key].nth
  <2>1. a.event = "session"
    BY <1>4, AlertKeys
  <2>2. a.key \in Pending("session") /\ a.key \in mem.active
    BY <1>1, <2>1 DEF Pending, ControlInv
  <2>3. mem.dedup[a.key] # Never
    BY <1>2, <1>4, <2>2 DEF RepeatInv, SessionEntries, TooEarly, Quiet
  <2> QED
    BY <1>1, <2>2, <2>3 DEF IsDuplicate
<1> QED
  BY <1>3, <1>4 DEF TooEarly

(* Without faults no step repeats an alert. *)
LEMMA RepeatStep ==
  TypeOK /\ ControlInv /\ DedupInv /\ RepeatInv /\ [Next]_vars => RepeatInv'
<1> SUFFICES ASSUME TypeOK, ControlInv, DedupInv, RepeatInv, [Next]_vars PROVE RepeatInv'
  OBVIOUS
<1> USE DEF Untold, Goto, process, history
<1>0. /\ \A q \in Address : session[q] \in Nat /\ reported[q].nth \in Nat
      /\ mem \in Document /\ disk \in Document
      /\ Quiet' => Quiet
      /\ faults'["probe"] = 0 => faults["probe"] = 0
      /\ Kill => ~Quiet'
  <2>1. \A q \in Address : q \in Key
    BY DEF Key
  <2> QED
    BY <2>1, FaultsStay, BoundAssumption DEF TypeOK, Quiet, Fault
<1>1. CASE Host
  <2>1. /\ UNCHANGED <<mem, alerts, unlogged, reported, repeated>>
        /\ \A q \in Address :
             /\ session'[q] >= session[q]
             /\ q \in FirstIps(connected') =>
                  q \in FirstIps(connected) \/ session'[q] > session[q]
    BY <1>1, HostStep DEF HostEffect
  <2>2. \A q \in Address : session'[q] \in Nat
    BY TypeStep, BoundAssumption DEF TypeOK
  <2>3. \A q \in Address : reported'[q].nth <= session'[q]
    BY <1>0, <2>1, <2>2 DEF RepeatInv
  <2>4. ASSUME SessionEntries PROVE SessionEntries'
    <3>1. Pending("session")' = Pending("session")
      BY <2>1 DEF Pending
    <3> SUFFICES ASSUME NEW q \in FirstIps(connected') \cup Pending("session"),
                        reported[q].at # Never, reported[q].nth = session'[q]
                 PROVE  mem.dedup[q] # Never
      BY <2>1, <3>1 DEF SessionEntries
    <3>2. q \in Address
      BY TypeStep, SessionAddresses DEF TypeOK, FirstIps, Connection, Address
    <3>3. session'[q] = session[q]
      BY <1>0, <2>1, <2>2, <3>2 DEF RepeatInv
    <3>4. q \in FirstIps(connected) \cup Pending("session")
      BY <1>0, <2>1, <3>2, <3>3
    <3> QED
      BY <2>4, <3>3, <3>4 DEF SessionEntries
  <2> QED
    BY <1>0, <2>1, <2>3, <2>4 DEF RepeatInv
<1>2. CASE Start
  <2>1. /\ mem' = mem /\ alerts' = alerts
        /\ UNCHANGED <<connected, session, unlogged, reported, repeated>>
    BY <1>2 DEF Start, ControlInv, host
  <2> QED
    BY <1>0, <2>1 DEF RepeatInv, SessionEntries, Pending
<1>3. CASE CheckPorts
  <2>1. mem'.dedup = mem.dedup /\ UNCHANGED <<connected, session, unlogged, reported, repeated>>
    BY <1>3 DEF CheckPorts, host, TypeOK, Document
  <2>2. Pending("session")' = {} /\ Pending("session") = {}
    BY <1>3 DEF CheckPorts, ControlInv, Pending
  <2> QED
    BY <1>0, <2>1, <2>2 DEF RepeatInv, SessionEntries
<1>4. CASE CheckSsh
  <2>1. /\ Pending("session") = {}
        /\ UNCHANGED <<connected, session, unlogged, reported, repeated>>
        /\ FirstIps(connected) \in SUBSET Address
    BY <1>4, SessionAddresses DEF CheckSsh, ControlInv, Pending, host
  <2>2. \A x \in Port : mem'.dedup[x] = mem.dedup[x]
    <3>1. \A ips \in SUBSET Address : \A x \in Port :
            SshOutcome(ips) => mem'.dedup[x] = mem.dedup[x]
      BY SshEffect, KeyAssumption DEF Key, TypeOK, Document
    <3> QED
      BY <1>4, <2>1, <3>1 DEF CheckSsh
  <2>3. ASSUME SessionEntries, faults'["probe"] = 0 PROVE SessionEntries'
    <3>1. SshOutcome(FirstIps(connected))
      BY <1>4, <2>3, FaultCounted DEF CheckSsh, TypeOK, Fault
    <3>2. \A q \in FirstIps(connected) : mem'.dedup[q] = mem.dedup[q]
      BY <2>1, <3>1, SshEffect DEF Key
    <3>3. Pending("session")' \subseteq FirstIps(connected)
      BY <2>1, <3>1, SshEffect DEF Pending
    <3> QED
      BY <2>1, <2>3, <3>2, <3>3 DEF SessionEntries
  <2> QED
    BY <1>0, <2>1, <2>2, <2>3 DEF RepeatInv
<1>5. CASE Digest
  <2>1. /\ mem'.dedup = mem.dedup
        /\ UNCHANGED <<alerts, connected, session, unlogged, reported, repeated>>
    BY <1>5 DEF Digest, host, TypeOK, Document
  <2> QED
    BY <1>0, <2>1 DEF RepeatInv, SessionEntries, Pending
<1>6. CASE SkipDigest
  BY <1>0, <1>6 DEF SkipDigest, host, RepeatInv, SessionEntries, Pending
<1>7. ASSUME NEW a \in Alert, Suppress(a) PROVE RepeatInv'
  <2>1. UNCHANGED <<mem, connected, session, unlogged, reported, repeated>> /\ alerts' \subseteq alerts
    BY <1>7 DEF Suppress, host
  <2>2. Pending("session")' \subseteq Pending("session")
    BY <2>1 DEF Pending
  <2> QED
    BY <1>0, <2>1, <2>2 DEF RepeatInv, SessionEntries
<1>8. ASSUME NEW a \in Alert, Report(a) PROVE RepeatInv'
  <2>1. /\ mem'.dedup = [mem.dedup EXCEPT ![a.key] = now]
        /\ alerts' \subseteq alerts /\ UNCHANGED <<connected, session, now>>
    BY <1>8 DEF Report, host, TypeOK, Document
  <2>2. repeated' = {}
    BY <1>8, ReportOnce DEF Report, RepeatInv
  <2>3. /\ mem'.dedup[a.key] = now /\ now # Never /\ a.key \in Key
        /\ \A k \in Key \ {a.key} : mem'.dedup[k] = mem.dedup[k]
    BY <2>1, AlertKeys, Times DEF TypeOK, Document
  <2>4. Pending("session")' \subseteq Pending("session") /\ Address \subseteq Key /\ Port \subseteq Key
    BY <2>1 DEF Pending, Key
  <2>5. CASE Tell({a}) /\ UNCHANGED unlogged
    <3>1. {a} \in SUBSET Alert /\ a.key \in {b.key : b \in {a}}
      OBVIOUS
    <3>2. \A k \in Key : k # a.key => k \notin {b.key : b \in {a}}
      OBVIOUS
    <3>3. /\ reported'[a.key].at = now
          /\ a.key \in Address => reported'[a.key].nth = session[a.key]
          /\ \A k \in Key \ {a.key} : reported'[k] = reported[k]
      BY <2>3, <2>5, <3>1, <3>2, ToldEffect
    <3>4. \A q \in Address : reported'[q].nth <= session'[q]
      BY <1>0, <2>1, <2>4, <3>3 DEF RepeatInv
    <3>5. ASSUME Quiet PROVE \A x \in Port \ Untold' : mem'.dedup[x] = reported'[x].at
      BY <2>3, <2>4, <2>5, <3>3, <3>5 DEF RepeatInv
    <3>6. ASSUME SessionEntries PROVE SessionEntries'
      BY <2>1, <2>3, <2>4, <3>3, <3>6, SessionAddresses DEF SessionEntries
    <3> QED
      BY <1>0, <2>2, <3>4, <3>5, <3>6 DEF RepeatInv
  <2>6. CASE unlogged' = unlogged \cup {a} /\ UNCHANGED reported
    <3>1. ASSUME Quiet PROVE \A x \in Port \ Untold' : mem'.dedup[x] = reported'[x].at
      BY <2>3, <2>4, <2>6, <3>1 DEF RepeatInv
    <3>2. ASSUME SessionEntries PROVE SessionEntries'
      BY <2>1, <2>3, <2>4, <2>6, <3>2, SessionAddresses DEF SessionEntries
    <3> QED
      BY <1>0, <2>1, <2>2, <2>6, <3>1, <3>2 DEF RepeatInv
  <2> QED
    BY <1>8, <2>5, <2>6 DEF Report
<1>9. CASE Finish
  <2>1. /\ mem' = disk' /\ UNCHANGED <<alerts, connected, session, unlogged, reported, repeated>>
        /\ SaveOrFail(mem, {})
    BY <1>9 DEF Finish, host
  <2>2. ASSUME Quiet' PROVE mem' = mem
    BY <2>1, <2>2, FaultCounted DEF SaveOrFail, Quiet, TypeOK, Fault
  <2> QED
    BY <1>0, <2>1, <2>2 DEF RepeatInv, SessionEntries, Pending
<1>10. CASE Kill
  BY <1>0, <1>10 DEF Kill, host, RepeatInv
<1>11. CASE UNCHANGED vars
  BY <1>0, <1>11 DEF vars, host, RepeatInv, SessionEntries, Pending
<1>12. CASE Show
  <2>1. /\ UNCHANGED <<mem, alerts, connected, session, repeated>> /\ unlogged' = {}
        /\ Tell(unlogged) /\ unlogged \in SUBSET Alert
    BY <1>12 DEF Show, TypeOK, host
  <2>2. /\ Untold = {a.key : a \in unlogged} /\ Pending("session")' = Pending("session")
        /\ Address \subseteq Key /\ Port \subseteq Key
    BY <2>1 DEF Pending, Key
  <2> HIDE DEF Untold
  <2>3. \A k \in Key :
          /\ k \in Untold => reported'[k].at = mem.dedup[k]
          /\ k \in Untold /\ k \in Address => reported'[k].nth = session[k]
          /\ k \notin Untold => reported'[k] = reported[k]
    BY <2>1, <2>2, ToldEffect
  <2>4. \A q \in Address : reported'[q].nth <= session'[q]
    <3> SUFFICES ASSUME NEW q \in Address PROVE reported'[q].nth <= session[q]
      BY <2>1
    <3>1. q \in Key /\ reported[q].nth <= session[q] /\ session[q] \in Nat
      BY <2>2 DEF RepeatInv, TypeOK
    <3>2. CASE q \in Untold
      <4>1. reported'[q].nth = session[q]
        BY <2>3, <3>1, <3>2
      <4> QED
        BY <3>1, <4>1
    <3>3. CASE q \notin Untold
      <4>1. reported'[q] = reported[q]
        BY <2>3, <3>1, <3>3
      <4> QED
        BY <3>1, <4>1
    <3> QED
      BY <3>2, <3>3
  <2>5. ASSUME Quiet PROVE \A x \in Port : mem'.dedup[x] = reported'[x].at
    <3> SUFFICES ASSUME NEW x \in Port PROVE mem.dedup[x] = reported'[x].at
      BY <2>1
    <3>1. x \in Key /\ (x \notin Untold => mem.dedup[x] = reported[x].at)
      BY <2>2, <2>5 DEF RepeatInv
    <3>2. CASE x \in Untold
      BY <2>3, <3>1, <3>2
    <3>3. CASE x \notin Untold
      <4>1. reported'[x] = reported[x]
        BY <2>3, <3>1, <3>3
      <4> QED
        BY <3>1, <3>3, <4>1
    <3> QED
      BY <3>2, <3>3
  <2>6. ASSUME SessionEntries PROVE SessionEntries'
    BY <2>1, <2>2, <2>3, <2>6, SessionAddresses DEF SessionEntries, DedupInv
  <2> QED
    BY <1>0, <2>1, <2>4, <2>5, <2>6 DEF RepeatInv
<1> QED
  BY <1>1, <1>2, <1>3, <1>4, <1>5, <1>6, <1>7, <1>8, <1>9, <1>10, <1>11, <1>12 DEF Next, Run

-----------------------------------------------------------------------------
(* The theorems *)

(* Every behaviour of the pipeline is well typed. *)
THEOREM TypeCorrect == Spec => []TypeOK
  BY TypeInit, TypeStep, PTL DEF Spec

(* The invariant holds in every reachable state. *)
LEMMA Invariant == Spec => [](TypeOK /\ IInv)
<1>1. Init => TypeOK /\ IInv
  BY TypeInit, InvInit
<1>2. (TypeOK /\ IInv) /\ [Next]_vars => (TypeOK /\ IInv)'
  BY TypeStep, ControlStep, PortStep, DedupStep, SessionStep, RepeatStep DEF IInv
<1> QED
  BY <1>1, <1>2, PTL DEF Spec

(* checks/ports.py with modes/tick.py: a port the saved snapshot takes for *)
(* known was in the first snapshot, was reported as new, or was lost in    *)
(* one of the two ways the code has to lose it.                            *)
THEOREM NewPortsReported == Spec => []NewPortReported
<1>1. TypeOK /\ IInv => NewPortReported
  BY DEF IInv, PortInv, NewPortReported
<1> QED
  BY <1>1, Invariant, PTL

(* checks/ssh_session.py: while the whitelist is not edited, an address    *)
(* saved as active was reported since it was last seen absent.             *)
THEOREM SessionsReported == Spec => []SessionReported
<1>1. TypeOK /\ IInv => SessionReported
  BY DEF IInv, SessionInv, SessionsTold, SessionReported
<1> QED
  BY <1>1, Invariant, PTL

(* alerts.py: a dedup entry on disk is of an alert that is in the log file *)
(* or was printed.                                                         *)
THEOREM EntriesReported == Spec => []DedupImpliesReported
<1>1. TypeOK /\ IInv => DedupImpliesReported
  BY DEF IInv, DedupInv, ToldEntry, DedupImpliesReported
<1> QED
  BY <1>1, Invariant, PTL

(* alerts.py: no alert is repeated within its window or session, unless a  *)
(* run was killed or could not save.                                       *)
THEOREM NothingRepeated == Spec => []NoRepeat
<1>1. TypeOK /\ IInv => NoRepeat
  BY DEF IInv, RepeatInv, NoRepeat
<1> QED
  BY <1>1, Invariant, PTL

=============================================================================
