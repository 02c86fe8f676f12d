------------------------ MODULE AuditBaselinesProofs -------------------------
(***************************************************************************)
(* Proofs about AuditBaselines for any items, values and windows: type     *)
(* correctness; what a saved baseline takes an item for was told; no       *)
(* alert repeats what was told.                                            *)
(***************************************************************************)
EXTENDS AuditBaselines, TLAPS

(* What items of this kind may be.                                         *)
Typical(h) == \A i \in Item : h[i] \in ValueOf(kind, i) \cup {Absent}

Types ==
  /\ kind \in Kind
  /\ host \in [Item -> Known] /\ told \in [Item -> Known]
  /\ disk \in Document /\ mem \in Document
  /\ Typical(host) /\ Typical(disk.base) /\ Typical(mem.base)
  /\ run \in [pc : PC, mode : {"tick", "audit"}, seen : [Item -> Known \cup {Unread}],
              found : SUBSET Finding, stored : BOOLEAN]
  /\ faults \in 0..MaxFaults /\ excuse \subseteq Item

(* A port that was reported as removed is not in the baseline, and nothing *)
(* but ports is.                                                           *)
RemovedOut(doc) ==
  /\ kind # "port" => doc.removed = {}
  /\ \A i \in doc.removed : doc.base[i] = Absent

RemovedInv == RemovedOut(disk) /\ RemovedOut(mem)

(* Baseline and operator agree about an item.                              *)
Agree(base, i) == base[i] = told[i] \/ MissingFile(i)

(* A save tells it.                                                        *)
ToBeSaved(i) ==
  \/ \E f \in run.found \ Alerts(run.found) : f[1] = i
  \/ "removed" \notin Reports /\ mem.base[i] = Absent

(* What a run works on: the baseline of its alerts is what it saw; an item *)
(* of the new baseline has been told, or is in an alert that is not        *)
(* dispatched yet, or will be told by a save.                              *)
RunInv ==
  /\ run.pc \in {"idle", "digest"} => ~run.stored
  /\ run.pc # "idle" =>
       \A i \in Alerted : \/ mem.base[i] = run.seen[i]
                          \/ kind = "file" /\ run.seen[i] = Absent
  /\ run.pc \in {"digest", "dispatch"} =>
       \A i \in Item \ excuse : i \in Alerted \/ Agree(mem.base, i) \/ ToBeSaved(i)
  /\ run.pc = "save" =>
       \A i \in Item \ excuse : Agree(mem.base, i) \/ (i \notin Alerted /\ ToBeSaved(i))

(* The saved baseline agrees with the operator, except for alerts that     *)
(* were dispatched or whose baseline the digest saved.                     *)
Ahead == IF run.pc = "save" \/ run.stored THEN Alerted ELSE {}
DiskInv == \A i \in Item \ (excuse \cup Ahead) : Agree(disk.base, i)

(* An alert says something new, and no save says it instead.               *)
IsNews(f) ==
  \/ run.seen[f[1]] # told[f[1]]
  \/ f[1] \in excuse
  \/ kind = "file" /\ f[2] = "removed"

NewsInv ==
  run.pc \in {"digest", "dispatch"} =>
    \A f \in Alerts(run.found) : IsNews(f) /\ ~ToBeSaved(f[1])

IInv == Types /\ RemovedInv /\ RunInv /\ DiskInv /\ NewsInv

-----------------------------------------------------------------------------
(* One comparison *)

SeenIn(hidden)  == IF Raises(hidden) THEN Seen({}) ELSE Seen(hidden)
FoundIn(hidden) == IF Raises(hidden) THEN {}
                   ELSE Findings(disk.base, disk.removed, SeenIn(hidden))
BaseIn(hidden)  == IF Raises(hidden) /\ kind = "member" THEN disk.base
                   ELSE NewBase(disk.base, SeenIn(hidden))
GoneIn(hidden)  == {f[1] : f \in {g \in FoundIn(hidden) : kind = "port" /\ g[2] = "removed"}}

(* What an audit does, with what it does not see.                          *)
LEMMA AuditEffect ==
  ASSUME Types, NEW mode \in {"tick", "audit"}, Audit(mode)
  PROVE  \E hidden \in Hidden :
           /\ run.pc = "idle" /\ run'.pc \in {"digest", "dispatch"} /\ ~run'.stored
           /\ run' \in [pc : PC, mode : {"tick", "audit"}, seen : {SeenIn(hidden)},
                        found : {FoundIn(hidden)}, stored : BOOLEAN]
           /\ mem' = [base    |-> BaseIn(hidden),
                      removed |-> StillRemoved(disk.removed \cup GoneIn(hidden), SeenIn(hidden)),
                      dedup   |-> disk.dedup, audited |-> mem'.audited]
           /\ mem'.audited \in Age
           /\ excuse' = excuse \cup Adopted(disk.base, SeenIn(hidden), hidden)
           /\ faults' \in 0..MaxFaults
           /\ UNCHANGED <<kind, host, disk, told>>
<1>1. PICK hidden \in Hidden :
        /\ IF hidden = {} THEN UNCHANGED faults ELSE Fault
        /\ mem' = [base    |-> BaseIn(hidden),
                   removed |-> StillRemoved(disk.removed \cup GoneIn(hidden), SeenIn(hidden)),
                   dedup   |-> disk.dedup,
                   audited |-> IF mode = "tick" THEN 0 ELSE disk.audited]
        /\ excuse' = excuse \cup Adopted(disk.base, SeenIn(hidden), hidden)
        /\ \E pc \in (IF mode = "tick" THEN {"digest", "dispatch"} ELSE {"dispatch"}) :
             run' = [pc |-> pc, mode |-> mode, seen |-> SeenIn(hidden),
                     found |-> FoundIn(hidden), stored |-> FALSE]
  BY DEF Audit, SeenIn, FoundIn, BaseIn, GoneIn
<1>2. faults' \in 0..MaxFaults
  BY <1>1, NumberAssumption DEF Fault, Types
<1>3. mem'.audited \in Age /\ mem'.audited = IF mode = "tick" THEN 0 ELSE disk.audited
  BY <1>1, NumberAssumption DEF Types, Document, Age
<1>4. PICK pc \in {"digest", "dispatch"} :
        run' = [pc |-> pc, mode |-> mode, seen |-> SeenIn(hidden),
                found |-> FoundIn(hidden), stored |-> FALSE]
  BY <1>1
<1>5. /\ run'.pc \in {"digest", "dispatch"} /\ ~run'.stored
      /\ run' \in [pc : PC, mode : {"tick", "audit"}, seen : {SeenIn(hidden)},
                   found : {FoundIn(hidden)}, stored : BOOLEAN]
  BY <1>4 DEF PC
<1>6. mem' = [base    |-> BaseIn(hidden),
              removed |-> StillRemoved(disk.removed \cup GoneIn(hidden), SeenIn(hidden)),
              dedup   |-> disk.dedup, audited |-> mem'.audited]
  BY <1>1, <1>3
<1> QED
  BY <1>1, <1>2, <1>3, <1>5, <1>6 DEF Audit

(* An item is seen as it may be, or as absent; only files are unread.      *)
LEMMA SeenTypes ==
  ASSUME Types, NEW hidden \in Hidden
  PROVE  /\ SeenIn(hidden) \in [Item -> Known \cup {Unread}]
         /\ \A i \in Item : \/ SeenIn(hidden)[i] \in ValueOf(kind, i) \cup {Absent}
                            \/ kind \in {"file", "key"} /\ SeenIn(hidden)[i] = Unread
BY DEF SeenIn, Seen, Types, Typical, Known

(* Values of a kind are values, and never stand for absent or unread.      *)
LEMMA Kinds ==
  ASSUME NEW i \in Item
  PROVE  /\ ValueOf(kind, i) \subseteq Value /\ Absent \notin Value /\ Unread \notin Value
         /\ kind \in {"suid", "user", "member", "unit"} => ValueOf(kind, i) = {Here}
BY ValueAssumption DEF ValueOf

(* The new baseline of an item.                                            *)
LEMMA BaseOf ==
  ASSUME Types, NEW hidden \in Hidden
  PROVE  /\ BaseIn(hidden) \in [Item -> Known] /\ Typical(BaseIn(hidden))
         /\ \A i \in Item :
              BaseIn(hidden)[i] =
                IF Raises(hidden) /\ kind = "member" THEN disk.base[i]
                ELSE IF kind \in {"file", "key", "user"} /\ SeenIn(hidden)[i] \notin Value
                THEN disk.base[i] ELSE SeenIn(hidden)[i]
<1>1. disk.base \in [Item -> Known] /\ Typical(disk.base)
  BY DEF Types, Document
<1>2. SeenIn(hidden) \in [Item -> Known \cup {Unread}]
  BY SeenTypes
<1>3. \A i \in Item : \/ SeenIn(hidden)[i] \in ValueOf(kind, i) \cup {Absent}
                      \/ kind \in {"file", "key"} /\ SeenIn(hidden)[i] = Unread
  BY SeenTypes
<1>4. \A i \in Item : ValueOf(kind, i) \subseteq Value /\ Absent \notin Value /\ Unread \notin Value
  BY Kinds
<1>5. \A i \in Item :
        BaseIn(hidden)[i] =
          IF Raises(hidden) /\ kind = "member" THEN disk.base[i]
          ELSE IF kind \in {"file", "key", "user"} /\ SeenIn(hidden)[i] \notin Value
          THEN disk.base[i] ELSE SeenIn(hidden)[i]
  BY <1>1, <1>2 DEF BaseIn, NewBase
<1>6. Typical(BaseIn(hidden))
  BY <1>1, <1>3, <1>4, <1>5 DEF Typical
<1>7. DOMAIN BaseIn(hidden) = Item /\ BaseIn(hidden) = [i \in Item |-> BaseIn(hidden)[i]]
  BY <1>1, <1>2 DEF BaseIn, NewBase
<1> QED
  BY <1>4, <1>5, <1>6, <1>7 DEF Typical, Known

(* A finding is the difference of an item from the stored baseline, and    *)
(* every difference that is reported and compared is one.                  *)
LEMMA FoundOf ==
  ASSUME Types, RemovedInv, NEW hidden \in Hidden, NEW i \in Item, NEW e \in Event
  PROVE  <<i, e>> \in FoundIn(hidden) <=>
           /\ ~Raises(hidden) /\ e \in Reports /\ Comparable(disk.base)
           /\ e = Difference(i, disk.base[i], SeenIn(hidden)[i])
<1>1. Absent \notin Value
  BY ValueAssumption
<1>2. e = "removed" /\ e = Difference(i, disk.base[i], SeenIn(hidden)[i]) => disk.base[i] \in Value
  BY <1>1 DEF Difference
<1>3. disk.base[i] \in Value => i \notin disk.removed
  BY <1>1 DEF RemovedInv, RemovedOut
<1>4. <<i, e>> \in Finding /\ <<i, e>>[1] = i /\ <<i, e>>[2] = e
  BY DEF Finding
<1> QED
  BY <1>2, <1>3, <1>4 DEF FoundIn, Findings, Compared
(* A finding is an item and an event.                                      *)
LEMMA Pairs ==
  ASSUME NEW hidden, NEW f \in FoundIn(hidden)
  PROVE  f \in Finding /\ f[1] \in Item /\ f[2] \in Event /\ f = <<f[1], f[2]>>
BY DEF FoundIn, Findings, Finding

(* An item has at most one finding.                                        *)
LEMMA OneFinding ==
  ASSUME Types, RemovedInv, NEW hidden \in Hidden,
         NEW f \in FoundIn(hidden), NEW g \in FoundIn(hidden), f[1] = g[1]
  PROVE  f = g
<1>1. /\ f[1] \in Item /\ f[2] \in Event /\ f = <<f[1], f[2]>>
      /\ g[1] \in Item /\ g[2] \in Event /\ g = <<g[1], g[2]>>
  BY Pairs
<1>2. <<f[1], f[2]>> \in FoundIn(hidden) /\ <<g[1], g[2]>> \in FoundIn(hidden)
  BY <1>1
<1>3. /\ f[2] = Difference(f[1], disk.base[f[1]], SeenIn(hidden)[f[1]])
      /\ g[2] = Difference(g[1], disk.base[g[1]], SeenIn(hidden)[g[1]])
  BY <1>1, <1>2, FoundOf
<1> QED
  BY <1>1, <1>3

(* The baseline of an alert is what was seen, or a file that is gone; it   *)
(* was neither taken for that nor will a save tell it.                     *)
LEMMA AlertsAreNews ==
  ASSUME Types, RemovedInv, NEW hidden \in Hidden, NEW f \in Alerts(FoundIn(hidden))
  PROVE  /\ f \in FoundIn(hidden) /\ f[1] \in Item
         /\ \/ BaseIn(hidden)[f[1]] = SeenIn(hidden)[f[1]]
            \/ kind = "file" /\ f[2] = "removed" /\ SeenIn(hidden)[f[1]] = Absent
         /\ SeenIn(hidden)[f[1]] # disk.base[f[1]]
         /\ kind = "file" => f[2] # "new"
         /\ f[2] # "new" => disk.base[f[1]] # Absent
         /\ "removed" \notin Reports => BaseIn(hidden)[f[1]] # Absent
<1> DEFINE i == f[1]
           e == f[2]
           old == disk.base[i]
           now == SeenIn(hidden)[i]
<1>1. f \in FoundIn(hidden)
  BY DEF Alerts
<1>2. i \in Item /\ e \in Event /\ f = <<i, e>>
  BY <1>1, Pairs
<1>3. <<i, e>> \in FoundIn(hidden)
  BY <1>1, <1>2
<1>4. ~Raises(hidden) /\ e \in Reports /\ e = Difference(i, old, now)
  BY <1>2, <1>3, FoundOf
<1>5. /\ old \in Known
      /\ BaseIn(hidden)[i] = IF Raises(hidden) /\ kind = "member" THEN old
                             ELSE IF kind \in {"file", "key", "user"} /\ now \notin Value
                             THEN old ELSE now
  BY <1>2, BaseOf DEF Types, Document
<1>6. Absent \notin Value /\ Unread \notin Value
  BY ValueAssumption
<1>7. /\ e = "new" => old = Absent /\ now \in Value
      /\ e = "changed" => old \in Value /\ now \in Value /\ now # old
      /\ e = "removed" => old \in Value /\ now = Absent
  BY <1>2, <1>4 DEF Difference, Event
<1>8. kind = "key" => e = "changed"
  BY <1>4 DEF Reports
<1>9. /\ kind = "user" => FALSE
      /\ kind = "file" => e # "new"
  BY <1>1, <1>2 DEF Alerts
<1> HIDE DEF i, e, old, now
<1>10. e \in {"new", "changed", "removed"}
  BY <1>2 DEF Event
<1>11. \/ BaseIn(hidden)[i] = now
       \/ kind = "file" /\ e = "removed" /\ now = Absent
  BY <1>4, <1>5, <1>6, <1>7, <1>8, <1>9, <1>10
<1>12. "removed" \notin Reports => BaseIn(hidden)[i] # Absent
  BY <1>4, <1>5, <1>6, <1>7, <1>10, <1>11 DEF Reports
<1> QED
  BY <1>1, <1>2, <1>6, <1>7, <1>9, <1>10, <1>11, <1>12 DEF i, e, old, now

(* What the new baseline takes an item for was told, unless the item was   *)
(* adopted, there is a finding of it, or nothing is ever said of it.       *)
LEMMA AuditTells ==
  ASSUME Types, RemovedInv, NEW hidden \in Hidden, NEW i \in Item,
         Agree(disk.base, i), i \notin Adopted(disk.base, SeenIn(hidden), hidden)
  PROVE  \/ \E f \in FoundIn(hidden) : f[1] = i
         \/ Agree(BaseIn(hidden), i)
         \/ "removed" \notin Reports /\ BaseIn(hidden)[i] = Absent
<1> DEFINE old == disk.base[i]
           now == SeenIn(hidden)[i]
           base == BaseIn(hidden)[i]
<1>0. ASSUME NEW e \in Event, ~Raises(hidden), Comparable(disk.base), e \in Reports,
             e = Difference(i, old, now)
      PROVE  \E f \in FoundIn(hidden) : f[1] = i
  <2>1. <<i, e>> \in FoundIn(hidden)
    BY <1>0, FoundOf
  <2> QED
    BY <2>1
<1>1. /\ old \in ValueOf(kind, i) \cup {Absent} /\ old \in Known
      /\ now \in ValueOf(kind, i) \cup {Absent} \/ (kind \in {"file", "key"} /\ now = Unread)
  BY SeenTypes DEF Types, Typical, Document
<1>2. base = IF Raises(hidden) /\ kind = "member" THEN old
             ELSE IF kind \in {"file", "key", "user"} /\ now \notin Value THEN old ELSE now
  BY BaseOf
<1>3. /\ ValueOf(kind, i) \subseteq Value /\ Absent \notin Value /\ Unread \notin Value
      /\ kind \in {"suid", "user", "member", "unit"} => ValueOf(kind, i) = {Here}
  BY Kinds
<1>4. kind \in Kind /\ Agree(disk.base, i)
  BY DEF Types
<1>5. CASE base = old
  BY <1>4, <1>5 DEF Agree
<1>6. CASE base # old
  <2>1. /\ now # old /\ base = now /\ now \in Value \cup {Absent} /\ old \in Value \cup {Absent}
        /\ ~(Raises(hidden) /\ kind = "member")
        /\ kind \in {"file", "key", "user"} => now \in Value
    BY <1>1, <1>2, <1>3, <1>6
  <2>2. /\ Comparable(disk.base) /\ ~(kind = "key" /\ old = Absent) /\ ~Raises(hidden)
    BY <2>1 DEF Adopted
  <2>3. ASSUME NEW e \in Event, e \in Reports, e = Difference(i, old, now)
        PROVE  \E f \in FoundIn(hidden) : f[1] = i
    BY <1>0, <2>2, <2>3
  <2>4. CASE old = Absent
    <3>1. now \in Value /\ "new" = Difference(i, old, now)
      BY <1>3, <2>1, <2>4 DEF Difference
    <3>2. "new" \in Reports
      BY <1>4, <2>2, <2>4 DEF Reports, Kind, Event
    <3> QED
      BY <2>3, <3>1, <3>2 DEF Event
  <2>5. CASE old \in Value /\ now \in Value
    <3>1. "changed" = Difference(i, old, now)
      BY <1>3, <2>1, <2>5 DEF Difference
    <3>2. kind \notin {"suid", "user", "member", "unit"}
      BY <1>1, <1>3, <2>1, <2>5
    <3>3. "changed" \in Reports
      BY <1>4, <3>2 DEF Reports, Kind, Event
    <3> QED
      BY <2>3, <3>1, <3>3 DEF Event
  <2>6. CASE old \in Value /\ now = Absent
    <3>1. "removed" = Difference(i, old, now)
      BY <1>3, <2>6 DEF Difference
    <3> QED
      BY <2>1, <2>3, <2>6, <3>1 DEF Event
  <2> QED
    BY <2>1, <2>4, <2>5, <2>6
<1> QED
  BY <1>5, <1>6

-----------------------------------------------------------------------------
(* The steps *)

(* The invariant holds initially.                                          *)
LEMMA AtFirst == Init => IInv
<1> SUFFICES ASSUME Init PROVE IInv
  OBVIOUS
<1>1. ValueAssumption /\ Absent \in Known
  BY ValueAssumption DEF Known
<1>2. Typical(host) /\ host \in [Item -> Known]
  BY DEF Init, Typical
<1>3. Window \in Age /\ 0 \in 0..MaxFaults
  BY NumberAssumption DEF Age
<1>4. disk \in Document
  BY <1>2, <1>3 DEF Init, Document
<1>5. run \in [pc : PC, mode : {"tick", "audit"}, seen : [Item -> Known \cup {Unread}],
               found : SUBSET Finding, stored : BOOLEAN]
  BY <1>1 DEF Init, Idle, PC
<1>6. Types
  BY <1>2, <1>3, <1>4, <1>5 DEF Init, Types
<1> QED
  BY <1>6 DEF Init, IInv, RemovedInv, RemovedOut, RunInv, DiskInv, NewsInv, Agree, Idle

(* An audit that has compared.                                             *)
LEMMA AuditStep ==
  ASSUME IInv, NEW mode \in {"tick", "audit"}, Audit(mode)
  PROVE  IInv'
<1> USE DEF IInv
<1>1. PICK hidden \in Hidden :
        /\ run.pc = "idle" /\ run'.pc \in {"digest", "dispatch"} /\ ~run'.stored
        /\ run' \in [pc : PC, mode : {"tick", "audit"}, seen : {SeenIn(hidden)},
                     found : {FoundIn(hidden)}, stored : BOOLEAN]
        /\ mem' = [base    |-> BaseIn(hidden),
                   removed |-> StillRemoved(disk.removed \cup GoneIn(hidden), SeenIn(hidden)),
                   dedup   |-> disk.dedup, audited |-> mem'.audited]
        /\ mem'.audited \in Age
        /\ excuse' = excuse \cup Adopted(disk.base, SeenIn(hidden), hidden)
        /\ faults' \in 0..MaxFaults
        /\ UNCHANGED <<kind, host, disk, told>>
  BY AuditEffect
<1>2. run'.seen = SeenIn(hidden) /\ run'.found = FoundIn(hidden) /\ run'.pc # "idle" /\ run'.pc # "save"
  BY <1>1
<1>3. BaseIn(hidden) \in [Item -> Known] /\ Typical(BaseIn(hidden))
  BY BaseOf
<1>4. SeenIn(hidden) \in [Item -> Known \cup {Unread}]
  BY SeenTypes
<1>5. FoundIn(hidden) \subseteq Finding
  BY Pairs
<1>6. /\ mem'.base = BaseIn(hidden) /\ mem'.dedup = disk.dedup
      /\ mem'.removed = StillRemoved(disk.removed \cup GoneIn(hidden), SeenIn(hidden))
  BY <1>1
<1>7. GoneIn(hidden) \subseteq Item /\ (kind # "port" => GoneIn(hidden) = {})
  BY Pairs DEF GoneIn
<1>8. mem'.removed \subseteq Item
  BY <1>6, <1>7 DEF StillRemoved, Types, Document
<1>9. mem' \in Document
  BY <1>1, <1>3, <1>6, <1>8 DEF Document, Types
<1>10. Types'
  <2>1. run' \in [pc : PC, mode : {"tick", "audit"}, seen : [Item -> Known \cup {Unread}],
                  found : SUBSET Finding, stored : BOOLEAN]
    BY <1>1, <1>4, <1>5
  <2>2. excuse' \subseteq Item
    BY <1>1 DEF Types, Adopted
  <2>3. Typical(mem'.base)
    BY <1>3, <1>6
  <2> QED
    BY <1>1, <1>9, <2>1, <2>2, <2>3 DEF Types, Typical, ValueOf
<1>11. RemovedInv'
  <2>1. ASSUME NEW i \in mem'.removed PROVE kind = "port" /\ mem'.base[i] = Absent
    <3>1. i \in Item /\ SeenIn(hidden)[i] = Absent /\ kind = "port"
      BY <1>6, <1>7, <1>8, <2>1 DEF StillRemoved, RemovedInv, RemovedOut
    <3>2. BaseIn(hidden)[i] = SeenIn(hidden)[i]
      BY <3>1, BaseOf
    <3> QED
      BY <1>6, <3>1, <3>2
  <2>2. RemovedOut(mem)'
    BY <1>1, <2>1 DEF RemovedOut
  <2> QED
    BY <1>1, <2>2 DEF RemovedInv, RemovedOut
<1>12. Alerts(run.found)' = Alerts(FoundIn(hidden)) /\ Alerted' = {f[1] : f \in Alerts(FoundIn(hidden))}
  BY <1>1, <1>2 DEF Alerts, Alerted
<1>13. DiskInv'
  BY <1>1, <1>2 DEF DiskInv, Ahead, Agree, MissingFile, RunInv, Alerted
<1>14. \A i \in Item : ToBeSaved(i)' <=>
         \/ \E f \in FoundIn(hidden) \ Alerts(FoundIn(hidden)) : f[1] = i
         \/ "removed" \notin Reports /\ BaseIn(hidden)[i] = Absent
  BY <1>1, <1>2, <1>6, <1>12 DEF ToBeSaved, Reports
<1>15. ASSUME NEW i \in Item \ excuse'
       PROVE  i \in Alerted' \/ Agree(mem.base, i)' \/ ToBeSaved(i)'
  <2>1. i \notin excuse /\ i \notin Adopted(disk.base, SeenIn(hidden), hidden)
    BY <1>1
  <2>2. Agree(disk.base, i)
    BY <1>1, <2>1 DEF DiskInv, Ahead, RunInv
  <2>3. \/ \E f \in FoundIn(hidden) : f[1] = i
        \/ Agree(BaseIn(hidden), i)
        \/ "removed" \notin Reports /\ BaseIn(hidden)[i] = Absent
    BY <2>1, <2>2, AuditTells
  <2>4. Agree(mem.base, i)' <=> Agree(BaseIn(hidden), i)
    BY <1>1, <1>6 DEF Agree, MissingFile
  <2> QED
    BY <1>12, <1>14, <2>3, <2>4
<1>16. ASSUME NEW i \in Alerted'
       PROVE  mem'.base[i] = run'.seen[i] \/ (kind = "file" /\ run'.seen[i] = Absent)
  BY <1>2, <1>6, <1>12, AlertsAreNews
<1>17. RunInv'
  BY <1>1, <1>2, <1>15, <1>16 DEF RunInv
<1>18. ASSUME NEW f \in Alerts(FoundIn(hidden)) PROVE IsNews(f)' /\ ~ToBeSaved(f[1])'
  <2>1. /\ f \in FoundIn(hidden) /\ f[1] \in Item
        /\ SeenIn(hidden)[f[1]] # disk.base[f[1]]
        /\ kind = "file" => f[2] # "new"
        /\ f[2] # "new" => disk.base[f[1]] # Absent
        /\ "removed" \notin Reports => BaseIn(hidden)[f[1]] # Absent
    BY AlertsAreNews
  <2>2. \A g \in FoundIn(hidden) : g[1] = f[1] => g = f
    BY <2>1, OneFinding
  <2>3. ~ToBeSaved(f[1])'
    BY <1>14, <2>1, <2>2
  <2>4. f[1] \notin excuse => Agree(disk.base, f[1])
    BY <1>1, <2>1 DEF DiskInv, Ahead, RunInv
  <2>5. f[2] \in {"new", "changed", "removed"} /\ f = <<f[1], f[2]>>
    BY <2>1, Pairs DEF Event
  <2>6. kind = "file" /\ told[f[1]] = Absent /\ f[2] = "changed" => SeenIn(hidden)[f[1]] # Absent
    <3>1. <<f[1], f[2]>> \in FoundIn(hidden) /\ f[2] \in Event
      BY <2>1, <2>5 DEF Event
    <3>2. f[2] = Difference(f[1], disk.base[f[1]], SeenIn(hidden)[f[1]])
      BY <2>1, <3>1, FoundOf
    <3> QED
      BY <3>2, ValueAssumption DEF Difference
  <2>7. \/ SeenIn(hidden)[f[1]] # told[f[1]]
        \/ kind = "file" /\ f[2] = "removed"
        \/ f[1] \in excuse
    BY <2>1, <2>4, <2>5, <2>6 DEF Agree, MissingFile
  <2>8. IsNews(f)'
    BY <1>1, <1>2, <2>7 DEF IsNews
  <2> QED
    BY <2>3, <2>8
<1>19. NewsInv'
  BY <1>12, <1>18 DEF NewsInv
<1> QED
  BY <1>10, <1>11, <1>13, <1>17, <1>19

(* What happens between runs leaves the work of a run alone.               *)
LEMMA Unmoved ==
  ASSUME IInv, UNCHANGED <<kind, mem, run, told, excuse>>,
         disk'.base = disk.base, disk'.removed = disk.removed
  PROVE  RemovedInv' /\ RunInv' /\ DiskInv' /\ NewsInv'
<1> USE DEF IInv
<1>1. RemovedInv'
  BY DEF RemovedInv, RemovedOut
<1>2. RunInv'
  BY DEF RunInv, Alerted, Alerts, Agree, ToBeSaved, MissingFile, Reports
<1>3. DiskInv'
  BY DEF DiskInv, Ahead, Alerted, Alerts, Agree, MissingFile
<1>4. NewsInv'
  BY DEF NewsInv, Alerts, ToBeSaved, IsNews, Reports
<1> QED
  BY <1>1, <1>2, <1>3, <1>4

(* What happens between runs.                                              *)
LEMMA IdleStep ==
  ASSUME IInv, \/ \E i \in Item : \E v \in ValueOf(kind, i) \cup {Absent} : Change(i, v)
               \/ PassTime
  PROVE  IInv'
<1> USE DEF IInv
<1>1. ASSUME NEW i \in Item, NEW v \in ValueOf(kind, i) \cup {Absent}, Change(i, v)
      PROVE  IInv'
  <2>1. v \in Known /\ host' = [host EXCEPT ![i] = v] /\ UNCHANGED <<kind, disk, mem, run, faults, told, excuse>>
    BY <1>1, Kinds DEF Change, Known
  <2>2. host' \in [Item -> Known] /\ Typical(host')
    BY <2>1 DEF Types, Typical
  <2>3. Types'
    BY <2>1, <2>2 DEF Types, Typical, ValueOf
  <2> QED
    BY <2>1, <2>3, Unmoved
<1>2. CASE PassTime
  <2>1. \A age \in Age : Later(age) \in Age
    BY NumberAssumption DEF Age, Later
  <2>2. /\ disk' = [disk EXCEPT !.dedup = [f \in Finding |-> Later(disk.dedup[f])],
                               !.audited = Later(disk.audited)]
        /\ run.pc = "idle" /\ UNCHANGED <<kind, host, mem, run, faults, told, excuse>>
    BY <1>2 DEF PassTime
  <2>3. disk' \in Document /\ disk'.base = disk.base /\ disk'.removed = disk.removed
    BY <2>1, <2>2 DEF Types, Document
  <2>4. Types'
    BY <2>2, <2>3 DEF Types, Typical, ValueOf
  <2> QED
    BY <2>2, <2>3, <2>4, Unmoved
<1> QED
  BY <1>1, <1>2

(* What a save does: it stores the document and tells, or does nothing.    *)
LEMMA SaveEffect ==
  ASSUME Types, SaveOrFail
  PROVE  /\ faults' \in 0..MaxFaults /\ told' \in [Item -> Known]
         /\ \/ /\ disk' = mem
               /\ \A i \in Item : told'[i] = IF ToBeSaved(i) THEN mem.base[i] ELSE told[i]
            \/ disk' = disk /\ told' = told
<1>1. mem.base \in [Item -> Known]
  BY DEF Types, Document
<1>2. Fault => faults' \in 0..MaxFaults
  BY NumberAssumption DEF Fault, Types
<1> QED
  BY <1>1, <1>2 DEF SaveOrFail, ToldBySave, ToBeSaved, Types

(* The digest saves the document before the alerts are dispatched.         *)
LEMMA DigestStep ==
  ASSUME IInv, Digest
  PROVE  IInv'
<1> USE DEF IInv
<1> DEFINE stored == disk' = mem
<1>1. /\ run.pc = "digest" /\ UNCHANGED <<kind, host, mem, excuse>>
      /\ run' = [run EXCEPT !.pc = "dispatch", !.stored = stored]
  BY DEF Digest
<1>2. stored \in BOOLEAN
  OBVIOUS
<1>3. run' \in [pc : PC, mode : {"tick", "audit"}, seen : [Item -> Known \cup {Unread}],
                found : SUBSET Finding, stored : BOOLEAN]
      /\ run'.pc = "dispatch" /\ run'.seen = run.seen /\ run'.found = run.found
      /\ run'.stored = stored
  <2> HIDE DEF stored
  <2> QED
    BY <1>1, <1>2 DEF Types, PC
<1>4. /\ faults' \in 0..MaxFaults /\ told' \in [Item -> Known]
      /\ \/ /\ disk' = mem
            /\ \A i \in Item : told'[i] = IF ToBeSaved(i) THEN mem.base[i] ELSE told[i]
         \/ disk' = disk /\ told' = told
  BY SaveEffect DEF Digest
<1>5. /\ Alerts(run.found)' = Alerts(run.found) /\ Alerted' = Alerted
      /\ \A i \in Item : ToBeSaved(i)' <=> ToBeSaved(i)
  BY <1>1, <1>3 DEF Alerts, Alerted, ToBeSaved, Reports
<1>6. Types' /\ RemovedInv'
  BY <1>1, <1>3, <1>4 DEF Types, Typical, ValueOf, RemovedInv, RemovedOut
<1>7. \A i \in Item : Agree(mem.base, i) => Agree(mem.base, i)'
  BY <1>1, <1>4 DEF Agree, MissingFile
<1>8. RunInv'
  BY <1>1, <1>3, <1>5, <1>7 DEF RunInv
<1>9. DiskInv'
  <2>1. CASE disk' = disk /\ told' = told
    BY <1>1, <1>3, <1>5, <2>1 DEF RunInv, DiskInv, Ahead, Agree, MissingFile
  <2>2. CASE /\ disk' = mem
             /\ \A i \in Item : told'[i] = IF ToBeSaved(i) THEN mem.base[i] ELSE told[i]
    <3>1. ASSUME NEW i \in Item, i \notin excuse, i \notin Alerted
          PROVE  Agree(disk.base, i)'
      BY <1>1, <2>2, <3>1 DEF RunInv, Agree, MissingFile
    <3>2. Ahead' = Alerted
      BY <1>3, <1>5, <2>2 DEF Ahead
    <3> QED
      BY <1>1, <3>1, <3>2 DEF DiskInv
  <2> QED
    BY <1>4, <2>1, <2>2
<1>10. NewsInv'
  <2>1. ASSUME NEW f \in Alerts(run.found) PROVE IsNews(f)' /\ ~ToBeSaved(f[1])'
    <3>1. f[1] \in Item /\ IsNews(f) /\ ~ToBeSaved(f[1])
      BY <1>1 DEF NewsInv, Alerts, Types, Finding
    <3>2. told'[f[1]] = told[f[1]]
      BY <1>4, <3>1
    <3> QED
      BY <1>1, <1>3, <1>5, <3>1, <3>2 DEF IsNews
  <2> QED
    BY <1>5, <2>1 DEF NewsInv
<1> QED
  BY <1>6, <1>8, <1>9, <1>10

(* What is dispatched is told.                                             *)
LEMMA DispatchStep ==
  ASSUME IInv, Dispatch
  PROVE  IInv'
<1> USE DEF IInv
<1>1. /\ run.pc = "dispatch" /\ UNCHANGED <<kind, host, disk, faults>>
      /\ mem' = [mem EXCEPT !.dedup = [f \in Finding |-> IF f \in Logged THEN 0 ELSE mem.dedup[f]]]
      /\ told' = [i \in Item |-> IF \E f \in Logged : f[1] = i THEN run.seen[i] ELSE told[i]]
      /\ excuse' = (excuse \ {f[1] : f \in Logged}) \cup {f[1] : f \in Alerts(run.found) \ Logged}
      /\ run' = [run EXCEPT !.pc = "save"]
  BY DEF Dispatch
<1>2. /\ run' \in [pc : PC, mode : {"tick", "audit"}, seen : [Item -> Known \cup {Unread}],
                   found : SUBSET Finding, stored : BOOLEAN]
      /\ run'.pc = "save" /\ run'.seen = run.seen /\ run'.found = run.found
      /\ run'.stored = run.stored
  BY <1>1 DEF Types, PC
<1>3. 0 \in Age
  BY NumberAssumption DEF Age
<1>4. mem' \in Document /\ mem'.base = mem.base /\ mem'.removed = mem.removed
  BY <1>1, <1>3 DEF Types, Document
<1>5. Logged \subseteq Alerts(run.found) /\ \A f \in Alerts(run.found) : f[1] \in Item
  BY DEF Logged, Alerts, Types, Finding
<1>6. \A i \in Alerted : run.seen[i] \in Known
  <2>1. \A i \in Alerted : i \in Item /\ (mem.base[i] = run.seen[i] \/ run.seen[i] = Absent)
    BY <1>1, <1>5 DEF RunInv, Alerted
  <2> QED
    BY <2>1 DEF Types, Document, Known
<1>7. told' \in [Item -> Known]
  BY <1>1, <1>5, <1>6 DEF Types, Alerted
<1>8. excuse' \subseteq Item
  BY <1>1, <1>5 DEF Types
<1>9. Types' /\ RemovedInv'
  BY <1>1, <1>2, <1>4, <1>7, <1>8 DEF Types, Typical, ValueOf, RemovedInv, RemovedOut
<1>10. /\ Alerts(run.found)' = Alerts(run.found) /\ Alerted' = Alerted
       /\ \A i \in Item : ToBeSaved(i)' <=> ToBeSaved(i)
  BY <1>1, <1>2, <1>4 DEF Alerts, Alerted, ToBeSaved, Reports
<1>11. ASSUME NEW i \in Item, i \notin Alerted
       PROVE  told'[i] = told[i] /\ (i \in excuse' <=> i \in excuse)
  BY <1>1, <1>5, <1>11 DEF Alerted
<1>12. ASSUME NEW i \in Alerted, i \notin excuse' PROVE Agree(mem.base, i)'
  <2>1. i \in Item /\ \E f \in Logged : f[1] = i
    BY <1>1, <1>5, <1>12 DEF Alerted
  <2>2. told'[i] = run.seen[i]
    BY <1>1, <2>1
  <2> QED
    BY <1>1, <1>4, <2>2 DEF RunInv, Agree, MissingFile
<1>13. RunInv'
  <2>1. ASSUME NEW i \in Item, i \notin excuse'
        PROVE  Agree(mem.base, i)' \/ (i \notin Alerted' /\ ToBeSaved(i)')
    <3>1. CASE i \in Alerted
      BY <1>12, <2>1, <3>1
    <3>2. CASE i \notin Alerted
      <4>1. Agree(mem.base, i) \/ ToBeSaved(i)
        BY <1>1, <1>11, <2>1, <3>2 DEF RunInv
      <4> QED
        BY <1>1, <1>4, <1>10, <1>11, <3>2, <4>1 DEF Agree, MissingFile
    <3> QED
      BY <3>1, <3>2
  <2> QED
    BY <1>1, <1>2, <1>4, <1>10, <2>1 DEF RunInv
<1>14. DiskInv'
  <2>1. Ahead' = Alerted
    BY <1>2, <1>10 DEF Ahead
  <2>2. ASSUME NEW i \in Item, i \notin excuse', i \notin Alerted PROVE Agree(disk.base, i)'
    <3>1. i \notin Ahead /\ i \notin excuse /\ told'[i] = told[i]
      BY <1>11, <2>2 DEF Ahead
    <3> QED
      BY <1>1, <3>1 DEF DiskInv, Agree, MissingFile
  <2> QED
    BY <2>1, <2>2 DEF DiskInv
<1> QED
  BY <1>2, <1>9, <1>13, <1>14 DEF NewsInv

(* The save makes the baseline of the run the stored one.                  *)
LEMMA SaveStep ==
  ASSUME IInv, Save
  PROVE  IInv'
<1> USE DEF IInv
<1>1. /\ run.pc = "save" /\ run' = Idle /\ mem' = disk' /\ UNCHANGED <<kind, host>>
      /\ excuse' = IF disk' = mem THEN excuse ELSE excuse \cup Alerted
  BY DEF Save
<1>2. /\ faults' \in 0..MaxFaults /\ told' \in [Item -> Known]
      /\ \/ /\ disk' = mem
            /\ \A i \in Item : told'[i] = IF ToBeSaved(i) THEN mem.base[i] ELSE told[i]
         \/ disk' = disk /\ told' = told
  BY SaveEffect DEF Save
<1>3. /\ Idle.pc = "idle" /\ ~Idle.stored
      /\ Idle \in [pc : PC, mode : {"tick", "audit"}, seen : [Item -> Known \cup {Unread}],
                   found : SUBSET Finding, stored : BOOLEAN]
  BY DEF Idle, PC, Known
<1>4. Alerted \subseteq Item
  BY DEF Alerted, Alerts, Types, Finding
<1>5. Types' /\ RemovedInv'
  BY <1>1, <1>2, <1>3, <1>4 DEF Types, Typical, ValueOf, RemovedInv, RemovedOut
<1>6. ASSUME NEW i \in Item, i \notin excuse' PROVE Agree(disk.base, i)'
  <2>1. i \notin excuse /\ (disk' # mem => i \notin Alerted)
    BY <1>1, <1>6
  <2>2. i \notin Alerted => Agree(disk.base, i)
    BY <1>1, <2>1 DEF DiskInv, Ahead
  <2>3. Agree(mem.base, i) \/ (i \notin Alerted /\ ToBeSaved(i))
    BY <1>1, <2>1 DEF RunInv
  <2>4. CASE disk' = disk /\ told' = told
    BY <1>1, <2>1, <2>2, <2>3, <2>4 DEF Agree, MissingFile
  <2>5. CASE /\ disk' = mem
             /\ \A x \in Item : told'[x] = IF ToBeSaved(x) THEN mem.base[x] ELSE told[x]
    BY <1>1, <2>3, <2>5 DEF Agree, MissingFile
  <2> QED
    BY <1>2, <2>4, <2>5
<1> QED
  BY <1>1, <1>3, <1>5, <1>6 DEF RunInv, DiskInv, NewsInv

(* A kill loses what is in memory.                                         *)
LEMMA KillStep ==
  ASSUME IInv, Kill
  PROVE  IInv'
<1> USE DEF IInv
<1>1. /\ run' = Idle /\ mem' = disk /\ Fault /\ UNCHANGED <<kind, host, disk, told>>
      /\ excuse' = IF run.pc = "save" \/ run.stored THEN excuse \cup Alerted ELSE excuse
  BY DEF Kill
<1>2. /\ Idle.pc = "idle" /\ ~Idle.stored
      /\ Idle \in [pc : PC, mode : {"tick", "audit"}, seen : [Item -> Known \cup {Unread}],
                   found : SUBSET Finding, stored : BOOLEAN]
  BY DEF Idle, PC, Known
<1>3. Alerted \subseteq Item
  BY DEF Alerted, Alerts, Types, Finding
<1>4. faults' \in 0..MaxFaults
  BY <1>1, NumberAssumption DEF Fault, Types
<1>5. Types' /\ RemovedInv'
  BY <1>1, <1>2, <1>3, <1>4 DEF Types, Typical, ValueOf, RemovedInv, RemovedOut
<1>6. \A i \in Item : i \notin excuse' => Agree(disk.base, i)'
  BY <1>1 DEF DiskInv, Ahead, Agree, MissingFile
<1> QED
  BY <1>1, <1>2, <1>5, <1>6 DEF RunInv, DiskInv, NewsInv

(* Every step preserves the invariant.                                     *)
LEMMA NextStep == IInv /\ [Next]_vars => IInv'
<1> SUFFICES ASSUME IInv, [Next]_vars PROVE IInv'
  OBVIOUS
<1>1. CASE UNCHANGED vars
  BY <1>1, Unmoved DEF vars, IInv, Types, Typical, ValueOf
<1>2. CASE Next
  BY <1>2, IdleStep, AuditStep, DigestStep, DispatchStep, SaveStep, KillStep DEF Next, Step
<1> QED
  BY <1>1, <1>2

-----------------------------------------------------------------------------
(* The theorems *)

(* The invariant holds in every reachable state.                           *)
LEMMA Invariant == Spec => []IInv
BY AtFirst, NextStep, PTL DEF Spec

(* Every behaviour of the audits is well typed.                            *)
THEOREM TypeCorrect == Spec => []TypeOK
<1>1. IInv => TypeOK
  BY DEF IInv, Types, TypeOK
<1> QED
  BY <1>1, Invariant, PTL

(* audit/network.py: a port of the saved baseline is not among the removed *)
(* ports already reported.                                                 *)
THEOREM RemovalsAreNews == Spec => []RemovalIsNews
<1>1. IInv => RemovalIsNews
  BY DEF IInv, RemovedInv, RemovedOut, RemovalIsNews
<1> QED
  BY <1>1, Invariant, PTL

(* audit/*.py with alerts.py: what a saved baseline takes an item for is   *)
(* what the operator was last told, with the exceptions that excuse names. *)
THEOREM BaselinesAreTold == Spec => []BaselineIsTold
<1>1. IInv => BaselineIsTold
  BY DEF IInv, DiskInv, Ahead, Agree, BaselineIsTold
<1> QED
  BY <1>1, Invariant, PTL

(* alerts.py, dispatch: no alert of an audit repeats what was told.        *)
THEOREM AlertsAreNew == Spec => NothingToldTwice
<1>1. IInv => [run.pc = "dispatch" =>
                 \A f \in Logged : \/ run.seen[f[1]] # told[f[1]]
                                   \/ f[1] \in excuse
                                   \/ kind = "file" /\ f[2] = "removed"]_vars
  BY DEF IInv, NewsInv, IsNews, Logged
<1> QED
  BY <1>1, Invariant, PTL DEF NothingToldTwice
=============================================================================
