------------------------------- MODULE BpfWatch -------------------------------
(***************************************************************************)
(* The BPF delta watcher (src/src/secmon/bpf/watcher.py, watchlist.py,     *)
(* audit.py and modes/bpf.py): the life of watchlist and baseline entries  *)
(* while programs and maps are loaded, attached, held, unloaded, and while *)
(* the machine reboots.                                                    *)
(*                                                                         *)
(* A run of the watcher, of the audit, of promote or of clear works on a   *)
(* document it loaded and saves it as a whole: it is one step here.  The   *)
(* findings of a run are what it returns; deduplication is module          *)
(* TickAlerts.                                                             *)
(***************************************************************************)
EXTENDS BpfClassifier, FiniteSetsExt, Functions

CONSTANTS
  Variant,       \* what programs may be: name, type, tag, code, cgroup, net, loader, maps
  Link,          \* links: an identifier and the hook it attaches to
  MapVariant,    \* what maps may be: name, type and BTF
  Pid,           \* processes that may hold a map
  Failing,       \* sets of calls that may fail together in one scan
  MaxId,         \* bound: programs loaded since the last boot
  MaxMapId,      \* bound: maps created since the last boot
  MaxEvents,     \* bound: changes of the kernel's objects
  MaxBadScans    \* bound: scans in which a call fails

Id    == 1..MaxId
MapId == 1..MaxMapId
NoId  == 0
Absent  == [none |-> TRUE]   \* no program, no map, no entry

(* The commands a scan runs: five listings, and the lookups for a program  *)
(* (its bytecode, the unit and the package of its loader) or for a map.    *)
Listing == {"prog", "map", "link", "cgroup", "net"}
Call    == (Listing \X {NoId}) \cup ({"xlated", "systemctl", "dpkg"} \X Id)
           \cup ({"btf"} \X MapId)

ASSUME VariantAssumption ==
  \A v \in Variant :
    /\ v.type \in ProgType /\ v.cgroup \subseteq Hook /\ v.net \subseteq Hook
    /\ v.loader \in Loader /\ v.maps \subseteq MapId
ASSUME LinkAssumption == \A l \in Link : l.hook \in Hook
ASSUME MapAssumption == \A m \in MapVariant : m.type \in MapType
ASSUME FailingAssumption == Failing \subseteq SUBSET Call
ASSUME BoundAssumption == {MaxId, MaxMapId, MaxEvents, MaxBadScans} \subseteq Nat

(* What stands for a program in its key: type, tag and bytecode (its       *)
(* code), or if the dump of the bytecode is empty its tag, its name and    *)
(* the schema of its maps, that is the identifiers and types of those that *)
(* are listed.                                                             *)
MapTypes == {m.type : m \in MapVariant}
Codes(v) == {v.code} \cup {<<v.tag, v.name, s>> : s \in SUBSET (v.maps \X MapTypes)}

(* A program and a map as bpftool and /proc show them.                     *)
Program == [name : {v.name : v \in Variant}, type : ProgType, tag : {v.tag : v \in Variant},
            code : UNION {Codes(v) : v \in Variant},
            cgroup : SUBSET Hook, net : SUBSET Hook,
            loader : Loader, maps : SUBSET MapId, links : SUBSET Link,
            pinned : BOOLEAN]
MapObject == [id : MapId, name : {m.name : m \in MapVariant}, type : MapTypes,
              btf : {m.btf : m \in MapVariant} \cup {"none"}, holders : SUBSET Pid]

(* program_stable_key: code and attach points; map_stable_key: type, name, *)
(* sizes and BTF.                                                          *)
ProgKey(p) == <<"prog", p.code, Hooks(p)>>
MapKey(m)  == <<"map", m.type, m.name, m.btf>>

ProgKeys(v) ==
  UNION {{<<"prog", c, h>> : h \in SUBSET (v.cgroup \cup v.net \cup {l.hook : l \in Link})} :
           c \in Codes(v)}
MapKeys(m)  == {<<"map", m.type, m.name, b>> : b \in {m.btf, "none"}}

Key == UNION ({ProgKeys(v) : v \in Variant} \cup {MapKeys(m) : m \in MapVariant})

WatchState == Alerting \cup {"surveillance", "vanished"}

VARIABLES
  progs,        \* progs[i]: the program with identifier i, or Absent
  maps,         \* maps[i]: the map with identifier i, or Absent
  next,         \* the next identifiers the kernel gives
  watch,        \* watch[k]: the watchlist entry of k, or Absent
  baseline,     \* the keys in the baseline
  findings,     \* the findings of the last run
  events, badScans,
  unchanged,    \* history: since a good scan only the listing of programs failed, no
                \* object changed
  current       \* history: nor was an entry cleared or a scan bad

kernel  == <<progs, maps, next>>
doc     == <<watch, baseline>>
bpfVars == <<kernel, doc, findings, events, badScans, unchanged, current>>

BpfInit ==
  /\ progs = [i \in Id |-> Absent]
  /\ maps = [i \in MapId |-> Absent]
  /\ next = [prog |-> 1, map |-> 1]
  /\ watch = [k \in Key |-> Absent]
  /\ baseline = {}
  /\ findings = {}
  /\ events = 0 /\ badScans = 0
  /\ unchanged = TRUE /\ current = TRUE

-----------------------------------------------------------------------------
(* The kernel *)

Happens ==
  /\ events < MaxEvents
  /\ events' = events + 1
  /\ findings' = {}
  /\ unchanged' = FALSE /\ current' = FALSE
  /\ UNCHANGED <<doc, badScans>>

(* Identifiers grow until the next boot; a program keeps its maps alive.   *)
LoadProgram(v) ==
  /\ Happens
  /\ next.prog \in Id
  /\ \A j \in v.maps : maps[j] # Absent
  /\ progs' = [progs EXCEPT ![next.prog] =
                 [name |-> v.name, type |-> v.type, tag |-> v.tag, code |-> v.code,
                  cgroup |-> v.cgroup, net |-> v.net, loader |-> v.loader,
                  maps |-> v.maps, links |-> {}, pinned |-> FALSE]]
  /\ next' = [next EXCEPT !.prog = @ + 1]
  /\ UNCHANGED maps

UnloadProgram(i) ==
  /\ Happens
  /\ progs[i] # Absent
  /\ progs' = [progs EXCEPT ![i] = Absent]
  /\ UNCHANGED <<maps, next>>

Attach(i, l) ==
  /\ Happens
  /\ progs[i] # Absent
  /\ \A j \in Id : progs[j] # Absent => l \notin progs[j].links
  /\ progs' = [progs EXCEPT ![i].links = @ \cup {l}]
  /\ UNCHANGED <<maps, next>>

Detach(i, l) ==
  /\ Happens
  /\ progs[i] # Absent
  /\ l \in progs[i].links
  /\ progs' = [progs EXCEPT ![i].links = @ \ {l}]
  /\ UNCHANGED <<maps, next>>

Pin(i) ==
  /\ Happens
  /\ progs[i] # Absent
  /\ progs' = [progs EXCEPT ![i].pinned = ~@]
  /\ UNCHANGED <<maps, next>>

(* Another process holds the program: the loader found is another one. *)
Hold(i, v) ==
  /\ Happens
  /\ progs[i] # Absent
  /\ progs[i].loader # v.loader
  /\ progs' = [progs EXCEPT ![i].loader = v.loader]
  /\ UNCHANGED <<maps, next>>

CreateMap(m) ==
  /\ Happens
  /\ next.map \in MapId
  /\ maps' = [maps EXCEPT ![next.map] =
                [id |-> next.map, name |-> m.name, type |-> m.type, btf |-> m.btf,
                 holders |-> {}]]
  /\ next' = [next EXCEPT !.map = @ + 1]
  /\ UNCHANGED progs

HoldMap(i, pids) ==
  /\ Happens
  /\ maps[i] # Absent
  /\ maps[i].holders # pids
  /\ maps' = [maps EXCEPT ![i].holders = pids]
  /\ UNCHANGED <<progs, next>>

FreeMap(i) ==
  /\ Happens
  /\ maps[i] # Absent
  /\ \A j \in Id : progs[j] # Absent => i \notin progs[j].maps
  /\ maps' = [maps EXCEPT ![i] = Absent]
  /\ UNCHANGED <<progs, next>>

Reboot ==
  /\ Happens
  /\ progs' = [i \in Id |-> Absent]
  /\ maps' = [i \in MapId |-> Absent]
  /\ next' = [prog |-> 1, map |-> 1]

-----------------------------------------------------------------------------
(* collect_bpf_scan: programs and maps by identifier, each program with    *)
(* its attach points and its loader.  Of a call that fails or prints no    *)
(* JSON only the empty output is seen (without bpftool a run does nothing). *)

ListedMaps(failed) ==
  [i \in MapId |-> IF maps[i] = Absent \/ <<"map", NoId>> \in failed THEN Absent
                   ELSE IF <<"btf", i>> \in failed THEN [maps[i] EXCEPT !.btf = "none"]
                   ELSE maps[i]]

(* map_schema_hash, of the maps that are listed *)
Schema(p, listed) == {<<j, listed[j].type>> : j \in {i \in p.maps : listed[i] # Absent}}

(* resolve_loader: the unit is what systemctl says, the package what dpkg  *)
(* says.                                                                   *)
ResolveLoader(l, i, failed) ==
  [l EXCEPT !.unit = IF <<"systemctl", i>> \in failed THEN "none" ELSE @,
            !.packaged = @ /\ <<"dpkg", i>> \notin failed]

BuildProgram(i, failed) ==
  LET p == progs[i]
      Unless(call, hooks) == IF <<call, NoId>> \in failed THEN {} ELSE hooks
  IN  [p EXCEPT !.cgroup = Unless("cgroup", @),
                !.net    = Unless("net", @),
                !.links  = Unless("link", @),
                !.loader = ResolveLoader(@, i, failed),
                !.code   = IF <<"xlated", i>> \in failed
                           THEN <<p.tag, p.name, Schema(p, ListedMaps(failed))>> ELSE @]

Listed(failed) ==
  [progs |-> [i \in Id |-> IF progs[i] = Absent \/ <<"prog", NoId>> \in failed THEN Absent
                           ELSE BuildProgram(i, failed)],
   maps  |-> ListedMaps(failed)]

Scan(failed) ==
  \/ /\ failed = {}
     /\ unchanged' = TRUE /\ current' = TRUE
     /\ UNCHANGED badScans
  \/ /\ failed # {} /\ badScans < MaxBadScans
     /\ badScans' = badScans + 1
     /\ current' = FALSE
     /\ unchanged' = (unchanged /\ failed = {<<"prog", NoId>>})

Programs(s) == {s.progs[i] : i \in Id} \ {Absent}
Maps(s)     == {s.maps[i] : i \in MapId} \ {Absent}

RiskyMaps(p, s) == Cardinality({m \in Maps(s) : m.id \in p.maps /\ m.type \in HighRiskMapTypes})

Class(p, s) == ClassifyProgram(p, RiskyMaps(p, s), ProgKey(p) \in baseline)

-----------------------------------------------------------------------------
(* run_bpf_watch: findings *)

Rank == [surveillance |-> 1, benign_candidate |-> 2, alert_high |-> 3, alert_critical |-> 4,
         vanished |-> 0, ignored |-> 0, baseline_match |-> 0]

IdsWith(s, k) == {i \in Id : s.progs[i] # Absent /\ ProgKey(s.progs[i]) = k}

(* The identifier under which the watcher looks at entry k: the last       *)
(* program with its key (prog_by_key), else the one with its identifier.   *)
MatchId(k, s) ==
  LET ids == IdsWith(s, k) IN
  IF ids # {} THEN Max(ids)
  ELSE IF watch[k].id # NoId /\ s.progs[watch[k].id] # Absent THEN watch[k].id
  ELSE NoId

Match(k, s) == s.progs[MatchId(k, s)]

(* A finding is about the object its message names. *)
Say(condition, object, what, level) ==
  IF condition THEN {[about |-> object, what |-> what, level |-> level]} ELSE {}

(* Mutant of NewLinks: any link counts. *)
AllLinks(p, e) == p.links
NewLinks(p, e) == p.links \ e.meta.links

(* The steps of the loop for one entry e of program p, in order: a new     *)
(* link, a new pin, another loader, a higher class.  All but the pin ask   *)
(* _escalation_finding, which is silent when last_alert_state is already   *)
(* that state, and sets it.                                                *)
Inspect(e, p, s) ==
  LET class == Class(p, s)
      key   == ProgKey(p)
      link  == NewLinks(p, e) # {}
      last1 == IF link THEN "alert_high" ELSE e.last
      exe   == p.loader.exe # e.meta.loader.exe /\ ScoreProgram(p, RiskyMaps(p, s)) >= 40
      last2 == IF exe THEN "alert_high" ELSE last1
      rise  == class \in Alerting /\ Rank[e.state] < Rank[class]
  IN  [found |-> Say(link /\ e.last # "alert_high", key, "link", "alert_high")
                 \cup Say(p.pinned /\ ~e.meta.pinned, key, "pin", "medium")
                 \cup Say(exe /\ last1 # "alert_high", key, "loader", "alert_high")
                 \cup Say(rise /\ last2 # class, key, "risk", class),
       last  |-> IF rise THEN class ELSE last2]

(* The program entries the loop inspects. *)
Inspected(s) == {k \in Key : /\ k[1] = "prog"
                             /\ watch[k] # Absent
                             /\ watch[k].state # "vanished"
                             /\ MatchId(k, s) # NoId}

ProgFindings(s) == UNION {Inspect(watch[k], Match(k, s), s).found : k \in Inspected(s)}

(* The watchlist after the loop: an inspected entry is stored at the key   *)
(* its program has now.  Of several stored at one key the last in the      *)
(* order of the dictionary stays; an entry already there gives way.        *)
Renamed(s, order) ==
  LET inspected == Inspected(s)
      home      == [o \in inspected |-> ProgKey(Match(o, s))] IN
  [k \in Key |->
     LET here  == {o \in inspected : home[o] = k}
         moved == here \ {k}
         from  == IF moved = {} THEN k
                  ELSE CHOOSE o \in moved : \A x \in moved :
                         order[MatchId(x, s)] <= order[MatchId(o, s)]
         p     == Match(from, s)
     IN  IF here # {}
         THEN [id |-> MatchId(from, s), state |-> Class(p, s),
               last |-> Inspect(watch[from], p, s).last, meta |-> p]
         ELSE IF k \in inspected THEN Absent ELSE watch[k]]

(* A map never scores more than 30 points: its class does not rise.  Of    *)
(* the maps with one key the last one listed counts (map_by_key).          *)
MapIdsWith(s, k) == {i \in MapId : s.maps[i] # Absent /\ MapKey(s.maps[i]) = k}

InspectedMaps(s) == {k \in Key : /\ k[1] = "map"
                                 /\ watch[k] # Absent
                                 /\ watch[k].state # "vanished"
                                 /\ MapIdsWith(s, k) # {}}

MapFindings(s) ==
  UNION {Say(watch[k].meta.holders # s.maps[Max(MapIdsWith(s, k))].holders,
             k, "mutated", "alert_high") : k \in InspectedMaps(s)}

-----------------------------------------------------------------------------
(* update_watchlist_from_scan *)

(* Mutant of Unwatched: an object in the baseline stays on the watchlist. *)
UnwatchedOnlyIgnored == {"ignored"}
Unwatched == {"ignored", "baseline_match"}

(* A program of the scan takes over the entry of its key, else the entry   *)
(* of its identifier, whose key is then dropped.                           *)
Absorb(w, i, s) ==
  LET p     == s.progs[i]
      k     == ProgKey(p)
      old   == IF w[k] # Absent THEN {k}
               ELSE {o \in Key : o[1] = "prog" /\ w[o] # Absent /\ w[o].id = i}
      last  == IF old = {} THEN "none" ELSE w[CHOOSE o \in old : TRUE].last
  IN  IF p = Absent THEN w
      ELSE IF Class(p, s) \in Unwatched THEN [w EXCEPT ![k] = Absent]
      ELSE [o \in Key |->
              IF o = k THEN [id |-> i, state |-> Class(p, s), last |-> last, meta |-> p]
              ELSE IF o \in old THEN Absent ELSE w[o]]

(* Mutant of AbsorbMap: an entry keeps the metadata it began with. *)
AbsorbMapOnce(w, m) ==
  LET k == MapKey(m)
  IN  IF k \in baseline THEN [w EXCEPT ![k] = Absent]
      ELSE IF w[k] = Absent
      THEN [w EXCEPT ![k] = [id |-> m.id, state |-> ClassifyMap(m.type, FALSE), meta |-> m,
                             last |-> "none"]]
      ELSE [w EXCEPT ![k].id = m.id, ![k].state = ClassifyMap(m.type, FALSE)]

AbsorbMap(w, m) ==
  LET k     == MapKey(m)
      class == ClassifyMap(m.type, k \in baseline)
  IN  [w EXCEPT ![k] =
         IF class \in Unwatched THEN Absent
         ELSE [id |-> m.id, state |-> class, meta |-> m,
               last |-> IF w[k] = Absent THEN "none" ELSE w[k].last]]

(* Programs and maps are taken in the order of their identifiers.          *)
AbsorbPrograms(w, s) ==
  LET after[i \in 0..MaxId] == IF i = 0 THEN w ELSE Absorb(after[i - 1], i, s)
  IN  after[MaxId]

AbsorbMaps(w, s) ==
  LET after[i \in 0..MaxMapId] ==
        IF i = 0 THEN w
        ELSE IF s.maps[i] = Absent THEN after[i - 1] ELSE AbsorbMap(after[i - 1], s.maps[i])
  IN  after[MaxMapId]

AbsorbAll(w, s) == AbsorbMaps(AbsorbPrograms(w, s), s)

(* Mutant of Vanish: what the scan lacks stays as it was. *)
VanishNothing(w, s) == w

Vanish(w, s) ==
  LET seen == {ProgKey(p) : p \in Programs(s)} \cup {MapKey(m) : m \in Maps(s)}
  IN  [k \in Key |-> IF w[k] # Absent /\ k \notin seen
                     THEN [w[k] EXCEPT !.state = "vanished", !.id = NoId]
                     ELSE w[k]]

UpdateFromScan(w, s) == Vanish(AbsorbAll(w, s), s)

-----------------------------------------------------------------------------
(* The modes *)

(* run_bpf_watch, but for check_audit_gap: the last finding of a run, that *)
(* the counters of auditd grew, is of auditd and of no object.             *)
Watch ==
  \E failed \in Failing \cup {{}} :
    LET s == Listed(failed) IN
    /\ Scan(failed)
    /\ \E order \in Bijection(Id, Id) : watch' = UpdateFromScan(Renamed(s, order), s)
    /\ findings' = ProgFindings(s) \cup MapFindings(s)
    /\ UNCHANGED <<kernel, baseline, events>>

(* The audit names what alerts, and what is watched for the first time.    *)
AuditFindings(s) ==
  LET FirstSeen(k) == watch[k] = Absent
      OfProgram(p) == Say(\/ Class(p, s) \in Alerting
                          \/ Class(p, s) = "surveillance" /\ FirstSeen(ProgKey(p)),
                          ProgKey(p), "audit", Class(p, s))
      OfMap(m)     == Say(ClassifyMap(m.type, MapKey(m) \in baseline) = "surveillance"
                            /\ FirstSeen(MapKey(m)),
                          MapKey(m), "audit", "surveillance")
  IN  UNION ({OfProgram(p) : p \in Programs(s)} \cup {OfMap(m) : m \in Maps(s)})

(* run_bpf_audit *)
Audit ==
  \E failed \in Failing \cup {{}} :
    LET s == Listed(failed) IN
    /\ Scan(failed)
    /\ watch' = UpdateFromScan(watch, s)
    /\ findings' = AuditFindings(s)
    /\ UNCHANGED <<kernel, baseline, events>>

(* The metadata of the map entries, vanished ones included.                *)
WatchedMaps == {watch[k].meta : k \in {o \in Key : o[1] = "map" /\ watch[o] # Absent}}

(* --bpf-baseline promote *)
Promote(k) ==
  /\ watch[k] # Absent
  /\ k[1] = "prog" => CanPromote(watch[k].meta, WatchedMaps)
  /\ baseline' = baseline \cup {k}
  /\ watch' = [watch EXCEPT ![k] = Absent]
  /\ findings' = {}
  /\ UNCHANGED <<kernel, events, badScans, unchanged, current>>

(* --bpf-watchlist clear *)
Clear(k) ==
  /\ watch[k] # Absent
  /\ watch' = [watch EXCEPT ![k] = Absent]
  /\ findings' = {}
  /\ current' = FALSE
  /\ UNCHANGED <<kernel, baseline, events, badScans, unchanged>>

-----------------------------------------------------------------------------
Kernel ==
  \/ \E v \in Variant : LoadProgram(v)
  \/ \E i \in Id, v \in Variant : Hold(i, v)
  \/ \E i \in Id : UnloadProgram(i) \/ Pin(i)
  \/ \E i \in Id, l \in Link : Attach(i, l) \/ Detach(i, l)
  \/ \E m \in MapVariant : CreateMap(m)
  \/ \E i \in MapId : FreeMap(i) \/ \E pids \in SUBSET Pid : HoldMap(i, pids)
  \/ Reboot

BpfNext ==
  \/ Kernel
  \/ Watch
  \/ Audit
  \/ \E k \in Key : Promote(k) \/ Clear(k)

BpfSpec == BpfInit /\ [][BpfNext]_bpfVars

-----------------------------------------------------------------------------
(* Properties *)

(* An entry of the watchlist, of a program or of a map.                    *)
EntryOf(object, id) ==
  [id : id \cup {NoId}, state : WatchState, last : {"none"} \cup Alerting, meta : object]

(* The types of the variables; an entry of the watchlist is in a watched   *)
(* state, with an identifier unless it vanished.                           *)
BpfTypeOK ==
  /\ progs \in [Id -> Program \cup {Absent}]
  /\ maps \in [MapId -> MapObject \cup {Absent}]
  /\ next \in [prog : 1..(MaxId + 1), map : 1..(MaxMapId + 1)]
  /\ DOMAIN watch = Key
  /\ \A k \in Key : watch[k] # Absent =>
       /\ watch[k] \in IF k[1] = "prog" THEN EntryOf(Program, Id) ELSE EntryOf(MapObject, MapId)
       /\ watch[k].id = NoId <=> watch[k].state = "vanished"
  /\ baseline \subseteq Key
  /\ \A f \in findings : f.about \in Key
  /\ events \in 0..MaxEvents /\ badScans \in 0..MaxBadScans
  /\ unchanged \in BOOLEAN /\ current \in BOOLEAN

(* After a run that saw the kernel as it is, the watchlist says what is    *)
(* loaded: the entry of a key stands for the last program with that key,   *)
(* with its class and identifier, there is none when that program is in    *)
(* the baseline or on the whitelist, and every other entry is vanished,    *)
(* however keys and identifiers moved meanwhile.  The same of the maps.    *)
WatchlistTracksKernel ==
  current =>
    LET now == Listed({})
        StandsFor(k, id, object, class) ==
          IF class \in Unwatched THEN watch[k] = Absent
          ELSE /\ watch[k] # Absent
               /\ watch[k].id = id /\ watch[k].meta = object /\ watch[k].state = class
    IN  \A k \in Key :
          LET ids == IF k[1] = "prog" THEN IdsWith(now, k) ELSE MapIdsWith(now, k)
              id  == Max(ids)
          IN  IF ids = {} THEN watch[k] # Absent => watch[k].state = "vanished"
              ELSE IF k[1] = "prog" THEN StandsFor(k, id, progs[id], Class(progs[id], now))
              ELSE StandsFor(k, id, maps[id], ClassifyMap(maps[id].type, k \in baseline))

(* "watcher runs are idempotent (no repeat alerts without escalation)"     *)
(* (SECURITY-AUDIT-SPEC.MD, NC-9): of programs and maps the watcher finds  *)
(* something only when one changed since the last scan in which every call *)
(* but the listing of programs was answered, or when its own or one since  *)
(* then is not: a failing link or map listing, cgroup or net listing,      *)
(* systemctl, dpkg or dump makes programs look changed.  Whatever was      *)
(* promoted, cleared or missing from the listing of programs does not.     *)
WatchIdempotent == [][unchanged /\ unchanged' /\ findings' # {} => ~Watch]_bpfVars

(* "manual promotion (guarded: no lsm/kprobe/... or prog_array)": right    *)
(* after a run that saw the kernel, the program a promoted entry stands    *)
(* for is of no such type and uses no prog_array map, unless that map was  *)
(* promoted before it or has a newer twin, which then has its entry.       *)
PromotionGuarded ==
  [][current =>
       LET now == Listed({}) IN
       \A k \in baseline' \ baseline :
         k[1] = "prog" /\ IdsWith(now, k) # {} =>
           LET p == progs[Max(IdsWith(now, k))] IN
           /\ p.type \notin NonPromotableTypes
           /\ \A j \in p.maps :
                maps[j].type = "prog_array" =>
                  \/ MapKey(maps[j]) \in baseline
                  \/ j # Max(MapIdsWith(now, MapKey(maps[j])))]_bpfVars

==============================================================================
