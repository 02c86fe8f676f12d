---------------------------- MODULE BpfClassifier -----------------------------
(***************************************************************************)
(* src/src/secmon/bpf/classifier.py: the risk score of a BPF program or    *)
(* map, the watch state it leads to, the systemd whitelist, and the guard  *)
(* of the manual promotion to the baseline.                                *)
(*                                                                         *)
(* Strings the code searches with patterns are abstracted to what the      *)
(* patterns find: where a program is attached, whether a hook is sensitive *)
(* (security_*, execve, ...), where the loader's executable lies.          *)
(***************************************************************************)
EXTENDS Naturals, FiniteSets

CONSTANTS
  HookName,   \* what a program attaches to
  ExeName     \* executables, as /proc/<pid>/exe names them

HighRiskProgTypes == {"lsm", "kprobe", "kretprobe", "fentry", "fexit",
                      "raw_tracepoint", "tracepoint", "perf_event", "struct_ops"}
HighRiskMapTypes  == {"prog_array", "array_of_maps", "hash_of_maps", "ringbuf",
                      "user_ringbuf", "perf_event_array", "sockmap", "sockhash",
                      "devmap", "cpumap", "xskmap", "task_storage",
                      "inode_storage", "sk_storage"}
NonPromotableTypes == {"lsm", "kprobe", "kretprobe", "fentry", "fexit",
                       "raw_tracepoint", "struct_ops"}

ProgType == HighRiskProgTypes \cup {"cgroup_skb", "cgroup_device", "socket_filter"}
MapType  == HighRiskMapTypes \cup {"hash", "array"}

(* An attach point: its target, the kind of hook, whether the name matches *)
(* one of HIGH_RISK_ATTACH_PATTERNS, whether it lies in /system.slice.     *)
Hook == [name : HookName, attach : {"ingress", "egress", "device", "other"},
         sensitive : BOOLEAN, inSlice : BOOLEAN]

(* The process that holds the program: its executable, where that lies     *)
(* ("none": no holder, or it cannot be read), whether the file was deleted *)
(* and whether it is in a package; root, the systemd unit, whether its     *)
(* cgroup lies in /system.slice, a shell or interpreter on the command     *)
(* line.                                                                   *)
Loader == [exe : ExeName, place : {"none", "systemd", "tmp", "other"},
           deleted : BOOLEAN, packaged : BOOLEAN, root : BOOLEAN,
           unit : {"none", "systemd", "other"}, inSlice : BOOLEAN,
           shell : BOOLEAN]

(* The attach points of a program: those bpftool lists for cgroups and for *)
(* network devices, and those of its links.                                *)
Hooks(p) == p.cgroup \cup p.net \cup {l.hook : l \in p.links}

If(condition, points) == IF condition THEN points ELSE 0

-----------------------------------------------------------------------------
(* is_systemd_whitelisted: never by the name alone *)

SystemdRule ==
  [sd_fw_ingress |-> [type |-> "cgroup_skb",    attach |-> "ingress"],
   sd_fw_egress  |-> [type |-> "cgroup_skb",    attach |-> "egress"],
   sd_devices    |-> [type |-> "cgroup_device", attach |-> "device"]]

(* By the path, to which the kernel adds a word once the file is deleted,  *)
(* or by the unit: systemd.service or init.scope.                          *)
IsSystemdLoader(l) == (l.place = "systemd" /\ ~l.deleted) \/ l.unit = "systemd"

IsSystemdWhitelisted(p) ==
  /\ p.name \in DOMAIN SystemdRule
  /\ p.type = SystemdRule[p.name].type
  /\ \E h \in Hooks(p) : h.attach = SystemdRule[p.name].attach
  /\ IsSystemdLoader(p.loader)
  /\ p.loader.inSlice \/ \A h \in Hooks(p) : h.inSlice

-----------------------------------------------------------------------------
(* The score *)

LoaderRisk(l) ==
  If(l.place = "tmp", 40) + If(l.place # "none" /\ l.deleted, 30)
  + If(l.place # "none" /\ (l.deleted \/ ~l.packaged), 20)
  + If(l.root /\ l.unit = "none", 25) + If(l.shell, 35)

AttachRisk(p) ==
  Cardinality({h \in Hooks(p) : h.sensitive})
    * (IF p.type \in HighRiskProgTypes THEN 60 ELSE 50)

MapTypeRisk(t) == If(t \in HighRiskMapTypes, 30)

Capped(score) == IF score > 150 THEN 150 ELSE score

(* score_program: riskyMaps counts the maps of a high-risk type it uses.   *)
ScoreProgram(p, riskyMaps) ==
  IF IsSystemdWhitelisted(p) THEN 0
  ELSE Capped(If(p.type \in HighRiskProgTypes, 40) + AttachRisk(p)
              + LoaderRisk(p.loader) + 30 * riskyMaps)

StateFromScore(score) ==
  IF score >= 100 THEN "alert_critical"
  ELSE IF score >= 70 THEN "alert_high" ELSE "surveillance"

Alerting == {"alert_high", "alert_critical"}

ClassifyProgram(p, riskyMaps, inBaseline) ==
  IF inBaseline THEN "baseline_match"
  ELSE IF IsSystemdWhitelisted(p) THEN "ignored"
  ELSE StateFromScore(ScoreProgram(p, riskyMaps))

ClassifyMap(t, inBaseline) ==
  IF inBaseline THEN "baseline_match" ELSE StateFromScore(MapTypeRisk(t))

-----------------------------------------------------------------------------
(* Mutant of CanPromote: the maps are not looked at. *)
CanPromoteAnyMap(p, maps) == p.type \notin NonPromotableTypes

(* can_promote_program: maps are the metadata of the watched maps.         *)
CanPromote(p, maps) ==
  /\ p.type \notin NonPromotableTypes
  /\ ~\E m \in maps : m.id \in p.maps /\ m.type = "prog_array"

==============================================================================
