------------------------------ MODULE StateFile ------------------------------
(***************************************************************************)
(* src/src/secmon/state.py: the state document of secmon, kept in one JSON *)
(* file that every mode loads at its start and saves before it ends.       *)
(*                                                                         *)
(* load_state takes a shared flock on state.json.lock while it reads;      *)
(* save_state takes an exclusive one while it writes state.json, then the  *)
(* snapshot of the day, each through _atomic_write (write path.tmp, fsync, *)
(* os.replace), and prunes old snapshots.  Processes are started by cron,  *)
(* by the Hermes plugin or by hand, overlap freely, and may be killed at   *)
(* any step; the machine may lose power.                                   *)
(*                                                                         *)
(* A document is abstracted to the set of updates recorded in it.          *)
(***************************************************************************)
EXTENDS Naturals, FiniteSets

CONSTANTS
  Proc,        \* processes that may be running at the same time
  Mode,        \* the modes they run, a subset of DOMAIN SavesOf
  MaxRuns,     \* bound: runs started by one process
  MaxDay,      \* bound: days of the calendar, 1..MaxDay
  Keep,        \* general.snapshot_retention_days
  MaxOutages,  \* bound: power losses
  MaxFaults    \* bound: damages of the state file by the medium

(* How often a mode calls save_state: --tick at its start, after a daily   *)
(* digest, and at its end; --daily and --status from the command line      *)
(* never; the others once.  The plugin's run_mode saves once more after    *)
(* the mode it ran.                                                        *)
SavesOf ==
  [tick         |-> {2, 3},
   check        |-> {1},
   record       |-> {1},
   daily        |-> {0},
   detectBotnet |-> {1},
   status       |-> {0},
   audit        |-> {1},
   bpfWatch     |-> {1},
   pluginTick   |-> {3, 4},
   pluginCheck  |-> {2},
   pluginDaily  |-> {1}]

ASSUME ModeAssumption == Mode \subseteq DOMAIN SavesOf
ASSUME BoundAssumption ==
  MaxRuns \in Nat /\ MaxDay \in Nat \ {0} /\ MaxOutages \in Nat /\ MaxFaults \in Nat
ASSUME KeepAssumption == Keep \in Nat \ {0}

Days   == 1..MaxDay
State  == 0                  \* the path of state.json; d \in Days is the
Path   == {State} \cup Days  \* path of the snapshot of day d
Update == Proc \X (0..MaxRuns) \X (1..4)

(* A file: whether the name exists, the updates in the document, whether   *)
(* the JSON text is complete, whether its bytes were synced to the medium. *)
File == [exists : BOOLEAN, val : SUBSET Update, whole : BOOLEAN, synced : BOOLEAN]

NoFile == [exists |-> FALSE, val |-> {}, whole |-> TRUE, synced |-> TRUE]
Torn   == [exists |-> TRUE, val |-> {}, whole |-> FALSE, synced |-> TRUE]
Stored == [exists |-> TRUE, val |-> {}, whole |-> TRUE, synced |-> TRUE]

VARIABLES
  files,    \* files[x]: what the name x refers to now
  durable,  \* durable[x]: what it refers to after a power loss
  tmp,      \* tmp[x]: the file x.tmp of _atomic_write
  lock,     \* lock[p]: the flock p holds on state.json.lock
  pc,       \* where process p is
  base,     \* base[p]: the document p loaded
  own,      \* own[p]: the updates p made to it in memory
  left,     \* left[p]: calls of save_state p has still to begin
  target,   \* target[p]: the path p's _atomic_write is writing
  runs,     \* runs[p]: runs p has started
  today,    \* the current day
  outages, faults,  \* power losses and damages so far
  acked,    \* history: updates whose save_state returned True
  missed    \* history: missed[p], what others saved since p loaded

vars == <<files, durable, tmp, lock, pc, base, own, left, target, runs,
          today, outages, faults, acked, missed>>

disk    == <<files, durable, tmp>>
memory  == <<base, own, left, runs>>
world   == <<today, outages, faults>>
history == <<acked, missed>>

(* The program counters at which save_state holds the exclusive lock.      *)
Saving == {"open", "write", "sync", "replace", "snapshot", "prune",
           "saved", "failed"}
Location == {"idle", "waitShared", "reading", "ready", "waitExclusive"} \cup Saving

(* The process has loaded, and has in memory base[p] \cup own[p]. *)
HasDocument(p) == pc[p] \notin {"idle", "waitShared", "reading"}

(* Nothing was stored yet, or only the document.                           *)
Init ==
  /\ \E f \in {NoFile, Stored} : files = [x \in Path |-> IF x = State THEN f ELSE NoFile]
  /\ durable = files
  /\ tmp     = [x \in Path |-> NoFile]
  /\ lock    = [p \in Proc |-> "none"]
  /\ pc      = [p \in Proc |-> "idle"]
  /\ base    = [p \in Proc |-> {}]
  /\ own     = [p \in Proc |-> {}]
  /\ left    = [p \in Proc |-> 0]
  /\ target  = [p \in Proc |-> State]
  /\ runs    = [p \in Proc |-> 0]
  /\ today   = 1
  /\ outages = 0
  /\ faults  = 0
  /\ acked   = {}
  /\ missed  = [p \in Proc |-> {}]

Goto(p, from, to) ==
  /\ pc[p] \in from
  /\ pc' = [pc EXCEPT ![p] = to]

-----------------------------------------------------------------------------
(* load_state *)

(* main picks a mode; load_state looks for the file before it takes any    *)
(* lock, and a first run goes on with default_state().                     *)
Start(p) ==
  /\ runs[p] < MaxRuns
  /\ Goto(p, {"idle"}, IF files[State].exists THEN "waitShared" ELSE "ready")
  /\ runs' = [runs EXCEPT ![p] = @ + 1]
  /\ \E m \in Mode : \E n \in SavesOf[m] : left' = [left EXCEPT ![p] = n]
  /\ UNCHANGED <<disk, lock, base, own, target, world, history>>

(* Mutant: load_state does not wait (LOCK_NB) and goes on without a document. *)
LockSharedNoWait(p) ==
  /\ \/ /\ Goto(p, {"waitShared"}, "reading")
        /\ \A q \in Proc : lock[q] # "exclusive"
        /\ lock' = [lock EXCEPT ![p] = "shared"]
     \/ /\ Goto(p, {"waitShared"}, "ready")
        /\ \E q \in Proc : lock[q] = "exclusive"
        /\ UNCHANGED lock
  /\ UNCHANGED <<disk, memory, target, world, history>>

(* flock(LOCK_SH): blocks while another process holds LOCK_EX. *)
LockShared(p) ==
  /\ Goto(p, {"waitShared"}, "reading")
  /\ \A q \in Proc : lock[q] # "exclusive"
  /\ lock' = [lock EXCEPT ![p] = "shared"]
  /\ UNCHANGED <<disk, memory, target, world, history>>

(* Mutant of Read: the lock of load_state is held until the process ends.  *)
ReadKeepsLock(p) ==
  /\ Goto(p, {"reading"}, "ready")
  /\ base' = [base EXCEPT ![p] = IF files[State].whole THEN files[State].val ELSE {}]
  /\ missed' = [missed EXCEPT ![p] = {}]
  /\ UNCHANGED <<disk, lock, own, left, runs, target, world, acked>>

(* The document is read; a text json.load rejects is copied to a .corrupt  *)
(* file and replaced by default_state().  The lock is released either way. *)
(* (Bytes that are not UTF-8 raise what load_state does not catch: Kill.)  *)
Read(p) ==
  /\ Goto(p, {"reading"}, "ready")
  /\ base' = [base EXCEPT ![p] = IF files[State].whole THEN files[State].val ELSE {}]
  /\ missed' = [missed EXCEPT ![p] = {}]
  /\ lock' = [lock EXCEPT ![p] = "none"]
  /\ UNCHANGED <<disk, own, left, target, runs, world, acked>>

-----------------------------------------------------------------------------
(* save_state *)

(* The mode records an update in its document and calls save_state. *)
Work(p) ==
  /\ left[p] > 0
  /\ Goto(p, {"ready"}, "waitExclusive")
  /\ own' = [own EXCEPT ![p] = @ \cup {<<p, runs[p], left[p]>>}]
  /\ left' = [left EXCEPT ![p] = @ - 1]
  /\ UNCHANGED <<disk, lock, base, target, runs, world, history>>

(* Mutants: save_state does not wait for readers; it asks for LOCK_SH. *)
LockExclusiveIgnoresReaders(p) ==
  /\ Goto(p, {"waitExclusive"}, "open")
  /\ \A q \in Proc : lock[q] # "exclusive"
  /\ lock' = [lock EXCEPT ![p] = "exclusive"]
  /\ target' = [target EXCEPT ![p] = State]
  /\ UNCHANGED <<disk, memory, world, history>>

LockExclusiveShares(p) ==
  /\ Goto(p, {"waitExclusive"}, "open")
  /\ \A q \in Proc : lock[q] # "exclusive"
  /\ lock' = [lock EXCEPT ![p] = "shared"]
  /\ target' = [target EXCEPT ![p] = State]
  /\ UNCHANGED <<disk, memory, world, history>>

(* flock(LOCK_EX): blocks while the file is locked at all. *)
LockExclusive(p) ==
  /\ Goto(p, {"waitExclusive"}, "open")
  /\ \A q \in Proc : lock[q] = "none"
  /\ lock' = [lock EXCEPT ![p] = "exclusive"]
  /\ target' = [target EXCEPT ![p] = State]
  /\ UNCHANGED <<disk, memory, world, history>>

(* _atomic_write: open(tmp, "w") truncates, ... *)
OpenTmp(p) ==
  /\ Goto(p, {"open"}, "write")
  /\ tmp' = [tmp EXCEPT ![target[p]] =
               [exists |-> TRUE, val |-> {}, whole |-> FALSE, synced |-> FALSE]]
  /\ UNCHANGED <<files, durable, lock, memory, target, world, history>>

(* ... fh.write and fh.flush hand the whole text to the kernel, ... *)
WriteTmp(p) ==
  /\ Goto(p, {"write"}, "sync")
  /\ tmp' = [tmp EXCEPT ![target[p]] =
               [exists |-> TRUE, val |-> base[p] \cup own[p],
                whole |-> TRUE, synced |-> FALSE]]
  /\ UNCHANGED <<files, durable, lock, memory, target, world, history>>

(* Mutant: no os.fsync. *)
SyncTmpSkipped(p) ==
  /\ Goto(p, {"sync"}, "replace")
  /\ UNCHANGED <<disk, lock, memory, target, world, history>>

(* ... os.fsync brings it to the medium, ... *)
SyncTmp(p) ==
  /\ Goto(p, {"sync"}, "replace")
  /\ tmp' = [tmp EXCEPT ![target[p]].synced = TRUE]
  /\ UNCHANGED <<files, durable, lock, memory, target, world, history>>

(* ... and os.replace makes path refer to it.  save_state goes on with the *)
(* snapshot of the day after the state file, with pruning after that.      *)
Replace(p) ==
  LET x == target[p] IN
  /\ Goto(p, {"replace"}, IF x = State THEN "snapshot" ELSE "prune")
  /\ files' = [files EXCEPT ![x] = tmp[x]]
  /\ tmp' = [tmp EXCEPT ![x] = NoFile]
  /\ missed' = [q \in Proc |-> IF x = State /\ q # p /\ HasDocument(q)
                                THEN missed[q] \cup tmp[x].val ELSE missed[q]]
  /\ UNCHANGED <<durable, lock, memory, target, world, acked>>

(* The name of the snapshot is taken from the clock after the state write. *)
BeginSnapshot(p) ==
  /\ Goto(p, {"snapshot"}, "open")
  /\ target' = [target EXCEPT ![p] = today]
  /\ UNCHANGED <<disk, lock, memory, world, history>>

(* Mutant: the names are sorted without reverse=True. *)
ExpiredOldestKept ==
  {d \in Days : /\ files[d].exists
                /\ Cardinality({e \in Days : files[e].exists /\ e < d}) >= Keep}

(* The snapshots beyond the Keep newest names. *)
Expired ==
  {d \in Days : /\ files[d].exists
                /\ Cardinality({e \in Days : files[e].exists /\ e > d}) >= Keep}

(* _prune_snapshots removes them; an os.remove that fails is ignored. *)
Prune(p) ==
  /\ Goto(p, {"prune"}, "saved")
  /\ \E gone \in SUBSET Expired :
       files' = [x \in Path |-> IF x \in gone THEN NoFile ELSE files[x]]
  /\ UNCHANGED <<durable, tmp, lock, memory, target, world, history>>

(* Mutant: the error of a write is caught inside _atomic_write. *)
SaveErrorGoesOn(p) ==
  /\ Goto(p, {"write", "sync"}, "replace")
  /\ UNCHANGED <<disk, lock, memory, target, world, history>>

(* An OSError (disk full, I/O error, chmod) ends save_state with False. *)
SaveError(p) ==
  /\ Goto(p, {"open", "write", "sync", "replace", "snapshot", "prune"}, "failed")
  /\ UNCHANGED <<disk, lock, memory, target, world, history>>

(* The lock is released; no caller looks at the result. *)
Unlock(p) ==
  /\ Goto(p, {"saved", "failed"}, "ready")
  /\ acked' = IF pc[p] = "saved" THEN acked \cup own[p] ELSE acked
  /\ lock' = [lock EXCEPT ![p] = "none"]
  /\ UNCHANGED <<disk, memory, target, world, missed>>

-----------------------------------------------------------------------------
(* The end of a process, and the machine *)

(* Its memory is gone, and the kernel drops the flock with the descriptor. *)
Gone(p) ==
  /\ lock' = [lock EXCEPT ![p] = "none"]
  /\ base' = [base EXCEPT ![p] = {}]
  /\ own' = [own EXCEPT ![p] = {}]
  /\ missed' = [missed EXCEPT ![p] = {}]
  /\ left' = [left EXCEPT ![p] = 0]
  /\ UNCHANGED <<disk, target, runs, world, acked>>

Finish(p) ==
  /\ left[p] = 0
  /\ Goto(p, {"ready"}, "idle")
  /\ Gone(p)

(* A mode or load_state raises, the script's timeout kills it, an operator *)
(* interrupts it.                                                          *)
Kill(p) ==
  /\ Goto(p, Location \ {"idle"}, "idle")
  /\ Gone(p)

(* The kernel commits the directory entry of x; followed only as long as   *)
(* the bound leaves a power loss to come.                                  *)
Flush(x) ==
  /\ outages < MaxOutages
  /\ durable' = [durable EXCEPT ![x] = files[x]]
  /\ UNCHANGED <<files, tmp, lock, pc, memory, target, world, history>>

(* Power is lost: unsynced bytes may be gone, entries not committed are. *)
PowerLoss ==
  /\ outages < MaxOutages
  /\ outages' = outages + 1
  /\ files' = [x \in Path |-> IF durable[x].synced THEN durable[x] ELSE Torn]
  /\ durable' = files'
  /\ lock' = [p \in Proc |-> "none"]
  /\ pc' = [p \in Proc |-> "idle"]
  /\ base' = [p \in Proc |-> {}]
  /\ own' = [p \in Proc |-> {}]
  /\ left' = [p \in Proc |-> 0]
  /\ missed' = [p \in Proc |-> {}]
  /\ UNCHANGED <<tmp, target, runs, today, faults, acked>>

(* The medium, or a hand edit, leaves a state file that is not JSON. *)
Damage ==
  /\ faults < MaxFaults
  /\ files[State].exists
  /\ faults' = faults + 1
  /\ files' = [files EXCEPT ![State] = Torn]
  /\ durable' = [durable EXCEPT ![State] = Torn]
  /\ UNCHANGED <<tmp, lock, pc, memory, target, today, outages, history>>

NextDay ==
  /\ today < MaxDay
  /\ today' = today + 1
  /\ UNCHANGED <<disk, lock, pc, memory, target, outages, faults, history>>

-----------------------------------------------------------------------------
Save(p) ==
  \/ LockExclusive(p) \/ OpenTmp(p) \/ WriteTmp(p) \/ SyncTmp(p) \/ Replace(p)
  \/ BeginSnapshot(p) \/ Prune(p) \/ SaveError(p) \/ Unlock(p)

(* What the process itself does; it is never required to start or be killed. *)
Step(p) ==
  \/ LockShared(p) \/ Read(p) \/ Work(p) \/ Save(p) \/ Finish(p)

Next ==
  \/ \E p \in Proc : Start(p) \/ Step(p) \/ Kill(p)
  \/ \E x \in Path : Flush(x)
  \/ PowerLoss
  \/ Damage
  \/ NextDay

Spec == Init /\ [][Next]_vars

(* A process that can take a step is eventually scheduled.  A lock request *)
(* waits only for holders that are scheduled too, and the runs are finite. *)
FairSpec == Spec /\ \A p \in Proc : WF_vars(Step(p))

-----------------------------------------------------------------------------
(* Properties *)

TypeOK ==
  /\ files \in [Path -> File] /\ durable \in [Path -> File] /\ tmp \in [Path -> File]
  /\ lock \in [Proc -> {"none", "shared", "exclusive"}]
  /\ pc \in [Proc -> Location]
  /\ base \in [Proc -> SUBSET Update]
  /\ own \in [Proc -> SUBSET Update]
  /\ left \in [Proc -> 0..4]
  /\ target \in [Proc -> Path]
  /\ runs \in [Proc -> 0..MaxRuns]
  /\ today \in Days
  /\ outages \in 0..MaxOutages /\ faults \in 0..MaxFaults
  /\ acked \subseteq Update
  /\ missed \in [Proc -> SUBSET Update]

(* While one process is inside save_state no other reads the state file or *)
(* is inside save_state: the flock of state.py:24-44 does its work, also   *)
(* after kills, errors and power losses.                                   *)
Exclusion ==
  \A p, q \in Proc :
    p # q /\ pc[p] \in Saving => pc[q] \notin Saving \cup {"reading"}

(* Whatever is killed, fails or loses power, the state file and every      *)
(* snapshot hold a complete document, now and after a power loss: writers  *)
(* never share a half-written tmp file, and the text is on the medium      *)
(* before the name points to it (_atomic_write, state.py:160-168).         *)
NeverTorn ==
  faults = 0 => \A x \in Path : files[x].whole /\ durable[x].whole

(* When save_state reaches the pruning, the snapshot of the day holds the  *)
(* very document the state file holds: nobody saved in between.            *)
SnapshotMatchesState ==
  faults = 0 =>
    \A p \in Proc : pc[p] \in {"prune", "saved"} =>
      files[target[p]].val = files[State].val

(* A process that has a document in memory lacks nothing of the state file *)
(* except what other processes saved after it loaded: an update is lost    *)
(* only to a run that overlaps the one that made it.                       *)
StaleOnlyByOverlap ==
  \A p \in Proc : HasDocument(p) =>
    files[State].val \subseteq base[p] \cup own[p] \cup missed[p]

(* A snapshot disappears only by a power loss or when Keep newer ones stay *)
(* (_prune_snapshots, state.py:171-182).                                   *)
PruneSparesNewest ==
  [][\A d \in Days :
       files[d].exists /\ ~files'[d].exists =>
         \/ outages' # outages
         \/ Cardinality({e \in Days : files'[e].exists /\ e > d}) >= Keep]_vars

(* Every run ends: load and save never wait for each other for ever, an    *)
(* OSError releases the lock, and so does the death of its holder.         *)
RunEnds == \A p \in Proc : (pc[p] # "idle") ~> (pc[p] = "idle")

(* The docstring of _state_lock (state.py:26-30): concurrent instances do  *)
(* not clobber each other's state updates.  Here: an update whose          *)
(* save_state returned True stays in the state file.                       *)
NoLostUpdate == acked \subseteq files[State].val

(* The file, its lock and its tmp files implement the register: a load     *)
(* sees one document that was stored as a whole, a store replaces it in    *)
(* one step.                                                               *)
Register == INSTANCE StateRegister WITH
  content <- files[State].val,
  safe    <- durable[State].val,
  view    <- base

RefinesRegister == Register!Spec

==============================================================================
