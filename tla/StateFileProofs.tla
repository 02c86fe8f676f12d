--------------------------- MODULE StateFileProofs ---------------------------
(***************************************************************************)
(* Proofs about StateFile for every set of processes and modes and every   *)
(* value of the bounds: type correctness, mutual exclusion of savers and   *)
(* readers, complete files, loss only by overlap, pruning that spares the  *)
(* newest snapshots, and the refinement of StateRegister.                  *)
(***************************************************************************)
EXTENDS StateFile, FiniteSetTheorems, WellFoundedInduction, TLAPS

(* A mode saves at most four times. *)
LEMMA SavesBounded ==
  ASSUME NEW m \in Mode, NEW n \in SavesOf[m]
  PROVE  n \in 0..4
BY ModeAssumption DEF SavesOf

(* The values of the file records the actions write are files. *)
LEMMA FileValues ==
  /\ NoFile \in File
  /\ Stored \in File
  /\ Torn \in File
  /\ \A v \in SUBSET Update, w, s \in BOOLEAN :
       [exists |-> TRUE, val |-> v, whole |-> w, synced |-> s] \in File
BY DEF NoFile, Torn, Stored, File

(* The initial state is well typed. *)
LEMMA TypeInit == Init => TypeOK
<1> SUFFICES ASSUME Init PROVE TypeOK
  OBVIOUS
<1>1. PICK f \in {NoFile, Stored} : files = [x \in Path |-> IF x = State THEN f ELSE NoFile]
  BY DEF Init
<1>2. files \in [Path -> File] /\ durable \in [Path -> File]
  BY <1>1, FileValues DEF Init
<1> QED
  BY <1>2, FileValues, BoundAssumption
     DEF Init, TypeOK, Path, Days, State, Location, Saving

(* Every action keeps the types. *)
LEMMA TypeStep == TypeOK /\ [Next]_vars => TypeOK'
<1> SUFFICES ASSUME TypeOK, [Next]_vars PROVE TypeOK'
  OBVIOUS
<1> USE DEF TypeOK, Goto, disk, memory, world, history
<1>1. ASSUME NEW p \in Proc, Start(p) PROVE TypeOK'
  <2>1. runs'[p] \in 0..MaxRuns
    BY <1>1, BoundAssumption DEF Start
  <2>2. left' \in [Proc -> 0..4]
    BY <1>1, SavesBounded DEF Start
  <2>3. QED
    BY <1>1, <2>1, <2>2 DEF Start, Location
<1>2. ASSUME NEW p \in Proc, LockShared(p) PROVE TypeOK'
  BY <1>2 DEF LockShared, Location
<1>3. ASSUME NEW p \in Proc, Read(p) PROVE TypeOK'
  <2>1. files[State].val \in SUBSET Update
    BY DEF File, Path
  <2>2. QED
    BY <1>3, <2>1 DEF Read, Location
<1>4. ASSUME NEW p \in Proc, Work(p) PROVE TypeOK'
  <2>1. <<p, runs[p], left[p]>> \in Update
    BY <1>4, BoundAssumption DEF Work, Update
  <2>2. left'[p] \in 0..4
    BY <1>4 DEF Work
  <2>3. QED
    BY <1>4, <2>1, <2>2 DEF Work, Location
<1>5. ASSUME NEW p \in Proc, LockExclusive(p) PROVE TypeOK'
  BY <1>5 DEF LockExclusive, Location, Saving, Path
<1>6. ASSUME NEW p \in Proc, OpenTmp(p) PROVE TypeOK'
  BY <1>6, FileValues DEF OpenTmp, Location, Saving
<1>7. ASSUME NEW p \in Proc, WriteTmp(p) PROVE TypeOK'
  BY <1>7, FileValues DEF WriteTmp, Location, Saving
<1>8. ASSUME NEW p \in Proc, SyncTmp(p) PROVE TypeOK'
  <2>1. "sync" \in Location /\ "replace" \in Location
    BY DEF Location, Saving
  <2>2. tmp' = [tmp EXCEPT ![target[p]] = [tmp[target[p]] EXCEPT !.synced = TRUE]]
    BY <1>8 DEF SyncTmp
  <2>3. tmp[target[p]] \in File
    OBVIOUS
  <2>4. [tmp[target[p]] EXCEPT !.synced = TRUE] \in File
    BY <2>3 DEF File
  <2>5. tmp' \in [Path -> File]
    BY <2>2, <2>4
  <2>6. QED
    BY <1>8, <2>1, <2>5 DEF SyncTmp
<1>9. ASSUME NEW p \in Proc, Replace(p) PROVE TypeOK'
  <2>1. tmp[target[p]] \in File /\ tmp[target[p]].val \in SUBSET Update
    BY DEF File
  <2>2. QED
    BY <1>9, <2>1, FileValues DEF Replace, Location, Saving
<1>10. ASSUME NEW p \in Proc, BeginSnapshot(p) PROVE TypeOK'
  BY <1>10 DEF BeginSnapshot, Location, Saving, Path
<1>11. ASSUME NEW p \in Proc, Prune(p) PROVE TypeOK'
  BY <1>11, FileValues DEF Prune, Location, Saving
<1>12. ASSUME NEW p \in Proc, SaveError(p) PROVE TypeOK'
  BY <1>12 DEF SaveError, Location, Saving
<1>13. ASSUME NEW p \in Proc, Unlock(p) PROVE TypeOK'
  BY <1>13 DEF Unlock, Location, Saving
<1>14. ASSUME NEW p \in Proc, Finish(p) PROVE TypeOK'
  BY <1>14 DEF Finish, Gone, Location
<1>15. ASSUME NEW p \in Proc, Kill(p) PROVE TypeOK'
  BY <1>15 DEF Kill, Gone, Location
<1>16. ASSUME NEW x \in Path, Flush(x) PROVE TypeOK'
  BY <1>16 DEF Flush
<1>17. CASE PowerLoss
  BY <1>17, FileValues, BoundAssumption DEF PowerLoss, Location
<1>18. CASE Damage
  BY <1>18, FileValues, BoundAssumption DEF Damage, Path
<1>19. CASE NextDay
  BY <1>19, BoundAssumption DEF NextDay, Days
<1>20. CASE UNCHANGED vars
  BY <1>20 DEF vars
<1>21. QED
  BY <1>1, <1>2, <1>3, <1>4, <1>5, <1>6, <1>7, <1>8, <1>9, <1>10, <1>11, <1>12,
     <1>13, <1>14, <1>15, <1>16, <1>17, <1>18, <1>19, <1>20
  DEF Next, Step, Save

(* Every variable keeps its type, for all processes, modes and bounds. *)
THEOREM TypeCorrect == Spec => []TypeOK
BY TypeInit, TypeStep, PTL DEF Spec

-----------------------------------------------------------------------------
(* The inductive invariant *)

(* Who holds which flock follows from where each process is, and nobody    *)
(* else holds any while one holds the exclusive one.                       *)
LockInv ==
  /\ \A p \in Proc : /\ pc[p] \in Saving <=> lock[p] = "exclusive"
                     /\ pc[p] = "reading" <=> lock[p] = "shared"
  /\ \A p, q \in Proc : p # q /\ lock[p] = "exclusive" => lock[q] = "none"

(* What the saver has written to its tmp file, and synced.                 *)
TmpInv ==
  \A p \in Proc :
    /\ pc[p] \in {"sync", "replace"} =>
         /\ tmp[target[p]].val = base[p] \cup own[p]
         /\ tmp[target[p]].exists /\ tmp[target[p]].whole
    /\ pc[p] = "replace" => tmp[target[p]].synced

(* A name refers to synced bytes only, and to an incomplete document only  *)
(* after a damage; what cannot be read holds no update.                    *)
SoundFile(f) ==
  /\ f.synced
  /\ faults = 0 => f.whole
  /\ ~f.whole \/ ~f.exists => f.val = {}

FilesInv == \A x \in Path : SoundFile(files[x]) /\ SoundFile(durable[x])

(* No snapshot is from the future; the one being written is the newest.    *)
ClockInv ==
  /\ \A d \in Days : files[d].exists \/ durable[d].exists => d <= today
  /\ \A p \in Proc : pc[p] \in Saving => target[p] <= today
  /\ \A p \in Proc : pc[p] \in Saving /\ target[p] # State =>
       \A d \in Days : files[d].exists => d <= target[p]

(* From the replacement of the state file to the end of save_state nobody  *)
(* else changes it, so the snapshot is written from the same document.     *)
SnapshotInv ==
  faults = 0 =>
    \A p \in Proc :
      /\ pc[p] = "snapshot" => files[State].val = base[p] \cup own[p]
      /\ pc[p] \in {"open", "write", "sync", "replace"} /\ target[p] # State =>
           files[State].val = base[p] \cup own[p]
      /\ pc[p] \in {"prune", "saved"} =>
           target[p] # State /\ files[target[p]].val = files[State].val

IInv == LockInv /\ TmpInv /\ FilesInv /\ StaleOnlyByOverlap

IInvSnapshot == IInv /\ ClockInv /\ SnapshotInv

(* Every action keeps the agreement between program counters and flocks,   *)
(* and the exclusion of the lock (state.py:24-44).                         *)
LEMMA LockStep ==
  TypeOK /\ LockInv /\ [Next]_vars => LockInv'
<1> SUFFICES ASSUME TypeOK, LockInv, [Next]_vars PROVE LockInv'
  OBVIOUS
<1> USE DEF TypeOK, LockInv, Location, Saving, Goto, disk, memory, world, history
<1>1. ASSUME NEW p \in Proc, Start(p) PROVE LockInv'
  BY <1>1 DEF Start
<1>2. ASSUME NEW p \in Proc, LockShared(p) PROVE LockInv'
  BY <1>2 DEF LockShared
<1>3. ASSUME NEW p \in Proc, Read(p) PROVE LockInv'
  BY <1>3 DEF Read
<1>4. ASSUME NEW p \in Proc, Work(p) PROVE LockInv'
  BY <1>4 DEF Work
<1>5. ASSUME NEW p \in Proc, LockExclusive(p) PROVE LockInv'
  BY <1>5 DEF LockExclusive
<1>6. ASSUME NEW p \in Proc, OpenTmp(p) PROVE LockInv'
  BY <1>6 DEF OpenTmp
<1>7. ASSUME NEW p \in Proc, WriteTmp(p) PROVE LockInv'
  BY <1>7 DEF WriteTmp
<1>8. ASSUME NEW p \in Proc, SyncTmp(p) PROVE LockInv'
  BY <1>8 DEF SyncTmp
<1>9. ASSUME NEW p \in Proc, Replace(p) PROVE LockInv'
  BY <1>9 DEF Replace
<1>10. ASSUME NEW p \in Proc, BeginSnapshot(p) PROVE LockInv'
  BY <1>10 DEF BeginSnapshot
<1>11. ASSUME NEW p \in Proc, Prune(p) PROVE LockInv'
  BY <1>11 DEF Prune
<1>12. ASSUME NEW p \in Proc, SaveError(p) PROVE LockInv'
  BY <1>12 DEF SaveError
<1>13. ASSUME NEW p \in Proc, Unlock(p) PROVE LockInv'
  BY <1>13 DEF Unlock
<1>14. ASSUME NEW p \in Proc, Finish(p) PROVE LockInv'
  BY <1>14 DEF Finish, Gone
<1>15. ASSUME NEW p \in Proc, Kill(p) PROVE LockInv'
  BY <1>15 DEF Kill, Gone
<1>16. ASSUME NEW x \in Path, Flush(x) PROVE LockInv'
  BY <1>16 DEF Flush
<1>17. CASE PowerLoss
  BY <1>17 DEF PowerLoss
<1>18. CASE Damage
  BY <1>18 DEF Damage
<1>19. CASE NextDay
  BY <1>19 DEF NextDay
<1>20. CASE UNCHANGED vars
  BY <1>20 DEF vars
<1>21. QED
  BY <1>1, <1>2, <1>3, <1>4, <1>5, <1>6, <1>7, <1>8, <1>9, <1>10, <1>11, <1>12,
     <1>13, <1>14, <1>15, <1>16, <1>17, <1>18, <1>19, <1>20
  DEF Next, Step, Save

(* Every action keeps the tmp file of a writer complete once written: only *)
(* the holder of the lock touches it.                                      *)
LEMMA TmpStep ==
  TypeOK /\ LockInv /\ TmpInv /\ [Next]_vars => TmpInv'
<1> SUFFICES ASSUME TypeOK, LockInv, TmpInv, [Next]_vars PROVE TmpInv'
  OBVIOUS
<1> USE DEF TypeOK, LockInv, TmpInv, Location, Saving, File, Goto, disk, memory, world, history
<1>1. ASSUME NEW p \in Proc, Start(p) PROVE TmpInv'
  BY <1>1 DEF Start
<1>2. ASSUME NEW p \in Proc, LockShared(p) PROVE TmpInv'
  BY <1>2 DEF LockShared
<1>3. ASSUME NEW p \in Proc, Read(p) PROVE TmpInv'
  BY <1>3 DEF Read
<1>4. ASSUME NEW p \in Proc, Work(p) PROVE TmpInv'
  BY <1>4 DEF Work
<1>5. ASSUME NEW p \in Proc, LockExclusive(p) PROVE TmpInv'
  BY <1>5 DEF LockExclusive
<1>6. ASSUME NEW p \in Proc, OpenTmp(p) PROVE TmpInv'
  BY <1>6 DEF OpenTmp
<1>7. ASSUME NEW p \in Proc, WriteTmp(p) PROVE TmpInv'
  BY <1>7 DEF WriteTmp
<1>8. ASSUME NEW p \in Proc, SyncTmp(p) PROVE TmpInv'
  BY <1>8 DEF SyncTmp
<1>9. ASSUME NEW p \in Proc, Replace(p) PROVE TmpInv'
  BY <1>9 DEF Replace
<1>10. ASSUME NEW p \in Proc, BeginSnapshot(p) PROVE TmpInv'
  BY <1>10 DEF BeginSnapshot
<1>11. ASSUME NEW p \in Proc, Prune(p) PROVE TmpInv'
  BY <1>11 DEF Prune
<1>12. ASSUME NEW p \in Proc, SaveError(p) PROVE TmpInv'
  BY <1>12 DEF SaveError
<1>13. ASSUME NEW p \in Proc, Unlock(p) PROVE TmpInv'
  BY <1>13 DEF Unlock
<1>14. ASSUME NEW p \in Proc, Finish(p) PROVE TmpInv'
  BY <1>14 DEF Finish, Gone
<1>15. ASSUME NEW p \in Proc, Kill(p) PROVE TmpInv'
  BY <1>15 DEF Kill, Gone
<1>16. ASSUME NEW x \in Path, Flush(x) PROVE TmpInv'
  BY <1>16 DEF Flush
<1>17. CASE PowerLoss
  BY <1>17 DEF PowerLoss
<1>18. CASE Damage
  BY <1>18 DEF Damage
<1>19. CASE NextDay
  BY <1>19 DEF NextDay
<1>20. CASE UNCHANGED vars
  BY <1>20 DEF vars
<1>21. QED
  BY <1>1, <1>2, <1>3, <1>4, <1>5, <1>6, <1>7, <1>8, <1>9, <1>10, <1>11, <1>12,
     <1>13, <1>14, <1>15, <1>16, <1>17, <1>18, <1>19, <1>20
  DEF Next, Step, Save

(* Every action keeps the files behind all names complete and synced.      *)
LEMMA FilesStep ==
  TypeOK /\ TmpInv /\ FilesInv /\ [Next]_vars => FilesInv'
<1> SUFFICES ASSUME TypeOK, TmpInv, FilesInv, [Next]_vars PROVE FilesInv'
  OBVIOUS
<1> USE DEF TypeOK, TmpInv, FilesInv, SoundFile, NoFile, Torn, File, Location, Saving, Path, State, Goto, disk, memory, world, history
<1>1. ASSUME NEW p \in Proc, Start(p) PROVE FilesInv'
  BY <1>1 DEF Start
<1>2. ASSUME NEW p \in Proc, LockShared(p) PROVE FilesInv'
  BY <1>2 DEF LockShared
<1>3. ASSUME NEW p \in Proc, Read(p) PROVE FilesInv'
  BY <1>3 DEF Read
<1>4. ASSUME NEW p \in Proc, Work(p) PROVE FilesInv'
  BY <1>4 DEF Work
<1>5. ASSUME NEW p \in Proc, LockExclusive(p) PROVE FilesInv'
  BY <1>5 DEF LockExclusive
<1>6. ASSUME NEW p \in Proc, OpenTmp(p) PROVE FilesInv'
  BY <1>6 DEF OpenTmp
<1>7. ASSUME NEW p \in Proc, WriteTmp(p) PROVE FilesInv'
  BY <1>7 DEF WriteTmp
<1>8. ASSUME NEW p \in Proc, SyncTmp(p) PROVE FilesInv'
  BY <1>8 DEF SyncTmp
<1>9. ASSUME NEW p \in Proc, Replace(p) PROVE FilesInv'
  BY <1>9 DEF Replace
<1>10. ASSUME NEW p \in Proc, BeginSnapshot(p) PROVE FilesInv'
  BY <1>10 DEF BeginSnapshot
<1>11. ASSUME NEW p \in Proc, Prune(p) PROVE FilesInv'
  <2>1. PICK gone \in SUBSET Expired :
          files' = [x \in Path |-> IF x \in gone THEN NoFile ELSE files[x]]
    BY <1>11 DEF Prune
  <2>2. \A x \in Path : files'[x] = NoFile \/ files'[x] = files[x]
    BY <2>1
  <2>3. durable' = durable /\ faults' = faults
    BY <1>11 DEF Prune
  <2>4. SUFFICES ASSUME NEW x \in Path
                 PROVE SoundFile(files[x])' /\ SoundFile(durable[x])'
    OBVIOUS
  <2>5. SoundFile(durable[x])'
    BY <2>3
  <2>6. CASE files'[x] = NoFile
    BY <2>5, <2>6
  <2>7. CASE files'[x] = files[x]
    BY <2>3, <2>5, <2>7
  <2>8. QED
    BY <2>2, <2>6, <2>7
<1>12. ASSUME NEW p \in Proc, SaveError(p) PROVE FilesInv'
  BY <1>12 DEF SaveError
<1>13. ASSUME NEW p \in Proc, Unlock(p) PROVE FilesInv'
  BY <1>13 DEF Unlock
<1>14. ASSUME NEW p \in Proc, Finish(p) PROVE FilesInv'
  BY <1>14 DEF Finish, Gone
<1>15. ASSUME NEW p \in Proc, Kill(p) PROVE FilesInv'
  BY <1>15 DEF Kill, Gone
<1>16. ASSUME NEW x \in Path, Flush(x) PROVE FilesInv'
  BY <1>16 DEF Flush
<1>17. CASE PowerLoss
  <2>1. \A x \in Path : files'[x] = durable[x] /\ durable'[x] = durable[x]
    BY <1>17 DEF PowerLoss
  <2>2. QED
    BY <1>17, <2>1 DEF PowerLoss
<1>18. CASE Damage
  <2>1. \A x \in Path : /\ files'[x] = Torn \/ files'[x] = files[x]
                        /\ durable'[x] = Torn \/ durable'[x] = durable[x]
    BY <1>18 DEF Damage
  <2>2. faults' # 0
    BY <1>18, BoundAssumption DEF Damage
  <2>3. QED
    BY <2>1, <2>2, SMTT(20)
<1>19. CASE NextDay
  BY <1>19 DEF NextDay
<1>20. CASE UNCHANGED vars
  BY <1>20 DEF vars
<1>21. QED
  BY <1>1, <1>2, <1>3, <1>4, <1>5, <1>6, <1>7, <1>8, <1>9, <1>10, <1>11, <1>12,
     <1>13, <1>14, <1>15, <1>16, <1>17, <1>18, <1>19, <1>20
  DEF Next, Step, Save

(* Every action keeps the bound on what a loaded document lacks.           *)
LEMMA OverlapStep ==
  TypeOK /\ LockInv /\ TmpInv /\ FilesInv /\ StaleOnlyByOverlap /\ [Next]_vars => StaleOnlyByOverlap'
<1> SUFFICES ASSUME TypeOK, LockInv, TmpInv, FilesInv, StaleOnlyByOverlap, [Next]_vars PROVE StaleOnlyByOverlap'
  OBVIOUS
<1> USE DEF TypeOK, LockInv, TmpInv, FilesInv, SoundFile, StaleOnlyByOverlap, HasDocument, NoFile, Torn, File, Location, Saving, Path, Days, State, Goto, disk, memory, world, history
<1>1. ASSUME NEW p \in Proc, Start(p) PROVE StaleOnlyByOverlap'
  BY <1>1 DEF Start
<1>2. ASSUME NEW p \in Proc, LockShared(p) PROVE StaleOnlyByOverlap'
  BY <1>2 DEF LockShared
<1>3. ASSUME NEW p \in Proc, Read(p) PROVE StaleOnlyByOverlap'
  BY <1>3 DEF Read
<1>4. ASSUME NEW p \in Proc, Work(p) PROVE StaleOnlyByOverlap'
  BY <1>4 DEF Work
<1>5. ASSUME NEW p \in Proc, LockExclusive(p) PROVE StaleOnlyByOverlap'
  BY <1>5 DEF LockExclusive
<1>6. ASSUME NEW p \in Proc, OpenTmp(p) PROVE StaleOnlyByOverlap'
  BY <1>6 DEF OpenTmp
<1>7. ASSUME NEW p \in Proc, WriteTmp(p) PROVE StaleOnlyByOverlap'
  BY <1>7 DEF WriteTmp
<1>8. ASSUME NEW p \in Proc, SyncTmp(p) PROVE StaleOnlyByOverlap'
  BY <1>8 DEF SyncTmp
<1>9. ASSUME NEW p \in Proc, Replace(p) PROVE StaleOnlyByOverlap'
  BY <1>9 DEF Replace
<1>10. ASSUME NEW p \in Proc, BeginSnapshot(p) PROVE StaleOnlyByOverlap'
  BY <1>10 DEF BeginSnapshot
<1>11. ASSUME NEW p \in Proc, Prune(p) PROVE StaleOnlyByOverlap'
  BY <1>11 DEF Prune
<1>12. ASSUME NEW p \in Proc, SaveError(p) PROVE StaleOnlyByOverlap'
  BY <1>12 DEF SaveError
<1>13. ASSUME NEW p \in Proc, Unlock(p) PROVE StaleOnlyByOverlap'
  BY <1>13 DEF Unlock
<1>14. ASSUME NEW p \in Proc, Finish(p) PROVE StaleOnlyByOverlap'
  BY <1>14 DEF Finish, Gone
<1>15. ASSUME NEW p \in Proc, Kill(p) PROVE StaleOnlyByOverlap'
  BY <1>15 DEF Kill, Gone
<1>16. ASSUME NEW x \in Path, Flush(x) PROVE StaleOnlyByOverlap'
  BY <1>16 DEF Flush
<1>17. CASE PowerLoss
  BY <1>17 DEF PowerLoss
<1>18. CASE Damage
  BY <1>18 DEF Damage
<1>19. CASE NextDay
  BY <1>19 DEF NextDay
<1>20. CASE UNCHANGED vars
  BY <1>20 DEF vars
<1>21. QED
  BY <1>1, <1>2, <1>3, <1>4, <1>5, <1>6, <1>7, <1>8, <1>9, <1>10, <1>11, <1>12,
     <1>13, <1>14, <1>15, <1>16, <1>17, <1>18, <1>19, <1>20
  DEF Next, Step, Save

(* Every action keeps the history of misses empty outside a run and the    *)
(* target of a snapshot a day.                                             *)
LEMMA ClockStep ==
  TypeOK /\ LockInv /\ TmpInv /\ FilesInv /\ ClockInv /\ [Next]_vars => ClockInv'
<1> SUFFICES ASSUME TypeOK, LockInv, TmpInv, FilesInv, ClockInv, [Next]_vars PROVE ClockInv'
  OBVIOUS
<1> USE DEF TypeOK, LockInv, ClockInv, NoFile, File, Location, Saving, Path, Days, State, Goto, disk, memory, world, history
<1>1. ASSUME NEW p \in Proc, Start(p) PROVE ClockInv'
  BY <1>1 DEF Start
<1>2. ASSUME NEW p \in Proc, LockShared(p) PROVE ClockInv'
  BY <1>2 DEF LockShared
<1>3. ASSUME NEW p \in Proc, Read(p) PROVE ClockInv'
  BY <1>3 DEF Read
<1>4. ASSUME NEW p \in Proc, Work(p) PROVE ClockInv'
  BY <1>4 DEF Work
<1>5. ASSUME NEW p \in Proc, LockExclusive(p) PROVE ClockInv'
  BY <1>5 DEF LockExclusive
<1>6. ASSUME NEW p \in Proc, OpenTmp(p) PROVE ClockInv'
  BY <1>6 DEF OpenTmp
<1>7. ASSUME NEW p \in Proc, WriteTmp(p) PROVE ClockInv'
  BY <1>7 DEF WriteTmp
<1>8. ASSUME NEW p \in Proc, SyncTmp(p) PROVE ClockInv'
  BY <1>8 DEF SyncTmp
<1>9. ASSUME NEW p \in Proc, Replace(p) PROVE ClockInv'
  <2>1. \A d \in Days : files'[d].exists => d <= today /\ (target[p] # State => d <= target[p])
    BY <1>9 DEF Replace
  <2>2. QED
    BY <1>9, <2>1 DEF Replace
<1>10. ASSUME NEW p \in Proc, BeginSnapshot(p) PROVE ClockInv'
  BY <1>10 DEF BeginSnapshot
<1>11. ASSUME NEW p \in Proc, Prune(p) PROVE ClockInv'
  <2>1. PICK gone \in SUBSET Expired :
          files' = [x \in Path |-> IF x \in gone THEN NoFile ELSE files[x]]
    BY <1>11 DEF Prune
  <2>2. \A d \in Days : files'[d].exists => files[d].exists
    BY <2>1
  <2>3. QED
    BY <1>11, <2>2 DEF Prune
<1>12. ASSUME NEW p \in Proc, SaveError(p) PROVE ClockInv'
  BY <1>12 DEF SaveError
<1>13. ASSUME NEW p \in Proc, Unlock(p) PROVE ClockInv'
  BY <1>13 DEF Unlock
<1>14. ASSUME NEW p \in Proc, Finish(p) PROVE ClockInv'
  BY <1>14 DEF Finish, Gone
<1>15. ASSUME NEW p \in Proc, Kill(p) PROVE ClockInv'
  BY <1>15 DEF Kill, Gone
<1>16. ASSUME NEW x \in Path, Flush(x) PROVE ClockInv'
  BY <1>16 DEF Flush
<1>17. CASE PowerLoss
  <2>1. \A d \in Days : files'[d] = durable[d] /\ durable'[d] = durable[d]
    BY <1>17 DEF PowerLoss, FilesInv, SoundFile
  <2>2. QED
    BY <1>17, <2>1 DEF PowerLoss
<1>18. CASE Damage
  BY <1>18 DEF Damage
<1>19. CASE NextDay
  BY <1>19 DEF NextDay
<1>20. CASE UNCHANGED vars
  BY <1>20 DEF vars
<1>21. QED
  BY <1>1, <1>2, <1>3, <1>4, <1>5, <1>6, <1>7, <1>8, <1>9, <1>10, <1>11, <1>12,
     <1>13, <1>14, <1>15, <1>16, <1>17, <1>18, <1>19, <1>20
  DEF Next, Step, Save

(* Every action keeps the snapshot being written equal to the document.    *)
LEMMA SnapshotStep ==
  TypeOK /\ LockInv /\ TmpInv /\ FilesInv /\ ClockInv /\ SnapshotInv /\ [Next]_vars => SnapshotInv'
<1> SUFFICES ASSUME TypeOK, LockInv, TmpInv, FilesInv, ClockInv, SnapshotInv, [Next]_vars PROVE SnapshotInv'
  OBVIOUS
<1> USE DEF TypeOK, LockInv, TmpInv, SnapshotInv, NoFile, File, Location, Saving, Path, Days, State, Goto, disk, memory, world, history
<1>1. ASSUME NEW p \in Proc, Start(p) PROVE SnapshotInv'
  BY <1>1 DEF Start
<1>2. ASSUME NEW p \in Proc, LockShared(p) PROVE SnapshotInv'
  BY <1>2 DEF LockShared
<1>3. ASSUME NEW p \in Proc, Read(p) PROVE SnapshotInv'
  BY <1>3 DEF Read
<1>4. ASSUME NEW p \in Proc, Work(p) PROVE SnapshotInv'
  BY <1>4 DEF Work
<1>5. ASSUME NEW p \in Proc, LockExclusive(p) PROVE SnapshotInv'
  BY <1>5 DEF LockExclusive
<1>6. ASSUME NEW p \in Proc, OpenTmp(p) PROVE SnapshotInv'
  BY <1>6 DEF OpenTmp
<1>7. ASSUME NEW p \in Proc, WriteTmp(p) PROVE SnapshotInv'
  BY <1>7 DEF WriteTmp
<1>8. ASSUME NEW p \in Proc, SyncTmp(p) PROVE SnapshotInv'
  BY <1>8 DEF SyncTmp
<1>9. ASSUME NEW p \in Proc, Replace(p) PROVE SnapshotInv'
  <2>1. \A q \in Proc : q # p => pc'[q] = pc[q] /\ pc[q] \notin Saving
    BY <1>9 DEF Replace
  <2>2. CASE target[p] = State
    <3>1. pc'[p] = "snapshot" /\ files'[State].val = base'[p] \cup own'[p]
      BY <1>9, <2>2 DEF Replace
    <3>2. QED
      BY <1>9, <2>1, <3>1 DEF Replace
  <2>3. CASE target[p] # State
    <3>1. pc'[p] = "prune" /\ files'[State] = files[State] /\ target'[p] = target[p]
      BY <1>9, <2>3 DEF Replace
    <3>2. files'[target[p]].val = base[p] \cup own[p]
      BY <1>9 DEF Replace
    <3>3. faults = 0 => files[State].val = base[p] \cup own[p]
      BY <1>9, <2>3 DEF Replace
    <3>4. faults' = faults
      BY <1>9 DEF Replace
    <3>5. files'[target[p]].val = files'[State].val \/ faults # 0
      BY <3>1, <3>2, <3>3
    <3>6. \A q \in Proc : q # p => pc'[q] \notin {"snapshot", "open", "write", "sync", "replace", "prune", "saved"}
      BY <2>1
    <3>7. QED
      BY <2>3, <3>1, <3>4, <3>5, <3>6
  <2>4. QED
    BY <2>2, <2>3
<1>10. ASSUME NEW p \in Proc, BeginSnapshot(p) PROVE SnapshotInv'
  BY <1>10 DEF BeginSnapshot
<1>11. ASSUME NEW p \in Proc, Prune(p) PROVE SnapshotInv'
  <2>1. PICK gone \in SUBSET Expired :
          files' = [x \in Path |-> IF x \in gone THEN NoFile ELSE files[x]]
    BY <1>11 DEF Prune
  <2>2. ASSUME faults = 0 PROVE target[p] \notin Expired
    <3>1. target[p] # State /\ pc[p] = "prune"
      BY <1>11, <2>2 DEF Prune
    <3>2. {e \in Days : files[e].exists /\ e > target[p]} = {}
      BY <3>1 DEF ClockInv
    <3>3. Cardinality({e \in Days : files[e].exists /\ e > target[p]}) = 0
      BY <3>2, FS_EmptySet
    <3>4. QED
      BY <3>3, KeepAssumption DEF Expired
  <2>3. State \notin Expired
    BY DEF Expired
  <2>4. QED
    BY <1>11, <2>1, <2>2, <2>3 DEF Prune
<1>12. ASSUME NEW p \in Proc, SaveError(p) PROVE SnapshotInv'
  BY <1>12 DEF SaveError
<1>13. ASSUME NEW p \in Proc, Unlock(p) PROVE SnapshotInv'
  BY <1>13 DEF Unlock
<1>14. ASSUME NEW p \in Proc, Finish(p) PROVE SnapshotInv'
  BY <1>14 DEF Finish, Gone
<1>15. ASSUME NEW p \in Proc, Kill(p) PROVE SnapshotInv'
  BY <1>15 DEF Kill, Gone
<1>16. ASSUME NEW x \in Path, Flush(x) PROVE SnapshotInv'
  BY <1>16 DEF Flush
<1>17. CASE PowerLoss
  BY <1>17 DEF PowerLoss
<1>18. CASE Damage
  BY <1>18 DEF Damage
<1>19. CASE NextDay
  BY <1>19 DEF NextDay
<1>20. CASE UNCHANGED vars
  BY <1>20 DEF vars
<1>21. QED
  BY <1>1, <1>2, <1>3, <1>4, <1>5, <1>6, <1>7, <1>8, <1>9, <1>10, <1>11, <1>12,
     <1>13, <1>14, <1>15, <1>16, <1>17, <1>18, <1>19, <1>20
  DEF Next, Step, Save

-----------------------------------------------------------------------------
(* Theorems *)

(* The inductive invariant holds at the start ... *)
LEMMA InvInit == Init => IInvSnapshot
<1> SUFFICES ASSUME Init PROVE IInvSnapshot
  OBVIOUS
<1>1. PICK f \in {NoFile, Stored} : files = [x \in Path |-> IF x = State THEN f ELSE NoFile]
  BY DEF Init
<1>2. \A x \in Path : files[x] \in {NoFile, Stored} /\ (x # State => files[x] = NoFile)
  BY <1>1
<1>3. files = durable
  BY DEF Init
<1> QED
  BY <1>2, <1>3, BoundAssumption
     DEF Init, IInvSnapshot, IInv, LockInv, TmpInv, FilesInv, SoundFile, ClockInv, SnapshotInv,
         StaleOnlyByOverlap, HasDocument, NoFile, Stored, Saving, Path, Days, State

(* ... is kept by every step ... *)
LEMMA InvStep == TypeOK /\ IInvSnapshot /\ [Next]_vars => IInvSnapshot'
BY LockStep, TmpStep, FilesStep, OverlapStep, ClockStep, SnapshotStep DEF IInvSnapshot, IInv

(* ... and so holds always. *)
LEMMA Invariant == Spec => [](TypeOK /\ IInvSnapshot)
<1>1. Init => TypeOK /\ IInvSnapshot
  BY TypeInit, InvInit
<1>2. TypeOK /\ IInvSnapshot /\ [Next]_vars => (TypeOK /\ IInvSnapshot)'
  BY TypeStep, InvStep
<1>3. QED
  BY <1>1, <1>2, PTL DEF Spec

(* No two processes are inside save_state at once, and none reads the      *)
(* state file meanwhile, whatever is killed, fails or loses power.         *)
THEOREM ExclusionHolds == Spec => []Exclusion
<1>1. TypeOK /\ IInvSnapshot => Exclusion
  BY DEF IInvSnapshot, IInv, LockInv, Exclusion, Saving
<1>2. QED
  BY <1>1, Invariant, PTL

(* Unless the medium damages it, the state file and every snapshot are     *)
(* complete documents at every moment, and after a power loss.             *)
THEOREM NeverTornHolds == Spec => []NeverTorn
<1>1. TypeOK /\ IInvSnapshot => NeverTorn
  BY DEF IInvSnapshot, IInv, FilesInv, SoundFile, NeverTorn
<1>2. QED
  BY <1>1, Invariant, PTL

(* The snapshot save_state writes is the document it saved.                *)
THEOREM SnapshotMatches == Spec => []SnapshotMatchesState
<1>1. TypeOK /\ IInvSnapshot => SnapshotMatchesState
  BY DEF IInvSnapshot, SnapshotInv, SnapshotMatchesState
<1>2. QED
  BY <1>1, Invariant, PTL

(* A process in the middle of its run lacks only what overlapping runs     *)
(* saved since it loaded.                                                  *)
THEOREM LossOnlyByOverlap == Spec => []StaleOnlyByOverlap
<1>1. TypeOK /\ IInvSnapshot => StaleOnlyByOverlap
  BY DEF IInvSnapshot, IInv
<1>2. QED
  BY <1>1, Invariant, PTL

(* The start of the file is the start of the register ... *)
LEMMA RegisterInit == Init => Register!Init
<1> SUFFICES ASSUME Init PROVE Register!Init
  OBVIOUS
<1>1. PICK f \in {NoFile, Stored} : files = [x \in Path |-> IF x = State THEN f ELSE NoFile]
  BY DEF Init
<1>2. files[State].val = {} /\ durable[State].val = {}
  BY <1>1 DEF Init, NoFile, Stored, Path
<1> QED
  BY <1>2 DEF Init, Register!Init

(* ... and each of its steps is a step of the register or a stutter.       *)
LEMMA RegisterStep ==
  TypeOK /\ IInvSnapshot /\ [Next]_vars => [Register!Next]_Register!vars
<1> SUFFICES ASSUME TypeOK, IInvSnapshot, [Next]_vars
             PROVE  [Register!Next]_Register!vars
  OBVIOUS
<1> USE DEF TypeOK, Goto, disk, memory, world, history, Path, State, Register!vars
<1>1. ASSUME NEW p \in Proc, \/ Start(p) \/ LockShared(p) \/ Work(p) \/ LockExclusive(p)
                             \/ OpenTmp(p) \/ WriteTmp(p) \/ SyncTmp(p) \/ BeginSnapshot(p)
                             \/ SaveError(p) \/ Unlock(p)
      PROVE  UNCHANGED Register!vars
  BY <1>1 DEF Start, LockShared, Work, LockExclusive, OpenTmp, WriteTmp, SyncTmp,
              BeginSnapshot, SaveError, Unlock
<1>2. ASSUME NEW p \in Proc, Read(p) PROVE Register!Load(p)
  BY <1>2 DEF Read, Register!Load, IInvSnapshot, IInv, FilesInv, SoundFile
<1>3. ASSUME NEW p \in Proc, Replace(p)
      PROVE  Register!Store(p) \/ UNCHANGED Register!vars
  <2>1. CASE target[p] = State
    BY <1>3, <2>1 DEF Replace, Register!Store, IInvSnapshot, IInv, TmpInv, File
  <2>2. CASE target[p] # State
    BY <1>3, <2>2 DEF Replace
  <2>3. QED
    BY <2>1, <2>2
<1>4. ASSUME NEW p \in Proc, Prune(p) PROVE UNCHANGED Register!vars
  <2>1. State \notin Expired
    BY DEF Expired, Days
  <2>2. QED
    BY <1>4, <2>1 DEF Prune
<1>5. ASSUME NEW p \in Proc, Finish(p) \/ Kill(p) PROVE Register!Forget(p)
  BY <1>5 DEF Finish, Kill, Gone, Register!Forget
<1>6. ASSUME NEW x \in Path, Flush(x)
      PROVE  Register!Flush \/ UNCHANGED Register!vars
  BY <1>6 DEF Flush, Register!Flush
<1>7. CASE PowerLoss
  <2>1. files'[State] = durable[State] /\ durable'[State] = durable[State]
    BY <1>7 DEF PowerLoss, IInvSnapshot, IInv, FilesInv, SoundFile
  <2>2. Register!Outage
    BY <1>7, <2>1 DEF PowerLoss, Register!Outage
  <2>3. QED
    BY <2>2 DEF Register!Next
<1>8. CASE Damage
  BY <1>8 DEF Damage, Torn, Register!Damage, Register!Next
<1>9. CASE NextDay
  BY <1>9 DEF NextDay
<1>10. CASE UNCHANGED vars
  BY <1>10 DEF vars
<1>11. QED
  BY <1>1, <1>2, <1>3, <1>4, <1>5, <1>6, <1>7, <1>8, <1>9, <1>10
  DEF Next, Step, Save, Register!Next

(* The lock, the tmp files and the renames implement an atomic register    *)
(* of whole documents, without an atomic read-modify-write.                *)
THEOREM FileRefinesRegister == Spec => RefinesRegister
<1>1. TypeOK /\ IInvSnapshot /\ [Next]_vars => [Register!Next]_Register!vars
  BY RegisterStep
<1>2. QED
  BY RegisterInit, <1>1, Invariant, PTL DEF Spec, RefinesRegister, Register!Spec

-----------------------------------------------------------------------------
(* Pruning *)

(* The order of the natural numbers is well founded, as a set of pairs. *)
LEMMA Descending == IsWellFoundedOn({ss \in Nat \X Nat : ss[1] < ss[2]}, Nat)
BY ONLY NatLessThanWellFounded DEF OpToRel

(* There is a last one of some days. *)
LEMMA Latest ==
  ASSUME NEW T \in SUBSET Days, T # {}
  PROVE  \E m \in T : \A d \in T : d <= m
<1> DEFINE R == {MaxDay - d : d \in T}
           L == {ss \in Nat \X Nat : ss[1] < ss[2]}
<1>1. \A d \in T : d \in Nat /\ MaxDay - d \in Nat /\ MaxDay - d \in R
  BY BoundAssumption DEF Days
<1>2. R \subseteq Nat /\ R # {}
  <2>1. \A x \in R : \E d \in T : x = MaxDay - d
    OBVIOUS
  <2> QED
    BY <1>1, <2>1
<1>3. PICK x \in R : \A y \in R : ~ (<<y, x>> \in L)
  <2> HIDE DEF L, R
  <2>1. IsWellFoundedOn(L, Nat)
    BY Descending DEF L
  <2> QED
    BY <1>2, <2>1, WFMin
<1>4. PICK m \in T : x = MaxDay - m
  OBVIOUS
<1>5. ASSUME NEW d \in T PROVE d <= m
  <2>1. MaxDay - d \in Nat /\ x \in Nat /\ ~ (<<MaxDay - d, x>> \in L)
    BY <1>1, <1>2, <1>3
  <2>2. ~ (MaxDay - d < x)
    BY <2>1
  <2> QED
    BY <1>1, <1>4, <2>2, BoundAssumption
<1> QED
  BY <1>5

(* The days after d that have a snapshot. *)
After(d) == {e \in Days : files[e].exists /\ e > d}

(* They are finite in number.                                              *)
LEMMA AfterFinite ==
  ASSUME NEW d
  PROVE  IsFiniteSet(After(d)) /\ Cardinality(After(d)) \in Nat
<1>1. IsFiniteSet(Days)
  BY FS_Interval, BoundAssumption DEF Days
<1>2. After(d) \in SUBSET Days
  BY DEF After
<1> QED
  BY <1>1, <1>2, FS_Subset, FS_CardinalityType

(* Whichever of the expired snapshots are removed, Keep newer ones stay:   *)
(* those that are newer than the newest of the expired.                    *)
LEMMA PruneKeeps ==
  ASSUME TypeOK, NEW p \in Proc, Prune(p), NEW d \in Days, files[d].exists, ~files'[d].exists
  PROVE  Cardinality({e \in Days : files'[e].exists /\ e > d}) >= Keep
<1>1. PICK gone \in SUBSET Expired : files' = [x \in Path |-> IF x \in gone THEN NoFile ELSE files[x]]
  BY DEF Prune
<1>2. \A e \in Days : files'[e] = IF e \in gone THEN NoFile ELSE files[e]
  BY <1>1 DEF Path
<1>3. d \in Expired
  BY <1>2
<1>4. PICK m \in Expired : \A e \in Expired : e <= m
  BY <1>3, Latest DEF Expired
<1>5. m \in Days /\ Cardinality(After(m)) >= Keep
  BY DEF Expired, After
<1> DEFINE newer == {e \in Days : files'[e].exists /\ e > d}
<1>6. After(m) \subseteq newer
  <2> SUFFICES ASSUME NEW e \in After(m) PROVE e \in newer
    OBVIOUS
  <2>1. e \in Days /\ files[e].exists /\ e > m /\ d <= m
    BY <1>3, <1>4 DEF After
  <2>2. e \notin Expired
    BY <1>4, <1>5, <2>1 DEF Days
  <2>3. e > d
    BY <1>5, <2>1 DEF Days
  <2> QED
    BY <1>2, <2>1, <2>2, <2>3
<1>7. IsFiniteSet(newer) /\ Cardinality(newer) \in Nat
  <2>1. IsFiniteSet(Days)
    BY FS_Interval, BoundAssumption DEF Days
  <2>2. newer \in SUBSET Days
    OBVIOUS
  <2> QED
    BY <2>1, <2>2, FS_Subset, FS_CardinalityType
<1>8. Cardinality(After(m)) <= Cardinality(newer) /\ Cardinality(After(m)) \in Nat
  BY <1>6, <1>7, FS_Subset, AfterFinite
<1> QED
  BY <1>5, <1>7, <1>8, KeepAssumption

(* Nothing but pruning and a power loss takes a snapshot away.             *)
LEMMA OthersKeep ==
  ASSUME TypeOK, IInvSnapshot, [Next]_vars, \A p \in Proc : ~Prune(p), outages' = outages,
         NEW d \in Days, files[d].exists
  PROVE  files'[d].exists
<1> USE DEF TypeOK, Goto, disk, memory, world, history, Path, State, Days
<1>1. ASSUME NEW p \in Proc, \/ Start(p) \/ LockShared(p) \/ Read(p) \/ Work(p)
                             \/ LockExclusive(p) \/ OpenTmp(p) \/ WriteTmp(p) \/ SyncTmp(p)
                             \/ BeginSnapshot(p) \/ SaveError(p) \/ Unlock(p)
                             \/ Finish(p) \/ Kill(p)
      PROVE  files' = files
  BY <1>1 DEF Start, LockShared, Read, Work, LockExclusive, OpenTmp, WriteTmp, SyncTmp,
              BeginSnapshot, SaveError, Unlock, Finish, Kill, Gone
<1>2. ASSUME NEW p \in Proc, Replace(p) PROVE files'[d].exists
  BY <1>2 DEF Replace, IInvSnapshot, IInv, TmpInv
<1>3. ASSUME NEW x \in Path, Flush(x) PROVE files' = files
  BY <1>3 DEF Flush
<1>4. ~PowerLoss
  BY DEF PowerLoss
<1>5. CASE Damage
  BY <1>5 DEF Damage
<1>6. CASE NextDay \/ UNCHANGED vars
  BY <1>6 DEF NextDay, vars
<1> QED
  BY <1>1, <1>2, <1>3, <1>4, <1>5, <1>6 DEF Next, Step, Save

(* _prune_snapshots (state.py:171-182): a snapshot disappears only by a    *)
(* power loss or when Keep newer ones stay, also if some removals fail.    *)
THEOREM NewestSpared == Spec => PruneSparesNewest
<1>1. ASSUME TypeOK, IInvSnapshot, [Next]_vars, NEW d \in Days,
             files[d].exists, ~files'[d].exists
      PROVE  \/ outages' # outages
             \/ Cardinality({e \in Days : files'[e].exists /\ e > d}) >= Keep
  BY <1>1, OthersKeep, PruneKeeps
<1>2. TypeOK /\ IInvSnapshot /\ [Next]_vars =>
        [\A d \in Days :
           files[d].exists /\ ~files'[d].exists =>
             \/ outages' # outages
             \/ Cardinality({e \in Days : files'[e].exists /\ e > d}) >= Keep]_vars
  BY <1>1
<1> QED
  BY <1>2, Invariant, PTL DEF Spec, PruneSparesNewest
==============================================================================
