-------------------------- MODULE LedgerEpochsProofs --------------------------
(***************************************************************************)
(* Proofs about the ledger's store and its directories together: once the  *)
(* store remembers an epoch's snapshot its directory holds the ledger at   *)
(* the end of the epoch, and the two implement the abstract ledger.        *)
(***************************************************************************)
EXTENDS LedgerEpochs, LedgerStoreProofs

LEMMA SnapshotStepIs ==
    ASSUME SnapshotStep
    PROVE  \E isDormant \in BOOLEAN : EpochStep(3, isDormant)
<1>1. EpochStep(3, FALSE)
  BY Zenon DEF SnapshotStep
<1>. QED  BY <1>1, Zenon

\* The directories are only changed in next_snapshot, whose steps the store's
\* transaction waits for, so what is proved of the store alone still holds.
LEMMA EpochsImplementsStore == EpochsSpec => Spec
<1>1. EpochsInit => Init
  BY DEF EpochsInit
<1>2. ASSUME [EpochsNext]_allVars PROVE [Next]_vars
  <2>1. CASE StoreStep
    <3>1. CASE \E to \in {2, 4}, isDormant \in BOOLEAN : EpochStep(to, isDormant)
      BY <3>1 DEF Next
    <3>. QED  BY <2>1, <3>1 DEF StoreStep, Next
  <2>2. CASE SnapshotStep
    <3>1. 3 \in 2..4
      OBVIOUS
    <3>. QED  BY <2>2, <3>1, SnapshotStepIs DEF Next
  <2>3. CASE DirectoryStep \/ UNCHANGED allVars
    BY <2>3 DEF DirectoryStep, allVars
  <2>4. CASE SnapshotFails \/ CrashBoth \/ RestartBoth
    BY <2>4 DEF SnapshotFails, CrashBoth, RestartBoth, Next
  <2>. QED  BY <1>2, <2>1, <2>2, <2>3, <2>4 DEF EpochsNext
<1>. QED  BY <1>1, <1>2, PTL DEF EpochsSpec, Spec

\* What LedgerStoreProofs establishes, and all that is used of it here.
StoreInv == IInv /\ TransitionsInv

LEMMA StoreIsKept == EpochsSpec => []StoreInv
BY EpochsImplementsStore, Invariance, TransitionsAreKept, PTL DEF StoreInv

-----------------------------------------------------------------------------
(* Epochs and their last slots.                                            *)

LEMMA QuotientsGrow ==
    ASSUME NEW n \in Nat \ {0}, NEW q \in Nat, NEW r \in 0..(n - 1),
           NEW p \in Nat, NEW t \in 0..(n - 1), q * n + r <= p * n + t
    PROVE  q <= p
<1>. SUFFICES ASSUME q - p >= 1 PROVE FALSE
  OBVIOUS
<1>1. (q - p) * n >= 1 * n
  OBVIOUS
<1>2. (q - p) * n <= t - r
  OBVIOUS
<1>. QED  BY <1>1, <1>2

LEMMA EpochsGrow ==
    ASSUME NEW s \in Nat, NEW u \in Nat, s <= u
    PROVE  EpochOf(s) <= EpochOf(u)
<1>. DEFINE q == EpochOf(s)  r == s % EpochLength
            p == EpochOf(u)  t == u % EpochLength
<1>1. /\ q \in Nat /\ r \in 0..(EpochLength - 1) /\ s = q * EpochLength + r
      /\ p \in Nat /\ t \in 0..(EpochLength - 1) /\ u = p * EpochLength + t
  BY EpochAndSlot
<1>2. EpochLength \in Nat \ {0}
  BY StoreAssumption
<1>3. q <= p
  <2>. HIDE DEF q, r, p, t
  <2>. QED  BY <1>1, <1>2, QuotientsGrow
<1>. QED  BY <1>3

LEMMA LastOfEpoch ==
    ASSUME NEW s \in Nat, Starts(s + 1)
    PROVE  LastSlot(EpochOf(s)) = s
<1>. DEFINE q == EpochOf(s)  p == EpochOf(s + 1)
<1>1. /\ q \in Nat /\ p \in Nat /\ (s + 1) % EpochLength = 0
      /\ s + 1 = p * EpochLength + ((s + 1) % EpochLength)
  BY EpochAndSlot DEF Starts
<1>2. p = q + 1
  BY <1>1, EpochOfNext
<1>3. EpochLength \in Nat
  BY StoreAssumption
<1>4. q * EpochLength + EpochLength - 1 = s
  <2>. HIDE DEF q, p
  <2>1. s + 1 = (q + 1) * EpochLength
    BY <1>1, <1>2, <1>3
  <2>. QED  BY <1>1, <1>3, <2>1
<1>. QED  BY <1>4 DEF LastSlot

-----------------------------------------------------------------------------
\* The directory next_snapshot works on.
Here == FirstEpoch + EpochOf(disk.tip)

DirsType ==
    /\ listed \subseteq Dirs!Epochs
    /\ files \in [Dirs!Epochs -> [Files -> Nat]]
    /\ doing \in {"down", "idle", "remove", "checkpoint", "copy"}

\* next_snapshot runs in a transaction that has only gone on to SnapshotTaken,
\* before anything of it is committed.
TakingInv ==
    doing \in {"remove", "checkpoint", "copy"} =>
        /\ HasTx /\ tx.tip = disk.tip /\ tx.progress = 3
        /\ disk.progress = 2 /\ disk.tip < MaxSlot
        /\ target = Here

\* What a directory being written holds, and one that is not there.
FilesInv ==
    /\ doing = "copy" =>
          /\ target \in listed
          /\ \A f \in Files : files[target][f] \in {0, Version(disk.tip, 2)}
    /\ doing = "checkpoint" => target \notin listed
    /\ \A e \in Dirs!Epochs : e \notin listed => files[e] = Dirs!Missing

\* The transaction is ahead of what is committed.
AheadInv ==
    HasTx =>
        /\ tx.tip = disk.tip => tx.progress >= disk.progress
        /\ tx.tip # disk.tip => tx.progress = 1 \/ Uncleared

\* Every snapshot that has been counted is there.
Recorded(contents) == \A e \in Nat : e < contents.done[3] => e \in AtItsEnd

RecordedInv ==
    /\ Recorded(disk)
    /\ HasTx /\ doing = "idle" => Recorded(tx)

EpochsInv == DirsType /\ TakingInv /\ FilesInv /\ AheadInv /\ RecordedInv

LEMMA AtItsEndIs ==
    ASSUME NEW e
    PROVE  e \in AtItsEnd <=>
              /\ e \in 0..EpochOf(MaxSlot)
              /\ FirstEpoch + e \in listed
              /\ files[FirstEpoch + e] = Dirs!AllOf(Version(LastSlot(e), 2))
BY DEF AtItsEnd

LEMMA Numbers ==
    /\ FirstEpoch \in Nat \ {0} /\ EpochOf(MaxSlot) \in Nat
    /\ \A e \in 0..EpochOf(MaxSlot) : FirstEpoch + e \in Dirs!Epochs
<1>1. FirstEpoch \in Nat \ {0} /\ EpochOf(MaxSlot) \in Nat
  BY EpochsAssumption, StoreAssumption, EpochAndSlot
<1>. QED  BY <1>1 DEF Dirs!Epochs

\* Where next_snapshot works, and what it is to write there.
LEMMA HereIs ==
    ASSUME StoreInv, TakingInv, doing \in {"remove", "checkpoint", "copy"}
    PROVE  /\ target = Here /\ Here \in Dirs!Epochs
           /\ EpochOf(disk.tip) \in 0..EpochOf(MaxSlot)
           /\ LastSlot(EpochOf(disk.tip)) = disk.tip
           /\ Starts(disk.tip + 1)
           /\ disk.done[3] = EpochOf(disk.tip)
           /\ tx.done[3] = EpochOf(disk.tip) + 1
           /\ Version(disk.tip, disk.progress) = Version(disk.tip, 2)
           /\ disk.tip \in Nat
<1>1. disk \in Shape /\ DoneUpTo(disk) /\ DoneUpTo(tx)
  BY DEF StoreInv, IInv, ShapeOK, TransitionsInv, TakingInv, Uncleared
<1>2. disk.tip \in Nat /\ EpochOf(disk.tip) \in Nat
  BY <1>1, ContentsTypes
<1>3. EpochOf(disk.tip) <= EpochOf(MaxSlot)
  BY <1>2, EpochsGrow, StoreAssumption DEF TakingInv
<1>4. EpochOf(disk.tip) \in 0..EpochOf(MaxSlot)
  BY <1>2, <1>3, Numbers
<1>5. Starts(disk.tip + 1)
  BY <1>1 DEF TakingInv, DoneUpTo
<1>6. disk.done[3] = EpochOf(disk.tip) /\ tx.done[3] = EpochOf(disk.tip) + 1
  BY <1>1, <1>2 DEF TakingInv, DoneUpTo
<1>7. Here \in Dirs!Epochs
  BY <1>4, Numbers DEF Here
<1>. QED  BY <1>2, <1>4, <1>5, <1>6, <1>7, LastOfEpoch DEF TakingInv

\* A step of next_snapshot changes no other directory.
LEMMA OtherDirectories ==
    ASSUME DirsType, disk \in Shape, NEW x \in Dirs!Epochs, target = x, DirectoryStep
    PROVE  /\ DirsType'
           /\ \A e \in Dirs!Epochs :
                 e # x => (e \in listed' <=> e \in listed) /\ files'[e] = files[e]
           /\ UNCHANGED <<disk, tx>>
<1>. USE DEF DirsType, Dirs!NoVersion, Dirs!NoEpoch, Dirs!disk
<1>1. UNCHANGED <<disk, tx>> /\ Version(disk.tip, disk.progress) \in Nat
  <2>1. disk.tip \in Nat /\ disk.progress \in Nat
    BY DEF Shape, Progress
  <2>. QED  BY <2>1 DEF DirectoryStep, vars, Version
<1>. DEFINE live == Version(disk.tip, disk.progress)
<1>2. ASSUME NEW f \in Files, NEW v \in Nat, files' = [files EXCEPT ![target][f] = v]
      PROVE  /\ files' \in [Dirs!Epochs -> [Files -> Nat]]
             /\ \A e \in Dirs!Epochs : e # x => files'[e] = files[e]
  BY <1>2
<1>3. CASE Dirs!RemoveFile
  BY <1>1, <1>2, <1>3 DEF Dirs!RemoveFile
<1>4. CASE Dirs!RemoveDir
  BY <1>1, <1>4 DEF Dirs!RemoveDir
<1>5. CASE Dirs!Checkpoint
  <2>1. Dirs!AllOf(live) \in [Files -> Nat]
    BY <1>1 DEF Dirs!AllOf
  <2>2. /\ files' = [files EXCEPT ![target] = Dirs!AllOf(live)]
        /\ listed' = listed \cup {target} /\ doing' = "idle"
    BY <1>5 DEF Dirs!Checkpoint
  <2>. QED  BY <1>1, <2>1, <2>2
<1>6. CASE Dirs!CheckpointRefused
  BY <1>1, <1>6 DEF Dirs!CheckpointRefused
<1>7. CASE Dirs!CopyFile
  BY <1>1, <1>2, <1>7 DEF Dirs!CopyFile
<1>8. CASE Dirs!CopyDone
  BY <1>1, <1>8 DEF Dirs!CopyDone
<1>. QED  BY <1>3, <1>4, <1>5, <1>6, <1>7, <1>8 DEF DirectoryStep

\* next_snapshot only takes steps while it runs.
LEMMA DirectoryGuard ==
    ASSUME DirsType, DirectoryStep
    PROVE  doing \in {"remove", "checkpoint", "copy"}
BY DEF DirsType, DirectoryStep, Dirs!RemoveFile, Dirs!RemoveDir, Dirs!Checkpoint,
       Dirs!CheckpointRefused, Dirs!CopyFile, Dirs!CopyDone

\* So it changes the snapshot of no epoch but the tip's.
LEMMA OtherSnapshots ==
    ASSUME StoreInv, DirsType, TakingInv, DirectoryStep
    PROVE  \A e : e # EpochOf(disk.tip) => (e \in AtItsEnd' <=> e \in AtItsEnd)
<1>1. /\ target = Here /\ Here \in Dirs!Epochs
      /\ EpochOf(disk.tip) \in 0..EpochOf(MaxSlot)
  BY HereIs, DirectoryGuard
<1>2. \A e \in Dirs!Epochs :
         e # Here => (e \in listed' <=> e \in listed) /\ files'[e] = files[e]
  BY <1>1, OtherDirectories DEF StoreInv, IInv, ShapeOK
<1>. TAKE e
<1>. SUFFICES ASSUME e # EpochOf(disk.tip), e \in 0..EpochOf(MaxSlot)
              PROVE  e \in AtItsEnd' <=> e \in AtItsEnd
  BY DEF AtItsEnd
<1>3. FirstEpoch + e \in Dirs!Epochs /\ FirstEpoch + e # Here
  BY <1>1, Numbers DEF Here
<1>. QED  BY <1>2, <1>3 DEF AtItsEnd

LEMMA SameSnapshots ==
    ASSUME UNCHANGED <<listed, files>>
    PROVE  AtItsEnd' = AtItsEnd
BY DEF AtItsEnd

-----------------------------------------------------------------------------
\* What the store's steps do to what is ahead.
LEMMA AheadInvariant ==
    ASSUME StoreInv, AheadInv, [Next]_vars
    PROVE  AheadInv'
<1>. USE DEF StoreInv
<1>1. disk \in Shape /\ disk.progress \in Nat
  BY DEF IInv, ShapeOK, Shape, Progress
<1>2. CASE CreateTransaction
  <2>1. disk' = disk /\ (HasTx' => tx' = disk)
    BY <1>2 DEF CreateTransaction, Ready, HasTx
  <2>. QED  BY <1>1, <2>1 DEF AheadInv
<1>3. CASE Commit \/ Rollback \/ Drop \/ Crash
  BY <1>3 DEF Commit, Rollback, Drop, Crash, HasTx, AheadInv
<1>4. ASSUME NEW to \in 2..4, NEW isDormant \in BOOLEAN, EpochStep(to, isDormant)
      PROVE  AheadInv'
  <2>1. HasTx /\ disk' = disk
    BY <1>4 DEF EpochStep
  <2>2. CASE tx' = tx
    BY <2>1, <2>2 DEF AheadInv, Uncleared, HasTx
  <2>3. CASE tx.tip = disk.tip /\ tx.progress = to - 1 /\ tx'.tip = tx.tip /\ tx'.progress = to
    BY <1>1, <2>1, <2>3 DEF AheadInv
  <2>. QED  BY <1>4, <2>2, <2>3, EpochStepEffect
<1>5. CASE ClearProgress
  <2>1. disk' = disk /\ tx'.tip = tx.tip /\ tx.tip # disk.tip /\ tx'.progress = 1
    BY <1>5, ClearProgressEffect DEF Shape
  <2>. QED  BY <2>1 DEF AheadInv
<1>6. ASSUME NEW slot \in Slots, NEW renewed \in SUBSET Dreps, NEW proposes \in BOOLEAN,
             Save(slot, renewed, proposes)
      PROVE  AheadInv'
  <2>1. HasTx /\ disk' = disk
    BY <1>6 DEF Save
  <2>2. CASE tx' = tx
    BY <2>1, <2>2 DEF AheadInv, Uncleared, HasTx
  <2>3. CASE /\ tx \in Shape /\ tx.tip = disk.tip /\ slot = tx.tip + 1
             /\ Starts(slot) => tx.progress = 4
             /\ SaveNew(slot, renewed, proposes)
    <3>1. tx'.tip = slot /\ tx'.progress = tx.progress /\ slot # disk.tip
      BY <1>1, <2>3 DEF SaveNew, Shape
    <3>2. DoneUpTo(tx)
      BY <2>1, <2>3 DEF TransitionsInv, Uncleared
    <3>3. tx.progress = 4 \/ tx.progress = 1
      BY <2>3, <3>2, DoneAtSave
    <3>4. tx.progress = 4 => Starts(slot)
      BY <2>3, <3>2 DEF DoneUpTo
    <3>. QED  BY <2>1, <3>1, <3>3, <3>4 DEF AheadInv, Uncleared
  <2>. QED  BY <1>6, <2>2, <2>3, SaveEffect
<1>7. CASE Restart \/ UNCHANGED vars
  BY <1>7 DEF Restart, vars, AheadInv, Uncleared, HasTx
<1>. QED  BY <1>2, <1>3, <1>4, <1>5, <1>6, <1>7 DEF Next

\* Outside the second step, no transaction counts another snapshot.
LEMMA CountIsKept ==
    ASSUME StoreInv, StoreStep
    PROVE  /\ HasTx' => IF HasTx THEN tx'.done[3] = tx.done[3] ELSE tx'.done[3] = disk.done[3]
           /\ disk' = disk \/ (HasTx /\ disk' = tx)
<1>. USE DEF StoreInv
<1>1. CASE CreateTransaction
  BY <1>1 DEF CreateTransaction, Ready, HasTx
<1>2. CASE Commit
  BY <1>2 DEF Commit, CommitWorks, CommitFails, HasTx
<1>3. CASE Rollback \/ Drop
  BY <1>3 DEF Rollback, Drop, HasTx
<1>4. ASSUME NEW to \in {2, 4}, NEW isDormant \in BOOLEAN, EpochStep(to, isDormant)
      PROVE  HasTx /\ tx'.done[3] = tx.done[3] /\ disk' = disk
  <2>1. HasTx /\ tx \in Shape /\ to \in 2..4
    BY <1>4, ShapeOfTx DEF EpochStep, IInv
  <2>2. tx'.done = tx.done \/ tx'.done = [tx.done EXCEPT ![to] = @ + 1]
    BY <1>4, <2>1, EpochStepEffect
  <2>. QED  BY <1>4, <2>1, <2>2 DEF EpochStep, Shape
<1>5. CASE ClearProgress
  <2>1. tx'.done = tx.done /\ disk' = disk
    BY <1>5, ClearProgressEffect DEF Shape
  <2>. QED  BY <1>5, <2>1 DEF ClearProgress
<1>6. ASSUME NEW slot \in Slots, NEW renewed \in SUBSET Dreps, NEW proposes \in BOOLEAN,
             Save(slot, renewed, proposes)
      PROVE  HasTx /\ tx'.done[3] = tx.done[3] /\ disk' = disk
  BY <1>6 DEF Save, SaveNew
<1>. QED  BY <1>1, <1>2, <1>3, <1>4, <1>5, <1>6 DEF StoreStep

\* The store's own steps wait for next_snapshot and leave the directories alone.
LEMMA StoreStepKeeps ==
    ASSUME StoreInv, EpochsInv, StoreStep
    PROVE  DirsType' /\ TakingInv' /\ FilesInv' /\ RecordedInv'
<1>1. doing = "idle" /\ UNCHANGED <<listed, files, doing, target>>
  BY DEF StoreStep, dirs
<1>2. AtItsEnd' = AtItsEnd
  BY <1>1, SameSnapshots
<1>3. DirsType' /\ TakingInv' /\ FilesInv'
  BY <1>1 DEF EpochsInv, DirsType, TakingInv, FilesInv
<1>4. RecordedInv'
  BY <1>1, <1>2, CountIsKept DEF EpochsInv, RecordedInv, Recorded
<1>. QED  BY <1>3, <1>4

LEMMA SnapshotStepKeeps ==
    ASSUME StoreInv, EpochsInv, SnapshotStep, HasTx'
    PROVE  DirsType' /\ TakingInv' /\ FilesInv' /\ RecordedInv'
<1>1. CASE tx' = tx
  <2>1. UNCHANGED <<disk, tx, listed, files, doing, target>>
    BY <1>1 DEF SnapshotStep, EpochStep, dirs
  <2>. QED  BY <2>1 DEF EpochsInv, DirsType, TakingInv, FilesInv, RecordedInv, Recorded,
                        AtItsEnd, HasTx, Here
<1>2. CASE tx' # tx
  <2>0. PICK isDormant \in BOOLEAN : EpochStep(3, isDormant)
    BY SnapshotStepIs
  <2>1. tx = disk /\ disk.tip < MaxSlot
    BY <2>0 DEF SnapshotStep, EpochStep
  <2>2. /\ disk' = disk /\ tx'.tip = tx.tip /\ tx'.progress = 3 /\ tx.progress = 2
    <3>1. IInv /\ disk' = disk /\ 3 \in 2..4
      BY <2>0 DEF StoreInv, EpochStep
    <3>2. tx'.tip = tx.tip /\ tx'.progress = 3 /\ tx.progress = 3 - 1
      BY <1>2, <2>0, <3>1, EpochStepEffect
    <3>. QED  BY <3>1, <3>2
  <2>3. NextEpoch = Here
    <3>1. EpochOf(disk.tip) \in Nat
      BY ContentsTypes DEF StoreInv, IInv, ShapeOK
    <3>. QED  BY <2>1, <2>2, <3>1, Numbers DEF NextEpoch, Here
  <2>4. /\ target' = Here /\ doing' = IF Here \in listed THEN "remove" ELSE "checkpoint"
        /\ UNCHANGED <<listed, files>>
    BY <1>2, <2>3 DEF SnapshotStep, Dirs!NextSnapshot, Dirs!disk
  <2>5. AtItsEnd' = AtItsEnd
    BY <2>4, SameSnapshots
  <2>6. DirsType' /\ FilesInv'
    BY <2>4 DEF EpochsInv, DirsType, FilesInv
  <2>7. TakingInv'
    BY <2>1, <2>2, <2>4 DEF TakingInv, Here
  <2>8. RecordedInv'
    BY <2>2, <2>4, <2>5 DEF EpochsInv, RecordedInv, Recorded
  <2>. QED  BY <2>6, <2>7, <2>8
<1>. QED  BY <1>1, <1>2

\* The files next_snapshot leaves while it runs.
LEMMA DirectoryStepFiles ==
    ASSUME StoreInv, EpochsInv, DirectoryStep
    PROVE  FilesInv'
<1>. DEFINE live == Version(disk.tip, 2)
<1>1. /\ target = Here /\ target \in Dirs!Epochs /\ doing \in {"remove", "checkpoint", "copy"}
      /\ Version(disk.tip, disk.progress) = live
  BY DirectoryGuard, HereIs DEF EpochsInv
<1>2. /\ files \in [Dirs!Epochs -> [Files -> Nat]] /\ listed \subseteq Dirs!Epochs
      /\ \A e \in Dirs!Epochs : e # target =>
            (e \in listed' <=> e \in listed) /\ files'[e] = files[e]
      /\ UNCHANGED <<disk, tx>>
  BY <1>1, OtherDirectories DEF EpochsInv, DirsType, StoreInv, IInv, ShapeOK
<1>3. \A e \in Dirs!Epochs : e # target => (e \notin listed' => files'[e] = Dirs!Missing)
  BY <1>2 DEF EpochsInv, FilesInv
<1>. SUFFICES /\ doing' = "copy" =>
                    /\ target' = target /\ target \in listed'
                    /\ \A f \in Files : files'[target][f] \in {0, live}
              /\ doing' = "checkpoint" => target' \notin listed'
              /\ target \notin listed' => files'[target] = Dirs!Missing
  <2>1. live' = live
    BY <1>2
  <2>2. \A e \in Dirs!Epochs : e \notin listed' => files'[e] = Dirs!Missing
    BY <1>3
  <2>3. doing' = "copy" => \A f \in Files : files'[target'][f] \in {0, live'}
    BY <2>1
  <2>. QED  BY <2>2, <2>3 DEF FilesInv, Dirs!Missing, Dirs!Epochs
<1>. HIDE DEF live
<1>. USE DEF Dirs!NoVersion, Dirs!NoEpoch, Dirs!disk
<1>4. CASE Dirs!RemoveFile
  <2>1. /\ UNCHANGED <<listed, doing, target>> /\ doing = "remove"
        /\ \E f \in Files : files[target][f] # 0
    BY <1>1, <1>4 DEF Dirs!RemoveFile
  <2>2. target \in listed
    BY <1>1, <2>1 DEF EpochsInv, FilesInv, Dirs!Missing
  <2>. QED  BY <2>1, <2>2
<1>5. CASE Dirs!RemoveDir
  BY <1>1, <1>5 DEF Dirs!RemoveDir
<1>6. CASE Dirs!Checkpoint
  BY <1>1, <1>6 DEF Dirs!Checkpoint
<1>7. CASE Dirs!CheckpointRefused
  <2>1. files[target] = Dirs!Missing
    BY <1>1, <1>7 DEF EpochsInv, FilesInv, Dirs!CheckpointRefused
  <2>. QED  BY <1>1, <1>7, <2>1 DEF Dirs!CheckpointRefused, Dirs!Missing
<1>8. CASE Dirs!CopyFile
  <2>1. PICK f \in Files : files' = [files EXCEPT ![target][f] = live]
    BY <1>1, <1>8 DEF Dirs!CopyFile
  <2>2. /\ UNCHANGED <<listed, doing, target>> /\ doing = "copy" /\ target \in listed
        /\ \A g \in Files : files[target][g] \in {0, live}
    BY <1>8 DEF Dirs!CopyFile, EpochsInv, FilesInv, live
  <2>3. \A g \in Files : files'[target][g] \in {0, live}
    BY <1>1, <1>2, <2>1, <2>2
  <2>. QED  BY <2>2, <2>3
<1>9. CASE Dirs!CopyDone
  <2>1. /\ UNCHANGED <<listed, files>> /\ doing = "copy" /\ doing' = "idle" /\ target \in listed
    BY <1>9 DEF Dirs!CopyDone, EpochsInv, FilesInv
  <2>. QED  BY <2>1
<1>. QED  BY <1>4, <1>5, <1>6, <1>7, <1>8, <1>9 DEF DirectoryStep

\* When next_snapshot returns Ok, the snapshot of the tip's epoch is there.
LEMMA SnapshotIsThere ==
    ASSUME StoreInv, EpochsInv, DirectoryStep, doing' = "idle"
    PROVE  EpochOf(disk.tip) \in AtItsEnd'
<1>. DEFINE live == Version(disk.tip, 2)
<1>1. /\ target = Here /\ target \in Dirs!Epochs /\ doing \in {"remove", "checkpoint", "copy"}
      /\ Version(disk.tip, disk.progress) = live
      /\ EpochOf(disk.tip) \in 0..EpochOf(MaxSlot)
      /\ Version(LastSlot(EpochOf(disk.tip)), 2) = live
  BY DirectoryGuard, HereIs DEF EpochsInv
<1>2. files \in [Dirs!Epochs -> [Files -> Nat]]
  BY DEF EpochsInv, DirsType
<1>. SUFFICES target \in listed' /\ files'[target] = Dirs!AllOf(live)
  BY <1>1 DEF AtItsEnd, Here
<1>. HIDE DEF live
<1>. USE DEF Dirs!NoVersion, Dirs!NoEpoch, Dirs!disk
<1>3. CASE Dirs!Checkpoint
  BY <1>1, <1>2, <1>3 DEF Dirs!Checkpoint
<1>4. CASE Dirs!CopyDone
  <2>1. /\ UNCHANGED <<listed, files>> /\ target \in listed
        /\ \A f \in Files : files[target][f] = live
    BY <1>4 DEF Dirs!CopyDone, Dirs!CopyIsComplete, EpochsInv, FilesInv, live
  <2>2. files[target] \in [Files -> Nat]
    BY <1>1, <1>2
  <2>. QED  BY <2>1, <2>2 DEF Dirs!AllOf
<1>. QED
  BY <1>1, <1>3, <1>4 DEF DirectoryStep, Dirs!RemoveFile, Dirs!RemoveDir,
                          Dirs!CheckpointRefused, Dirs!CopyFile

LEMMA DirectoryStepKeeps ==
    ASSUME StoreInv, EpochsInv, DirectoryStep
    PROVE  DirsType' /\ TakingInv' /\ FilesInv' /\ RecordedInv'
<1>1. /\ target = Here /\ target \in Dirs!Epochs /\ doing \in {"remove", "checkpoint", "copy"}
      /\ disk.done[3] = EpochOf(disk.tip) /\ tx.done[3] = EpochOf(disk.tip) + 1
      /\ EpochOf(disk.tip) \in Nat
  <2>1. disk \in Shape
    BY DEF StoreInv, IInv, ShapeOK
  <2>. QED  BY <2>1, DirectoryGuard, HereIs, ContentsTypes DEF EpochsInv
<1>2. DirsType' /\ UNCHANGED <<disk, tx>>
  BY <1>1, OtherDirectories DEF EpochsInv, StoreInv, IInv, ShapeOK
<1>3. doing' \in {"remove", "checkpoint", "copy"} => target' = target
  BY DEF DirectoryStep, Dirs!RemoveFile, Dirs!RemoveDir, Dirs!Checkpoint,
         Dirs!CheckpointRefused, Dirs!CopyFile, Dirs!CopyDone
<1>4. TakingInv'
  BY <1>1, <1>2, <1>3 DEF EpochsInv, TakingInv, HasTx, Here
<1>5. \A e : e # EpochOf(disk.tip) => (e \in AtItsEnd' <=> e \in AtItsEnd)
  BY OtherSnapshots DEF EpochsInv
<1>6. Recorded(disk)'
  BY <1>1, <1>2, <1>5 DEF EpochsInv, RecordedInv, Recorded
<1>7. ASSUME doing' = "idle" PROVE Recorded(tx)'
  <2>1. EpochOf(disk.tip) \in AtItsEnd'
    BY <1>7, SnapshotIsThere
  <2>2. \A e \in Nat : e < EpochOf(disk.tip) + 1 => e \in AtItsEnd'
    BY <1>1, <1>5, <2>1 DEF EpochsInv, RecordedInv, Recorded
  <2>. QED  BY <1>1, <1>2, <2>2 DEF Recorded
<1>. QED  BY <1>2, <1>4, <1>6, <1>7, DirectoryStepFiles DEF RecordedInv

\* An error, a crash and a restart leave the directories as they are.
LEMMA InterruptionKeeps ==
    ASSUME StoreInv, EpochsInv, SnapshotFails \/ CrashBoth \/ RestartBoth
    PROVE  DirsType' /\ TakingInv' /\ FilesInv' /\ RecordedInv'
<1>1. /\ UNCHANGED <<disk, listed, files>> /\ doing' \in {"idle", "down"} /\ ~HasTx'
  <2>1. CASE SnapshotFails
    BY <2>1 DEF SnapshotFails, Drop, Dirs!CallFails, Dirs!disk, HasTx
  <2>2. CASE CrashBoth
    BY <2>2 DEF CrashBoth, Crash, Dirs!Crash, Dirs!disk, HasTx
  <2>3. CASE RestartBoth
    BY <2>3 DEF RestartBoth, Restart, Dirs!Open, Dirs!disk, HasTx, StoreInv, IInv, FlagInv
  <2>. QED  BY <2>1, <2>2, <2>3
<1>2. AtItsEnd' = AtItsEnd
  BY <1>1, SameSnapshots
<1>3. DirsType' /\ TakingInv' /\ FilesInv'
  BY <1>1 DEF EpochsInv, DirsType, TakingInv, FilesInv
<1>4. RecordedInv'
  BY <1>1, <1>2 DEF EpochsInv, RecordedInv, Recorded
<1>. QED  BY <1>3, <1>4

LEMMA EpochsStep ==
    ASSUME StoreInv, EpochsInv, [EpochsNext]_allVars, [Next]_vars
    PROVE  EpochsInv'
<1>1. AheadInv'
  BY AheadInvariant DEF EpochsInv
<1>2. CASE StoreStep
  BY <1>1, <1>2, StoreStepKeeps DEF EpochsInv
<1>3. CASE SnapshotStep
  <2>1. PICK isDormant \in BOOLEAN : EpochStep(3, isDormant)
    BY <1>3, SnapshotStepIs
  <2>2. InTx
    <3>1. 3 \in 2..4
      OBVIOUS
    <3>. QED  BY <2>1, <3>1 DEF InTx
  <2>3. HasTx'
    BY <2>2, InTxHasTx DEF StoreInv, IInv
  <2>. QED  BY <1>1, <1>3, <2>3, SnapshotStepKeeps DEF EpochsInv
<1>4. CASE DirectoryStep
  BY <1>1, <1>4, DirectoryStepKeeps DEF EpochsInv
<1>5. CASE SnapshotFails \/ CrashBoth \/ RestartBoth
  BY <1>1, <1>5, InterruptionKeeps DEF EpochsInv
<1>6. CASE UNCHANGED allVars
  BY <1>1, <1>6 DEF allVars, vars, dirs, EpochsInv, DirsType, TakingInv, FilesInv,
                    RecordedInv, Recorded, AtItsEnd, HasTx, Here
<1>. QED  BY <1>2, <1>3, <1>4, <1>5, <1>6 DEF EpochsNext

LEMMA EpochsStart == EpochsInit => EpochsInv
<1>. SUFFICES ASSUME EpochsInit PROVE EpochsInv
  OBVIOUS
<1>1. /\ disk.tip = 0 /\ disk.progress = 1 /\ disk.done[3] = 0 /\ ~HasTx
      /\ listed = 0..(FirstEpoch - 1) /\ doing = "idle"
      /\ files = [e \in Dirs!Epochs |-> IF e \in 0..(FirstEpoch - 1)
                                        THEN Dirs!AllOf(1) ELSE Dirs!Missing]
  BY DEF EpochsInit, Init, Dirs!Init, HasTx
<1>2. DirsType
  <2>1. listed \subseteq Dirs!Epochs
    BY <1>1, Numbers DEF Dirs!Epochs
  <2>2. files \in [Dirs!Epochs -> [Files -> Nat]]
    <3>1. Dirs!AllOf(1) \in [Files -> Nat] /\ Dirs!Missing \in [Files -> Nat]
      BY DEF Dirs!AllOf, Dirs!Missing, Dirs!NoVersion
    <3>. QED  BY <1>1, <3>1
  <2>. QED  BY <1>1, <2>1, <2>2 DEF DirsType
<1>3. FilesInv
  BY <1>1 DEF FilesInv
<1>. QED  BY <1>1, <1>2, <1>3 DEF EpochsInv, TakingInv, AheadInv, RecordedInv, Recorded

LEMMA EpochsAreKept == EpochsSpec => []EpochsInv
<1>1. EpochsSpec => [][Next]_vars
  BY EpochsImplementsStore, PTL DEF Spec
<1>. QED  BY <1>1, EpochsStart, EpochsStep, StoreIsKept, PTL DEF EpochsSpec

-----------------------------------------------------------------------------
\* Once the store remembers an epoch's snapshot as taken, its directory holds
\* the ledger as it was at the end of that epoch, for good.
THEOREM SnapshotsOfTheEnd == EpochsSpec => []SnapshotsAreOfTheEnd
<1>1. ASSUME StoreInv, EpochsInv PROVE SnapshotsAreOfTheEnd
  <2>. SUFFICES ASSUME NEW epoch \in 0..EpochOf(MaxSlot), FirstEpoch + epoch < NextEpoch
                PROVE  epoch \in AtItsEnd
    BY DEF SnapshotsAreOfTheEnd
  <2>1. disk \in Shape /\ DoneUpTo(disk)
    BY <1>1 DEF StoreInv, IInv, ShapeOK, TransitionsInv
  <2>2. disk.done[3] = EpochOf(disk.tip) + IF disk.progress >= 3 THEN 1 ELSE 0
    BY <2>1 DEF DoneUpTo
  <2>3. NextEpoch = FirstEpoch + disk.done[3] /\ disk.done[3] \in Nat
    BY <2>1, <2>2, Numbers, ContentsTypes DEF NextEpoch
  <2>4. epoch \in Nat /\ epoch < disk.done[3]
    BY <2>3, Numbers
  <2>. QED  BY <1>1, <2>4 DEF EpochsInv, RecordedInv, Recorded
<1>. QED  BY <1>1, StoreIsKept, EpochsAreKept, PTL

\* A commit is the next block, an advance of the phase, or neither.
LEMMA CommitMaps ==
    ASSUME StoreInv, EpochsInv, StoreStep
    PROVE  [Abstract!Next]_Abstract!vars
<1>1. AtItsEnd' = AtItsEnd /\ doing = "idle"
  BY SameSnapshots DEF StoreStep, dirs
<1>2. CASE disk' = disk
  BY <1>1, <1>2 DEF Abstract!vars
<1>3. CASE disk' # disk
  <2>1. Commit /\ HasTx /\ disk' = tx
    BY <1>3 DEF StoreStep, CreateTransaction, Commit, CommitWorks, CommitFails, Rollback,
                Drop, EpochStep, ClearProgress, Save
  <2>2. disk \in Shape /\ tx \in Shape /\ DoneUpTo(disk) /\ ~Uncleared /\ DoneUpTo(tx)
    BY <2>1, ShapeOfTx DEF StoreInv, IInv, ShapeOK, TransitionsInv, Commit,
                           ProgressIsCleared, Uncleared
  <2>3. /\ disk.progress \in 1..4 /\ tx.progress \in 1..4 /\ disk.tip \in Nat
        /\ EpochOf(disk.tip) \in Nat /\ EpochOf(tx.tip) \in Nat
    BY <2>2, ContentsTypes DEF Shape, Progress
  <2>4. tx.done[3] > EpochOf(disk.tip) => EpochOf(disk.tip) \in AtItsEnd
    BY <1>1, <2>1, <2>3 DEF EpochsInv, RecordedInv, Recorded
  <2>5. tx.done[3] = EpochOf(tx.tip) + IF tx.progress >= 3 THEN 1 ELSE 0
    BY <2>2 DEF DoneUpTo
  <2>6. CASE tx.tip = disk.tip
    <3>1. tx.progress >= disk.progress
      BY <2>1, <2>6 DEF EpochsInv, AheadInv
    <3>2. CASE tx.progress = disk.progress
      BY <1>1, <2>1, <2>6, <3>2 DEF Abstract!vars
    <3>3. CASE tx.progress > disk.progress
      <4>1. Starts(disk.tip + 1)
        BY <2>2, <2>3, <2>6, <3>3 DEF DoneUpTo
      <4>2. tx.progress > 2 => EpochOf(disk.tip) \in AtItsEnd
        BY <2>3, <2>4, <2>5, <2>6
      <4>3. Abstract!Advance
        BY <1>1, <2>1, <2>3, <2>6, <3>3, <4>1, <4>2
           DEF Abstract!Advance, Abstract!IsLast, Abstract!Snapshotted, Abstract!EpochOf,
               EpochOf, Starts
      <4>. QED  BY <4>3 DEF Abstract!Next
    <3>. QED  BY <2>3, <3>1, <3>2, <3>3
  <2>7. CASE tx.tip # disk.tip
    <3>1. tx.tip = disk.tip + 1 /\ tx.progress = 1
      BY <2>1, <2>2, <2>7 DEF StoreInv, IInv, BlocksInv, EpochsInv, AheadInv
    <3>2. Starts(disk.tip + 1) => EpochOf(disk.tip) \in AtItsEnd
      <4>1. ASSUME Starts(disk.tip + 1) PROVE EpochOf(tx.tip) = EpochOf(disk.tip) + 1
        BY <2>3, <3>1, <4>1, EpochOfNext
      <4>. QED  BY <2>3, <2>4, <2>5, <3>1, <4>1
    <3>3. ~Starts(disk.tip + 1) => disk.progress = 1
      BY <2>2 DEF DoneUpTo
    <3>4. Abstract!Block
      BY <1>1, <2>1, <3>1, <3>2, <3>3
         DEF Abstract!Block, Abstract!IsLast, Abstract!Snapshotted, Abstract!EpochOf,
             EpochOf, Starts
    <3>. QED  BY <3>4 DEF Abstract!Next
  <2>. QED  BY <2>6, <2>7
<1>. QED  BY <1>2, <1>3

\* A step of next_snapshot takes the snapshot of the tip's epoch, or gives the
\* last attempt's up.
LEMMA DirectoryMaps ==
    ASSUME StoreInv, EpochsInv, DirectoryStep
    PROVE  [Abstract!Next]_Abstract!vars
<1>1. disk' = disk /\ disk.progress = 2
  BY DirectoryGuard DEF EpochsInv, TakingInv, DirectoryStep, vars
<1>2. \A e : e # EpochOf(disk.tip) => (e \in AtItsEnd' <=> e \in AtItsEnd)
  BY OtherSnapshots DEF EpochsInv
<1>3. \/ AtItsEnd' = AtItsEnd \cup {EpochOf(disk.tip)}
      \/ AtItsEnd' = AtItsEnd \ {EpochOf(disk.tip)}
  BY <1>2
<1>4. Abstract!TakeSnapshot \/ Abstract!ForgetSnapshot
  BY <1>1, <1>3 DEF Abstract!TakeSnapshot, Abstract!ForgetSnapshot, Abstract!EpochOf, EpochOf
<1>. QED  BY <1>4 DEF Abstract!Next

\* The commits and the directory operations implement the abstract ledger:
\* blocks one after the other, no phase of a transition twice, and no block of
\* the next epoch without the snapshot of the last.
THEOREM Refinement == EpochsSpec => ImplementsEpochLedger
<1>1. EpochsInit => Abstract!Init
  <2>. SUFFICES ASSUME EpochsInit PROVE Abstract!Init
    OBVIOUS
  <2>1. listed = 0..(FirstEpoch - 1) /\ disk.tip = 0 /\ disk.progress = 1
    BY DEF EpochsInit, Init, Dirs!Init
  <2>2. AtItsEnd = {}
    BY <2>1, Numbers DEF AtItsEnd
  <2>. QED  BY <2>1, <2>2 DEF Abstract!Init
<1>2. StoreInv /\ EpochsInv /\ [EpochsNext]_allVars => [Abstract!Next]_Abstract!vars
  <2>. SUFFICES ASSUME StoreInv, EpochsInv, [EpochsNext]_allVars
                PROVE  [Abstract!Next]_Abstract!vars
    OBVIOUS
  <2>1. CASE StoreStep
    BY <2>1, CommitMaps
  <2>2. CASE DirectoryStep
    BY <2>2, DirectoryMaps
  <2>3. CASE SnapshotStep \/ SnapshotFails \/ CrashBoth \/ RestartBoth \/ UNCHANGED allVars
    <3>1. UNCHANGED <<disk, listed, files>>
      BY <2>3 DEF SnapshotStep, EpochStep, dirs, Dirs!NextSnapshot, SnapshotFails, Drop,
                  Dirs!CallFails, CrashBoth, Crash, Dirs!Crash, RestartBoth, Restart,
                  Dirs!Open, Dirs!disk, allVars, vars
    <3>. QED  BY <3>1, SameSnapshots DEF Abstract!vars
  <2>. QED  BY <2>1, <2>2, <2>3 DEF EpochsNext
<1>. QED
  BY <1>1, <1>2, StoreIsKept, EpochsAreKept, PTL
     DEF EpochsSpec, ImplementsEpochLedger, Abstract!Spec
=============================================================================
