---------------------------- MODULE LedgerEpochs ----------------------------
(***************************************************************************)
(* The ledger's store with its directories: LedgerStore and LedgerSnapshots *)
(* joined where they meet, in the second step of the epoch transition.     *)
(* next_snapshot copies what is committed, while the transaction that      *)
(* records it is open, and neither is atomic with the other: the call can  *)
(* fail or be cut at any file, and the commit after it can fail.           *)
(*                                                                         *)
(* The caller is the one LedgerStore describes; the snapshot it takes is   *)
(* of the epoch of the tip, in a transaction of its own, and an error of   *)
(* next_snapshot makes it return.                                          *)
(***************************************************************************)
EXTENDS LedgerStore

CONSTANTS
    Files,        \* the files of a RocksDB database
    FirstEpoch    \* the epochs below have been imported

ASSUME EpochsAssumption == Files # {} /\ FirstEpoch \in Nat \ {0}

VARIABLES
    listed, files, doing, target, taken   \* see LedgerSnapshots

dirs == <<listed, files, doing, target, taken>>
allVars == <<vars, dirs>>

\* The states the live database goes through, in order.
Version(tip, progress) == 4 * tip + progress

\* The epoch whose snapshot is the next to be recorded.
NextEpoch ==
    FirstEpoch + EpochOf(disk.tip) + IF disk.progress >= 3 THEN 1 ELSE 0

\* No prune here: it only reads what this module writes.
Dirs == INSTANCE LedgerSnapshots WITH
    MaxEpoch <- FirstEpoch + EpochOf(MaxSlot),
    MaxVersion <- Version(MaxSlot, 4),
    MaxExtra <- 0,
    Imported <- 0..(FirstEpoch - 1),
    live <- Version(disk.tip, disk.progress),
    next <- NextEpoch,
    todo <- {}, minimum <- 0, cutBelow <- 0

EpochsInit == Init /\ Dirs!Init

-----------------------------------------------------------------------------
\* What the ledger does between two calls of next_snapshot.
StoreStep ==
    /\ doing = "idle"
    /\ \/ CreateTransaction \/ Commit \/ Rollback \/ Drop
       \/ \E to \in {2, 4}, isDormant \in BOOLEAN : EpochStep(to, isDormant)
       \/ ClearProgress
       \/ \E slot \in Slots, renewed \in SUBSET Dreps, proposes \in BOOLEAN :
              Save(slot, renewed, proposes)
    /\ UNCHANGED dirs

\* The second step of the transition: if the swap succeeds, next_snapshot.
SnapshotStep ==
    /\ tx = disk
    /\ EpochStep(3, FALSE)
    /\ IF tx' = tx THEN UNCHANGED dirs ELSE Dirs!NextSnapshot

DirectoryStep ==
    /\ UNCHANGED vars
    /\ \/ Dirs!RemoveFile \/ Dirs!RemoveDir
       \/ Dirs!Checkpoint \/ Dirs!CheckpointRefused
       \/ Dirs!CopyFile \/ Dirs!CopyDone

SnapshotFails == Drop /\ Dirs!CallFails

CrashBoth == Crash /\ Dirs!Crash

\* RocksDB::new: the directories are looked at first.
RestartBoth == Restart /\ Dirs!Open

EpochsNext ==
    \/ StoreStep \/ SnapshotStep \/ DirectoryStep
    \/ SnapshotFails \/ CrashBoth \/ RestartBoth

EpochsSpec == EpochsInit /\ [][EpochsNext]_allVars

-----------------------------------------------------------------------------
\* The epochs whose directory holds the ledger at their end, and all of it:
\* the last block of the epoch and the work of EpochEnded, nothing after.
LastSlot(epoch) == epoch * EpochLength + EpochLength - 1

AtItsEnd ==
    {epoch \in 0..EpochOf(MaxSlot) :
        /\ FirstEpoch + epoch \in listed
        /\ files[FirstEpoch + epoch] = Dirs!AllOf(Version(LastSlot(epoch), 2))}

\* Once the store remembers the snapshot of an epoch as taken, and for good,
\* its directory holds exactly the ledger at the end of the epoch: across
\* crashes between the files, failed commits after the snapshot, snapshots
\* taken again, and a restart at any point of the transition.
SnapshotsAreOfTheEnd ==
    \A epoch \in 0..EpochOf(MaxSlot) :
        FirstEpoch + epoch < NextEpoch => epoch \in AtItsEnd

\* Commits and directory operations together implement the abstract ledger.
Abstract == INSTANCE EpochLedger WITH
    tip <- disk.tip, phase <- disk.progress, snapshots <- AtItsEnd

ImplementsEpochLedger == Abstract!Spec
=============================================================================
