-------------------------- MODULE LedgerSnapshots --------------------------
(***************************************************************************)
(* The directory of the ledger store (rocksdb/mod.rs): one database called *)
(* "live" and one directory per epoch, a snapshot of "live".  A snapshot   *)
(* is taken with hard links or, where the platform refuses them, file by   *)
(* file; old snapshots are pruned directory by directory; and the store    *)
(* opens only when the snapshots it finds are sufficient.  The process can *)
(* die between any two file operations.                                    *)
(*                                                                         *)
(* The ledger that calls the store is not in the repository.  It is        *)
(* modelled by what the store expects of it: snapshots are taken in epoch  *)
(* order, the last one possibly again after a restart (next_snapshot       *)
(* removes the directory it finds), and prune never asks for more than the *)
(* snapshot of the previous epoch.                                         *)
(***************************************************************************)
EXTENDS Integers, FiniteSets

CONSTANTS
    Files,        \* the files of a RocksDB database
    MaxEpoch,     \* bound: the last epoch
    MaxVersion,   \* bound: how many states the live database goes through
    MaxExtra,     \* max_extra_ledger_snapshots
    Imported      \* the epochs of the snapshots the store starts with

Epochs == 0..MaxEpoch
NoEpoch == -1
NoVersion == 0
Versions == 1..MaxVersion

ASSUME FilesAssumption == Files # {}
ASSUME BoundsAssumption ==
    MaxEpoch \in Nat /\ MaxVersion \in Nat \ {0} /\ MaxExtra \in Nat
ASSUME ImportedAssumption ==
    \E first, last \in Epochs :
        first <= last /\ last < MaxEpoch /\ Imported = first..last

VARIABLES
    listed,    \* the epochs that have a directory
    files,     \* [Epochs -> [Files -> version]]: what each directory holds
    live,      \* the version of the live database
    next,      \* the epoch of the next snapshot
    doing,     \* "down", "idle", or the step of the call being executed
    target,    \* the directory that call is working on
    todo,      \* the directory entries prune has still to visit
    minimum,   \* the functional_minimum of the last call to prune
    taken,     \* history: the version next_snapshot(e) returned Ok for
    cutBelow   \* history: prunes below this epoch have been interrupted

disk == <<listed, files>>
vars == <<listed, files, live, next, doing, target, todo, minimum, taken,
          cutBelow>>

Missing == [f \in Files |-> NoVersion]
AllOf(v) == [f \in Files |-> v]

TypeOK ==
    /\ listed \subseteq Epochs
    /\ files \in [Epochs -> [Files -> Versions \cup {NoVersion}]]
    /\ live \in Versions
    /\ next \in Epochs
    /\ doing \in {"down", "idle", "remove", "checkpoint", "copy", "prune"}
    /\ target \in Epochs \cup {NoEpoch}
    /\ todo \subseteq Epochs
    /\ minimum \in Epochs
    /\ taken \in [Epochs -> Versions \cup {NoVersion}]
    /\ cutBelow \in Epochs

-----------------------------------------------------------------------------
\* split_continuous: the maximal runs of consecutive epochs in a listing.
Runs(S) == {{g \in S : e..g \subseteq S /\ g..e \subseteq S} : e \in S}

FirstRun(S) == CHOOSE r \in Runs(S) : \A e \in r, g \in S : g < e => g \in r

\* assert_sufficient_snapshots.  With no snapshot at all the list of runs is
\* empty and its first element is read all the same.
OpenOutcome(S) ==
    IF S = {} THEN "panic"
    ELSE IF Cardinality(Runs(S)) # 1 /\ Cardinality(FirstRun(S)) < 2
         THEN "NoStableSnapshot"
         ELSE "ok"

\* functional_minimum.saturating_sub(max_extra_ledger_snapshots)
DesiredMinimumWrapping(m) == IF m < MaxExtra THEN MaxEpoch + 1 ELSE m - MaxExtra
DesiredMinimum(m) == IF m < MaxExtra THEN 0 ELSE m - MaxExtra

-----------------------------------------------------------------------------
Init ==
    /\ listed = Imported
    /\ files = [e \in Epochs |-> IF e \in Imported THEN AllOf(1) ELSE Missing]
    /\ live = 1
    /\ next = CHOOSE e \in Epochs : e - 1 \in Imported /\ e \notin Imported
    /\ doing = "idle"
    /\ target = NoEpoch
    /\ todo = {}
    /\ minimum = 0
    /\ taken = [e \in Epochs |-> IF e \in Imported THEN 1 ELSE NoVersion]
    /\ cutBelow = 0

\* RocksDB::new, after assert_sufficient_snapshots has accepted the listing.
Open ==
    /\ doing = "down"
    /\ OpenOutcome(listed) = "ok"
    /\ doing' = "idle"
    /\ UNCHANGED <<disk, live, next, target, todo, minimum, taken, cutBelow>>

\* A block is saved: the live database changes.
Save ==
    /\ doing = "idle"
    /\ live < MaxVersion
    /\ live' = live + 1
    /\ UNCHANGED <<disk, next, doing, target, todo, minimum, taken, cutBelow>>

\* The ledger commits the progress of the epoch transition after the snapshot.
EpochStarted ==
    /\ doing = "idle"
    /\ taken[next] # NoVersion
    /\ next < MaxEpoch
    /\ next' = next + 1
    /\ UNCHANGED <<disk, live, doing, target, todo, minimum, taken, cutBelow>>

-----------------------------------------------------------------------------
\* next_snapshot: an existing directory is removed first.
NextSnapshot ==
    /\ doing = "idle"
    /\ target' = next
    /\ taken' = [taken EXCEPT ![next] = NoVersion]
    /\ doing' = IF next \in listed THEN "remove" ELSE "checkpoint"
    /\ UNCHANGED <<disk, live, next, todo, minimum, cutBelow>>

\* fs::remove_dir_all unlinks one file after the other ...
RemoveFile ==
    /\ doing \in {"remove", "prune"}
    /\ target # NoEpoch
    /\ \E f \in Files :
        /\ files[target][f] # NoVersion
        /\ files' = [files EXCEPT ![target][f] = NoVersion]
    /\ UNCHANGED <<listed, live, next, doing, target, todo, minimum, taken,
                   cutBelow>>

\* ... and then the directory.
RemoveDir ==
    /\ doing \in {"remove", "prune"}
    /\ target # NoEpoch
    /\ files[target] = Missing
    /\ listed' = listed \ {target}
    /\ IF doing = "remove"
       THEN doing' = "checkpoint" /\ target' = target
       ELSE doing' = "prune" /\ target' = NoEpoch
    /\ UNCHANGED <<files, live, next, todo, minimum, taken, cutBelow>>

\* create_checkpoint builds the snapshot aside and renames it.
Checkpoint ==
    /\ doing = "checkpoint"
    /\ listed' = listed \cup {target}
    /\ files' = [files EXCEPT ![target] = AllOf(live)]
    /\ taken' = [taken EXCEPT ![target] = live]
    /\ doing' = "idle"
    /\ target' = NoEpoch
    /\ UNCHANGED <<live, next, todo, minimum, cutBelow>>

\* Hard links are refused: copy_snapshot_to_path flushes the live database and
\* creates the directory.
CheckpointRefused ==
    /\ doing = "checkpoint"
    /\ listed' = listed \cup {target}
    /\ doing' = "copy"
    /\ UNCHANGED <<files, live, next, target, todo, minimum, taken, cutBelow>>

CopyFile ==
    /\ doing = "copy"
    /\ \E f \in Files :
        /\ files[target][f] = NoVersion
        /\ files' = [files EXCEPT ![target][f] = live]
    /\ UNCHANGED <<listed, live, next, doing, target, todo, minimum, taken,
                   cutBelow>>

CopyIsComplete == \A f \in Files : files[target][f] # NoVersion

CopyDoneEarly ==
    /\ doing = "copy"
    /\ \E f \in Files : files[target][f] # NoVersion
    /\ taken' = [taken EXCEPT ![target] = live]
    /\ doing' = "idle"
    /\ target' = NoEpoch
    /\ UNCHANGED <<disk, live, next, todo, minimum, cutBelow>>

CopyDone ==
    /\ doing = "copy"
    /\ CopyIsComplete
    /\ taken' = [taken EXCEPT ![target] = live]
    /\ doing' = "idle"
    /\ target' = NoEpoch
    /\ UNCHANGED <<disk, live, next, todo, minimum, cutBelow>>

-----------------------------------------------------------------------------
\* HistoricalStores::prune: visits the directory in whatever order read_dir
\* gives.
Prune(functional_minimum) ==
    /\ doing = "idle"
    /\ functional_minimum < next
    /\ minimum' = functional_minimum
    /\ todo' = listed
    /\ doing' = "prune"
    /\ UNCHANGED <<disk, live, next, target, taken, cutBelow>>

PruneSkip(e) ==
    /\ doing = "prune" /\ target = NoEpoch
    /\ e >= DesiredMinimum(minimum)
    /\ todo' = todo \ {e}
    /\ UNCHANGED <<disk, live, next, doing, target, minimum, taken, cutBelow>>

PruneRemoveUpTo(e) ==
    /\ doing = "prune" /\ target = NoEpoch
    /\ e <= DesiredMinimum(minimum)
    /\ todo' = todo \ {e}
    /\ target' = e
    /\ taken' = [taken EXCEPT ![e] = NoVersion]
    /\ UNCHANGED <<disk, live, next, doing, minimum, cutBelow>>

PruneRemove(e) ==
    /\ doing = "prune" /\ target = NoEpoch
    /\ e < DesiredMinimum(minimum)
    /\ todo' = todo \ {e}
    /\ target' = e
    /\ taken' = [taken EXCEPT ![e] = NoVersion]
    /\ UNCHANGED <<disk, live, next, doing, minimum, cutBelow>>

PruneDone ==
    /\ doing = "prune" /\ target = NoEpoch
    /\ todo = {}
    /\ doing' = "idle"
    /\ UNCHANGED <<disk, live, next, target, todo, minimum, taken, cutBelow>>

-----------------------------------------------------------------------------
\* A prune that ends here leaves an arbitrary part of its work undone.
CutBelow ==
    IF doing = "prune" /\ DesiredMinimum(minimum) > cutBelow
    THEN DesiredMinimum(minimum) ELSE cutBelow

\* A file operation or the checkpoint fails: the call returns its error and
\* leaves the directories as they are.
CallFails ==
    /\ \/ doing \in {"remove", "checkpoint", "copy"}
       \/ doing = "prune" /\ target # NoEpoch
    /\ doing' = "idle"
    /\ target' = NoEpoch
    /\ todo' = {}
    /\ cutBelow' = CutBelow
    /\ UNCHANGED <<disk, live, next, minimum, taken>>

\* The process ends at any time.
Crash ==
    /\ doing # "down"
    /\ doing' = "down"
    /\ target' = NoEpoch
    /\ todo' = {}
    /\ cutBelow' = CutBelow
    /\ UNCHANGED <<disk, live, next, minimum, taken>>

PruneStep ==
    \/ \E m \in Epochs : Prune(m)
    \/ \E e \in todo : PruneSkip(e) \/ PruneRemove(e)
    \/ PruneDone

SnapshotStep ==
    \/ NextSnapshot \/ Checkpoint \/ CheckpointRefused \/ CopyFile \/ CopyDone

Next ==
    \/ Open \/ Save \/ EpochStarted
    \/ RemoveFile \/ RemoveDir
    \/ SnapshotStep
    \/ PruneStep
    \/ CallFails \/ Crash

Spec == Init /\ [][Next]_vars

-----------------------------------------------------------------------------
\* Once next_snapshot(e) has returned Ok, and until that snapshot is taken
\* again or pruned, its directory holds every file of the live database as it
\* was at the call: no file of an earlier attempt that was interrupted, none
\* missing, whatever crashed, failed or was retried in between.
SnapshotsAreExact ==
    \A e \in Epochs :
        taken[e] # NoVersion => e \in listed /\ files[e] = AllOf(taken[e])

\* prune discards no snapshot the ledger asked to keep, nor any of the
\* max_extra_ledger_snapshots before them, also when the subtraction would go
\* below epoch zero; nothing else discards a snapshot but taking it again.
PruneKeepsRecent ==
    [][\A e \in Epochs :
        taken[e] # NoVersion /\ taken'[e] = NoVersion =>
            \/ doing = "idle" /\ e = next
            \/ doing = "prune" /\ e + MaxExtra < minimum]_vars

\* The store opens again after any crash, whatever was being copied, removed or
\* retried, unless a prune was interrupted and left some of the directories
\* it should have removed: only then can the first run of snapshots be too
\* short and RocksDB::new refuse (or panic).
OpensUnlessPruneCut ==
    doing = "down" /\ (\A e \in listed : e >= cutBelow)
        => OpenOutcome(listed) = "ok"
=============================================================================
