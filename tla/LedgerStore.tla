----------------------------- MODULE LedgerStore -----------------------------
(***************************************************************************)
(* The ledger's store (rocksdb/mod.rs, transaction.rs): transactions       *)
(* guarded by a flag, save() with its replay check and its two pieces of   *)
(* DRep accounting, and the compare-and-swap that orders the steps of an   *)
(* epoch transition.  The process can stop between any two calls; what was *)
(* not committed is gone, and the caller then starts again from what the   *)
(* store says, re-delivering blocks it already has.                        *)
(*                                                                         *)
(* The caller (amaru-ledger) is not in the repository.  It is modelled as  *)
(* the one thread the store expects: it opens a transaction, calls save or *)
(* try_epoch_transition, and commits, rolls back, or drops the transaction *)
(* on an error; it runs the three steps of the transition before the first *)
(* block of an epoch and clears the progress in that block's transaction.  *)
(* The columns are abstracted to how often each block's changes are in the *)
(* store, but for the validity of the DReps.                               *)
(***************************************************************************)
EXTENDS Integers

CONSTANTS
    Dreps,         \* registered DReps
    MaxSlot,       \* bound: the last block
    EpochLength,   \* slots per epoch (era_history)
    DrepExpiry     \* protocol_parameters.drep_expiry

ASSUME StoreAssumption ==
    /\ MaxSlot \in Nat \ {0}
    /\ EpochLength \in Nat \ {0}
    /\ DrepExpiry \in Nat \ {0}

Slots == 1..MaxSlot
EpochOf(slot) == slot \div EpochLength
Starts(slot) == slot % EpochLength = 0

\* Option<EpochTransitionProgress>, in the order the caller goes through it:
\* None, EpochEnded, SnapshotTaken and EpochStarted.
Progress == 1..4

\* The contents of the database.
Contents ==
    [tip      : Nat,                \* @tip
     progress : Progress,           \* @progress, as a number
     dormant  : Nat,                \* @governance-activity
     validity : [Dreps -> Nat],     \* valid_until of the rows of drep:
     applied  : [Slots -> Nat],     \* how often a block's changes are in
     done     : [2..4 -> Nat]]      \* how often the work of a step is in

VARIABLES
    disk,      \* what is committed
    tx,        \* the contents as the open transaction sees them, or NoTx
    ongoing,   \* OngoingTransaction
    memory,    \* consecutive_dormant_epochs in the caller's GovernanceActivity
    process,   \* "up", "down" or "panicked"
    torn,      \* history: "lost" once the process has lost a transaction,
               \* "kept" for good once it has then committed another
    dropped    \* history: the process has dropped an open transaction

vars == <<disk, tx, ongoing, memory, process, torn, dropped>>

NoTx == [tip |-> -1]
HasTx == tx # NoTx
Ready == process = "up" /\ ~HasTx

TypeOK ==
    /\ disk \in Contents
    /\ tx \in Contents \cup {NoTx}
    /\ ongoing \in BOOLEAN
    /\ memory \in Nat
    /\ process \in {"up", "down", "panicked"}
    /\ torn \in {"no", "lost", "kept"}
    /\ dropped \in BOOLEAN

Init ==
    /\ disk = [tip |-> 0, progress |-> 1, dormant |-> 0,
               validity |-> [d \in Dreps |-> DrepExpiry],
               applied |-> [b \in Slots |-> 0],
               done |-> [p \in 2..4 |-> 0]]
    /\ tx = NoTx
    /\ ongoing = FALSE
    /\ memory = 0
    /\ process = "up"
    /\ torn = "no"
    /\ dropped = FALSE

-----------------------------------------------------------------------------
\* create_transaction: a second transaction is a bug and panics.
CreateTransaction ==
    /\ Ready
    /\ IF ongoing
       THEN /\ process' = "panicked"
            /\ UNCHANGED <<tx, ongoing>>
       ELSE /\ tx' = disk
            /\ ongoing' = TRUE
            /\ UNCHANGED process
    /\ UNCHANGED <<disk, memory, torn, dropped>>

\* transaction_ended: the flag is cleared, and was set.
TransactionEnded == ongoing' = FALSE /\ process' = IF ongoing THEN process ELSE "panicked"

\* Whether a commit fails or not, the transaction is over.
CommitWorks ==
    /\ disk' = tx
    /\ torn' = IF torn = "lost" THEN "kept" ELSE torn

Lose == torn' = IF torn = "no" THEN "lost" ELSE torn

CommitFails ==
    /\ Lose
    /\ UNCHANGED disk

\* The caller clears the progress in the transaction of the first block.
ProgressIsCleared == ~(tx.progress = 4 /\ Starts(tx.tip) /\ tx.tip # disk.tip)

Commit ==
    /\ HasTx
    /\ ProgressIsCleared
    /\ CommitWorks \/ CommitFails
    /\ tx' = NoTx
    /\ TransactionEnded
    /\ UNCHANGED <<memory, dropped>>

RollbackKeepsFlag ==
    /\ HasTx
    /\ tx' = NoTx
    /\ Lose
    /\ UNCHANGED <<disk, ongoing, memory, process, dropped>>

Rollback ==
    /\ HasTx
    /\ tx' = NoTx
    /\ Lose
    /\ TransactionEnded
    /\ UNCHANGED <<disk, memory, dropped>>

\* An error makes the caller return: the transaction is dropped, the flag stays.
Drop ==
    /\ HasTx
    /\ tx' = NoTx
    /\ Lose
    /\ dropped' = TRUE
    /\ UNCHANGED <<disk, ongoing, memory, process>>

-----------------------------------------------------------------------------
\* try_epoch_transition: a compare-and-swap on the progress.
TryEpochTransitionAlways(from, to) == [tx EXCEPT !.progress = to]

TryEpochTransition(from, to) ==
    IF tx.progress # from THEN tx ELSE [tx EXCEPT !.progress = to]

\* The caller does the work of a step where the swap succeeds, here a count;
\* the last step may also set_governance_activity to one more dormant epoch.
EpochStep(to, isDormant) ==
    LET swapped == TryEpochTransition(to - 1, to) IN
    /\ HasTx
    /\ tx.tip = disk.tip /\ Starts(disk.tip + 1)
    /\ disk.tip < MaxSlot
    /\ isDormant => to = 4
    /\ IF swapped = tx
       THEN UNCHANGED <<tx, memory>>
       ELSE /\ tx' = [tip      |-> tx.tip,
                      progress |-> swapped.progress,
                      dormant  |-> IF isDormant THEN tx.dormant + 1 ELSE tx.dormant,
                      validity |-> tx.validity,
                      applied  |-> tx.applied,
                      done     |-> [tx.done EXCEPT ![to] = @ + 1]]
            /\ memory' = IF isDormant THEN tx'.dormant ELSE memory
    /\ UNCHANGED <<disk, ongoing, process, torn, dropped>>

ClearProgress ==
    /\ HasTx
    /\ Starts(tx.tip) /\ tx.tip # disk.tip
    /\ tx' = TryEpochTransition(4, 1)
    /\ tx' # tx
    /\ UNCHANGED <<disk, ongoing, memory, process, torn, dropped>>

-----------------------------------------------------------------------------
\* drep_validity, for the block's epoch.
DrepValidity(slot) == EpochOf(slot) + DrepExpiry - memory

\* dreps::add (an update) and dreps::set_valid_until (a vote).
Renew(slot, renewed) ==
    [d \in Dreps |-> IF d \in renewed THEN DrepValidity(slot) ELSE tx.validity[d]]

\* A proposal ends a dormant period: the dormant epochs are added to the
\* validity of the DReps they keep active.
FlushUnexpired(slot, validity) ==
    [d \in Dreps |-> IF validity[d] >= EpochOf(slot)
                     THEN validity[d] + memory ELSE validity[d]]

FlushSubtracts(slot, validity) ==
    [d \in Dreps |-> IF validity[d] + memory >= EpochOf(slot)
                     THEN validity[d] - memory ELSE validity[d]]

Flush(slot, validity) ==
    [d \in Dreps |-> IF validity[d] + memory >= EpochOf(slot)
                     THEN validity[d] + memory ELSE validity[d]]

AlreadyKnownBefore(slot) == slot < tx.tip
AlreadyKnown(slot) == slot <= tx.tip

SaveNewKeepsActivity(slot, renewed, proposes) ==
    LET validity == Renew(slot, renewed)
        flushes  == memory > 0 /\ proposes
    IN  /\ memory' = IF flushes THEN 0 ELSE memory
        /\ tx' = [tip      |-> slot,
                  progress |-> tx.progress,
                  dormant  |-> tx.dormant,
                  validity |-> IF flushes THEN Flush(slot, validity) ELSE validity,
                  applied  |-> [tx.applied EXCEPT ![slot] = @ + 1],
                  done     |-> tx.done]

SaveNew(slot, renewed, proposes) ==
    LET validity == Renew(slot, renewed)
        flushes  == memory > 0 /\ proposes
    IN  /\ memory' = IF flushes THEN 0 ELSE memory
        /\ tx' = [tip      |-> slot,
                  progress |-> tx.progress,
                  dormant  |-> IF flushes THEN 0 ELSE tx.dormant,
                  validity |-> IF flushes THEN Flush(slot, validity) ELSE validity,
                  applied  |-> [tx.applied EXCEPT ![slot] = @ + 1],
                  done     |-> tx.done]

\* save.  Blocks come in order, each in a transaction of its own; after a
\* restart some come again.
Save(slot, renewed, proposes) ==
    /\ HasTx
    /\ slot <= disk.tip + 1
    /\ Starts(slot) /\ slot > tx.tip => tx.progress = 4
    /\ IF AlreadyKnown(slot)
       THEN UNCHANGED <<tx, memory>>
       ELSE SaveNew(slot, renewed, proposes)
    /\ UNCHANGED <<disk, ongoing, process, torn, dropped>>

-----------------------------------------------------------------------------
\* The process dies, or is killed, at any time.
Crash ==
    /\ process # "down"
    /\ process' = "down"
    /\ tx' = NoTx
    /\ UNCHANGED <<disk, ongoing, memory, torn, dropped>>

\* RocksDB::new: a new flag, and the caller reads the governance activity.
Restart ==
    /\ process = "down"
    /\ process' = "up"
    /\ ongoing' = FALSE
    /\ memory' = disk.dormant
    /\ torn' = IF torn = "lost" THEN "no" ELSE torn
    /\ dropped' = FALSE
    /\ UNCHANGED <<disk, tx>>

Next ==
    \/ CreateTransaction \/ Commit \/ Rollback \/ Drop
    \/ \E to \in 2..4, isDormant \in BOOLEAN : EpochStep(to, isDormant)
    \/ ClearProgress
    \/ \E slot \in Slots, renewed \in SUBSET Dreps, proposes \in BOOLEAN :
           Save(slot, renewed, proposes)
    \/ Crash \/ Restart

Spec == Init /\ [][Next]_vars

-----------------------------------------------------------------------------
\* A block is in the store exactly once, or not at all: exactly those up to the
\* tip, whatever was rolled back, crashed or delivered again.
BlocksAreInOnce ==
    \A b \in Slots : disk.applied[b] = IF b <= disk.tip THEN 1 ELSE 0

\* The work of each step of an epoch transition is in the store exactly once
\* per epoch, also when the caller starts the transition again after a crash:
\* the counts agree with the tip and the progress the store remembers.
TransitionsAreDoneOnce ==
    \A p \in 2..4 :
        disk.done[p] = EpochOf(disk.tip) + IF disk.progress >= p THEN 1 ELSE 0

\* The epoch up to which a DRep counts as active.
Expiry(contents, d) == contents.validity[d] + contents.dormant

\* No commit brings forward the expiry of a DRep that is active in the block's
\* epoch: neither the flush of the dormant epochs, nor a renewal computed while
\* they are pending, nor a replay.  This holds while the process has not lost
\* a transaction; save() zeroes the caller's counter before the commit, and a
\* caller that goes on after a rollback no longer agrees with the store.
ActiveDrepsStayActive ==
    [][\A d \in Dreps :
        torn' = "no" /\ Expiry(disk, d) >= EpochOf(disk'.tip)
            => Expiry(disk', d) >= Expiry(disk, d)]_vars

\* Dormant epochs in memory and in the store agree between transactions of a
\* process that has not lost one.
MemoryAgrees == Ready /\ torn = "no" => memory = disk.dormant

\* create_transaction and transaction_ended panic only in a process that has
\* dropped an open transaction: commit and rollback, failed ones included,
\* release the flag, and release it once.
PanicNeedsDrop == process = "panicked" => dropped
=============================================================================
