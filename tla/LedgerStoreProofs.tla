-------------------------- MODULE LedgerStoreProofs --------------------------
(***************************************************************************)
(* Proofs about the ledger's store: each block and each step of an epoch   *)
(* transition is in the store exactly once, whatever crashes, fails or is  *)
(* delivered again, and only a dropped transaction makes the flag panic.   *)
(***************************************************************************)
EXTENDS LedgerStore, TLAPS

\* The contents, but for the lower bound of the validity of DReps.
Shape ==
    [tip : Nat, progress : Progress, dormant : Nat, validity : [Dreps -> Int],
     applied : [Slots -> Nat], done : [2..4 -> Nat]]

ShapeOK ==
    /\ disk \in Shape
    /\ tx \in Shape \cup {NoTx}
    /\ ongoing \in BOOLEAN
    /\ memory \in Nat
    /\ process \in {"up", "down", "panicked"}
    /\ torn \in {"no", "lost", "kept"}

\* Blocks up to the tip are applied, in what is committed and in what the open
\* transaction sees.
AppliedUpTo(contents) ==
    \A b \in Slots : contents.applied[b] = IF b <= contents.tip THEN 1 ELSE 0

BlocksInv ==
    /\ AppliedUpTo(disk)
    /\ HasTx => AppliedUpTo(tx) /\ (tx.tip = disk.tip \/ tx.tip = disk.tip + 1)

\* The flag is set by an open transaction, and by a dropped one for good.
FlagInv ==
    /\ HasTx => process = "up" /\ ongoing
    /\ process = "up" /\ ongoing /\ ~HasTx => dropped
    /\ process = "panicked" => dropped

\* The caller's dormant epochs are those its transaction sees.
MemoryInv ==
    process = "up" /\ torn = "no" =>
        memory = IF HasTx THEN tx.dormant ELSE disk.dormant

IInv == ShapeOK /\ BlocksInv /\ FlagInv /\ MemoryInv

LEMMA ShapeOfTx ==
    ASSUME ShapeOK, HasTx
    PROVE  tx \in Shape
BY DEF ShapeOK, HasTx

\* No contents are the missing transaction.
LEMMA ShapeIsNotNoTx == NoTx \notin Shape
<1>1. \A c \in Shape : c.tip \in Nat
  BY DEF Shape
<1>. QED  BY <1>1 DEF NoTx

LEMMA InitInvariant == Init => IInv
<1>. SUFFICES ASSUME Init PROVE IInv
  OBVIOUS
<1>1. disk \in Shape
  <2>1. [d \in Dreps |-> DrepExpiry] \in [Dreps -> Int]
    BY StoreAssumption
  <2>. QED  BY <2>1 DEF Init, Shape, Progress
<1>2. ShapeOK
  BY <1>1 DEF Init, ShapeOK
<1>. QED  BY <1>2 DEF Init, IInv, BlocksInv, AppliedUpTo, FlagInv, MemoryInv, HasTx, Slots

\* The steps the caller takes inside a transaction.
InTx ==
    \/ \E to \in 2..4, isDormant \in BOOLEAN : EpochStep(to, isDormant)
    \/ ClearProgress
    \/ \E slot \in Slots, renewed \in SUBSET Dreps, proposes \in BOOLEAN :
           Save(slot, renewed, proposes)

\* They leave the transaction open, with contents of the right shape.
LEMMA InTxShape ==
    ASSUME ShapeOK, InTx
    PROVE  tx' \in Shape /\ memory' \in Nat
<1>1. CASE \E to \in 2..4, isDormant \in BOOLEAN : EpochStep(to, isDormant)
  <2>1. PICK to \in 2..4, isDormant \in BOOLEAN : EpochStep(to, isDormant)
    BY <1>1
  <2>2. tx \in Shape
    BY <2>1, ShapeOfTx DEF EpochStep
  <2>3. TryEpochTransition(to - 1, to) \in Shape
    BY <2>2 DEF TryEpochTransition, Shape, Progress
  <2>4. CASE TryEpochTransition(to - 1, to) = tx
    BY <2>1, <2>2, <2>4 DEF EpochStep, ShapeOK
  <2>5. CASE TryEpochTransition(to - 1, to) # tx
    <3>. DEFINE swapped == TryEpochTransition(to - 1, to)
    <3>1. tx' = [tip |-> tx.tip, progress |-> swapped.progress,
                 dormant |-> IF isDormant THEN tx.dormant + 1 ELSE tx.dormant,
                 validity |-> tx.validity, applied |-> tx.applied,
                 done |-> [tx.done EXCEPT ![to] = @ + 1]]
          /\ memory' = IF isDormant THEN tx'.dormant ELSE memory
      BY <2>1, <2>5 DEF EpochStep
    <3>2. tx' \in Shape
      <4>. HIDE DEF swapped
      <4>1. swapped \in Shape
        BY <2>3 DEF swapped
      <4>. QED  BY <2>2, <3>1, <4>1 DEF Shape
    <3>3. memory' \in Nat
      BY <3>1, <3>2 DEF Shape, ShapeOK
    <3>. QED  BY <2>1, <3>2, <3>3 DEF EpochStep, ShapeOK
  <2>. QED  BY <2>4, <2>5
<1>2. CASE ClearProgress
  <2>1. tx' \in Shape
    BY <1>2, ShapeOfTx DEF ClearProgress, TryEpochTransition, Shape, Progress
  <2>. QED  BY <1>2, <2>1 DEF ClearProgress, ShapeOK
<1>3. CASE \E slot \in Slots, renewed \in SUBSET Dreps, proposes \in BOOLEAN :
             Save(slot, renewed, proposes)
  <2>1. PICK slot \in Slots, renewed \in SUBSET Dreps, proposes \in BOOLEAN :
               Save(slot, renewed, proposes)
    BY <1>3
  <2>2. tx \in Shape /\ memory \in Nat
    BY <2>1, ShapeOfTx DEF Save, ShapeOK
  <2>3. CASE AlreadyKnown(slot)
    BY <2>1, <2>2, <2>3 DEF Save
  <2>4. CASE ~AlreadyKnown(slot)
    <3>. DEFINE v == Renew(slot, renewed)
    <3>1. EpochOf(slot) \in Int
      BY StoreAssumption DEF EpochOf, Slots
    <3>2. v \in [Dreps -> Int]
      BY <2>2, <3>1, StoreAssumption DEF Renew, DrepValidity, Shape
    <3>3. Flush(slot, v) \in [Dreps -> Int]
      BY <2>2, <3>1, <3>2 DEF Flush
    <3>4. SaveNew(slot, renewed, proposes)
      BY <2>1, <2>4 DEF Save
    <3>5. memory' \in Nat
      BY <2>2, <3>4 DEF SaveNew
    <3>6. tx' \in Shape
      <4>. DEFINE w == IF memory > 0 /\ proposes THEN Flush(slot, v) ELSE v
                  n == IF memory > 0 /\ proposes THEN 0 ELSE tx.dormant
                  applied == [tx.applied EXCEPT ![slot] = @ + 1]
      <4>1. tx' = [tip |-> slot, progress |-> tx.progress, dormant |-> n,
                   validity |-> w, applied |-> applied, done |-> tx.done]
        BY <3>4 DEF SaveNew
      <4>2. w \in [Dreps -> Int]
        BY <3>2, <3>3
      <4>3. n \in Nat /\ applied \in [Slots -> Nat]
        BY <2>2 DEF Shape
      <4>. HIDE DEF v, w, n, applied
      <4>. QED  BY <2>2, <4>1, <4>2, <4>3 DEF Shape, Slots
    <3>. QED  BY <2>1, <3>5, <3>6 DEF Save, ShapeOK
  <2>. QED  BY <2>3, <2>4
<1>. QED  BY <1>1, <1>2, <1>3 DEF InTx

LEMMA InTxHasTx ==
    ASSUME ShapeOK, InTx
    PROVE  HasTx'
BY InTxShape, ShapeIsNotNoTx DEF HasTx

LEMMA ShapeInvariant ==
    ASSUME ShapeOK, Next
    PROVE  ShapeOK'
<1>1. CASE CreateTransaction
  BY <1>1 DEF CreateTransaction, ShapeOK
<1>2. CASE Commit
  BY <1>2, ShapeOfTx DEF Commit, CommitWorks, CommitFails, TransactionEnded, ShapeOK, Lose
<1>3. CASE Rollback \/ Drop
  BY <1>3 DEF Rollback, Drop, TransactionEnded, ShapeOK, Lose
<1>4. CASE InTx
  <2>1. tx' \in Shape /\ memory' \in Nat
    BY <1>4, InTxShape
  <2>2. UNCHANGED <<disk, ongoing, process, torn>>
    BY <1>4 DEF InTx, EpochStep, ClearProgress, Save
  <2>. QED  BY <2>1, <2>2 DEF ShapeOK
<1>5. CASE Crash \/ Restart
  BY <1>5 DEF Crash, Restart, ShapeOK, Shape
<1>. QED  BY <1>1, <1>2, <1>3, <1>4, <1>5 DEF Next, InTx

\* What a step does to the blocks: none, or the next one in the transaction.
LEMMA BlocksInvariant ==
    ASSUME IInv, Next
    PROVE  BlocksInv'
<1>. USE ShapeIsNotNoTx DEF HasTx
<1>1. CASE CreateTransaction
  BY <1>1 DEF CreateTransaction, IInv, BlocksInv, Ready
<1>2. CASE Commit
  BY <1>2 DEF Commit, CommitWorks, CommitFails, IInv, BlocksInv, AppliedUpTo
<1>3. CASE Rollback \/ Drop
  BY <1>3 DEF Rollback, Drop, IInv, BlocksInv, AppliedUpTo
<1>4. CASE \E to \in 2..4, isDormant \in BOOLEAN : EpochStep(to, isDormant)
  BY <1>4 DEF EpochStep, IInv, BlocksInv, AppliedUpTo
<1>5. CASE ClearProgress
  <2>1. tx \in Shape
    BY <1>5, ShapeOfTx DEF IInv, ClearProgress
  <2>2. tx'.tip = tx.tip /\ tx'.applied = tx.applied /\ disk' = disk
    BY <1>5, <2>1 DEF ClearProgress, TryEpochTransition, Shape
  <2>. QED  BY <1>5, <2>2 DEF ClearProgress, IInv, BlocksInv, AppliedUpTo
<1>6. CASE \E slot \in Slots, renewed \in SUBSET Dreps, proposes \in BOOLEAN :
             Save(slot, renewed, proposes)
  <2>1. PICK slot \in Slots, renewed \in SUBSET Dreps, proposes \in BOOLEAN :
               Save(slot, renewed, proposes)
    BY <1>6
  <2>2. tx \in Shape /\ disk \in Shape /\ disk' = disk /\ slot <= disk.tip + 1
    BY <2>1, ShapeOfTx DEF Save, IInv, ShapeOK
  <2>3. CASE AlreadyKnown(slot)
    BY <2>1, <2>3 DEF Save, IInv, BlocksInv, AppliedUpTo
  <2>4. CASE ~AlreadyKnown(slot)
    <3>1. tx'.tip = slot /\ tx'.applied = [tx.applied EXCEPT ![slot] = @ + 1]
      BY <2>1, <2>4 DEF Save, SaveNew
    <3>2. AppliedUpTo(tx) /\ (tx.tip = disk.tip \/ tx.tip = disk.tip + 1)
      BY <2>1 DEF Save, IInv, BlocksInv
    <3>3. tx.tip \in Nat /\ disk.tip \in Nat /\ slot \in Nat /\ tx.applied \in [Slots -> Nat]
      BY <2>2 DEF Shape, Slots
    <3>4. slot = disk.tip + 1 /\ tx.tip = disk.tip
      BY <2>2, <2>4, <3>2, <3>3 DEF AlreadyKnown
    <3>5. AppliedUpTo(tx')
      <4>. SUFFICES ASSUME NEW b \in Slots
                    PROVE  tx'.applied[b] = IF b <= tx'.tip THEN 1 ELSE 0
        BY DEF AppliedUpTo
      <4>1. b \in Int /\ tx.applied[b] = IF b <= tx.tip THEN 1 ELSE 0
        BY <3>2, StoreAssumption DEF AppliedUpTo, Slots
      <4>2. tx'.applied[b] = IF b = slot THEN tx.applied[b] + 1 ELSE tx.applied[b]
        BY <3>1, <3>3
      <4>3. CASE b = slot
        BY <3>1, <3>3, <3>4, <4>1, <4>2, <4>3
      <4>4. CASE b # slot
        BY <3>1, <3>3, <3>4, <4>1, <4>2, <4>4
      <4>. QED  BY <4>3, <4>4
    <3>6. AppliedUpTo(disk)'
      BY <2>2 DEF IInv, BlocksInv, AppliedUpTo
    <3>7. tx'.tip = disk'.tip + 1
      BY <2>2, <3>1, <3>4
    <3>8. AppliedUpTo(tx)'
      BY <3>5 DEF AppliedUpTo
    <3>. QED  BY <3>6, <3>7, <3>8 DEF BlocksInv
  <2>. QED  BY <2>3, <2>4
<1>7. CASE Crash \/ Restart
  BY <1>7 DEF Crash, Restart, IInv, BlocksInv, AppliedUpTo, FlagInv
<1>. QED  BY <1>1, <1>2, <1>3, <1>4, <1>5, <1>6, <1>7 DEF Next

LEMMA FlagInvariant ==
    ASSUME IInv, Next
    PROVE  FlagInv'
<1>1. CASE CreateTransaction
  <2>1. disk # NoTx
    BY ShapeIsNotNoTx DEF IInv, ShapeOK
  <2>. QED  BY <1>1, <2>1 DEF CreateTransaction, Ready, HasTx, IInv, FlagInv
<1>2. CASE Commit \/ Rollback
  BY <1>2 DEF Commit, Rollback, TransactionEnded, HasTx, IInv, FlagInv
<1>3. CASE Drop
  BY <1>3 DEF Drop, HasTx, IInv, FlagInv
<1>4. CASE InTx
  <2>1. HasTx /\ HasTx'
    BY <1>4, InTxHasTx DEF IInv, InTx, EpochStep, ClearProgress, Save
  <2>2. UNCHANGED <<ongoing, process, dropped>>
    BY <1>4 DEF InTx, EpochStep, ClearProgress, Save
  <2>. QED  BY <2>1, <2>2 DEF IInv, FlagInv
<1>5. CASE Crash \/ Restart
  BY <1>5 DEF Crash, Restart, HasTx, IInv, FlagInv
<1>. QED  BY <1>1, <1>2, <1>3, <1>4, <1>5 DEF Next, InTx

LEMMA MemoryInvariant ==
    ASSUME IInv, Next
    PROVE  MemoryInv'
<1>1. CASE CreateTransaction
  <2>1. disk # NoTx
    BY ShapeIsNotNoTx DEF IInv, ShapeOK
  <2>. QED  BY <1>1, <2>1 DEF CreateTransaction, Ready, HasTx, IInv, MemoryInv
<1>2. CASE Commit
  <2>1. HasTx /\ process = "up" /\ ~HasTx'
    BY <1>2 DEF Commit, HasTx, IInv, FlagInv
  <2>2. SUFFICES ASSUME process' = "up", torn' = "no"
                 PROVE  memory' = disk'.dormant
    BY <2>1 DEF MemoryInv
  <2>3. torn = "no" /\ disk' = tx /\ memory' = memory
    BY <1>2, <2>2 DEF Commit, CommitWorks, CommitFails, Lose
  <2>. QED  BY <2>1, <2>3 DEF IInv, MemoryInv
<1>3. CASE Rollback \/ Drop
  BY <1>3 DEF Rollback, Drop, Lose, MemoryInv
<1>4. CASE InTx
  <2>1. HasTx /\ HasTx'
    BY <1>4, InTxHasTx DEF IInv, InTx, EpochStep, ClearProgress, Save
  <2>2. UNCHANGED <<disk, process, torn>>
    BY <1>4 DEF InTx, EpochStep, ClearProgress, Save
  <2>3. tx \in Shape
    BY <2>1, ShapeOfTx DEF IInv
  <2>4. memory = tx.dormant => memory' = tx'.dormant
    <3>1. CASE \E to \in 2..4, isDormant \in BOOLEAN : EpochStep(to, isDormant)
      BY <3>1 DEF EpochStep
    <3>2. CASE ClearProgress
      BY <2>3, <3>2 DEF ClearProgress, TryEpochTransition, Shape, Progress
    <3>3. CASE \E slot \in Slots, renewed \in SUBSET Dreps, proposes \in BOOLEAN :
                 Save(slot, renewed, proposes)
      BY <3>3 DEF Save, SaveNew
    <3>. QED  BY <1>4, <3>1, <3>2, <3>3 DEF InTx
  <2>. QED  BY <2>1, <2>2, <2>4 DEF IInv, MemoryInv
<1>5. CASE Crash \/ Restart
  <2>1. CASE Crash
    BY <2>1 DEF Crash, MemoryInv
  <2>2. CASE Restart
    <3>1. ~HasTx
      BY <2>2 DEF Restart, IInv, FlagInv
    <3>. QED  BY <2>2, <3>1 DEF Restart, HasTx, MemoryInv
  <2>. QED  BY <1>5, <2>1, <2>2
<1>. QED  BY <1>1, <1>2, <1>3, <1>4, <1>5 DEF Next, InTx

LEMMA Invariance == Spec => []IInv
<1>1. IInv /\ [Next]_vars => IInv'
  <2>1. ASSUME IInv, Next PROVE IInv'
    BY <2>1, ShapeInvariant, BlocksInvariant, FlagInvariant, MemoryInvariant DEF IInv
  <2>2. CASE UNCHANGED vars
    BY <2>2 DEF vars, IInv, ShapeOK, BlocksInv, AppliedUpTo, FlagInv, MemoryInv, HasTx
  <2>. QED  BY <2>1, <2>2
<1>. QED  BY InitInvariant, <1>1, PTL DEF Spec

-----------------------------------------------------------------------------
\* Every block up to the tip is in the store once, and no other.
THEOREM BlocksOnce == Spec => []BlocksAreInOnce
<1>1. IInv => BlocksAreInOnce
  BY DEF IInv, BlocksInv, AppliedUpTo, BlocksAreInOnce
<1>. QED  BY <1>1, Invariance, PTL

\* The flag of a transaction panics only after a transaction was dropped.
THEOREM PanicOnlyAfterDrop == Spec => []PanicNeedsDrop
<1>1. IInv => PanicNeedsDrop
  BY DEF IInv, FlagInv, PanicNeedsDrop
<1>. QED  BY <1>1, Invariance, PTL

\* The caller's and the store's dormant epochs agree until a transaction is
\* lost.
THEOREM MemoryInStep == Spec => []MemoryAgrees
<1>1. IInv => MemoryAgrees
  BY DEF IInv, MemoryInv, MemoryAgrees, Ready
<1>. QED  BY <1>1, Invariance, PTL
-----------------------------------------------------------------------------
(* The epoch transitions: what is done agrees with the tip and the progress. *)

LEMMA NextQuotient ==
    ASSUME NEW n \in Nat \ {0}, NEW q \in Nat, NEW r \in 0..(n - 1), NEW s \in Nat,
           s = q * n + r,
           NEW p \in Nat, NEW t \in 0..(n - 1), s + 1 = p * n + t
    PROVE  p = q + IF t = 0 THEN 1 ELSE 0
<1>1. (p - q) * n = 1 + r - t
  OBVIOUS
<1>2. p - q >= 0
  <2>. SUFFICES ASSUME p - q <= -1 PROVE FALSE
    OBVIOUS
  <2>1. (p - q) * n <= -1 * n
    OBVIOUS
  <2>. QED  BY <1>1, <2>1
<1>3. p - q <= 1
  <2>. SUFFICES ASSUME p - q >= 2 PROVE FALSE
    OBVIOUS
  <2>1. (p - q) * n >= 2 * n
    OBVIOUS
  <2>. QED  BY <1>1, <2>1
<1>4. CASE p = q
  BY <1>1, <1>4
<1>5. CASE p = q + 1
  <2>1. n = 1 + r - t
    BY <1>1, <1>5
  <2>. QED  BY <2>1, <1>5
<1>. QED  BY <1>2, <1>3, <1>4, <1>5

LEMMA EpochAndSlot ==
    ASSUME NEW s \in Nat
    PROVE  /\ EpochOf(s) \in Nat
           /\ s % EpochLength \in 0..(EpochLength - 1)
           /\ s = EpochOf(s) * EpochLength + (s % EpochLength)
BY StoreAssumption DEF EpochOf

\* The epoch changes at the slots that start one, by one.
LEMMA EpochOfNext ==
    ASSUME NEW s \in Nat
    PROVE  EpochOf(s + 1) = EpochOf(s) + IF Starts(s + 1) THEN 1 ELSE 0
<1>1. /\ EpochOf(s) \in Nat /\ s % EpochLength \in 0..(EpochLength - 1)
      /\ s = EpochOf(s) * EpochLength + (s % EpochLength)
  BY EpochAndSlot
<1>2. /\ EpochOf(s + 1) \in Nat /\ (s + 1) % EpochLength \in 0..(EpochLength - 1)
      /\ s + 1 = EpochOf(s + 1) * EpochLength + ((s + 1) % EpochLength)
  BY EpochAndSlot
<1>3. EpochLength \in Nat \ {0}
  BY StoreAssumption
<1>. DEFINE q == EpochOf(s)  r == s % EpochLength
            p == EpochOf(s + 1)  t == (s + 1) % EpochLength
<1>4. p = q + IF t = 0 THEN 1 ELSE 0
  <2>. HIDE DEF q, r, p, t
  <2>1. /\ q \in Nat /\ r \in 0..(EpochLength - 1) /\ s = q * EpochLength + r
        /\ p \in Nat /\ t \in 0..(EpochLength - 1) /\ s + 1 = p * EpochLength + t
    BY <1>1, <1>2 DEF q, r, p, t
  <2>. QED  BY <1>3, <2>1, NextQuotient
<1>. QED  BY <1>4 DEF Starts

DoneUpTo(contents) ==
    /\ \A p \in 2..4 :
          contents.done[p] = EpochOf(contents.tip) + IF contents.progress >= p THEN 1 ELSE 0
    /\ contents.progress # 1 => Starts(contents.tip + 1)

\* The first block of the epoch is in, and the progress still to be cleared.
Uncleared == tx.tip # disk.tip /\ tx.progress = 4 /\ Starts(tx.tip)

TransitionsInv ==
    /\ DoneUpTo(disk)
    /\ HasTx => IF Uncleared THEN \A p \in 2..4 : tx.done[p] = EpochOf(tx.tip)
                             ELSE DoneUpTo(tx)

LEMMA EpochStepEffect ==
    ASSUME IInv, NEW to \in 2..4, NEW isDormant \in BOOLEAN, EpochStep(to, isDormant)
    PROVE  \/ UNCHANGED <<disk, tx, memory>>
           \/ /\ tx.tip = disk.tip /\ Starts(tx.tip + 1) /\ tx.progress = to - 1
              /\ tx' = [tip      |-> tx.tip,
                        progress |-> to,
                        dormant  |-> IF isDormant THEN tx.dormant + 1 ELSE tx.dormant,
                        validity |-> tx.validity,
                        applied  |-> tx.applied,
                        done     |-> [tx.done EXCEPT ![to] = @ + 1]]
              /\ memory' = IF isDormant THEN tx.dormant + 1 ELSE memory
              /\ isDormant => to = 4
              /\ UNCHANGED disk
<1>1. tx \in Shape
  BY ShapeOfTx DEF IInv, EpochStep
<1>2. CASE tx.progress # to - 1
  BY <1>2 DEF EpochStep, TryEpochTransition
<1>3. CASE tx.progress = to - 1
  <2>1. /\ TryEpochTransition(to - 1, to) = [tx EXCEPT !.progress = to]
        /\ TryEpochTransition(to - 1, to).progress = to
    BY <1>1, <1>3 DEF TryEpochTransition, Shape
  <2>2. TryEpochTransition(to - 1, to) # tx
    BY <1>3, <2>1
  <2>. QED  BY <1>3, <2>1, <2>2 DEF EpochStep
<1>. QED  BY <1>2, <1>3

LEMMA ClearProgressEffect ==
    ASSUME IInv, ClearProgress
    PROVE  /\ tx \in Shape /\ tx.progress = 4 /\ Starts(tx.tip) /\ tx.tip # disk.tip
           /\ tx' = [tx EXCEPT !.progress = 1]
           /\ UNCHANGED <<disk, memory>>
BY ShapeOfTx DEF IInv, ClearProgress, TryEpochTransition

\* A block that is not known is the next one, and the first of its transaction.
LEMMA SaveEffect ==
    ASSUME IInv, NEW slot \in Slots, NEW renewed \in SUBSET Dreps, NEW proposes \in BOOLEAN,
           Save(slot, renewed, proposes)
    PROVE  \/ UNCHANGED <<disk, tx, memory>>
           \/ /\ tx \in Shape /\ tx.tip = disk.tip /\ slot = tx.tip + 1
              /\ Starts(slot) => tx.progress = 4
              /\ SaveNew(slot, renewed, proposes)
              /\ UNCHANGED disk
<1>1. tx \in Shape /\ disk \in Shape
  BY ShapeOfTx DEF IInv, ShapeOK, Save
<1>2. tx.tip \in Nat /\ disk.tip \in Nat /\ slot \in Nat
  BY <1>1 DEF Shape, Slots
<1>3. CASE AlreadyKnown(slot)
  BY <1>3 DEF Save
<1>4. CASE ~AlreadyKnown(slot)
  <2>1. slot > tx.tip /\ slot <= disk.tip + 1
    BY <1>2, <1>4 DEF AlreadyKnown, Save
  <2>2. tx.tip = disk.tip \/ tx.tip = disk.tip + 1
    BY DEF IInv, BlocksInv, Save
  <2>3. tx.tip = disk.tip /\ slot = tx.tip + 1
    BY <1>2, <2>1, <2>2
  <2>. QED  BY <1>1, <1>4, <2>1, <2>3 DEF Save
<1>. QED  BY <1>3, <1>4

\* The three steps have been taken before a block is new, and not again.
LEMMA DoneAtSave ==
    ASSUME NEW c \in Shape, DoneUpTo(c), Starts(c.tip + 1) => c.progress = 4
    PROVE  /\ c.progress = 4 \/ c.progress = 1
           /\ \A p \in 2..4 : c.done[p] = EpochOf(c.tip + 1)
<1>1. c.tip \in Nat /\ c.progress \in 1..4
  BY DEF Shape, Progress
<1>2. EpochOf(c.tip + 1) = EpochOf(c.tip) + IF Starts(c.tip + 1) THEN 1 ELSE 0
  BY <1>1, EpochOfNext
<1>3. EpochOf(c.tip) \in Nat
  BY <1>1, EpochAndSlot
<1>4. CASE Starts(c.tip + 1)
  BY <1>2, <1>3, <1>4 DEF DoneUpTo
<1>5. CASE ~Starts(c.tip + 1)
  BY <1>2, <1>3, <1>5 DEF DoneUpTo
<1>. QED  BY <1>4, <1>5

LEMMA TransitionsInTx ==
    ASSUME IInv, TransitionsInv, InTx
    PROVE  TransitionsInv'
<1>1. HasTx /\ HasTx' /\ disk \in Shape /\ tx \in Shape /\ disk' = disk
  BY InTxHasTx, ShapeOfTx DEF IInv, ShapeOK, InTx, EpochStep, ClearProgress, Save
<1>2. DoneUpTo(disk)'
  BY <1>1 DEF TransitionsInv, DoneUpTo
<1>3. CASE UNCHANGED tx
  BY <1>1, <1>3 DEF TransitionsInv, DoneUpTo, Uncleared
<1>4. ASSUME NEW to \in 2..4, NEW isDormant \in BOOLEAN, EpochStep(to, isDormant)
      PROVE  UNCHANGED tx \/ (~Uncleared' /\ DoneUpTo(tx)')
  <2>. SUFFICES ASSUME ~UNCHANGED tx PROVE ~Uncleared' /\ DoneUpTo(tx)'
    OBVIOUS
  <2>1. /\ tx.tip = disk.tip /\ Starts(tx.tip + 1) /\ tx.progress = to - 1
        /\ tx'.tip = tx.tip /\ tx'.progress = to
        /\ tx'.done = [tx.done EXCEPT ![to] = @ + 1]
    BY <1>4, EpochStepEffect
  <2>2. DoneUpTo(tx)
    BY <1>1, <2>1 DEF TransitionsInv, Uncleared
  <2>3. EpochOf(tx.tip) \in Nat /\ tx.done \in [2..4 -> Nat]
    BY <1>1, EpochAndSlot DEF Shape
  <2>4. \A p \in 2..4 : tx'.done[p] = EpochOf(tx.tip) + IF to >= p THEN 1 ELSE 0
    <3>. TAKE p \in 2..4
    <3>1. tx.done[p] = EpochOf(tx.tip) + IF to - 1 >= p THEN 1 ELSE 0
      BY <2>1, <2>2 DEF DoneUpTo
    <3>2. CASE p = to
      BY <2>1, <2>3, <3>1, <3>2
    <3>3. CASE p # to
      BY <2>1, <2>3, <3>1, <3>3
    <3>. QED  BY <3>2, <3>3
  <2>. QED  BY <1>1, <2>1, <2>4 DEF DoneUpTo, Uncleared
<1>5. ASSUME ClearProgress
      PROVE  ~Uncleared' /\ DoneUpTo(tx)'
  <2>1. /\ tx.progress = 4 /\ Starts(tx.tip) /\ tx.tip # disk.tip
        /\ tx'.progress = 1 /\ tx'.tip = tx.tip /\ tx'.done = tx.done
    BY <1>1, <1>5, ClearProgressEffect DEF Shape
  <2>2. \A p \in 2..4 : tx.done[p] = EpochOf(tx.tip)
    BY <1>1, <2>1 DEF TransitionsInv, Uncleared
  <2>3. EpochOf(tx.tip) \in Nat
    BY <1>1, EpochAndSlot DEF Shape
  <2>. QED  BY <2>1, <2>2, <2>3 DEF DoneUpTo, Uncleared
<1>6. ASSUME NEW slot \in Slots, NEW renewed \in SUBSET Dreps, NEW proposes \in BOOLEAN,
             Save(slot, renewed, proposes)
      PROVE  UNCHANGED tx \/ (IF Uncleared' THEN \A p \in 2..4 : tx'.done[p] = EpochOf(tx'.tip)
                                            ELSE DoneUpTo(tx)')
  <2>. SUFFICES ASSUME ~UNCHANGED tx
                PROVE  IF Uncleared' THEN \A p \in 2..4 : tx'.done[p] = EpochOf(tx'.tip)
                                     ELSE DoneUpTo(tx)'
    OBVIOUS
  <2>1. /\ tx.tip = disk.tip /\ slot = tx.tip + 1 /\ (Starts(slot) => tx.progress = 4)
        /\ tx'.tip = slot /\ tx'.progress = tx.progress /\ tx'.done = tx.done
    BY <1>6, SaveEffect DEF SaveNew
  <2>2. DoneUpTo(tx)
    BY <1>1, <2>1 DEF TransitionsInv, Uncleared
  <2>3. /\ tx.progress = 4 \/ tx.progress = 1
        /\ \A p \in 2..4 : tx'.done[p] = EpochOf(tx'.tip)
    BY <1>1, <2>1, <2>2, DoneAtSave
  <2>4. CASE Uncleared'
    BY <2>3, <2>4
  <2>5. CASE ~Uncleared'
    <3>1. tx'.tip # disk'.tip
      BY <1>1, <2>1 DEF Shape
    <3>2. tx'.progress = 1
      <4>1. CASE tx.progress = 4
        <5>1. Starts(tx'.tip)
          BY <2>1, <2>2, <4>1 DEF DoneUpTo
        <5>. QED  BY <2>1, <2>5, <3>1, <4>1, <5>1 DEF Uncleared
      <4>. QED  BY <2>1, <2>3, <4>1
    <3>3. EpochOf(tx'.tip) \in Nat
      BY <2>1, EpochAndSlot DEF Slots
    <3>4. DoneUpTo(tx)'
      BY <2>3, <3>2, <3>3 DEF DoneUpTo
    <3>. QED  BY <2>5, <3>4
  <2>. QED  BY <2>4, <2>5
<1>. QED
  BY <1>1, <1>2, <1>3, <1>4, <1>5, <1>6 DEF InTx, TransitionsInv

LEMMA TransitionsInvariant ==
    ASSUME IInv, TransitionsInv, [Next]_vars
    PROVE  TransitionsInv'
<1>1. CASE CreateTransaction
  <2>1. disk' = disk /\ (HasTx' => tx' = disk)
    BY <1>1 DEF CreateTransaction, Ready, HasTx
  <2>. QED  BY <2>1 DEF TransitionsInv, DoneUpTo, Uncleared
<1>2. CASE Commit
  <2>1. ~HasTx' /\ HasTx /\ ~Uncleared
    BY <1>2 DEF Commit, HasTx, ProgressIsCleared, Uncleared
  <2>2. disk' = tx \/ disk' = disk
    BY <1>2 DEF Commit, CommitWorks, CommitFails
  <2>. QED  BY <2>1, <2>2 DEF TransitionsInv, DoneUpTo
<1>3. CASE Rollback \/ Drop \/ Crash
  <2>1. ~HasTx' /\ disk' = disk
    BY <1>3 DEF Rollback, Drop, Crash, HasTx
  <2>. QED  BY <2>1 DEF TransitionsInv, DoneUpTo
<1>4. CASE InTx
  BY <1>4, TransitionsInTx
<1>5. CASE Restart \/ UNCHANGED vars
  <2>1. UNCHANGED <<disk, tx>>
    BY <1>5 DEF Restart, vars
  <2>. QED  BY <2>1 DEF TransitionsInv, DoneUpTo, Uncleared, HasTx
<1>. QED  BY <1>1, <1>2, <1>3, <1>4, <1>5 DEF Next, InTx

LEMMA TransitionsAreKept == Spec => []TransitionsInv
<1>1. Init => TransitionsInv
  <2>. SUFFICES ASSUME Init PROVE TransitionsInv
    OBVIOUS
  <2>1. ~HasTx /\ disk.tip = 0 /\ disk.progress = 1 /\ \A p \in 2..4 : disk.done[p] = 0
    BY DEF Init, HasTx
  <2>2. EpochOf(0) = 0
    BY StoreAssumption DEF EpochOf
  <2>. QED  BY <2>1, <2>2 DEF TransitionsInv, DoneUpTo
<1>. QED  BY <1>1, Invariance, TransitionsInvariant, PTL DEF Spec

\* Every step of every epoch transition is done once, in every reachable state.
THEOREM TransitionsOnce == Spec => []TransitionsAreDoneOnce
<1>1. TransitionsInv => TransitionsAreDoneOnce
  BY DEF TransitionsInv, DoneUpTo, TransitionsAreDoneOnce
<1>. QED  BY <1>1, TransitionsAreKept, PTL

-----------------------------------------------------------------------------
(* The dormant epochs and the validity of the DReps.                       *)

\* The caller counts no more dormant epochs than have passed.
DormantInv ==
    /\ disk.dormant <= disk.done[4]
    /\ HasTx => tx.dormant <= tx.done[4]
    /\ memory <= EpochOf(disk.tip) + 1

\* A renewal is not earlier than the first epoch.
ValidityInv ==
    /\ disk.validity \in [Dreps -> Nat]
    /\ HasTx => tx.validity \in [Dreps -> Nat]

\* What the invariants below speak of.
LEMMA ContentsTypes ==
    ASSUME NEW c \in Shape
    PROVE  /\ c.tip \in Nat /\ c.dormant \in Nat /\ c.done[4] \in Nat
           /\ c.validity \in [Dreps -> Int] /\ EpochOf(c.tip) \in Nat
BY EpochAndSlot DEF Shape

LEMMA DoneBound ==
    ASSUME NEW c \in Shape, DoneUpTo(c)
    PROVE  c.done[4] <= EpochOf(c.tip) + 1
BY ContentsTypes DEF DoneUpTo

LEMMA EpochOfTx ==
    ASSUME IInv, HasTx
    PROVE  EpochOf(disk.tip) <= EpochOf(tx.tip)
<1>1. disk \in Shape /\ tx \in Shape
  BY ShapeOfTx DEF IInv, ShapeOK
<1>2. tx.tip = disk.tip \/ tx.tip = disk.tip + 1
  BY DEF IInv, BlocksInv
<1>. QED  BY <1>1, <1>2, ContentsTypes, EpochOfNext

LEMMA DormantInTx ==
    ASSUME IInv, TransitionsInv, DormantInv, InTx
    PROVE  DormantInv'
<1>1. /\ HasTx /\ disk \in Shape /\ tx \in Shape /\ disk' = disk /\ memory \in Nat
      /\ tx' \in Shape
  BY ShapeOfTx, InTxShape DEF IInv, ShapeOK, InTx, EpochStep, ClearProgress, Save
<1>2. tx.dormant <= tx.done[4] /\ memory <= EpochOf(disk.tip) + 1
  BY <1>1 DEF DormantInv
<1>. SUFFICES tx'.dormant <= tx'.done[4] /\ memory' <= EpochOf(disk.tip) + 1
  BY <1>1 DEF DormantInv
<1>3. ASSUME NEW to \in 2..4, NEW isDormant \in BOOLEAN, EpochStep(to, isDormant)
      PROVE  tx'.dormant <= tx'.done[4] /\ memory' <= EpochOf(disk.tip) + 1
  <2>1. CASE UNCHANGED <<tx, memory>>
    BY <1>2, <2>1
  <2>2. CASE /\ tx.tip = disk.tip /\ tx.progress = to - 1
             /\ tx'.dormant = IF isDormant THEN tx.dormant + 1 ELSE tx.dormant
             /\ tx'.done = [tx.done EXCEPT ![to] = @ + 1]
             /\ memory' = IF isDormant THEN tx.dormant + 1 ELSE memory
             /\ isDormant => to = 4
    <3>1. tx.done \in [2..4 -> Nat] /\ tx.dormant \in Nat /\ EpochOf(tx.tip) \in Nat
      BY <1>1, EpochAndSlot DEF Shape
    <3>2. CASE to = 4
      <4>1. tx.done[4] = EpochOf(tx.tip)
        BY <1>1, <2>2, <3>1, <3>2 DEF TransitionsInv, Uncleared, DoneUpTo
      <4>. QED  BY <1>2, <2>2, <3>1, <3>2, <4>1
    <3>3. CASE to # 4
      BY <1>2, <2>2, <3>1, <3>3
    <3>. QED  BY <3>2, <3>3
  <2>. QED  BY <1>3, <2>1, <2>2, EpochStepEffect
<1>4. CASE ClearProgress
  <2>1. tx'.dormant = tx.dormant /\ tx'.done = tx.done /\ memory' = memory
    BY <1>4, ClearProgressEffect DEF Shape
  <2>. QED  BY <1>2, <2>1
<1>5. ASSUME NEW slot \in Slots, NEW renewed \in SUBSET Dreps, NEW proposes \in BOOLEAN,
             Save(slot, renewed, proposes)
      PROVE  tx'.dormant <= tx'.done[4] /\ memory' <= EpochOf(disk.tip) + 1
  <2>1. CASE UNCHANGED <<tx, memory>>
    BY <1>2, <2>1
  <2>2. CASE SaveNew(slot, renewed, proposes)
    <3>1. /\ tx'.done = tx.done
          /\ tx'.dormant = 0 \/ tx'.dormant = tx.dormant
          /\ memory' = 0 \/ memory' = memory
      BY <2>2 DEF SaveNew
    <3>. QED  BY <1>1, <1>2, <3>1, ContentsTypes
  <2>. QED  BY <1>5, <2>1, <2>2, SaveEffect
<1>. QED  BY <1>3, <1>4, <1>5 DEF InTx

LEMMA DormantInvariant ==
    ASSUME IInv, TransitionsInv, DormantInv, [Next]_vars
    PROVE  DormantInv'
<1>1. disk \in Shape
  BY DEF IInv, ShapeOK
<1>2. CASE CreateTransaction
  <2>1. UNCHANGED <<disk, memory>> /\ (HasTx' => tx' = disk)
    BY <1>2 DEF CreateTransaction, Ready, HasTx
  <2>. QED  BY <2>1 DEF DormantInv
<1>3. CASE Commit
  <2>1. ~HasTx' /\ HasTx /\ memory' = memory
    BY <1>3 DEF Commit, HasTx
  <2>2. disk' = tx \/ disk' = disk
    BY <1>3 DEF Commit, CommitWorks, CommitFails
  <2>3. tx \in Shape /\ EpochOf(disk.tip) <= EpochOf(tx.tip)
    BY <2>1, ShapeOfTx, EpochOfTx DEF IInv
  <2>4. memory \in Nat /\ EpochOf(disk.tip) \in Nat /\ EpochOf(tx.tip) \in Nat
    BY <1>1, <2>3, ContentsTypes DEF IInv, ShapeOK
  <2>. QED  BY <2>1, <2>2, <2>3, <2>4 DEF DormantInv
<1>4. CASE Rollback \/ Drop \/ Crash
  <2>1. ~HasTx' /\ UNCHANGED <<disk, memory>>
    BY <1>4 DEF Rollback, Drop, Crash, HasTx
  <2>. QED  BY <2>1 DEF DormantInv
<1>5. CASE InTx
  BY <1>5, DormantInTx
<1>6. CASE Restart
  <2>1. UNCHANGED <<disk, tx>> /\ memory' = disk.dormant
    BY <1>6 DEF Restart
  <2>2. disk.dormant <= EpochOf(disk.tip) + 1
    BY <1>1, DoneBound, ContentsTypes DEF DormantInv, TransitionsInv
  <2>. QED  BY <2>1, <2>2 DEF DormantInv, HasTx
<1>7. CASE UNCHANGED vars
  BY <1>7 DEF vars, DormantInv, HasTx
<1>. QED  BY <1>2, <1>3, <1>4, <1>5, <1>6, <1>7 DEF Next, InTx

LEMMA ValidityInvariant ==
    ASSUME IInv, DormantInv, ValidityInv, [Next]_vars
    PROVE  ValidityInv'
<1>1. CASE CreateTransaction
  <2>1. UNCHANGED disk /\ (HasTx' => tx' = disk)
    BY <1>1 DEF CreateTransaction, Ready, HasTx
  <2>. QED  BY <2>1 DEF ValidityInv
<1>2. CASE Commit
  BY <1>2 DEF Commit, CommitWorks, CommitFails, HasTx, ValidityInv
<1>3. CASE Rollback \/ Drop \/ Crash
  BY <1>3 DEF Rollback, Drop, Crash, HasTx, ValidityInv
<1>4. ASSUME NEW to \in 2..4, NEW isDormant \in BOOLEAN, EpochStep(to, isDormant)
      PROVE  ValidityInv'
  <2>1. HasTx /\ disk' = disk /\ tx'.validity = tx.validity
    BY <1>4, EpochStepEffect DEF EpochStep
  <2>. QED  BY <2>1 DEF ValidityInv
<1>5. CASE ClearProgress
  <2>1. HasTx /\ disk' = disk /\ tx'.validity = tx.validity
    BY <1>5, ClearProgressEffect DEF ClearProgress, Shape
  <2>. QED  BY <2>1 DEF ValidityInv
<1>6. ASSUME NEW slot \in Slots, NEW renewed \in SUBSET Dreps, NEW proposes \in BOOLEAN,
             Save(slot, renewed, proposes)
      PROVE  ValidityInv'
  <2>1. HasTx /\ disk' = disk /\ tx.validity \in [Dreps -> Nat] /\ disk \in Shape
    BY <1>6 DEF Save, ValidityInv, IInv, ShapeOK
  <2>2. CASE UNCHANGED tx
    BY <2>1, <2>2 DEF ValidityInv, HasTx
  <2>3. CASE /\ tx \in Shape /\ tx.tip = disk.tip /\ slot = tx.tip + 1
             /\ SaveNew(slot, renewed, proposes)
    <3>. DEFINE v == Renew(slot, renewed)
    <3>1. EpochOf(slot) \in Nat /\ EpochOf(slot) >= EpochOf(disk.tip)
          /\ EpochOf(disk.tip) \in Nat
      BY <2>1, <2>3, ContentsTypes, EpochOfNext
    <3>2. memory \in Nat /\ memory <= EpochOf(disk.tip) + 1
      BY DEF IInv, ShapeOK, DormantInv
    <3>3. DrepValidity(slot) \in Nat
      BY <3>1, <3>2, StoreAssumption DEF DrepValidity
    <3>4. v \in [Dreps -> Nat]
      BY <2>1, <3>3 DEF Renew
    <3>5. Flush(slot, v) \in [Dreps -> Nat]
      BY <3>1, <3>2, <3>4 DEF Flush
    <3>6. tx'.validity = v \/ tx'.validity = Flush(slot, v)
      BY <2>3 DEF SaveNew
    <3>. QED  BY <2>1, <3>4, <3>5, <3>6 DEF ValidityInv
  <2>. QED  BY <1>6, <2>2, <2>3, SaveEffect
<1>7. CASE Restart \/ UNCHANGED vars
  BY <1>7 DEF Restart, vars, ValidityInv, HasTx
<1>. QED  BY <1>1, <1>2, <1>3, <1>4, <1>5, <1>6, <1>7 DEF Next

LEMMA DormantAndValidity == Spec => [](DormantInv /\ ValidityInv)
<1>1. Init => DormantInv /\ ValidityInv
  <2>. SUFFICES ASSUME Init PROVE DormantInv /\ ValidityInv
    OBVIOUS
  <2>1. /\ ~HasTx /\ disk.tip = 0 /\ disk.dormant = 0 /\ disk.done[4] = 0 /\ memory = 0
        /\ disk.validity = [d \in Dreps |-> DrepExpiry]
    BY DEF Init, HasTx
  <2>2. EpochOf(0) = 0
    BY StoreAssumption DEF EpochOf
  <2>. QED  BY <2>1, <2>2, StoreAssumption DEF DormantInv, ValidityInv
<1>2. IInv /\ TransitionsInv /\ (DormantInv /\ ValidityInv) /\ [Next]_vars
         => (DormantInv /\ ValidityInv)'
  BY DormantInvariant, ValidityInvariant
<1>. QED  BY <1>1, <1>2, Invariance, TransitionsAreKept, PTL DEF Spec

\* The history variable that IInv leaves out.
LEMMA DroppedType == Spec => [](dropped \in BOOLEAN)
<1>1. Init => dropped \in BOOLEAN
  BY DEF Init
<1>2. dropped \in BOOLEAN /\ [Next]_vars => (dropped \in BOOLEAN)'
  BY DEF Next, CreateTransaction, Commit, Rollback, Drop, EpochStep, ClearProgress,
         Save, Crash, Restart, vars
<1>. QED  BY <1>1, <1>2, PTL DEF Spec

LEMMA ContentsOfShape ==
    ASSUME NEW c \in Shape, c.validity \in [Dreps -> Nat]
    PROVE  c \in Contents
BY DEF Shape, Contents

\* The variables have their types in every reachable state; above all, no
\* renewal makes a validity negative, whatever the caller's counter holds after
\* a transaction was lost.
THEOREM StoreTypes == Spec => []TypeOK
<1>1. IInv /\ ValidityInv /\ dropped \in BOOLEAN => TypeOK
  <2>. SUFFICES ASSUME IInv, ValidityInv, dropped \in BOOLEAN PROVE TypeOK
    OBVIOUS
  <2>1. disk \in Contents
    BY ContentsOfShape DEF IInv, ShapeOK, ValidityInv
  <2>2. tx \in Contents \cup {NoTx}
    BY ContentsOfShape, ShapeOfTx DEF IInv, ValidityInv, HasTx
  <2>. QED  BY <2>1, <2>2 DEF IInv, ShapeOK, TypeOK
<1>. QED  BY <1>1, Invariance, DormantAndValidity, DroppedType, PTL

-----------------------------------------------------------------------------
(* The expiry of the DReps.                                                *)

\* No DRep outlives the renewal a block of the current epoch would give it.
Bounded(contents) ==
    \A d \in Dreps : Expiry(contents, d) <= contents.done[4] + DrepExpiry

ExpiryInv ==
    /\ torn # "kept" => Bounded(disk)
    /\ torn = "no" /\ HasTx =>
          /\ Bounded(tx)
          /\ \A d \in Dreps : Expiry(disk, d) >= EpochOf(tx.tip)
                                 => Expiry(tx, d) >= Expiry(disk, d)

LEMMA ExpiryType ==
    ASSUME NEW c \in Shape, NEW d \in Dreps
    PROVE  Expiry(c, d) \in Int /\ Expiry(c, d) = c.validity[d] + c.dormant
BY ContentsTypes DEF Expiry

\* What a new block does to the expiry of one DRep, the caller's counter being
\* the one of its transaction.
LEMMA SaveExpiry ==
    ASSUME IInv, DormantInv, NEW slot \in Slots, NEW renewed \in SUBSET Dreps,
           NEW proposes \in BOOLEAN, SaveNew(slot, renewed, proposes),
           tx \in Shape, tx' \in Shape, memory = tx.dormant, NEW d \in Dreps
    PROVE  \/ d \in renewed /\ Expiry(tx', d) = EpochOf(slot) + DrepExpiry
           \/ d \notin renewed /\ Expiry(tx', d) = Expiry(tx, d)
           \/ /\ d \notin renewed /\ Expiry(tx, d) < EpochOf(slot)
              /\ Expiry(tx', d) <= Expiry(tx, d)
<1>. DEFINE v == Renew(slot, renewed)
<1>1. /\ EpochOf(slot) \in Nat /\ memory \in Nat /\ DrepExpiry \in Nat
      /\ tx.validity \in [Dreps -> Int] /\ tx.validity[d] \in Int
  <2>1. EpochOf(slot) \in Nat
    BY EpochAndSlot DEF Slots
  <2>2. tx.validity \in [Dreps -> Int]
    BY ContentsTypes
  <2>. QED  BY <2>1, <2>2, StoreAssumption DEF IInv, ShapeOK
<1>2. v[d] = IF d \in renewed THEN EpochOf(slot) + DrepExpiry - memory
                              ELSE tx.validity[d]
  BY DEF Renew, DrepValidity
<1>3. Flush(slot, v)[d] = IF v[d] + memory >= EpochOf(slot) THEN v[d] + memory ELSE v[d]
  BY DEF Flush
<1>4. Expiry(tx, d) = tx.validity[d] + memory
  BY ExpiryType
<1>5. Expiry(tx', d) = tx'.validity[d] + tx'.dormant
  BY ExpiryType
<1>. HIDE DEF v
<1>6. CASE memory > 0 /\ proposes
  <2>1. tx'.validity = Flush(slot, v) /\ tx'.dormant = 0
    BY <1>6 DEF SaveNew, v
  <2>2. CASE d \in renewed
    BY <1>1, <1>2, <1>3, <1>5, <2>1, <2>2
  <2>3. CASE d \notin renewed
    BY <1>1, <1>2, <1>3, <1>4, <1>5, <2>1, <2>3
  <2>. QED  BY <2>2, <2>3
<1>7. CASE ~(memory > 0 /\ proposes)
  <2>1. tx'.validity = v /\ tx'.dormant = memory
    BY <1>7 DEF SaveNew, v
  <2>. QED  BY <1>1, <1>2, <1>4, <1>5, <2>1
<1>. QED  BY <1>6, <1>7

LEMMA ExpiryInTx ==
    ASSUME IInv, TransitionsInv, DormantInv, ExpiryInv, InTx
    PROVE  ExpiryInv'
<1>1. /\ HasTx /\ HasTx' /\ disk \in Shape /\ tx \in Shape /\ tx' \in Shape
      /\ disk' = disk /\ torn' = torn /\ process = "up"
  BY ShapeOfTx, InTxShape, InTxHasTx
     DEF IInv, ShapeOK, FlagInv, InTx, EpochStep, ClearProgress, Save
<1>2. (torn # "kept" => Bounded(disk))'
  BY <1>1 DEF ExpiryInv, Bounded, Expiry
<1>3. SUFFICES ASSUME torn = "no"
               PROVE  /\ Bounded(tx')
                      /\ \A d \in Dreps : Expiry(disk, d) >= EpochOf(tx'.tip)
                                             => Expiry(tx', d) >= Expiry(disk, d)
  <2>1. HasTx' /\ disk' = disk /\ torn' = torn
    BY <1>1
  <2>. QED  BY <1>2, <2>1 DEF ExpiryInv, Bounded, Expiry
<1>4. /\ memory = tx.dormant
      /\ Bounded(disk) /\ Bounded(tx)
      /\ \A d \in Dreps : Expiry(disk, d) >= EpochOf(tx.tip)
                             => Expiry(tx, d) >= Expiry(disk, d)
  BY <1>1, <1>3 DEF IInv, MemoryInv, ExpiryInv
<1>5. DrepExpiry \in Nat /\ \A d \in Dreps : Expiry(tx, d) \in Int /\ Expiry(disk, d) \in Int
  BY <1>1, ExpiryType, StoreAssumption
<1>6. CASE UNCHANGED tx
  BY <1>4, <1>6
<1>7. ASSUME NEW to \in 2..4, NEW isDormant \in BOOLEAN, EpochStep(to, isDormant),
             ~UNCHANGED tx
      PROVE  /\ Bounded(tx')
             /\ \A d \in Dreps : Expiry(disk, d) >= EpochOf(tx'.tip)
                                    => Expiry(tx', d) >= Expiry(disk, d)
  <2>1. /\ tx'.tip = tx.tip /\ tx'.validity = tx.validity
        /\ tx'.dormant = IF isDormant THEN tx.dormant + 1 ELSE tx.dormant
        /\ tx'.done = [tx.done EXCEPT ![to] = @ + 1]
        /\ isDormant => to = 4
    BY <1>7, EpochStepEffect
  <2>2. tx.done \in [2..4 -> Nat] /\ tx.dormant \in Nat /\ tx.done[4] \in Nat
        /\ EpochOf(tx.tip) \in Nat
    BY <1>1, ContentsTypes DEF Shape
  <2>3. tx'.done[4] = IF to = 4 THEN tx.done[4] + 1 ELSE tx.done[4]
    BY <2>1, <2>2
  <2>4. \A d \in Dreps : Expiry(tx', d) = Expiry(tx, d) + IF isDormant THEN 1 ELSE 0
    <3>. TAKE d \in Dreps
    <3>1. tx.validity[d] \in Int
      BY <1>1, ContentsTypes
    <3>. QED  BY <2>1, <2>2, <3>1 DEF Expiry
  <2>5. Bounded(tx')
    BY <1>4, <1>5, <2>1, <2>2, <2>3, <2>4 DEF Bounded
  <2>. QED  BY <1>4, <1>5, <2>1, <2>2, <2>4, <2>5
<1>8. ASSUME ClearProgress
      PROVE  /\ Bounded(tx')
             /\ \A d \in Dreps : Expiry(disk, d) >= EpochOf(tx'.tip)
                                    => Expiry(tx', d) >= Expiry(disk, d)
  <2>1. /\ tx'.tip = tx.tip /\ tx'.validity = tx.validity
        /\ tx'.dormant = tx.dormant /\ tx'.done = tx.done
    BY <1>8, ClearProgressEffect DEF Shape
  <2>. QED  BY <1>4, <2>1 DEF Bounded, Expiry
<1>9. ASSUME NEW slot \in Slots, NEW renewed \in SUBSET Dreps, NEW proposes \in BOOLEAN,
             Save(slot, renewed, proposes), ~UNCHANGED tx
      PROVE  /\ Bounded(tx')
             /\ \A d \in Dreps : Expiry(disk, d) >= EpochOf(tx'.tip)
                                    => Expiry(tx', d) >= Expiry(disk, d)
  <2>1. /\ tx.tip = disk.tip /\ slot = tx.tip + 1 /\ (Starts(slot) => tx.progress = 4)
        /\ SaveNew(slot, renewed, proposes)
    BY <1>9, SaveEffect
  <2>2. tx'.tip = slot /\ tx'.done = tx.done
    BY <2>1 DEF SaveNew
  <2>3. DoneUpTo(tx) /\ DoneUpTo(disk)
    BY <1>1, <2>1 DEF TransitionsInv, Uncleared
  <2>4. /\ EpochOf(slot) \in Nat /\ EpochOf(tx.tip) \in Nat
        /\ EpochOf(slot) = EpochOf(tx.tip) + IF Starts(slot) THEN 1 ELSE 0
    BY <1>1, <2>1, ContentsTypes, EpochOfNext
  <2>5. tx.done[4] = EpochOf(slot)
    BY <1>1, <2>1, <2>3, DoneAtSave
  <2>6. disk.done[4] \in Nat /\ disk.done[4] <= EpochOf(slot)
    <3>1. disk.done[4] = EpochOf(disk.tip) + IF disk.progress >= 4 THEN 1 ELSE 0
      BY <2>3 DEF DoneUpTo
    <3>2. CASE Starts(slot)
      BY <2>1, <2>4, <3>1, <3>2
    <3>3. CASE ~Starts(slot)
      <4>1. disk.progress = 1
        BY <2>1, <2>3, <3>3 DEF DoneUpTo
      <4>. QED  BY <2>1, <2>4, <3>1, <3>3, <4>1
    <3>. QED  BY <3>2, <3>3
  <2>7. ASSUME NEW d \in Dreps
        PROVE  /\ Expiry(tx', d) <= EpochOf(slot) + DrepExpiry
               /\ Expiry(disk, d) >= EpochOf(slot) => Expiry(tx', d) >= Expiry(disk, d)
    <3>1. /\ Expiry(tx, d) <= EpochOf(slot) + DrepExpiry
          /\ Expiry(disk, d) <= EpochOf(slot) + DrepExpiry
      BY <1>4, <1>5, <2>4, <2>5, <2>6 DEF Bounded
    <3>2. Expiry(disk, d) >= EpochOf(slot) => Expiry(tx, d) >= Expiry(disk, d)
      BY <1>4, <1>5, <2>4
    <3>3. Expiry(tx', d) \in Int
      BY <1>1, ExpiryType
    <3>4. \/ Expiry(tx', d) = EpochOf(slot) + DrepExpiry
          \/ Expiry(tx', d) = Expiry(tx, d)
          \/ Expiry(tx, d) < EpochOf(slot) /\ Expiry(tx', d) <= Expiry(tx, d)
      BY <1>1, <1>4, <2>1, SaveExpiry
    <3>. QED  BY <1>5, <2>4, <3>1, <3>2, <3>3, <3>4
  <2>. QED  BY <2>2, <2>5, <2>7 DEF Bounded
<1>. QED  BY <1>6, <1>7, <1>8, <1>9 DEF InTx

LEMMA ExpiryInvariant ==
    ASSUME IInv, TransitionsInv, DormantInv, ExpiryInv, [Next]_vars
    PROVE  ExpiryInv'
<1>1. CASE CreateTransaction
  <2>1. UNCHANGED <<disk, torn>> /\ (HasTx' => tx' = disk)
    BY <1>1 DEF CreateTransaction, Ready, HasTx
  <2>2. disk \in Shape
    BY DEF IInv, ShapeOK
  <2>. QED  BY <2>1, <2>2, ExpiryType DEF ExpiryInv, Bounded, Expiry
<1>2. CASE Commit
  <2>1. ~HasTx' /\ HasTx
    BY <1>2 DEF Commit, HasTx
  <2>2. CASE torn' # "kept" /\ disk' # disk
    <3>1. torn = "no" /\ disk' = tx
      BY <1>2, <2>1, <2>2 DEF Commit, CommitWorks, CommitFails, IInv, ShapeOK
    <3>. QED  BY <2>1, <3>1 DEF ExpiryInv, Bounded, Expiry
  <2>3. CASE torn' # "kept" /\ disk' = disk
    <3>1. torn # "kept"
      BY <1>2, <2>3 DEF Commit, CommitWorks, CommitFails, Lose
    <3>. QED  BY <2>1, <2>3, <3>1 DEF ExpiryInv, Bounded, Expiry
  <2>4. CASE torn' = "kept"
    BY <2>1, <2>4 DEF ExpiryInv
  <2>. QED  BY <2>2, <2>3, <2>4
<1>3. CASE Rollback \/ Drop \/ Crash
  <2>1. ~HasTx' /\ disk' = disk /\ (torn' # "kept" => torn # "kept")
    BY <1>3 DEF Rollback, Drop, Crash, HasTx, Lose
  <2>. QED  BY <2>1 DEF ExpiryInv, Bounded, Expiry
<1>4. CASE InTx
  BY <1>4, ExpiryInTx
<1>5. CASE Restart
  <2>1. ~HasTx' /\ disk' = disk /\ (torn' # "kept" => torn # "kept")
    BY <1>5 DEF Restart, HasTx, IInv, FlagInv
  <2>. QED  BY <2>1 DEF ExpiryInv, Bounded, Expiry
<1>6. CASE UNCHANGED vars
  BY <1>6 DEF vars, ExpiryInv, Bounded, Expiry, HasTx
<1>. QED  BY <1>1, <1>2, <1>3, <1>4, <1>5, <1>6 DEF Next, InTx

LEMMA ExpiryIsKept == Spec => []ExpiryInv
<1>1. Init => ExpiryInv
  <2>. SUFFICES ASSUME Init PROVE ExpiryInv
    OBVIOUS
  <2>1. /\ ~HasTx /\ disk.dormant = 0 /\ disk.done[4] = 0
        /\ disk.validity = [d \in Dreps |-> DrepExpiry]
    BY DEF Init, HasTx
  <2>. QED  BY <2>1, StoreAssumption DEF ExpiryInv, Bounded, Expiry
<1>. QED
  BY <1>1, ExpiryInvariant, Invariance, TransitionsAreKept, DormantAndValidity, PTL DEF Spec

\* A commit never brings forward the expiry of a DRep that is active in the
\* block's epoch, until a transaction is lost.
THEOREM ActiveStayActive == Spec => ActiveDrepsStayActive
<1>1. ASSUME IInv, ExpiryInv, [Next]_vars, NEW d \in Dreps, torn' = "no",
             Expiry(disk, d) >= EpochOf(disk'.tip)
      PROVE  Expiry(disk', d) >= Expiry(disk, d)
  <2>1. disk \in Shape /\ Expiry(disk, d) \in Int
    BY <1>1, ExpiryType DEF IInv, ShapeOK
  <2>2. CASE disk' = disk
    <3>1. Expiry(disk', d) = Expiry(disk, d)
      BY <2>2
    <3>. QED  BY <2>1, <3>1
  <2>3. CASE disk' # disk
    <3>1. HasTx /\ torn = "no" /\ disk' = tx
      BY <1>1, <2>3 DEF Next, CreateTransaction, Commit, CommitWorks, CommitFails, Lose,
                        Rollback, Drop, EpochStep, ClearProgress, Save, Crash, Restart, vars
    <3>. QED  BY <1>1, <3>1 DEF ExpiryInv
  <2>. QED  BY <2>2, <2>3
<1>2. IInv /\ ExpiryInv /\ [Next]_vars =>
        [\A d \in Dreps :
            torn' = "no" /\ Expiry(disk, d) >= EpochOf(disk'.tip)
                => Expiry(disk', d) >= Expiry(disk, d)]_vars
  BY <1>1
<1>. QED  BY <1>2, Invariance, ExpiryIsKept, PTL DEF Spec, ActiveDrepsStayActive

=============================================================================
