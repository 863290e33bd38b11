----------------------------- MODULE EpochLedger -----------------------------
(***************************************************************************)
(* What the ledger's store promises across epochs: blocks one after the    *)
(* other and, between the last block of an epoch and the first of the      *)
(* next, a transition whose phases are never gone through twice.  The      *)
(* snapshot of an epoch is taken of the ledger at the end of that epoch,   *)
(* and the ledger does not move on without it.                             *)
(***************************************************************************)
EXTENDS Naturals

CONSTANT EpochLength

VARIABLES
    tip,        \* the last block
    phase,      \* 1 to 4: None, EpochEnded, SnapshotTaken, EpochStarted
    snapshots   \* the epochs that have the snapshot of their end

vars == <<tip, phase, snapshots>>

EpochOf(slot) == slot \div EpochLength
IsLast(slot) == (slot + 1) % EpochLength = 0
Snapshotted == EpochOf(tip) \in snapshots

Init == tip = 0 /\ phase = 1 /\ snapshots = {}

\* The next block; the first of an epoch clears the phase.
Block ==
    /\ IF IsLast(tip) THEN Snapshotted ELSE phase = 1
    /\ tip' = tip + 1
    /\ phase' = 1
    /\ UNCHANGED snapshots

\* One phase or more, in one commit.
Advance ==
    /\ IsLast(tip)
    /\ phase' \in (phase + 1)..4
    /\ phase' > 2 => Snapshotted
    /\ UNCHANGED <<tip, snapshots>>

\* Only at the end of the epoch; an attempt that did not make it to the next
\* phase is repeated.
TakeSnapshot ==
    /\ phase = 2
    /\ snapshots' = snapshots \cup {EpochOf(tip)}
    /\ UNCHANGED <<tip, phase>>

ForgetSnapshot ==
    /\ phase = 2
    /\ snapshots' = snapshots \ {EpochOf(tip)}
    /\ UNCHANGED <<tip, phase>>

Next == Block \/ Advance \/ TakeSnapshot \/ ForgetSnapshot

Spec == Init /\ [][Next]_vars
=============================================================================
