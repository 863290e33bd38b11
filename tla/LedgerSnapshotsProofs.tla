----------------------- MODULE LedgerSnapshotsProofs -----------------------
(***************************************************************************)
(* Proofs about the ledger's snapshots: a snapshot next_snapshot reported  *)
(* is exact, prune keeps what it must, and the store opens again unless a  *)
(* prune was interrupted.                                                  *)
(***************************************************************************)
EXTENDS LedgerSnapshots, FiniteSetTheorems, TLAPS

\* Where a call that works on a directory is: next_snapshot on the snapshot
\* being taken, which nobody has been told is complete.
AtTarget ==
    /\ doing \in {"remove", "checkpoint", "copy"} =>
           target = next /\ taken[next] = NoVersion
    /\ doing = "prune" /\ target # NoEpoch =>
           target < DesiredMinimum(minimum) /\ taken[target] = NoVersion
    /\ doing \in {"idle", "down"} => target = NoEpoch
    /\ doing = "prune" => minimum < next

\* A copy in progress only holds files of the live database, which nobody
\* writes during the call; a directory that does not exist holds nothing.
CopyIsLive ==
    /\ doing = "copy" =>
           target \in listed /\ \A f \in Files : files[target][f] \in {NoVersion, live}
    /\ \A e \in Epochs : e \notin listed => files[e] = Missing
    /\ doing \in {"checkpoint"} => target \notin listed

\* The listing has no gap at or above the epoch prunes may have cut below.
NoGap ==
    /\ \A e \in listed, g \in listed : CutBelow <= e => e..g \subseteq listed
    /\ \A e \in listed : e <= next
    /\ next - 1 \in listed
    /\ CutBelow < next
    /\ cutBelow < next

\* What prune has not visited yet is all that it has still to remove.
PruneRemaining ==
    doing = "prune" =>
        \A e \in listed : e < DesiredMinimum(minimum) => e \in todo \cup {target}

IInv ==
    /\ TypeOK
    /\ SnapshotsAreExact
    /\ AtTarget
    /\ CopyIsLive
    /\ NoGap
    /\ PruneRemaining

\* prune's lower bound is an epoch, and never above what it was asked for.
LEMMA DesiredMinimumBound ==
    ASSUME NEW m \in Epochs
    PROVE  /\ DesiredMinimum(m) \in Epochs
           /\ DesiredMinimum(m) <= m
           /\ \A e \in Epochs : e < DesiredMinimum(m) => e + MaxExtra < m
BY BoundsAssumption DEF DesiredMinimum, Epochs

\* A listing without gaps is one run, so the store opens on it.
LEMMA OneRunOpens ==
    ASSUME NEW S \in SUBSET Epochs, S # {},
           \A e \in S, g \in S : e..g \subseteq S
    PROVE  OpenOutcome(S) = "ok"
<1>1. Runs(S) = {S}
  BY DEF Runs
<1>2. Cardinality(Runs(S)) = 1
  BY <1>1, FS_Singleton
<1>. QED  BY <1>2 DEF OpenOutcome

LEMMA InitInvariant == Init => IInv
<1>. SUFFICES ASSUME Init PROVE IInv
  OBVIOUS
<1>1. PICK first \in Epochs, last \in Epochs :
        first <= last /\ last < MaxEpoch /\ Imported = first..last
  BY ImportedAssumption
<1>2. last + 1 \in Epochs /\ last + 1 - 1 \in Imported /\ last + 1 \notin Imported
  BY <1>1, BoundsAssumption DEF Epochs
<1>3. next \in Epochs /\ next - 1 \in Imported /\ next \notin Imported
  <2>. DEFINE After(e) == e - 1 \in Imported /\ e \notin Imported
              chosen == CHOOSE e \in Epochs : After(e)
  <2>1. \E e \in Epochs : After(e)
    <3>1. After(last + 1)
      BY <1>1, <1>2, BoundsAssumption DEF Epochs
    <3>. QED  BY <1>2, <3>1
  <2>2. chosen \in Epochs /\ After(chosen)
    <3>. HIDE DEF After, chosen
    <3>1. (CHOOSE e \in Epochs : After(e)) = chosen
      BY DEF chosen
    <3>. QED  BY <2>1, <3>1
  <2>3. next = chosen
    BY DEF Init
  <2>. HIDE DEF chosen
  <2>. QED  BY <2>2, <2>3
<1>4. next = last + 1
  BY <1>1, <1>3, BoundsAssumption DEF Epochs
<1>5. CutBelow = 0 /\ cutBelow = 0
  BY DEF Init, CutBelow
<1>6. TypeOK
  BY <1>1, <1>3, BoundsAssumption DEF Init, TypeOK, Epochs, Versions, NoVersion,
     AllOf, Missing, NoEpoch
<1>7. SnapshotsAreExact
  BY <1>1 DEF Init, SnapshotsAreExact, NoVersion
<1>8. AtTarget /\ CopyIsLive /\ PruneRemaining
  BY DEF Init, AtTarget, CopyIsLive, PruneRemaining
<1>9. NoGap
  <2>1. listed = first..last /\ first \in Int /\ last \in Int
    BY <1>1, BoundsAssumption DEF Init, Epochs
  <2>2. \A e \in listed, g \in listed : e..g \subseteq listed
    BY <2>1
  <2>3. \A e \in listed : e <= next
    BY <2>1, <1>4
  <2>4. next - 1 \in listed /\ 0 < next
    BY <2>1, <1>1, <1>4 DEF Epochs
  <2>. QED  BY <2>2, <2>3, <2>4, <1>5 DEF NoGap
<1>. QED  BY <1>6, <1>7, <1>8, <1>9 DEF IInv

\* Every step keeps the types.
LEMMA TypeInvariant ==
    ASSUME TypeOK, AtTarget, Next
    PROVE  TypeOK'
<1>. USE BoundsAssumption DEF Epochs, Versions, NoVersion, NoEpoch
<1>1. minimum \in Epochs /\ DesiredMinimum(minimum) \in Epochs
  BY DesiredMinimumBound DEF TypeOK
<1>2. CutBelow \in Epochs
  BY <1>1 DEF CutBelow, TypeOK
<1>3. CASE Open \/ Save \/ EpochStarted
  <2>1. CASE Open
    BY <2>1 DEF TypeOK, Open, disk
  <2>3. CASE Save
    <3>1. live' \in Versions
      BY <2>3 DEF TypeOK, Save
    <3>. QED  BY <2>3, <3>1 DEF TypeOK, Save, disk
  <2>2. CASE EpochStarted
    BY <2>2 DEF TypeOK, EpochStarted, disk
  <2>. QED  BY <1>3, <2>1, <2>2, <2>3
<1>4. CASE RemoveFile \/ RemoveDir
  <2>1. CASE RemoveFile
    <3>1. PICK f \in Files : files' = [files EXCEPT ![target][f] = NoVersion]
      BY <2>1 DEF RemoveFile
    <3>2. files' \in [Epochs -> [Files -> Versions \cup {NoVersion}]]
      BY <3>1 DEF TypeOK
    <3>. QED  BY <2>1, <3>2 DEF TypeOK, RemoveFile
  <2>2. CASE RemoveDir
    BY <2>2 DEF TypeOK, RemoveDir
  <2>. QED  BY <1>4, <2>1, <2>2
<1>5. CASE SnapshotStep
  <2>1. CASE NextSnapshot
    BY <2>1 DEF TypeOK, NextSnapshot, disk
  <2>2. CASE Checkpoint
    <3>1. target \in Epochs
      BY <2>2 DEF AtTarget, Checkpoint, TypeOK
    <3>. QED  BY <2>2, <3>1 DEF TypeOK, Checkpoint, AllOf
  <2>3. CASE CheckpointRefused
    <3>1. target \in Epochs
      BY <2>3 DEF AtTarget, CheckpointRefused, TypeOK
    <3>. QED  BY <2>3, <3>1 DEF TypeOK, CheckpointRefused
  <2>4. CASE CopyFile
    <3>1. PICK f \in Files : files' = [files EXCEPT ![target][f] = live]
      BY <2>4 DEF CopyFile
    <3>2. files' \in [Epochs -> [Files -> Versions \cup {NoVersion}]]
      BY <3>1 DEF TypeOK
    <3>. QED  BY <2>4, <3>2 DEF TypeOK, CopyFile
  <2>5. CASE CopyDone
    BY <2>5 DEF TypeOK, CopyDone, disk
  <2>. QED  BY <1>5, <2>1, <2>2, <2>3, <2>4, <2>5 DEF SnapshotStep
<1>6. CASE PruneStep
  BY <1>6 DEF TypeOK, PruneStep, Prune, PruneSkip, PruneRemove, PruneDone, disk
<1>7. CASE CallFails \/ Crash
  BY <1>2, <1>7 DEF TypeOK, CallFails, Crash, disk
<1>. QED  BY <1>3, <1>4, <1>5, <1>6, <1>7 DEF Next

\* A step neither mixes the files of two attempts nor touches a finished
\* snapshot without giving it up first.
LEMMA ExactInvariant ==
    ASSUME IInv, Next, TypeOK'
    PROVE  SnapshotsAreExact' /\ AtTarget' /\ CopyIsLive'
<1>. USE DEF IInv, Epochs, Versions, NoVersion, NoEpoch
<1>1. CASE Open \/ Save \/ EpochStarted
  BY <1>1 DEF TypeOK, SnapshotsAreExact, AtTarget, CopyIsLive, Open, Save,
     EpochStarted, disk
<1>2. CASE RemoveFile
  <2>1. target \in Epochs /\ taken[target] = NoVersion
    BY <1>2 DEF AtTarget, RemoveFile, TypeOK
  <2>2. PICK f \in Files :
          files[target][f] # NoVersion /\ files' = [files EXCEPT ![target][f] = NoVersion]
    BY <1>2 DEF RemoveFile
  <2>3. \A e \in Epochs : e # target => files'[e] = files[e]
    BY <2>2 DEF TypeOK
  <2>4. target \in listed
    BY <2>1, <2>2 DEF CopyIsLive, Missing
  <2>5. SnapshotsAreExact'
    BY <1>2, <2>1, <2>3 DEF SnapshotsAreExact, RemoveFile
  <2>6. AtTarget'
    BY <1>2 DEF AtTarget, RemoveFile
  <2>7. CopyIsLive'
    BY <1>2, <2>3, <2>4 DEF CopyIsLive, RemoveFile
  <2>. QED  BY <2>5, <2>6, <2>7
<1>3. CASE RemoveDir
  <2>1. target \in Epochs /\ taken[target] = NoVersion
    BY <1>3 DEF AtTarget, RemoveDir, TypeOK
  <2>2. SnapshotsAreExact' /\ CopyIsLive'
    BY <1>3, <2>1 DEF SnapshotsAreExact, CopyIsLive, RemoveDir
  <2>3. AtTarget'
    BY <1>3 DEF AtTarget, RemoveDir
  <2>. QED  BY <2>2, <2>3
<1>4. CASE SnapshotStep
  <2>1. CASE NextSnapshot
    BY <2>1 DEF TypeOK, SnapshotsAreExact, AtTarget, CopyIsLive, NextSnapshot, disk
  <2>2. CASE Checkpoint
    BY <2>2 DEF TypeOK, SnapshotsAreExact, AtTarget, CopyIsLive, Checkpoint
  <2>3. CASE CheckpointRefused
    <3>1. target \in Epochs /\ files[target] = Missing
      BY <2>3 DEF AtTarget, CopyIsLive, CheckpointRefused, TypeOK
    <3>. QED  BY <2>3, <3>1 DEF SnapshotsAreExact, AtTarget, CopyIsLive,
              CheckpointRefused, Missing
  <2>4. CASE CopyFile
    <3>1. target \in Epochs /\ target \in listed /\ taken[target] = NoVersion
      BY <2>4 DEF AtTarget, CopyIsLive, CopyFile, TypeOK
    <3>2. PICK f \in Files :
            files[target][f] = NoVersion /\ files' = [files EXCEPT ![target][f] = live]
      BY <2>4 DEF CopyFile
    <3>3. \A e \in Epochs : e # target => files'[e] = files[e]
      BY <3>2 DEF TypeOK
    <3>4. \A g \in Files : files'[target][g] \in {NoVersion, live}
      BY <2>4, <3>1, <3>2 DEF CopyIsLive, CopyFile, TypeOK
    <3>5. SnapshotsAreExact' /\ AtTarget'
      BY <2>4, <3>1, <3>3 DEF SnapshotsAreExact, AtTarget, CopyFile
    <3>6. CopyIsLive'
      BY <2>4, <3>1, <3>3, <3>4 DEF CopyIsLive, CopyFile
    <3>. QED  BY <3>5, <3>6
  <2>5. CASE CopyDone
    <3>1. target \in Epochs /\ target \in listed
      BY <2>5 DEF AtTarget, CopyIsLive, CopyDone, TypeOK
    <3>2. files[target] \in [Files -> Versions \cup {NoVersion}]
      BY <3>1 DEF TypeOK
    <3>3. \A f \in Files : files[target][f] = live
      BY <2>5 DEF CopyIsLive, CopyDone, CopyIsComplete
    <3>4. files[target] = AllOf(live)
      BY <3>2, <3>3 DEF AllOf
    <3>5. SnapshotsAreExact'
      BY <2>5, <3>1, <3>4 DEF SnapshotsAreExact, CopyDone, TypeOK, disk, AllOf
    <3>6. AtTarget' /\ CopyIsLive'
      BY <2>5 DEF AtTarget, CopyIsLive, CopyDone, disk
    <3>. QED  BY <3>5, <3>6
  <2>. QED  BY <1>4, <2>1, <2>2, <2>3, <2>4, <2>5 DEF SnapshotStep
<1>5. CASE PruneStep
  <2>1. CASE \E m \in Epochs : Prune(m)
    BY <2>1 DEF TypeOK, SnapshotsAreExact, AtTarget, CopyIsLive, Prune, disk
  <2>2. CASE \E e \in todo : PruneSkip(e)
    BY <2>2 DEF TypeOK, SnapshotsAreExact, AtTarget, CopyIsLive, PruneSkip, disk
  <2>3. CASE \E e \in todo : PruneRemove(e)
    <3>1. PICK e \in todo : PruneRemove(e)
      BY <2>3
    <3>2. e \in Epochs
      BY DEF TypeOK
    <3>. QED  BY <3>1, <3>2 DEF TypeOK, SnapshotsAreExact, AtTarget, CopyIsLive,
              PruneRemove, disk
  <2>4. CASE PruneDone
    BY <2>4 DEF TypeOK, SnapshotsAreExact, AtTarget, CopyIsLive, PruneDone, disk
  <2>. QED  BY <1>5, <2>1, <2>2, <2>3, <2>4 DEF PruneStep
<1>6. CASE CallFails \/ Crash
  BY <1>6 DEF TypeOK, SnapshotsAreExact, AtTarget, CopyIsLive, CallFails, Crash, disk
<1>. QED  BY <1>1, <1>2, <1>3, <1>4, <1>5, <1>6 DEF Next

\* A step leaves no gap in the listing above the epoch prunes may have cut.
LEMMA NoGapInvariant ==
    ASSUME IInv, Next, TypeOK'
    PROVE  NoGap' /\ PruneRemaining'
<1>. USE DEF Epochs, Versions, NoVersion, NoEpoch
<1>. DEFINE D == DesiredMinimum(minimum)
<1>1. D \in Epochs /\ D <= minimum /\ minimum \in Epochs /\ CutBelow \in Epochs
  BY DesiredMinimumBound DEF IInv, TypeOK, CutBelow
<1>2. CASE Open \/ Save
  BY <1>2 DEF IInv, TypeOK, NoGap, PruneRemaining, CutBelow, Open, Save, disk
<1>3. CASE EpochStarted
  <2>1. next \in listed
    BY <1>3 DEF IInv, TypeOK, SnapshotsAreExact, EpochStarted
  <2>2. CutBelow' = CutBelow
    BY <1>3 DEF EpochStarted, CutBelow
  <2>. QED  BY <1>1, <1>3, <2>1, <2>2
         DEF IInv, TypeOK, NoGap, PruneRemaining, EpochStarted, disk
<1>4. CASE RemoveFile
  BY <1>4 DEF IInv, NoGap, PruneRemaining, CutBelow, RemoveFile
<1>5. CASE RemoveDir
  <2>1. CutBelow' = CutBelow /\ listed' = listed \ {target} /\ next' = next
    BY <1>5 DEF RemoveDir, CutBelow
  <2>2. CASE doing = "remove"
    <3>1. target = next /\ next \in Int /\ doing' = "checkpoint"
      BY <1>5, <2>2 DEF IInv, TypeOK, AtTarget, RemoveDir
    <3>2. \A e \in listed', g \in listed' : CutBelow <= e => e..g \subseteq listed'
      BY <1>1, <2>1, <3>1 DEF IInv, TypeOK, NoGap
    <3>. QED  BY <1>5, <2>1, <3>1, <3>2 DEF IInv, TypeOK, NoGap, PruneRemaining, RemoveDir
  <2>3. CASE doing = "prune"
    <3>1. target < D /\ target \in Int /\ target < CutBelow /\ minimum' = minimum
          /\ target < next - 1 /\ todo' = todo
      BY <1>1, <1>5, <2>3 DEF IInv, TypeOK, AtTarget, RemoveDir, CutBelow
    <3>2. \A e \in listed', g \in listed' : CutBelow <= e => e..g \subseteq listed'
      BY <1>1, <2>1, <3>1 DEF IInv, TypeOK, NoGap
    <3>3. NoGap'
      BY <1>5, <2>1, <3>1, <3>2 DEF IInv, TypeOK, NoGap, RemoveDir
    <3>4. PruneRemaining'
      BY <2>1, <2>3, <3>1 DEF IInv, PruneRemaining
    <3>. QED  BY <3>3, <3>4
  <2>. QED  BY <1>5, <2>2, <2>3 DEF RemoveDir
<1>6. CASE SnapshotStep
  <2>1. CutBelow' = CutBelow /\ next' = next /\ cutBelow' = cutBelow /\ doing' # "prune"
    BY <1>6 DEF SnapshotStep, NextSnapshot, Checkpoint, CheckpointRefused, CopyFile,
       CopyDone, CutBelow
  <2>2. listed' = listed \/ listed' = listed \cup {next}
    BY <1>6 DEF IInv, AtTarget, SnapshotStep, NextSnapshot, Checkpoint,
       CheckpointRefused, CopyFile, CopyDone, disk
  <2>3. CASE listed' = listed
    BY <2>1, <2>3 DEF IInv, NoGap, PruneRemaining
  <2>4. CASE listed' = listed \cup {next}
    <3>1. next \in Int /\ listed \subseteq Int
      BY DEF IInv, TypeOK
    <3>2. \A e \in listed : CutBelow <= e => e..(next - 1) \subseteq listed
      BY DEF IInv, NoGap
    <3>3. \A e \in listed', g \in listed' : CutBelow <= e => e..g \subseteq listed'
      BY <1>1, <2>4, <3>1, <3>2 DEF IInv, NoGap
    <3>. QED  BY <2>1, <2>4, <3>1, <3>3 DEF IInv, NoGap, PruneRemaining
  <2>. QED  BY <2>2, <2>3, <2>4
<1>7. CASE PruneStep
  <2>1. CASE \E m \in Epochs : Prune(m)
    <3>1. CutBelow = cutBelow /\ CutBelow <= CutBelow' /\ CutBelow' < next'
      <4>1. DesiredMinimum(minimum') \in Epochs /\ DesiredMinimum(minimum') <= minimum'
        BY <2>1, DesiredMinimumBound DEF Prune
      <4>. QED  BY <2>1, <4>1 DEF IInv, TypeOK, NoGap, Prune, CutBelow
    <3>2. CutBelow' \in Int
      BY <2>1, DesiredMinimumBound DEF IInv, TypeOK, Prune, CutBelow
    <3>. QED  BY <1>1, <2>1, <3>1, <3>2 DEF IInv, TypeOK, NoGap, PruneRemaining, Prune, disk
  <2>2. CASE \E e \in todo : PruneSkip(e)
    <3>1. CutBelow' = CutBelow
      BY <2>2 DEF PruneSkip, CutBelow
    <3>. QED  BY <1>1, <2>2, <3>1 DEF IInv, TypeOK, NoGap, PruneRemaining, PruneSkip, disk
  <2>3. CASE \E e \in todo : PruneRemove(e)
    <3>1. CutBelow' = CutBelow
      BY <2>3 DEF PruneRemove, CutBelow
    <3>. QED  BY <1>1, <2>3, <3>1 DEF IInv, TypeOK, NoGap, PruneRemaining, PruneRemove, disk
  <2>4. CASE PruneDone
    <3>1. CutBelow' = cutBelow /\ CutBelow \in {cutBelow, D}
      BY <2>4 DEF PruneDone, CutBelow
    <3>2. \A e \in listed : D <= e
      BY <1>1, <2>4 DEF IInv, TypeOK, PruneRemaining, PruneDone
    <3>3. \A e \in listed : CutBelow' <= e => CutBelow <= e
      BY <3>1, <3>2
    <3>. QED  BY <2>4, <3>1, <3>3 DEF IInv, NoGap, PruneRemaining, PruneDone, disk
  <2>. QED  BY <1>7, <2>1, <2>2, <2>3, <2>4 DEF PruneStep
<1>8. CASE CallFails \/ Crash
  <2>1. cutBelow' = CutBelow /\ CutBelow' = CutBelow /\ doing' # "prune"
    BY <1>8 DEF CallFails, Crash, CutBelow
  <2>. QED  BY <1>8, <2>1 DEF IInv, NoGap, PruneRemaining, CallFails, Crash, disk
<1>. QED  BY <1>2, <1>3, <1>4, <1>5, <1>6, <1>7, <1>8 DEF Next

LEMMA Invariance == Spec => []IInv
<1>1. IInv /\ [Next]_vars => IInv'
  <2>1. CASE Next
    <3>. SUFFICES ASSUME IInv PROVE IInv'
      BY <2>1
    <3>1. TypeOK'
      BY <2>1, TypeInvariant DEF IInv
    <3>. QED  BY <2>1, <3>1, ExactInvariant, NoGapInvariant DEF IInv
  <2>2. CASE UNCHANGED vars
    BY <2>2 DEF vars, IInv, TypeOK, SnapshotsAreExact, AtTarget, CopyIsLive, NoGap,
       PruneRemaining, CutBelow
  <2>. QED  BY <2>1, <2>2
<1>. QED  BY InitInvariant, <1>1, PTL DEF Spec

-----------------------------------------------------------------------------
\* The snapshots keep their types.
THEOREM TypeCorrect == Spec => []TypeOK
<1>1. IInv => TypeOK
  BY DEF IInv
<1>. QED  BY <1>1, Invariance, PTL

\* A snapshot whose next_snapshot returned Ok holds exactly the live database
\* of that call, whatever failed, crashed or was retried.
THEOREM SnapshotsExact == Spec => []SnapshotsAreExact
<1>1. IInv => SnapshotsAreExact
  BY DEF IInv
<1>. QED  BY <1>1, Invariance, PTL

\* RocksDB::new accepts the directories any crash leaves behind, except those
\* of an interrupted prune.
THEOREM Opens == Spec => []OpensUnlessPruneCut
<1>1. IInv => OpensUnlessPruneCut
  <2>. SUFFICES ASSUME IInv, doing = "down", \A e \in listed : e >= cutBelow
                PROVE  OpenOutcome(listed) = "ok"
    BY DEF OpensUnlessPruneCut
  <2>1. CutBelow = cutBelow
    BY DEF CutBelow
  <2>2. listed \in SUBSET Epochs /\ listed # {} /\ cutBelow \in Int /\ listed \subseteq Int
    BY DEF IInv, TypeOK, NoGap, Epochs
  <2>3. \A e \in listed, g \in listed : e..g \subseteq listed
    BY <2>1, <2>2 DEF IInv, NoGap
  <2>. QED  BY <2>2, <2>3, OneRunOpens
<1>. QED  BY <1>1, Invariance, PTL

\* No step discards a snapshot the ledger still counts on.
THEOREM PruneKeeps == Spec => PruneKeepsRecent
<1>. DEFINE Kept == \A e \in Epochs :
        taken[e] # NoVersion /\ taken'[e] = NoVersion =>
            \/ doing = "idle" /\ e = next
            \/ doing = "prune" /\ e + MaxExtra < minimum
<1>1. IInv /\ [Next]_vars => [Kept]_vars
  <2>. SUFFICES ASSUME IInv, Next, NEW e \in Epochs,
                       taken[e] # NoVersion, taken'[e] = NoVersion
                PROVE  \/ doing = "idle" /\ e = next
                       \/ doing = "prune" /\ e + MaxExtra < minimum
    BY DEF vars
  <2>1. live # NoVersion
    BY BoundsAssumption DEF IInv, TypeOK, Versions, NoVersion
  <2>2. CASE NextSnapshot
    BY <2>2 DEF IInv, TypeOK, NextSnapshot
  <2>3. CASE \E g \in todo : PruneRemove(g)
    <3>1. minimum \in Epochs
      BY DEF IInv, TypeOK
    <3>2. PICK g \in todo : PruneRemove(g)
      BY <2>3
    <3>3. e = g
      BY <3>2 DEF IInv, TypeOK, PruneRemove
    <3>. QED  BY <3>1, <3>2, <3>3, DesiredMinimumBound DEF PruneRemove
  <2>4. CASE Checkpoint \/ CopyDone
    BY <2>1, <2>4 DEF IInv, TypeOK, Checkpoint, CopyDone
  <2>. QED  BY <2>2, <2>3, <2>4 DEF Next, SnapshotStep, PruneStep, Open, Save,
         EpochStarted, RemoveFile, RemoveDir, CheckpointRefused, CopyFile, Prune,
         PruneSkip, PruneDone, CallFails, Crash
<1>. QED  BY <1>1, Invariance, PTL DEF Spec, PruneKeepsRecent
=============================================================================
