------------------------ MODULE ChainMigrationProofs ------------------------
(***************************************************************************)
(* Proof, for every set of headers, that a migration which is not cut      *)
(* short leaves the whole best chain as chain points.                      *)
(***************************************************************************)
EXTENDS ChainMigration, TLAPS

\* What the walk has stored is closed under parents but for its cursor.
WalkOK ==
    /\ best \in headers => best \in points \cup {hash}
    /\ \A h \in points : Parent[h] \in headers => Parent[h] \in points \cup {hash}

Settled == version >= CHAIN_DB_VERSION /\ ~cut => ChainIsComplete

MInv ==
    /\ TypeOK
    /\ ~exists => version = 0 /\ headers = {} /\ pc = "closed"
    /\ version < CHAIN_DB_VERSION => points = {}
    /\ pc \in {"closed", "open"} => Settled
    /\ pc = "open" => version >= CHAIN_DB_VERSION
    /\ pc = "set_version" => headers = {} /\ version = 0
    /\ pc = "migrate" =>
          /\ n < CHAIN_DB_VERSION => n = version
          /\ n >= CHAIN_DB_VERSION => version >= CHAIN_DB_VERSION /\ Settled
    /\ pc = "walk" => version = CHAIN_DB_VERSION /\ (cut \/ WalkOK)

-----------------------------------------------------------------------------

LEMMA MigrationInit == Init => MInv
<1> SUFFICES ASSUME Init
             PROVE  MInv
    OBVIOUS
<1>1. version \in Nat
  BY MigrationAssumption DEF Init
<1>2. TypeOK
  BY DEF Init, TypeOK
<1>3. Settled
  BY <1>1 DEF Init, Settled, CHAIN_DB_VERSION
<1> QED
  BY <1>1, <1>2, <1>3 DEF Init, MInv, CHAIN_DB_VERSION

LEMMA MigrationNext == MInv /\ [Next]_vars => MInv'
<1> SUFFICES ASSUME MInv, [Next]_vars
             PROVE  MInv'
    OBVIOUS
<1>0. version \in Nat /\ n \in Nat
  BY MigrationAssumption DEF MInv, TypeOK
<1> USE <1>0, MigrationAssumption DEF MInv, TypeOK, CHAIN_DB_VERSION
<1>1. CASE Open
  BY <1>1 DEF Open, Begin, disk, Settled, ChainIsComplete
<1>2. CASE Create
  BY <1>2 DEF Create, Begin
<1>3. CASE SetVersion
  BY <1>3 DEF SetVersion, Settled, ChainIsComplete
<1>4. CASE OpenAndMigrate
  <2>1. Settled' <=> Settled
    BY <1>4 DEF OpenAndMigrate, Begin, Settled, ChainIsComplete
  <2>2. TypeOK'
    BY <1>4 DEF OpenAndMigrate, Begin
  <2> QED  BY <1>4, <2>1, <2>2 DEF OpenAndMigrate, Begin
<1>5. CASE MigrateDbPath
  BY <1>5 DEF MigrateDbPath, Begin, disk, Settled, ChainIsComplete
<1>6. CASE MigrateToV1
  BY <1>6 DEF MigrateToV1
<1>7. CASE MigrateToV2
  <2>1. points = {} /\ n = 1 /\ version' = 2
    BY <1>7 DEF MigrateToV2
  <2>2. CASE best = NoHash
    BY <1>7, <2>1, <2>2 DEF MigrateToV2, Settled, ChainIsComplete
  <2>3. CASE best # NoHash
    BY <1>7, <2>1, <2>3 DEF MigrateToV2, WalkOK
  <2> QED  BY <2>2, <2>3
<1>8. CASE Walk
  <2>1. /\ pc = "walk" /\ pc' = "walk" /\ hash \in headers
        /\ points' = points \cup {hash} /\ hash' = Parent[hash]
        /\ UNCHANGED <<exists, version, headers, best, caller, n, cut>>
    BY <1>8 DEF Walk
  <2>2. WalkOK => WalkOK'
    BY <2>1 DEF WalkOK
  <2>3. TypeOK'
    BY <2>1
  <2> QED  BY <2>1, <2>2, <2>3
<1>9. CASE WalkEnd
  <2>1. WalkOK => ChainIsComplete'
    BY <1>9 DEF WalkEnd, disk, WalkOK, ChainIsComplete
  <2> QED  BY <1>9, <2>1 DEF WalkEnd, disk, Settled
<1>10. CASE MigrateDone
  BY <1>10 DEF MigrateDone, disk, Settled, ChainIsComplete
<1>11. CASE Close
  BY <1>11 DEF Close, Stopped, disk, Settled, ChainIsComplete
<1>12. CASE Interrupt
  <2>1. CASE pc = "walk"
    <3>1. hash \notin headers /\ WalkOK => ChainIsComplete'
      BY <1>12 DEF Interrupt, disk, WalkOK, ChainIsComplete
    <3> QED  BY <1>12, <2>1, <3>1 DEF Interrupt, Stopped, disk, Settled
  <2>2. CASE pc # "walk"
    BY <1>12, <2>2 DEF Interrupt, Stopped, disk, Settled, ChainIsComplete
  <2> QED  BY <2>1, <2>2
<1>13. CASE Refused \/ UNCHANGED vars
  BY <1>13 DEF Refused, vars, disk, run, Settled, ChainIsComplete, WalkOK
<1> QED
  BY <1>1, <1>2, <1>3, <1>4, <1>5, <1>6, <1>7, <1>8, <1>9, <1>10, <1>11,
     <1>12, <1>13 DEF Next, MigrateStep

\* The inductive invariant holds in every reachable state.
THEOREM MigrationInvariance == Spec => []MInv
<1> QED  BY MigrationInit, MigrationNext, PTL DEF Spec

\* The database and the constructor under way keep their types.
THEOREM MigrationTypes == Spec => []TypeOK
<1>1. MInv => TypeOK
  BY DEF MInv
<1> QED  BY <1>1, MigrationInvariance, PTL

\* A store opened after migrations none of which was cut short has every
\* point of its best chain, whatever the chain.
THEOREM MigrationRebuilds == Spec => []CompleteUnlessCut
<1>1. MInv => CompleteUnlessCut
  BY DEF MInv, CompleteUnlessCut, Settled
<1> QED  BY <1>1, MigrationInvariance, PTL

\* No store is handed out at an older version.
THEOREM OpenCurrent == Spec => []OpenIsCurrent
<1>1. MInv => OpenIsCurrent
  BY DEF MInv, OpenIsCurrent
<1> QED  BY <1>1, MigrationInvariance, PTL
=============================================================================
