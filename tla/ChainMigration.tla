--------------------------- MODULE ChainMigration ---------------------------
(***************************************************************************)
(* Opening, creating and migrating the chain database                      *)
(* (rocksdb/consensus/migration.rs, util.rs and the constructors of        *)
(* RocksDBStore).  The database is left by an earlier build or run; every  *)
(* put is a step of its own, may fail, and the process may die before any  *)
(* of them and open the database again.                                    *)
(***************************************************************************)
EXTENDS Naturals, FiniteSets

CONSTANTS
    Headers,      \* the headers, standing for their hashes too
    Parent,       \* Parent[h]: its parent's hash, NoHash for a first header
    NoHash,       \* Option::None
    MaxVersion    \* bound: the newest version an existing database may have

ASSUME MigrationAssumption ==
    /\ NoHash \notin Headers
    /\ Parent \in [Headers -> Headers \cup {NoHash}]
    /\ MaxVersion \in Nat

CHAIN_DB_VERSION == 2

VARIABLES
    exists,     \* the directory holds a database
    version,    \* the value at VERSION_KEY, 0 when there is none
    headers,    \* stored headers (the migration does not change them)
    best,       \* the best chain hash, or NoHash
    points,     \* headers stored as chain points
    pc,         \* where the constructor under way stands
    caller,     \* which function it is
    n,          \* migrate_db: the version reached
    hash,       \* migrate_to_v2: the header to store next
    cut         \* history: a walk of migrate_to_v2 ended before its time

disk == <<exists, version, headers, best, points>>
run  == <<pc, caller, n, hash>>
vars == <<disk, run, cut>>

-----------------------------------------------------------------------------

\* From the best chain's hash down, every point whose header is stored is on
\* the chain.
ChainIsComplete ==
    /\ best \in headers => best \in points
    /\ \A h \in points : Parent[h] \in headers => Parent[h] \in points

\* No database, or one left by a build: chain points came with version 2, and
\* set_best_chain_hash takes the hash of a header that is not stored too.
Init ==
    /\ exists \in BOOLEAN
    /\ version \in 0..MaxVersion
    /\ headers \in SUBSET Headers
    /\ best \in Headers \cup {NoHash}
    /\ points \in SUBSET headers
    /\ ~exists => version = 0 /\ headers = {} /\ best = NoHash
    /\ IF version < CHAIN_DB_VERSION THEN points = {} ELSE ChainIsComplete
    /\ pc = "closed" /\ caller = "none" /\ n = 0 /\ hash = NoHash
    /\ cut = FALSE

-----------------------------------------------------------------------------
(* The constructors.                                                       *)

Begin(f, step) == pc = "closed" /\ pc' = step /\ caller' = f

\* Mutant: any version is opened.
OpenAnyVersion ==
    /\ exists
    /\ Begin("open", "open")
    /\ UNCHANGED <<disk, n, hash, cut>>

\* RocksDBStore::open succeeds: the database exists at the right version.
Open ==
    /\ exists /\ version = CHAIN_DB_VERSION
    /\ Begin("open", "open")
    /\ UNCHANGED <<disk, n, hash, cut>>

\* RocksDBStore::create: only in an empty directory; the database is there
\* before its version is.
Create ==
    /\ ~exists
    /\ Begin("create", "set_version")
    /\ exists' = TRUE
    /\ UNCHANGED <<version, headers, best, points, n, hash, cut>>

SetVersion ==
    /\ pc = "set_version"
    /\ version' = CHAIN_DB_VERSION
    /\ pc' = "open"
    /\ UNCHANGED <<exists, headers, best, points, caller, n, hash, cut>>

\* open_and_migrate creates what is missing; migrate_db_path does not.
OpenAndMigrate ==
    /\ Begin("open_and_migrate", "migrate")
    /\ exists' = TRUE
    /\ n' = version
    /\ UNCHANGED <<version, headers, best, points, hash, cut>>

MigrateDbPath ==
    /\ exists
    /\ Begin("migrate_db_path", "migrate")
    /\ n' = version
    /\ UNCHANGED <<disk, hash, cut>>

\* open, create or migrate_db_path returns an error and touches nothing.
Refused ==
    /\ pc = "closed"
    /\ \/ ~exists
       \/ exists /\ version # CHAIN_DB_VERSION
    /\ UNCHANGED vars

-----------------------------------------------------------------------------
(* migrate_db: the migrations from the version found up to the current.    *)

MigrateToV1 ==
    /\ pc = "migrate" /\ n = 0
    /\ version' = 1
    /\ n' = 1
    /\ UNCHANGED <<exists, headers, best, points, pc, caller, hash, cut>>

\* Mutant: the walk begins at the parent of the best header.
MigrateToV2SkipsTip ==
    /\ pc = "migrate" /\ n = 1
    /\ version' = 2
    /\ IF best = NoHash THEN n' = 2 /\ UNCHANGED <<pc, hash>>
       ELSE pc' = "walk" /\ hash' = Parent[best] /\ UNCHANGED n
    /\ UNCHANGED <<exists, headers, best, points, caller, cut>>

\* The version is written first; an empty database has nothing to walk.
MigrateToV2 ==
    /\ pc = "migrate" /\ n = 1
    /\ version' = 2
    /\ IF best = NoHash THEN n' = 2 /\ UNCHANGED <<pc, hash>>
       ELSE pc' = "walk" /\ hash' = best /\ UNCHANGED n
    /\ UNCHANGED <<exists, headers, best, points, caller, cut>>

\* Mutant: the walk's cursor is not moved.
WalkStuck ==
    /\ pc = "walk" /\ hash \in headers
    /\ points' = points \cup {hash}
    /\ UNCHANGED <<exists, version, headers, best, run, cut>>

\* Mutant: the header is not looked up before its point is stored.
WalkUnknownHeader ==
    /\ pc = "walk" /\ hash # NoHash
    /\ points' = points \cup {hash}
    /\ hash' = Parent[hash]
    /\ UNCHANGED <<exists, version, headers, best, pc, caller, n, cut>>

\* One turn of the walk: store the point, go to the parent.
Walk ==
    /\ pc = "walk" /\ hash \in headers
    /\ points' = points \cup {hash}
    /\ hash' = Parent[hash]
    /\ UNCHANGED <<exists, version, headers, best, pc, caller, n, cut>>

\* The header is not stored, or the last one had no parent.
WalkEnd ==
    /\ pc = "walk" /\ hash \notin headers
    /\ pc' = "migrate" /\ n' = 2 /\ hash' = NoHash
    /\ UNCHANGED <<disk, caller, cut>>

\* Nothing left to migrate, a version newer than ours included.
MigrateDone ==
    /\ pc = "migrate" /\ n >= CHAIN_DB_VERSION
    /\ pc' = IF caller = "open_and_migrate" THEN "open" ELSE "closed"
    /\ UNCHANGED <<disk, caller, n, hash, cut>>

-----------------------------------------------------------------------------

Stopped == pc' = "closed" /\ caller' = "none" /\ n' = 0 /\ hash' = NoHash

\* The owner drops the open store.
Close ==
    /\ pc = "open"
    /\ Stopped
    /\ UNCHANGED <<disk, cut>>

\* A put returns an error, or the process dies: what was put stays.
Interrupt ==
    /\ pc \notin {"closed", "open"}
    /\ cut' = (cut \/ (pc = "walk" /\ hash \in headers))
    /\ Stopped
    /\ UNCHANGED disk

MigrateStep ==
    \/ MigrateToV1
    \/ MigrateToV2
    \/ Walk
    \/ WalkEnd
    \/ MigrateDone

Next ==
    \/ Open \/ Create \/ OpenAndMigrate \/ MigrateDbPath \/ Refused
    \/ SetVersion
    \/ MigrateStep
    \/ Close
    \/ Interrupt

\* A thread inside migrate_db keeps running.
Fairness == WF_vars(MigrateStep)

Spec == Init /\ [][Next]_vars /\ Fairness

-----------------------------------------------------------------------------
(* Properties.                                                             *)

\* Every variable holds a value of its kind.
TypeOK ==
    /\ exists \in BOOLEAN
    /\ version \in 0..MaxVersion \cup 1..2
    /\ headers \subseteq Headers
    /\ best \in Headers \cup {NoHash}
    /\ points \subseteq headers
    /\ pc \in {"closed", "open", "set_version", "migrate", "walk"}
    /\ caller \in {"none", "open", "create", "open_and_migrate",
                   "migrate_db_path"}
    /\ n \in Nat
    /\ hash \in Headers \cup {NoHash}
    /\ cut \in BOOLEAN

\* Unless a walk of migrate_to_v2 was cut short at some time, an open store
\* has the whole best chain, down to the last stored header, as chain points.
CompleteUnlessCut == pc = "open" /\ ~cut => ChainIsComplete

\* No constructor hands out a store at a version older than the code's.
OpenIsCurrent == pc = "open" => version >= CHAIN_DB_VERSION

\* A migration ends, in an open store or an error, however long the chain.
MigrationEnds == pc \in {"migrate", "walk"} ~> pc \in {"closed", "open"}

\* An open store has the whole best chain as chain points.
\* ("Walks the best chain backwards and re-inserts all points.")
OpenIsComplete == pc = "open" => ChainIsComplete
=============================================================================
