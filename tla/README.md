# Amaru Wear, specified

TLA+ specifications of the application in this repository: a Wear OS screen
that shows the tip of the Cardano chain, the native node behind it, and the
patched `amaru-stores` crate that keeps the node's chain and ledger on disk.
Paths below are relative to the repository; `stores/` stands for
`rust/patches/amaru-stores/src/`, and `columns/` for
`stores/rocksdb/ledger/columns/`.

## Inventory

| Component | State | Operations | Interacts with |
|---|---|---|---|
| Chain store (`stores/rocksdb/consensus/mod.rs`) | headers, parent/child links, blocks, nonces, anchor, best chain hash, chain points by slot | `store_header`, `store_block`, `put_nonces`, `set_anchor_hash`, `set_best_chain_hash`, `roll_forward_chain`, `rollback_chain`, and the reads | the node's consensus stages (external), RocksDB transactions |
| Chain migration (`.../migration.rs`, `util.rs`) | the version key | `open`, `create`, `open_and_migrate`, `migrate_db_path`, two migrations | the chain store's keys, while nothing else has them open |
| Ledger store (`stores/rocksdb/mod.rs`, `transaction.rs`) | the live database, the flag of the open transaction, the caller's governance activity | `create_transaction`, `save`, `try_epoch_transition`, `commit`, `rollback`, setters, `with_*` | `amaru-ledger` (external) drives it from one thread |
| Ledger snapshots (`stores/rocksdb/mod.rs`) | one directory per epoch beside `live` | `next_snapshot`, `prune`, `RocksDB::new` and its check | called by the ledger in an epoch transition |
| Ledger columns (`columns/*.rs`) | accounts, DReps, past delegations, pools, UTxO, proposals, votes, committee, pots, slots | `add`, `remove`, `set`, `reset_many`, ... | called by `save`, in a fixed order |
| In-memory stores (`stores/in_memory/`) | the same, in maps | the same traits | tests only |
| Native node (`rust/src/jni_impl.rs`, `state.rs`, `amaru.rs`) | `RUNTIME`, `SYNC_STATUS`, `LATEST_TIP`, the trace collector | `start_node`, `stop_node`, `get_latest_tip_json`, the network thread, the trace poller | JNI from any thread; the two globals are shared under a mutex each |
| View model (`AmaruViewModel.kt`) | `_tipState`, the polling job, its scope | `startNode`, `startPolling`, `stopNode`, `onCleared` | the native node, through `AmaruBridge` |
| Screens (`MainActivity.kt`, `composables/`) | none | render `_tipState` | the view model |
| JNI exports, scripts | none | string conversion, builds | |

What is hard in each, and so what the properties are about:

* **Chain store.** Calls made of several writes that fail or are cut halfway;
  bounds one slot after a point; a chain kept as a map from slots that has to
  stay one path of a tree with forks; tables that share one order of keys, and
  iterators over them without an end.
* **Migration.** Crashes and failed puts between any two writes; databases
  left by any earlier build, or a later one.
* **Ledger store.** Transactions lost after memory has already changed; blocks
  delivered again after a restart; an epoch transition in three steps, cut
  between any two; DRep validity that is adjusted lazily.
* **Snapshots.** Directories written and removed file by file, retried, pruned
  in any order; a check that decides whether the store opens at all; and a
  transaction, open meanwhile, that records the snapshot and can fail without
  it.
* **DRep columns.** An account's delegation is spread over three columns and
  has to be right for every order of certificates, within a block and across,
  including the behaviour of protocol version 9.
* **The other columns.** Deposits and rewards that must survive every order of
  registrations, withdrawals, refunds and removals; pools whose updates wait
  in a queue; and two implementations of one interface, tested with one suite
  that does not compare them with each other.
* **Application.** Coroutines, a network thread per start, a poller and two
  globals; view models replaced while calls are under way; kills.

`PROJECT.json` lists each hazard with its line and the properties that cover it.

## Modules

| Module | Models | State and actions |
|---|---|---|
| `ChainStore` | the chain store's calls | A variable per key prefix; `pc`, `arg`, `tx` are the call under way and its uncommitted transaction. One action per write inside a call; `Abandon` is any error, or the death of the process |
| `ChainKeys` | the reads of the chain store | No variables: `Database` is `ChainStore`'s state as one ordered set of keys, and each read a lookup or an iterator over it |
| `BestChain` | abstract: a path of the header tree, extended at its tip or cut back | `path` |
| `ChainSelection` | the chain store under the discipline of its callers, mapped to `BestChain` | as `ChainStore`; `Path` is the refinement mapping |
| `ChainMigration` | constructors and migrations | The disk (`exists`, `version`, `headers`, `best`, `points`) and the constructor under way; every put is a step and `Interrupt` may come before any |
| `LedgerSnapshots` | the directories of the ledger store | `listed` and `files` are the disk, `doing`, `target`, `todo` the call under way |
| `LedgerStore` | transactions, `save`, the epoch transition, DRep validity | `disk` is committed, `tx` the open transaction, `memory` the caller's dormant epochs, `ongoing` the flag |
| `LedgerEpochs` | `LedgerStore` with `LedgerSnapshots` | Their variables; `SnapshotStep` is the step in which both take part, `CrashBoth` and `RestartBoth` happen to both |
| `EpochLedger` | abstract: blocks, and between two epochs a transition that takes a snapshot | `tip`, `phase`, `snapshots` |
| `DRepDelegations` | `accounts`, `dreps`, `dreps_delegations` as `save` calls them | One `Save` is one block; `ledger` replays the same certificates by the rules, in certificate order |
| `LedgerColumns` | what the calls of a RocksDB transaction do to every column but the past delegations, and to the rows with a key of their own | Operators: one per function of `columns/*.rs`, and `Saved` for `save` |
| `MemoryColumns` | the same of the in-memory store, from its own code | Operators |
| `TwoStores` | the two stores given the same calls | `rocks` is what a transaction of RocksDB sees, `memory` the other store; one action per call; `books` is the lovelace in the caller's hand or withdrawn; `group` the columns a behaviour changes |
| `Node` | `jni_impl.rs`, `state.rs` | `runtime` is RUNTIME; `net[k]` the network thread of the k-th start; `queue`, `half` the collector and the poller; `status`, `tip` the globals |
| `AmaruApp` | view models over `Node` | `view[v]` where the coroutines stand, `ui` its `_tipState`; `Screen` what the composables make of it |
| `MC*` | instances for TLC | header trees, DRep hashes, imported snapshots |
| `*Proofs` | theorems | see below |

Composition: `MemoryColumns` extends `LedgerColumns` (the rows are the
ledger's, and common to both) and `TwoStores` extends both; `ChainSelection` extends `ChainStore` and instantiates
`BestChain`; `AmaruApp` extends `Node` (its actions conjoin native ones).
`ChainKeys` extends `ChainStore` with its reads. `LedgerStore` and
`LedgerSnapshots` describe two sides of one crate that meet in the ledger's
epoch transition: `LedgerEpochs` extends the first and instantiates the second,
with the committed tip and progress as the version of the live database and
the next epoch to be recorded. `EpochStarted`, a step of its own in
`LedgerSnapshots`, is there the commit that records progress. `LedgerEpochs`
is mapped to `EpochLedger`: commits are its blocks and phases, the directory
operations its snapshots.

### What is abstracted

* A header, its hash and its point are one model value. CBOR encodings are
  left out; tables are different variables in `ChainStore`, and one ordered set
  of entries in `ChainKeys`, where a value is known by its kind: a value that
  is not of the kind a read decodes is skipped, as the code's decoders and
  length checks do.
* In `LedgerEpochs` the snapshot step begins a transaction of its own (no
  changes before it that are not committed), is of the epoch of the tip, and
  an error of `next_snapshot` makes the caller drop the transaction. Nothing
  is pruned there.
* `HashesAreApart` in `DRepDelegations`: no DRep lies below the bound
  `into_next_prefix` computes for another (see the disagreements).
* `ChainStore` does not let two calls overlap: the tests and the stages use
  the store from one thread. A rollback's iterator reads what is committed and
  what its own transaction has deleted, in slot order.
* In `ChainMigration` the best hash may be any header, stored or not, since
  `set_best_chain_hash` does not look.
* `LedgerStore` counts how often each block's changes are in instead of
  keeping the columns, except DRep validity. Stores are opened with
  `RocksDB::new`, so `incremental_save` is false; `RocksDB::empty` is only
  used to import. `Renew` is a renewal: a registration, whose expiry comes from
  its certificate (`columns/dreps.rs:73-102`), is left out, the DReps being
  registered from the start.
* In `LedgerSnapshots` the live files do not change while a snapshot is copied:
  the caller writes nothing meanwhile. RocksDB's own threads could, since the
  fallback (`stores/rocksdb/mod.rs:247-288`) disables neither the deletion of
  files nor compaction; that is not modelled.
* In `DRepDelegations` a DRep's hash is two bytes, which are not both saturated
  (the code's bound would not be later than the prefix). A block registers and
  unregisters at most one DRep each; both may be the same one if it registers
  first. One that unregisters and registers again within a block is left out.
* In `LedgerColumns` a row keeps the fields that more than one function reads or
  writes: anchors, the deposits of DReps and the contents of outputs are left
  out, delegations and expiries of DReps are in `DRepDelegations` and
  `LedgerStore`. The two stores' operators are translated separately, never one
  from the other.
* In `TwoStores` a block changes one column and a row or two of it (votes come
  with proposals). In both stores
  no column's new rows depend on another column (the delegations to DReps and
  the expiries, which do, are not in this module), nor a row on another row, so
  a block that changes several is the composition of such blocks. For the same
  reason a behaviour only changes the columns of one `group`, except that
  updates of pools, dropped issuers and dropped proposals apply to whatever is
  there. The calls are valid: a withdrawal is of a registered account, a
  registration of an account that exists comes with the withdrawal of its
  rewards, and so on (`ValidAccounts`, `ValidOthers`).
* The ledger (`amaru-ledger`) and the node's stages (`amaru`) are dependencies
  outside the repository. Their actions are marked external in the map and say
  only what the stores' comments, tests and signatures require of a caller:
  one transaction at a time, blocks in order, snapshots in epoch order,
  certificates that are valid.
* In `Node`, an event's number stands for its slot, "snapshots" for the two
  statuses shown as progress, and "new_tip" for the three event names that are
  handled alike. A tracing collector can be installed once per process, so
  only the first start's poller sees events.
* In `AmaruApp` a start call returns 0, -6 (refused: a node is running) or -4
  (no runtime). The others end like -4, with an error on the screen, and are
  left out: -1 to -3 concern arguments that are constants (the network is
  "preprod"), -5 a lock poisoned by a panic, and an exception thrown by the
  native call. So is "Polling error" (`AmaruViewModel.kt:127-129`): a report
  that does not parse is shown until the next turn.

## Runs

| Run | Question | Bounds, and why they suffice |
|---|---|---|
| `ChainStore` | Are headers and links written together, and rollbacks atomic, for any order of calls and any failure? Does every read return its own table, and all of it? | Four headers, a fork, two headers of different branches at one slot, an empty slot, and Origin at slot 0. A rollback deletes up to three points; every call is cut at every step. The order of the hashes is neither that of the slots nor of the branches, and every table is empty in some states and followed by every other |
| `ChainSelection` | Do the points by slot implement `BestChain`? Does `next_best_chain` follow it? | Five headers, a fork, two branches meeting at one slot, an empty slot; both branches are built, abandoned and built again |
| `ChainMigration` | Is the chain complete, the version current, and does a migration end? | Versions 0 to 3, all sets of stored headers of a tree of four, all best headers; walks of up to three turns, each interrupted |
| `CutMigration` | Is an open store always complete? (It is not.) | the same |
| `LedgerSnapshots` | Are snapshots exact, kept, and enough to open? | Epochs 0 to 4, two files per snapshot (one copied, one not), two states of the live database, one extra snapshot; subtraction below zero happens |
| `LedgerStore` (module `LedgerEpochs`) | Is every block and epoch step in exactly once, and no active DRep expired early? Has every epoch that is over the snapshot of its end? | Seven slots in epochs of two: four epochs, so three dormant ones in a row; two DReps, so that one renews and the other does not; crashes and replays unbounded. Two files per snapshot, each copy and removal a step |
| `DRepDelegations` | Do three columns give the delegation of the rules? | Four blocks of up to four certificates; two DReps and a pre-defined one, the hashes of both ending in a saturated byte and the second the bound of the first; two accounts, symmetric. Delegate, move, unregister, register again fits in four |
| `PastDelegators` | Is every past delegator reset? (It is not.) | one account |
| `TwoStores` | Do RocksDB and the in-memory store agree? Is lovelace conserved in RocksDB? | Five blocks and replays of the last one; two accounts, two proposals and two voters, each symmetric, and one row of each other column; two parameters of the pool, symmetric, two lovelace. Three groups of columns, and the pools once more alone with up to two updates in a block. Pay, withdraw, remove, register, pay again fits, as do register, update, retire and apply, and propose, vote, vote again, drop |
| `AmaruApp` | Do overlapping starts, stops, polls and events leave a coherent application? Does the last tip reach the screen? | Two view models, two starts, three events: a bootstrap's two and a tip, or three tips after a bootstrap that failed |
| `SecondNode` | Is there at most one node? (There is not.) | as `AmaruApp` |
| `BootstrapAgain` | Is a bootstrap done once? (It is not.) | as `SecondNode` |

Deadlock is checked in every passing run but two, where the system or the model
stops: the ledger store, when an interrupted prune has left directories it
refuses to open (`LedgerSnapshots`), and the bound on the blocks of
`DRepDelegations`.

Fairness is assumed in two places. In `ChainMigration` the thread inside
`migrate_db` keeps running (weak fairness of `MigrateStep`); nothing forces a
constructor to be called. In `AmaruApp` the trace poller (`loop` with a sleep)
and the polling loop (`while (isActive)` with a delay) never end by
themselves, so each has weak fairness; nothing is assumed of the network
thread, of the bootstrap or of the user.

### The disagreements found

* `CutMigration`: version 2 is recorded before the chain points are rebuilt;
  an interrupted migration is never resumed (`migration.rs:66`).
* `SecondNode`: `stopNode` does not stop the node, so the next start runs a
  second one (`jni_impl.rs:284`).
* `BootstrapAgain`: `ledger.db/CURRENT` is looked for, the database is in
  `ledger.db/live`, so every start bootstraps (`jni_impl.rs:100`).
* `PastDelegators`: an account that v9 undelegated and that delegates again is
  forgotten by `dreps_delegators` (`dreps.rs:167-173`, `accounts.rs:109`).

Behind `HashesAreApart` is a fifth, which no run is kept for: the comment of
`into_next_prefix` (`columns/dreps_delegations.rs:213`) calls its result the
"smallest byte-string of equal length, strictly after" the prefix, but
saturated bytes are left as they are. With `MCDreps == {3, 4}`, to base 4,
TLC finds `DelegationFollowsTheRules` violated in three blocks: in version 9,
unregistering the DRep with hash 3 drops the links of the one with hash 4, and
undelegates its delegators. Hashes are 28 bytes and would have to agree in all
but the last, up to a carry.

A sixth has no run either, because of what the test happens to show. Its name,
`next_best_chain_returns_none_given_point_is_not_on_chain`
(`stores/rocksdb/consensus/mod.rs:795`), claims None for any point off the chain,
and it passes because the point it tries lies beyond the tip; the code (line 253)
does not look the point up, and gives a point of an abandoned branch the first
later point of the other one. `NextIsTheChild` is about points on the chain.

A comment to be read with care is that of `reset_delegation`
(`columns/accounts.rs:42-43`): "When they happen in the same transaction, the
delegation always take precedence over the unregistration." For a delegation
whose certificate comes before the unregistration the code does otherwise: it
compares the pointers of the certificates, and so does the model. Examples 1 to
3 in the same function support the order of certificates.

The in-memory store differs from RocksDB where `StoresAgree` leaves it out; the
module has it as it is in the code:

* `in_memory/ledger/columns/accounts.rs:29` takes an account's value as
  (pool, drep, rewards, deposit), `accounts.rs:127` as (pool, drep, deposit,
  rewards): in memory an account is created with its deposit as rewards, and
  without a deposit. The shared tests read a row back before they compare.
* `in_memory/ledger/columns/cc_members.rs:31` drops the hot credential of a
  member that is not known, which `cc_members.rs:40` allows; and
  `update_constitutional_committee` keeps only the status.
* It has no transactions: commit and rollback do nothing.
* `iter_votes` returns none of the votes it keeps, which `StoresAgree` compares.

Properties that hold only under a condition name it: `CompleteUnlessCut`,
`OpensUnlessPruneCut`, `StatusSettles` (the bootstraps succeeded),
`RefusedOnlyAfterRace`, `MemoryAgrees` and `ActiveDrepsStayActive` (no
transaction lost in this process), `DelegationFollowsTheRules` (until an
account v9 has undelegated delegates again; accounts removed and registered
again are left out, the comments are silent about them).

## Proofs

All theorems hold for every value of the constants that satisfies the named
assumptions; these are the ones the code's types give (sizes are naturals,
the header tree is a function) and, in `ChainSelection`, that a header's slot
is later than its parent's.

* **`ChainStoreProofs`**: `TypeCorrect`, `LinksCorrect`, `RollbackAtomic` of
  `ChainStore`. The links invariant is not inductive alone: between
  `store_header`'s steps it needs that the transaction holds only the header
  and the link of the call's argument (both present at the commit). For the
  rollback, the invariant says that the point is on the chain and that every
  deletion collected lies at a later slot than the point's.
  `ReadsStay` of `ChainKeys`: the tables are finite, so that the database has
  as many entries as keys and `InOrder` lists any part of it, each entry once
  and in the order of the keys (the number of entries before an entry is an
  injection, and so a bijection onto the places); the first key of an iterator then is the least one from its start, which is a
  chain point exactly if there is a later one.
  `GroupsMatchChildren`: the loop of `load_parents_children` is a function of
  the number of entries read, which exists and has its invariant at every
  number because there is no least one without (`PassExists`, `PassGroups`).
  The groups found so far, with the last one closed, are those of the entries
  read; the next entry has a greater key, so it adds a child to the last group
  or opens one for a parent that has none.
  `Refinement`, `BestChainLinked` and `NextIsChild` of `ChainSelection`: the
  invariant adds that each slot holds a header of that slot, and so never Origin; then a commit of a
  rollback maps to `CutBackTo` its point, a roll forward to `Extend`, and every
  other step to a stutter. `Linked` is preserved by the abstract steps. A
  header and its child on the chain have no point between them, since slots grow
  with parents.
* **`ChainMigrationProofs`**: `MigrationTypes`, `MigrationRebuilds`,
  `OpenCurrent`. During the walk the points stored are closed under parents
  except below the header to be stored next; the database is complete unless
  its version is old, the walk is under way, or a walk was cut.
* **`LedgerSnapshotsProofs`**: `TypeCorrect`, `SnapshotsExact`, `Opens`,
  `PruneKeeps`. While a directory is being copied its files are missing or of
  the live version, which does not change during the call; a directory not in
  the listing holds nothing. For `Opens`, the listing is an interval once the
  epochs below an interrupted prune are gone, and never empty.
* **`LedgerStoreProofs`**: `StoreTypes`, `BlocksOnce`, `PanicOnlyAfterDrop`,
  `MemoryInStep`, `TransitionsOnce`, `ActiveStayActive`. The transaction's own
  contents satisfy the block invariant, at the tip of the store or one block
  further; the flag is set exactly by an open transaction, or by one that was
  dropped; the caller's dormant epochs are those its transaction sees. The
  steps of transitions are counted against the epoch of the tip and the
  progress recorded, in the transaction and on disk, except between the first
  block of an epoch and the clearing of the progress. For the expiries, no DRep
  is given more than a renewal in the current epoch would give it, and what the
  open transaction sees of an active DRep is never below what the disk has.
* **`LedgerEpochsProofs`**: `SnapshotsOfTheEnd`, `Refinement`. The invariant
  joins those of the two sides: every snapshot counted by a transition is there
  and was taken of the last state of its epoch, the files of a directory being
  copied are missing or of the live version, and that version does not change
  meanwhile, because the open transaction has done nothing but go on to
  `SnapshotTaken`. Each disjunct of the next-state relation is
  then a step of `EpochLedger` or a stutter.
* **`DRepDelegationsProofs`**: `DelegationTypes`, `FollowsTheRules`,
  `NoStaleLinks`. The invariant relates each column to the ledger of the rules:
  the pointers of an account and of a DRep lie below the next block, in
  version 9 an account's DRep counts it among its delegators exactly if it has
  not unregistered since, and the past links together with the current DRep
  give every DRep that does so (until a later delegation is undone); from
  version 10 on the DReps count exactly those that delegate to them. A block is taken certificate
  by certificate, as the rules do, and column by column, as `save` does.
* **`TwoStoresProofs`**: `Types`, `Agreement`, `Conservation`. Each function of
  a column has a lemma that gives what the two implementations make of the
  same rows: for pools, DReps, proposals, votes, issuers and the written-back
  rows that they are the same function, for accounts that domain and pools
  agree, for members the types. `save` is their composition, column by column
  (`SaveKeepsStores`); the other calls replace one column (`OneColumn`). The
  invariant is the conjunction of the three properties, which need each other
  (the books are within the supply because lovelace is conserved), and that
  the lovelace on the accounts is a finite set. Its lovelace is counted as a
  set of pairs, an account and a number up to its rewards: a reward or a refund
  adds a pair (`OneMore`), a block removes those of its withdrawals and no
  other (`Withdrawn`).
* **`AmaruAppProofs`**: `AppTypes`, `NodesAreAccountedFor`,
  `RefusalNeedsARace`, `CaughtUpIsFresh`, from one inductive invariant
  (`AppSafety`). The handle is the open view model's, past its start call,
  unless a view model was cleared during that call; the waiting events are in
  the order of their numbers, none before the tip, and the tip is already the
  first one's while a `caught_up` event is half processed; no status, global
  or read, is of a later event than the tip. `LateEventsSettle`: besides, as
  long as the status is behind that of a running node, the queue or a thread
  still holds an event that will move it on.

What is assumed of the constants: in `LedgerColumns`, that None, Unchanged
and Reset are three values apart from all others and that no row is None (the
code's `Option` and `Resettable`); the rest is named in the modules.

Model-checked only: the liveness properties (`MigrationEnds`,
`LastSeenIsShown`; fairness and ENABLED are out of the prover's reach). No
module declares a recursive operator; inductions go by least counterexample
(`FirstSlot`), since the library's induction theorems take an operator as a
parameter.

## Plan

Done: the chain store with its abstract specification, its reads and its
migration, the ledger's snapshots, its transactions and epoch transition, the
two together and the abstract ledger they implement, the DRep columns, the
other columns in both stores, the node and the application. What is left is
what the sections above leave out on purpose. A second writer of the chain
store is not planned: nothing in the repository opens one.

Not modelled: RocksDB itself (a transaction is atomic and a put durable), the
peers and the protocol stages of the `amaru` crate, JNI string conversion, the
layout of the composables, build scripts, and CBOR. Of the ledger's store,
`set_constitution`, `set_proposals_roots`, `remove_proposals` and
`add_drep_delegations` are single puts and deletes that only RocksDB implements;
the iterators of its columns only read.
