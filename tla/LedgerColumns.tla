---------------------------- MODULE LedgerColumns ----------------------------
(***************************************************************************)
(* The rows of the ledger's columns, and what the calls of a transaction   *)
(* of the RocksDB store do to them.  A column is a function whose domain   *)
(* is the set of its keys.  The delegations to DReps and the expiry of     *)
(* DReps are the subject of DRepDelegations and LedgerStore.               *)
(***************************************************************************)
EXTENDS Integers, Sequences, FiniteSets

CONSTANTS Accounts, Pools, Params, Dreps, Members, HotKeys, Outputs,
          Proposals, Voters,
          None,               \* an absent field
          Unchanged, Reset,   \* Resettable, besides a value that is set
          MaxSlot             \* bound: the last block

ASSUME MaxSlotAssumption == MaxSlot \in Nat \ {0}
ASSUME FieldsAssumption ==
    /\ Cardinality({None, Unchanged, Reset}) = 3
    /\ {None, Unchanged, Reset} \cap (Nat \cup Pools \cup HotKeys) = {}

Origin == 0
Never == 0
Slots == 1..MaxSlot

\* Resettable: a field of an update, and what it does to the field of a row.
Resettable(S) == {Unchanged, Reset} \cup S
SetOrReset(update, field) ==
    CASE update = Unchanged -> field
      [] update = Reset -> None
      [] OTHER -> update

\* Rows, and values from which they are added.
Deposit == 2
AccountRow == [pool : Pools \cup {None}, deposit : Nat, rewards : Nat]
AccountValue ==
    [pool : Resettable(Pools), deposit : {None, Deposit}, rewards : {0}]
PoolUpdate == [params : Params \cup {None}, epoch : Slots]
PoolRow == [current : Params, future : Seq(PoolUpdate)]
\* Where the certificates of a block stand.
RegisteredAt(slot) == 2 * slot
RemovedAt(slot) == 2 * slot + 1
Pointers == 2 .. 2 * MaxSlot + 1
DrepRow ==
    [registeredAt : Pointers, unregisteredAt : Pointers \cup {Never}]
MemberRow == [hot : HotKeys \cup {None}, validUntil : Nat \cup {None}]
Vote == {"no", "yes"}

\* A row is not taken for the absence of one.
ASSUME RowsAssumption == None \notin AccountRow \cup PoolRow

\* Rows with a key of their own.
Progress == {None, "EpochEnded", "SnapshotTaken", "EpochStarted"}
Protocols == {9, 10}
Statuses == {"NoConfidence", "Trusted"}

\* A table whose keys are in S and whose rows are in T.
Table(S, T) == UNION {[K -> T] : K \in SUBSET S}
Column(c, S, T) == DOMAIN c \subseteq S /\ \A k \in DOMAIN c : c[k] \in T
Without(c, keys) == [k \in DOMAIN c \ keys |-> c[k]]
\* Rows put in a column, each over the row of its key if there is one.
Put(rows, c) ==
    [k \in DOMAIN rows \cup DOMAIN c |->
        IF k \in DOMAIN rows THEN rows[k] ELSE c[k]]

Columns ==
    {"tip", "issuers", "utxo", "pools", "accounts", "dreps", "members",
     "proposals", "votes", "pots", "progress", "protocol", "committee"}

\* A row of pots that is absent reads as nothing in any pot.
Empty ==
    [tip |-> Origin, issuers |-> <<>>, utxo |-> {}, pools |-> <<>>,
     accounts |-> <<>>, dreps |-> <<>>, members |-> <<>>, proposals |-> <<>>,
     votes |-> <<>>, pots |-> 0, progress |-> None, protocol |-> None,
     committee |-> None]

ColumnsOK(db) ==
    /\ DOMAIN db = Columns
    /\ db.tip \in Slots \cup {Origin}
    /\ Column(db.issuers, Slots, Pools)
    /\ db.utxo \subseteq Outputs
    /\ Column(db.pools, Pools, PoolRow)
    /\ Column(db.accounts, Accounts, AccountRow)
    /\ Column(db.dreps, Dreps, DrepRow)
    /\ Column(db.members, Members, MemberRow)
    /\ Column(db.proposals, Proposals, Slots)
    /\ Column(db.votes, Proposals \X Voters, Vote)
    /\ db.pots \in Nat
    /\ db.progress \in Progress
    /\ db.protocol \in Protocols \cup {None}
    /\ db.committee \in Statuses \cup {None}

-----------------------------------------------------------------------------
\* The columns of RocksDB, one operator per function of columns/*.rs.

\* add gives a pool its updates in order, one or more of them.
AddPools(pools, add) ==
    Put([p \in DOMAIN add |->
            IF p \in DOMAIN pools
            THEN [pools[p] EXCEPT !.future = @ \o add[p]]
            ELSE [current |-> Head(add[p]).params, future |-> Tail(add[p])]],
        pools)

RemovePoolsAtOnce(pools, remove) == Without(pools, DOMAIN remove)

RemovePoolsInPlace(pools, remove) ==
    Put([p \in DOMAIN remove \cap DOMAIN pools |->
            [pools[p] EXCEPT !.current = None]], pools)

\* Removing a pool schedules it as an empty update.
RemovePools(pools, remove) ==
    Put([p \in DOMAIN remove \cap DOMAIN pools |->
            [pools[p] EXCEPT
                !.future = Append(@, [params |-> None, epoch |-> remove[p]])]],
        pools)

AddAccountsAfresh(accounts, add) ==
    Put([a \in DOMAIN add |->
            [pool |-> SetOrReset(add[a].pool, None),
             deposit |-> IF add[a].deposit = None THEN 0 ELSE add[a].deposit,
             rewards |-> add[a].rewards]], accounts)

\* A row that exists keeps its rewards, and its deposit unless it is given one.
AddAccounts(accounts, add) ==
    Put([a \in DOMAIN add |->
            IF a \in DOMAIN accounts
            THEN [accounts[a] EXCEPT
                    !.pool = SetOrReset(add[a].pool, @),
                    !.deposit = IF add[a].deposit = None THEN @
                                ELSE add[a].deposit]
            ELSE [pool |-> SetOrReset(add[a].pool, None),
                  deposit |-> add[a].deposit,
                  rewards |-> add[a].rewards]], accounts)

ResetMany(accounts, withdrawals) ==
    Put([a \in withdrawals \cap DOMAIN accounts |->
            [accounts[a] EXCEPT !.rewards = 0]], accounts)

\* accounts::set, from refund: the account is credited, or the amount is
\* given back.
Refunded(accounts, a, amount) ==
    IF a \in DOMAIN accounts
    THEN [accounts EXCEPT ![a].rewards = @ + amount]
    ELSE accounts

Leftover(accounts, a, amount) == IF a \in DOMAIN accounts THEN 0 ELSE amount

\* Without expiry and anchor. A row that is registered again keeps its
\* previous_deregistration; an update of an unknown DRep is dropped.
AddDreps(dreps, add) ==
    Put([d \in {e \in DOMAIN add : add[e] # None} |->
            [registeredAt |-> add[d],
             unregisteredAt |-> IF d \in DOMAIN dreps
                                THEN dreps[d].unregisteredAt ELSE Never]], dreps)

RemoveDreps(dreps, remove) ==
    Put([d \in DOMAIN remove \cap DOMAIN dreps |->
            [dreps[d] EXCEPT !.unregisteredAt = remove[d]]], dreps)

UpsertMembers(members, add) ==
    Put([m \in DOMAIN add |->
            LET row == IF m \in DOMAIN members THEN members[m]
                       ELSE [hot |-> None, validUntil |-> None]
            IN  [hot |-> SetOrReset(add[m].hot, row.hot),
                 validUntil |-> SetOrReset(add[m].validUntil, row.validUntil)]],
        members)

\* update_constitutional_committee.
UpdateCommittee(members, added, removed) ==
    UpsertMembers(
        UpsertMembers(members,
            [m \in removed |-> [hot |-> Unchanged, validUntil |-> Reset]]),
        [m \in DOMAIN added |-> [hot |-> Unchanged, validUntil |-> added[m]]])

\* proposals::add, votes::add: put, whatever is there.
AddProposals(proposals, add) == Put(add, proposals)
AddVotesOnce(votes, add) == Put(votes, add)
AddVotes(votes, add) == Put(add, votes)

\* try_epoch_transition.
Swapped(progress, from, to) == IF progress = from THEN to ELSE progress

\* save: additions, withdrawals, then removals. Removals of members are passed
\* to it and not read.
SaveColumns(db, b) ==
    [db EXCEPT
        !.tip = b.slot,
        !.issuers = IF b.issuer = None THEN @
                    ELSE Put([s \in {b.slot} |-> b.issuer], @),
        !.utxo = (@ \cup b.add.utxo) \ b.remove.utxo,
        !.pools = RemovePools(AddPools(@, b.add.pools), b.remove.pools),
        !.accounts = Without(ResetMany(AddAccounts(@, b.add.accounts),
                                       b.withdrawals),
                             b.remove.accounts),
        !.dreps = RemoveDreps(AddDreps(@, b.add.dreps), b.remove.dreps),
        !.members = UpsertMembers(@, b.add.members),
        !.proposals = AddProposals(@, b.add.proposals),
        !.votes = AddVotes(@, b.add.votes)]

AlreadyKnown(db, b) == b.slot <= db.tip

Saved(db, b) == IF AlreadyKnown(db, b) THEN db ELSE SaveColumns(db, b)

\* with_prefix_iterator, from with_accounts, with_pools...: the caller is given the rows one by one, and may
\* change or drop each; what it has done is written back.
WrittenBack(column, updates) ==
    [k \in {j \in DOMAIN column : j \notin DOMAIN updates \/ updates[j] # None} |->
        IF k \in DOMAIN updates THEN updates[k] ELSE column[k]]
=============================================================================
