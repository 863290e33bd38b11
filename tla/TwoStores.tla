------------------------------ MODULE TwoStores ------------------------------
(***************************************************************************)
(* The two implementations of the ledger's store side by side, given the   *)
(* same calls: the tests of the crate are written once for both (lib.rs).  *)
(* A caller saves blocks, refunds deposits, pays rewards, moves lovelace   *)
(* in and out of the pots, applies the updates of pools and drops what has *)
(* expired at an epoch boundary, and sets what it enacts.                  *)
(* Transactions are the subject of LedgerStore: the in-memory store has    *)
(* none, so that what is compared is what a transaction of RocksDB sees.   *)
(***************************************************************************)
EXTENDS MemoryColumns

CONSTANTS
    Groups,    \* bound: the sets of columns that one behaviour changes
    Supply     \* bound: the lovelace the caller has to pay out

ASSUME GroupsAssumption == Groups \subseteq SUBSET Columns
ASSUME SupplyAssumption == Supply \in Nat

VARIABLES
    rocks,    \* the columns of RocksDB, as the transaction sees them
    memory,   \* the columns of the in-memory store
    books,    \* lovelace in the caller's hand, and (history) withdrawn
    group     \* the columns that this behaviour changes

vars == <<rocks, memory, books, group>>

Book == [held : 0..Supply, withdrawn : 0..Supply]

\* Both stores hold rows of their types.
TypeOK ==
    /\ ColumnsOK(rocks)
    /\ ColumnsOK(memory)
    /\ books \in Book
    /\ group \in Groups

Init ==
    /\ rocks = Empty
    /\ \E protocol \in Protocols : memory = MemoryEmpty(protocol)
    /\ books = [held |-> Supply, withdrawn |-> 0]
    /\ group \in Groups

-----------------------------------------------------------------------------
\* The blocks the ledger saves: the columns are independent of each other in
\* both stores, so that a block changes one column, a row or two of it, and a
\* behaviour the columns of one group.  No call in the repository removes
\* committee members.

NothingAdded ==
    [utxo |-> {}, pools |-> <<>>, accounts |-> <<>>, dreps |-> <<>>,
     members |-> <<>>, proposals |-> <<>>, votes |-> <<>>]
NothingRemoved ==
    [utxo |-> {}, pools |-> <<>>, accounts |-> {}, dreps |-> <<>>,
     members |-> {}, proposals |-> <<>>, votes |-> <<>>]

Block(s, issuer, column, add, remove, withdrawals) ==
    [slot |-> s, issuer |-> issuer,
     add |-> [NothingAdded EXCEPT ![column] = add],
     remove |-> [NothingRemoved EXCEPT ![column] = remove],
     withdrawals |-> withdrawals]

AccountBlocks(s) ==
    UNION {
        {Block(s, None, "accounts", add, remove, withdrawals) :
            add \in Table({a}, AccountValue), remove \in SUBSET {a},
            withdrawals \in SUBSET {a}} : a \in Accounts}

UtxoBlocks(s) ==
    {Block(s, issuer, "utxo", add, remove, {}) :
        issuer \in Pools, add \in SUBSET Outputs, remove \in SUBSET Outputs}
\* One update of a pool in a block, or (a bound: when no other column changes)
\* two that differ.
PoolUpdates(s) ==
    LET updates == [params : Params, epoch : {s}]
    IN  {<<u>> : u \in updates}
        \cup {t \in updates \X updates : group = {"pools"} /\ t[1] # t[2]}
PoolBlocks(s) ==
    {Block(s, None, "pools", add, remove, {}) :
        add \in Table(Pools, PoolUpdates(s)), remove \in Table(Pools, {s})}
DrepBlocks(s) ==
    {Block(s, None, "dreps", add, remove, {}) :
        add \in Table(Dreps, {None, RegisteredAt(s)}),
        remove \in Table(Dreps, {RemovedAt(s)})}
MemberBlocks(s) ==
    {Block(s, None, "members", add, {}, {}) :
        add \in Table(Members, [hot : {Reset} \cup HotKeys,
                                validUntil : {Unchanged}])}
ProposalBlocks(s) ==
    {[Block(s, None, "proposals", proposed, <<>>, {}) EXCEPT !.add.votes = votes] :
        proposed \in Table(Proposals, {s}),
        votes \in UNION {Table({<<p, v>>}, Vote) :
                            p \in Proposals, v \in Voters}}

Blocks(s) ==
    UNION {CASE column = "accounts" -> AccountBlocks(s)
             [] column = "utxo" -> UtxoBlocks(s)
             [] column = "pools" -> PoolBlocks(s)
             [] column = "dreps" -> DrepBlocks(s)
             [] column = "members" -> MemberBlocks(s)
             [] column = "proposals" -> ProposalBlocks(s)
             [] OTHER -> {} : column \in group}

\* What the ledger has checked of a block: outputs are spent after they are
\* created, accounts delegate to known pools and are removed without rewards,
\* pools and DReps are updated or removed when they are there, and votes are
\* on proposals that are.
ValidAccounts(b, db) ==
    /\ \A a \in DOMAIN b.add.accounts : LET v == b.add.accounts[a] IN
          /\ v.deposit = None => a \in DOMAIN db.accounts
          /\ v.deposit # None /\ a \in DOMAIN db.accounts => a \in b.withdrawals
          /\ v.pool \in Pools => v.pool \in DOMAIN db.pools
          /\ a \notin b.remove.accounts
    /\ b.withdrawals \cup b.remove.accounts \subseteq DOMAIN db.accounts
    /\ \A a \in b.remove.accounts :
          a \in b.withdrawals \/ db.accounts[a].rewards = 0

IsRegistered(db, d) ==
    /\ d \in DOMAIN db.dreps
    /\ db.dreps[d].registeredAt > db.dreps[d].unregisteredAt

ValidOthers(b, db) ==
    /\ b.add.utxo \cap db.utxo = {} /\ b.remove.utxo \subseteq db.utxo
    /\ DOMAIN b.remove.pools \subseteq DOMAIN db.pools \cup DOMAIN b.add.pools
    /\ \A d \in DOMAIN b.add.dreps : b.add.dreps[d] = None <=> IsRegistered(db, d)
    /\ \A d \in DOMAIN b.remove.dreps :
          d \in DOMAIN b.add.dreps \/ IsRegistered(db, d)
    /\ DOMAIN b.add.proposals \cap DOMAIN db.proposals = {}
    /\ \A k \in DOMAIN b.add.votes :
          k[1] \in DOMAIN db.proposals \cup DOMAIN b.add.proposals

-----------------------------------------------------------------------------
\* Each call is made of both stores.

\* The lovelace of the rewards, one by one.
Lovelace(accounts, keys) ==
    UNION {{a} \X (1..accounts[a].rewards) : a \in keys \cap DOMAIN accounts}

Total(accounts, keys) == Cardinality(Lovelace(accounts, keys))

\* A block that is already known is given again, or the next one.
Save(b) ==
    /\ ValidAccounts(b, rocks) /\ ValidOthers(b, rocks)
    /\ rocks' = Saved(rocks, b)
    /\ memory' = MemorySaved(memory, b)
    /\ books' = [books EXCEPT !.withdrawn =
                    @ + IF AlreadyKnown(rocks, b) THEN 0
                        ELSE Total(rocks.accounts, b.withdrawals)]
    /\ UNCHANGED group

\* refund: what the account cannot receive is given back to the caller.
Refund(a) ==
    /\ "accounts" \in group
    /\ books.held > 0
    /\ rocks' = [rocks EXCEPT !.accounts = Refunded(@, a, 1)]
    /\ memory' = [memory EXCEPT !.accounts = MemoryRefunded(@, a, 1)]
    /\ books' = [books EXCEPT !.held = @ - 1 + Leftover(rocks.accounts, a, 1)]
    /\ UNCHANGED group

\* with_pots: the caller moves some lovelace between a pot and its hand. In
\* RocksDB the row is read, changed through the proxy and put back.
WithPots ==
    /\ "pots" \in group
    /\ \E pots \in 0 .. rocks.pots + books.held :
          /\ rocks' = [rocks EXCEPT !.pots = pots]
          /\ memory' = [memory EXCEPT !.pots = @ + (pots - rocks.pots)]
          /\ books' = [books EXCEPT !.held = @ + rocks.pots - pots]
    /\ UNCHANGED group

\* with_accounts, to pay a reward.
Credit(accounts, a) ==
    IF a \in DOMAIN accounts
    THEN [b \in {a} |-> [accounts[b] EXCEPT !.rewards = @ + 1]]
    ELSE <<>>

WithAccounts(a) ==
    /\ a \in DOMAIN rocks.accounts
    /\ books.held > 0
    /\ rocks' = [rocks EXCEPT !.accounts = WrittenBack(@, Credit(@, a))]
    /\ memory' = [memory EXCEPT !.accounts = MemoryRebuilt(@, Credit(@, a))]
    /\ books' = [books EXCEPT !.held = @ - 1]
    /\ UNCHANGED group

\* with_pools, to apply the first update of the pools that have one: a pool is
\* given its new parameters, or reaped.
Ticked(pools) ==
    [p \in {q \in DOMAIN pools : pools[q].future # <<>>} |->
        LET update == Head(pools[p].future) IN
        IF update.params = None THEN None
        ELSE [current |-> update.params, future |-> Tail(pools[p].future)]]

WithPools ==
    /\ rocks' = [rocks EXCEPT !.pools = WrittenBack(@, Ticked(@))]
    /\ memory' = [memory EXCEPT !.pools = MemoryRebuilt(@, Ticked(@))]
    /\ UNCHANGED <<books, group>>

\* with_block_issuers, to forget those of an epoch; with_proposals, to drop
\* those that have expired.  Votes stay.
Dropped(keys) == [k \in keys |-> None]

WithBlockIssuers ==
    /\ rocks' = [rocks EXCEPT !.issuers = WrittenBack(@, Dropped(DOMAIN @))]
    /\ memory' = [memory EXCEPT !.issuers = MemoryRebuilt(@, Dropped(DOMAIN @))]
    /\ UNCHANGED <<books, group>>

WithProposals(expired) ==
    /\ rocks' = [rocks EXCEPT !.proposals = WrittenBack(@, Dropped(expired))]
    /\ memory' = [memory EXCEPT !.proposals = MemoryRebuilt(@, Dropped(expired))]
    /\ UNCHANGED <<books, group>>

\* try_epoch_transition.
EpochTransition(from, to) ==
    /\ "progress" \in group
    /\ rocks' = [rocks EXCEPT !.progress = Swapped(@, from, to)]
    /\ memory' = [memory EXCEPT !.progress = MemorySwapped(@, from, to)]
    /\ UNCHANGED <<books, group>>

SetProtocolParameters(protocol) ==
    /\ "protocol" \in group
    /\ rocks' = [rocks EXCEPT !.protocol = protocol]
    /\ memory' = [memory EXCEPT !.protocol = protocol]
    /\ UNCHANGED <<books, group>>

\* update_constitutional_committee; in memory only the status is kept.
Committee(status, added, removed) ==
    /\ "members" \in group
    /\ rocks' = [rocks EXCEPT !.members = UpdateCommittee(@, added, removed),
                              !.committee = status]
    /\ memory' = [memory EXCEPT !.committee = status]
    /\ UNCHANGED <<books, group>>

Next ==
    \/ \E s \in Slots \cap {rocks.tip, rocks.tip + 1} :
          \E b \in Blocks(s) : Save(b)
    \/ \E a \in Accounts : Refund(a) \/ WithAccounts(a)
    \/ WithPots \/ WithPools \/ WithBlockIssuers
    \/ \E expired \in SUBSET DOMAIN rocks.proposals : WithProposals(expired)
    \/ \E from, to \in Progress : EpochTransition(from, to)
    \/ \E protocol \in Protocols : SetProtocolParameters(protocol)
    \/ \E status \in Statuses, added \in Table(Members, {MaxSlot}),
           removed \in SUBSET Members : Committee(status, added, removed)

Spec == Init /\ [][Next]_vars

-----------------------------------------------------------------------------
\* In RocksDB no lovelace is lost or made: of what the caller had, what it
\* does not hold is on an account, in a pot or withdrawn, through
\* registrations, delegations, removals, refunds that fail and replays.
LovelaceIsConserved ==
    Total(rocks.accounts, Accounts) + rocks.pots + books.withdrawn + books.held
        = Supply

\* The two stores have the same tip, issuers, outputs, pools, DReps, proposals,
\* votes, pots and progress, the same accounts with the same pools, and the
\* protocol parameters and the status of the committee once they are set
\* (deposits, rewards and the members of the committee do differ).
StoresAgree ==
    /\ memory.tip = rocks.tip
    /\ memory.issuers = rocks.issuers
    /\ memory.utxo = rocks.utxo
    /\ memory.pools = rocks.pools
    /\ memory.dreps = rocks.dreps
    /\ DOMAIN memory.accounts = DOMAIN rocks.accounts
    /\ \A a \in DOMAIN memory.accounts :
          memory.accounts[a].pool = rocks.accounts[a].pool
    /\ memory.proposals = rocks.proposals
    /\ memory.votes = rocks.votes
    /\ memory.pots = rocks.pots
    /\ memory.progress = rocks.progress
    /\ rocks.protocol \in {None, memory.protocol}
    /\ rocks.committee \in {None, memory.committee}
=============================================================================
