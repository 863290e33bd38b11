---------------------------- MODULE MemoryColumns ----------------------------
(***************************************************************************)
(* The columns of the in-memory store, translated from its own code.  It   *)
(* has no transaction: a call takes effect at once, and neither commit nor *)
(* rollback does anything.                                                 *)
(***************************************************************************)
EXTENDS LedgerColumns

\* It is created with protocol parameters.
MemoryEmpty(protocol) ==
    [Empty EXCEPT !.protocol = protocol, !.committee = "NoConfidence"]

MemoryAddPools(pools, add) ==
    LET pushed == [p \in DOMAIN add \cap DOMAIN pools |->
                      [current |-> pools[p].current,
                       future |-> pools[p].future \o add[p]]]
        inserted == [p \in DOMAIN add \ DOMAIN pools |->
                        [current |-> add[p][1].params,
                         future |-> SubSeq(add[p], 2, Len(add[p]))]]
    IN  Put(pushed, Put(inserted, pools))

MemoryRemovePools(pools, remove) ==
    [p \in DOMAIN pools |->
        IF p \in DOMAIN remove
        THEN [current |-> pools[p].current,
              future |-> pools[p].future
                            \o <<[params |-> None, epoch |-> remove[p]]>>]
        ELSE pools[p]]

\* The third field of the value is taken for the rewards and the fourth for
\* the deposit.
MemoryAddAccounts(accounts, add) ==
    Put([a \in DOMAIN add |->
            LET row == IF a \in DOMAIN accounts THEN accounts[a]
                       ELSE [pool |-> None, deposit |-> 0, rewards |-> 0]
            IN  [pool |-> SetOrReset(add[a].pool, row.pool),
                 deposit |-> add[a].rewards,
                 rewards |-> IF add[a].deposit = None THEN row.rewards
                             ELSE add[a].deposit]], accounts)

MemoryResetMany(accounts, withdrawals) ==
    [a \in DOMAIN accounts |->
        IF a \in withdrawals THEN [accounts[a] EXCEPT !.rewards = 0]
        ELSE accounts[a]]

\* Without the anchor, and the expiry, which it does not renew.
MemoryAddDreps(dreps, add) ==
    LET registered == {d \in DOMAIN add : add[d] # None}
        updated == [d \in registered \cap DOMAIN dreps |->
                      [dreps[d] EXCEPT !.registeredAt = add[d]]]
        inserted == [d \in registered \ DOMAIN dreps |->
                      [registeredAt |-> add[d], unregisteredAt |-> Never]]
    IN  Put(updated, Put(inserted, dreps))

MemoryRemoveDreps(dreps, remove) ==
    [d \in DOMAIN dreps |->
        IF d \in DOMAIN remove
        THEN [dreps[d] EXCEPT !.unregisteredAt = remove[d]]
        ELSE dreps[d]]

\* A member is only created with a validity, and its validity is not updated.
MemoryAddMembers(members, add) ==
    Put([m \in {n \in DOMAIN add : \/ n \in DOMAIN members
                                   \/ add[n].validUntil \in Slots} |->
            LET row == IF m \in DOMAIN members THEN members[m]
                       ELSE [hot |-> None, validUntil |-> add[m].validUntil]
            IN  [row EXCEPT !.hot = SetOrReset(add[m].hot, @)]], members)

MemoryInserted(column, add) == Put(add, column)

\* save: DReps are removed after the accounts, as in RocksDB; nothing depends
\* on it here.
MemorySaved(db, b) ==
    IF b.slot <= db.tip THEN db
    ELSE [db EXCEPT
            !.tip = b.slot,
            !.issuers = IF b.issuer = None THEN @
                        ELSE MemoryInserted(@, [s \in {b.slot} |-> b.issuer]),
            !.utxo = (@ \cup b.add.utxo) \ b.remove.utxo,
            !.pools = MemoryRemovePools(MemoryAddPools(@, b.add.pools),
                                        b.remove.pools),
            !.accounts = Without(MemoryResetMany(
                                    MemoryAddAccounts(@, b.add.accounts),
                                    b.withdrawals),
                                 b.remove.accounts),
            !.dreps = MemoryRemoveDreps(MemoryAddDreps(@, b.add.dreps),
                                        b.remove.dreps),
            !.members = Without(MemoryAddMembers(@, b.add.members),
                                b.remove.members),
            !.proposals = MemoryInserted(@, b.add.proposals),
            !.votes = MemoryInserted(@, b.add.votes)]

MemorySwapped(progress, from, to) == IF progress # from THEN progress ELSE to

MemoryRefunded(accounts, a, amount) ==
    [b \in DOMAIN accounts |->
        IF b = a THEN [accounts[b] EXCEPT !.rewards = @ + amount] ELSE accounts[b]]

\* with_column: the rows are taken out of the store, handed to the caller, and
\* those still there put back.
MemoryRebuilt(column, updates) ==
    LET handed == [k \in DOMAIN column |->
                      IF k \in DOMAIN updates THEN updates[k] ELSE column[k]]
    IN  [k \in {j \in DOMAIN column : handed[j] # None} |-> handed[k]]
=============================================================================
