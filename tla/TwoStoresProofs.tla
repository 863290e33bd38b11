---------------------------- MODULE TwoStoresProofs ----------------------------
(***************************************************************************)
(* Proofs about TwoStores, for all sets of accounts, pools, DReps, members,*)
(* outputs, proposals and voters, any number of slots and any supply: the  *)
(* in-memory store and the columns of RocksDB agree, and RocksDB neither   *)
(* loses nor makes lovelace.  Each column has a lemma that relates what    *)
(* the two implementations do to it.                                       *)
(***************************************************************************)
EXTENDS TwoStores, FiniteSetTheorems, SequenceTheorems, TLAPS

-----------------------------------------------------------------------------
(* Fields and tables.                                                      *)

LEMMA Pair ==
    ASSUME NEW x, NEW y
    PROVE  IsFiniteSet({x, y}) /\ Cardinality({x, y}) <= 2
<1>1. IsFiniteSet({x}) /\ Cardinality({x}) = 1
  BY FS_Singleton
<1>2. {x} \cup {y} = {x, y}
  OBVIOUS
<1>3. IsFiniteSet({x} \cup {y})
      /\ Cardinality({x} \cup {y}) = IF y \in {x} THEN 1 ELSE 1 + 1
  BY <1>1, FS_AddElement
<1>. QED  BY <1>2, <1>3

\* None, Unchanged and Reset are no values, and differ.
LEMMA Fields ==
    /\ None # Unchanged /\ None # Reset /\ Unchanged # Reset
    /\ \A x \in {None, Unchanged, Reset} :
          x \notin Nat /\ x \notin Pools /\ x \notin HotKeys
<1>1. Cardinality({None, Unchanged, Reset}) = 3
  BY FieldsAssumption
<1>2. ASSUME NEW x, NEW y, {None, Unchanged, Reset} = {x, y}
      PROVE  FALSE
  <2>1. Cardinality({x, y}) <= 2
    BY Pair
  <2>2. Cardinality({x, y}) = 3
    BY <1>1, <1>2
  <2>. QED  BY <2>1, <2>2
<1>3. None # Unchanged /\ None # Reset /\ Unchanged # Reset
  <2>1. None = Unchanged => {None, Unchanged, Reset} = {None, Reset}
    OBVIOUS
  <2>2. None = Reset => {None, Unchanged, Reset} = {None, Unchanged}
    OBVIOUS
  <2>3. Unchanged = Reset => {None, Unchanged, Reset} = {None, Unchanged}
    OBVIOUS
  <2>. QED  BY <1>2, <2>1, <2>2, <2>3
<1>. QED  BY <1>3, FieldsAssumption

\* What an update does to a field.
LEMMA SetOrResetValues ==
    ASSUME NEW S, NEW update \in Resettable(S), NEW field,
           Unchanged \notin S, Reset \notin S
    PROVE  /\ update = Unchanged => SetOrReset(update, field) = field
           /\ update = Reset => SetOrReset(update, field) = None
           /\ update \in S => SetOrReset(update, field) = update
           /\ SetOrReset(update, field) \in S \cup {None, field}
BY Fields DEF SetOrReset, Resettable

LEMMA PutEffect ==
    ASSUME NEW rows, NEW c
    PROVE  /\ DOMAIN Put(rows, c) = DOMAIN rows \cup DOMAIN c
           /\ \A k \in DOMAIN rows : Put(rows, c)[k] = rows[k]
           /\ \A k \in DOMAIN c : k \notin DOMAIN rows => Put(rows, c)[k] = c[k]
BY DEF Put

LEMMA PutColumn ==
    ASSUME NEW S, NEW T, NEW rows, NEW c, Column(rows, S, T), Column(c, S, T)
    PROVE  Column(Put(rows, c), S, T)
BY DEF Column, Put

LEMMA WithoutEffect ==
    ASSUME NEW c, NEW keys
    PROVE  /\ DOMAIN Without(c, keys) = DOMAIN c \ keys
           /\ \A k \in DOMAIN c \ keys : Without(c, keys)[k] = c[k]
BY DEF Without

LEMMA TableRows ==
    ASSUME NEW S, NEW T, NEW t \in Table(S, T)
    PROVE  Column(t, S, T)
BY DEF Table, Column

IsFcn(f) == f = [x \in DOMAIN f |-> f[x]]

LEMMA SameFunction ==
    ASSUME NEW f, NEW g, IsFcn(f), IsFcn(g), DOMAIN f = DOMAIN g,
           \A x \in DOMAIN f : f[x] = g[x]
    PROVE  f = g
BY DEF IsFcn

LEMMA PutIsFcn ==
    ASSUME NEW rows, NEW c
    PROVE  IsFcn(Put(rows, c))
BY DEF IsFcn, Put

-----------------------------------------------------------------------------
(* Pools: pools::add and pools::remove.                                    *)

LEMMA Queued ==
    ASSUME NEW row \in PoolRow, NEW update
    PROVE  [row EXCEPT !.future = Append(@, update)]
              = [current |-> row.current, future |-> Append(row.future, update)]
<1>. DEFINE more == Append(row.future, update)
<1>1. row = [current |-> row.current, future |-> row.future]
  BY DEF PoolRow
<1>. HIDE DEF more
<1>2. [row EXCEPT !.future = more] = [current |-> row.current, future |-> more]
  BY <1>1
<1>. QED  BY <1>2 DEF more

LEMMA Concatenated ==
    ASSUME NEW row \in PoolRow, NEW updates
    PROVE  [row EXCEPT !.future = @ \o updates]
              = [current |-> row.current, future |-> row.future \o updates]
<1>. DEFINE more == row.future \o updates
<1>1. row = [current |-> row.current, future |-> row.future]
  BY DEF PoolRow
<1>. HIDE DEF more
<1>2. [row EXCEPT !.future = more] = [current |-> row.current, future |-> more]
  BY <1>1
<1>. QED  BY <1>2 DEF more

PoolAdded == Seq([params : Params, epoch : Slots]) \ {<<>>}

LEMMA AddPoolsAgree ==
    ASSUME NEW pools, Column(pools, Pools, PoolRow),
           NEW add, Column(add, Pools, PoolAdded)
    PROVE  /\ Column(AddPools(pools, add), Pools, PoolRow)
           /\ MemoryAddPools(pools, add) = AddPools(pools, add)
           /\ DOMAIN AddPools(pools, add) = DOMAIN add \cup DOMAIN pools
<1>. DEFINE new == [p \in DOMAIN add |->
                      IF p \in DOMAIN pools
                      THEN [pools[p] EXCEPT !.future = @ \o add[p]]
                      ELSE [current |-> Head(add[p]).params,
                            future |-> Tail(add[p])]]
            pushed == [p \in DOMAIN add \cap DOMAIN pools |->
                         [current |-> pools[p].current,
                          future |-> pools[p].future \o add[p]]]
            inserted == [p \in DOMAIN add \ DOMAIN pools |->
                           [current |-> add[p][1].params,
                            future |-> SubSeq(add[p], 2, Len(add[p]))]]
<1>1. ASSUME NEW p \in DOMAIN add
      PROVE  /\ add[p] \in Seq(PoolUpdate)
             /\ Head(add[p]) = add[p][1] /\ Head(add[p]).params \in Params
             /\ Tail(add[p]) = SubSeq(add[p], 2, Len(add[p]))
             /\ Tail(add[p]) \in Seq(PoolUpdate)
  <2>. DEFINE given == [params : Params, epoch : Slots]
  <2>1. add[p] \in Seq(given) /\ add[p] # <<>>
    BY DEF Column, PoolAdded
  <2>2. given \subseteq PoolUpdate
    BY DEF PoolUpdate
  <2>3. Head(add[p]) \in given /\ Tail(add[p]) \in Seq(given)
    <3>. HIDE DEF given
    <3>. QED  BY <2>1, HeadTailProperties
  <2>4. /\ Head(add[p]) = add[p][1]
        /\ Tail(add[p]) = SubSeq(add[p], 2, Len(add[p]))
    <3>. HIDE DEF given
    <3>. QED  BY <2>1, TailIsSubSeq
  <2>5. Seq(given) \subseteq Seq(PoolUpdate)
    <3>. HIDE DEF given
    <3>. QED  BY <2>2
  <2>. QED  BY <2>1, <2>3, <2>4, <2>5
<1>2. ASSUME NEW p \in DOMAIN pools
      PROVE  /\ pools[p].current \in Params
             /\ pools[p].future \in Seq(PoolUpdate)
             /\ pools[p] = [current |-> pools[p].current, future |-> pools[p].future]
  BY DEF Column, PoolRow
<1>3. ASSUME NEW p \in DOMAIN add, p \in DOMAIN pools
      PROVE  new[p] \in PoolRow /\ new[p] = pushed[p]
  <2>1. pools[p].future \o add[p] \in Seq(PoolUpdate)
    BY <1>1, <1>2, <1>3, ConcatProperties
  <2>2. new[p] = [current |-> pools[p].current,
                  future |-> pools[p].future \o add[p]]
    <3>1. pools[p] \in PoolRow
      BY <1>3 DEF Column
    <3>2. new[p] = [pools[p] EXCEPT !.future = @ \o add[p]]
      BY <1>3
    <3>. QED  BY <3>1, <3>2, Concatenated
  <2>. QED  BY <1>2, <1>3, <2>1, <2>2 DEF PoolRow
<1>4. ASSUME NEW p \in DOMAIN add, p \notin DOMAIN pools
      PROVE  new[p] \in PoolRow /\ new[p] = inserted[p]
  BY <1>1, <1>4 DEF PoolRow
<1>5. /\ DOMAIN new = DOMAIN add /\ DOMAIN pushed = DOMAIN add \cap DOMAIN pools
      /\ DOMAIN inserted = DOMAIN add \ DOMAIN pools
  OBVIOUS
<1>6. AddPools(pools, add) = Put(new, pools)
  BY DEF AddPools
<1>7. MemoryAddPools(pools, add) = Put(pushed, Put(inserted, pools))
  BY DEF MemoryAddPools
<1>. HIDE DEF new, pushed, inserted
<1>8. Column(new, Pools, PoolRow)
  BY <1>3, <1>4, <1>5 DEF Column
<1>9. Put(new, pools) = Put(pushed, Put(inserted, pools))
  <2>. DEFINE rest == Put(inserted, pools)
  <2>1. /\ DOMAIN Put(new, pools) = DOMAIN new \cup DOMAIN pools
        /\ \A p \in DOMAIN new : Put(new, pools)[p] = new[p]
        /\ \A p \in DOMAIN pools : p \notin DOMAIN new => Put(new, pools)[p] = pools[p]
    BY PutEffect
  <2>2. /\ DOMAIN rest = DOMAIN inserted \cup DOMAIN pools
        /\ \A p \in DOMAIN inserted : rest[p] = inserted[p]
        /\ \A p \in DOMAIN pools : p \notin DOMAIN inserted => rest[p] = pools[p]
    BY PutEffect
  <2>. HIDE DEF rest
  <2>3. /\ DOMAIN Put(pushed, rest) = DOMAIN pushed \cup DOMAIN rest
        /\ \A p \in DOMAIN pushed : Put(pushed, rest)[p] = pushed[p]
        /\ \A p \in DOMAIN rest : p \notin DOMAIN pushed => Put(pushed, rest)[p] = rest[p]
    BY PutEffect
  <2>4. DOMAIN Put(new, pools) = DOMAIN Put(pushed, rest)
    BY <1>5, <2>1, <2>2, <2>3
  <2>5. ASSUME NEW p \in DOMAIN Put(new, pools)
        PROVE  Put(new, pools)[p] = Put(pushed, rest)[p]
    <3>1. CASE p \in DOMAIN add /\ p \in DOMAIN pools
      BY <1>3, <1>5, <2>1, <2>3, <3>1
    <3>2. CASE p \in DOMAIN add /\ p \notin DOMAIN pools
      BY <1>4, <1>5, <2>1, <2>2, <2>3, <3>2
    <3>3. CASE p \notin DOMAIN add
      BY <1>5, <2>1, <2>2, <2>3, <3>3
    <3>. QED  BY <3>1, <3>2, <3>3
  <2>6. Put(new, pools) = Put(pushed, rest)
    <3>1. IsFcn(Put(new, pools)) /\ IsFcn(Put(pushed, rest))
      BY PutIsFcn
    <3>. QED  BY <2>4, <2>5, <3>1, SameFunction
  <2>. QED  BY <2>6 DEF rest
<1>10. Column(Put(new, pools), Pools, PoolRow)
  BY <1>8, PutColumn
<1>11. DOMAIN Put(new, pools) = DOMAIN add \cup DOMAIN pools
  BY <1>5, PutEffect
<1>. QED  BY <1>6, <1>7, <1>9, <1>10, <1>11

LEMMA RemovePoolsAgree ==
    ASSUME NEW pools, Column(pools, Pools, PoolRow),
           NEW remove, Column(remove, Pools, Slots)
    PROVE  /\ Column(RemovePools(pools, remove), Pools, PoolRow)
           /\ MemoryRemovePools(pools, remove) = RemovePools(pools, remove)
<1>. DEFINE gone(p) == [params |-> None, epoch |-> remove[p]]
            new == [p \in DOMAIN remove \cap DOMAIN pools |->
                      [pools[p] EXCEPT !.future = Append(@, gone(p))]]
            row(p) == [current |-> pools[p].current,
                       future |-> pools[p].future \o <<gone(p)>>]
            old == [p \in DOMAIN pools |->
                      IF p \in DOMAIN remove THEN row(p) ELSE pools[p]]
<1>1. ASSUME NEW p \in DOMAIN remove
      PROVE  gone(p) \in PoolUpdate
  BY DEF Column, PoolUpdate
<1>2. ASSUME NEW p \in DOMAIN pools
      PROVE  /\ pools[p].current \in Params
             /\ pools[p].future \in Seq(PoolUpdate)
             /\ pools[p] = [current |-> pools[p].current, future |-> pools[p].future]
  BY DEF Column, PoolRow
<1>3. ASSUME NEW p \in DOMAIN remove, p \in DOMAIN pools
      PROVE  new[p] \in PoolRow /\ new[p] = row(p)
  <2>. HIDE DEF gone
  <2>1. Append(pools[p].future, gone(p)) \in Seq(PoolUpdate)
    BY <1>1, <1>2, <1>3, AppendProperties
  <2>2. Append(pools[p].future, gone(p)) = pools[p].future \o <<gone(p)>>
    BY <1>1, <1>2, <1>3, AppendIsConcat
  <2>3. new[p] = [current |-> pools[p].current,
                  future |-> Append(pools[p].future, gone(p))]
    <3>1. pools[p] \in PoolRow
      BY <1>3 DEF Column
    <3>2. new[p] = [pools[p] EXCEPT !.future = Append(@, gone(p))]
      BY <1>3
    <3>. QED  BY <3>1, <3>2, Queued
  <2>. QED  BY <1>2, <1>3, <2>1, <2>2, <2>3 DEF PoolRow
<1>4. DOMAIN new = DOMAIN remove \cap DOMAIN pools /\ DOMAIN old = DOMAIN pools
      /\ \A p \in DOMAIN pools :
            old[p] = IF p \in DOMAIN remove THEN row(p) ELSE pools[p]
  OBVIOUS
<1>5. RemovePools(pools, remove) = Put(new, pools)
  BY DEF RemovePools
<1>6. MemoryRemovePools(pools, remove) = old
  BY DEF MemoryRemovePools
<1>7. IsFcn(old)
  BY DEF IsFcn
<1>. HIDE DEF new, old, row
<1>8. Column(new, Pools, PoolRow)
  BY <1>3, <1>4 DEF Column
<1>9. Put(new, pools) = old
  <2>1. /\ DOMAIN Put(new, pools) = DOMAIN new \cup DOMAIN pools
        /\ \A p \in DOMAIN new : Put(new, pools)[p] = new[p]
        /\ \A p \in DOMAIN pools : p \notin DOMAIN new => Put(new, pools)[p] = pools[p]
    BY PutEffect
  <2>2. DOMAIN Put(new, pools) = DOMAIN old
    BY <1>4, <2>1
  <2>3. ASSUME NEW p \in DOMAIN Put(new, pools)
        PROVE  Put(new, pools)[p] = old[p]
    <3>1. CASE p \in DOMAIN remove
      BY <1>3, <1>4, <2>1, <2>2, <3>1
    <3>2. CASE p \notin DOMAIN remove
      BY <1>4, <2>1, <2>2, <3>2
    <3>. QED  BY <3>1, <3>2
  <2>4. IsFcn(Put(new, pools))
    BY PutIsFcn
  <2>. QED  BY <1>7, <2>2, <2>3, <2>4, SameFunction
<1>10. Column(Put(new, pools), Pools, PoolRow)
  BY <1>8, PutColumn
<1>. QED  BY <1>5, <1>6, <1>9, <1>10

-----------------------------------------------------------------------------
(* Accounts: accounts::add, reset_many, remove and set.  The in-memory     *)
(* store confuses deposits and rewards: only the pools agree.              *)

SameAccounts(rows, copy) ==
    /\ DOMAIN copy = DOMAIN rows
    /\ \A a \in DOMAIN rows : copy[a].pool = rows[a].pool

\* A new account comes with a deposit.
Addable(rows, add) ==
    /\ Column(add, Accounts, AccountValue)
    /\ \A a \in DOMAIN add : a \notin DOMAIN rows => add[a].deposit # None

\* A row, from its fields.
LEMMA AccountRows ==
    ASSUME NEW row \in AccountRow
    PROVE  /\ row = [pool |-> row.pool, deposit |-> row.deposit, rewards |-> row.rewards]
           /\ row.pool \in Pools \cup {None} /\ row.deposit \in Nat /\ row.rewards \in Nat
BY DEF AccountRow

LEMMA AccountValues ==
    ASSUME NEW v \in AccountValue
    PROVE  /\ v.pool \in Resettable(Pools) /\ v.rewards = 0
           /\ v.deposit = None \/ v.deposit \in Nat
BY DEF AccountValue, Deposit

LEMMA PoolSet ==
    ASSUME NEW v \in AccountValue, NEW field \in Pools \cup {None}
    PROVE  SetOrReset(v.pool, field) \in Pools \cup {None}
<1>1. v.pool \in Resettable(Pools) /\ Unchanged \notin Pools /\ Reset \notin Pools
  BY AccountValues, Fields
<1>2. SetOrReset(v.pool, field) \in Pools \cup {None, field}
  BY <1>1, SetOrResetValues
<1>. QED  BY <1>2

\* What both make of the pools, and RocksDB of the rewards.
PoolsSet(rows, add, put) ==
    /\ DOMAIN put = DOMAIN add \cup DOMAIN rows
    /\ \A a \in DOMAIN add : a \notin DOMAIN rows =>
          put[a].pool = SetOrReset(add[a].pool, None)
    /\ \A a \in DOMAIN rows : put[a].pool =
          IF a \in DOMAIN add THEN SetOrReset(add[a].pool, rows[a].pool)
          ELSE rows[a].pool

RewardsKept(rows, add, put) ==
    /\ \A a \in DOMAIN rows : put[a].rewards = rows[a].rewards
    /\ \A a \in DOMAIN add : a \notin DOMAIN rows => put[a].rewards = 0

\* RocksDB: the rewards are kept, those of a new account are nothing.
LEMMA AddAccountsEffect ==
    ASSUME NEW rows, Column(rows, Accounts, AccountRow), NEW add, Addable(rows, add)
    PROVE  /\ Column(AddAccounts(rows, add), Accounts, AccountRow)
           /\ PoolsSet(rows, add, AddAccounts(rows, add))
           /\ RewardsKept(rows, add, AddAccounts(rows, add))
<1>. DEFINE new == [a \in DOMAIN add |->
                      IF a \in DOMAIN rows
                      THEN [rows[a] EXCEPT
                              !.pool = SetOrReset(add[a].pool, @),
                              !.deposit = IF add[a].deposit = None THEN @
                                          ELSE add[a].deposit]
                      ELSE [pool |-> SetOrReset(add[a].pool, None),
                            deposit |-> add[a].deposit,
                            rewards |-> add[a].rewards]]
            put == Put(new, rows)
<1>1. AddAccounts(rows, add) = put /\ DOMAIN new = DOMAIN add
  BY DEF AddAccounts
<1>2. ASSUME NEW a \in DOMAIN add, a \in DOMAIN rows
      PROVE  /\ new[a] \in AccountRow /\ new[a].rewards = rows[a].rewards
             /\ new[a].pool = SetOrReset(add[a].pool, rows[a].pool)
  <2>1. rows[a] \in AccountRow /\ add[a] \in AccountValue
    BY <1>2 DEF Column, Addable
  <2>2. /\ rows[a] = [pool |-> rows[a].pool, deposit |-> rows[a].deposit,
                      rewards |-> rows[a].rewards]
        /\ rows[a].pool \in Pools \cup {None} /\ rows[a].deposit \in Nat
        /\ rows[a].rewards \in Nat
    BY <2>1, AccountRows
  <2>3. add[a].deposit = None \/ add[a].deposit \in Nat
    BY <2>1, AccountValues
  <2>4. SetOrReset(add[a].pool, rows[a].pool) \in Pools \cup {None}
    BY <2>1, <2>2, PoolSet
  <2>5. new[a] = [rows[a] EXCEPT !.pool = SetOrReset(add[a].pool, @),
                                 !.deposit = IF add[a].deposit = None THEN @
                                             ELSE add[a].deposit]
    BY <1>2
  <2>. HIDE DEF new
  <2>6. new[a] = [pool |-> SetOrReset(add[a].pool, rows[a].pool),
                  deposit |-> IF add[a].deposit = None THEN rows[a].deposit
                              ELSE add[a].deposit,
                  rewards |-> rows[a].rewards]
    BY <2>2, <2>5
  <2>. QED  BY <2>2, <2>3, <2>4, <2>6 DEF AccountRow
<1>3. ASSUME NEW a \in DOMAIN add, a \notin DOMAIN rows
      PROVE  /\ new[a] \in AccountRow /\ new[a].rewards = 0
             /\ new[a].pool = SetOrReset(add[a].pool, None)
  <2>1. add[a] \in AccountValue /\ add[a].deposit # None
    BY <1>3 DEF Column, Addable
  <2>2. add[a].deposit \in Nat /\ add[a].rewards = 0
    BY <2>1, AccountValues
  <2>3. SetOrReset(add[a].pool, None) \in Pools \cup {None}
    BY <2>1, PoolSet
  <2>4. new[a] = [pool |-> SetOrReset(add[a].pool, None), deposit |-> add[a].deposit,
                  rewards |-> add[a].rewards]
    BY <1>3
  <2>. HIDE DEF new
  <2>5. new[a] = [pool |-> SetOrReset(add[a].pool, None), deposit |-> add[a].deposit,
                  rewards |-> 0]
    BY <2>2, <2>4
  <2>6. 0 \in Nat
    OBVIOUS
  <2>. QED  BY <2>2, <2>3, <2>5, <2>6 DEF AccountRow
<1>. HIDE DEF new
<1>4. /\ DOMAIN put = DOMAIN new \cup DOMAIN rows
      /\ \A a \in DOMAIN new : put[a] = new[a]
      /\ \A a \in DOMAIN rows : a \notin DOMAIN new => put[a] = rows[a]
  BY PutEffect
<1>. HIDE DEF put
<1>5. Column(put, Accounts, AccountRow)
  BY <1>1, <1>2, <1>3, <1>4 DEF Column, Addable
<1>6. PoolsSet(rows, add, put)
  BY <1>1, <1>2, <1>3, <1>4 DEF PoolsSet
<1>7. RewardsKept(rows, add, put)
  BY <1>1, <1>2, <1>3, <1>4 DEF RewardsKept
<1>. QED  BY <1>1, <1>5, <1>6, <1>7

LEMMA MemoryAddAccountsEffect ==
    ASSUME NEW rows, Column(rows, Accounts, AccountRow), NEW add,
           Column(add, Accounts, AccountValue)
    PROVE  /\ Column(MemoryAddAccounts(rows, add), Accounts, AccountRow)
           /\ PoolsSet(rows, add, MemoryAddAccounts(rows, add))
<1>. DEFINE old(a) == IF a \in DOMAIN rows THEN rows[a]
                      ELSE [pool |-> None, deposit |-> 0, rewards |-> 0]
            new == [a \in DOMAIN add |->
                      [pool |-> SetOrReset(add[a].pool, old(a).pool),
                       deposit |-> add[a].rewards,
                       rewards |-> IF add[a].deposit = None THEN old(a).rewards
                                   ELSE add[a].deposit]]
            put == Put(new, rows)
<1>1. MemoryAddAccounts(rows, add) = put /\ DOMAIN new = DOMAIN add
  BY DEF MemoryAddAccounts
<1>2. ASSUME NEW a \in DOMAIN add
      PROVE  new[a] \in AccountRow /\ new[a].pool = SetOrReset(add[a].pool, old(a).pool)
  <2>1. old(a).pool \in Pools \cup {None} /\ old(a).rewards \in Nat
    BY AccountRows DEF Column
  <2>2. add[a] \in AccountValue
    BY DEF Column
  <2>3. add[a].rewards = 0 /\ (add[a].deposit = None \/ add[a].deposit \in Nat)
    BY <2>2, AccountValues
  <2>. HIDE DEF old
  <2>4. SetOrReset(add[a].pool, old(a).pool) \in Pools \cup {None}
    BY <2>1, <2>2, PoolSet
  <2>5. new[a] = [pool |-> SetOrReset(add[a].pool, old(a).pool),
                  deposit |-> add[a].rewards,
                  rewards |-> IF add[a].deposit = None THEN old(a).rewards
                              ELSE add[a].deposit]
    OBVIOUS
  <2>. QED  BY <2>1, <2>3, <2>4, <2>5 DEF AccountRow
<1>3. \A a \in DOMAIN add : old(a).pool = IF a \in DOMAIN rows THEN rows[a].pool ELSE None
  OBVIOUS
<1>. HIDE DEF new, old
<1>4. /\ DOMAIN put = DOMAIN new \cup DOMAIN rows
      /\ \A a \in DOMAIN new : put[a] = new[a]
      /\ \A a \in DOMAIN rows : a \notin DOMAIN new => put[a] = rows[a]
  BY PutEffect
<1>. HIDE DEF put
<1>5. Column(put, Accounts, AccountRow)
  BY <1>1, <1>2, <1>4 DEF Column
<1>6. PoolsSet(rows, add, put)
  BY <1>1, <1>2, <1>3, <1>4 DEF PoolsSet
<1>. QED  BY <1>1, <1>5, <1>6

LEMMA AddAccountsAgree ==
    ASSUME NEW rows, Column(rows, Accounts, AccountRow),
           NEW copy, Column(copy, Accounts, AccountRow), SameAccounts(rows, copy),
           NEW add, Addable(rows, add)
    PROVE  SameAccounts(AddAccounts(rows, add), MemoryAddAccounts(copy, add))
<1>. DEFINE added == AddAccounts(rows, add)
            copied == MemoryAddAccounts(copy, add)
<1>1. PoolsSet(rows, add, added)
  BY AddAccountsEffect
<1>2. PoolsSet(copy, add, copied)
  BY MemoryAddAccountsEffect DEF Addable
<1>. HIDE DEF added, copied
<1>3. SameAccounts(added, copied)
  BY <1>1, <1>2 DEF SameAccounts, PoolsSet
<1>. QED  BY <1>3 DEF added, copied

\* A withdrawal empties the rewards and nothing else.
LEMMA ResetManyEffect ==
    ASSUME NEW rows, Column(rows, Accounts, AccountRow), NEW withdrawals
    PROVE  /\ Column(ResetMany(rows, withdrawals), Accounts, AccountRow)
           /\ DOMAIN ResetMany(rows, withdrawals) = DOMAIN rows
           /\ \A a \in DOMAIN rows :
                 /\ ResetMany(rows, withdrawals)[a].pool = rows[a].pool
                 /\ ResetMany(rows, withdrawals)[a].rewards =
                       IF a \in withdrawals THEN 0 ELSE rows[a].rewards
<1>. DEFINE new == [a \in withdrawals \cap DOMAIN rows |-> [rows[a] EXCEPT !.rewards = 0]]
            put == Put(new, rows)
<1>1. ResetMany(rows, withdrawals) = put /\ DOMAIN new = withdrawals \cap DOMAIN rows
  BY DEF ResetMany
<1>2. ASSUME NEW a \in withdrawals \cap DOMAIN rows
      PROVE  new[a] \in AccountRow /\ new[a].rewards = 0 /\ new[a].pool = rows[a].pool
  <2>1. rows[a] \in AccountRow
    BY DEF Column
  <2>2. /\ rows[a] = [pool |-> rows[a].pool, deposit |-> rows[a].deposit,
                      rewards |-> rows[a].rewards]
        /\ rows[a].pool \in Pools \cup {None} /\ rows[a].deposit \in Nat
    BY <2>1, AccountRows
  <2>3. new[a] = [rows[a] EXCEPT !.rewards = 0]
    OBVIOUS
  <2>. HIDE DEF new
  <2>4. new[a] = [pool |-> rows[a].pool, deposit |-> rows[a].deposit, rewards |-> 0]
    BY <2>2, <2>3
  <2>. QED  BY <2>2, <2>4 DEF AccountRow
<1>. HIDE DEF new
<1>3. /\ DOMAIN put = DOMAIN new \cup DOMAIN rows
      /\ \A a \in DOMAIN new : put[a] = new[a]
      /\ \A a \in DOMAIN rows : a \notin DOMAIN new => put[a] = rows[a]
  BY PutEffect
<1>. HIDE DEF put
<1>4. Column(put, Accounts, AccountRow)
  BY <1>1, <1>2, <1>3 DEF Column
<1>. QED  BY <1>1, <1>2, <1>3, <1>4

LEMMA MemoryResetManyEffect ==
    ASSUME NEW rows, Column(rows, Accounts, AccountRow), NEW withdrawals
    PROVE  /\ Column(MemoryResetMany(rows, withdrawals), Accounts, AccountRow)
           /\ DOMAIN MemoryResetMany(rows, withdrawals) = DOMAIN rows
           /\ \A a \in DOMAIN rows :
                 MemoryResetMany(rows, withdrawals)[a].pool = rows[a].pool
<1>. DEFINE reset == MemoryResetMany(rows, withdrawals)
<1>1. /\ DOMAIN reset = DOMAIN rows
      /\ \A a \in DOMAIN rows : reset[a] = IF a \in withdrawals
                                           THEN [rows[a] EXCEPT !.rewards = 0]
                                           ELSE rows[a]
  BY DEF MemoryResetMany
<1>. HIDE DEF reset
<1>2. ASSUME NEW a \in DOMAIN rows
      PROVE  reset[a] \in AccountRow /\ reset[a].pool = rows[a].pool
  <2>1. rows[a] \in AccountRow
    BY DEF Column
  <2>2. /\ rows[a] = [pool |-> rows[a].pool, deposit |-> rows[a].deposit,
                      rewards |-> rows[a].rewards]
        /\ rows[a].pool \in Pools \cup {None} /\ rows[a].deposit \in Nat
    BY <2>1, AccountRows
  <2>3. [rows[a] EXCEPT !.rewards = 0]
          = [pool |-> rows[a].pool, deposit |-> rows[a].deposit, rewards |-> 0]
    BY <2>2
  <2>4. [rows[a] EXCEPT !.rewards = 0] \in AccountRow
        /\ [rows[a] EXCEPT !.rewards = 0].pool = rows[a].pool
    BY <2>2, <2>3 DEF AccountRow
  <2>. QED  BY <1>1, <2>1, <2>4
<1>3. Column(reset, Accounts, AccountRow)
  BY <1>1, <1>2 DEF Column
<1>. QED  BY <1>1, <1>2, <1>3 DEF reset

\* The accounts after a block: what save does to them.
After(rows, add, withdrawals, gone) ==
    Without(ResetMany(AddAccounts(rows, add), withdrawals), gone)
MemoryAfter(rows, add, withdrawals, gone) ==
    Without(MemoryResetMany(MemoryAddAccounts(rows, add), withdrawals), gone)

Emptied(rows, withdrawals, saved) ==
    \A a \in DOMAIN saved : saved[a].rewards =
       IF a \in withdrawals \/ a \notin DOMAIN rows THEN 0 ELSE rows[a].rewards

LEMMA SavedAccounts ==
    ASSUME NEW rows, Column(rows, Accounts, AccountRow),
           NEW copy, Column(copy, Accounts, AccountRow), SameAccounts(rows, copy),
           NEW add, Addable(rows, add), NEW withdrawals, NEW gone
    PROVE  /\ Column(After(rows, add, withdrawals, gone), Accounts, AccountRow)
           /\ Column(MemoryAfter(copy, add, withdrawals, gone), Accounts, AccountRow)
           /\ SameAccounts(After(rows, add, withdrawals, gone),
                           MemoryAfter(copy, add, withdrawals, gone))
           /\ DOMAIN After(rows, add, withdrawals, gone)
                 = (DOMAIN add \cup DOMAIN rows) \ gone
           /\ Emptied(rows, withdrawals, After(rows, add, withdrawals, gone))
<1>. DEFINE added == AddAccounts(rows, add)
            reset == ResetMany(added, withdrawals)
            madded == MemoryAddAccounts(copy, add)
            mreset == MemoryResetMany(madded, withdrawals)
            saved == Without(reset, gone)
            copied == Without(mreset, gone)
<1>0. /\ After(rows, add, withdrawals, gone) = saved
      /\ MemoryAfter(copy, add, withdrawals, gone) = copied
  BY DEF After, MemoryAfter
<1>1. /\ Column(added, Accounts, AccountRow)
      /\ DOMAIN added = DOMAIN add \cup DOMAIN rows
      /\ \A a \in DOMAIN rows : added[a].rewards = rows[a].rewards
      /\ \A a \in DOMAIN add : a \notin DOMAIN rows => added[a].rewards = 0
  <2>1. /\ Column(added, Accounts, AccountRow)
        /\ PoolsSet(rows, add, added) /\ RewardsKept(rows, add, added)
    BY AddAccountsEffect
  <2>. HIDE DEF added
  <2>. QED  BY <2>1 DEF PoolsSet, RewardsKept
<1>2. Column(madded, Accounts, AccountRow)
  BY MemoryAddAccountsEffect DEF Addable
<1>3. SameAccounts(added, madded)
  BY AddAccountsAgree
<1>. HIDE DEF added, madded
<1>4. /\ Column(reset, Accounts, AccountRow) /\ DOMAIN reset = DOMAIN added
      /\ \A a \in DOMAIN added :
            /\ reset[a].pool = added[a].pool
            /\ reset[a].rewards = IF a \in withdrawals THEN 0 ELSE added[a].rewards
  BY <1>1, ResetManyEffect
<1>5. /\ Column(mreset, Accounts, AccountRow) /\ DOMAIN mreset = DOMAIN madded
      /\ \A a \in DOMAIN madded : mreset[a].pool = madded[a].pool
  BY <1>2, MemoryResetManyEffect
<1>. HIDE DEF reset, mreset
<1>6. /\ DOMAIN saved = DOMAIN reset \ gone
      /\ \A a \in DOMAIN reset \ gone : saved[a] = reset[a]
  BY WithoutEffect
<1>7. /\ DOMAIN copied = DOMAIN mreset \ gone
      /\ \A a \in DOMAIN mreset \ gone : copied[a] = mreset[a]
  BY WithoutEffect
<1>. HIDE DEF saved, copied
<1>8. Column(saved, Accounts, AccountRow) /\ Column(copied, Accounts, AccountRow)
  BY <1>4, <1>5, <1>6, <1>7 DEF Column
<1>9. SameAccounts(saved, copied)
  BY <1>3, <1>4, <1>5, <1>6, <1>7 DEF SameAccounts
<1>10. ASSUME NEW a \in DOMAIN saved
       PROVE  saved[a].rewards = IF a \in withdrawals \/ a \notin DOMAIN rows THEN 0
                                 ELSE rows[a].rewards
  <2>1. a \in DOMAIN added /\ saved[a] = reset[a]
    BY <1>4, <1>6
  <2>2. saved[a].rewards = IF a \in withdrawals THEN 0 ELSE added[a].rewards
    BY <1>4, <2>1
  <2>. QED  BY <1>1, <2>1, <2>2
<1>11. DOMAIN saved = (DOMAIN add \cup DOMAIN rows) \ gone
  BY <1>1, <1>4, <1>6
<1>12. Emptied(rows, withdrawals, saved)
  BY <1>10 DEF Emptied
<1>. QED  BY <1>0, <1>8, <1>9, <1>11, <1>12


-----------------------------------------------------------------------------
(* DReps: dreps::add and dreps::remove.                                    *)

DrepAdded(s) == {None, RegisteredAt(s)}

LEMMA PointersOfSlots ==
    ASSUME NEW s \in Slots
    PROVE  /\ RegisteredAt(s) \in Pointers /\ RemovedAt(s) \in Pointers
           /\ RegisteredAt(s) # None
<1>1. s \in Nat /\ 1 <= s /\ s <= MaxSlot /\ MaxSlot \in Nat
  BY MaxSlotAssumption DEF Slots
<1>2. RegisteredAt(s) \in Nat
  BY <1>1 DEF RegisteredAt
<1>3. RegisteredAt(s) # None
  BY <1>2, Fields
<1>. QED  BY <1>1, <1>3 DEF RegisteredAt, RemovedAt, Pointers

LEMMA DrepRows ==
    ASSUME NEW row \in DrepRow
    PROVE  /\ row = [registeredAt |-> row.registeredAt,
                     unregisteredAt |-> row.unregisteredAt]
           /\ row.registeredAt \in Pointers
           /\ row.unregisteredAt \in Pointers \cup {Never}
BY DEF DrepRow

LEMMA AddDrepsAgree ==
    ASSUME NEW dreps, Column(dreps, Dreps, DrepRow),
           NEW s \in Slots, NEW add, Column(add, Dreps, DrepAdded(s))
    PROVE  /\ Column(AddDreps(dreps, add), Dreps, DrepRow)
           /\ MemoryAddDreps(dreps, add) = AddDreps(dreps, add)
<1>. DEFINE registered == {d \in DOMAIN add : add[d] # None}
            last(d) == IF d \in DOMAIN dreps THEN dreps[d].unregisteredAt ELSE Never
            new == [d \in registered |->
                      [registeredAt |-> add[d], unregisteredAt |-> last(d)]]
            updated == [d \in registered \cap DOMAIN dreps |->
                          [dreps[d] EXCEPT !.registeredAt = add[d]]]
            inserted == [d \in registered \ DOMAIN dreps |->
                           [registeredAt |-> add[d], unregisteredAt |-> Never]]
            rest == Put(inserted, dreps)
<1>1. AddDreps(dreps, add) = Put(new, dreps)
  BY DEF AddDreps
<1>2. MemoryAddDreps(dreps, add) = Put(updated, rest)
  BY DEF MemoryAddDreps
<1>3. /\ DOMAIN new = registered /\ DOMAIN updated = registered \cap DOMAIN dreps
      /\ DOMAIN inserted = registered \ DOMAIN dreps
  OBVIOUS
<1>4. ASSUME NEW d \in registered
      PROVE  add[d] \in Pointers /\ d \in Dreps
  <2>1. add[d] = RegisteredAt(s) /\ d \in Dreps
    BY DEF Column, DrepAdded
  <2>. QED  BY <2>1, PointersOfSlots
<1>5. ASSUME NEW d \in registered
      PROVE  new[d] = [registeredAt |-> add[d], unregisteredAt |-> last(d)]
  OBVIOUS
<1>6. ASSUME NEW d \in registered, d \in DOMAIN dreps
      PROVE  new[d] \in DrepRow /\ updated[d] = new[d]
  <2>1. /\ dreps[d] = [registeredAt |-> dreps[d].registeredAt,
                       unregisteredAt |-> dreps[d].unregisteredAt]
        /\ dreps[d].unregisteredAt \in Pointers \cup {Never}
    <3>1. dreps[d] \in DrepRow
      BY <1>6 DEF Column
    <3>. QED  BY <3>1, DrepRows
  <2>2. new[d] = [registeredAt |-> add[d], unregisteredAt |-> dreps[d].unregisteredAt]
    BY <1>6
  <2>3. updated[d] = [dreps[d] EXCEPT !.registeredAt = add[d]]
    BY <1>6
  <2>. HIDE DEF new, updated
  <2>4. updated[d] = [registeredAt |-> add[d], unregisteredAt |-> dreps[d].unregisteredAt]
    BY <2>1, <2>3
  <2>. QED  BY <1>4, <2>1, <2>2, <2>4 DEF DrepRow
<1>7. ASSUME NEW d \in registered, d \notin DOMAIN dreps
      PROVE  new[d] \in DrepRow /\ inserted[d] = new[d]
  <2>1. new[d] = [registeredAt |-> add[d], unregisteredAt |-> Never]
        /\ inserted[d] = [registeredAt |-> add[d], unregisteredAt |-> Never]
    BY <1>7
  <2>. HIDE DEF new, inserted
  <2>. QED  BY <1>4, <2>1 DEF DrepRow
<1>. HIDE DEF new, updated, inserted, rest
<1>8. /\ DOMAIN Put(new, dreps) = DOMAIN new \cup DOMAIN dreps
      /\ \A d \in DOMAIN new : Put(new, dreps)[d] = new[d]
      /\ \A d \in DOMAIN dreps : d \notin DOMAIN new => Put(new, dreps)[d] = dreps[d]
  BY PutEffect
<1>9. /\ DOMAIN rest = DOMAIN inserted \cup DOMAIN dreps
      /\ \A d \in DOMAIN inserted : rest[d] = inserted[d]
      /\ \A d \in DOMAIN dreps : d \notin DOMAIN inserted => rest[d] = dreps[d]
  BY PutEffect DEF rest
<1>10. /\ DOMAIN Put(updated, rest) = DOMAIN updated \cup DOMAIN rest
       /\ \A d \in DOMAIN updated : Put(updated, rest)[d] = updated[d]
       /\ \A d \in DOMAIN rest : d \notin DOMAIN updated => Put(updated, rest)[d] = rest[d]
  BY PutEffect
<1>11. Column(new, Dreps, DrepRow)
  <2>1. \A d \in registered : new[d] \in DrepRow /\ d \in Dreps
    BY <1>4, <1>6, <1>7
  <2>. HIDE DEF registered
  <2>. QED  BY <1>3, <2>1 DEF Column
<1>12. Column(Put(new, dreps), Dreps, DrepRow)
  BY <1>11, PutColumn
<1>13. DOMAIN Put(new, dreps) = DOMAIN Put(updated, rest)
  <2>. HIDE DEF registered
  <2>. QED  BY <1>3, <1>8, <1>9, <1>10
<1>14. ASSUME NEW d \in DOMAIN Put(new, dreps)
       PROVE  Put(new, dreps)[d] = Put(updated, rest)[d]
  <2>1. CASE d \in registered /\ d \in DOMAIN dreps
    <3>1. new[d] = updated[d]
      BY <1>6, <2>1
    <3>. HIDE DEF registered
    <3>. QED  BY <1>3, <1>8, <1>10, <2>1, <3>1
  <2>2. CASE d \in registered /\ d \notin DOMAIN dreps
    <3>1. new[d] = inserted[d]
      BY <1>7, <2>2
    <3>. HIDE DEF registered
    <3>. QED  BY <1>3, <1>8, <1>9, <1>10, <2>2, <3>1
  <2>3. CASE d \notin registered
    <3>. HIDE DEF registered
    <3>. QED  BY <1>3, <1>8, <1>9, <1>10, <2>3
  <2>. QED  BY <2>1, <2>2, <2>3
<1>15. Put(new, dreps) = Put(updated, rest)
  <2>1. IsFcn(Put(new, dreps)) /\ IsFcn(Put(updated, rest))
    BY PutIsFcn
  <2>. QED  BY <1>13, <1>14, <2>1, SameFunction
<1>. QED  BY <1>1, <1>2, <1>12, <1>15

LEMMA RemoveDrepsAgree ==
    ASSUME NEW dreps, Column(dreps, Dreps, DrepRow),
           NEW s \in Slots, NEW remove, Column(remove, Dreps, {RemovedAt(s)})
    PROVE  /\ Column(RemoveDreps(dreps, remove), Dreps, DrepRow)
           /\ MemoryRemoveDreps(dreps, remove) = RemoveDreps(dreps, remove)
<1>. DEFINE row(d) == [dreps[d] EXCEPT !.unregisteredAt = remove[d]]
            new == [d \in DOMAIN remove \cap DOMAIN dreps |-> row(d)]
            old == [d \in DOMAIN dreps |->
                      IF d \in DOMAIN remove THEN row(d) ELSE dreps[d]]
<1>1. RemoveDreps(dreps, remove) = Put(new, dreps)
  BY DEF RemoveDreps
<1>2. MemoryRemoveDreps(dreps, remove) = old
  BY DEF MemoryRemoveDreps
<1>3. ASSUME NEW d \in DOMAIN remove, d \in DOMAIN dreps
      PROVE  row(d) \in DrepRow
  <2>1. remove[d] \in Pointers
    <3>1. remove[d] = RemovedAt(s)
      BY DEF Column
    <3>. QED  BY <3>1, PointersOfSlots
  <2>2. /\ dreps[d] = [registeredAt |-> dreps[d].registeredAt,
                       unregisteredAt |-> dreps[d].unregisteredAt]
        /\ dreps[d].registeredAt \in Pointers
    <3>1. dreps[d] \in DrepRow
      BY <1>3 DEF Column
    <3>. QED  BY <3>1, DrepRows
  <2>3. row(d) = [registeredAt |-> dreps[d].registeredAt, unregisteredAt |-> remove[d]]
    BY <2>2
  <2>. HIDE DEF row
  <2>. QED  BY <2>1, <2>2, <2>3 DEF DrepRow
<1>4. /\ DOMAIN new = DOMAIN remove \cap DOMAIN dreps /\ DOMAIN old = DOMAIN dreps
      /\ \A d \in DOMAIN new : new[d] = row(d)
      /\ \A d \in DOMAIN old : old[d] = IF d \in DOMAIN remove THEN row(d) ELSE dreps[d]
      /\ IsFcn(old)
  BY DEF IsFcn
<1>. HIDE DEF new, old, row
<1>5. /\ DOMAIN Put(new, dreps) = DOMAIN new \cup DOMAIN dreps
      /\ \A d \in DOMAIN new : Put(new, dreps)[d] = new[d]
      /\ \A d \in DOMAIN dreps : d \notin DOMAIN new => Put(new, dreps)[d] = dreps[d]
  BY PutEffect
<1>6. Column(new, Dreps, DrepRow)
  BY <1>3, <1>4 DEF Column
<1>7. Column(Put(new, dreps), Dreps, DrepRow)
  BY <1>6, PutColumn
<1>8. DOMAIN Put(new, dreps) = DOMAIN old /\ \A d \in DOMAIN old : Put(new, dreps)[d] = old[d]
  BY <1>4, <1>5
<1>9. Put(new, dreps) = old
  <2>1. IsFcn(Put(new, dreps))
    BY PutIsFcn
  <2>. QED  BY <1>4, <1>8, <2>1, SameFunction
<1>. QED  BY <1>1, <1>2, <1>7, <1>9

-----------------------------------------------------------------------------
(* Members of the committee: cc_members::upsert and add.                   *)

MemberUpdate == [hot : Resettable(HotKeys), validUntil : Resettable(Nat)]

LEMMA MemberSet ==
    ASSUME NEW v \in MemberUpdate, NEW hot \in HotKeys \cup {None},
           NEW validUntil \in Nat \cup {None}
    PROVE  /\ SetOrReset(v.hot, hot) \in HotKeys \cup {None}
           /\ SetOrReset(v.validUntil, validUntil) \in Nat \cup {None}
<1>1. /\ v.hot \in Resettable(HotKeys) /\ Unchanged \notin HotKeys /\ Reset \notin HotKeys
      /\ v.validUntil \in Resettable(Nat) /\ Unchanged \notin Nat /\ Reset \notin Nat
  BY Fields DEF MemberUpdate
<1>2. SetOrReset(v.hot, hot) \in HotKeys \cup {None, hot}
  BY <1>1, SetOrResetValues
<1>3. SetOrReset(v.validUntil, validUntil) \in Nat \cup {None, validUntil}
  BY <1>1, SetOrResetValues
<1>. QED  BY <1>2, <1>3

LEMMA MemberRows ==
    ASSUME NEW row \in MemberRow
    PROVE  /\ row = [hot |-> row.hot, validUntil |-> row.validUntil]
           /\ row.hot \in HotKeys \cup {None} /\ row.validUntil \in Nat \cup {None}
BY DEF MemberRow

LEMMA UpsertMembersTyped ==
    ASSUME NEW members, Column(members, Members, MemberRow),
           NEW add, Column(add, Members, MemberUpdate)
    PROVE  Column(UpsertMembers(members, add), Members, MemberRow)
<1>. DEFINE row(m) == IF m \in DOMAIN members THEN members[m]
                      ELSE [hot |-> None, validUntil |-> None]
            new == [m \in DOMAIN add |->
                      [hot |-> SetOrReset(add[m].hot, row(m).hot),
                       validUntil |-> SetOrReset(add[m].validUntil, row(m).validUntil)]]
<1>1. UpsertMembers(members, add) = Put(new, members)
  BY DEF UpsertMembers
<1>2. ASSUME NEW m \in DOMAIN add
      PROVE  new[m] \in MemberRow /\ m \in Members
  <2>1. add[m] \in MemberUpdate /\ m \in Members
    BY DEF Column
  <2>2. row(m).hot \in HotKeys \cup {None} /\ row(m).validUntil \in Nat \cup {None}
    <3>1. CASE m \in DOMAIN members
      <4>1. members[m] \in MemberRow
        BY <3>1 DEF Column
      <4>. QED  BY <3>1, <4>1, MemberRows
    <3>2. CASE m \notin DOMAIN members
      BY <3>2
    <3>. QED  BY <3>1, <3>2
  <2>. HIDE DEF row
  <2>3. /\ SetOrReset(add[m].hot, row(m).hot) \in HotKeys \cup {None}
        /\ SetOrReset(add[m].validUntil, row(m).validUntil) \in Nat \cup {None}
    BY <2>1, <2>2, MemberSet
  <2>4. new[m] = [hot |-> SetOrReset(add[m].hot, row(m).hot),
                  validUntil |-> SetOrReset(add[m].validUntil, row(m).validUntil)]
    OBVIOUS
  <2>. HIDE DEF new
  <2>. QED  BY <2>1, <2>3, <2>4 DEF MemberRow
<1>3. DOMAIN new = DOMAIN add
  OBVIOUS
<1>. HIDE DEF new
<1>4. Column(new, Members, MemberRow)
  BY <1>2, <1>3 DEF Column
<1>. QED  BY <1>1, <1>4, PutColumn

LEMMA MemoryAddMembersTyped ==
    ASSUME NEW members, Column(members, Members, MemberRow),
           NEW add, Column(add, Members, MemberUpdate), NEW removed
    PROVE  Column(Without(MemoryAddMembers(members, add), removed), Members, MemberRow)
<1>. DEFINE known == {n \in DOMAIN add : n \in DOMAIN members \/ add[n].validUntil \in Slots}
            row(m) == IF m \in DOMAIN members THEN members[m]
                      ELSE [hot |-> None, validUntil |-> add[m].validUntil]
            new == [m \in known |-> [row(m) EXCEPT !.hot = SetOrReset(add[m].hot, @)]]
<1>1. MemoryAddMembers(members, add) = Put(new, members)
  BY DEF MemoryAddMembers
<1>2. ASSUME NEW m \in known
      PROVE  new[m] \in MemberRow /\ m \in Members
  <2>1. add[m] \in MemberUpdate /\ m \in Members
    BY DEF Column
  <2>2. row(m) \in MemberRow
    <3>1. CASE m \in DOMAIN members
      BY <3>1 DEF Column
    <3>2. CASE m \notin DOMAIN members
      <4>1. add[m].validUntil \in Nat
        BY <3>2 DEF Slots
      <4>. QED  BY <3>2, <4>1 DEF MemberRow
    <3>. QED  BY <3>1, <3>2
  <2>3. new[m] = [row(m) EXCEPT !.hot = SetOrReset(add[m].hot, @)]
    OBVIOUS
  <2>. HIDE DEF row, new
  <2>4. /\ row(m) = [hot |-> row(m).hot, validUntil |-> row(m).validUntil]
        /\ row(m).hot \in HotKeys \cup {None} /\ row(m).validUntil \in Nat \cup {None}
    BY <2>2, MemberRows
  <2>5. SetOrReset(add[m].hot, row(m).hot) \in HotKeys \cup {None}
    BY <2>1, <2>4, MemberSet
  <2>6. new[m] = [hot |-> SetOrReset(add[m].hot, row(m).hot),
                  validUntil |-> row(m).validUntil]
    BY <2>3, <2>4
  <2>. QED  BY <2>1, <2>4, <2>5, <2>6 DEF MemberRow
<1>3. DOMAIN new = known
  OBVIOUS
<1>. HIDE DEF new, known
<1>4. Column(new, Members, MemberRow)
  BY <1>2, <1>3 DEF Column
<1>5. Column(Put(new, members), Members, MemberRow)
  BY <1>4, PutColumn
<1>. QED  BY <1>1, <1>5 DEF Column, Without

LEMMA UpdateCommitteeTyped ==
    ASSUME NEW members, Column(members, Members, MemberRow),
           NEW added \in Table(Members, {MaxSlot}), NEW removed \in SUBSET Members
    PROVE  Column(UpdateCommittee(members, added, removed), Members, MemberRow)
<1>. DEFINE reset == [m \in removed |-> [hot |-> Unchanged, validUntil |-> Reset]]
            valid == [m \in DOMAIN added |-> [hot |-> Unchanged, validUntil |-> added[m]]]
<1>1. Column(added, Members, {MaxSlot})
  BY TableRows
<1>2. Column(reset, Members, MemberUpdate)
  BY DEF Column, MemberUpdate, Resettable
<1>3. Column(valid, Members, MemberUpdate)
  BY <1>1, MaxSlotAssumption DEF Column, MemberUpdate, Resettable
<1>. HIDE DEF reset, valid
<1>4. Column(UpsertMembers(members, reset), Members, MemberRow)
  BY <1>2, UpsertMembersTyped
<1>5. Column(UpsertMembers(UpsertMembers(members, reset), valid), Members, MemberRow)
  BY <1>3, <1>4, UpsertMembersTyped
<1>6. UpdateCommittee(members, added, removed)
        = UpsertMembers(UpsertMembers(members, reset), valid)
  BY DEF UpdateCommittee, reset, valid
<1>. QED  BY <1>5, <1>6

-----------------------------------------------------------------------------
(* The blocks, and save.                                                   *)

MemberAdded == [hot : {Reset} \cup HotKeys, validUntil : {Unchanged}]

GoodBlock(b) ==
    /\ b.slot \in Slots /\ b.issuer \in Pools \cup {None}
    /\ b.add.utxo \subseteq Outputs
    /\ Column(b.add.pools, Pools, PoolAdded)
    /\ Column(b.add.accounts, Accounts, AccountValue)
    /\ Column(b.add.dreps, Dreps, DrepAdded(b.slot))
    /\ Column(b.add.members, Members, MemberAdded)
    /\ Column(b.add.proposals, Proposals, Slots)
    /\ Column(b.add.votes, Proposals \X Voters, Vote)
    /\ Column(b.remove.pools, Pools, Slots)
    /\ Column(b.remove.dreps, Dreps, {RemovedAt(b.slot)})

LEMMA EmptyColumn ==
    ASSUME NEW S, NEW T
    PROVE  Column(<<>>, S, T)
BY DEF Column

\* A block as Blocks makes one, field by field.
LEMMA BlockFields ==
    ASSUME NEW s, NEW issuer, NEW column, NEW add, NEW remove, NEW withdrawals
    PROVE  LET b == Block(s, issuer, column, add, remove, withdrawals)
               added(c, old) == IF c = column THEN add ELSE old
               removed(c, old) == IF c = column THEN remove ELSE old
           IN  /\ b.slot = s /\ b.issuer = issuer /\ b.withdrawals = withdrawals
               /\ b.add.utxo = added("utxo", {})
               /\ b.add.pools = added("pools", <<>>)
               /\ b.add.accounts = added("accounts", <<>>)
               /\ b.add.dreps = added("dreps", <<>>)
               /\ b.add.members = added("members", <<>>)
               /\ b.add.proposals = added("proposals", <<>>)
               /\ b.add.votes = added("votes", <<>>)
               /\ b.remove.pools = removed("pools", <<>>)
               /\ b.remove.dreps = removed("dreps", <<>>)
BY DEF Block, NothingAdded, NothingRemoved

\* The votes of a block that has proposals.
LEMMA VotesAdded ==
    ASSUME NEW base, DOMAIN base = {"slot", "issuer", "add", "remove", "withdrawals"},
           NEW votes,
           DOMAIN base.add = {"utxo", "pools", "accounts", "dreps", "members",
                              "proposals", "votes"}
    PROVE  LET b == [base EXCEPT !.add.votes = votes]
           IN  /\ b.slot = base.slot /\ b.issuer = base.issuer
               /\ b.remove = base.remove /\ b.add.votes = votes
               /\ b.add.utxo = base.add.utxo /\ b.add.pools = base.add.pools
               /\ b.add.accounts = base.add.accounts /\ b.add.dreps = base.add.dreps
               /\ b.add.members = base.add.members
               /\ b.add.proposals = base.add.proposals
<1>. DEFINE add == [base.add EXCEPT !.votes = votes]
<1>1. /\ add.votes = votes /\ add.utxo = base.add.utxo /\ add.pools = base.add.pools
      /\ add.accounts = base.add.accounts /\ add.dreps = base.add.dreps
      /\ add.members = base.add.members /\ add.proposals = base.add.proposals
  OBVIOUS
<1>2. [base EXCEPT !.add.votes = votes] = [base EXCEPT !.add = add]
  BY Zenon
<1>. HIDE DEF add
<1>3. LET b == [base EXCEPT !.add = add]
      IN  /\ b.slot = base.slot /\ b.issuer = base.issuer
          /\ b.remove = base.remove /\ b.add = add
  OBVIOUS
<1>. QED  BY <1>1, <1>2, <1>3

\* Every block that is saved is of its types.
LEMMA BlocksAreGood ==
    ASSUME NEW s \in Slots, NEW b \in Blocks(s)
    PROVE  GoodBlock(b)
<1>0. \A S, T : Column(<<>>, S, T)
  BY EmptyColumn
<1>1. CASE b \in AccountBlocks(s)
  <2>. DEFINE blocks(a) == {Block(s, None, "accounts", add, remove, withdrawals) :
                              add \in Table({a}, AccountValue), remove \in SUBSET {a},
                              withdrawals \in SUBSET {a}}
  <2>0. PICK a \in Accounts : b \in blocks(a)
    <3>1. AccountBlocks(s) = UNION {blocks(a) : a \in Accounts}
      BY DEF AccountBlocks
    <3>. HIDE DEF blocks
    <3>. QED  BY <1>1, <3>1
  <2>. DEFINE added == Table({a}, AccountValue)
  <2>1. PICK add \in added, remove \in SUBSET {a}, withdrawals \in SUBSET {a} :
           b = Block(s, None, "accounts", add, remove, withdrawals)
    <3>. HIDE DEF added
    <3>1. b \in {Block(s, None, "accounts", add, remove, withdrawals) :
                    add \in added, remove \in SUBSET {a}, withdrawals \in SUBSET {a}}
      BY <2>0 DEF added
    <3>. QED  BY <3>1
  <2>2. /\ b.slot = s /\ b.issuer = None /\ b.add.utxo = {} /\ b.add.pools = <<>>
        /\ b.add.accounts = add /\ b.add.dreps = <<>> /\ b.add.members = <<>>
        /\ b.add.proposals = <<>> /\ b.add.votes = <<>>
        /\ b.remove.pools = <<>> /\ b.remove.dreps = <<>>
    BY <2>1, BlockFields
  <2>3. Column(add, Accounts, AccountValue)
    <3>1. Column(add, {a}, AccountValue)
      BY TableRows
    <3>. QED  BY <3>1 DEF Column
  <2>. QED  BY <1>0, <2>2, <2>3 DEF GoodBlock
<1>2. CASE b \in UtxoBlocks(s)
  <2>1. PICK issuer \in Pools, add \in SUBSET Outputs, remove \in SUBSET Outputs :
           b = Block(s, issuer, "utxo", add, remove, {})
    BY <1>2 DEF UtxoBlocks
  <2>2. /\ b.slot = s /\ b.issuer = issuer /\ b.add.utxo = add /\ b.add.pools = <<>>
        /\ b.add.accounts = <<>> /\ b.add.dreps = <<>> /\ b.add.members = <<>>
        /\ b.add.proposals = <<>> /\ b.add.votes = <<>>
        /\ b.remove.pools = <<>> /\ b.remove.dreps = <<>>
    BY <2>1, BlockFields
  <2>. QED  BY <1>0, <2>2 DEF GoodBlock
<1>3. CASE b \in PoolBlocks(s)
  <2>. DEFINE added == Table(Pools, PoolUpdates(s))
  <2>1. PICK add \in added, remove \in Table(Pools, {s}) :
           b = Block(s, None, "pools", add, remove, {})
    <3>0. PoolBlocks(s) = {Block(s, None, "pools", add, remove, {}) :
                             add \in added, remove \in Table(Pools, {s})}
      BY DEF PoolBlocks
    <3>. HIDE DEF added
    <3>. QED  BY <1>3, <3>0
  <2>2. /\ b.slot = s /\ b.issuer = None /\ b.add.utxo = {} /\ b.add.pools = add
        /\ b.add.accounts = <<>> /\ b.add.dreps = <<>> /\ b.add.members = <<>>
        /\ b.add.proposals = <<>> /\ b.add.votes = <<>>
        /\ b.remove.pools = remove /\ b.remove.dreps = <<>>
    BY <2>1, BlockFields
  <2>3. Column(add, Pools, PoolAdded)
    <3>1. Column(add, Pools, PoolUpdates(s))
      BY TableRows
    <3>2. PoolUpdates(s) \subseteq PoolAdded
      <4>. DEFINE given == [params : Params, epoch : Slots]
      <4>1. [params : Params, epoch : {s}] \subseteq given
        OBVIOUS
      <4>. HIDE DEF given
      <4>2. /\ \A u \in given : <<u>> \in Seq(given) /\ <<u>> # <<>>
            /\ \A u, v \in given : <<u, v>> \in Seq(given) /\ <<u, v>> # <<>>
        OBVIOUS
      <4>3. PoolAdded = Seq(given) \ {<<>>}
        BY DEF PoolAdded, given
      <4>4. ASSUME NEW t \in PoolUpdates(s)
            PROVE  \/ \E u \in given : t = <<u>>
                   \/ \E u, v \in given : t = <<u, v>>
        BY <4>1, <4>4 DEF PoolUpdates
      <4>. QED  BY <4>2, <4>3, <4>4
    <3>. QED  BY <3>1, <3>2 DEF Column
  <2>4. Column(remove, Pools, Slots)
    <3>1. Column(remove, Pools, {s})
      BY TableRows
    <3>. QED  BY <3>1 DEF Column
  <2>. QED  BY <1>0, <2>2, <2>3, <2>4 DEF GoodBlock
<1>4. CASE b \in DrepBlocks(s)
  <2>1. PICK add \in Table(Dreps, {None, RegisteredAt(s)}),
             remove \in Table(Dreps, {RemovedAt(s)}) :
           b = Block(s, None, "dreps", add, remove, {})
    BY <1>4 DEF DrepBlocks
  <2>2. /\ b.slot = s /\ b.issuer = None /\ b.add.utxo = {} /\ b.add.pools = <<>>
        /\ b.add.accounts = <<>> /\ b.add.dreps = add /\ b.add.members = <<>>
        /\ b.add.proposals = <<>> /\ b.add.votes = <<>>
        /\ b.remove.pools = <<>> /\ b.remove.dreps = remove
    BY <2>1, BlockFields
  <2>3. Column(add, Dreps, DrepAdded(s))
    BY TableRows DEF DrepAdded
  <2>4. Column(remove, Dreps, {RemovedAt(s)})
    BY TableRows
  <2>. QED  BY <1>0, <2>2, <2>3, <2>4 DEF GoodBlock
<1>5. CASE b \in MemberBlocks(s)
  <2>1. PICK add \in Table(Members, MemberAdded) :
           b = Block(s, None, "members", add, {}, {})
    BY <1>5 DEF MemberBlocks, MemberAdded
  <2>2. /\ b.slot = s /\ b.issuer = None /\ b.add.utxo = {} /\ b.add.pools = <<>>
        /\ b.add.accounts = <<>> /\ b.add.dreps = <<>> /\ b.add.members = add
        /\ b.add.proposals = <<>> /\ b.add.votes = <<>>
        /\ b.remove.pools = <<>> /\ b.remove.dreps = <<>>
    BY <2>1, BlockFields
  <2>3. Column(add, Members, MemberAdded)
    BY TableRows
  <2>. QED  BY <1>0, <2>2, <2>3 DEF GoodBlock
<1>6. CASE b \in ProposalBlocks(s)
  <2>. DEFINE base(proposed) == Block(s, None, "proposals", proposed, <<>>, {})
              voted == UNION {Table({<<p, v>>}, Vote) : p \in Proposals, v \in Voters}
              full(proposed, votes) == [base(proposed) EXCEPT !.add.votes = votes]
  <2>1. PICK proposed \in Table(Proposals, {s}), votes \in voted :
           b = full(proposed, votes)
    <3>0. ProposalBlocks(s) = {full(proposed, votes) :
                                 proposed \in Table(Proposals, {s}), votes \in voted}
      BY DEF ProposalBlocks
    <3>. HIDE DEF voted, full
    <3>. QED  BY <1>6, <3>0
  <2>2. /\ b.slot = s /\ b.issuer = None /\ b.add.utxo = {} /\ b.add.pools = <<>>
        /\ b.add.accounts = <<>> /\ b.add.dreps = <<>> /\ b.add.members = <<>>
        /\ b.add.proposals = proposed /\ b.add.votes = votes
        /\ b.remove.pools = <<>> /\ b.remove.dreps = <<>>
    <3>. DEFINE blk == base(proposed)
    <3>1. /\ blk.slot = s /\ blk.issuer = None /\ blk.add.utxo = {}
          /\ blk.add.pools = <<>> /\ blk.add.accounts = <<>> /\ blk.add.dreps = <<>>
          /\ blk.add.members = <<>> /\ blk.add.proposals = proposed
          /\ blk.remove.pools = <<>> /\ blk.remove.dreps = <<>>
      BY BlockFields
    <3>2. /\ DOMAIN blk = {"slot", "issuer", "add", "remove", "withdrawals"}
          /\ DOMAIN blk.add = {"utxo", "pools", "accounts", "dreps", "members",
                               "proposals", "votes"}
      BY DEF Block, NothingAdded
    <3>3. b = [blk EXCEPT !.add.votes = votes]
      BY <2>1
    <3>. HIDE DEF blk
    <3>. QED  BY <3>1, <3>2, <3>3, VotesAdded
  <2>3. Column(proposed, Proposals, Slots)
    <3>1. Column(proposed, Proposals, {s})
      BY TableRows
    <3>. QED  BY <3>1 DEF Column
  <2>4. Column(votes, Proposals \X Voters, Vote)
    <3>1. PICK p \in Proposals, v \in Voters : votes \in Table({<<p, v>>}, Vote)
      OBVIOUS
    <3>2. Column(votes, {<<p, v>>}, Vote)
      BY <3>1, TableRows
    <3>. QED  BY <3>2 DEF Column
  <2>. QED  BY <1>0, <2>2, <2>3, <2>4 DEF GoodBlock
<1>. QED
  <2>1. PICK column \in group :
           b \in CASE column = "accounts" -> AccountBlocks(s)
                   [] column = "utxo" -> UtxoBlocks(s)
                   [] column = "pools" -> PoolBlocks(s)
                   [] column = "dreps" -> DrepBlocks(s)
                   [] column = "members" -> MemberBlocks(s)
                   [] column = "proposals" -> ProposalBlocks(s)
                   [] OTHER -> {}
    BY DEF Blocks
  <2>. QED  BY <1>1, <1>2, <1>3, <1>4, <1>5, <1>6, <2>1

\* The columns after save, one by one.
LEMMA SavedColumns ==
    ASSUME NEW db, DOMAIN db = Columns, NEW b
    PROVE  LET s == SaveColumns(db, b)
           IN  /\ DOMAIN s = Columns
               /\ s.tip = b.slot
               /\ s.issuers = IF b.issuer = None THEN db.issuers
                              ELSE Put([i \in {b.slot} |-> b.issuer], db.issuers)
               /\ s.utxo = (db.utxo \cup b.add.utxo) \ b.remove.utxo
               /\ s.pools = RemovePools(AddPools(db.pools, b.add.pools), b.remove.pools)
               /\ s.accounts = Without(ResetMany(AddAccounts(db.accounts, b.add.accounts),
                                                 b.withdrawals), b.remove.accounts)
               /\ s.dreps = RemoveDreps(AddDreps(db.dreps, b.add.dreps), b.remove.dreps)
               /\ s.members = UpsertMembers(db.members, b.add.members)
               /\ s.proposals = Put(b.add.proposals, db.proposals)
               /\ s.votes = Put(b.add.votes, db.votes)
               /\ s.pots = db.pots /\ s.progress = db.progress
               /\ s.protocol = db.protocol /\ s.committee = db.committee
BY DEF SaveColumns, Columns, AddProposals, AddVotes

LEMMA MemorySavedColumns ==
    ASSUME NEW db, DOMAIN db = Columns, NEW b, ~ AlreadyKnown(db, b)
    PROVE  LET s == MemorySaved(db, b)
           IN  /\ DOMAIN s = Columns
               /\ s.tip = b.slot
               /\ s.issuers = IF b.issuer = None THEN db.issuers
                              ELSE Put([i \in {b.slot} |-> b.issuer], db.issuers)
               /\ s.utxo = (db.utxo \cup b.add.utxo) \ b.remove.utxo
               /\ s.pools = MemoryRemovePools(MemoryAddPools(db.pools, b.add.pools),
                                              b.remove.pools)
               /\ s.accounts = Without(MemoryResetMany(
                                          MemoryAddAccounts(db.accounts, b.add.accounts),
                                          b.withdrawals), b.remove.accounts)
               /\ s.dreps = MemoryRemoveDreps(MemoryAddDreps(db.dreps, b.add.dreps),
                                              b.remove.dreps)
               /\ s.members = Without(MemoryAddMembers(db.members, b.add.members),
                                      b.remove.members)
               /\ s.proposals = Put(b.add.proposals, db.proposals)
               /\ s.votes = Put(b.add.votes, db.votes)
               /\ s.pots = db.pots /\ s.progress = db.progress
               /\ s.protocol = db.protocol /\ s.committee = db.committee
BY DEF MemorySaved, Columns, AlreadyKnown, MemoryInserted

-----------------------------------------------------------------------------
(* The stores.                                                             *)

SameStores(db, copy) ==
    /\ copy.tip = db.tip
    /\ copy.issuers = db.issuers
    /\ copy.utxo = db.utxo
    /\ copy.pools = db.pools
    /\ copy.dreps = db.dreps
    /\ SameAccounts(db.accounts, copy.accounts)
    /\ copy.proposals = db.proposals
    /\ copy.votes = db.votes
    /\ copy.pots = db.pots
    /\ copy.progress = db.progress
    /\ db.protocol \in {None, copy.protocol}
    /\ db.committee \in {None, copy.committee}

LEMMA AgreementIsSameStores == StoresAgree <=> SameStores(rocks, memory)
BY DEF StoresAgree, SameStores, SameAccounts

\* A block that the ledger has checked leaves the stores typed and in
\* agreement.
LEMMA SaveKeepsStores ==
    ASSUME NEW db, ColumnsOK(db), NEW copy, ColumnsOK(copy), SameStores(db, copy),
           NEW b, GoodBlock(b), Addable(db.accounts, b.add.accounts)
    PROVE  /\ ColumnsOK(Saved(db, b)) /\ ColumnsOK(MemorySaved(copy, b))
           /\ SameStores(Saved(db, b), MemorySaved(copy, b))
<1>1. CASE AlreadyKnown(db, b)
  <2>1. Saved(db, b) = db
    BY <1>1 DEF Saved
  <2>2. MemorySaved(copy, b) = copy
    BY <1>1 DEF MemorySaved, AlreadyKnown, SameStores
  <2>. QED  BY <2>1, <2>2
<1>2. CASE ~ AlreadyKnown(db, b)
  <2>. DEFINE s == SaveColumns(db, b)
              m == MemorySaved(copy, b)
  <2>1. Saved(db, b) = s
    BY <1>2 DEF Saved
  <2>2. /\ DOMAIN s = Columns
        /\ s.tip = b.slot
        /\ s.issuers = IF b.issuer = None THEN db.issuers
                       ELSE Put([i \in {b.slot} |-> b.issuer], db.issuers)
        /\ s.utxo = (db.utxo \cup b.add.utxo) \ b.remove.utxo
        /\ s.pools = RemovePools(AddPools(db.pools, b.add.pools), b.remove.pools)
        /\ s.accounts = Without(ResetMany(AddAccounts(db.accounts, b.add.accounts),
                                          b.withdrawals), b.remove.accounts)
        /\ s.dreps = RemoveDreps(AddDreps(db.dreps, b.add.dreps), b.remove.dreps)
        /\ s.members = UpsertMembers(db.members, b.add.members)
        /\ s.proposals = Put(b.add.proposals, db.proposals)
        /\ s.votes = Put(b.add.votes, db.votes)
        /\ s.pots = db.pots /\ s.progress = db.progress
        /\ s.protocol = db.protocol /\ s.committee = db.committee
    <3>1. DOMAIN db = Columns
      BY DEF ColumnsOK
    <3>. QED  BY <3>1, SavedColumns
  <2>3. /\ DOMAIN m = Columns
        /\ m.tip = b.slot
        /\ m.issuers = IF b.issuer = None THEN copy.issuers
                       ELSE Put([i \in {b.slot} |-> b.issuer], copy.issuers)
        /\ m.utxo = (copy.utxo \cup b.add.utxo) \ b.remove.utxo
        /\ m.pools = MemoryRemovePools(MemoryAddPools(copy.pools, b.add.pools),
                                       b.remove.pools)
        /\ m.accounts = Without(MemoryResetMany(
                                   MemoryAddAccounts(copy.accounts, b.add.accounts),
                                   b.withdrawals), b.remove.accounts)
        /\ m.dreps = MemoryRemoveDreps(MemoryAddDreps(copy.dreps, b.add.dreps),
                                       b.remove.dreps)
        /\ m.members = Without(MemoryAddMembers(copy.members, b.add.members),
                               b.remove.members)
        /\ m.proposals = Put(b.add.proposals, copy.proposals)
        /\ m.votes = Put(b.add.votes, copy.votes)
        /\ m.pots = copy.pots /\ m.progress = copy.progress
        /\ m.protocol = copy.protocol /\ m.committee = copy.committee
    <3>1. DOMAIN copy = Columns /\ ~ AlreadyKnown(copy, b)
      BY <1>2 DEF ColumnsOK, AlreadyKnown, SameStores
    <3>. QED  BY <3>1, MemorySavedColumns
  <2>. HIDE DEF s, m
  <2>4. /\ Column(db.issuers, Slots, Pools) /\ db.utxo \subseteq Outputs
        /\ Column(db.pools, Pools, PoolRow)
        /\ Column(db.accounts, Accounts, AccountRow)
        /\ Column(db.dreps, Dreps, DrepRow) /\ Column(db.members, Members, MemberRow)
        /\ Column(db.proposals, Proposals, Slots)
        /\ Column(db.votes, Proposals \X Voters, Vote)
        /\ Column(copy.accounts, Accounts, AccountRow)
        /\ Column(copy.members, Members, MemberRow)
    BY DEF ColumnsOK
  <2>5. /\ b.slot \in Slots /\ b.issuer \in Pools \cup {None}
        /\ b.add.utxo \subseteq Outputs
        /\ Column(b.add.pools, Pools, PoolAdded)
        /\ Column(b.add.dreps, Dreps, DrepAdded(b.slot))
        /\ Column(b.add.members, Members, MemberAdded)
        /\ Column(b.add.proposals, Proposals, Slots)
        /\ Column(b.add.votes, Proposals \X Voters, Vote)
        /\ Column(b.remove.pools, Pools, Slots)
        /\ Column(b.remove.dreps, Dreps, {RemovedAt(b.slot)})
    BY DEF GoodBlock
  <2>6. /\ copy.issuers = db.issuers /\ copy.utxo = db.utxo /\ copy.pools = db.pools
        /\ copy.dreps = db.dreps /\ copy.proposals = db.proposals
        /\ copy.votes = db.votes /\ copy.pots = db.pots /\ copy.progress = db.progress
        /\ SameAccounts(db.accounts, copy.accounts)
        /\ db.protocol \in {None, copy.protocol}
        /\ db.committee \in {None, copy.committee}
    BY DEF SameStores
  <2>7. Column(s.issuers, Slots, Pools) /\ m.issuers = s.issuers
    <3>1. CASE b.issuer = None
      BY <2>2, <2>3, <2>4, <2>6, <3>1
    <3>2. CASE b.issuer # None
      <4>. DEFINE row == [i \in {b.slot} |-> b.issuer]
      <4>1. Column(row, Slots, Pools)
        BY <2>5, <3>2 DEF Column
      <4>. HIDE DEF row
      <4>2. Column(Put(row, db.issuers), Slots, Pools)
        BY <2>4, <4>1, PutColumn
      <4>. QED  BY <2>2, <2>3, <2>6, <3>2, <4>2 DEF row
    <3>. QED  BY <3>1, <3>2
  <2>8. s.utxo \subseteq Outputs /\ m.utxo = s.utxo
    BY <2>2, <2>3, <2>4, <2>5, <2>6
  <2>9. Column(s.pools, Pools, PoolRow) /\ m.pools = s.pools
    <3>. DEFINE added == AddPools(db.pools, b.add.pools)
    <3>1. Column(added, Pools, PoolRow)
          /\ MemoryAddPools(db.pools, b.add.pools) = added
      BY <2>4, <2>5, AddPoolsAgree
    <3>. HIDE DEF added
    <3>2. /\ Column(RemovePools(added, b.remove.pools), Pools, PoolRow)
          /\ MemoryRemovePools(added, b.remove.pools)
                = RemovePools(added, b.remove.pools)
      BY <2>5, <3>1, RemovePoolsAgree
    <3>. QED  BY <2>2, <2>3, <2>6, <3>1, <3>2 DEF added
  <2>10. /\ Column(s.accounts, Accounts, AccountRow)
         /\ Column(m.accounts, Accounts, AccountRow)
         /\ SameAccounts(s.accounts, m.accounts)
    <3>. DEFINE rows == db.accounts
                mrows == copy.accounts
                add == b.add.accounts
                paid == b.withdrawals
                gone == b.remove.accounts
    <3>1. /\ s.accounts = After(rows, add, paid, gone)
          /\ m.accounts = MemoryAfter(mrows, add, paid, gone)
      BY <2>2, <2>3 DEF After, MemoryAfter
    <3>2. /\ Column(rows, Accounts, AccountRow) /\ Column(mrows, Accounts, AccountRow)
          /\ SameAccounts(rows, mrows) /\ Addable(rows, add)
      BY <2>4, <2>6
    <3>. HIDE DEF rows, mrows, add, paid, gone
    <3>3. /\ Column(After(rows, add, paid, gone), Accounts, AccountRow)
          /\ Column(MemoryAfter(mrows, add, paid, gone), Accounts, AccountRow)
          /\ SameAccounts(After(rows, add, paid, gone), MemoryAfter(mrows, add, paid, gone))
      BY <3>2, SavedAccounts
    <3>. QED  BY <3>1, <3>3
  <2>11. Column(s.dreps, Dreps, DrepRow) /\ m.dreps = s.dreps
    <3>. DEFINE added == AddDreps(db.dreps, b.add.dreps)
    <3>1. Column(added, Dreps, DrepRow)
          /\ MemoryAddDreps(db.dreps, b.add.dreps) = added
      BY <2>4, <2>5, AddDrepsAgree
    <3>. HIDE DEF added
    <3>2. /\ Column(RemoveDreps(added, b.remove.dreps), Dreps, DrepRow)
          /\ MemoryRemoveDreps(added, b.remove.dreps)
                = RemoveDreps(added, b.remove.dreps)
      BY <2>5, <3>1, RemoveDrepsAgree
    <3>. QED  BY <2>2, <2>3, <2>6, <3>1, <3>2 DEF added
  <2>12. Column(s.members, Members, MemberRow) /\ Column(m.members, Members, MemberRow)
    <3>1. Column(b.add.members, Members, MemberUpdate)
      BY <2>5 DEF Column, MemberAdded, MemberUpdate, Resettable
    <3>2. Column(UpsertMembers(db.members, b.add.members), Members, MemberRow)
      BY <2>4, <3>1, UpsertMembersTyped
    <3>3. Column(Without(MemoryAddMembers(copy.members, b.add.members),
                         b.remove.members), Members, MemberRow)
      BY <2>4, <3>1, MemoryAddMembersTyped
    <3>. QED  BY <2>2, <2>3, <3>2, <3>3
  <2>13. /\ Column(s.proposals, Proposals, Slots) /\ m.proposals = s.proposals
         /\ Column(s.votes, Proposals \X Voters, Vote) /\ m.votes = s.votes
    <3>1. Column(Put(b.add.proposals, db.proposals), Proposals, Slots)
      BY <2>4, <2>5, PutColumn
    <3>2. Column(Put(b.add.votes, db.votes), Proposals \X Voters, Vote)
      BY <2>4, <2>5, PutColumn
    <3>. QED  BY <2>2, <2>3, <2>6, <3>1, <3>2
  <2>14. ColumnsOK(s)
    <3>1. /\ s.pots \in Nat /\ s.progress \in Progress
          /\ s.protocol \in Protocols \cup {None} /\ s.committee \in Statuses \cup {None}
          /\ s.tip \in Slots \cup {Origin} /\ DOMAIN s = Columns
      BY <2>2, <2>5 DEF ColumnsOK
    <3>. QED  BY <2>7, <2>8, <2>9, <2>10, <2>11, <2>12, <2>13, <3>1 DEF ColumnsOK
  <2>15. ColumnsOK(m)
    <3>1. /\ m.pots \in Nat /\ m.progress \in Progress
          /\ m.protocol \in Protocols \cup {None} /\ m.committee \in Statuses \cup {None}
          /\ m.tip \in Slots \cup {Origin} /\ DOMAIN m = Columns
      BY <2>3, <2>5 DEF ColumnsOK
    <3>. QED  BY <2>7, <2>8, <2>9, <2>10, <2>11, <2>12, <2>13, <3>1 DEF ColumnsOK
  <2>16. SameStores(s, m)
    BY <2>2, <2>3, <2>6, <2>7, <2>8, <2>9, <2>10, <2>11, <2>13 DEF SameStores
  <2>. QED  BY <2>1, <2>14, <2>15, <2>16 DEF m
<1>. QED  BY <1>1, <1>2

-----------------------------------------------------------------------------
(* with_prefix_iterator and with_column.                                   *)

LEMMA WrittenBackEffect ==
    ASSUME NEW column, NEW updates
    PROVE  /\ IsFcn(WrittenBack(column, updates))
           /\ \A k : k \in DOMAIN WrittenBack(column, updates) <=>
                 /\ k \in DOMAIN column
                 /\ k \in DOMAIN updates => updates[k] # None
           /\ \A k \in DOMAIN WrittenBack(column, updates) :
                 WrittenBack(column, updates)[k] =
                    IF k \in DOMAIN updates THEN updates[k] ELSE column[k]
BY DEF WrittenBack, IsFcn

\* When no row is taken for the absence of one, both do the same.
LEMMA RebuiltAgrees ==
    ASSUME NEW column, NEW updates, \A k \in DOMAIN column : column[k] # None
    PROVE  MemoryRebuilt(column, updates) = WrittenBack(column, updates)
<1>. DEFINE handed == [k \in DOMAIN column |->
                         IF k \in DOMAIN updates THEN updates[k] ELSE column[k]]
            left == {j \in DOMAIN column : handed[j] # None}
            r == [k \in left |-> handed[k]]
            w == WrittenBack(column, updates)
<1>1. MemoryRebuilt(column, updates) = r
  BY DEF MemoryRebuilt
<1>2. \A k : k \in left <=>
         k \in DOMAIN column /\ (k \in DOMAIN updates => updates[k] # None)
  OBVIOUS
<1>3. DOMAIN r = left /\ IsFcn(r) /\ \A k \in left : r[k] = handed[k]
  BY DEF IsFcn
<1>4. /\ IsFcn(w)
      /\ \A k : k \in DOMAIN w <=>
            k \in DOMAIN column /\ (k \in DOMAIN updates => updates[k] # None)
      /\ \A k \in DOMAIN w :
            w[k] = IF k \in DOMAIN updates THEN updates[k] ELSE column[k]
  BY WrittenBackEffect
<1>5. \A k \in left : handed[k] = IF k \in DOMAIN updates THEN updates[k] ELSE column[k]
  OBVIOUS
<1>. HIDE DEF handed, left, r, w
<1>6. r = w
  <2>1. DOMAIN r = DOMAIN w
    BY <1>2, <1>3, <1>4
  <2>2. \A k \in DOMAIN r : r[k] = w[k]
    BY <1>3, <1>4, <1>5, <2>1
  <2>. QED  BY <1>3, <1>4, <2>1, <2>2, SameFunction
<1>. QED  BY <1>1, <1>6 DEF w

LEMMA WrittenBackColumn ==
    ASSUME NEW S, NEW T, NEW column, Column(column, S, T), NEW updates,
           \A k \in DOMAIN updates : updates[k] \in T \cup {None}
    PROVE  Column(WrittenBack(column, updates), S, T)
<1>. DEFINE w == WrittenBack(column, updates)
<1>1. \A k \in DOMAIN w :
         /\ k \in DOMAIN column /\ (k \in DOMAIN updates => updates[k] # None)
         /\ w[k] = IF k \in DOMAIN updates THEN updates[k] ELSE column[k]
  BY WrittenBackEffect
<1>. HIDE DEF w
<1>2. Column(w, S, T)
  BY <1>1 DEF Column
<1>. QED  BY <1>2 DEF w

LEMMA TickedRows ==
    ASSUME NEW pools, Column(pools, Pools, PoolRow)
    PROVE  \A p \in DOMAIN Ticked(pools) : Ticked(pools)[p] \in PoolRow \cup {None}
<1>. DEFINE due == {q \in DOMAIN pools : pools[q].future # <<>>}
<1>1. DOMAIN Ticked(pools) = due
  BY DEF Ticked
<1>2. ASSUME NEW p \in due
      PROVE  Ticked(pools)[p] \in PoolRow \cup {None}
  <2>. DEFINE update == Head(pools[p].future)
              rest == Tail(pools[p].future)
  <2>1. Ticked(pools)[p] = IF update.params = None THEN None
                           ELSE [current |-> update.params, future |-> rest]
    BY DEF Ticked
  <2>2. pools[p].future \in Seq(PoolUpdate) /\ pools[p].future # <<>>
    <3>1. pools[p] \in PoolRow /\ pools[p].future # <<>>
      BY DEF Column
    <3>. QED  BY <3>1 DEF PoolRow
  <2>3. update \in PoolUpdate /\ rest \in Seq(PoolUpdate)
    BY <2>2, HeadTailProperties
  <2>. HIDE DEF update, rest
  <2>4. CASE update.params = None
    BY <2>1, <2>4
  <2>5. CASE update.params # None
    <3>1. update.params \in Params
      BY <2>3, <2>5 DEF PoolUpdate
    <3>2. Ticked(pools)[p] = [current |-> update.params, future |-> rest]
      BY <2>1, <2>5
    <3>. QED  BY <2>3, <3>1, <3>2 DEF PoolRow
  <2>. QED  BY <2>4, <2>5
<1>. HIDE DEF due
<1>. QED  BY <1>1, <1>2

\* One lovelace more on an account.
LEMMA Rewarded ==
    ASSUME NEW row \in AccountRow
    PROVE  LET paid == [row EXCEPT !.rewards = @ + 1]
           IN  /\ paid \in AccountRow /\ paid.pool = row.pool
               /\ paid.rewards = row.rewards + 1
<1>1. /\ row = [pool |-> row.pool, deposit |-> row.deposit, rewards |-> row.rewards]
      /\ row.pool \in Pools \cup {None} /\ row.deposit \in Nat /\ row.rewards \in Nat
  BY AccountRows
<1>. DEFINE paid == [row EXCEPT !.rewards = @ + 1]
<1>2. paid = [pool |-> row.pool, deposit |-> row.deposit, rewards |-> row.rewards + 1]
  BY <1>1
<1>3. row.rewards + 1 \in Nat
  BY <1>1
<1>. HIDE DEF paid
<1>4. paid \in AccountRow /\ paid.pool = row.pool /\ paid.rewards = row.rewards + 1
  BY <1>1, <1>2, <1>3 DEF AccountRow
<1>. QED  BY <1>4 DEF paid

Credited(rows, paid, a) ==
    /\ Column(paid, Accounts, AccountRow)
    /\ DOMAIN paid = DOMAIN rows
    /\ \A b \in DOMAIN rows :
          /\ paid[b].pool = rows[b].pool
          /\ paid[b].rewards = IF b = a THEN rows[b].rewards + 1 ELSE rows[b].rewards

\* A reward paid through with_accounts, in either store.
LEMMA CreditEffect ==
    ASSUME NEW rows, Column(rows, Accounts, AccountRow), NEW a \in DOMAIN rows
    PROVE  /\ Credited(rows, WrittenBack(rows, Credit(rows, a)), a)
           /\ MemoryRebuilt(rows, Credit(rows, a)) = WrittenBack(rows, Credit(rows, a))
<1>. DEFINE credit == Credit(rows, a)
            paid == WrittenBack(rows, credit)
<1>1. DOMAIN credit = {a} /\ credit[a] = [rows[a] EXCEPT !.rewards = @ + 1]
  BY DEF Credit
<1>. HIDE DEF credit
<1>2. /\ credit[a] \in AccountRow
      /\ credit[a].pool = rows[a].pool /\ credit[a].rewards = rows[a].rewards + 1
  <2>1. rows[a] \in AccountRow
    BY DEF Column
  <2>. QED  BY <1>1, <2>1, Rewarded
<1>3. \A b \in DOMAIN rows : rows[b] # None
  BY RowsAssumption DEF Column
<1>4. credit[a] # None
  BY <1>2, RowsAssumption
<1>5. MemoryRebuilt(rows, credit) = paid
  BY <1>3, RebuiltAgrees
<1>6. Column(paid, Accounts, AccountRow)
  BY <1>1, <1>2, WrittenBackColumn
<1>7. /\ \A k : k \in DOMAIN paid <=>
            k \in DOMAIN rows /\ (k \in DOMAIN credit => credit[k] # None)
      /\ \A k \in DOMAIN paid :
            paid[k] = IF k \in DOMAIN credit THEN credit[k] ELSE rows[k]
  BY WrittenBackEffect
<1>. HIDE DEF paid
<1>8. DOMAIN paid = DOMAIN rows
  BY <1>1, <1>4, <1>7
<1>9. Credited(rows, paid, a)
  BY <1>1, <1>2, <1>6, <1>7, <1>8 DEF Credited
<1>. QED  BY <1>5, <1>9 DEF paid, credit

\* A refund, in RocksDB and in memory.
LEMMA RefundEffect ==
    ASSUME NEW rows, Column(rows, Accounts, AccountRow), NEW a
    PROVE  Credited(rows, Refunded(rows, a, 1), a)
<1>0. \A b \in DOMAIN rows : rows[b] \in AccountRow
  BY DEF Column
<1>1. CASE a \in DOMAIN rows
  <2>. DEFINE row == [rows[a] EXCEPT !.rewards = @ + 1]
              paid == [rows EXCEPT ![a] = row]
  <2>1. Refunded(rows, a, 1) = paid
    BY <1>1 DEF Refunded
  <2>2. row \in AccountRow /\ row.pool = rows[a].pool /\ row.rewards = rows[a].rewards + 1
    BY <1>0, <1>1, Rewarded
  <2>. HIDE DEF row
  <2>3. /\ DOMAIN paid = DOMAIN rows /\ paid[a] = row
        /\ \A b \in DOMAIN rows : b # a => paid[b] = rows[b]
    BY <1>1
  <2>. HIDE DEF paid
  <2>4. Credited(rows, paid, a)
    BY <1>0, <1>1, <2>2, <2>3 DEF Credited, Column
  <2>. QED  BY <2>1, <2>4
<1>2. CASE a \notin DOMAIN rows
  BY <1>2 DEF Refunded, Credited
<1>. QED  BY <1>1, <1>2

LEMMA MemoryRefundEffect ==
    ASSUME NEW rows, Column(rows, Accounts, AccountRow), NEW a
    PROVE  Credited(rows, MemoryRefunded(rows, a, 1), a)
<1>. DEFINE paid == MemoryRefunded(rows, a, 1)
<1>1. /\ DOMAIN paid = DOMAIN rows
      /\ \A b \in DOMAIN rows :
            paid[b] = IF b = a THEN [rows[b] EXCEPT !.rewards = @ + 1] ELSE rows[b]
  BY DEF MemoryRefunded
<1>. HIDE DEF paid
<1>2. ASSUME NEW b \in DOMAIN rows
      PROVE  /\ paid[b] \in AccountRow /\ paid[b].pool = rows[b].pool
             /\ paid[b].rewards = IF b = a THEN rows[b].rewards + 1 ELSE rows[b].rewards
  <2>1. rows[b] \in AccountRow
    BY DEF Column
  <2>2. CASE b = a
    <3>. DEFINE row == [rows[b] EXCEPT !.rewards = @ + 1]
    <3>1. row \in AccountRow /\ row.pool = rows[b].pool /\ row.rewards = rows[b].rewards + 1
      BY <2>1, Rewarded
    <3>2. paid[b] = row
      BY <1>1, <2>2
    <3>. HIDE DEF row
    <3>. QED  BY <2>2, <3>1, <3>2
  <2>3. CASE b # a
    BY <1>1, <2>1, <2>3
  <2>. QED  BY <2>2, <2>3
<1>3. Credited(rows, paid, a)
  BY <1>1, <1>2 DEF Credited, Column
<1>. QED  BY <1>3 DEF paid

-----------------------------------------------------------------------------
(* The lovelace of the accounts.                                           *)

LEMMA LovelaceElements ==
    ASSUME NEW rows, NEW keys
    PROVE  \A x : x \in Lovelace(rows, keys) <=>
              \E a \in keys \cap DOMAIN rows : x \in {a} \X (1..rows[a].rewards)
BY DEF Lovelace

LEMMA LovelacePairs ==
    ASSUME NEW rows, NEW keys
    PROVE  /\ \A a, n : <<a, n>> \in Lovelace(rows, keys) <=>
                 a \in keys \cap DOMAIN rows /\ n \in 1..rows[a].rewards
           /\ \A x \in Lovelace(rows, keys) : x = <<x[1], x[2]>>
<1>1. \A x : x \in Lovelace(rows, keys) <=>
         \E a \in keys \cap DOMAIN rows : x \in {a} \X (1..rows[a].rewards)
  BY LovelaceElements
<1>2. ASSUME NEW a, NEW n
      PROVE  <<a, n>> \in Lovelace(rows, keys) <=>
                a \in keys \cap DOMAIN rows /\ n \in 1..rows[a].rewards
  BY <1>1
<1>3. ASSUME NEW x \in Lovelace(rows, keys)
      PROVE  x = <<x[1], x[2]>>
  <2>1. PICK a : x \in {a} \X (1..rows[a].rewards)
    BY <1>1
  <2>. QED  BY <2>1
<1>. QED  BY <1>2, <1>3

\* One account that is credited makes one more.
LEMMA OneMore ==
    ASSUME NEW rows, Column(rows, Accounts, AccountRow), NEW a \in DOMAIN rows,
           NEW paid, Credited(rows, paid, a), IsFiniteSet(Lovelace(rows, Accounts))
    PROVE  /\ IsFiniteSet(Lovelace(paid, Accounts))
           /\ Total(paid, Accounts) = Total(rows, Accounts) + 1
<1>. DEFINE old == Lovelace(rows, Accounts)
            new == Lovelace(paid, Accounts)
            one == <<a, rows[a].rewards + 1>>
<1>1. /\ \A b, n : <<b, n>> \in old <=> b \in Accounts \cap DOMAIN rows /\ n \in 1..rows[b].rewards
      /\ \A x \in old : x = <<x[1], x[2]>>
  BY LovelacePairs
<1>2. /\ \A b, n : <<b, n>> \in new <=> b \in Accounts \cap DOMAIN paid /\ n \in 1..paid[b].rewards
      /\ \A x \in new : x = <<x[1], x[2]>>
  BY LovelacePairs
<1>3. \A b \in DOMAIN rows : b \in Accounts /\ rows[b].rewards \in Nat
  BY AccountRows DEF Column
<1>4. /\ DOMAIN paid = DOMAIN rows
      /\ \A b \in DOMAIN rows :
            paid[b].rewards = IF b = a THEN rows[b].rewards + 1 ELSE rows[b].rewards
  BY DEF Credited
<1>. HIDE DEF old, new
<1>5. ASSUME NEW b, NEW n
      PROVE  <<b, n>> \in new <=> <<b, n>> \in old \/ <<b, n>> = one
  <2>1. CASE b \in DOMAIN rows /\ b = a
    <3>1. n \in 1..(rows[a].rewards + 1) <=> n \in 1..rows[a].rewards \/ n = rows[a].rewards + 1
      BY <1>3
    <3>. QED  BY <1>1, <1>2, <1>3, <1>4, <2>1, <3>1
  <2>2. CASE b \in DOMAIN rows /\ b # a
    BY <1>1, <1>2, <1>3, <1>4, <2>2
  <2>3. CASE b \notin DOMAIN rows
    BY <1>1, <1>2, <1>4, <2>3
  <2>. QED  BY <2>1, <2>2, <2>3
<1>6. one \notin old
  BY <1>1, <1>3
<1>7. new = old \cup {one}
  <2>. HIDE DEF one
  <2>1. ASSUME NEW x \in new PROVE x \in old \cup {one}
    BY <1>2, <1>5
  <2>2. ASSUME NEW x \in old PROVE x \in new
    BY <1>1, <1>5
  <2>3. one \in new
    <3>1. one = <<a, rows[a].rewards + 1>>
      BY DEF one
    <3>. QED  BY <1>5, <3>1
  <2>. QED  BY <2>1, <2>2, <2>3
<1>8. IsFiniteSet(old)
  BY DEF old
<1>. HIDE DEF one
<1>9. /\ IsFiniteSet(old \cup {one})
      /\ Cardinality(old \cup {one}) = IF one \in old THEN Cardinality(old)
                                       ELSE Cardinality(old) + 1
  BY <1>8, FS_AddElement
<1>10. IsFiniteSet(new) /\ Cardinality(new) = Cardinality(old) + 1
  BY <1>6, <1>7, <1>9
<1>. QED  BY <1>10 DEF old, new, Total

\* An account is withdrawn whole, and removed when nothing is left.
LEMMA Withdrawn ==
    ASSUME NEW rows, Column(rows, Accounts, AccountRow), NEW withdrawals, NEW saved,
           DOMAIN saved \subseteq Accounts,
           Emptied(rows, withdrawals, saved),
           \A a \in DOMAIN rows : a \notin DOMAIN saved =>
              a \in withdrawals \/ rows[a].rewards = 0,
           IsFiniteSet(Lovelace(rows, Accounts))
    PROVE  /\ IsFiniteSet(Lovelace(saved, Accounts))
           /\ Total(saved, Accounts) + Total(rows, withdrawals) = Total(rows, Accounts)
<1>. DEFINE old == Lovelace(rows, Accounts)
            new == Lovelace(saved, Accounts)
            out == Lovelace(rows, withdrawals)
<1>1. /\ \A b, n : <<b, n>> \in old <=> b \in Accounts \cap DOMAIN rows /\ n \in 1..rows[b].rewards
      /\ \A x \in old : x = <<x[1], x[2]>>
  BY LovelacePairs
<1>2. /\ \A b, n : <<b, n>> \in new <=> b \in Accounts \cap DOMAIN saved /\ n \in 1..saved[b].rewards
      /\ \A x \in new : x = <<x[1], x[2]>>
  BY LovelacePairs
<1>3. /\ \A b, n : <<b, n>> \in out <=>
            b \in withdrawals \cap DOMAIN rows /\ n \in 1..rows[b].rewards
      /\ \A x \in out : x = <<x[1], x[2]>>
  BY LovelacePairs
<1>4. DOMAIN rows \subseteq Accounts
  BY DEF Column
<1>5. IsFiniteSet(old)
  OBVIOUS
<1>. HIDE DEF old, new, out
<1>6. ASSUME NEW b, NEW n
      PROVE  <<b, n>> \in new <=> <<b, n>> \in old /\ <<b, n>> \notin out
  <2>1. CASE b \in DOMAIN saved /\ (b \in withdrawals \/ b \notin DOMAIN rows)
    <3>1. saved[b].rewards = 0 /\ n \notin 1..0
      BY <2>1 DEF Emptied
    <3>. QED  BY <1>1, <1>2, <1>3, <2>1, <3>1
  <2>2. CASE b \in DOMAIN saved /\ b \notin withdrawals /\ b \in DOMAIN rows
    <3>1. saved[b].rewards = rows[b].rewards
      BY <2>2 DEF Emptied
    <3>. QED  BY <1>1, <1>2, <1>3, <1>4, <2>2, <3>1
  <2>3. CASE b \notin DOMAIN saved /\ b \in DOMAIN rows
    <3>1. b \in withdrawals \/ n \notin 1..rows[b].rewards
      <4>1. n \notin 1..0
        OBVIOUS
      <4>. QED  BY <2>3, <4>1
    <3>. QED  BY <1>1, <1>2, <1>3, <2>3, <3>1
  <2>4. CASE b \notin DOMAIN saved /\ b \notin DOMAIN rows
    BY <1>1, <1>2, <2>4
  <2>. QED  BY <2>1, <2>2, <2>3, <2>4
<1>7. new = old \ out
  <2>1. ASSUME NEW x \in new PROVE x \in old \ out
    BY <1>2, <1>6
  <2>2. ASSUME NEW x \in old \ out PROVE x \in new
    BY <1>1, <1>6
  <2>. QED  BY <2>1, <2>2
<1>8. old \cap out = out
  <2>1. ASSUME NEW x \in out PROVE x \in old
    BY <1>1, <1>3, <1>4
  <2>. QED  BY <2>1
<1>9. IsFiniteSet(old \ out)
      /\ Cardinality(old \ out) = Cardinality(old) - Cardinality(old \cap out)
  BY <1>5, FS_Difference
<1>10. Cardinality(old) \in Nat /\ Cardinality(out) \in Nat
  <2>1. out \in SUBSET old
    BY <1>8
  <2>2. IsFiniteSet(out)
    BY <1>5, <2>1, FS_Subset
  <2>. QED  BY <1>5, <2>2, FS_CardinalityType
<1>11. Cardinality(new) + Cardinality(out) = Cardinality(old)
  <2>1. Cardinality(new) = Cardinality(old) - Cardinality(out)
    <3>1. Cardinality(new) = Cardinality(old \ out)
      BY <1>7
    <3>2. Cardinality(old \cap out) = Cardinality(out)
      BY <1>8
    <3>. QED  BY <1>9, <3>1, <3>2
  <2>2. ASSUME NEW i, NEW j \in Nat, NEW k \in Nat, i = j - k
        PROVE  i + k = j
    BY <2>2
  <2>. QED  BY <1>10, <2>1, <2>2
<1>. QED  BY <1>7, <1>9, <1>11 DEF old, new, out, Total

-----------------------------------------------------------------------------
(* The invariant.  The books are bounded by the supply because lovelace is *)
(* conserved, and the rewards of a copy may differ, so that the three      *)
(* properties are proved together.                                         *)

BooksOK == /\ books \in [held : Nat, withdrawn : Nat]
           /\ group \in Groups

Counted ==
    /\ IsFiniteSet(Lovelace(rocks.accounts, Accounts))
    /\ LovelaceIsConserved

IInv ==
    /\ ColumnsOK(rocks) /\ ColumnsOK(memory)
    /\ BooksOK
    /\ SameStores(rocks, memory)
    /\ Counted

LEMMA Books ==
    ASSUME BooksOK
    PROVE  /\ books = [held |-> books.held, withdrawn |-> books.withdrawn]
           /\ books.held \in Nat /\ books.withdrawn \in Nat
BY DEF BooksOK

LEMMA TotalIsANumber ==
    ASSUME NEW rows, NEW keys, IsFiniteSet(Lovelace(rows, keys))
    PROVE  Total(rows, keys) \in Nat
BY FS_CardinalityType DEF Total

LEMMA IInvImplies ==
    ASSUME IInv
    PROVE  TypeOK /\ StoresAgree /\ LovelaceIsConserved
<1>1. /\ books = [held |-> books.held, withdrawn |-> books.withdrawn]
      /\ books.held \in Nat /\ books.withdrawn \in Nat
  BY Books DEF IInv
<1>2. Total(rocks.accounts, Accounts) \in Nat
  BY TotalIsANumber DEF IInv, Counted
<1>3. rocks.pots \in Nat
  BY DEF IInv, ColumnsOK
<1>4. Total(rocks.accounts, Accounts) + rocks.pots + books.withdrawn + books.held = Supply
  BY DEF IInv, Counted, LovelaceIsConserved
<1>5. books.held \in 0..Supply /\ books.withdrawn \in 0..Supply
  BY <1>1, <1>2, <1>3, <1>4, SupplyAssumption
<1>6. books \in Book
  BY <1>1, <1>5 DEF Book
<1>. QED  BY <1>6, AgreementIsSameStores DEF IInv, TypeOK, Counted, BooksOK

LEMMA NoLovelace ==
    ASSUME NEW keys
    PROVE  /\ IsFiniteSet(Lovelace(<<>>, keys)) /\ Total(<<>>, keys) = 0
<1>1. Lovelace(<<>>, keys) = {}
  BY DEF Lovelace
<1>. QED  BY <1>1, FS_EmptySet DEF Total

LEMMA InitIInv ==
    ASSUME Init
    PROVE  IInv
<1>1. ColumnsOK(rocks)
  <2>1. \A S, T : Column(<<>>, S, T)
    BY EmptyColumn
  <2>. QED  BY <2>1 DEF Init, Empty, ColumnsOK, Columns, Progress
<1>2. PICK protocol \in Protocols : memory = MemoryEmpty(protocol)
  BY DEF Init
<1>3. /\ DOMAIN memory = Columns
      /\ memory.tip = Origin /\ memory.issuers = <<>> /\ memory.utxo = {}
      /\ memory.pools = <<>> /\ memory.accounts = <<>> /\ memory.dreps = <<>>
      /\ memory.members = <<>> /\ memory.proposals = <<>> /\ memory.votes = <<>>
      /\ memory.pots = 0 /\ memory.progress = None
      /\ memory.protocol = protocol /\ memory.committee = "NoConfidence"
  BY <1>2 DEF MemoryEmpty, Empty, Columns
<1>4. ColumnsOK(memory)
  <2>1. \A S, T : Column(<<>>, S, T)
    BY EmptyColumn
  <2>. QED  BY <1>3, <2>1 DEF ColumnsOK, Progress, Statuses
<1>5. SameStores(rocks, memory)
  BY <1>3 DEF Init, Empty, SameStores, SameAccounts
<1>6. BooksOK
  BY SupplyAssumption DEF Init, BooksOK
<1>7. Counted
  <2>1. rocks.accounts = <<>> /\ rocks.pots = 0
    BY DEF Init, Empty
  <2>2. IsFiniteSet(Lovelace(<<>>, Accounts)) /\ Total(<<>>, Accounts) = 0
    BY NoLovelace
  <2>3. books.held = Supply /\ books.withdrawn = 0
    BY DEF Init
  <2>. QED  BY <2>1, <2>2, <2>3, SupplyAssumption DEF Counted, LovelaceIsConserved
<1>. QED  BY <1>1, <1>4, <1>5, <1>6, <1>7 DEF IInv

\* What the ledger has checked of a block about accounts.
LEMMA AddableBlock ==
    ASSUME NEW db, NEW b, GoodBlock(b), ValidAccounts(b, db)
    PROVE  Addable(db.accounts, b.add.accounts)
BY DEF GoodBlock, ValidAccounts, Addable

LEMMA SaveIInv ==
    ASSUME IInv, NEW s \in Slots, NEW b \in Blocks(s), Save(b)
    PROVE  IInv'
<1>1. GoodBlock(b)
  BY BlocksAreGood
<1>2. Addable(rocks.accounts, b.add.accounts)
  BY <1>1, AddableBlock DEF Save
<1>3. /\ ColumnsOK(rocks') /\ ColumnsOK(memory') /\ SameStores(rocks', memory')
  BY <1>1, <1>2, SaveKeepsStores DEF IInv, Save
<1>4. /\ books = [held |-> books.held, withdrawn |-> books.withdrawn]
      /\ books.held \in Nat /\ books.withdrawn \in Nat
  BY Books DEF IInv
<1>5. /\ books' = [books EXCEPT !.withdrawn =
                      @ + IF AlreadyKnown(rocks, b) THEN 0
                          ELSE Total(rocks.accounts, b.withdrawals)]
      /\ group' = group /\ group \in Groups
  BY DEF Save, IInv, BooksOK
<1>6. /\ IsFiniteSet(Lovelace(rocks.accounts, Accounts))
      /\ Column(rocks.accounts, Accounts, AccountRow) /\ rocks.pots \in Nat
      /\ Total(rocks.accounts, Accounts) + rocks.pots + books.withdrawn + books.held
            = Supply
  BY DEF IInv, Counted, LovelaceIsConserved, ColumnsOK
<1>7. CASE AlreadyKnown(rocks, b)
  <2>1. rocks' = rocks
    BY <1>7 DEF Save, Saved
  <2>2. books' = books
    BY <1>4, <1>5, <1>7
  <2>3. BooksOK' /\ Counted'
    BY <1>5, <2>1, <2>2 DEF IInv, BooksOK, Counted, LovelaceIsConserved
  <2>. QED  BY <1>3, <2>3 DEF IInv
<1>8. CASE ~ AlreadyKnown(rocks, b)
  <2>. DEFINE old == rocks.accounts
              new == rocks'.accounts
  <2>1. /\ new = Without(ResetMany(AddAccounts(old, b.add.accounts), b.withdrawals),
                         b.remove.accounts)
        /\ rocks'.pots = rocks.pots
    <3>1. DOMAIN rocks = Columns /\ rocks' = SaveColumns(rocks, b)
      BY <1>8 DEF IInv, ColumnsOK, Save, Saved
    <3>2. SaveColumns(rocks, b).pots = rocks.pots
          /\ SaveColumns(rocks, b).accounts
               = Without(ResetMany(AddAccounts(rocks.accounts, b.add.accounts),
                                   b.withdrawals), b.remove.accounts)
      BY <3>1, SavedColumns
    <3>. QED  BY <3>1, <3>2
  <2>2. /\ DOMAIN new = (DOMAIN b.add.accounts \cup DOMAIN old) \ b.remove.accounts
        /\ Emptied(old, b.withdrawals, new)
    <3>. DEFINE add == b.add.accounts
                paid == b.withdrawals
                gone == b.remove.accounts
    <3>1. Column(old, Accounts, AccountRow) /\ Addable(old, add)
      BY <1>2, <1>6
    <3>2. SameAccounts(old, old)
      BY DEF SameAccounts
    <3>3. new = After(old, add, paid, gone)
      BY <2>1 DEF After
    <3>. HIDE DEF old, new, add, paid, gone
    <3>4. /\ DOMAIN After(old, add, paid, gone) = (DOMAIN add \cup DOMAIN old) \ gone
          /\ Emptied(old, paid, After(old, add, paid, gone))
      BY <3>1, <3>2, SavedAccounts
    <3>5. DOMAIN new = (DOMAIN add \cup DOMAIN old) \ gone /\ Emptied(old, paid, new)
      BY <3>3, <3>4
    <3>. QED  BY <3>5 DEF add, paid, gone
  <2>3. DOMAIN new \subseteq Accounts
    BY <1>3 DEF ColumnsOK, Column
  <2>4. \A a \in DOMAIN old : a \notin DOMAIN new =>
           a \in b.withdrawals \/ old[a].rewards = 0
    <3>1. \A a \in b.remove.accounts : a \in b.withdrawals \/ old[a].rewards = 0
      BY DEF Save, ValidAccounts
    <3>. QED  BY <2>2, <3>1
  <2>. DEFINE paid == b.withdrawals
  <2>5. Column(old, Accounts, AccountRow) /\ IsFiniteSet(Lovelace(old, Accounts))
    BY <1>6
  <2>. HIDE DEF old, new, paid
  <2>6. Emptied(old, paid, new)
    BY <2>2 DEF paid
  <2>7. \A a \in DOMAIN old : a \notin DOMAIN new => a \in paid \/ old[a].rewards = 0
    BY <2>4 DEF paid
  <2>8. /\ IsFiniteSet(Lovelace(new, Accounts))
        /\ Total(new, Accounts) + Total(old, paid) = Total(old, Accounts)
    BY <2>3, <2>5, <2>6, <2>7, Withdrawn
  <2>9. IsFiniteSet(Lovelace(old, paid))
    <3>1. DOMAIN old \subseteq Accounts
      BY <2>5 DEF Column
    <3>2. Lovelace(old, paid) \in SUBSET Lovelace(old, Accounts)
      BY <3>1 DEF Lovelace
    <3>. QED  BY <2>5, <3>2, FS_Subset
  <2>10. /\ Total(new, Accounts) \in Nat /\ Total(old, paid) \in Nat
         /\ Total(old, Accounts) \in Nat
    BY <2>5, <2>8, <2>9, TotalIsANumber
  <2>11. /\ books'.held = books.held
         /\ books'.withdrawn = books.withdrawn + Total(old, paid)
         /\ books' = [held |-> books'.held, withdrawn |-> books'.withdrawn]
    BY <1>4, <1>5, <1>8 DEF old, paid
  <2>12. BooksOK'
    <3>1. books'.held \in Nat /\ books'.withdrawn \in Nat
      BY <1>4, <2>10, <2>11
    <3>2. books' \in [held : Nat, withdrawn : Nat]
      BY <2>11, <3>1
    <3>. QED  BY <1>5, <3>2 DEF BooksOK
  <2>13. Counted'
    <3>1. Total(old, Accounts) + rocks.pots + books.withdrawn + books.held = Supply
      BY <1>6 DEF old
    <3>2. Total(new, Accounts) + rocks.pots + (books.withdrawn + Total(old, paid))
             + books.held = Supply
      BY <1>4, <1>6, <2>8, <2>10, <3>1
    <3>3. Total(new, Accounts) + rocks'.pots + books'.withdrawn + books'.held = Supply
      BY <2>1, <2>11, <3>2
    <3>. QED  BY <2>8, <3>3 DEF Counted, LovelaceIsConserved, new
  <2>. QED  BY <1>3, <2>12, <2>13 DEF IInv
<1>. QED  BY <1>7, <1>8

\* A call that leaves the accounts and the pots as they are.
LEMMA SameBooks ==
    ASSUME IInv, rocks'.accounts = rocks.accounts, rocks'.pots = rocks.pots,
           UNCHANGED <<books, group>>
    PROVE  BooksOK' /\ Counted'
BY DEF IInv, BooksOK, Counted, LovelaceIsConserved

\* The accounts of both stores are credited alike.
LEMMA CreditedAgree ==
    ASSUME NEW rows, NEW copy, SameAccounts(rows, copy), NEW a,
           NEW paid, Credited(rows, paid, a), NEW mpaid, Credited(copy, mpaid, a)
    PROVE  SameAccounts(paid, mpaid)
BY DEF SameAccounts, Credited

\* What a column may hold, and when the two of a name agree (v is the one of
\* RocksDB).
ColumnOK(c, v) ==
    /\ c = "tip" => v \in Slots \cup {Origin}
    /\ c = "issuers" => Column(v, Slots, Pools)
    /\ c = "utxo" => v \subseteq Outputs
    /\ c = "pools" => Column(v, Pools, PoolRow)
    /\ c = "accounts" => Column(v, Accounts, AccountRow)
    /\ c = "dreps" => Column(v, Dreps, DrepRow)
    /\ c = "members" => Column(v, Members, MemberRow)
    /\ c = "proposals" => Column(v, Proposals, Slots)
    /\ c = "votes" => Column(v, Proposals \X Voters, Vote)
    /\ c = "pots" => v \in Nat
    /\ c = "progress" => v \in Progress
    /\ c = "protocol" => v \in Protocols \cup {None}
    /\ c = "committee" => v \in Statuses \cup {None}

SameColumn(c, v, w) ==
    /\ c \in {"tip", "issuers", "utxo", "pools", "dreps", "proposals", "votes", "pots",
              "progress"} => w = v
    /\ c = "accounts" => SameAccounts(v, w)
    /\ c \in {"protocol", "committee"} => v \in {None, w}

LEMMA ColumnByColumn ==
    ASSUME NEW db, DOMAIN db = Columns
    PROVE  ColumnsOK(db) <=> \A c \in Columns : ColumnOK(c, db[c])
<1>1. ASSUME ColumnsOK(db), NEW c \in Columns
      PROVE  ColumnOK(c, db[c])
  BY <1>1 DEF ColumnsOK, ColumnOK, Columns
<1>2. ASSUME \A c \in Columns : ColumnOK(c, db[c])
      PROVE  ColumnsOK(db)
  <2>1. /\ ColumnOK("tip", db.tip) /\ ColumnOK("issuers", db.issuers)
        /\ ColumnOK("utxo", db.utxo) /\ ColumnOK("pools", db.pools)
        /\ ColumnOK("accounts", db.accounts) /\ ColumnOK("dreps", db.dreps)
        /\ ColumnOK("members", db.members) /\ ColumnOK("proposals", db.proposals)
        /\ ColumnOK("votes", db.votes) /\ ColumnOK("pots", db.pots)
        /\ ColumnOK("progress", db.progress) /\ ColumnOK("protocol", db.protocol)
        /\ ColumnOK("committee", db.committee)
    BY <1>2 DEF Columns
  <2>. QED  BY <2>1 DEF ColumnsOK, ColumnOK
<1>. QED  BY <1>1, <1>2

LEMMA SameByColumn ==
    ASSUME NEW db, NEW copy
    PROVE  SameStores(db, copy) <=> \A c \in Columns : SameColumn(c, db[c], copy[c])
<1>1. ASSUME SameStores(db, copy), NEW c \in Columns
      PROVE  SameColumn(c, db[c], copy[c])
  BY <1>1 DEF SameStores, SameColumn, Columns
<1>2. ASSUME \A c \in Columns : SameColumn(c, db[c], copy[c])
      PROVE  SameStores(db, copy)
  <2>1. /\ SameColumn("tip", db.tip, copy.tip)
        /\ SameColumn("issuers", db.issuers, copy.issuers)
        /\ SameColumn("utxo", db.utxo, copy.utxo)
        /\ SameColumn("pools", db.pools, copy.pools)
        /\ SameColumn("accounts", db.accounts, copy.accounts)
        /\ SameColumn("dreps", db.dreps, copy.dreps)
        /\ SameColumn("proposals", db.proposals, copy.proposals)
        /\ SameColumn("votes", db.votes, copy.votes)
        /\ SameColumn("pots", db.pots, copy.pots)
        /\ SameColumn("progress", db.progress, copy.progress)
        /\ SameColumn("protocol", db.protocol, copy.protocol)
        /\ SameColumn("committee", db.committee, copy.committee)
    BY <1>2 DEF Columns
  <2>. QED  BY <2>1 DEF SameStores, SameColumn
<1>. QED  BY <1>1, <1>2

Replaced(db, c, v) == [db EXCEPT ![c] = v]

\* A column of stores that agree is replaced in both.
LEMMA OneColumn ==
    ASSUME NEW db, ColumnsOK(db), NEW copy, ColumnsOK(copy), SameStores(db, copy),
           NEW c \in Columns, NEW v, NEW w,
           ColumnOK(c, v), ColumnOK(c, w), SameColumn(c, v, w),
           NEW s, s = Replaced(db, c, v), NEW m, m = Replaced(copy, c, w)
    PROVE  /\ ColumnsOK(s) /\ ColumnsOK(m) /\ SameStores(s, m)
           /\ s[c] = v /\ \A d \in Columns : d # c => s[d] = db[d]
<1>1. DOMAIN db = Columns /\ DOMAIN copy = Columns
  BY DEF ColumnsOK
<1>2. /\ DOMAIN s = Columns /\ s[c] = v /\ \A d \in Columns : d # c => s[d] = db[d]
      /\ DOMAIN m = Columns /\ m[c] = w /\ \A d \in Columns : d # c => m[d] = copy[d]
  BY <1>1 DEF Replaced
<1>3. /\ \A d \in Columns : ColumnOK(d, db[d])
      /\ \A d \in Columns : ColumnOK(d, copy[d])
      /\ \A d \in Columns : SameColumn(d, db[d], copy[d])
  BY <1>1, ColumnByColumn, SameByColumn
<1>4. /\ \A d \in Columns : ColumnOK(d, s[d])
      /\ \A d \in Columns : ColumnOK(d, m[d])
      /\ \A d \in Columns : SameColumn(d, s[d], m[d])
  BY <1>2, <1>3
<1>. QED  BY <1>2, <1>4, ColumnByColumn, SameByColumn

LEMMA RefundIInv ==
    ASSUME IInv, NEW a \in Accounts, Refund(a)
    PROVE  IInv'
<1>. DEFINE old == rocks.accounts
            mold == memory.accounts
            new == Refunded(old, a, 1)
            mnew == MemoryRefunded(mold, a, 1)
<1>1. /\ rocks' = Replaced(rocks, "accounts", new)
      /\ memory' = Replaced(memory, "accounts", mnew)
  BY DEF Refund, Replaced
<1>2. /\ Column(old, Accounts, AccountRow) /\ Column(mold, Accounts, AccountRow)
      /\ SameAccounts(old, mold) /\ IsFiniteSet(Lovelace(old, Accounts))
      /\ ColumnsOK(rocks) /\ ColumnsOK(memory) /\ SameStores(rocks, memory)
      /\ rocks.pots \in Nat
  BY DEF IInv, ColumnsOK, SameStores, Counted
<1>3. Total(old, Accounts) + rocks.pots + books.withdrawn + books.held = Supply
  BY DEF IInv, Counted, LovelaceIsConserved
<1>4. /\ books = [held |-> books.held, withdrawn |-> books.withdrawn]
      /\ books.held \in Nat /\ books.withdrawn \in Nat /\ group \in Groups
  BY Books DEF IInv, BooksOK
<1>5. /\ books.held > 0 /\ group' = group
      /\ books' = [books EXCEPT !.held = @ - 1 + Leftover(old, a, 1)]
  BY DEF Refund
<1>6. new = IF a \in DOMAIN old THEN new ELSE old
  BY DEF Refunded
<1>. HIDE DEF old, mold
<1>7. Credited(old, new, a) /\ Credited(mold, mnew, a)
  BY <1>2, RefundEffect, MemoryRefundEffect
<1>. HIDE DEF new, mnew
<1>8. SameAccounts(new, mnew)
  BY <1>2, <1>7, CreditedAgree
<1>9. Column(new, Accounts, AccountRow) /\ Column(mnew, Accounts, AccountRow)
  BY <1>7 DEF Credited
<1>10. /\ ColumnsOK(rocks') /\ ColumnsOK(memory') /\ SameStores(rocks', memory')
       /\ rocks'.accounts = new /\ rocks'.pots = rocks.pots
  <2>1. ColumnOK("accounts", new) /\ ColumnOK("accounts", mnew)
    BY <1>9 DEF ColumnOK
  <2>2. SameColumn("accounts", new, mnew)
    BY <1>8 DEF SameColumn
  <2>3. "accounts" \in Columns /\ "pots" \in Columns /\ "pots" # "accounts"
    BY DEF Columns
  <2>. QED  BY <1>1, <1>2, <2>1, <2>2, <2>3, OneColumn
<1>11. Total(old, Accounts) \in Nat
  BY <1>2, TotalIsANumber
<1>12. CASE a \in DOMAIN old
  <2>1. IsFiniteSet(Lovelace(new, Accounts)) /\ Total(new, Accounts) = Total(old, Accounts) + 1
    BY <1>2, <1>7, <1>12, OneMore
  <2>2. books' = [held |-> books.held - 1, withdrawn |-> books.withdrawn]
    <3>1. Leftover(old, a, 1) = 0
      BY <1>12 DEF Leftover
    <3>. QED  BY <1>4, <1>5, <3>1
  <2>3. BooksOK'
    BY <1>4, <1>5, <2>2 DEF BooksOK
  <2>4. Counted'
    <3>1. Total(new, Accounts) + rocks.pots + books.withdrawn + (books.held - 1) = Supply
      BY <1>2, <1>3, <1>4, <1>11, <2>1
    <3>. QED  BY <1>10, <2>1, <2>2, <3>1 DEF Counted, LovelaceIsConserved
  <2>. QED  BY <1>10, <2>3, <2>4 DEF IInv
<1>13. CASE a \notin DOMAIN old
  <2>1. new = old
    BY <1>6, <1>13
  <2>2. books' = books
    <3>1. Leftover(old, a, 1) = 1
      BY <1>13 DEF Leftover
    <3>2. books' = [held |-> books.held - 1 + 1, withdrawn |-> books.withdrawn]
      BY <1>4, <1>5, <3>1
    <3>3. books.held - 1 + 1 = books.held
      BY <1>4
    <3>. QED  BY <1>4, <3>2, <3>3
  <2>3. rocks'.accounts = rocks.accounts
    BY <1>10, <2>1 DEF old
  <2>4. BooksOK' /\ Counted'
    BY <1>5, <1>10, <2>2, <2>3, SameBooks
  <2>. QED  BY <1>10, <2>4 DEF IInv
<1>. QED  BY <1>12, <1>13

LEMMA WithAccountsIInv ==
    ASSUME IInv, NEW a \in Accounts, WithAccounts(a)
    PROVE  IInv'
<1>. DEFINE old == rocks.accounts
            mold == memory.accounts
            new == WrittenBack(old, Credit(old, a))
            mnew == MemoryRebuilt(mold, Credit(mold, a))
<1>1. /\ rocks' = Replaced(rocks, "accounts", new)
      /\ memory' = Replaced(memory, "accounts", mnew)
  BY DEF WithAccounts, Replaced
<1>2. /\ Column(old, Accounts, AccountRow) /\ Column(mold, Accounts, AccountRow)
      /\ SameAccounts(old, mold) /\ IsFiniteSet(Lovelace(old, Accounts))
      /\ ColumnsOK(rocks) /\ ColumnsOK(memory) /\ SameStores(rocks, memory)
      /\ rocks.pots \in Nat
  BY DEF IInv, ColumnsOK, SameStores, Counted
<1>3. Total(old, Accounts) + rocks.pots + books.withdrawn + books.held = Supply
  BY DEF IInv, Counted, LovelaceIsConserved
<1>4. /\ books = [held |-> books.held, withdrawn |-> books.withdrawn]
      /\ books.held \in Nat /\ books.withdrawn \in Nat /\ group \in Groups
  BY Books DEF IInv, BooksOK
<1>5. /\ books.held > 0 /\ group' = group /\ books' = [books EXCEPT !.held = @ - 1]
      /\ a \in DOMAIN old
  BY DEF WithAccounts
<1>. HIDE DEF old, mold
<1>6. a \in DOMAIN mold
  BY <1>2, <1>5 DEF SameAccounts
<1>7. Credited(old, new, a) /\ Credited(mold, mnew, a)
  <2>1. Credited(old, new, a)
    BY <1>2, <1>5, CreditEffect
  <2>2. /\ Credited(mold, WrittenBack(mold, Credit(mold, a)), a)
        /\ MemoryRebuilt(mold, Credit(mold, a)) = WrittenBack(mold, Credit(mold, a))
    BY <1>2, <1>6, CreditEffect
  <2>. QED  BY <2>1, <2>2
<1>. HIDE DEF new, mnew
<1>8. SameAccounts(new, mnew)
  BY <1>2, <1>7, CreditedAgree
<1>9. Column(new, Accounts, AccountRow) /\ Column(mnew, Accounts, AccountRow)
  BY <1>7 DEF Credited
<1>10. /\ ColumnsOK(rocks') /\ ColumnsOK(memory') /\ SameStores(rocks', memory')
       /\ rocks'.accounts = new /\ rocks'.pots = rocks.pots
  <2>1. ColumnOK("accounts", new) /\ ColumnOK("accounts", mnew)
    BY <1>9 DEF ColumnOK
  <2>2. SameColumn("accounts", new, mnew)
    BY <1>8 DEF SameColumn
  <2>3. "accounts" \in Columns /\ "pots" \in Columns /\ "pots" # "accounts"
    BY DEF Columns
  <2>. QED  BY <1>1, <1>2, <2>1, <2>2, <2>3, OneColumn
<1>11. Total(old, Accounts) \in Nat
  BY <1>2, TotalIsANumber
<1>12. IsFiniteSet(Lovelace(new, Accounts)) /\ Total(new, Accounts) = Total(old, Accounts) + 1
  BY <1>2, <1>5, <1>7, OneMore
<1>13. books' = [held |-> books.held - 1, withdrawn |-> books.withdrawn]
  BY <1>4, <1>5
<1>14. BooksOK'
  BY <1>4, <1>5, <1>13 DEF BooksOK
<1>15. Counted'
  <2>1. Total(new, Accounts) + rocks.pots + books.withdrawn + (books.held - 1) = Supply
    BY <1>2, <1>3, <1>4, <1>11, <1>12
  <2>. QED  BY <1>10, <1>12, <1>13, <2>1 DEF Counted, LovelaceIsConserved
<1>. QED  BY <1>10, <1>14, <1>15 DEF IInv

\* The calls that change one column which is neither the accounts nor the pots.
LEMMA OtherColumn ==
    ASSUME IInv, NEW c \in Columns \ {"accounts", "pots"}, NEW v, NEW w,
           ColumnOK(c, v), ColumnOK(c, w), SameColumn(c, v, w),
           rocks' = Replaced(rocks, c, v), memory' = Replaced(memory, c, w),
           UNCHANGED <<books, group>>
    PROVE  IInv'
<1>1. ColumnsOK(rocks) /\ ColumnsOK(memory) /\ SameStores(rocks, memory)
  BY DEF IInv
<1>2. /\ ColumnsOK(rocks') /\ ColumnsOK(memory') /\ SameStores(rocks', memory')
      /\ \A d \in Columns : d # c => rocks'[d] = rocks[d]
  BY <1>1, OneColumn
<1>3. rocks'.accounts = rocks.accounts /\ rocks'.pots = rocks.pots
  BY <1>2 DEF Columns
<1>4. BooksOK' /\ Counted'
  BY <1>3, SameBooks
<1>. QED  BY <1>2, <1>4 DEF IInv

LEMMA WithPotsIInv ==
    ASSUME IInv, WithPots
    PROVE  IInv'
<1>1. PICK pots \in 0 .. rocks.pots + books.held :
         /\ rocks' = [rocks EXCEPT !.pots = pots]
         /\ memory' = [memory EXCEPT !.pots = @ + (pots - rocks.pots)]
         /\ books' = [books EXCEPT !.held = @ + rocks.pots - pots]
  BY DEF WithPots
<1>2. /\ ColumnsOK(rocks) /\ ColumnsOK(memory) /\ SameStores(rocks, memory)
      /\ rocks.pots \in Nat /\ memory.pots = rocks.pots
      /\ IsFiniteSet(Lovelace(rocks.accounts, Accounts))
  BY DEF IInv, ColumnsOK, SameStores, Counted
<1>3. /\ books = [held |-> books.held, withdrawn |-> books.withdrawn]
      /\ books.held \in Nat /\ books.withdrawn \in Nat /\ group \in Groups
  BY Books DEF IInv, BooksOK
<1>4. Total(rocks.accounts, Accounts) + rocks.pots + books.withdrawn + books.held = Supply
  BY DEF IInv, Counted, LovelaceIsConserved
<1>5. pots \in Nat /\ pots <= rocks.pots + books.held
  BY <1>2, <1>3
<1>6. memory.pots + (pots - rocks.pots) = pots
  BY <1>2, <1>5
<1>7. rocks' = Replaced(rocks, "pots", pots) /\ memory' = Replaced(memory, "pots", pots)
  BY <1>1, <1>6 DEF Replaced
<1>8. /\ ColumnsOK(rocks') /\ ColumnsOK(memory') /\ SameStores(rocks', memory')
      /\ rocks'.accounts = rocks.accounts /\ rocks'.pots = pots
  <2>1. ColumnOK("pots", pots) /\ SameColumn("pots", pots, pots)
    BY <1>5 DEF ColumnOK, SameColumn
  <2>2. "accounts" \in Columns /\ "pots" \in Columns /\ "pots" # "accounts"
    BY DEF Columns
  <2>. QED  BY <1>2, <1>7, <2>1, <2>2, OneColumn
<1>9. books' = [held |-> books.held + rocks.pots - pots, withdrawn |-> books.withdrawn]
  BY <1>1, <1>3
<1>10. books.held + rocks.pots - pots \in Nat
  BY <1>2, <1>3, <1>5
<1>11. BooksOK'
  <2>1. group' = group
    BY DEF WithPots
  <2>. QED  BY <1>3, <1>9, <1>10, <2>1 DEF BooksOK
<1>12. Counted'
  <2>1. Total(rocks.accounts, Accounts) \in Nat
    BY <1>2, TotalIsANumber
  <2>2. Total(rocks.accounts, Accounts) + pots + books.withdrawn
           + (books.held + rocks.pots - pots) = Supply
    BY <1>2, <1>3, <1>4, <1>5, <2>1
  <2>. QED  BY <1>2, <1>8, <1>9, <2>2 DEF Counted, LovelaceIsConserved
<1>. QED  BY <1>8, <1>11, <1>12 DEF IInv

LEMMA WithPoolsIInv ==
    ASSUME IInv, WithPools
    PROVE  IInv'
<1>. DEFINE pools == rocks.pools
            new == WrittenBack(pools, Ticked(pools))
<1>1. Column(pools, Pools, PoolRow) /\ memory.pools = pools
  BY DEF IInv, ColumnsOK, SameStores
<1>2. rocks' = Replaced(rocks, "pools", new)
      /\ memory' = Replaced(memory, "pools", MemoryRebuilt(memory.pools, Ticked(memory.pools)))
      /\ UNCHANGED <<books, group>>
  BY DEF WithPools, Replaced
<1>. HIDE DEF pools
<1>3. \A p \in DOMAIN pools : pools[p] # None
  BY <1>1, RowsAssumption DEF Column
<1>4. MemoryRebuilt(pools, Ticked(pools)) = new
  BY <1>3, RebuiltAgrees
<1>5. Column(new, Pools, PoolRow)
  BY <1>1, TickedRows, WrittenBackColumn
<1>. HIDE DEF new
<1>6. ColumnOK("pools", new) /\ SameColumn("pools", new, new)
  BY <1>5 DEF ColumnOK, SameColumn
<1>7. memory' = Replaced(memory, "pools", new)
  BY <1>1, <1>2, <1>4
<1>8. "pools" \in Columns \ {"accounts", "pots"}
  BY DEF Columns
<1>. QED  BY <1>2, <1>6, <1>7, <1>8, OtherColumn

\* Rows that are dropped are no rows.
LEMMA DroppedColumn ==
    ASSUME NEW S, NEW T, NEW column, Column(column, S, T), None \notin T, NEW keys
    PROVE  /\ MemoryRebuilt(column, Dropped(keys)) = WrittenBack(column, Dropped(keys))
           /\ Column(WrittenBack(column, Dropped(keys)), S, T)
<1>1. \A k \in DOMAIN column : column[k] # None
  BY DEF Column
<1>2. MemoryRebuilt(column, Dropped(keys)) = WrittenBack(column, Dropped(keys))
  BY <1>1, RebuiltAgrees
<1>3. \A k \in DOMAIN Dropped(keys) : Dropped(keys)[k] \in T \cup {None}
  BY DEF Dropped
<1>4. Column(WrittenBack(column, Dropped(keys)), S, T)
  BY <1>3, WrittenBackColumn
<1>. QED  BY <1>2, <1>4

LEMMA WithBlockIssuersIInv ==
    ASSUME IInv, WithBlockIssuers
    PROVE  IInv'
<1>. DEFINE issuers == rocks.issuers
            new == WrittenBack(issuers, Dropped(DOMAIN issuers))
<1>1. Column(issuers, Slots, Pools) /\ memory.issuers = issuers /\ None \notin Pools
  BY Fields DEF IInv, ColumnsOK, SameStores
<1>2. /\ rocks' = Replaced(rocks, "issuers", new)
      /\ memory' = Replaced(memory, "issuers",
                            MemoryRebuilt(memory.issuers, Dropped(DOMAIN memory.issuers)))
      /\ UNCHANGED <<books, group>>
  BY DEF WithBlockIssuers, Replaced
<1>. HIDE DEF issuers
<1>3. MemoryRebuilt(issuers, Dropped(DOMAIN issuers)) = new /\ Column(new, Slots, Pools)
  BY <1>1, DroppedColumn
<1>. HIDE DEF new
<1>4. ColumnOK("issuers", new) /\ SameColumn("issuers", new, new)
  BY <1>3 DEF ColumnOK, SameColumn
<1>5. memory' = Replaced(memory, "issuers", new)
  BY <1>1, <1>2, <1>3
<1>6. "issuers" \in Columns \ {"accounts", "pots"}
  BY DEF Columns
<1>. QED  BY <1>2, <1>4, <1>5, <1>6, OtherColumn

LEMMA WithProposalsIInv ==
    ASSUME IInv, NEW expired, WithProposals(expired)
    PROVE  IInv'
<1>. DEFINE proposals == rocks.proposals
            new == WrittenBack(proposals, Dropped(expired))
<1>1. Column(proposals, Proposals, Slots) /\ memory.proposals = proposals /\ None \notin Slots
  BY Fields DEF IInv, ColumnsOK, SameStores, Slots
<1>2. /\ rocks' = Replaced(rocks, "proposals", new)
      /\ memory' = Replaced(memory, "proposals",
                            MemoryRebuilt(memory.proposals, Dropped(expired)))
      /\ UNCHANGED <<books, group>>
  BY DEF WithProposals, Replaced
<1>. HIDE DEF proposals
<1>3. /\ MemoryRebuilt(proposals, Dropped(expired)) = new
      /\ Column(new, Proposals, Slots)
  BY <1>1, DroppedColumn
<1>. HIDE DEF new
<1>4. ColumnOK("proposals", new) /\ SameColumn("proposals", new, new)
  BY <1>3 DEF ColumnOK, SameColumn
<1>5. memory' = Replaced(memory, "proposals", new)
  BY <1>1, <1>2, <1>3
<1>6. "proposals" \in Columns \ {"accounts", "pots"}
  BY DEF Columns
<1>. QED  BY <1>2, <1>4, <1>5, <1>6, OtherColumn

LEMMA EpochTransitionIInv ==
    ASSUME IInv, NEW from \in Progress, NEW to \in Progress, EpochTransition(from, to)
    PROVE  IInv'
<1>. DEFINE new == Swapped(rocks.progress, from, to)
<1>1. rocks.progress \in Progress /\ memory.progress = rocks.progress
  BY DEF IInv, ColumnsOK, SameStores
<1>2. MemorySwapped(memory.progress, from, to) = new /\ new \in Progress
  BY <1>1 DEF MemorySwapped, Swapped
<1>3. /\ rocks' = Replaced(rocks, "progress", new)
      /\ memory' = Replaced(memory, "progress", MemorySwapped(memory.progress, from, to))
      /\ UNCHANGED <<books, group>>
  BY DEF EpochTransition, Replaced
<1>. HIDE DEF new
<1>4. ColumnOK("progress", new) /\ SameColumn("progress", new, new)
  BY <1>2 DEF ColumnOK, SameColumn
<1>5. "progress" \in Columns \ {"accounts", "pots"}
  BY DEF Columns
<1>. QED  BY <1>2, <1>3, <1>4, <1>5, OtherColumn

LEMMA SetProtocolParametersIInv ==
    ASSUME IInv, NEW protocol \in Protocols, SetProtocolParameters(protocol)
    PROVE  IInv'
<1>1. /\ rocks' = Replaced(rocks, "protocol", protocol)
      /\ memory' = Replaced(memory, "protocol", protocol)
      /\ UNCHANGED <<books, group>>
  BY DEF SetProtocolParameters, Replaced
<1>2. ColumnOK("protocol", protocol) /\ SameColumn("protocol", protocol, protocol)
  BY DEF ColumnOK, SameColumn
<1>3. "protocol" \in Columns \ {"accounts", "pots"}
  BY DEF Columns
<1>. QED  BY <1>1, <1>2, <1>3, OtherColumn

LEMMA CommitteeIInv ==
    ASSUME IInv, NEW status \in Statuses, NEW added \in Table(Members, {MaxSlot}),
           NEW removed \in SUBSET Members, Committee(status, added, removed)
    PROVE  IInv'
<1>. DEFINE new == UpdateCommittee(rocks.members, added, removed)
            s == [rocks EXCEPT !.members = new]
<1>1. /\ ColumnsOK(rocks) /\ ColumnsOK(memory) /\ SameStores(rocks, memory)
      /\ DOMAIN rocks = Columns /\ DOMAIN memory = Columns
      /\ Column(rocks.members, Members, MemberRow)
  BY DEF IInv, ColumnsOK
<1>2. Column(new, Members, MemberRow)
  BY <1>1, UpdateCommitteeTyped
<1>3. /\ rocks' = [rocks EXCEPT !.members = new, !.committee = status]
      /\ memory' = [memory EXCEPT !.committee = status]
      /\ UNCHANGED <<books, group>>
  BY DEF Committee
<1>. HIDE DEF new
<1>4. /\ DOMAIN rocks' = Columns
      /\ \A c \in Columns : rocks'[c] = IF c = "committee" THEN status
                                        ELSE IF c = "members" THEN new ELSE rocks[c]
      /\ DOMAIN memory' = Columns
      /\ \A c \in Columns : memory'[c] = IF c = "committee" THEN status ELSE memory[c]
  BY <1>1, <1>3 DEF Columns
<1>5. /\ \A c \in Columns : ColumnOK(c, rocks[c])
      /\ \A c \in Columns : ColumnOK(c, memory[c])
      /\ \A c \in Columns : SameColumn(c, rocks[c], memory[c])
  BY <1>1, ColumnByColumn, SameByColumn
<1>6. /\ ColumnOK("committee", status) /\ SameColumn("committee", status, status)
      /\ ColumnOK("members", new) /\ SameColumn("members", new, memory.members)
  BY <1>2 DEF ColumnOK, SameColumn
<1>7. /\ \A c \in Columns : ColumnOK(c, rocks'[c])
      /\ \A c \in Columns : ColumnOK(c, memory'[c])
      /\ \A c \in Columns : SameColumn(c, rocks'[c], memory'[c])
  BY <1>4, <1>5, <1>6
<1>8. ColumnsOK(rocks') /\ ColumnsOK(memory') /\ SameStores(rocks', memory')
  BY <1>4, <1>7, ColumnByColumn, SameByColumn
<1>9. rocks'.accounts = rocks.accounts /\ rocks'.pots = rocks.pots
  BY <1>4 DEF Columns
<1>10. BooksOK' /\ Counted'
  BY <1>3, <1>9, SameBooks
<1>. QED  BY <1>8, <1>10 DEF IInv

LEMMA NextIInv ==
    ASSUME IInv, [Next]_vars
    PROVE  IInv'
<1>1. ASSUME NEW s \in Slots, NEW b \in Blocks(s), Save(b) PROVE IInv'
  BY <1>1, SaveIInv
<1>2. ASSUME NEW a \in Accounts, Refund(a) PROVE IInv'
  BY <1>2, RefundIInv
<1>3. ASSUME NEW a \in Accounts, WithAccounts(a) PROVE IInv'
  BY <1>3, WithAccountsIInv
<1>4. CASE WithPots
  BY <1>4, WithPotsIInv
<1>5. CASE WithPools
  BY <1>5, WithPoolsIInv
<1>6. CASE WithBlockIssuers
  BY <1>6, WithBlockIssuersIInv
<1>7. ASSUME NEW expired, WithProposals(expired) PROVE IInv'
  BY <1>7, WithProposalsIInv
<1>8. ASSUME NEW from \in Progress, NEW to \in Progress, EpochTransition(from, to)
      PROVE  IInv'
  BY <1>8, EpochTransitionIInv
<1>9. ASSUME NEW protocol \in Protocols, SetProtocolParameters(protocol) PROVE IInv'
  BY <1>9, SetProtocolParametersIInv
<1>10. ASSUME NEW status \in Statuses, NEW added \in Table(Members, {MaxSlot}),
              NEW removed \in SUBSET Members, Committee(status, added, removed)
       PROVE  IInv'
  BY <1>10, CommitteeIInv
<1>11. CASE UNCHANGED vars
  BY <1>11 DEF vars, IInv, BooksOK, Counted, LovelaceIsConserved
<1>. QED  BY <1>1, <1>2, <1>3, <1>4, <1>5, <1>6, <1>7, <1>8, <1>9, <1>10, <1>11 DEF Next

-----------------------------------------------------------------------------

LEMMA Invariance == Spec => []IInv
<1>1. Init => IInv
  BY InitIInv
<1>2. IInv /\ [Next]_vars => IInv'
  BY NextIInv
<1>. QED  BY <1>1, <1>2, PTL DEF Spec

\* Both stores hold rows of their types, and neither the caller nor the
\* withdrawals ever have more than the supply.
THEOREM Types == Spec => []TypeOK
<1>1. IInv => TypeOK
  BY IInvImplies
<1>. QED  BY <1>1, Invariance, PTL

\* The in-memory store and the columns of RocksDB agree, whatever calls they
\* are given: save, refund, the with_* iterators, try_epoch_transition,
\* set_protocol_parameters and update_constitutional_committee.
THEOREM Agreement == Spec => []StoresAgree
<1>1. IInv => StoresAgree
  BY IInvImplies
<1>. QED  BY <1>1, Invariance, PTL

\* RocksDB neither loses nor makes lovelace: what leaves the caller's hand is on
\* an account, in a pot or withdrawn.
THEOREM Conservation == Spec => []LovelaceIsConserved
<1>1. IInv => LovelaceIsConserved
  BY IInvImplies
<1>. QED  BY <1>1, Invariance, PTL
=============================================================================
