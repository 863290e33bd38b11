-------------------------- MODULE ChainStoreProofs --------------------------
(***************************************************************************)
(* Proofs about the chain database, for every set of headers.              *)
(*   - ChainStore: its type invariant, LinksMatchHeaders, RollbackIsAtomic.*)
(*   - ChainKeys: the reads over the one ordered space of keys, and the    *)
(*     groups of links.                                                    *)
(*   - ChainSelection: driven as its callers drive it, it implements       *)
(*     BestChain, and its best chain is therefore linked.                  *)
(***************************************************************************)
EXTENDS ChainKeys, ChainSelection, FiniteSetTheorems, WellFoundedInduction, TLAPS

\* What the call under way has put in its transaction so far: store_header
\* its own header only, rollback_chain only slots after its point, which is
\* still on the chain because no other call writes meanwhile.
CallOK ==
    /\ pc \in {"idle", "link"} => tx = NoTx
    /\ pc \in {"link", "put", "commit_header"} => arg \in Headers
    /\ pc \in {"put", "commit_header"} =>
          /\ tx.link = IF LinkOf(arg) = {} THEN {} ELSE {arg}
          /\ tx.put = IF pc = "put" THEN {} ELSE {arg}
    /\ pc = "delete" =>
          /\ chain[SlotOf(arg)] = arg
          /\ \A s \in tx.del : s >= SlotOf(arg) + 1

IInv == TypeOK /\ LinksMatchHeaders /\ CallOK

-----------------------------------------------------------------------------

LEMMA LinkOfType ==
    ASSUME NEW h \in Headers
    PROVE  LinkOf(h) \subseteq Headers \X Headers
BY HeaderAssumption DEF LinkOf

\* Slots are natural numbers and every point's slot is one of them.
LEMMA SlotType ==
    /\ Slots \subseteq Nat
    /\ \A p \in Points : SlotOf(p) \in Slots
    /\ \A h \in Headers : SlotOf(h) = Slot[h] /\ Slot[h] \in Slots
<1>1. \A p \in Points : SlotOf(p) \in Slots /\ SlotOf(p) \in Nat
  BY HeaderAssumption DEF Slots, Points, SlotOf
<1>2. \A h \in Headers : h \in Points /\ SlotOf(h) = Slot[h]
  BY HeaderAssumption DEF Points, SlotOf
<1>. QED  BY <1>1, <1>2 DEF Slots

LEMMA InitInv == Init => IInv
BY HeaderAssumption DEF Init, IInv, TypeOK, LinksMatchHeaders, CallOK, NoTx,
   Points

LEMMA NextInv == IInv /\ [Next]_vars => IInv'
<1> SUFFICES ASSUME IInv, [Next]_vars
             PROVE  IInv'
    OBVIOUS
<1> USE DEF IInv
<1>1. ASSUME NEW h \in Headers, StoreHeader(h)
      PROVE  IInv'
  BY <1>1 DEF StoreHeader, Call, TypeOK, LinksMatchHeaders, CallOK, NoTx,
     Points, meta
<1>2. CASE StoreHeaderLink
  BY <1>2 DEF StoreHeaderLink, Goto, TypeOK, LinksMatchHeaders, CallOK, NoTx,
     Points, meta, LinkOf
<1>3. CASE StoreHeaderPut
  BY <1>3 DEF StoreHeaderPut, Goto, TypeOK, LinksMatchHeaders, CallOK, NoTx,
     Points, meta
<1>4. CASE StoreHeaderCommit
  <2>1. arg \in Headers /\ tx.put = {arg}
    BY <1>4 DEF StoreHeaderCommit, CallOK
  <2>2. UNION {LinkOf(h) : h \in tx.link} = LinkOf(arg)
    BY <1>4 DEF StoreHeaderCommit, CallOK
  <2>3. headers' = headers \cup {arg} /\ children' = children \cup LinkOf(arg)
    BY <1>4, <2>1, <2>2 DEF StoreHeaderCommit
  <2>4. LinksMatchHeaders'
    BY <2>3 DEF LinksMatchHeaders, LinkOf
  <2>5. TypeOK'
    BY <1>4, <2>1, <2>3, LinkOfType
       DEF StoreHeaderCommit, Return, TypeOK, Points, NoTx, meta
  <2>6. CallOK'
    BY <1>4 DEF StoreHeaderCommit, Return, CallOK, NoTx
  <2> QED  BY <2>4, <2>5, <2>6
<1>5. CASE PutStep
  BY <1>5, HeaderAssumption
     DEF PutStep, PutNonces, StoreBlock, SetAnchorHash, SetBestChainHash,
         TypeOK, LinksMatchHeaders, CallOK, call
<1>6. ASSUME NEW p \in Points, RollForwardChain(p)
      PROVE  IInv'
  <2>1. TypeOK'
    BY <1>6, SlotType DEF RollForwardChain, TypeOK, meta, call
  <2> QED  BY <1>6, <2>1 DEF RollForwardChain, LinksMatchHeaders, CallOK, call
<1>7. ASSUME NEW p \in Points, RollbackChain(p) \/ RollbackRefused(p)
      PROVE  IInv'
  <2>1. CASE RollbackRefused(p)
    BY <2>1 DEF RollbackRefused, TypeOK, LinksMatchHeaders, CallOK, vars, meta,
       call
  <2>2. CASE RollbackChain(p)
    <3>1. chain[SlotOf(p)] = p
      BY <2>2 DEF RollbackChain, LoadFromBestChain
    <3>2. TypeOK' /\ LinksMatchHeaders'
      BY <2>2 DEF RollbackChain, Call, TypeOK, LinksMatchHeaders, meta
    <3>3. CallOK'
      BY <2>2, <3>1 DEF RollbackChain, Call, CallOK, NoTx
    <3> QED  BY <3>2, <3>3
  <2> QED  BY <1>7, <2>1, <2>2
<1>8. CASE RollbackDelete
  <2>1. PICK s \in ToDelete : tx' = [tx EXCEPT !.del = @ \cup {s}]
    BY <1>8 DEF RollbackDelete
  <2>2. s \in Slots /\ s >= SlotOf(arg) + 1
    BY <2>1 DEF ToDelete, Occupied
  <2> QED
    BY <1>8, <2>1, <2>2
       DEF RollbackDelete, TypeOK, LinksMatchHeaders, CallOK, meta
<1>9. CASE RollbackCommit
  BY <1>9 DEF RollbackCommit, Return, TypeOK, LinksMatchHeaders, CallOK, NoTx,
     Points, meta
<1>10. CASE Abandon
  BY <1>10 DEF Abandon, Return, TypeOK, LinksMatchHeaders, CallOK, NoTx,
     Points, meta
<1>11. CASE UNCHANGED vars
  BY <1>11 DEF vars, meta, call, TypeOK, LinksMatchHeaders, CallOK
<1> QED
  BY <1>1, <1>2, <1>3, <1>4, <1>5, <1>6, <1>7, <1>8, <1>9, <1>10, <1>11
     DEF Next, Common, HeaderStep, RollbackStep

\* The inductive invariant holds in every reachable state.
THEOREM Invariance == Spec => []IInv
<1>1. Init => IInv  BY InitInv
<1>2. IInv /\ [Next]_vars => IInv'  BY NextInv
<1> QED  BY <1>1, <1>2, PTL DEF Spec

\* Every variable keeps its type.
THEOREM TypeCorrect == Spec => []TypeOK
<1>1. IInv => TypeOK  BY DEF IInv
<1> QED  BY <1>1, Invariance, PTL

\* The children listed for a header are exactly its stored children.
THEOREM LinksCorrect == Spec => []LinksMatchHeaders
<1>1. IInv => LinksMatchHeaders  BY DEF IInv
<1> QED  BY <1>1, Invariance, PTL

-----------------------------------------------------------------------------

LEMMA StepTruncates == IInv /\ [Next]_vars => [RollbackTruncates]_vars
<1> SUFFICES ASSUME IInv, Next
             PROVE  RollbackTruncates
    OBVIOUS
<1>1. CASE RollbackCommit
  <2>1. /\ arg \in Points /\ SlotOf(arg) \in Slots /\ SlotOf(arg) \in Nat
        /\ chain[SlotOf(arg)] = arg /\ arg # NoHash
    BY <1>1, HeaderAssumption, SlotType
       DEF RollbackCommit, IInv, CallOK, TypeOK, Points
  <2>2. chain' = [s \in Slots |-> IF s \in tx.del THEN NoHash ELSE chain[s]]
    BY <1>1 DEF RollbackCommit
  <2>3. ASSUME NEW s \in Slots, chain[s] # NoHash, chain'[s] = NoHash
        PROVE  s \in tx.del /\ s >= SlotOf(arg) + 1
    BY <1>1, <2>2, <2>3 DEF RollbackCommit, IInv, CallOK
  <2>4. ASSUME NEW t \in Occupied(chain')
        PROVE  t \in Slots /\ t \in Nat /\ t < SlotOf(arg) + 1
    <3>1. t \in Occupied(chain) /\ t \notin tx.del
      BY <2>2 DEF Occupied
    <3>2. t \in Slots /\ t \in Nat
      BY <3>1, SlotType DEF Occupied
    <3>3. t \notin ToDelete
      BY <1>1 DEF RollbackCommit
    <3>4. ~(t >= SlotOf(arg) + 1)
      BY <2>1, <3>1, <3>3 DEF ToDelete
    <3> QED  BY <2>1, <3>2, <3>4
  <2>5. SlotOf(arg) \in Occupied(chain')
    <3>1. \A s \in tx.del : s >= SlotOf(arg) + 1
      BY <1>1 DEF RollbackCommit, IInv, CallOK
    <3>2. SlotOf(arg) \notin tx.del
      <4> SUFFICES ASSUME SlotOf(arg) \in tx.del PROVE FALSE
        OBVIOUS
      <4>1. SlotOf(arg) >= SlotOf(arg) + 1
        BY <3>1
      <4> QED  BY <2>1, <4>1
    <3> QED  BY <2>1, <2>2, <3>2 DEF Occupied
  <2>6. ASSUME NEW s \in Slots, chain[s] # NoHash, chain'[s] = NoHash,
               NEW t \in Occupied(chain')
        PROVE  t < s
    <3>1. s >= SlotOf(arg) + 1 /\ s \in Nat
      BY <2>3, <2>6, SlotType
    <3> QED  BY <2>1, <2>4, <3>1
  <2> QED
    BY <2>5, <2>6 DEF RollbackTruncates
<1>2. CASE ~RollbackCommit
  <2>1. \/ chain' = chain
        \/ \E p \in Points : chain' = [chain EXCEPT ![SlotOf(p)] = p]
    BY <1>2 DEF Next, Common, HeaderStep, RollbackStep, PutStep, PutNonces,
       StoreBlock, SetAnchorHash, SetBestChainHash, StoreHeader,
       StoreHeaderLink, StoreHeaderPut, StoreHeaderCommit, RollForwardChain,
       RollbackChain, RollbackRefused, RollbackDelete, Abandon, vars
  <2>2. \A s \in Slots : chain[s] # NoHash => chain'[s] # NoHash
    BY <2>1, HeaderAssumption DEF IInv, TypeOK, Points
  <2> QED  BY <2>2 DEF RollbackTruncates
<1> QED  BY <1>1, <1>2

\* A rollback removes all the points after its own and no other, in one step.
THEOREM RollbackAtomic == Spec => RollbackIsAtomic
<1>1. IInv /\ [Next]_vars => [RollbackTruncates]_vars  BY StepTruncates
<1> QED  BY <1>1, Invariance, PTL DEF Spec, RollbackIsAtomic

-----------------------------------------------------------------------------

\* Numbers are well ordered: there is a first slot, and a first entry of a pass.
LEMMA FirstSlot ==
    ASSUME NEW S \in SUBSET Nat, S # {}
    PROVE  \E s \in S : \A t \in S : s <= t
<1> DEFINE R == {p \in Nat \X Nat : p[1] < p[2]}
<1>1. IsWellFoundedOn(R, Nat)
  BY NatLessThanWellFounded DEF OpToRel
<1>2. \E s \in S : \A t \in S : <<t, s>> \notin R
  BY <1>1, WFMin
<1>3. \A s, t \in Nat : <<t, s>> \notin R => s <= t
  OBVIOUS
<1> HIDE DEF R
<1> QED  BY <1>2, <1>3

-----------------------------------------------------------------------------
(* The order of keys, and what an iterator over it returns.                *)

Keys == Nat \X Nat \X Nat

\* A set of entries as a database may hold: one entry for a key.
Keyable(S) ==
    /\ IsFiniteSet(S)
    /\ \A e \in S : e.key \in Keys
    /\ \A e, f \in S : e.key = f.key => e = f

\* Keys are strictly and totally ordered.
LEMMA BeforeOrders ==
    /\ \A k \in Keys : ~Before(k, k)
    /\ \A k, l, m \in Keys : Before(k, l) /\ Before(l, m) => Before(k, m)
    /\ \A k, l \in Keys : Before(k, l) \/ Before(l, k) \/ k = l
<1>1. \A k \in Keys : ~Before(k, k)
  BY DEF Keys, Before
<1>2. ASSUME NEW k \in Keys, NEW l \in Keys, NEW m \in Keys, Before(k, l), Before(l, m)
      PROVE  Before(k, m)
  BY <1>2 DEF Keys, Before
<1>3. ASSUME NEW k \in Keys, NEW l \in Keys
      PROVE  Before(k, l) \/ Before(l, k) \/ k = l
  <2>1. k = <<k[1], k[2], k[3]>> /\ l = <<l[1], l[2], l[3]>>
    BY DEF Keys
  <2>2. (k[1] = l[1] /\ k[2] = l[2] /\ k[3] = l[3]) => k = l
    BY <2>1
  <2>3. \A i \in 1..3 : k[i] \in Nat /\ l[i] \in Nat
    BY DEF Keys
  <2>. QED  BY <2>2, <2>3 DEF Before
<1>. QED  BY <1>1, <1>2, <1>3

\* The entries of S that come before e.
Below(S, e) == {f \in S : Before(f.key, e.key)}

\* An iterator gives the entry with i - 1 entries before it as its i-th.
LEMMA InOrderRanks ==
    ASSUME NEW S, Keyable(S)
    PROVE  /\ Cardinality(S) \in Nat /\ DOMAIN InOrder(S) = 1..Cardinality(S)
           /\ \A i \in 1..Cardinality(S) :
                 InOrder(S)[i] \in S /\ Cardinality(Below(S, InOrder(S)[i])) = i - 1
           /\ \A e \in S : /\ Cardinality(Below(S, e)) + 1 \in 1..Cardinality(S)
                          /\ InOrder(S)[Cardinality(Below(S, e)) + 1] = e
           /\ \A e, f \in S : Before(e.key, f.key)
                               => Cardinality(Below(S, e)) < Cardinality(Below(S, f))
<1>. DEFINE n == Cardinality(S)
            rank == [e \in S |-> Cardinality(Below(S, e))]
<1>0. IsFiniteSet(S) /\ n \in Nat
  BY FS_CardinalityType DEF Keyable
<1>1. ASSUME NEW e \in S
      PROVE  IsFiniteSet(Below(S, e)) /\ rank[e] \in 0..(n - 1) /\ e \notin Below(S, e)
  <2>1. e \notin Below(S, e)
    BY BeforeOrders DEF Keyable, Below
  <2>2. IsFiniteSet(S \ {e}) /\ Cardinality(S \ {e}) = n - 1
    BY <1>0, FS_RemoveElement
  <2>3. Below(S, e) \in SUBSET (S \ {e})
    BY <2>1 DEF Below
  <2>4. IsFiniteSet(Below(S, e)) /\ Cardinality(Below(S, e)) <= n - 1
    BY <2>2, <2>3, FS_Subset
  <2>5. Cardinality(Below(S, e)) \in Nat
    BY <2>4, FS_CardinalityType
  <2>6. rank[e] = Cardinality(Below(S, e))
    OBVIOUS
  <2>. HIDE DEF rank, n
  <2>. QED  BY <1>0, <2>1, <2>4, <2>5, <2>6
<1>2. ASSUME NEW e \in S, NEW f \in S, Before(e.key, f.key)
      PROVE  rank[e] < rank[f]
  <2>1. Below(S, e) \cup {e} \in SUBSET Below(S, f)
    BY <1>2, BeforeOrders DEF Keyable, Below
  <2>2. Cardinality(Below(S, e) \cup {e}) = rank[e] + 1
    BY <1>1, FS_AddElement
  <2>3. Cardinality(Below(S, e) \cup {e}) <= rank[f]
    BY <1>1, <2>1, FS_Subset
  <2>. HIDE DEF rank
  <2>. QED  BY <1>0, <1>1, <2>2, <2>3
<1>3. \A e, f \in S : rank[e] = rank[f] => e = f
  <2>1. SUFFICES ASSUME NEW e \in S, NEW f \in S, rank[e] = rank[f], e # f
                 PROVE  FALSE
    OBVIOUS
  <2>2. Before(e.key, f.key) \/ Before(f.key, e.key)
    BY <2>1, BeforeOrders DEF Keyable
  <2>3. rank[e] < rank[f] \/ rank[f] < rank[e]
    BY <1>2, <2>2
  <2>4. rank[e] \in 0..(n - 1) /\ rank[f] \in 0..(n - 1)
    BY <1>1
  <2>. HIDE DEF rank
  <2>. QED  BY <1>0, <2>1, <2>3, <2>4
<1>4. rank \in Injection(S, 0..(n - 1))
  <2>1. rank \in [S -> 0..(n - 1)]
    BY <1>1
  <2>. HIDE DEF rank
  <2>. QED  BY <1>3, <2>1 DEF Injection, IsInjective
<1>5. rank \in Surjection(S, 0..(n - 1))
  <2>1. IsFiniteSet(0..(n - 1)) /\ Cardinality(0..(n - 1)) = n
    BY <1>0, FS_Interval
  <2>. HIDE DEF rank
  <2>. QED  BY <1>4, <2>1, FS_Injection
<1>6. ASSUME NEW i \in 1..n
      PROVE  InOrder(S)[i] \in S /\ rank[InOrder(S)[i]] = i - 1
  <2>1. i - 1 \in 0..(n - 1)
    BY <1>0
  <2>2. \E e \in S : rank[e] = i - 1
    BY <1>5, <2>1 DEF Surjection
  <2>3. \E e \in S : Cardinality(Below(S, e)) = i - 1
    BY <2>2
  <2>4. InOrder(S)[i] = CHOOSE e \in S : Cardinality(Below(S, e)) = i - 1
    BY DEF InOrder, Below
  <2>5. InOrder(S)[i] \in S /\ Cardinality(Below(S, InOrder(S)[i])) = i - 1
    BY <2>3, <2>4
  <2>. QED  BY <2>5
<1>. HIDE DEF rank
<1>7. ASSUME NEW e \in S
      PROVE  rank[e] + 1 \in 1..n /\ InOrder(S)[rank[e] + 1] = e
  <2>. HIDE DEF rank
  <2>1. rank[e] + 1 \in 1..n /\ (rank[e] + 1) - 1 = rank[e]
    BY <1>0, <1>1
  <2>2. InOrder(S)[rank[e] + 1] \in S /\ rank[InOrder(S)[rank[e] + 1]] = rank[e]
    BY <1>6, <2>1
  <2>. QED  BY <1>3, <2>1, <2>2
<1>8. DOMAIN InOrder(S) = 1..n
  BY DEF InOrder
<1>9. \A e \in S : rank[e] = Cardinality(Below(S, e))
  BY DEF rank
<1>10. \A i \in 1..n :
          InOrder(S)[i] \in S /\ Cardinality(Below(S, InOrder(S)[i])) = i - 1
  BY <1>6, <1>9
<1>11. \A e \in S : /\ Cardinality(Below(S, e)) + 1 \in 1..n
                    /\ InOrder(S)[Cardinality(Below(S, e)) + 1] = e
  BY <1>7, <1>9
<1>12. \A e, f \in S : Before(e.key, f.key)
                         => Cardinality(Below(S, e)) < Cardinality(Below(S, f))
  BY <1>2, <1>9
<1>. QED  BY <1>0, <1>8, <1>10, <1>11, <1>12

\* An iterator gives every entry of its range once, in the order of the keys.
LEMMA InOrderSorts ==
    ASSUME NEW S, Keyable(S)
    PROVE  /\ Cardinality(S) \in Nat /\ DOMAIN InOrder(S) = 1..Cardinality(S)
           /\ \A i \in 1..Cardinality(S) : InOrder(S)[i] \in S
           /\ \A e \in S : \E i \in 1..Cardinality(S) : InOrder(S)[i] = e
           /\ \A i, j \in 1..Cardinality(S) :
                 i < j => ~Before(InOrder(S)[j].key, InOrder(S)[i].key)
<1>. DEFINE n == Cardinality(S)
<1>1. ASSUME NEW i \in 1..n, NEW j \in 1..n, i < j,
             Before(InOrder(S)[j].key, InOrder(S)[i].key)
      PROVE  FALSE
  <2>1. /\ InOrder(S)[i] \in S /\ Cardinality(Below(S, InOrder(S)[i])) = i - 1
        /\ InOrder(S)[j] \in S /\ Cardinality(Below(S, InOrder(S)[j])) = j - 1
    BY InOrderRanks
  <2>2. j - 1 < i - 1
    BY <1>1, <2>1, InOrderRanks
  <2>. QED  BY <1>1, <2>2, InOrderRanks
<1>. QED  BY <1>1, InOrderRanks

\* What a reader of the whole iterator sees, and what stands first.
LEMMA InOrderReads ==
    ASSUME NEW S, Keyable(S)
    PROVE  /\ ToSet(InOrder(S)) = S /\ Len(InOrder(S)) = Cardinality(S)
           /\ DOMAIN InOrder(S) = {} <=> S = {}
           /\ S # {} => /\ InOrder(S)[1] \in S
                        /\ \A e \in S : ~Before(e.key, InOrder(S)[1].key)
<1>. DEFINE n == Cardinality(S)
            it == InOrder(S)
<1>1. /\ n \in Nat /\ DOMAIN it = 1..n
      /\ \A i \in 1..n : it[i] \in S
      /\ \A e \in S : \E i \in 1..n : it[i] = e
      /\ \A i, j \in 1..n : i < j => ~Before(it[j].key, it[i].key)
  BY InOrderSorts
<1>2. Len(it) = n
  <2>1. it \in [1..n -> S]
    BY <1>1 DEF InOrder
  <2>. HIDE DEF it, n
  <2>. QED  BY <1>1, <2>1
<1>. HIDE DEF it, n
<1>3. ToSet(it) = S
  BY <1>1 DEF ToSet
<1>4. DOMAIN it = {} <=> S = {}
  <2>1. DOMAIN it = {} => S = {}
    BY <1>1
  <2>2. S = {} => DOMAIN it = {}
    BY <1>1
  <2>. QED  BY <2>1, <2>2
<1>5. ASSUME S # {}
      PROVE  it[1] \in S /\ \A e \in S : ~Before(e.key, it[1].key)
  <2>1. PICK e \in S : TRUE
    BY <1>5
  <2>2. 1 \in 1..n
    BY <1>1, <2>1
  <2>3. ASSUME NEW f \in S
        PROVE  ~Before(f.key, it[1].key)
    <3>1. PICK i \in 1..n : it[i] = f
      BY <1>1
    <3>2. i = 1 \/ 1 < i
      BY <1>1
    <3>3. ~Before(it[1].key, it[1].key)
      BY <1>1, <2>2, BeforeOrders DEF Keyable
    <3>. QED  BY <1>1, <2>2, <3>1, <3>2, <3>3
  <2>. QED  BY <1>1, <2>2, <2>3
<1>. QED  BY <1>2, <1>3, <1>4, <1>5 DEF it, n

-----------------------------------------------------------------------------
(* The database as a set of entries.                                       *)

\* Every table is finite: a call adds one key at most.
TablesFinite ==
    /\ IsFiniteSet(headers)
    /\ IsFiniteSet(children)
    /\ IsFiniteSet(blocks)
    /\ IsFiniteSet(nonces)
    /\ IsFiniteSet(Occupied(chain))

LEMMA FinitePlus ==
    ASSUME NEW S, NEW x, IsFiniteSet(S)
    PROVE  IsFiniteSet(S \cup {x})
BY FS_AddElement

LEMMA StepStaysFinite == IInv /\ TablesFinite /\ [Next]_vars => TablesFinite'
<1> SUFFICES ASSUME IInv, TablesFinite, [Next]_vars
             PROVE  TablesFinite'
    OBVIOUS
<1>1. CASE StoreHeaderCommit
  <2>1. headers' = headers \cup {arg}
    BY <1>1 DEF StoreHeaderCommit, IInv, CallOK
  <2>2. children' = children \/ children' = children \cup {<<Parent[arg], arg>>}
    BY <1>1 DEF StoreHeaderCommit, IInv, CallOK, LinkOf
  <2>3. blocks' = blocks /\ nonces' = nonces /\ chain' = chain
    BY <1>1 DEF StoreHeaderCommit, meta
  <2>4. IsFiniteSet(headers') /\ IsFiniteSet(children')
    BY <2>1, <2>2, FinitePlus DEF TablesFinite
  <2>. QED  BY <2>3, <2>4 DEF TablesFinite, Occupied
<1>2. CASE PutStep
  <2>1. PICK h \in Extra : \/ PutNonces(h)
                           \/ StoreBlock(h)
                           \/ SetAnchorHash(h)
                           \/ SetBestChainHash(h)
    BY <1>2 DEF PutStep
  <2>2. /\ headers' = headers /\ children' = children /\ chain' = chain
        /\ blocks' = blocks \/ blocks' = blocks \cup {h}
        /\ nonces' = nonces \/ nonces' = nonces \cup {h}
    BY <2>1 DEF PutNonces, StoreBlock, SetAnchorHash, SetBestChainHash
  <2>3. IsFiniteSet(blocks') /\ IsFiniteSet(nonces')
    BY <2>2, FinitePlus DEF TablesFinite
  <2>. QED  BY <2>2, <2>3 DEF TablesFinite, Occupied
<1>3. ASSUME NEW p \in Points, RollForwardChain(p)
      PROVE  TablesFinite'
  <2>1. /\ chain' = [chain EXCEPT ![SlotOf(p)] = p]
        /\ UNCHANGED <<headers, children, blocks, nonces>>
    BY <1>3 DEF RollForwardChain, meta
  <2>2. Occupied(chain') \subseteq Occupied(chain) \cup {SlotOf(p)}
    BY <2>1 DEF Occupied, IInv, TypeOK
  <2>3. IsFiniteSet(Occupied(chain'))
    BY <2>2, FinitePlus, FS_Subset DEF TablesFinite
  <2>. QED  BY <2>1, <2>3 DEF TablesFinite
<1>4. CASE RollbackCommit
  <2>1. UNCHANGED <<headers, children, blocks, nonces>>
    BY <1>4 DEF RollbackCommit, meta
  <2>2. Occupied(chain') \subseteq Occupied(chain)
    BY <1>4 DEF RollbackCommit, Occupied
  <2>3. IsFiniteSet(Occupied(chain'))
    BY <2>2, FS_Subset DEF TablesFinite
  <2>. QED  BY <2>1, <2>3 DEF TablesFinite
<1>5. CASE UNCHANGED <<headers, children, blocks, nonces, chain>>
  BY <1>5 DEF TablesFinite, Occupied
<1>6. \/ StoreHeaderCommit \/ PutStep \/ \E p \in Points : RollForwardChain(p)
      \/ RollbackCommit
      \/ UNCHANGED <<headers, children, blocks, nonces, chain>>
  BY DEF Next, Common, HeaderStep, RollbackStep, StoreHeader, StoreHeaderLink,
     StoreHeaderPut, RollbackChain, RollbackRefused, RollbackDelete, Abandon, vars, meta
<1> QED  BY <1>1, <1>2, <1>3, <1>4, <1>5, <1>6

LEMMA FiniteTables == Spec => []TablesFinite
<1>1. Init => TablesFinite
  BY FS_EmptySet DEF Init, TablesFinite, Occupied
<1>. QED  BY <1>1, StepStaysFinite, Invariance, PTL DEF Spec

-----------------------------------------------------------------------------

HeaderEntry(h) == Entry(<<6, HashRank[h], 0>>, "header", h)
NoncesEntry(h) == Entry(<<7, HashRank[h], 0>>, "nonces", h)
BlockEntry(h) == Entry(<<3, HashRank[h], 0>>, "block", h)
ChainEntry(s) == Entry(<<4, s, 0>>, "hash", chain[s])
LinkEntry(l) == Entry(<<5, HashRank[l[1]], HashRank[l[2]]>>, "empty", l[2])
VersionEntry == Entry(<<0, 0, 0>>, "version", NoHash)
AnchorEntry == Entry(<<1, 0, 0>>, "hash", anchor)
BestEntry == Entry(<<2, 0, 0>>, "hash", best)

HeaderTable == {HeaderEntry(h) : h \in headers}
NoncesTable == {NoncesEntry(h) : h \in nonces}
BlockTable == {BlockEntry(h) : h \in blocks}
ChainTable == {ChainEntry(s) : s \in Occupied(chain)}
LinkTable == {LinkEntry(l) : l \in children}
AnchorTable == IF anchor = NoHash THEN {} ELSE {AnchorEntry}
BestTable == IF best = NoHash THEN {} ELSE {BestEntry}

LEMMA DatabaseTables ==
    Database = {VersionEntry} \cup AnchorTable \cup BestTable \cup BlockTable
                 \cup ChainTable \cup LinkTable \cup HeaderTable \cup NoncesTable
<1>1. /\ PrefixRank["__VERSION__"] = 0 /\ PrefixRank["ancho"] = 1
      /\ PrefixRank["best_"] = 2 /\ PrefixRank["block"] = 3
      /\ PrefixRank["chain"] = 4 /\ PrefixRank["child"] = 5
      /\ PrefixRank["heade"] = 6 /\ PrefixRank["nonce"] = 7
  BY DEF PrefixRank
<1>2. {Entry(Key("ancho", 0, 0), "hash", h) : h \in {anchor} \ {NoHash}} = AnchorTable
  BY <1>1 DEF Key, AnchorTable, AnchorEntry
<1>3. {Entry(Key("best_", 0, 0), "hash", h) : h \in {best} \ {NoHash}} = BestTable
  BY <1>1 DEF Key, BestTable, BestEntry
<1>4. Entry(Key("__VERSION__", 0, 0), "version", NoHash) = VersionEntry
  BY <1>1 DEF Key, VersionEntry
<1>5. {Entry(Key("block", HashRank[h], 0), "block", h) : h \in blocks} = BlockTable
  BY <1>1 DEF Key, BlockTable, BlockEntry
<1>6. {Entry(Key("chain", s, 0), "hash", chain[s]) : s \in Occupied(chain)} = ChainTable
  BY <1>1 DEF Key, ChainTable, ChainEntry
<1>7. {Entry(Key("child", HashRank[l[1]], HashRank[l[2]]), "empty", l[2])
         : l \in children} = LinkTable
  BY <1>1 DEF Key, LinkTable, LinkEntry
<1>8. {Entry(Key("heade", HashRank[h], 0), "header", h) : h \in headers} = HeaderTable
  BY <1>1 DEF Key, HeaderTable, HeaderEntry
<1>9. {Entry(Key("nonce", HashRank[h], 0), "nonces", h) : h \in nonces} = NoncesTable
  BY <1>1 DEF Key, NoncesTable, NoncesEntry
<1>. QED
  BY <1>2, <1>3, <1>4, <1>5, <1>6, <1>7, <1>8, <1>9, Zenon DEF Database

\* The image of a finite table is finite, and as large if no two are alike.
LEMMA ImageFinite ==
    ASSUME NEW S, IsFiniteSet(S), NEW f, f \in [S -> {f[x] : x \in S}]
    PROVE  /\ IsFiniteSet({f[x] : x \in S})
           /\ (\A x, y \in S : f[x] = f[y] => x = y)
                 => Cardinality({f[x] : x \in S}) = Cardinality(S)
<1>. DEFINE T == {f[x] : x \in S}
<1>1. f \in Surjection(S, T)
  BY DEF Surjection
<1>2. (\A x, y \in S : f[x] = f[y] => x = y) => f \in Injection(S, T)
  BY DEF Injection, IsInjective
<1>. HIDE DEF T
<1>3. IsFiniteSet(T) /\ (Cardinality(T) = Cardinality(S) <=> f \in Injection(S, T))
  BY <1>1, FS_Surjection
<1>. QED  BY <1>2, <1>3 DEF T

LEMMA TablesAreFinite ==
    ASSUME TablesFinite
    PROVE  IsFiniteSet(Database)
<1>1. IsFiniteSet(HeaderTable)
  <2>. DEFINE f == [h \in headers |-> HeaderEntry(h)]
  <2>1. {f[x] : x \in headers} = HeaderTable /\ f \in [headers -> {f[x] : x \in headers}]
    BY DEF HeaderTable
  <2>. HIDE DEF f
  <2>. QED  BY <2>1, ImageFinite DEF TablesFinite
<1>2. IsFiniteSet(NoncesTable)
  <2>. DEFINE f == [h \in nonces |-> NoncesEntry(h)]
  <2>1. {f[x] : x \in nonces} = NoncesTable /\ f \in [nonces -> {f[x] : x \in nonces}]
    BY DEF NoncesTable
  <2>. HIDE DEF f
  <2>. QED  BY <2>1, ImageFinite DEF TablesFinite
<1>3. IsFiniteSet(BlockTable)
  <2>. DEFINE f == [h \in blocks |-> BlockEntry(h)]
  <2>1. {f[x] : x \in blocks} = BlockTable /\ f \in [blocks -> {f[x] : x \in blocks}]
    BY DEF BlockTable
  <2>. HIDE DEF f
  <2>. QED  BY <2>1, ImageFinite DEF TablesFinite
<1>4. IsFiniteSet(ChainTable)
  <2>. DEFINE S == Occupied(chain)
              f == [s \in S |-> ChainEntry(s)]
  <2>1. {f[x] : x \in S} = ChainTable /\ f \in [S -> {f[x] : x \in S}]
    BY DEF ChainTable
  <2>. HIDE DEF f
  <2>. QED  BY <2>1, ImageFinite DEF TablesFinite
<1>5. IsFiniteSet(LinkTable)
  <2>. DEFINE f == [l \in children |-> LinkEntry(l)]
  <2>1. {f[x] : x \in children} = LinkTable
        /\ f \in [children -> {f[x] : x \in children}]
    BY DEF LinkTable
  <2>. HIDE DEF f
  <2>. QED  BY <2>1, ImageFinite DEF TablesFinite
<1>6. IsFiniteSet({VersionEntry}) /\ IsFiniteSet(AnchorTable) /\ IsFiniteSet(BestTable)
  BY FS_EmptySet, FS_Singleton DEF AnchorTable, BestTable
<1>. QED  BY <1>1, <1>2, <1>3, <1>4, <1>5, <1>6, FS_Union, DatabaseTables

\* What the entries of each table look like.
LEMMA Rows ==
    ASSUME IInv
    PROVE  /\ \A e \in HeaderTable :
                 /\ e.of \in headers /\ e = HeaderEntry(e.of) /\ e.kind = "header"
                 /\ e.key \in Keys /\ e.key[1] = 6 /\ e.key[2] = HashRank[e.of]
           /\ \A e \in NoncesTable :
                 /\ e.of \in nonces /\ e = NoncesEntry(e.of) /\ e.kind = "nonces"
                 /\ e.key \in Keys /\ e.key[1] = 7 /\ e.key[2] = HashRank[e.of]
           /\ \A e \in BlockTable :
                 /\ e.of \in blocks /\ e = BlockEntry(e.of) /\ e.kind = "block"
                 /\ e.key \in Keys /\ e.key[1] = 3 /\ e.key[2] = HashRank[e.of]
           /\ \A e \in ChainTable :
                 /\ e.key[2] \in Occupied(chain) /\ e = ChainEntry(e.key[2])
                 /\ e.kind = "hash" /\ e.key \in Keys /\ e.key[1] = 4
           /\ \A e \in AnchorTable :
                 /\ e = AnchorEntry /\ e.kind = "hash" /\ e.key = <<1, 0, 0>>
           /\ \A e \in BestTable :
                 /\ e = BestEntry /\ e.kind = "hash" /\ e.key = <<2, 0, 0>>
           /\ VersionEntry.kind = "version" /\ VersionEntry.key = <<0, 0, 0>>
<1>0. /\ \A h \in Headers : HashRank[h] \in Nat
      /\ headers \subseteq Headers /\ nonces \subseteq Headers /\ blocks \subseteq Headers
      /\ Occupied(chain) \subseteq Nat
  BY HashAssumption, SlotType DEF IInv, TypeOK, Occupied
<1>1. ASSUME NEW e \in HeaderTable
      PROVE  /\ e.of \in headers /\ e = HeaderEntry(e.of) /\ e.kind = "header"
             /\ e.key \in Keys /\ e.key[1] = 6 /\ e.key[2] = HashRank[e.of]
  BY <1>0 DEF HeaderTable, HeaderEntry, Entry, Keys
<1>2. ASSUME NEW e \in NoncesTable
      PROVE  /\ e.of \in nonces /\ e = NoncesEntry(e.of) /\ e.kind = "nonces"
             /\ e.key \in Keys /\ e.key[1] = 7 /\ e.key[2] = HashRank[e.of]
  BY <1>0 DEF NoncesTable, NoncesEntry, Entry, Keys
<1>3. ASSUME NEW e \in BlockTable
      PROVE  /\ e.of \in blocks /\ e = BlockEntry(e.of) /\ e.kind = "block"
             /\ e.key \in Keys /\ e.key[1] = 3 /\ e.key[2] = HashRank[e.of]
  BY <1>0 DEF BlockTable, BlockEntry, Entry, Keys
<1>4. ASSUME NEW e \in ChainTable
      PROVE  /\ e.key[2] \in Occupied(chain) /\ e = ChainEntry(e.key[2])
             /\ e.kind = "hash" /\ e.key \in Keys /\ e.key[1] = 4
  BY <1>0 DEF ChainTable, ChainEntry, Entry, Keys
<1>5. ASSUME NEW e \in AnchorTable
      PROVE  e = AnchorEntry /\ e.kind = "hash" /\ e.key = <<1, 0, 0>>
  BY DEF AnchorTable, AnchorEntry, Entry
<1>6. ASSUME NEW e \in BestTable
      PROVE  e = BestEntry /\ e.kind = "hash" /\ e.key = <<2, 0, 0>>
  BY DEF BestTable, BestEntry, Entry
<1>7. VersionEntry.kind = "version" /\ VersionEntry.key = <<0, 0, 0>>
  BY DEF VersionEntry, Entry
<1>. QED  BY <1>1, <1>2, <1>3, <1>4, <1>5, <1>6, <1>7

LEMMA LinkRows ==
    ASSUME IInv, NEW e \in LinkTable
    PROVE  /\ e.kind = "empty" /\ e.key \in Keys /\ e.key[1] = 5
           /\ \E l \in children : /\ e = LinkEntry(l) /\ l = <<l[1], l[2]>>
                                  /\ l[1] \in Headers /\ l[2] \in Headers
                                  /\ e.key[2] = HashRank[l[1]]
                                  /\ e.key[3] = HashRank[l[2]]
<1>1. PICK l \in children : e = LinkEntry(l)
  BY DEF LinkTable
<1>2. l \in Headers \X Headers
  BY DEF IInv, TypeOK
<1>3. l = <<l[1], l[2]>> /\ l[1] \in Headers /\ l[2] \in Headers
  BY <1>2
<1>4. HashRank[l[1]] \in Nat /\ HashRank[l[2]] \in Nat
  BY <1>3, HashAssumption
<1>5. e.kind = "empty" /\ e.key = <<5, HashRank[l[1]], HashRank[l[2]]>>
  BY <1>1 DEF LinkEntry, Entry
<1>. QED  BY <1>1, <1>3, <1>4, <1>5 DEF Keys

\* The first part of a key tells the table of its entry.
LEMMA TableOfKey ==
    ASSUME IInv, NEW e \in Database
    PROVE  /\ e.key \in Keys /\ e.key[1] \in 0..7
           /\ e.key[1] = 0 => e = VersionEntry
           /\ e.key[1] = 1 => e \in AnchorTable
           /\ e.key[1] = 2 => e \in BestTable
           /\ e.key[1] = 3 => e \in BlockTable
           /\ e.key[1] = 4 => e \in ChainTable
           /\ e.key[1] = 5 => e \in LinkTable
           /\ e.key[1] = 6 => e \in HeaderTable
           /\ e.key[1] = 7 => e \in NoncesTable
<1>1. CASE e \in {VersionEntry}
  BY <1>1, Rows DEF Keys
<1>2. CASE e \in AnchorTable
  BY <1>2, Rows DEF Keys
<1>3. CASE e \in BestTable
  BY <1>3, Rows DEF Keys
<1>4. CASE e \in BlockTable
  BY <1>4, Rows
<1>5. CASE e \in ChainTable
  BY <1>5, Rows
<1>6. CASE e \in LinkTable
  BY <1>6, LinkRows
<1>7. CASE e \in HeaderTable
  BY <1>7, Rows
<1>8. CASE e \in NoncesTable
  BY <1>8, Rows
<1>. QED  BY <1>1, <1>2, <1>3, <1>4, <1>5, <1>6, <1>7, <1>8, DatabaseTables

\* Two entries of the database have different keys.
LEMMA DatabaseKeyable ==
    ASSUME IInv, TablesFinite
    PROVE  Keyable(Database)
<1>1. ASSUME NEW e \in Database, NEW f \in Database, e.key = f.key
      PROVE  e = f
  <2>1. e.key[1] = f.key[1] /\ e.key[2] = f.key[2] /\ e.key[3] = f.key[3]
    BY <1>1
  <2>2. \A g, h \in Headers : HashRank[g] = HashRank[h] => g = h
    BY HashAssumption
  <2>3. headers \subseteq Headers /\ nonces \subseteq Headers /\ blocks \subseteq Headers
    BY DEF IInv, TypeOK
  <2>4. CASE e.key[1] = 0
    BY <2>1, <2>4, TableOfKey
  <2>5. CASE e.key[1] = 1 \/ e.key[1] = 2
    <3>1. \/ e \in AnchorTable /\ f \in AnchorTable
          \/ e \in BestTable /\ f \in BestTable
      BY <2>1, <2>5, TableOfKey
    <3>. QED  BY <3>1, Rows
  <2>6. CASE e.key[1] = 3
    <3>1. e \in BlockTable /\ f \in BlockTable
      BY <2>1, <2>6, TableOfKey
    <3>2. e.of = f.of
      BY <2>1, <2>2, <2>3, <3>1, Rows
    <3>3. e = BlockEntry(e.of) /\ f = BlockEntry(f.of)
      BY <3>1, Rows
    <3>. QED  BY <3>2, <3>3
  <2>7. CASE e.key[1] = 4
    <3>1. e \in ChainTable /\ f \in ChainTable
      BY <2>1, <2>7, TableOfKey
    <3>2. e = ChainEntry(e.key[2]) /\ f = ChainEntry(f.key[2])
      BY <3>1, Rows
    <3>. QED  BY <2>1, <3>2
  <2>8. CASE e.key[1] = 5
    <3>1. e \in LinkTable /\ f \in LinkTable
      BY <2>1, <2>8, TableOfKey
    <3>2. PICK l \in children : /\ e = LinkEntry(l) /\ l = <<l[1], l[2]>>
                                /\ l[1] \in Headers /\ l[2] \in Headers
                                /\ e.key[2] = HashRank[l[1]]
                                /\ e.key[3] = HashRank[l[2]]
      BY <3>1, LinkRows
    <3>3. PICK m \in children : /\ f = LinkEntry(m) /\ m = <<m[1], m[2]>>
                                /\ m[1] \in Headers /\ m[2] \in Headers
                                /\ f.key[2] = HashRank[m[1]]
                                /\ f.key[3] = HashRank[m[2]]
      BY <3>1, LinkRows
    <3>4. l[1] = m[1] /\ l[2] = m[2]
      BY <2>1, <2>2, <3>2, <3>3
    <3>. QED  BY <3>2, <3>3, <3>4
  <2>9. CASE e.key[1] = 6
    <3>1. e \in HeaderTable /\ f \in HeaderTable
      BY <2>1, <2>9, TableOfKey
    <3>2. e.of = f.of
      BY <2>1, <2>2, <2>3, <3>1, Rows
    <3>3. e = HeaderEntry(e.of) /\ f = HeaderEntry(f.of)
      BY <3>1, Rows
    <3>. QED  BY <3>2, <3>3
  <2>10. CASE e.key[1] = 7
    <3>1. e \in NoncesTable /\ f \in NoncesTable
      BY <2>1, <2>10, TableOfKey
    <3>2. e.of = f.of
      BY <2>1, <2>2, <2>3, <3>1, Rows
    <3>3. e = NoncesEntry(e.of) /\ f = NoncesEntry(f.of)
      BY <3>1, Rows
    <3>. QED  BY <3>2, <3>3
  <2>11. e.key[1] \in 0..7
    BY TableOfKey
  <2>. QED  BY <2>4, <2>5, <2>6, <2>7, <2>8, <2>9, <2>10, <2>11
<1>. QED  BY <1>1, TableOfKey, TablesAreFinite DEF Keyable

LEMMA PartKeyable ==
    ASSUME NEW S, Keyable(S), NEW T \in SUBSET S
    PROVE  Keyable(T)
BY FS_Subset DEF Keyable

LEMMA PartsOfDatabase ==
    /\ HeaderTable \subseteq Database /\ NoncesTable \subseteq Database
    /\ BlockTable \subseteq Database /\ ChainTable \subseteq Database
    /\ AnchorTable \subseteq Database
BY DatabaseTables

-----------------------------------------------------------------------------
(* The reads.                                                              *)

LEMMA PrefixOrder ==
    /\ PrefixRank["ancho"] = 1 /\ PrefixRank["block"] = 3 /\ PrefixRank["chain"] = 4
    /\ PrefixRank["heade"] = 6 /\ PrefixRank["nonce"] = 7
BY DEF PrefixRank

LEMMA HeadersOfInOrder ==
    ASSUME NEW S, Keyable(S)
    PROVE  HeadersOf(InOrder(S)) = {e.of : e \in S}
<1>1. ToSet(InOrder(S)) = S
  BY InOrderReads
<1>2. HeadersOf(InOrder(S)) = {e.of : e \in ToSet(InOrder(S))}
  BY DEF HeadersOf, ToSet
<1>. QED  BY <1>1, <1>2

\* load_headers and load_nonces: the entries past the table do not decode.
LEMMA HeadersRead ==
    ASSUME IInv, TablesFinite
    PROVE  /\ HeadersOf(LoadHeaders(Database)) = headers
           /\ Len(LoadHeaders(Database)) = Cardinality(headers)
<1>. DEFINE S == {e \in Database : ~Before(e.key, Key("heade", 0, 0))}
<1>1. Keyable(S)
  BY DatabaseKeyable, PartKeyable
<1>2. {e \in S : e.kind = "header"} = HeaderTable
  <2>1. ASSUME NEW e \in HeaderTable
        PROVE  e \in S /\ e.kind = "header"
    <3>1. e.key[1] = 6 /\ e.key[2] \in Nat /\ e.key[3] \in Nat /\ e.kind = "header"
      BY Rows DEF Keys
    <3>. QED  BY <3>1, PrefixOrder, PartsOfDatabase DEF Before, Key
  <2>2. ASSUME NEW e \in Database, e.kind = "header"
        PROVE  e \in HeaderTable
    BY <2>2, Rows, LinkRows, DatabaseTables
  <2>. QED  BY <2>1, <2>2
<1>3. LoadHeaders(Database) = InOrder(HeaderTable)
  <2>1. ToSet(InOrder(S)) = S
    BY <1>1, InOrderReads
  <2>2. LoadHeaders(Database) = InOrder({e \in ToSet(InOrder(S)) : e.kind = "header"})
    BY DEF LoadHeaders, Decoded, From
  <2>. QED  BY <1>2, <2>1, <2>2
<1>4. Keyable(HeaderTable)
  BY DatabaseKeyable, PartKeyable, PartsOfDatabase
<1>5. {e.of : e \in HeaderTable} = headers
  <2>1. \A e \in HeaderTable : e.of \in headers
    BY Rows
  <2>2. \A h \in headers : HeaderEntry(h) \in HeaderTable /\ HeaderEntry(h).of = h
    BY DEF HeaderTable, HeaderEntry, Entry
  <2>. QED  BY <2>1, <2>2
<1>6. Cardinality(HeaderTable) = Cardinality(headers)
  <2>. DEFINE f == [h \in headers |-> HeaderEntry(h)]
  <2>1. {f[x] : x \in headers} = HeaderTable /\ f \in [headers -> {f[x] : x \in headers}]
    BY DEF HeaderTable
  <2>2. \A x, y \in headers : f[x] = f[y] => x = y
    BY DEF HeaderEntry, Entry
  <2>. HIDE DEF f
  <2>. QED  BY <2>1, <2>2, ImageFinite DEF TablesFinite
<1>. QED  BY <1>3, <1>4, <1>5, <1>6, HeadersOfInOrder, InOrderReads

LEMMA NoncesRead ==
    ASSUME IInv, TablesFinite
    PROVE  HeadersOf(LoadNonces(Database)) = nonces
<1>. DEFINE S == {e \in Database : ~Before(e.key, Key("nonce", 0, 0))}
<1>1. Keyable(S)
  BY DatabaseKeyable, PartKeyable
<1>2. {e \in S : e.kind = "nonces"} = NoncesTable
  <2>1. ASSUME NEW e \in NoncesTable
        PROVE  e \in S /\ e.kind = "nonces"
    <3>1. e.key[1] = 7 /\ e.key[2] \in Nat /\ e.key[3] \in Nat /\ e.kind = "nonces"
      BY Rows DEF Keys
    <3>. QED  BY <3>1, PrefixOrder, PartsOfDatabase DEF Before, Key
  <2>2. ASSUME NEW e \in Database, e.kind = "nonces"
        PROVE  e \in NoncesTable
    BY <2>2, Rows, LinkRows, DatabaseTables
  <2>. QED  BY <2>1, <2>2
<1>3. LoadNonces(Database) = InOrder(NoncesTable)
  <2>1. ToSet(InOrder(S)) = S
    BY <1>1, InOrderReads
  <2>2. LoadNonces(Database) = InOrder({e \in ToSet(InOrder(S)) : e.kind = "nonces"})
    BY DEF LoadNonces, Decoded, From
  <2>. QED  BY <1>2, <2>1, <2>2
<1>4. Keyable(NoncesTable)
  BY DatabaseKeyable, PartKeyable, PartsOfDatabase
<1>5. {e.of : e \in NoncesTable} = nonces
  <2>1. \A e \in NoncesTable : e.of \in nonces
    BY Rows
  <2>2. \A h \in nonces : NoncesEntry(h) \in NoncesTable /\ NoncesEntry(h).of = h
    BY DEF NoncesTable, NoncesEntry, Entry
  <2>. QED  BY <2>1, <2>2
<1>. QED  BY <1>3, <1>4, <1>5, HeadersOfInOrder

\* load_blocks stays within its prefix.
LEMMA BlocksRead ==
    ASSUME IInv, TablesFinite
    PROVE  HeadersOf(LoadBlocks(Database)) = blocks
<1>1. {e \in Database : \A i \in 1..1 : e.key[i] = Key("block", 0, 0)[i]} = BlockTable
  BY TableOfKey, Rows, PrefixOrder, PartsOfDatabase DEF Key
<1>2. LoadBlocks(Database) = InOrder(BlockTable)
  BY <1>1 DEF LoadBlocks, Ranged
<1>3. Keyable(BlockTable)
  BY DatabaseKeyable, PartKeyable, PartsOfDatabase
<1>4. {e.of : e \in BlockTable} = blocks
  <2>1. \A e \in BlockTable : e.of \in blocks
    BY Rows
  <2>2. \A h \in blocks : BlockEntry(h) \in BlockTable /\ BlockEntry(h).of = h
    BY DEF BlockTable, BlockEntry, Entry
  <2>. QED  BY <2>1, <2>2
<1>. QED  BY <1>2, <1>3, <1>4, HeadersOfInOrder

\* The keys rollback_chain deletes are the chain points after its point.
LEMMA RollbackReads ==
    ASSUME IInv, TablesFinite, NEW p \in Points
    PROVE  {e.key[2] : e \in ToSet(RollbackScan(Database, p))}
              = {s \in Occupied(chain) : s >= SlotOf(p) + 1}
<1>. DEFINE S == {e \in Database : \A i \in 1..1 : e.key[i] = Key("chain", 0, 0)[i]}
            T == {e \in ChainTable : e.key[2] >= SlotOf(p) + 1}
<1>1. S = ChainTable
  BY TableOfKey, Rows, PrefixOrder, PartsOfDatabase DEF Key
<1>2. Keyable(ChainTable) /\ Keyable(T)
  BY DatabaseKeyable, PartKeyable, PartsOfDatabase
<1>3. ToSet(InOrder(ChainTable)) = ChainTable /\ ToSet(InOrder(T)) = T
  <2>. HIDE DEF T
  <2>. QED  BY <1>2, InOrderReads
<1>4. RollbackScan(Database, p)
        = InOrder({e \in ToSet(InOrder(S)) : e.key[2] >= SlotOf(p) + 1})
  BY DEF RollbackScan, Ranged
<1>5. ToSet(RollbackScan(Database, p)) = T
  BY <1>1, <1>3, <1>4
<1>6. \A s \in Occupied(chain) : ChainEntry(s) \in ChainTable /\ ChainEntry(s).key[2] = s
  BY DEF ChainTable, ChainEntry, Entry
<1>7. \A e \in ChainTable : e.key[2] \in Occupied(chain)
  BY Rows
<1>. QED  BY <1>5, <1>6, <1>7

\* next_best_chain: the first entry at or after the slot is the first chain
\* point there, or belongs to another table and is no hash.
LEMMA NextRead ==
    ASSUME IInv, TablesFinite, NEW p \in Points
    PROVE  NextBestChainScan(Database, p) = NextBestChain(p)
<1>. DEFINE n == SlotOf(p) + 1
            S == {e \in Database : ~Before(e.key, Key("chain", n, 0))}
            it == InOrder(S)
            from == {s \in Occupied(chain) : s >= n}
<1>0. n \in Nat /\ Occupied(chain) \subseteq Nat
  <2>1. SlotOf(p) \in Nat
    BY HeaderAssumption DEF SlotOf, Points
  <2>2. Occupied(chain) \subseteq Nat
    BY SlotType DEF Occupied
  <2>. QED  BY <2>1, <2>2
<1>1. Keyable(S)
  BY DatabaseKeyable, PartKeyable
<1>2. ASSUME NEW e \in S
      PROVE  /\ e \in Database /\ e.key[1] >= 4 /\ e.key[1] \in 4..7
             /\ e.kind = "hash" => e \in ChainTable
             /\ e \in ChainTable => e.kind = "hash" /\ e.key[2] \in from
  <2>1. e \in Database /\ e.key \in Keys /\ e.key[1] \in 0..7
    BY TableOfKey
  <2>2. ~Before(e.key, <<4, n, 0>>)
    BY PrefixOrder DEF Key
  <2>3. e.key[1] >= 4 /\ e.key[1] \in 4..7
    BY <2>1, <2>2 DEF Before
  <2>4. e.kind = "hash" => e \in ChainTable
    <3>1. e.key[1] = 4 \/ e.key[1] = 5 \/ e.key[1] = 6 \/ e.key[1] = 7
      BY <2>3
    <3>. QED  BY <2>1, <3>1, TableOfKey, Rows, LinkRows
  <2>5. e \in ChainTable => e.kind = "hash" /\ e.key[2] \in from
    <3>1. ASSUME e \in ChainTable
          PROVE  e.kind = "hash" /\ e.key[2] \in Occupied(chain) /\ e.key[1] = 4
      BY <3>1, Rows
    <3>. QED  BY <1>0, <2>2, <3>1 DEF Before
  <2>. QED  BY <2>1, <2>3, <2>4, <2>5
<1>3. ASSUME NEW s \in from
      PROVE  ChainEntry(s) \in S /\ ChainEntry(s).key = <<4, s, 0>>
  <2>1. ChainEntry(s) \in Database /\ ChainEntry(s).key = <<4, s, 0>>
    BY PartsOfDatabase DEF ChainTable, ChainEntry, Entry
  <2>. QED  BY <1>0, <2>1, PrefixOrder DEF Before, Key
<1>4. NextBestChainScan(Database, p)
        = IF DOMAIN it # {} /\ it[1].kind = "hash" THEN it[1].of ELSE NoHash
  BY DEF NextBestChainScan, From
<1>5. NextBestChain(p) = IF from = {} THEN NoHash
                         ELSE chain[CHOOSE s \in from : \A t \in from : s <= t]
  BY DEF NextBestChain
<1>6. /\ DOMAIN it = {} <=> S = {}
      /\ S # {} => it[1] \in S /\ \A e \in S : ~Before(e.key, it[1].key)
  <2>. HIDE DEF S
  <2>. QED  BY <1>1, InOrderReads
<1>. HIDE DEF S, it, from, n
<1>7. CASE from = {}
  BY <1>2, <1>4, <1>5, <1>6, <1>7
<1>8. CASE from # {}
  <2>1. PICK s \in from : TRUE
    BY <1>8
  <2>2. it[1] \in S /\ \A e \in S : ~Before(e.key, it[1].key)
    BY <1>3, <1>6, <2>1
  <2>. DEFINE t == it[1].key[2]
  <2>3. it[1] \in ChainTable
    <3>1. it[1].key[1] \in 4..7 /\ it[1] \in Database
      BY <1>2, <2>2
    <3>2. ~Before(<<4, s, 0>>, it[1].key)
      BY <1>3, <2>1, <2>2
    <3>3. it[1].key[1] = 4
      BY <3>1, <3>2 DEF Before
    <3>. QED  BY <3>1, <3>3, TableOfKey
  <2>4. /\ t \in from /\ it[1].kind = "hash" /\ it[1].of = chain[t]
        /\ it[1].key = <<4, t, 0>>
    <3>1. it[1] = ChainEntry(t)
      BY <2>3, Rows
    <3>2. it[1].of = chain[t] /\ it[1].key = <<4, t, 0>>
      BY <3>1 DEF ChainEntry, Entry
    <3>. QED  BY <1>2, <2>2, <2>3, <3>2
  <2>5. from \subseteq Nat
    BY <1>0 DEF from
  <2>6. \A u \in from : t <= u
    <3>1. ASSUME NEW u \in from
          PROVE  t <= u
      <4>1. ~Before(<<4, u, 0>>, <<4, t, 0>>)
        BY <1>3, <2>2, <2>4
      <4>2. t \in Nat /\ u \in Nat
        BY <2>4, <2>5
      <4>. HIDE DEF t
      <4>. QED  BY <4>1, <4>2 DEF Before
    <3>. QED  BY <3>1
  <2>. HIDE DEF t
  <2>7. (CHOOSE v \in from : \A u \in from : v <= u) = t
    <3>1. \A v \in from : (\A u \in from : v <= u) => v = t
      BY <2>4, <2>5, <2>6
    <3>. QED  BY <2>4, <2>6, <3>1
  <2>. QED  BY <1>4, <1>5, <1>6, <1>8, <2>2, <2>4, <2>7
<1>. QED  BY <1>7, <1>8

\* The reads by key.
LEMMA KeyReads ==
    ASSUME IInv, NEW h \in Headers
    PROVE  /\ HasHeader(Database, h) <=> h \in headers
           /\ LoadHeader(Database, h) = (IF h \in headers THEN h ELSE NoHash)
           /\ GetNonces(Database, h) = (IF h \in nonces THEN h ELSE NoHash)
           /\ LoadBlock(Database, h) = (IF h \in blocks THEN h ELSE NoHash)
<1>0. /\ \A g \in Headers : HashRank[g] = HashRank[h] => g = h
      /\ headers \subseteq Headers /\ nonces \subseteq Headers /\ blocks \subseteq Headers
  BY HashAssumption DEF IInv, TypeOK
<1>1. \A e \in Database : e.key = <<6, HashRank[h], 0>> =>
         h \in headers /\ e = HeaderEntry(h)
  BY <1>0, TableOfKey, Rows
<1>2. \A e \in Database : e.key = <<7, HashRank[h], 0>> =>
         h \in nonces /\ e = NoncesEntry(h)
  BY <1>0, TableOfKey, Rows
<1>3. \A e \in Database : e.key = <<3, HashRank[h], 0>> =>
         h \in blocks /\ e = BlockEntry(h)
  BY <1>0, TableOfKey, Rows
<1>4. h \in headers => HeaderEntry(h) \in Database
  BY PartsOfDatabase DEF HeaderTable
<1>5. h \in nonces => NoncesEntry(h) \in Database
  BY PartsOfDatabase DEF NoncesTable
<1>6. h \in blocks => BlockEntry(h) \in Database
  BY PartsOfDatabase DEF BlockTable
<1>7. HasHeader(Database, h) <=> h \in headers
  BY <1>1, <1>4, PrefixOrder DEF HasHeader, Key, HeaderEntry, Entry
<1>8. LoadHeader(Database, h) = (IF h \in headers THEN h ELSE NoHash)
  <2>. DEFINE found == {e \in Database : e.key = <<6, HashRank[h], 0>> /\ e.kind = "header"}
  <2>1. LoadHeader(Database, h)
          = IF found = {} THEN NoHash ELSE (CHOOSE e \in found : TRUE).of
    BY PrefixOrder DEF LoadHeader, Get, Key
  <2>2. found = IF h \in headers THEN {HeaderEntry(h)} ELSE {}
    BY <1>1, <1>4 DEF HeaderEntry, Entry
  <2>3. HeaderEntry(h).of = h
    BY DEF HeaderEntry, Entry
  <2>. HIDE DEF found
  <2>. QED  BY <2>1, <2>2, <2>3
<1>9. GetNonces(Database, h) = (IF h \in nonces THEN h ELSE NoHash)
  <2>. DEFINE found == {e \in Database : e.key = <<7, HashRank[h], 0>> /\ e.kind = "nonces"}
  <2>1. GetNonces(Database, h)
          = IF found = {} THEN NoHash ELSE (CHOOSE e \in found : TRUE).of
    BY PrefixOrder DEF GetNonces, Get, Key
  <2>2. found = IF h \in nonces THEN {NoncesEntry(h)} ELSE {}
    BY <1>2, <1>5 DEF NoncesEntry, Entry
  <2>3. NoncesEntry(h).of = h
    BY DEF NoncesEntry, Entry
  <2>. HIDE DEF found
  <2>. QED  BY <2>1, <2>2, <2>3
<1>10. LoadBlock(Database, h) = (IF h \in blocks THEN h ELSE NoHash)
  <2>. DEFINE found == {e \in Database : e.key = <<3, HashRank[h], 0>> /\ e.kind = "block"}
  <2>1. LoadBlock(Database, h)
          = IF found = {} THEN NoHash ELSE (CHOOSE e \in found : TRUE).of
    BY PrefixOrder DEF LoadBlock, Get, Key
  <2>2. found = IF h \in blocks THEN {BlockEntry(h)} ELSE {}
    BY <1>3, <1>6 DEF BlockEntry, Entry
  <2>3. BlockEntry(h).of = h
    BY DEF BlockEntry, Entry
  <2>. HIDE DEF found
  <2>. QED  BY <2>1, <2>2, <2>3
<1>. QED  BY <1>7, <1>8, <1>9, <1>10

LEMMA AnchorRead ==
    ASSUME IInv
    PROVE  GetAnchorHash(Database) = (IF anchor = NoHash THEN Origin ELSE anchor)
<1>. DEFINE found == {e \in Database : e.key = <<1, 0, 0>> /\ e.kind = "hash"}
            got == Get(Database, Key("ancho", 0, 0), "hash")
<1>1. got = IF found = {} THEN NoHash ELSE (CHOOSE e \in found : TRUE).of
  BY PrefixOrder DEF Get, Key
<1>2. found = IF anchor = NoHash THEN {} ELSE {AnchorEntry}
  <2>1. \A e \in Database : e.key = <<1, 0, 0>> => e \in AnchorTable
    BY TableOfKey
  <2>2. \A e \in AnchorTable : e \in found
    BY Rows, PartsOfDatabase
  <2>3. found = AnchorTable
    BY <2>1, <2>2
  <2>. HIDE DEF found
  <2>. QED  BY <2>3 DEF AnchorTable
<1>3. AnchorEntry.of = anchor
  BY DEF AnchorEntry, Entry
<1>. HIDE DEF found
<1>4. got = IF anchor = NoHash THEN NoHash ELSE anchor
  BY <1>1, <1>2, <1>3
<1>5. GetAnchorHash(Database) = IF got = NoHash THEN Origin ELSE got
  BY DEF GetAnchorHash
<1>. HIDE DEF got
<1>. QED  BY <1>4, <1>5

\* Whatever the hashes, and whatever tables are empty, each read returns the
\* entries of its own table and all of them.
THEOREM ReadsStay == Spec => []ReadsStayInTheirTable
<1>1. ASSUME IInv, TablesFinite
      PROVE  ReadsStayInTheirTable
  BY <1>1, HeadersRead, NoncesRead, BlocksRead, RollbackReads, NextRead, KeyReads,
     AnchorRead
     DEF ReadsStayInTheirTable
<1>. QED  BY <1>1, Invariance, FiniteTables, PTL

-----------------------------------------------------------------------------
(* The groups of links.                                                    *)

\* The loop of load_parents_children, one entry after the other.
IsPass(acc, it, n) ==
    acc = [i \in 0..n |-> IF i = 0 THEN NoGroup ELSE NextLink(acc[i - 1], it[i])]

LEMMA PassExists ==
    ASSUME NEW it, NEW m \in Nat
    PROVE  \E acc : IsPass(acc, it, m)
<1>. DEFINE Bad == {n \in Nat : ~ \E acc : IsPass(acc, it, n)}
<1>1. SUFFICES ASSUME Bad # {} PROVE FALSE
  OBVIOUS
<1>2. PICK n \in Bad : \A k \in Bad : n <= k
  BY <1>1, FirstSlot
<1>3. CASE n = 0
  <2>1. IsPass([i \in 0..0 |-> NoGroup], it, 0)
    BY DEF IsPass
  <2>. QED  BY <1>2, <1>3, <2>1
<1>4. CASE n # 0
  <2>1. n \in Nat /\ n - 1 \in Nat /\ n - 1 \notin Bad
    BY <1>2, <1>4
  <2>2. PICK acc : IsPass(acc, it, n - 1)
    BY <2>1
  <2>. DEFINE more == [i \in 0..n |-> IF i = n THEN NextLink(acc[n - 1], it[n]) ELSE acc[i]]
  <2>3. \A i \in 0..(n - 1) :
           acc[i] = IF i = 0 THEN NoGroup ELSE NextLink(acc[i - 1], it[i])
    BY <2>2 DEF IsPass
  <2>4. \A i \in 0..(n - 1) : more[i] = acc[i]
    BY <2>1
  <2>5. more[n] = NextLink(acc[n - 1], it[n])
    BY <2>1
  <2>6. ASSUME NEW i \in 0..n
        PROVE  more[i] = IF i = 0 THEN NoGroup ELSE NextLink(more[i - 1], it[i])
    <3>. HIDE DEF more
    <3>1. CASE i = n
      <4>1. more[i - 1] = acc[n - 1]
        BY <1>4, <2>1, <2>4, <3>1
      <4>. QED  BY <1>4, <2>5, <3>1, <4>1
    <3>2. CASE i # n /\ i # 0
      <4>1. i \in 0..(n - 1) /\ i - 1 \in 0..(n - 1)
        BY <2>1, <3>2
      <4>2. more[i] = acc[i] /\ more[i - 1] = acc[i - 1]
        BY <2>4, <4>1
      <4>. QED  BY <2>3, <3>2, <4>1, <4>2
    <3>3. CASE i # n /\ i = 0
      <4>1. 0 \in 0..(n - 1)
        BY <2>1
      <4>. QED  BY <2>3, <2>4, <3>3, <4>1
    <3>. QED  BY <3>1, <3>2, <3>3
  <2>7. IsPass(more, it, n)
    <3>1. more = [i \in 0..n |-> more[i]]
      OBVIOUS
    <3>. HIDE DEF more
    <3>. QED  BY <2>6, <3>1 DEF IsPass
  <2>. QED  BY <1>2, <2>7
<1>. QED  BY <1>3, <1>4

LEMMA PassUnfolds ==
    ASSUME NEW it, Len(it) \in Nat
    PROVE  \E acc : IsPass(acc, it, Len(it)) /\ Pass(it) = acc[Len(it)]
<1>. DEFINE acc == CHOOSE g : IsPass(g, it, Len(it))
<1>1. IsPass(acc, it, Len(it))
  BY PassExists
<1>2. Pass(it) = acc[Len(it)]
  BY DEF Pass, IsPass
<1>. QED  BY <1>1, <1>2

\* T is S and one entry after all of them.
Follows(S, x, T) == T = S \cup {x} /\ \A e \in S : Before(e.key, x.key)

\* An entry after all others comes last, and leaves theirs places.
LEMMA InOrderAppend ==
    ASSUME NEW S, NEW x, NEW T, Follows(S, x, T), Keyable(T)
    PROVE  /\ Keyable(S) /\ Cardinality(T) = Cardinality(S) + 1
           /\ \A i \in 1..Cardinality(S) : InOrder(T)[i] = InOrder(S)[i]
           /\ InOrder(T)[Cardinality(S) + 1] = x
<1>. DEFINE n == Cardinality(S)
<1>0. T = S \cup {x} /\ \A e \in S : Before(e.key, x.key)
  BY DEF Follows
<1>1. Keyable(S)
  BY <1>0, PartKeyable
<1>2. x \notin S
  BY <1>0, BeforeOrders DEF Keyable
<1>3. n \in Nat /\ Cardinality(T) = n + 1
  BY <1>0, <1>1, <1>2, FS_AddElement, FS_CardinalityType DEF Keyable
<1>4. ASSUME NEW e \in S
      PROVE  Below(T, e) = Below(S, e)
  <2>1. ~Before(x.key, e.key)
    BY <1>0, BeforeOrders DEF Keyable
  <2>. QED  BY <1>0, <2>1 DEF Below
<1>5. Below(T, x) = S
  BY <1>0, BeforeOrders DEF Below, Keyable
<1>6. Keyable(T) /\ x \in T /\ S \subseteq T
  BY <1>0
<1>7. \A e \in T : InOrder(T)[Cardinality(Below(T, e)) + 1] = e
  BY <1>6, InOrderRanks
<1>8. \A i \in 1..n : InOrder(S)[i] \in S /\ Cardinality(Below(S, InOrder(S)[i])) = i - 1
  BY <1>1, InOrderRanks
<1>. HIDE DEF n
<1>9. ASSUME NEW i \in 1..n
      PROVE  InOrder(T)[i] = InOrder(S)[i]
  <2>. DEFINE e == InOrder(S)[i]
  <2>1. e \in S /\ Cardinality(Below(S, e)) = i - 1
    BY <1>8
  <2>. HIDE DEF e
  <2>2. Cardinality(Below(T, e)) = i - 1 /\ e \in T
    BY <1>4, <1>6, <2>1
  <2>3. (i - 1) + 1 = i
    BY <1>3
  <2>4. InOrder(T)[i] = e
    BY <1>7, <2>2, <2>3
  <2>. QED  BY <2>4 DEF e
<1>10. InOrder(T)[n + 1] = x
  BY <1>5, <1>6, <1>7 DEF n
<1>. QED  BY <1>1, <1>3, <1>9, <1>10 DEF n

\* The entries of a set of links, their parents and their children.
IsLink(e) ==
    /\ e.key[1] = 5
    /\ \E h \in Headers : e.key[2] = HashRank[h]
    /\ \E h \in Headers : e.key[3] = HashRank[h]

AreLinks(S) == Keyable(S) /\ \A e \in S : IsLink(e)

ParentOf(e) == HashAt(e.key[2])
ChildOf(e) == HashAt(e.key[3])

Of(S, h) == {e \in S : e.key[2] = HashRank[h]}

Kids(S) == [i \in DOMAIN InOrder(S) |-> ChildOf(InOrder(S)[i])]

LEMMA HashOfRank ==
    ASSUME NEW h \in Headers
    PROVE  HashAt(HashRank[h]) = h /\ HashRank[h] \in Nat
BY HashAssumption DEF HashAt

LEMMA HashesOfLink ==
    ASSUME NEW e, IsLink(e)
    PROVE  /\ ParentOf(e) \in Headers /\ e.key[2] = HashRank[ParentOf(e)]
           /\ ChildOf(e) \in Headers /\ e.key[3] = HashRank[ChildOf(e)]
BY HashOfRank DEF IsLink, ParentOf, ChildOf

LEMMA PartsAreLinks ==
    ASSUME NEW S, AreLinks(S), NEW T \in SUBSET S
    PROVE  AreLinks(T)
BY PartKeyable DEF AreLinks

LEMMA KidsType ==
    ASSUME NEW S, AreLinks(S)
    PROVE  /\ Cardinality(S) \in Nat
           /\ Kids(S) \in Seq(Headers) /\ Len(Kids(S)) = Cardinality(S)
           /\ \A i \in 1..Cardinality(S) : Kids(S)[i] = ChildOf(InOrder(S)[i])
<1>1. Cardinality(S) \in Nat /\ DOMAIN InOrder(S) = 1..Cardinality(S)
  BY InOrderRanks DEF AreLinks
<1>2. \A i \in 1..Cardinality(S) : ChildOf(InOrder(S)[i]) \in Headers
  BY InOrderRanks, HashesOfLink DEF AreLinks
<1>3. Kids(S) = [i \in 1..Cardinality(S) |-> ChildOf(InOrder(S)[i])]
  BY <1>1 DEF Kids
<1>. QED  BY <1>1, <1>2, <1>3

LEMMA SameSequence ==
    ASSUME NEW V, NEW s \in Seq(V), NEW t \in Seq(V), Len(s) = Len(t),
           \A i \in 1..Len(s) : s[i] = t[i]
    PROVE  s = t
OBVIOUS

LEMMA KidsAppend ==
    ASSUME NEW S, NEW x, NEW T, Follows(S, x, T), AreLinks(T)
    PROVE  Kids(T) = Append(Kids(S), ChildOf(x))
<1>. DEFINE n == Cardinality(S)
<1>1. AreLinks(S) /\ AreLinks(T) /\ IsLink(x)
  BY PartsAreLinks DEF AreLinks, Follows
<1>0. Keyable(T)
  BY DEF AreLinks
<1>2. /\ Cardinality(T) = n + 1
      /\ \A i \in 1..n : InOrder(T)[i] = InOrder(S)[i]
      /\ InOrder(T)[n + 1] = x
  BY <1>0, InOrderAppend
<1>. HIDE DEF n
<1>3. /\ n \in Nat /\ Kids(S) \in Seq(Headers) /\ Len(Kids(S)) = n
      /\ \A i \in 1..n : Kids(S)[i] = ChildOf(InOrder(S)[i])
  BY <1>1, KidsType DEF n
<1>4. /\ Kids(T) \in Seq(Headers) /\ Len(Kids(T)) = n + 1
      /\ \A i \in 1..(n + 1) : Kids(T)[i] = ChildOf(InOrder(T)[i])
  BY <1>1, <1>2, KidsType
<1>5. ChildOf(x) \in Headers
  BY <1>1, HashesOfLink
<1>. DEFINE more == Append(Kids(S), ChildOf(x))
<1>6. /\ more \in Seq(Headers) /\ Len(more) = n + 1
      /\ \A i \in 1..n : more[i] = Kids(S)[i]
      /\ more[n + 1] = ChildOf(x)
  BY <1>3, <1>5
<1>. HIDE DEF more
<1>7. ASSUME NEW i \in 1..(n + 1)
      PROVE  Kids(T)[i] = more[i]
  <2>1. CASE i = n + 1
    BY <1>2, <1>4, <1>6, <2>1
  <2>2. CASE i \in 1..n
    BY <1>2, <1>3, <1>4, <1>6, <2>2
  <2>. QED  BY <1>3, <2>1, <2>2
<1>8. Kids(T) = more
  BY <1>4, <1>6, <1>7, SameSequence
<1>. QED  BY <1>8 DEF more

LEMMA KidsOfNone == Kids({}) = <<>>
<1>1. AreLinks({})
  BY FS_EmptySet DEF AreLinks, Keyable
<1>2. Cardinality({}) = 0
  BY FS_EmptySet
<1>3. Kids({}) \in Seq(Headers) /\ Len(Kids({})) = 0
  BY <1>1, <1>2, KidsType
<1>. QED  BY <1>3

GroupType == [parent : Headers, children : Seq(Headers)]

\* The groups of a set of links: one for each parent, with its children.
GroupsOf(G, S) ==
    /\ G \in Seq(GroupType)
    /\ \A i \in 1..Len(G) :
          /\ Of(S, G[i].parent) # {}
          /\ G[i].children = Kids(Of(S, G[i].parent))
    /\ \A e \in S : \E i \in 1..Len(G) : G[i].parent = ParentOf(e)
    /\ \A i, j \in 1..Len(G) : G[i].parent = G[j].parent => i = j

\* What the loop makes of the entry that follows.
NextGroups(acc, x) ==
    IF acc.parent = ParentOf(x)
    THEN Append(acc.groups, [parent |-> acc.parent,
                             children |-> Append(acc.children, ChildOf(x))])
    ELSE Append(Closed(acc), [parent |-> ParentOf(x),
                              children |-> Append(<<>>, ChildOf(x))])

LEMMA LinkOfParent ==
    ASSUME NEW x, IsLink(x), NEW h \in Headers
    PROVE  x.key[2] = HashRank[h] <=> ParentOf(x) = h
BY HashesOfLink, HashAssumption

\* The links of a parent, when one link is added.
LEMMA OfFollows ==
    ASSUME NEW S, NEW x, NEW T, Follows(S, x, T), AreLinks(T), NEW h \in Headers
    PROVE  /\ h # ParentOf(x) => Of(T, h) = Of(S, h)
           /\ h = ParentOf(x) => Follows(Of(S, h), x, Of(T, h))
           /\ AreLinks(Of(T, h))
<1>1. T = S \cup {x} /\ \A e \in S : Before(e.key, x.key)
  BY DEF Follows
<1>2. IsLink(x)
  BY <1>1 DEF AreLinks
<1>3. x.key[2] = HashRank[h] <=> ParentOf(x) = h
  BY <1>2, LinkOfParent
<1>4. h # ParentOf(x) => Of(T, h) = Of(S, h)
  BY <1>1, <1>3 DEF Of
<1>5. h = ParentOf(x) => Of(T, h) = Of(S, h) \cup {x}
  BY <1>1, <1>3 DEF Of
<1>6. \A e \in Of(S, h) : Before(e.key, x.key)
  BY <1>1 DEF Of
<1>7. Of(T, h) \in SUBSET T
  BY DEF Of
<1>. QED  BY <1>4, <1>5, <1>6, <1>7, PartsAreLinks DEF Follows

LEMMA NextLinkGroups ==
    ASSUME NEW acc, acc.parent = NoHash => acc = NoGroup, NEW x, IsLink(x)
    PROVE  /\ Closed(NextLink(acc, x)) = NextGroups(acc, x)
           /\ NextLink(acc, x).parent = ParentOf(x)
           /\ NextLink(acc, x).groups
                 = IF acc.parent = ParentOf(x) THEN acc.groups ELSE Closed(acc)
           /\ NextLink(acc, x).children
                 = IF acc.parent = ParentOf(x) THEN Append(acc.children, ChildOf(x))
                   ELSE Append(<<>>, ChildOf(x))
<1>1. ParentOf(x) \in Headers /\ ParentOf(x) # NoHash
  BY HashesOfLink, HeaderAssumption
<1>. DEFINE closes == acc.parent \notin {ParentOf(x), NoHash}
            next == NextLink(acc, x)
<1>2. /\ next.parent = ParentOf(x)
      /\ next.groups = IF closes THEN Append(acc.groups, Group(acc)) ELSE acc.groups
      /\ next.children = Append(IF closes THEN <<>> ELSE acc.children, ChildOf(x))
  BY DEF NextLink, ParentOf, ChildOf
<1>. HIDE DEF next
<1>3. next.parent # NoHash
  BY <1>1, <1>2
<1>4. Closed(next) = Append(next.groups, [parent |-> next.parent,
                                          children |-> next.children])
  BY <1>3, Zenon DEF Closed, Group
<1>5. CASE acc.parent = ParentOf(x)
  <2>1. next.groups = acc.groups /\ next.children = Append(acc.children, ChildOf(x))
    BY <1>2, <1>5
  <2>2. NextGroups(acc, x)
          = Append(acc.groups, [parent |-> acc.parent,
                                children |-> Append(acc.children, ChildOf(x))])
    BY <1>5 DEF NextGroups
  <2>3. Closed(next) = NextGroups(acc, x)
    BY <1>2, <1>4, <1>5, <2>1, <2>2
  <2>. QED  BY <1>2, <1>5, <2>1, <2>3 DEF next
<1>6. CASE acc.parent # ParentOf(x)
  <2>1. next.groups = Closed(acc) /\ next.children = Append(<<>>, ChildOf(x))
    <3>1. CASE acc.parent = NoHash
      <4>1. acc.groups = <<>> /\ acc.children = <<>> /\ Closed(acc) = acc.groups
        BY <3>1 DEF NoGroup, Closed
      <4>2. ~closes
        BY <3>1
      <4>. QED  BY <1>2, <4>1, <4>2
    <3>2. CASE acc.parent # NoHash
      <4>1. Closed(acc) = Append(acc.groups, Group(acc)) /\ closes
        BY <1>6, <3>2 DEF Closed
      <4>. QED  BY <1>2, <4>1
    <3>. QED  BY <3>1, <3>2
  <2>2. NextGroups(acc, x)
          = Append(Closed(acc), [parent |-> ParentOf(x),
                                 children |-> Append(<<>>, ChildOf(x))])
    BY <1>6 DEF NextGroups
  <2>3. Closed(next) = NextGroups(acc, x)
    BY <1>2, <1>4, <2>1, <2>2
  <2>. QED  BY <1>2, <1>6, <2>1, <2>3 DEF next
<1>. QED  BY <1>5, <1>6 DEF next

\* The loop's state once it has read the links of S, in order.
PassInv(acc, S) ==
    /\ acc.groups \in Seq(GroupType) /\ acc.children \in Seq(Headers)
    /\ acc.parent \in Headers \cup {NoHash}
    /\ GroupsOf(Closed(acc), S)
    /\ acc.parent = NoHash => acc = NoGroup /\ S = {}
    /\ acc.parent # NoHash =>
          /\ Of(S, acc.parent) # {}
          /\ \A e \in S : e.key[2] <= HashRank[acc.parent]

\* A parent that comes for the first time opens a group.
LEMMA GroupOpens ==
    ASSUME NEW S, NEW x, NEW T, Follows(S, x, T), AreLinks(T),
           NEW G, GroupsOf(G, S), Of(S, ParentOf(x)) = {}
    PROVE  GroupsOf(Append(G, [parent |-> ParentOf(x),
                               children |-> Append(<<>>, ChildOf(x))]), T)
<1>. DEFINE p == ParentOf(x)
            new == [parent |-> p, children |-> Append(<<>>, ChildOf(x))]
            n == Len(G)
            H == Append(G, new)
<1>1. T = S \cup {x} /\ IsLink(x)
  BY DEF Follows, AreLinks
<1>2. p \in Headers /\ ChildOf(x) \in Headers
  BY <1>1, HashesOfLink
<1>3. new \in GroupType /\ new.parent = p
  BY <1>2 DEF GroupType
<1>4. new.children = Kids(Of(T, p))
  <2>1. Follows({}, x, Of(T, p)) /\ AreLinks(Of(T, p))
    BY <1>2, OfFollows
  <2>2. Kids(Of(T, p)) = Append(Kids({}), ChildOf(x))
    BY <2>1, KidsAppend
  <2>. QED  BY <2>2, KidsOfNone
<1>5. G \in Seq(GroupType) /\ n \in Nat
  BY DEF GroupsOf
<1>. HIDE DEF new, n, p
<1>6. /\ H \in Seq(GroupType) /\ Len(H) = n + 1 /\ H[n + 1] = new
      /\ \A i \in 1..n : H[i] = G[i]
  BY <1>3, <1>5 DEF n
<1>. HIDE DEF H
<1>7. ASSUME NEW i \in 1..n
      PROVE  /\ H[i].parent \in Headers /\ H[i].parent # p
             /\ Of(T, H[i].parent) # {}
             /\ H[i].children = Kids(Of(T, H[i].parent))
  <2>1. H[i] = G[i] /\ G[i] \in GroupType
    BY <1>5, <1>6 DEF n
  <2>2. H[i].parent \in Headers
    BY <2>1 DEF GroupType
  <2>3. Of(S, H[i].parent) # {} /\ H[i].children = Kids(Of(S, H[i].parent))
    BY <2>1 DEF GroupsOf, n
  <2>4. H[i].parent # p
    BY <2>3 DEF p
  <2>5. Of(T, H[i].parent) = Of(S, H[i].parent)
    BY <2>2, <2>4, OfFollows DEF p
  <2>. QED  BY <2>2, <2>3, <2>4, <2>5
<1>8. ASSUME NEW i \in 1..(n + 1)
      PROVE  Of(T, H[i].parent) # {} /\ H[i].children = Kids(Of(T, H[i].parent))
  <2>1. CASE i \in 1..n
    BY <1>7, <2>1
  <2>2. CASE i = n + 1
    <3>1. H[i] = new
      BY <1>6, <2>2
    <3>2. x \in T /\ x.key[2] = HashRank[p]
      BY <1>1, HashesOfLink DEF p
    <3>3. Of(T, p) # {}
      BY <3>2 DEF Of
    <3>. QED  BY <1>3, <1>4, <3>1, <3>3
  <2>. QED  BY <1>5, <2>1, <2>2
<1>9. ASSUME NEW e \in T
      PROVE  \E i \in 1..(n + 1) : H[i].parent = ParentOf(e)
  <2>1. CASE e = x
    <3>1. H[n + 1].parent = p /\ n + 1 \in 1..(n + 1)
      BY <1>3, <1>5, <1>6
    <3>. QED  BY <2>1, <3>1 DEF p
  <2>2. CASE e \in S
    <3>1. PICK i \in 1..n : G[i].parent = ParentOf(e)
      BY <2>2 DEF GroupsOf, n
    <3>2. i \in 1..(n + 1) /\ H[i].parent = ParentOf(e)
      BY <1>5, <1>6, <3>1
    <3>. QED  BY <3>2
  <2>. QED  BY <1>1, <2>1, <2>2
<1>10. ASSUME NEW i \in 1..(n + 1), NEW j \in 1..(n + 1), H[i].parent = H[j].parent
       PROVE  i = j
  <2>1. H[n + 1].parent = p
    BY <1>3, <1>6
  <2>2. i \in 1..n \/ i = n + 1
    BY <1>5
  <2>3. j \in 1..n \/ j = n + 1
    BY <1>5
  <2>4. CASE i \in 1..n /\ j \in 1..n
    <3>1. H[i] = G[i] /\ H[j] = G[j]
      BY <1>6, <2>4
    <3>2. \A k, l \in 1..n : G[k].parent = G[l].parent => k = l
      BY DEF GroupsOf, n
    <3>. QED  BY <1>10, <2>4, <3>1, <3>2
  <2>. QED  BY <1>7, <1>10, <2>1, <2>2, <2>3, <2>4
<1>11. GroupsOf(H, T)
  BY <1>6, <1>8, <1>9, <1>10 DEF GroupsOf
<1>. QED  BY <1>11 DEF H, new, p

\* One that comes again adds a child to its group, the last.
LEMMA GroupGrows ==
    ASSUME NEW S, NEW x, NEW T, Follows(S, x, T), AreLinks(T),
           NEW G \in Seq(GroupType), NEW c \in Seq(Headers),
           GroupsOf(Append(G, [parent |-> ParentOf(x), children |-> c]), S)
    PROVE  GroupsOf(Append(G, [parent |-> ParentOf(x),
                               children |-> Append(c, ChildOf(x))]), T)
<1>. DEFINE p == ParentOf(x)
            old == [parent |-> p, children |-> c]
            new == [parent |-> p, children |-> Append(c, ChildOf(x))]
            n == Len(G)
            F == Append(G, old)
            H == Append(G, new)
<1>1. T = S \cup {x} /\ IsLink(x)
  BY DEF Follows, AreLinks
<1>2. p \in Headers /\ ChildOf(x) \in Headers
  BY <1>1, HashesOfLink
<1>3. /\ old \in GroupType /\ old.parent = p /\ old.children = c
      /\ new \in GroupType /\ new.parent = p /\ new.children = Append(c, ChildOf(x))
  BY <1>2 DEF GroupType
<1>4. n \in Nat /\ GroupsOf(F, S)
  OBVIOUS
<1>. HIDE DEF old, new, n, p
<1>5. /\ F \in Seq(GroupType) /\ Len(F) = n + 1 /\ F[n + 1] = old
      /\ \A i \in 1..n : F[i] = G[i]
  BY <1>3, <1>4 DEF n
<1>6. /\ H \in Seq(GroupType) /\ Len(H) = n + 1 /\ H[n + 1] = new
      /\ \A i \in 1..n : H[i] = G[i]
  BY <1>3, <1>4 DEF n
<1>. HIDE DEF F, H
<1>7. n + 1 \in 1..(n + 1) /\ \A i \in 1..n : i \in 1..(n + 1) /\ i # n + 1
  BY <1>4
<1>8. /\ \A i \in 1..(n + 1) :
            /\ Of(S, F[i].parent) # {}
            /\ F[i].children = Kids(Of(S, F[i].parent))
      /\ \A e \in S : \E i \in 1..(n + 1) : F[i].parent = ParentOf(e)
      /\ \A i, j \in 1..(n + 1) : F[i].parent = F[j].parent => i = j
  BY <1>4, <1>5 DEF GroupsOf
<1>9. \A i \in 1..(n + 1) : H[i].parent = F[i].parent
  <2>1. ASSUME NEW i \in 1..(n + 1)
        PROVE  i \in 1..n \/ i = n + 1
    BY <1>4
  <2>. QED  BY <1>3, <1>5, <1>6, <2>1
<1>10. ASSUME NEW i \in 1..(n + 1)
       PROVE  Of(T, H[i].parent) # {} /\ H[i].children = Kids(Of(T, H[i].parent))
  <2>1. CASE i # n + 1
    <3>1. i \in 1..n
      BY <1>4, <2>1
    <3>2. H[i] = F[i] /\ H[i] \in GroupType
      BY <1>5, <1>6, <1>7, <3>1
    <3>3. H[i].parent \in Headers /\ H[i].parent # p
      <4>1. H[i].parent \in Headers
        BY <3>2 DEF GroupType
      <4>2. F[n + 1].parent = p
        BY <1>3, <1>5
      <4>. QED  BY <1>7, <1>8, <2>1, <3>2, <4>1, <4>2
    <3>4. Of(T, H[i].parent) = Of(S, H[i].parent)
      BY <3>3, OfFollows DEF p
    <3>. QED  BY <1>8, <3>2, <3>4
  <2>2. CASE i = n + 1
    <3>1. H[i].parent = p /\ H[i].children = Append(c, ChildOf(x))
      BY <1>3, <1>6, <2>2
    <3>2. c = Kids(Of(S, p))
      BY <1>3, <1>5, <1>7, <1>8
    <3>3. Follows(Of(S, p), x, Of(T, p)) /\ AreLinks(Of(T, p))
      BY <1>2, OfFollows DEF p
    <3>4. Kids(Of(T, p)) = Append(c, ChildOf(x))
      BY <3>2, <3>3, KidsAppend
    <3>5. Of(T, p) # {}
      BY <3>3 DEF Follows
    <3>. QED  BY <3>1, <3>4, <3>5
  <2>. QED  BY <2>1, <2>2
<1>11. ASSUME NEW e \in T
       PROVE  \E i \in 1..(n + 1) : H[i].parent = ParentOf(e)
  <2>1. CASE e = x
    <3>1. H[n + 1].parent = p
      BY <1>3, <1>6
    <3>. QED  BY <1>7, <2>1, <3>1 DEF p
  <2>2. CASE e \in S
    BY <1>8, <1>9, <2>2
  <2>. QED  BY <1>1, <2>1, <2>2
<1>12. \A i, j \in 1..(n + 1) : H[i].parent = H[j].parent => i = j
  BY <1>8, <1>9
<1>13. GroupsOf(H, T)
  BY <1>6, <1>10, <1>11, <1>12 DEF GroupsOf
<1>. QED  BY <1>13 DEF H, new, p

LEMMA PassStep ==
    ASSUME NEW S, NEW x, NEW T, Follows(S, x, T), AreLinks(T), NEW acc, PassInv(acc, S)
    PROVE  PassInv(NextLink(acc, x), T)
<1>. DEFINE next == NextLink(acc, x)
            p == ParentOf(x)
<1>1. T = S \cup {x} /\ IsLink(x) /\ \A e \in S : Before(e.key, x.key)
  BY DEF Follows, AreLinks
<1>2. p \in Headers /\ ChildOf(x) \in Headers /\ x.key[2] = HashRank[p] /\ p # NoHash
  BY <1>1, HashesOfLink, HeaderAssumption
<1>3. /\ acc.groups \in Seq(GroupType) /\ acc.children \in Seq(Headers)
      /\ acc.parent \in Headers \cup {NoHash}
      /\ Closed(acc) \in Seq(GroupType) /\ GroupsOf(Closed(acc), S)
      /\ acc.parent = NoHash => acc = NoGroup
  BY DEF PassInv, GroupsOf
<1>4. /\ Closed(next) = NextGroups(acc, x) /\ next.parent = p
      /\ next.groups = IF acc.parent = p THEN acc.groups ELSE Closed(acc)
      /\ next.children = IF acc.parent = p THEN Append(acc.children, ChildOf(x))
                         ELSE Append(<<>>, ChildOf(x))
  BY <1>1, <1>3, NextLinkGroups
<1>. HIDE DEF next
<1>5. next.groups \in Seq(GroupType)
  BY <1>3, <1>4
<1>6. next.children \in Seq(Headers)
  <2>1. /\ Append(acc.children, ChildOf(x)) \in Seq(Headers)
        /\ Append(<<>>, ChildOf(x)) \in Seq(Headers)
    BY <1>2, <1>3
  <2>. QED  BY <1>4, <2>1
<1>7. ASSUME NEW e \in S
      PROVE  e.key[2] \in Nat /\ x.key[2] \in Nat /\ e.key[2] <= x.key[2]
  <2>1. e.key \in Keys /\ x.key \in Keys /\ e.key[1] = 5 /\ x.key[1] = 5
    BY <1>1 DEF AreLinks, Keyable, IsLink
  <2>2. Before(e.key, x.key)
    BY <1>1
  <2>. QED  BY <2>1, <2>2 DEF Keys, Before
<1>8. /\ Of(T, p) # {}
      /\ \A e \in T : e.key[2] <= HashRank[p]
  <2>1. x \in Of(T, p)
    BY <1>1, <1>2 DEF Of
  <2>2. HashRank[p] \in Nat
    BY <1>2, HashOfRank
  <2>. QED  BY <1>1, <1>2, <1>7, <2>1, <2>2
<1>9. GroupsOf(Closed(next), T)
  <2>1. CASE acc.parent = p
    <3>1. Closed(acc) = Append(acc.groups, [parent |-> p, children |-> acc.children])
      BY <1>2, <2>1 DEF Closed, Group
    <3>2. GroupsOf(Append(acc.groups, [parent |-> p,
                              children |-> Append(acc.children, ChildOf(x))]), T)
      BY <1>3, <3>1, GroupGrows
    <3>. QED  BY <1>4, <2>1, <3>2 DEF NextGroups
  <2>2. CASE acc.parent # p
    <3>1. Of(S, p) = {}
      <4>1. CASE acc.parent = NoHash
        BY <4>1 DEF PassInv, Of
      <4>2. CASE acc.parent # NoHash
        <5>1. PICK f \in S : f.key[2] = HashRank[acc.parent]
          BY <4>2 DEF PassInv, Of
        <5>2. acc.parent \in Headers
          BY <1>3, <4>2
        <5>3. HashRank[acc.parent] # HashRank[p] /\ HashRank[acc.parent] <= HashRank[p]
          BY <1>2, <1>7, <2>2, <5>1, <5>2, HashAssumption
        <5>4. \A e \in S : e.key[2] <= HashRank[acc.parent]
          BY <4>2 DEF PassInv
        <5>5. HashRank[acc.parent] \in Nat /\ HashRank[p] \in Nat
          BY <1>2, <5>2, HashOfRank
        <5>6. ASSUME NEW e \in S PROVE e.key[2] # HashRank[p]
          BY <1>7, <5>3, <5>4, <5>5
        <5>. QED  BY <5>6 DEF Of
      <4>. QED  BY <4>1, <4>2
    <3>2. GroupsOf(Append(Closed(acc), [parent |-> p,
                              children |-> Append(<<>>, ChildOf(x))]), T)
      BY <1>3, <3>1, GroupOpens
    <3>. QED  BY <1>4, <2>2, <3>2 DEF NextGroups
  <2>. QED  BY <2>1, <2>2
<1>. HIDE DEF p
<1>10. PassInv(next, T)
  BY <1>2, <1>4, <1>5, <1>6, <1>8, <1>9 DEF PassInv
<1>. QED  BY <1>10 DEF next

\* What the first n steps of an iterator give.
FirstOf(it, n) == {it[i] : i \in 1..n}

LEMMA FirstFollow ==
    ASSUME NEW S, AreLinks(S), NEW n \in 1..Cardinality(S)
    PROVE  /\ Follows(FirstOf(InOrder(S), n - 1), InOrder(S)[n], FirstOf(InOrder(S), n))
           /\ AreLinks(FirstOf(InOrder(S), n))
<1>. DEFINE it == InOrder(S)
            m == Cardinality(S)
<1>1. /\ m \in Nat
      /\ \A i \in 1..m : it[i] \in S /\ Cardinality(Below(S, it[i])) = i - 1
  BY InOrderRanks DEF AreLinks
<1>2. \A i, j \in 1..m : i < j => ~Before(it[j].key, it[i].key)
  BY InOrderSorts DEF AreLinks
<1>. HIDE DEF it, m
<1>3. n \in 1..m /\ 1..n = 1..(n - 1) \cup {n}
  BY <1>1 DEF m
<1>4. FirstOf(it, n) = FirstOf(it, n - 1) \cup {it[n]}
  BY <1>3 DEF FirstOf
<1>5. ASSUME NEW i \in 1..(n - 1)
      PROVE  Before(it[i].key, it[n].key)
  <2>1. i \in 1..m /\ i < n
    BY <1>1, <1>3
  <2>2. it[i].key \in Keys /\ it[n].key \in Keys
    BY <1>1, <1>3, <2>1 DEF AreLinks, Keyable
  <2>3. it[i].key # it[n].key
    <3>1. it[i] # it[n]
      BY <1>1, <1>3, <2>1
    <3>. QED  BY <1>1, <1>3, <2>1, <3>1 DEF AreLinks, Keyable
  <2>. QED  BY <1>2, <1>3, <2>1, <2>2, <2>3, BeforeOrders
<1>6. FirstOf(it, n) \in SUBSET S
  BY <1>1, <1>3 DEF FirstOf
<1>7. \A e \in FirstOf(it, n - 1) : Before(e.key, it[n].key)
  BY <1>5 DEF FirstOf
<1>8. AreLinks(FirstOf(it, n))
  BY <1>6, PartsAreLinks
<1>. QED  BY <1>4, <1>7, <1>8 DEF Follows, it

\* The loop as a whole.
LEMMA PassGroups ==
    ASSUME NEW S, AreLinks(S)
    PROVE  GroupsOf(Closed(Pass(InOrder(S))), S)
<1>. DEFINE it == InOrder(S)
            m == Cardinality(S)
<1>1. m \in Nat /\ Len(it) = m /\ FirstOf(it, m) = S
  <2>1. /\ m \in Nat /\ Len(it) = m /\ ToSet(it) = S
        /\ DOMAIN it = 1..m
    BY InOrderReads, InOrderRanks DEF AreLinks
  <2>. QED  BY <2>1 DEF FirstOf, ToSet
<1>2. PICK acc : IsPass(acc, it, m) /\ Pass(it) = acc[m]
  BY <1>1, PassUnfolds
<1>3. acc[0] = NoGroup /\ \A n \in 1..m : acc[n] = NextLink(acc[n - 1], it[n])
  BY <1>1, <1>2 DEF IsPass
<1>4. PassInv(acc[0], FirstOf(it, 0))
  <2>1. FirstOf(it, 0) = {}
    BY DEF FirstOf
  <2>2. Closed(NoGroup) = <<>>
    BY DEF NoGroup, Closed
  <2>3. GroupsOf(<<>>, {})
    BY DEF GroupsOf
  <2>4. /\ NoGroup.groups \in Seq(GroupType) /\ NoGroup.children \in Seq(Headers)
        /\ NoGroup.parent = NoHash
    BY DEF NoGroup
  <2>. QED  BY <1>3, <2>1, <2>2, <2>3, <2>4 DEF PassInv
<1>5. ASSUME NEW n \in 1..m, PassInv(acc[n - 1], FirstOf(it, n - 1))
      PROVE  PassInv(acc[n], FirstOf(it, n))
  <2>1. /\ Follows(FirstOf(it, n - 1), it[n], FirstOf(it, n))
        /\ AreLinks(FirstOf(it, n))
    BY FirstFollow
  <2>. QED  BY <1>3, <1>5, <2>1, PassStep
<1>. HIDE DEF it, m
<1>. DEFINE Bad == {n \in 0..m : ~PassInv(acc[n], FirstOf(it, n))}
<1>6. Bad = {}
  <2>1. SUFFICES ASSUME Bad # {} PROVE FALSE
    OBVIOUS
  <2>2. Bad \in SUBSET Nat
    BY <1>1
  <2>3. PICK n \in Bad : \A k \in Bad : n <= k
    BY <2>1, <2>2, FirstSlot
  <2>4. CASE n = 0
    BY <1>4, <2>3, <2>4
  <2>5. CASE n # 0
    <3>1. n \in 1..m /\ n - 1 \in 0..m /\ ~(n <= n - 1)
      BY <1>1, <2>3, <2>5
    <3>2. PassInv(acc[n - 1], FirstOf(it, n - 1))
      BY <2>3, <3>1
    <3>3. PassInv(acc[n], FirstOf(it, n))
      BY <1>5, <3>1, <3>2
    <3>. QED  BY <2>3, <3>3
  <2>. QED  BY <2>4, <2>5
<1>7. PassInv(acc[m], FirstOf(it, m))
  BY <1>1, <1>6
<1>. QED  BY <1>1, <1>2, <1>7 DEF PassInv, it

\* The links of the database, and those of one parent.
LEMMA LinksOfDatabase ==
    ASSUME IInv, TablesFinite
    PROVE  /\ AreLinks(LinkTable)
           /\ LoadParentsChildren(Database) = Closed(Pass(InOrder(LinkTable)))
           /\ \A h \in Headers :
                 ChildrenScan(Database, h) = Kids(Of(LinkTable, h))
<1>1. PrefixRank["child"] = 5
  BY DEF PrefixRank
<1>2. LinkTable \in SUBSET Database
  BY DatabaseTables
<1>3. AreLinks(LinkTable)
  <2>1. Keyable(LinkTable)
    BY <1>2, DatabaseKeyable, PartKeyable
  <2>2. \A e \in LinkTable : IsLink(e)
    BY LinkRows DEF IsLink
  <2>. QED  BY <2>1, <2>2 DEF AreLinks
<1>4. \A e \in Database : e.key[1] = 5 <=> e \in LinkTable
  BY <1>2, TableOfKey, LinkRows
<1>5. {e \in Database : \A i \in 1..1 : e.key[i] = Key("child", 0, 0)[i]} = LinkTable
  BY <1>1, <1>2, <1>4 DEF Key
<1>6. ASSUME NEW h \in Headers
      PROVE  ChildrenScan(Database, h) = Kids(Of(LinkTable, h))
  <2>. DEFINE k == Key("child", HashRank[h], 0)
  <2>1. k[1] = 5 /\ k[2] = HashRank[h]
    BY <1>1 DEF Key
  <2>. HIDE DEF k
  <2>2. \A e : (\A i \in 1..2 : e.key[i] = k[i]) <=> e.key[1] = 5 /\ e.key[2] = HashRank[h]
    BY <2>1
  <2>3. {e \in Database : \A i \in 1..2 : e.key[i] = k[i]} = Of(LinkTable, h)
    BY <1>2, <1>4, <2>2 DEF Of
  <2>4. Ranged(Database, k, 2) = InOrder(Of(LinkTable, h))
    BY <2>3 DEF Ranged
  <2>. QED  BY <2>4, Zenon DEF ChildrenScan, Kids, ChildOf, k
<1>. QED  BY <1>3, <1>5, <1>6 DEF LoadParentsChildren, Ranged

LEMMA GroupsMatch ==
    ASSUME IInv, TablesFinite
    PROVE  GroupsMatchLinks
<1>. DEFINE groups == LoadParentsChildren(Database)
<1>1. AreLinks(LinkTable) /\ GroupsOf(groups, LinkTable)
  BY LinksOfDatabase, PassGroups
<1>. HIDE DEF groups
<1>2. /\ groups \in Seq(GroupType) /\ DOMAIN groups = 1..Len(groups)
      /\ \A i \in DOMAIN groups : groups[i].parent \in Headers
  <2>1. groups \in Seq(GroupType)
    BY <1>1 DEF GroupsOf
  <2>2. DOMAIN groups = 1..Len(groups) /\ \A i \in DOMAIN groups : groups[i] \in GroupType
    BY <2>1
  <2>3. \A t \in GroupType : t.parent \in Headers
    BY DEF GroupType
  <2>. QED  BY <2>1, <2>2, <2>3
<1>3. ASSUME NEW e \in LinkTable
      PROVE  <<ParentOf(e), ChildOf(e)>> \in children
  <2>1. PICK l \in children : /\ l = <<l[1], l[2]>> /\ l[1] \in Headers /\ l[2] \in Headers
                              /\ e.key[2] = HashRank[l[1]] /\ e.key[3] = HashRank[l[2]]
    BY LinkRows
  <2>2. ParentOf(e) = l[1] /\ ChildOf(e) = l[2]
    BY <2>1, HashOfRank DEF ParentOf, ChildOf
  <2>. QED  BY <2>1, <2>2
<1>4. ASSUME NEW l \in children
      PROVE  /\ l = <<l[1], l[2]>> /\ l[1] \in Headers /\ l[2] \in Headers
             /\ LinkEntry(l) \in LinkTable
             /\ ParentOf(LinkEntry(l)) = l[1] /\ ChildOf(LinkEntry(l)) = l[2]
  <2>1. l \in Headers \X Headers
    BY DEF IInv, TypeOK
  <2>2. l = <<l[1], l[2]>> /\ l[1] \in Headers /\ l[2] \in Headers
    BY <2>1
  <2>3. LinkEntry(l).key[2] = HashRank[l[1]] /\ LinkEntry(l).key[3] = HashRank[l[2]]
    BY DEF LinkEntry, Entry
  <2>4. LinkEntry(l) \in LinkTable
    BY DEF LinkTable
  <2>. QED  BY <2>2, <2>3, <2>4, HashOfRank DEF ParentOf, ChildOf
<1>5. ASSUME NEW h \in Headers
      PROVE  /\ Of(LinkTable, h) = {e \in LinkTable : ParentOf(e) = h}
             /\ AreLinks(Of(LinkTable, h))
  <2>1. \A e \in LinkTable : e.key[2] = HashRank[h] <=> ParentOf(e) = h
    BY <1>1, LinkOfParent DEF AreLinks
  <2>2. Of(LinkTable, h) = {e \in LinkTable : ParentOf(e) = h}
    BY <2>1 DEF Of
  <2>3. Of(LinkTable, h) \in SUBSET LinkTable
    BY DEF Of
  <2>. QED  BY <1>1, <2>2, <2>3, PartsAreLinks
<1>6. {groups[i].parent : i \in DOMAIN groups} = {l[1] : l \in children}
  <2>1. ASSUME NEW i \in DOMAIN groups
        PROVE  \E l \in children : l[1] = groups[i].parent
    <3>1. PICK e \in LinkTable : ParentOf(e) = groups[i].parent
      BY <1>1, <1>2, <1>5 DEF GroupsOf
    <3>2. <<ParentOf(e), ChildOf(e)>> \in children
      BY <1>3
    <3>. QED  BY <3>1, <3>2
  <2>2. ASSUME NEW l \in children
        PROVE  \E i \in DOMAIN groups : groups[i].parent = l[1]
    BY <1>1, <1>2, <1>4 DEF GroupsOf
  <2>. QED  BY <2>1, <2>2
<1>7. \A i, j \in DOMAIN groups : groups[i].parent = groups[j].parent => i = j
  BY <1>1, <1>2 DEF GroupsOf
<1>8. ASSUME NEW i \in DOMAIN groups
      PROVE  /\ groups[i].children = ChildrenScan(Database, groups[i].parent)
             /\ ToSet(groups[i].children) = GetChildren(groups[i].parent)
  <2>. DEFINE h == groups[i].parent
              S == Of(LinkTable, h)
  <2>1. h \in Headers /\ groups[i].children = Kids(S)
    BY <1>1, <1>2 DEF GroupsOf
  <2>. HIDE DEF h
  <2>2. groups[i].children = ChildrenScan(Database, h)
    BY <2>1, LinksOfDatabase
  <2>3. AreLinks(S) /\ S = {e \in LinkTable : ParentOf(e) = h}
    BY <1>5, <2>1
  <2>. HIDE DEF S
  <2>4. ToSet(Kids(S)) = {ChildOf(e) : e \in S}
    <3>1. ToSet(InOrder(S)) = S
      BY <2>3, InOrderReads DEF AreLinks
    <3>2. DOMAIN Kids(S) = DOMAIN InOrder(S)
          /\ \A k \in DOMAIN InOrder(S) : Kids(S)[k] = ChildOf(InOrder(S)[k])
      BY DEF Kids
    <3>. QED  BY <3>1, <3>2 DEF ToSet
  <2>5. {ChildOf(e) : e \in S} = GetChildren(h)
    <3>1. ASSUME NEW e \in S
          PROVE  ChildOf(e) \in GetChildren(h)
      <4>1. <<ParentOf(e), ChildOf(e)>> \in children /\ ParentOf(e) = h
        BY <1>3, <2>3
      <4>2. ChildOf(e) \in Headers
        BY <2>3, HashesOfLink DEF AreLinks
      <4>. QED  BY <4>1, <4>2 DEF GetChildren
    <3>2. ASSUME NEW c \in GetChildren(h)
          PROVE  \E e \in S : ChildOf(e) = c
      <4>1. <<h, c>> \in children
        BY DEF GetChildren
      <4>2. /\ LinkEntry(<<h, c>>) \in LinkTable /\ ParentOf(LinkEntry(<<h, c>>)) = h
            /\ ChildOf(LinkEntry(<<h, c>>)) = c
        BY <1>4, <4>1
      <4>. QED  BY <2>3, <4>2
    <3>. QED  BY <3>1, <3>2
  <2>. QED  BY <2>1, <2>2, <2>4, <2>5 DEF h
<1>. QED  BY <1>6, <1>7, <1>8 DEF GroupsMatchLinks, groups

\* However the hashes fall in the order of keys, load_parents_children gives
\* every parent once, with all its children.
THEOREM GroupsMatchChildren == Spec => []GroupsMatchLinks
BY GroupsMatch, Invariance, FiniteTables, PTL

-----------------------------------------------------------------------------
(* The store driven as its callers drive it.                               *)

\* Every chain point is a header, stored at its own slot.
Keyed ==
    \A s \in Slots :
        chain[s] # NoHash => chain[s] \in Headers /\ Slot[chain[s]] = s

SInv == IInv /\ Keyed

-----------------------------------------------------------------------------

\* The discipline only restricts the calls.
LEMMA SelectionIsNext == SelectionNext => Next
BY DEF SelectionNext, Next, Points

LEMMA SelectionKeyed == SInv /\ [SelectionNext]_vars => SInv'
<1> SUFFICES ASSUME SInv, [SelectionNext]_vars
             PROVE  SInv'
    OBVIOUS
<1>1. IInv'
  BY NextInv, SelectionIsNext DEF SInv
<1>2. Keyed'
  <2>1. ASSUME NEW h \in Headers, RollForwardChain(h)
        PROVE  Keyed'
    BY <2>1, SlotType DEF RollForwardChain, SInv, IInv, TypeOK, Keyed
  <2>2. CASE RollbackCommit
    BY <2>2 DEF RollbackCommit, SInv, Keyed
  <2>3. CASE UNCHANGED chain
    BY <2>3 DEF SInv, Keyed
  <2>4. \/ \E h \in Headers : RollForwardChain(h)
        \/ RollbackCommit
        \/ UNCHANGED chain
    BY DEF SelectionNext, Common, HeaderStep, RollbackStep, PutStep,
       PutNonces, StoreBlock, SetAnchorHash, SetBestChainHash, StoreHeader,
       StoreHeaderLink, StoreHeaderPut, StoreHeaderCommit,
       RollbackChain, RollbackRefused, RollbackDelete, Abandon, vars
  <2> QED  BY <2>1, <2>2, <2>3, <2>4
<1> QED  BY <1>1, <1>2 DEF SInv

LEMMA SelectionInvariance == SelectionSpec => []SInv
<1>1. Init => SInv
  BY InitInv DEF SInv, Keyed, Init
<1> QED  BY <1>1, SelectionKeyed, PTL DEF SelectionSpec

PathIsKeyed ==
    /\ Path \subseteq Headers
    /\ \A h \in Headers : h \in Path <=> chain[Slot[h]] = h

\* The headers on the path are those at their own slot.
LEMMA PathElements == SInv => PathIsKeyed
<1> SUFFICES ASSUME SInv
             PROVE  PathIsKeyed
    OBVIOUS
<1>1. ASSUME NEW g \in Path
      PROVE  g \in Headers /\ chain[Slot[g]] = g
  <2>1. PICK s \in Slots : chain[s] # NoHash /\ g = chain[s]
    BY <1>1 DEF Path, Occupied
  <2> QED  BY <2>1 DEF SInv, IInv, TypeOK, Keyed
<1>2. ASSUME NEW h \in Headers, chain[Slot[h]] = h
      PROVE  h \in Path
  BY <1>2, SlotType, HeaderAssumption DEF Path, Occupied
<1> QED  BY <1>1, <1>2 DEF PathIsKeyed

LEMMA PathElementsNext == SInv' => PathIsKeyed'
BY PathElements, PTL

-----------------------------------------------------------------------------

\* roll_forward_chain with a child of the tip extends the path by it.
LEMMA RollForwardExtends ==
    ASSUME SInv, SInv', NEW h \in Headers, Best!ExtendsTip(h),
           RollForwardChain(h)
    PROVE  Best!Extend(h)
<1>1. \A g \in Path : Slot[g] = Slot[h] => g = h
  <2>1. CASE Path = {}
    BY <2>1
  <2>2. CASE \E t \in Path : Best!IsTip(t) /\ Parent[h] = t
    <3>1. PICK t \in Path : Best!IsTip(t) /\ Parent[h] = t
      BY <2>2
    <3>2. t \in Headers /\ Slot[t] \in Nat /\ Slot[h] \in Nat /\ Slot[t] < Slot[h]
      BY <3>1, PathElements, SlotAssumption, HeaderAssumption DEF PathIsKeyed
    <3>3. ASSUME NEW g \in Path
          PROVE  Slot[g] \in Nat /\ Slot[g] <= Slot[t]
      BY <3>1, <3>3, PathElements, HeaderAssumption DEF PathIsKeyed, Best!IsTip
    <3> QED  BY <3>2, <3>3
  <2> QED  BY <2>1, <2>2 DEF Best!ExtendsTip
<1>2. chain' = [chain EXCEPT ![Slot[h]] = h]
  BY SlotType DEF RollForwardChain
<1>3. /\ Path' \subseteq Headers
      /\ \A g \in Headers : g \in Path' <=> chain'[Slot[g]] = g
  BY PathElementsNext DEF PathIsKeyed
<1>4. \A g \in Headers : g \in Path' <=> g \in Path \/ g = h
  BY <1>1, <1>2, <1>3, PathElements, SlotType DEF PathIsKeyed, SInv, IInv, TypeOK
<1>5. Path' = Path \cup {h}
  BY <1>3, <1>4, PathElements DEF PathIsKeyed
<1> QED  BY <1>5 DEF Best!Extend

\* A rollback's commit cuts the path back to its point.
LEMMA RollbackCutsBack ==
    ASSUME SInv, SInv', RollbackCommit
    PROVE  arg \in Headers /\ Best!CutBackTo(arg)
<1>1. arg \in Headers /\ chain[Slot[arg]] = arg /\ SlotOf(arg) = Slot[arg]
  <2>1. /\ arg \in Points /\ SlotOf(arg) \in Slots
        /\ chain[SlotOf(arg)] = arg /\ arg # NoHash
    BY HeaderAssumption, SlotType
       DEF RollbackCommit, SInv, IInv, CallOK, TypeOK, Points
  <2>. QED  BY <2>1, SlotType DEF SInv, Keyed
<1>2. chain' = [s \in Slots |-> IF s \in tx.del THEN NoHash ELSE chain[s]]
  BY DEF RollbackCommit
<1>3. ASSUME NEW g \in Path
      PROVE  Slot[g] \in tx.del <=> ~(Slot[g] <= Slot[arg])
  <2>1. /\ g \in Headers /\ Slot[g] \in Slots /\ Slot[g] \in Nat
        /\ Slot[arg] \in Nat /\ chain[Slot[g]] # NoHash
    BY <1>1, <1>3, PathElements, HeaderAssumption, SlotType DEF PathIsKeyed
  <2>2. Slot[g] \in tx.del => Slot[g] >= Slot[arg] + 1
    BY <1>1 DEF RollbackCommit, SInv, IInv, CallOK
  <2>3. Slot[g] >= Slot[arg] + 1 => Slot[g] \in tx.del
    BY <1>1, <2>1 DEF RollbackCommit, ToDelete, Occupied
  <2> QED  BY <2>1, <2>2, <2>3
<1>4. /\ Path' \subseteq Headers
      /\ \A g \in Headers : g \in Path' <=> chain'[Slot[g]] = g
  BY PathElementsNext DEF PathIsKeyed
<1>5. \A g \in Headers : g \in Path' <=> g \in Path /\ Slot[g] \notin tx.del
  BY <1>2, <1>4, PathElements, SlotType, HeaderAssumption DEF PathIsKeyed
<1>6. Path' = {g \in Path : Slot[g] <= Slot[arg]}
  BY <1>3, <1>4, <1>5, PathElements DEF PathIsKeyed
<1>7. arg \in Path
  BY <1>1, PathElements DEF PathIsKeyed
<1> QED  BY <1>1, <1>6, <1>7 DEF Best!CutBackTo

LEMMA StepRefines ==
    ASSUME SInv, SInv', [SelectionNext]_vars
    PROVE  [Best!Next]_Path
<1>1. ASSUME NEW h \in Headers, Best!ExtendsTip(h), RollForwardChain(h)
      PROVE  Best!Next
  BY <1>1, RollForwardExtends DEF Best!Next
<1>2. CASE RollbackCommit
  BY <1>2, RollbackCutsBack DEF Best!Next
<1>3. CASE UNCHANGED chain
  BY <1>3 DEF Path, Occupied
<1>4. \/ \E h \in Headers : Best!ExtendsTip(h) /\ RollForwardChain(h)
      \/ RollbackCommit
      \/ UNCHANGED chain
  BY DEF SelectionNext, Common, HeaderStep, RollbackStep, PutStep,
     PutNonces, StoreBlock, SetAnchorHash, SetBestChainHash, StoreHeader,
     StoreHeaderLink, StoreHeaderPut, StoreHeaderCommit,
     RollbackChain, RollbackRefused, RollbackDelete, Abandon, vars
<1> QED  BY <1>1, <1>2, <1>3, <1>4

\* The chain points of the store, with its transactions, iterators, failures
\* and crashes, implement the abstract best chain.
THEOREM Refinement == SelectionSpec => ImplementsBestChain
<1>1. Init => Best!Init
  BY DEF Init, Best!Init, Path, Occupied
<1>2. SInv /\ SInv' /\ [SelectionNext]_vars => [Best!Next]_Path
  BY StepRefines
<1> QED
  BY <1>1, <1>2, SelectionInvariance, PTL
     DEF SelectionSpec, ImplementsBestChain, Best!Spec

-----------------------------------------------------------------------------

LEMMA NextLinked ==
    ASSUME Best!Linked, [Best!Next]_Path
    PROVE  Best!Linked'
<1> USE HeaderAssumption DEF Best!Linked
<1>1. ASSUME NEW h \in Headers, Best!Extend(h)
      PROVE  Best!Linked'
  <2>1. Path' = Path \cup {h}
    BY <1>1 DEF Best!Extend
  <2>2. CASE Path = {}
    BY <2>1, <2>2
  <2>3. CASE \E t \in Path : Best!IsTip(t) /\ Parent[h] = t
    <3>1. PICK t \in Path : Best!IsTip(t) /\ Parent[h] = t
      BY <2>3
    <3>2. Slot[t] < Slot[h] /\ Slot[t] \in Nat /\ Slot[h] \in Nat
      BY <3>1, SlotAssumption
    <3>3. \A g \in Path : Slot[g] \in Nat /\ Slot[g] <= Slot[t]
      BY <3>1 DEF Best!IsTip
    <3>4. \A g, k \in Path' : Slot[g] = Slot[k] => g = k
      BY <2>1, <3>2, <3>3
    <3>5. ASSUME NEW g \in Path'
          PROVE  \/ \A k \in Path' : Slot[g] <= Slot[k]
                 \/ /\ Parent[g] \in Path'
                    /\ \A k \in Path' : Slot[k] < Slot[g]
                                           => Slot[k] <= Slot[Parent[g]]
      <4>1. CASE g = h
        BY <2>1, <3>1, <3>2, <3>3, <4>1
      <4>2. CASE g \in Path
        BY <2>1, <3>2, <3>3, <4>2
      <4> QED  BY <2>1, <3>5, <4>1, <4>2
    <3> QED  BY <2>1, <3>4, <3>5
  <2> QED  BY <1>1, <2>2, <2>3 DEF Best!Extend, Best!ExtendsTip
<1>2. ASSUME NEW h \in Headers, Best!CutBackTo(h)
      PROVE  Best!Linked'
  <2>1. h \in Path /\ Path' = {g \in Path : Slot[g] <= Slot[h]}
    BY <1>2 DEF Best!CutBackTo
  <2>2. ASSUME NEW g \in Path'
        PROVE  \/ \A k \in Path' : Slot[g] <= Slot[k]
               \/ /\ Parent[g] \in Path'
                  /\ \A k \in Path' : Slot[k] < Slot[g]
                                         => Slot[k] <= Slot[Parent[g]]
    <3>1. CASE \A k \in Path : Slot[g] <= Slot[k]
      BY <2>1, <3>1
    <3>2. CASE /\ Parent[g] \in Path
               /\ \A k \in Path : Slot[k] < Slot[g] => Slot[k] <= Slot[Parent[g]]
      <4>1. Slot[Parent[g]] <= Slot[h]
        BY <2>1, <2>2, <3>2, SlotAssumption
      <4> QED  BY <2>1, <3>2, <4>1
    <3> QED  BY <2>1, <2>2, <3>1, <3>2
  <2> QED  BY <2>1, <2>2
<1>3. CASE UNCHANGED Path
  BY <1>3
<1> QED  BY <1>1, <1>2, <1>3 DEF Best!Next

\* The best chain has one header per slot and no gap between a header and
\* its parent, in every reachable state.
THEOREM BestChainLinked == SelectionSpec => []ChainIsLinked
<1>1. Best!Init => Best!Linked
  BY DEF Best!Init, Best!Linked
<1>2. Best!Linked /\ [Best!Next]_Path => Best!Linked'
  BY NextLinked
<1> QED
  BY <1>1, <1>2, Refinement, PTL
     DEF ImplementsBestChain, Best!Spec, ChainIsLinked

-----------------------------------------------------------------------------

\* From a point of a linked chain the first later slot holds its child.
LEMMA NextFollows ==
    ASSUME SInv, ChainIsLinked, NEW h \in Path
    PROVE  IF Best!IsTip(h) THEN NextBestChain(h) = NoHash
           ELSE NextBestChain(h) \in Path /\ Parent[NextBestChain(h)] = h
<1> DEFINE from == {s \in Occupied(chain) : s >= SlotOf(h) + 1}
           first == CHOOSE s \in from : \A t \in from : s <= t
<1>1. /\ h \in Headers /\ SlotOf(h) = Slot[h] /\ Slot[h] \in Nat
      /\ Slots \subseteq Nat
  BY PathElements, HeaderAssumption, SlotType DEF PathIsKeyed
<1>2. ASSUME NEW s \in from
      PROVE  /\ s \in Nat /\ s >= Slot[h] + 1
             /\ chain[s] \in Path /\ Slot[chain[s]] = s
  BY <1>1, <1>2 DEF Occupied, Path, SInv, Keyed
<1>3. CASE Best!IsTip(h)
  <2>1. ASSUME NEW s \in from
        PROVE  FALSE
    BY <1>1, <1>2, <1>3 DEF Best!IsTip
  <2> QED  BY <1>3, <2>1 DEF NextBestChain
<1>4. CASE ~Best!IsTip(h)
  <2>1. PICK k \in Path : ~(Slot[k] <= Slot[h])
    BY <1>4 DEF Best!IsTip
  <2>2. Slot[k] \in Nat /\ Slot[k] \in Occupied(chain)
    BY PathElements, HeaderAssumption, SlotType DEF PathIsKeyed, Occupied
  <2>3. from # {} /\ from \in SUBSET Nat
    <3>1. Slot[k] \in from
      BY <1>1, <2>1, <2>2
    <3>2. from \in SUBSET Nat
      BY <1>2
    <3> QED  BY <3>1, <3>2
  <2>4. first \in from /\ \A t \in from : first <= t
    <3> HIDE DEF from
    <3>1. \E s \in from : \A t \in from : s <= t
      BY <2>3, FirstSlot
    <3> QED  BY <3>1
  <2>5. NextBestChain(h) = chain[first]
    BY <2>3 DEF NextBestChain
  <2> DEFINE c == chain[first]
  <2>6. c \in Path /\ Slot[c] = first /\ first \in Nat /\ first >= Slot[h] + 1
    BY <1>2, <2>4
  <2> HIDE DEF first
  <2>7. Parent[c] \in Path /\ Slot[h] <= Slot[Parent[c]]
    BY <1>1, <2>6 DEF ChainIsLinked, Best!Linked
  <2>8. Parent[c] \in Headers /\ Slot[Parent[c]] < Slot[c]
        /\ Slot[Parent[c]] \in Nat
    BY <2>6, <2>7, PathElements, SlotAssumption, HeaderAssumption DEF PathIsKeyed
  <2>9. Slot[Parent[c]] = Slot[h]
    <3>1. Slot[Parent[c]] \in Occupied(chain)
      BY <2>7, <2>8, PathElements, HeaderAssumption, SlotType
         DEF PathIsKeyed, Occupied
    <3>2. Slot[Parent[c]] \notin from
      BY <2>4, <2>6, <2>8
    <3> QED  BY <1>1, <2>7, <2>8, <3>1, <3>2
  <2> QED  BY <1>4, <2>5, <2>6, <2>7, <2>9 DEF ChainIsLinked, Best!Linked
<1> QED  BY <1>3, <1>4

\* next_best_chain takes a reader from any point of the chain to its child,
\* and nowhere from the tip, in every reachable state.
THEOREM NextIsChild == SelectionSpec => []NextIsTheChild
<1>1. SInv /\ ChainIsLinked => NextIsTheChild
  BY NextFollows DEF NextIsTheChild
<1> QED  BY <1>1, SelectionInvariance, BestChainLinked, PTL
=============================================================================
