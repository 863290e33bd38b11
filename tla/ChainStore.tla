----------------------------- MODULE ChainStore -----------------------------
(***************************************************************************)
(* The chain database of the node: RocksDBStore over an                    *)
(* OptimisticTransactionDB (rocksdb/consensus/mod.rs).  The disk state is  *)
(* one variable per key prefix.  One thread makes the calls that write; a  *)
(* call that uses a transaction takes several steps, buffering its writes  *)
(* in tx until it commits, while other threads read the database in every  *)
(* state in between.  Any call may fail, and the process may crash between *)
(* two steps.                                                              *)
(***************************************************************************)
EXTENDS Naturals, FiniteSets

CONSTANTS
    Headers,      \* the headers, standing for their hashes too
    Slot,         \* Slot[h]: the slot of header h
    Parent,       \* Parent[h]: its parent's hash, NoHash for a first header
    NoHash,       \* Option::None
    Origin,       \* Point::Origin, and its hash ORIGIN_HASH
    Extra         \* bound: headers whose block, nonces and marks are written

ASSUME HeaderAssumption ==
    /\ NoHash \notin Headers
    /\ Origin \notin Headers
    /\ Origin # NoHash
    /\ Slot \in [Headers -> Nat]
    /\ Parent \in [Headers -> Headers \cup {NoHash}]
    /\ Extra \subseteq Headers

Points == Headers \cup {Origin}

\* Point::slot_or_default
SlotOf(p) == IF p = Origin THEN 0 ELSE Slot[p]

Slots == {SlotOf(p) : p \in Points}

VARIABLES
    headers,    \* keys under HEADER_PREFIX
    children,   \* keys <<parent, child>> under CHILD_PREFIX
    blocks,     \* keys under BLOCK_PREFIX
    nonces,     \* keys under NONCES_PREFIX
    anchor,     \* the value at ANCHOR_PREFIX, or NoHash
    best,       \* the value at BEST_CHAIN_PREFIX, or NoHash
    chain,      \* chain[s]: the value at CHAIN_PREFIX ++ s, or NoHash
    pc, arg,    \* where the call under way stands, and its argument
    tx          \* its uncommitted transaction

meta == <<blocks, nonces, anchor, best>>
call == <<pc, arg, tx>>
vars == <<headers, children, meta, chain, call>>

-----------------------------------------------------------------------------
(* Values.                                                                 *)

\* Headers linked to their parent, headers put, chain slots deleted.
NoTx == [link |-> {}, put |-> {}, del |-> {}]

\* Mutant: the link is written without asking whether there is a parent.
LinkOfUnchecked(h) == {<<Parent[h], h>>}

\* The key under CHILD_PREFIX that store_header writes for h, if any.
LinkOf(h) == IF Parent[h] = NoHash THEN {} ELSE {<<Parent[h], h>>}

Occupied(c) == {s \in Slots : c[s] # NoHash}

-----------------------------------------------------------------------------
(* The reading half of the interface (impl_ReadOnlyChainStore).            *)

GetChildren(h) == {c \in Headers : <<h, c>> \in children}

GetBestChainHash == IF best = NoHash THEN Origin ELSE best

\* The hash stored at the point's slot, if it is the point's own hash.
LoadFromBestChain(p) ==
    IF chain[SlotOf(p)] = p THEN p ELSE NoHash

\* Mutant: the search starts at the point's own slot.
NextBestChainInclusive(p) ==
    LET from == {s \in Occupied(chain) : s >= SlotOf(p)}
    IN  IF from = {} THEN NoHash
        ELSE chain[CHOOSE s \in from : \A t \in from : s <= t]

\* The first stored point at slot + 1 or later; the point given is not
\* looked up.
NextBestChain(p) ==
    LET from == {s \in Occupied(chain) : s >= SlotOf(p) + 1}
    IN  IF from = {} THEN NoHash
        ELSE chain[CHOOSE s \in from : \A t \in from : s <= t]

-----------------------------------------------------------------------------

Init ==
    /\ headers = {} /\ children = {} /\ blocks = {} /\ nonces = {}
    /\ anchor = NoHash /\ best = NoHash
    /\ chain = [s \in Slots |-> NoHash]
    /\ pc = "idle" /\ arg = Origin /\ tx = NoTx

Call(step, p) == pc = "idle" /\ pc' = step /\ arg' = p

Goto(from, to) == pc = from /\ pc' = to

Return == pc' = "idle" /\ arg' = Origin /\ tx' = NoTx

-----------------------------------------------------------------------------
(* store_header: link the child, put the header, commit.                   *)

StoreHeader(h) ==
    /\ Call("link", h)
    /\ UNCHANGED <<headers, children, meta, chain, tx>>

StoreHeaderLink ==
    /\ Goto("link", "put")
    /\ tx' = [tx EXCEPT !.link = IF LinkOf(arg) = {} THEN {} ELSE {arg}]
    /\ UNCHANGED <<headers, children, meta, chain, arg>>

\* Mutant: the header is put straight into the database.
StoreHeaderPutOutsideTx ==
    /\ Goto("put", "commit_header")
    /\ headers' = headers \cup {arg}
    /\ tx' = [tx EXCEPT !.put = {arg}]
    /\ UNCHANGED <<children, meta, chain, arg>>

StoreHeaderPut ==
    /\ Goto("put", "commit_header")
    /\ tx' = [tx EXCEPT !.put = {arg}]
    /\ UNCHANGED <<headers, children, meta, chain, arg>>

StoreHeaderCommit ==
    /\ pc = "commit_header"
    /\ headers'  = headers \cup tx.put
    /\ children' = children \cup UNION {LinkOf(h) : h \in tx.link}
    /\ Return
    /\ UNCHANGED <<meta, chain>>

-----------------------------------------------------------------------------
(* The calls that are a single put.                                        *)

PutNonces(h) ==
    /\ pc = "idle"
    /\ nonces' = nonces \cup {h}
    /\ UNCHANGED <<headers, children, blocks, anchor, best, chain, call>>

StoreBlock(h) ==
    /\ pc = "idle"
    /\ blocks' = blocks \cup {h}
    /\ UNCHANGED <<headers, children, nonces, anchor, best, chain, call>>

SetAnchorHash(h) ==
    /\ pc = "idle"
    /\ anchor' = h
    /\ UNCHANGED <<headers, children, blocks, nonces, best, chain, call>>

SetBestChainHash(h) ==
    /\ pc = "idle"
    /\ best' = h
    /\ UNCHANGED <<headers, children, blocks, nonces, anchor, chain, call>>

\* roll_forward_chain, through store_chain_point: the slot's value is
\* overwritten whatever it was.
RollForwardChain(p) ==
    /\ pc = "idle"
    /\ chain' = [chain EXCEPT ![SlotOf(p)] = p]
    /\ UNCHANGED <<headers, children, meta, call>>

-----------------------------------------------------------------------------
(* rollback_chain: look the point up outside the transaction, then delete  *)
(* inside it, key by key, all that an iterator finds after the point.      *)

\* The lookup fails: an error, and nothing is done.
RollbackRefused(p) ==
    /\ pc = "idle"
    /\ LoadFromBestChain(p) = NoHash
    /\ UNCHANGED vars

RollbackChain(p) ==
    /\ LoadFromBestChain(p) # NoHash
    /\ Call("delete", p)
    /\ UNCHANGED <<headers, children, meta, chain, tx>>

\* Mutant: the point itself is deleted too.
ToDeleteInclusive == {s \in Occupied(chain) : s >= SlotOf(arg)} \ tx.del

\* The keys the iterator has yet to reach.
ToDelete == {s \in Occupied(chain) : s >= SlotOf(arg) + 1} \ tx.del

\* Mutant: the key is deleted straight from the database.
RollbackDeleteOutsideTx ==
    /\ pc = "delete"
    /\ \E s \in ToDelete :
          /\ \A t \in ToDelete : s <= t
          /\ chain' = [chain EXCEPT ![s] = NoHash]
    /\ UNCHANGED <<headers, children, meta, call>>

RollbackDelete ==
    /\ pc = "delete"
    /\ \E s \in ToDelete :
          /\ \A t \in ToDelete : s <= t
          /\ tx' = [tx EXCEPT !.del = @ \cup {s}]
    /\ UNCHANGED <<headers, children, meta, chain, pc, arg>>

RollbackCommit ==
    /\ pc = "delete"
    /\ ToDelete = {}
    /\ chain' = [s \in Slots |-> IF s \in tx.del THEN NoHash ELSE chain[s]]
    /\ Return
    /\ UNCHANGED <<headers, children, meta>>

-----------------------------------------------------------------------------
(* A put, the iterator or the commit returns an error, or the process dies *)
(* and the database is opened again: the transaction is gone uncommitted.  *)
Abandon ==
    /\ pc # "idle"
    /\ Return
    /\ UNCHANGED <<headers, children, meta, chain>>

HeaderStep == StoreHeaderLink \/ StoreHeaderPut \/ StoreHeaderCommit

RollbackStep == RollbackDelete \/ RollbackCommit

PutStep ==
    \E h \in Extra :
        \/ PutNonces(h)
        \/ StoreBlock(h)
        \/ SetAnchorHash(h)
        \/ SetBestChainHash(h)

\* Every call but roll_forward_chain.
Common ==
    \/ \E h \in Headers : StoreHeader(h)
    \/ \E p \in Points : RollbackChain(p) \/ RollbackRefused(p)
    \/ PutStep
    \/ HeaderStep
    \/ RollbackStep
    \/ Abandon

Next == Common \/ \E p \in Points : RollForwardChain(p)

Spec == Init /\ [][Next]_vars

-----------------------------------------------------------------------------
(* Properties.                                                             *)

\* Every variable holds a value of its kind: keys of known headers, chain
\* points by slot, one call and its transaction.
TypeOK ==
    /\ headers \subseteq Headers
    /\ children \subseteq Headers \X Headers
    /\ blocks \subseteq Headers /\ nonces \subseteq Headers
    /\ anchor \in Headers \cup {NoHash} /\ best \in Headers \cup {NoHash}
    /\ chain \in [Slots -> Points \cup {NoHash}]
    /\ pc \in {"idle", "link", "put", "commit_header", "delete"}
    /\ arg \in Points
    /\ tx \in [link : SUBSET Headers, put : SUBSET Headers, del : SUBSET Slots]

\* A header and its entry among its parent's children are written together:
\* whatever call fails or is cut by a crash, get_children lists exactly the
\* stored headers with that parent.
LinksMatchHeaders == children = UNION {LinkOf(h) : h \in headers}

\* A rollback is all or nothing: a step that removes chain points leaves no
\* point above one it removed, and keeps a point below them (so a rollback
\* never empties the chain: it goes to a point that is on it).
RollbackTruncates ==
    LET Removed == {s \in Slots : chain[s] # NoHash /\ chain'[s] = NoHash}
    IN  Removed # {} =>
          /\ \A s \in Removed, t \in Occupied(chain') : t < s
          /\ Occupied(chain') # {}

RollbackIsAtomic == [][RollbackTruncates]_vars
=============================================================================
