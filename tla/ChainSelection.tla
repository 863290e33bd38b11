--------------------------- MODULE ChainSelection ---------------------------
(***************************************************************************)
(* The chain database driven the way its callers drive it: roll_forward_   *)
(* chain is only called with a child of the current tip (populate_db and   *)
(* the tests of rocksdb/consensus/mod.rs), every other call at any time.   *)
(* Under that discipline the points kept by slot implement BestChain.      *)
(***************************************************************************)
EXTENDS ChainStore

\* A header's slot is later than its parent's.
ASSUME SlotAssumption ==
    \A h \in Headers : Parent[h] \in Headers => Slot[Parent[h]] < Slot[h]

\* The headers on the best chain.
Path == {chain[s] : s \in Occupied(chain)}

Best == INSTANCE BestChain WITH path <- Path

SelectionNext ==
    \/ Common
    \/ \E h \in Headers : Best!ExtendsTip(h) /\ RollForwardChain(h)

SelectionSpec == Init /\ [][SelectionNext]_vars

-----------------------------------------------------------------------------
(* Properties.                                                             *)

\* Every write of the store extends the best chain at its tip, cuts it back
\* to one of its points, or leaves it alone, whatever fails or crashes.
ImplementsBestChain == Best!Spec

\* One header per slot, each following its parent: what readers of the best
\* chain (and the migration that rebuilds it) rely on.
ChainIsLinked == Best!Linked

\* next_best_chain leads a reader along the chain: from the tip nowhere, from
\* any other point to the one header whose parent it is.
NextIsTheChild ==
    \A h \in Path :
        IF Best!IsTip(h) THEN NextBestChain(h) = NoHash
        ELSE NextBestChain(h) \in Path /\ Parent[NextBestChain(h)] = h
=============================================================================
