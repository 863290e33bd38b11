----------------------------- MODULE BestChain ------------------------------
(***************************************************************************)
(* What the chain database promises of the best chain, without slots as    *)
(* keys, transactions or iterators: a set of headers that is one path of   *)
(* the header tree, extended at its tip or cut back to one of its points.  *)
(***************************************************************************)
EXTENDS Naturals

CONSTANTS Headers, Slot, Parent

VARIABLE path

IsTip(t) == t \in path /\ \A g \in path : Slot[g] <= Slot[t]

ExtendsTip(h) == path = {} \/ \E t \in path : IsTip(t) /\ Parent[h] = t

Init == path = {}

Extend(h) ==
    /\ ExtendsTip(h)
    /\ path' = path \cup {h}

CutBackTo(h) ==
    /\ h \in path
    /\ path' = {g \in path : Slot[g] <= Slot[h]}

Next == \E h \in Headers : Extend(h) \/ CutBackTo(h)

Spec == Init /\ [][Next]_path

-----------------------------------------------------------------------------
\* The path is one chain of the header tree: one header per slot, and every
\* header but the first follows its parent with nothing in between.
Linked ==
    /\ path \subseteq Headers
    /\ \A g, k \in path : Slot[g] = Slot[k] => g = k
    /\ \A g \in path :
          \/ \A k \in path : Slot[g] <= Slot[k]
          \/ /\ Parent[g] \in path
             /\ \A k \in path : Slot[k] < Slot[g] => Slot[k] <= Slot[Parent[g]]
=============================================================================
