-------------------------- MODULE MCChainSelection --------------------------
(***************************************************************************)
(* Instance of ChainSelection: a fork after the first of five headers,     *)
(* with two headers at the same slot on different branches.                *)
(*                                                                         *)
(*     slot    1     2     3     5                                         *)
(*            h1 -> h2 -> h3                                               *)
(*               \------> g3 -> g5                                         *)
(***************************************************************************)
EXTENDS ChainSelection

CONSTANTS h1, h2, h3, g3, g5

MCHeaders == {h1, h2, h3, g3, g5}

MCSlot == [h \in MCHeaders |->
    CASE h = h1 -> 1 [] h = h2 -> 2 [] h \in {h3, g3} -> 3 [] h = g5 -> 5]

MCParent == [h \in MCHeaders |->
    CASE h = h1 -> NoHash [] h \in {h2, g3} -> h1 [] h = h3 -> h2 [] h = g5 -> g3]

\* Marks, blocks and nonces are left to MCChainStore.
MCExtra == {}
=============================================================================
