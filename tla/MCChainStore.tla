---------------------------- MODULE MCChainStore ----------------------------
(***************************************************************************)
(* Instance of ChainKeys: a fork after the first of four headers, with two *)
(* headers at the same slot on different branches.                         *)
(*                                                                         *)
(*     slot    1     2     4                                               *)
(*            h1 -> h2                                                     *)
(*               \-> g2 -> g4                                              *)
(*                                                                         *)
(* Origin, at slot 0, may be put on the chain too.  The order of the       *)
(* hashes is neither that of the slots nor that of the branches.           *)
(***************************************************************************)
EXTENDS ChainKeys

CONSTANTS h1, h2, g2, g4

MCHeaders == {h1, h2, g2, g4}

MCSlot == [h \in MCHeaders |->
    CASE h = h1 -> 1 [] h \in {h2, g2} -> 2 [] h = g4 -> 4]

MCParent == [h \in MCHeaders |->
    CASE h = h1 -> NoHash [] h \in {h2, g2} -> h1 [] h = g4 -> g2]

MCHashRank == [h \in MCHeaders |->
    CASE h = g4 -> 1 [] h = g2 -> 2 [] h = h1 -> 3 [] h = h2 -> 4]

MCExtra == {g2}
=============================================================================
