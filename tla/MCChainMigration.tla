-------------------------- MODULE MCChainMigration --------------------------
(* Instance of ChainMigration: four headers, h1 <- h2 <- h3 and a fork g2  *)
(* of h1, in databases of versions 0 to 3.                                 *)
EXTENDS ChainMigration

CONSTANTS h1, h2, h3, g2

MCHeaders == {h1, h2, h3, g2}

MCParent == [h \in MCHeaders |->
    CASE h = h1 -> NoHash [] h \in {h2, g2} -> h1 [] h = h3 -> h2]
=============================================================================
