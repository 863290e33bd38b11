------------------------- MODULE MCLedgerSnapshots -------------------------
\* A store that starts with the three snapshots an import leaves.
EXTENDS LedgerSnapshots

MCImported == 0..2
=============================================================================
