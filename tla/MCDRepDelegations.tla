------------------------- MODULE MCDRepDelegations -------------------------
\* Two DReps whose hashes end in a saturated byte, the second the very bound of
\* the first.  Accounts are only ever compared, so they may be permuted.
EXTENDS DRepDelegations, TLC

MCDreps == {3, 7}
MCSymmetry == Permutations(Accounts)
=============================================================================
