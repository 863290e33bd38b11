----------------------------- MODULE MCTwoStores -----------------------------
\* The accounts, the parameters of pools, the proposals and the voters may be
\* permuted.  The columns of a group are checked together: those of accounts
\* with the pools they delegate to and the pots, those of proposals with their
\* votes; the pools once more alone, with two updates in a block.
EXTENDS TwoStores, TLC

MCGroups == {
    {"accounts", "pools", "pots"},
    {"pools"},
    {"utxo", "issuers", "dreps", "members"},
    {"proposals", "votes", "progress", "protocol"}}

MCSymmetry ==
    Permutations(Accounts) \cup Permutations(Params)
    \cup Permutations(Proposals) \cup Permutations(Voters)
=============================================================================
