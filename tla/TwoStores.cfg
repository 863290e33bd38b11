SPECIFICATION Spec
CONSTANTS
    Accounts = {a1, a2}
    Pools = {p1}
    Params = {q1, q2}
    Dreps = {d1}
    Members = {m1}
    HotKeys = {h1}
    Outputs = {o1}
    None = None
    Unchanged = Unchanged
    Reset = Reset
    MaxSlot = 5
    Supply = 2
    Groups <- MCGroups
    Proposals = {g1, g2}
    Voters = {v1, v2}
SYMMETRY MCSymmetry
INVARIANTS TypeOK StoresAgree LovelaceIsConserved
