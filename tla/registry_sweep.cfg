SPECIFICATION Spec
CONSTANTS
    oracle = oracle
    owner = owner
    alice = alice
    bob = bob
    Targets = {t1, t2}
    Roots = {r1, r2}
    Verdicts = {v1}
    Accounts <- MCAccounts
    Oracle = oracle
    Owner = owner
    Refusers = {bob}
    Stakes <- MCStakes
    Agents = {}
    None = None
    MaxAudits = 3
    MaxMemory = 0
    MaxDisputes = 2
SYMMETRY DisputeSymmetry
CHECK_DEADLOCK FALSE
INVARIANTS
    PendingStakesCovered
