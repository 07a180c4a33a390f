SPECIFICATION OSpec
CONSTANTS
    oracle = oracle
    alice = alice
    Targets = {t1}
    Roots = {r1, r2}
    Verdicts <- MCVerdicts
    Accounts <- MCAccounts
    Oracle = oracle
    Owner = oracle
    Refusers = {}
    Stakes <- MCStakes
    Agents = {}
    None = None
    Clients = {c1, c2}
    MaxTries = 1
    MaxAudits = 2
    MaxMemory = 0
    MaxDisputes = 1
SYMMETRY ClientSymmetry
CHECK_DEADLOCK FALSE
INVARIANTS
    DisputedReportIsJudged
