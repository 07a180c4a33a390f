SPECIFICATION Spec
CONSTANTS
    oracle = oracle
    owner = owner
    alice = alice
    bob = bob
    Targets = {t1, t2}
    Roots = {r1, r2}
    Verdicts = {v1}
    Accounts <- MCAccounts
    Oracle = oracle
    Owner = owner
    Refusers = {bob}
    Stakes <- MCStakes
    Agents = {a1}
    None = None
    MaxAudits = 2
    MaxMemory = 1
    MaxDisputes = 2
SYMMETRY AgentSymmetry
CHECK_DEADLOCK FALSE
INVARIANTS
    TypeOK
    RecordsConsistent
    RefundsSettled
PROPERTIES
    VerdictIsFinal
    MemoryFollowsLog
