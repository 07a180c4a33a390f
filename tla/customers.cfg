SPECIFICATION Spec
CONSTANTS
    Agents = {a1}
    Router = router
    Targets = {router, t1}
    None = None
    Severities = {1, 2, 3}
    MaxAudits = 3
    MaxRuns = 3
CHECK_DEADLOCK FALSE
INVARIANTS
    TypeOK
    DecisionsGrounded
    PaysUntilAudited
