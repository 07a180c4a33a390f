SPECIFICATION Spec
CONSTANTS
    c1 = c1
    c2 = c2
    c3 = c3
    t1 = t1
    t2 = t2
    Calls = {c1, c2}
    Direct = {c2}
    Targets = {t1}
    TargetOf <- MCTargetOf
    Roots = {r1, r2, r3}
    None = None
CHECK_DEADLOCK FALSE
INVARIANTS
    TypeOK
    AnswersAreTrue
PROPERTIES
    ChargedOnlyForAudit
    PaidRequestsAnswered
