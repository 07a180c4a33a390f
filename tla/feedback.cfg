SPECIFICATION Spec
CONSTANTS
    Accounts = {a1, a2}
    Targets = {t1, t2}
    License = license
    OldLicense = oldLicense
    Scripts = {s1, s2}
    Verifier = verifier
    Scenes <- MCScenes
    MaxPayments = 1
    MaxTxs = 3
    MaxTransfers = 2
    None = None
CHECK_DEADLOCK FALSE
SYMMETRY Symmetry
INVARIANTS
    TypeOK
    FeedbackEarned
    ExitsTrue
PROPERTY
    VerdictStands
