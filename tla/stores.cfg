SPECIFICATION Spec
CONSTANTS
    t1 = t1
    t2 = t2
    r1 = r1
    r2 = r2
    Targets = {t1, t2}
    Refreshers = {r1, r2}
    Scenes <- MCScenes
    SeverityOf <- MCSeverityOf
    Window = 1
    MaxEvents = 5
    None = None
SYMMETRY Symmetry
INVARIANTS
    TypeOK
    AuditAnswersHonest
    DisputesFileWhole
    ListsNewestFirst
PROPERTY
    ReceiptsKept
