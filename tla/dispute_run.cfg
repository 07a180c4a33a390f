SPECIFICATION Spec
CONSTANTS
    NameOf <- MCNameOf
    KnownTargets <- MCKnownTargets
    LocalNames <- MCLocalNames
    Claims <- MCClaims
    Replies <- MCReplies
    Runs = {r1, r2}
    Verifier = verifier
    Scenes <- MCScenes
    MaxDisputes = 2
    None = None
SYMMETRY Symmetry
CHECK_DEADLOCK FALSE
INVARIANTS
    TypeOK
    DecidedOnTheCase
    RecordsTrue
