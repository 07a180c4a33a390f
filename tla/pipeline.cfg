SPECIFICATION AuditSpec
CONSTANTS
    t = t
    impl = impl
    demo = demo
    MaxText = 3
    AddressDigits = 3
    MaxHexDigits = 4
    BytecodeMinLen = 2
    Target = t
    Impl = impl
    Demo = demo
    SourceText <- MCSourceText
    CodeText <- MCCodeText
    Checks <- MCChecks
    Replies <- MCReplies
    Metrics = {"null", "1.0", "0.5"}
    Worlds <- MCWorlds
    TriesPerModel = 3
    Absent = Absent
CHECK_DEADLOCK FALSE
INVARIANTS
    AuditTypeOK
    AnchoredIsReadable
    GuardAccounted
    TierIsHonest
