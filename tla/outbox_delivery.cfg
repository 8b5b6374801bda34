SPECIFICATION Spec
CONSTANTS
    Items = {1}
    MaxAttempts = {2}
    PullLimit = 2
    Lease = 1
    Sessions = {s1, s2}
    QueueCap = 1
    Unsupported = {}
    WriteCap = 2
    StrayCap = 3
    Chatty = {}
SYMMETRY SessionSymmetry
INVARIANTS TypeOK RowCoherent SentWasWritten DuplicateHasCause AwaitedIsCurrent AcksAreBacked
PROPERTIES OutcomeIsFinal OnlyFailuresCount KeepsPromise
