SPECIFICATION FairSpec
CONSTANTS
    Ids = {1, 2}
    Messages <- AllMessages
    Backlog <- AllMessages
    InitialTables <- GuessTable
    AgeCap = 30
    Groups = {"g1"}
    Commands = {"confirm", "forget", "retire"}
    Sweeps = {s1}
    Days = {400}
    Nights = {}
    Jobs = {x1}
    Answers <- WorkAnswers
    MaxCandidates = 4
    BatchSize = 10
    Faults = {"database", "model", "restart"}
INVARIANTS TypeOK RowsCoherent RecallableIsEarned MemoriesAreGrounded VerdictsAgree
PROPERTIES ForgottenStays WorkEnds
CHECK_DEADLOCK FALSE
