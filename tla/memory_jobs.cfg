SPECIFICATION Spec
CONSTANTS
    Ids = {1, 2}
    Messages <- AllMessages
    Backlog <- OldMessages
    InitialTables <- GuessTable
    AgeCap = 30
    Groups = {"g1"}
    Commands = {"confirm", "forget", "retire", "disable"}
    Sweeps = {}
    Days = {0}
    Nights = {}
    Jobs = {x1, x2}
    Answers <- TeaAnswers
    MaxCandidates = 2
    BatchSize = 10
    Faults = {"database", "model"}
SYMMETRY ActorSymmetry
PROPERTIES ContradictionStays KeepsPromise
CHECK_DEADLOCK FALSE
