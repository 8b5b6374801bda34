SPECIFICATION Spec
CONSTANTS
    Ids = {1, 2}
    Messages <- AllMessages
    Backlog <- AllMessages
    InitialTables <- TeaTables
    AgeCap = 30
    Groups = {"g1"}
    Commands = {"confirm", "forget", "retire", "disable"}
    Sweeps = {s1}
    Days = {0}
    Nights = {}
    Jobs = {}
    Answers = {}
    MaxCandidates = 2
    BatchSize = 10
    Faults = {}
PROPERTIES DeletedNeverRecalled
CHECK_DEADLOCK FALSE
