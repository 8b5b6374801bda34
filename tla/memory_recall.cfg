SPECIFICATION FairRecallSpec
CONSTANTS
    Ids = {1, 2, 3}
    Messages <- Chat
    Backlog <- OldChat
    InitialTables <- Tables
    AgeCap = 365
    Groups = {"g1"}
    Commands = {"forget", "disable"}
    Sweeps = {}
    Days = {0}
    Nights = {330}
    Jobs = {}
    Answers = {}
    MaxCandidates = 2
    BatchSize = 10
    Faults = {"database", "model"}
    Requests <- SomeRequests
    Relevance <- TextRelevance
    Wordless = {"ok"}
    RecallLimit = 2
    RecentLimit = 1
    VectorRecall = TRUE
    IndexBatches = {2}
    Refused = {"fact"}
INVARIANTS RecallIsJustified QuietRecallIsBest
PROPERTIES RecallAnswers
CHECK_DEADLOCK FALSE
