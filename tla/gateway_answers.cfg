SPECIFICATION FairSpec
CONSTANTS
    busy = busy
    quiet = quiet
    Sessions = {busy, quiet}
    QueueCap = 1
    Workers = {w1, w2}
    JobCap = 1
    MaxEvents = 2
    MaxActions = 2
    Answers <- BusyAndQuiet
CHECK_DEADLOCK FALSE
INVARIANTS TypeOK AnswersArriveAsPrefix NothingLostWhileUp
PROPERTIES EndedSessionsLetGo EveryEventIsTaken
