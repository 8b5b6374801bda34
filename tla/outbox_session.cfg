SPECIFICATION FairSpec
CONSTANTS
    Items = {1, 2}
    MaxAttempts = {1}
    PullLimit = 2
    Lease = 2
    Sessions = {s1}
    QueueCap = 1
    Unsupported = {2}
    WriteCap = 1
    StrayCap = 1
    Chatty = {s1}
PROPERTIES SessionsAreReaped EveryItemSettles LeaseIsExclusive
