SPECIFICATION FairSpec
CONSTANTS
    Defaults <- DefaultEntries
    Overrides <- OverrideEntries
    Offers <- OfferedTools
    Blocked <- BlockedPairs
    Callers = {c1}
    Calls <- SomeCalls
INVARIANTS ToolRunsOnce WorkingToolsAreKnown FirstOwnerServes
PROPERTIES RequestsEnd
CHECK_DEADLOCK FALSE
