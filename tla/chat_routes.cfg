SPECIFICATION FairExchangeSpec
CONSTANTS
    Limits <- CodeLimits
    Services <- TwoServices
    Policy <- MixedPolicy
    Ai = "on"
    Turns = {t1}
    Requests <- EventRequests
    Behaviours <- EventBehaviours
    AiSays = {"text", "empty", "fails", "shape"}
    Clock = {0}
    Faults = {"database", "restart"}
    Events <- RoutedEvents
    Replies <- MixedReplies
    OwnReply <- OneText
    Depth <- ItemDepths
    Deepest = 3
INVARIANTS RouteIsExpected RepliesAreWanted ExchangeIsDocumented
PROPERTIES TurnsEnd
CHECK_DEADLOCK FALSE
