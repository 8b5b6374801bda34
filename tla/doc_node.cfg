SPECIFICATION ExchangeSpec
CONSTANTS
    Limits <- CodeLimits
    Services <- OneService
    Policy <- FreePolicy
    Ai = "on"
    Turns = {t1, t2}
    Requests <- TwoRequests
    Behaviours <- NodeBehaviours
    AiSays = {"text"}
    Clock = {0}
    Faults = {}
    Events <- TwoEvents
    Replies <- NodeReplies
    OwnReply <- OneText
    Depth <- ItemDepths
    Deepest = 3
INVARIANTS CompleteRepliesAreSafe
CHECK_DEADLOCK FALSE
