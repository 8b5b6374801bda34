SPECIFICATION Spec
CONSTANTS
    Limits <- CodeLimits
    Services <- TwoServices
    Policy <- MixedPolicy
    Ai = "on"
    Turns = {t1}
    Requests <- RoutedRequests
    Behaviours <- RoutedBehaviours
    AiSays = {"text"}
    Clock = {0}
    Faults = {}
INVARIANTS MemoryComesFirst
CHECK_DEADLOCK FALSE
