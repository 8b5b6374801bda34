SPECIFICATION Spec
CONSTANTS
    Limits <- SmallLimits
    Services <- NoServices
    Policy <- FreePolicy
    Ai = "on"
    Turns = {t1, t2}
    Requests <- TalkingRequests
    Behaviours <- SilentBehaviours
    AiSays = {"text", "shape"}
    Clock = {0, 2, 13}
    Faults = {"database", "restart"}
SYMMETRY TurnSymmetry
INVARIANTS TraceIsTrue ViewIsCoherent
CHECK_DEADLOCK FALSE
