SPECIFICATION Spec
CONSTANTS
    Members = {"a", "b"}
    Others = {"o"}
    Prints <- OnePrint
    Fp <- Shared
    AiNodes = {"a"}
    NonAiTargets <- Netflix
    AiTargets <- Claude
    Rounds = 2
    AiRounds = 1
    MaxSignals = 0
    MaxRuns = 1
INVARIANT RefusedIsNotHealthy
CHECK_DEADLOCK FALSE
