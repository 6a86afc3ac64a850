SPECIFICATION Spec
CONSTANTS
    Members = {"a", "b"}
    Others = {"o"}
    Prints <- OnePrint
    Fp <- Shared
    AiNodes = {"a"}
    NonAiTargets <- Netflix
    AiTargets <- Claude
    Rounds = 2
    AiRounds = 1
    MaxSignals = 2
    MaxRuns = 2
INVARIANTS
    LeavesNothing
    PassedIsClean
    EveryProbeCounts
PROPERTIES
    RunEnds
CHECK_DEADLOCK FALSE
