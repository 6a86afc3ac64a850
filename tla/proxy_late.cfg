SPECIFICATION SafeSpec
CONSTANTS
    Platform = "macos"
    Tasks = {t1, t2}
    CommandsFail = FALSE
    MaxKills = 0
INVARIANTS
    NothingRestoredLate
