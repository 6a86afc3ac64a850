SPECIFICATION SafeSpec
CONSTANTS
    Platform = "macos"
    Tasks = {t1}
    CommandsFail = FALSE
    MaxKills = 1
INVARIANTS
    ColdStartWillClear
