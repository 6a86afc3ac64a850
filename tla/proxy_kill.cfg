SPECIFICATION Spec
CONSTANTS
    Platform = "macos"
    Tasks = {t1}
    CommandsFail = TRUE
    MaxKills = 1
PROPERTIES
    Restored
