SPECIFICATION SafeSpec
CONSTANTS
    Platform = "linux"
    Tasks = {t1, t2}
    CommandsFail = TRUE
    MaxKills = 1
SYMMETRY Symmetry
INVARIANTS
    Accounted
    StoppedIsClean
