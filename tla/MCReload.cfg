SPECIFICATION Spec
CHECK_DEADLOCK FALSE
CONSTANTS
    f = f
    g = g
    Files = {f, g}
    Directory <- SharedFolder
    Sources <- UpToBoth
    Edited = {g}
    None = None
    MaxReloads = 5
    MaxEdits = 2
INVARIANTS LatestLoadSurvives SourcesAreWatched ReportedIsShown
