CONSTANTS
    c = c
    d = d
    o = o
    Asks <- AsksSmall
    Calls = {c, d}
    Objects = {o}
    None = None
    MaxDocs = 2
    MaxVersions = 2
    MaxToggles = 1
SPECIFICATION FairSpec
INVARIANTS ApprovedOnce ReviewedIsChanged AnswersAreTrue
PROPERTIES CallsEnd WithdrawnIsNotDone
CHECK_DEADLOCK FALSE
