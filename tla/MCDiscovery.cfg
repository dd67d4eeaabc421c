SPECIFICATION Spec
CHECK_DEADLOCK FALSE
CONSTANTS
    CRDs = {c, d}
    Shapes = {s, t}
    None = None
    UnservedRetries = 1
    MaxChanges = 3
    MaxBreaks = 1
    MaxRuns = 3
SYMMETRY Symmetry
INVARIANTS ChangesAreTold UnservedIsRetriedUnlessFailed RunsAreBounded
