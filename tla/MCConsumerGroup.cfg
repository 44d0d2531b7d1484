SPECIFICATION Spec
CONSTANTS
    Members = {m1, m2}
    Publishers = {a1}
    Fetchers = {x1, x2}
    Counts = {1, 2}
    Sizes = {1, 2}
    DefaultSize = 2
    None = None
    MaxMessages = 2
    MaxChurn = 3
INVARIANTS
    AssignmentExact
    NothingSkipped
    ResumesAfterCommit
    MetadataAgrees
SYMMETRY Interchangeable
CHECK_DEADLOCK FALSE
