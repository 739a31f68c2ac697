SPECIFICATION Spec
CONSTANTS
    Procs = {p1, p2}
    Commits <- MCCommits
    Ancestors <- MCAncestors
    Limit = 2
    MaxMoves = 2
    MaxFails = 1
    None = None
INVARIANTS
    NoGapBelowMark
    FilesFollowCommits
    FetchesAreBounded
PROPERTIES
    CatchesUp
