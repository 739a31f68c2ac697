CONSTANTS
    Branches = {a, b, c}
    MaxCommit = 1
    MaxBuild = 2
    Cap = 1
    Faults = {"restore", "build", "mirror"}
    None = None
    Broken = Broken
SPECIFICATION Spec
INVARIANT SnapshotsWhole
INVARIANT SidecarVouches
INVARIANT SnapshotsLabelled
SYMMETRY BranchSymmetry
CONSTRAINT Followed
