CONSTANTS
    Threads = {t1, t2}
    Branches = {main, topic}
    Cli = cli
    MaxCached = 1
    MaxRuns = 1
    MaxMoves = 2
    MaxFails = 1
    None = None
SPECIFICATION Spec
INVARIANTS FreshEntriesAreLive CapHolds TombstonesAreHonest
PROPERTIES OpensAreShared SwitchesAreHandled
