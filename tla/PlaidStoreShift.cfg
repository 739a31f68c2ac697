CONSTANTS
    MaxId = 3
    BatchSize = 2
    Readers = {}
    Tombstone = Tombstone
\* ids run out: the project rests
SPECIFICATION Spec
INVARIANT PositionsStayCorrect
CHECK_DEADLOCK FALSE
