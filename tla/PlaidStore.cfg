CONSTANTS
    MaxId = 4
    BatchSize = 2
    Readers = {r1}
    Tombstone = Tombstone
\* ids run out: the project rests
SPECIFICATION Spec
INVARIANTS
    AnswersRight
    NoChunkLost
CHECK_DEADLOCK FALSE
