SPECIFICATION HnswSpec
CONSTANTS
    MaxId = 3
    Readers = {r1}
    Garbage = Garbage
INVARIANT
    RowsAligned
PROPERTY
    LiveStoreOnlyGrows
