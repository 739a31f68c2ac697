SPECIFICATION Spec
CONSTANTS
    f1 = f1
    f2 = f2
    t1 = t1
    t2 = t2
    e1 = e1
    e2 = e2
    Files = {f1, f2}
    Texts = {t1, t2}
    Embedders = {e1, e2}
    BackendOf <- SameBackend
    MaxId = 3
    FailPoints <- Anywhere
    EditPoints <- IdleOrRead
    Blank = Blank
    Unreadable = Unreadable
    Absent = Absent
    Old = Old
    None = None
SYMMETRY Interchangeable
INVARIANTS
    
    ActiveStoreIsWhole
    IndexesInSync
    FreshUnlessDrifted
PROPERTIES
    DriftNeedsCause
    IsSearchIndex
