SPECIFICATION Spec
CONSTANTS
    Calls = {a1, a2}
    Children = {k1, k2}
    MaxRespawns = 1
    SameId = SameId
    Error = Error
    None = None
INVARIANT
    AnswersAreOwn
    StateNamesTheChild
    WaitersAreHeld
PROPERTY
    CallsEnd
