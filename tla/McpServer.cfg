SPECIFICATION FirstSpec
CONSTANTS
    Workers = {w1, w2}
    Other = other
    First = b1
    Branches = {b1, b2}
    MaxOther = 1
    MaxEdits = 1
    MaxMoves = 1
    MaxFails = 1
    None = None
INVARIANTS
    OneBuild
    StaleNeedsCause
    AnswersNameTheirCause
    HitsAreCurrent
PROPERTIES
    SwitchesAreServed
