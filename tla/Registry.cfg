SPECIFICATION RegistrySpec
CONSTANTS
    Paths = {p1, p2}
    Hooks = {h1}
    Indexers = {c1}
    Backs = {b1}
    MaxFaults = 1
    Torn = Torn
    Blank = Blank
    Nothing = Nothing
SYMMETRY PathSymmetry
INVARIANTS
    RegistryIsWhole
PROPERTIES
    LossNeedsCause
