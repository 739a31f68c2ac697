CONSTANTS
    b1 = b1
    b2 = b2
    b3 = b3
    None = None
    Builders = {b1, b2, b3}
    Projects = {p1, p2, p3}
    LimitOf <- Limits
    MaxLimit = 2
SPECIFICATION Spec
PROPERTIES
    NobodyWaitsForever
    IsSemaphore
