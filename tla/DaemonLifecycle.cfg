SPECIFICATION DaemonSpec
CONSTANTS
    d1 = d1
    d2 = d2
    c1 = c1
    Daemons = {d1, d2}
    Clients = {c1}
    MaxConn = 1
    IdleTicks = 1
    MaxFaults = 1
    Torn = Torn
    Nobody = Nobody
INVARIANT
    NothingLeftBehind
PROPERTIES
    
    SentinelSurvives
    SearchesGetADaemon
    ShutdownEnds

