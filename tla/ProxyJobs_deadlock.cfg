CONSTANTS
    Clients = {a1}
    FileHandlers = {b1}
    FileTTL = 1
    Hour = 2
    LastTime = 1
    Nobody = Nobody
SPECIFICATION ProxyFairSpec
PROPERTIES
    JobsTurnTerminal
CHECK_DEADLOCK FALSE
