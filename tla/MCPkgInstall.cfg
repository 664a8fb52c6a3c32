SPECIFICATION Spec
CONSTANTS
    server = server
    other = other
    m = m
    NoEntry = NoEntry
    Hosts <- const_Hosts
    Macs <- const_Macs
    Server <- server
    Catalogs <- const_Catalogs
    RingSize = 3
    ArpSize = 1
    SockMax = 2
    EphBase = 2
    EphTop = 8
    BindPorts = {1}
    StrayPorts = {1}
    MaxStray = 2
    Chunk = 2
    MaxContent = 3
    ArpTries = 1
    Paths = {0}
    MaxInstalls = 2
INVARIANTS FilesWhole FetchIsPrefix
PROPERTIES InstallEnds
CHECK_DEADLOCK FALSE
