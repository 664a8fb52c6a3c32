SPECIFICATION SocketsSpec
CONSTANTS
    h1 = h1  h2 = h2  h3 = h3
    m1 = m1  m2 = m2
    NoEntry = NoEntry
    Hosts <- const_Hosts
    Macs <- const_Macs
    RingSize = 3
    ArpSize = 2
    SockMax = 2
    EphBase = 3
    EphTop = 5
    BindPorts = {1, 4}
    StrayPorts = {1, 3}
    MaxStray = 4
SYMMETRY const_Symmetry
INVARIANTS PortsDistinct LookupIsLatest LoopsOnlyIfLapped
PROPERTIES RingIsQueue
CHECK_DEADLOCK FALSE
