SPECIFICATION Spec
CONSTANTS
    c1 = c1
    c2 = c2
    c3 = c3
    Clients <- const_Clients
    Iss <- const_Iss
    MaxConns = 2
    SeqMod = 8
    FirstIsn = 6
    IsnStep = 1
    MaxData = 1
    MaxToggles = 1
    MaxOpens = 4
INVARIANTS ConnsDistinct EstablishedWasConfirmed AckedWasSent
PROPERTIES OnlyPeersEndConnections
CHECK_DEADLOCK FALSE
