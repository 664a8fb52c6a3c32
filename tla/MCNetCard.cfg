SPECIFICATION Spec
CONSTANTS
    h1 = h1
    h2 = h2
    NoEntry = NoEntry
    m1 = m1
    Macs = {m1}
    Hosts <- const_Hosts
    Words <- const_Words
    a1 = a1
    a2 = a2
    Addresses = {a1, a2}
    BootAddress = a1
    ArpSize = 1
    RingWords = 7
    ExtraWords = 3
    TxSlots = 2
    MaxFrames = 3
    MaxSent = 2
INVARIANTS InStep SendsWhatWasGiven
CHECK_DEADLOCK FALSE
