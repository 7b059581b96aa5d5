CONSTANTS
    zero = zero
    dns = dns
    web = web
    mail = mail
    IPs <- MCIPs
    ZeroIP = zero
    NoIP = NoIP
    KnownIPs <- MCKnownIPs
    InitTaps = 1
    MaxOffs = 0
    MaxFrames = 3
SPECIFICATION Spec
SYMMETRY MCSymmetry
INVARIANTS
    FifoPerTap
    ReleasedInOrder
    BookkeepingExact
    BridgeAsksOnlyServed
PROPERTIES
    GateSpec
    SettledStays
\* the system stops when the guests have asked all their questions
CHECK_DEADLOCK FALSE
