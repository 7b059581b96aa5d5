CONSTANTS
    zero = zero
    dns = dns
    web = web
    mail = mail
    IPs = {zero, web}
    ZeroIP = zero
    NoIP = NoIP
    KnownIPs = {}
    InitTaps = 2
    MaxOffs = 1
    MaxFrames = 2
SPECIFICATION Spec
INVARIANT MachinesRecorded
PROPERTIES
    EveryRequestAnswered
    HeldFrameReleased
\* the system stops when the guests have asked all their questions
CHECK_DEADLOCK FALSE
