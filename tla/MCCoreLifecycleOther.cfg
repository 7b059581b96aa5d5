CONSTANTS
    one = one
    dns = dns
    start = start
    web = web
    IPs <- MCIPs
    One = one
    DhcpIP = dns
    StartIP = start
    OtherVMs <- MCTwoVMs
    Destroy = FALSE
    MaxQuestions = 0
SPECIFICATION Spec
INVARIANT OtherVMsServed
\* the process ends
CHECK_DEADLOCK FALSE
