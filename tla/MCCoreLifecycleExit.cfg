CONSTANTS
    one = one
    dns = dns
    start = start
    web = web
    IPs <- MCIPs
    One = one
    DhcpIP = dns
    StartIP = start
    OtherVMs <- MCOneVM
    Destroy = TRUE
    MaxQuestions = 0
SPECIFICATION Spec
INVARIANT ExitsWhenDone
\* the process ends
CHECK_DEADLOCK FALSE
