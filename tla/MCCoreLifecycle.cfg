CONSTANTS
    one = one
    dns = dns
    start = start
    web = web
    IPs <- MCFewIPs
    One = one
    DhcpIP = dns
    StartIP = start
    OtherVMs <- MCFewVMs
    Destroy = TRUE
    MaxQuestions = 1
SPECIFICATION Spec
INVARIANTS
    NumbersUnique
    WorkerHasItsTools
    OkMeansComplete
    ServedHasMachine
\* the process ends
CHECK_DEADLOCK FALSE
