CONSTANTS
    Documents <- MCDocuments
    Bridges = {"br0", "br1"}
    Interfaces = {"p1", "p2"}
    Times <- MCTimes
    Costs = {7}
    MaxChanges = 1
    Width = 2
    Quads <- MCQuads
    HostOf <- MCHostOf
    NetOf <- MCNetOf
    Devices = {"eth0"}
    Numbers = {0, 128, 65535}
    Digits25 = {0, 7, 16, 19}
    Garbage25 = {0, 1}
    MaxWords = 2
    Words = {"ip", "x25", "ip6"}
    Options <- MCOptions
    FibHeaders <- MCFibHeaders
    CacheHeaders <- MCCacheHeaders
    Addresses = {"a"}
    NameAnswers = {"name", "no name"}
    MaxCalls = 1
    MaxFamilies = 2
    MaxLines = 2
    MaxLacking = 4
SPECIFICATION MCSpec
INVARIANTS
    OnlyRuntimeEscapes
    DestructorReads
    ChecksDoNotThrow
    UndisturbedIsExact
    EachOnce
    RouteFits
    RouteAsGiven
    ColumnsFound
    NamesStay
\* the parts end
CHECK_DEADLOCK FALSE
