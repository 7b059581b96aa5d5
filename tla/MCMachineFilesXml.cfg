CONSTANTS
    nas = nas
    Addresses = {nas}
    StartDevices = 4
    MaxMachines = 2
    MaxTime = 3
    MaxRuns = 1
    MaxDowns = 0
SPECIFICATION Spec
INVARIANT InterfaceIsXml
CHECK_DEADLOCK FALSE
