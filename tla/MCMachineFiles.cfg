CONSTANTS
    nas = nas
    Addresses = {nas}
    StartDevices = 1
    MaxMachines = 3
    MaxTime = 3
    MaxRuns = 2
    MaxDowns = 1
SPECIFICATION Spec
INVARIANTS
    SharedDisk
    DefinedHasDisk
    LeaseTold
\* the world stops when the bounds are reached
CHECK_DEADLOCK FALSE
