SPECIFICATION Spec
CONSTANTS
    d1 = d1
    Devices <- OneDevice
    MaxMeddling = 3
INVARIANTS
    ForwardsUnlessTaken
    GivesBack
    PlacedIsPort
    InitAllOrNothing
PROPERTIES
    ShutdownRemoves
CHECK_DEADLOCK FALSE
