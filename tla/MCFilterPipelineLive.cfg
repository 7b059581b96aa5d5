CONSTANTS
    Names <- MCName
    Marks = {1}
    Configured <- MCFreezing
    FiltersAdded = TRUE
    MaxPackets = 3
SPECIFICATION Spec
PROPERTIES
    PacketsDecided
    HeldPacketReleased
\* the system stops when the guests have sent all their packets
CHECK_DEADLOCK FALSE
