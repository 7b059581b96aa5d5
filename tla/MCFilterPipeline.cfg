CONSTANTS
    Names <- MCNames
    Marks = {1, 2}
    Configured <- MCActing
    FiltersAdded = TRUE
    MaxPackets = 2
SPECIFICATION Spec
INVARIANTS
    HeldExactly
    VerdictsAddUp
    WorkerKnowsAction
    FrozenStays
    SourceFrozen
PROPERTIES
    PacketGateSpec
\* the system stops when the guests have sent all their packets
CHECK_DEADLOCK FALSE
