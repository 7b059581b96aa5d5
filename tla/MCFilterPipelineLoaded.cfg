CONSTANTS
    Names <- MCNames
    Marks = {1, 2}
    Configured <- MCDeciding
    FiltersAdded = FALSE
    MaxPackets = 1
SPECIFICATION Spec
INVARIANT ConfiguredDrops
CHECK_DEADLOCK FALSE
