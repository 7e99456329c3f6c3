\* Zeroed memory, locals that read as 0 when unset, and a careful caller.
CONSTANTS
    Fan = 2
    FrameCount = 8
    Pool = {1, 2, 3, 6}
    AnyOrder = TRUE
    FirmwareTakes = TRUE
    Dirt <- MCZeroed
    StaleSlots = {0}
    KeepsLocal = FALSE
    Requests <- MCRequests
    CheckedClient = TRUE
SPECIFICATION Spec
\* SsPagingInit may fail, and UefiMain then returns.
CHECK_DEADLOCK FALSE
INVARIANTS TypeOK NoSharedTable ReachesOwnTables
PROPERTIES WritesOwnTables ImplementsAddressSpace
