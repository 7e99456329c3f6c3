\* Pages of the free list hold what their last user left.
CONSTANTS
    Fan = 2
    FrameCount = 8
    Pool = {1, 2, 3, 6}
    AnyOrder = TRUE
    FirmwareTakes = TRUE
    Dirt <- MCUsed
    StaleSlots = {0}
    KeepsLocal = FALSE
    Requests <- MCOnePage
    CheckedClient = TRUE
SPECIFICATION Spec
CHECK_DEADLOCK FALSE
PROPERTY MapsOnlyItsRegion
