\* A 4 KiB page is mapped inside a huge page, as UefiMain does.
CONSTANTS
    Fan = 2
    FrameCount = 8
    Pool = {1, 2, 3, 6}
    AnyOrder = TRUE
    FirmwareTakes = TRUE
    Dirt <- MCZeroed
    StaleSlots = {0}
    KeepsLocal = FALSE
    Requests <- MCSwitchPage
    CheckedClient = FALSE
SPECIFICATION Spec
CHECK_DEADLOCK FALSE
PROPERTY WritesOwnTables
