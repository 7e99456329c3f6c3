\* Used memory, locals with any residue, and a caller that maps inside large pages.
CONSTANTS
    Fan = 2
    FrameCount = 6
    Pool = {1, 2, 3}
    AnyOrder = TRUE
    FirmwareTakes = TRUE
    Dirt <- MCUsed
    StaleSlots = {0, 4}
    KeepsLocal = TRUE
    Requests <- MCSmall
    CheckedClient = FALSE
SPECIFICATION FairSpec
CHECK_DEADLOCK FALSE
PROPERTY CallsReturn
