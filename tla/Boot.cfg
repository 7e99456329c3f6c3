\* Zeroed memory, and exactly the eleven pages that the sequence needs when the
\* firmware has taken none of them; it may take any before the loader asks for it.
CONSTANTS
    Fan = 3
    FrameCount = 17
    Pool = {6, 7, 8, 9, 10, 11, 12, 13, 14, 15, 16}
    AnyOrder = FALSE
    FirmwareTakes = TRUE
    Dirt <- MCZeroed
    StaleSlots = {0}
    KeepsLocal = TRUE
    Requests <- MCRequests
    CheckedClient = FALSE
    MaxFrame = 17
    KernelStack = 76
    KernelBase = 78
    KernelImage = 4
    HeaderPages = 1
    Sections <- MCSections
    SwitchPage = 3
    CodeBytes <- MCCode
    Touched = {78}
SPECIFICATION BootSpec
\* The kernel is entered once.
CHECK_DEADLOCK FALSE
INVARIANTS BootTypeOK LoaderKeepsRunning KernelIsMapped OwnChecksPass NoStaleTranslation
