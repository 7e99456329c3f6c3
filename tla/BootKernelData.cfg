\* No page is lost.
CONSTANTS
    Fan = 3
    FrameCount = 17
    Pool = {6, 7, 8, 9, 10, 11, 12, 13, 14, 15, 16}
    AnyOrder = FALSE
    FirmwareTakes = FALSE
    Dirt <- MCZeroed
    StaleSlots = {0}
    KeepsLocal = TRUE
    Requests <- MCRequests
    CheckedClient = FALSE
    MaxFrame = 17
    KernelStack = 76
    KernelBase = 78
    KernelImage = 4
    HeaderPages = 1
    Sections <- MCSections
    SwitchPage = 3
    CodeBytes <- MCCode
    Touched = {78}
SPECIFICATION BootSpec
\* The kernel is entered once.
CHECK_DEADLOCK FALSE
INVARIANT KernelCanWrite
