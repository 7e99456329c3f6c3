\* Five frames, two entries of the array per page, and other code running throughout.
CONSTANTS
    FrameCount = 5
    MaxEntries = 3
    PerPage = 2
    FirmwareRuns = TRUE
SPECIFICATION Spec
\* UefiMain returns, or goes on in Boot.
CHECK_DEADLOCK FALSE
INVARIANTS TypeOK OwnPagesNotListed ArrayCoversMap ReadsLiveMap
