\* No other code runs: the allocations of the loader alone are enough.
CONSTANTS
    FrameCount = 5
    MaxEntries = 3
    PerPage = 2
    FirmwareRuns = FALSE
SPECIFICATION Spec
CHECK_DEADLOCK FALSE
INVARIANT ScanInArray
