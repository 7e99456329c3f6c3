CONSTANTS
    FrameCount = 5
    PfnCount = 4
    PFN_LIST_END = 6
    OffsetSpan = 8
SPECIFICATION Spec
INVARIANTS TypeOK FreeListExact HeldConsistent ScanFresh
PROPERTIES NeverReissued ImplementsStore
