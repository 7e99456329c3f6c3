\* Three handles and three buffers: enough for a listing three levels deep, and for
\* each of them to run out in the middle of one.
CONSTANTS
    Tree <- MCTree
    Volumes <- MCVolumes
    Paths = {"efi", "log"}
    MaxHandles = 3
    MaxBuffers = 3
SPECIFICATION Spec
INVARIANTS TypeOK ListingFaithful DirectoriesStayOpen LastErrorAgrees
PROPERTIES OnlyTheseLose ListingEnds
