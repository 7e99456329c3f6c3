\* Every firmware call may fail; pages below and above the preferred base, with the
\* sum of a word and the distance past the end of a word in both directions.
CONSTANTS
    Files <- MCFiles
    Places = {1, 6}
    Cells = 5
    Word = 8
    Junk = 4
SPECIFICATION Spec
\* FindExeFile returns.
CHECK_DEADLOCK FALSE
INVARIANTS TypeOK ImageHandleClosed InfoIsWhole UnsetOnlyOnFailure FaultsNeedFailure
PROPERTIES LoadEnds OnlyFirstKeeps
