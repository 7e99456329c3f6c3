\* Longs of four bytes as in the code; a guess of five characters for 256, so that
\* texts are shorter, as long and longer.
CONSTANTS
    Calls <- MCCalls
    Long = 4
    Guess = 5
    Column = 32
SPECIFICATION Spec
\* A behaviour is one call.
CHECK_DEADLOCK FALSE
INVARIANTS TypeOK CopiesExactly FindsFirstAndLast ComparesLikeDictionary TextFits DecimalExact
