---------------------------- MODULE MCPageTables ----------------------------
(* Tables of two entries over eight frames: 16 virtual pages, large pages of  *)
(* two and huge pages of four frames.                                         *)
EXTENDS PageTables

Request(v, p, e, w) == [va |-> v, pa |-> p, end |-> e, rw |-> w]

\* Two pages of one table, a large page over them, a huge page over that, and a
\* huge page below the other PML4 entry: five tables, one more than the pool has.
MCRequests == {
    Request(0, 5, 3, TRUE), Request(1, 0, 3, FALSE), Request(0, 4, 2, TRUE),
    Request(0, 0, 1, TRUE), Request(12, 4, 1, FALSE)}

MCZeroed == {ZeroPage}
\* A used page: its first entry is present and names frame 5.
Residue == [ZeroPage EXCEPT ![0] = [p |-> TRUE, rw |-> TRUE, ps |-> FALSE, frame |-> 5]]
MCUsed == {ZeroPage, Residue}

MCOnePage == {Request(1, 6, 3, TRUE)}

\* UefiMain: the direct map of the low gigabytes, then MapPage(SwitchPage, SwitchPage).
MCSwitchPage == {Request(0, 0, 1, TRUE), Request(1, 1, 3, TRUE)}

MCSmall == {Request(0, 0, 1, TRUE), Request(1, 5, 3, TRUE)}
=============================================================================
