---------------------------- MODULE PfnAllocator ----------------------------
(* The physical page allocator of the boot loader (pagemanager.h and the      *)
(* scan loop of UefiMain): an array with one entry per page frame, a free     *)
(* list threaded through the entries, and the firmware's own allocator, which *)
(* is asked a second time for every page taken off the list and which other   *)
(* firmware code uses at the same time (boot services are never exited).      *)
EXTENDS Integers, FiniteSets

CONSTANTS
    FrameCount,     \* page frames the machine has
    PfnCount,       \* SsPfnCount: entries of the array, from the first memory map
    PFN_LIST_END,   \* the offset that ends the list, 0xFFFFFF in the code
    OffsetSpan      \* values a UINT32 Offset can hold, 2^32 in the code

ASSUME SizesAssumption ==
    /\ FrameCount \in Nat
    /\ PfnCount \in 1..FrameCount
    /\ PFN_LIST_END \in Nat
    /\ OffsetSpan \in Nat
    /\ PFN_LIST_END < OffsetSpan

Frames == 0..(FrameCount - 1)
Pfns == 0..(PfnCount - 1)

VARIABLES
    SsPfn,          \* the PFN array
    SsPfnFreeHead,  \* first PFN of the free list, or PFN_LIST_END
    toScan,         \* pages the second memory map calls usable, not yet pushed
    fw,             \* the firmware's view of every frame
    held,           \* frames the loader was given and has not freed
    out             \* what the last call of the allocator reported

vars == <<SsPfn, SsPfnFreeHead, toScan, fw, held, out>>

PfnState == {"Free", "Allocated", "Reserved"}
PfnEntry == [State : PfnState, Offset : 0..(OffsetSpan - 1), Ref : {0, 1}]

\* EfiConventionalMemory and EfiPersistentMemory; memory of the firmware or of
\* devices; memory the firmware has given to this loader.
FrameOwner == {"Conventional", "Firmware", "Loader"}

\* st and *Pa of AllocatePage (-1: *Pa not written), and the first line it prints.
Report == [st : {"NONE", "SUCCESS", "OUT_OF_RESOURCES", "NOT_FOUND"},
           pa : Frames \cup {-1},
           said : {"", "No Free memory!", "No free memory!",
                   "Failed to allocate pages!", "Pfn too large"}]

Tell(st, pa, said) == [st |-> st, pa |-> pa, said |-> said]
Quiet == Tell("NONE", -1, "")

FreePfns == {p \in Pfns : SsPfn[p].State = "Free"}

TypeOK ==
    /\ SsPfn \in [Pfns -> PfnEntry]
    /\ SsPfnFreeHead \in Pfns \cup {PFN_LIST_END}
    /\ toScan \subseteq Pfns
    /\ fw \in [Frames -> FrameOwner]
    /\ held \subseteq Frames
    /\ out \in Report

-----------------------------------------------------------------------------
\* All entries are Reserved and off the list when the scan of the second map
\* starts. The loader already owns frames it took straight from the firmware
\* (its image, the PFN array, the kernel image). Frames above the array are not
\* conventional in this map; MemoryInit shows what happens when they are.
Init ==
    /\ SsPfn = [p \in Pfns |->
                  [State |-> "Reserved", Offset |-> PFN_LIST_END, Ref |-> 0]]
    /\ SsPfnFreeHead = PFN_LIST_END
    /\ fw \in [Frames -> FrameOwner]
    /\ \A f \in Frames \ Pfns : fw[f] # "Conventional"
    /\ toScan = {p \in Pfns : fw[p] = "Conventional"}
    /\ held = {f \in Frames : fw[f] = "Loader"}
    /\ out = Quiet

\* Put page p in front of the list; the old head is stored in 32 bits.
Push(p) ==
    /\ SsPfn' = [SsPfn EXCEPT ![p] =
                   [State |-> "Free", Offset |-> SsPfnFreeHead % OffsetSpan, Ref |-> 0]]
    /\ SsPfnFreeHead' = p

\* The body of the scan loop for one usable page. The map may list ranges in any
\* order, so any page of the snapshot can be the next one.
ScanPage(p) ==
    /\ p \in toScan
    /\ toScan' = toScan \ {p}
    /\ Push(p)
    /\ UNCHANGED <<fw, held, out>>

\* Mutants of PopHead: the entry's link is cleared before it is read; the page
\* keeps its State; nobody counts as its owner.
BugPopCutsList ==
    /\ SsPfnFreeHead # PFN_LIST_END
    /\ SsPfnFreeHead' = PFN_LIST_END
    /\ SsPfn' = [SsPfn EXCEPT ![SsPfnFreeHead] =
                   [State |-> "Allocated", Offset |-> PFN_LIST_END, Ref |-> 1]]

BugPopKeepsState ==
    /\ SsPfnFreeHead # PFN_LIST_END
    /\ SsPfnFreeHead' = SsPfn[SsPfnFreeHead].Offset
    /\ SsPfn' = [SsPfn EXCEPT ![SsPfnFreeHead].Offset = PFN_LIST_END,
                             ![SsPfnFreeHead].Ref = 1]

BugPopUncounted ==
    /\ SsPfnFreeHead # PFN_LIST_END
    /\ SsPfnFreeHead' = SsPfn[SsPfnFreeHead].Offset
    /\ SsPfn' = [SsPfn EXCEPT ![SsPfnFreeHead].Offset = PFN_LIST_END,
                             ![SsPfnFreeHead].State = "Allocated"]

\* SsGetFreePhysicalPage, when the list is not at its end: unlink the head.
PopHead ==
    /\ SsPfnFreeHead # PFN_LIST_END
    /\ SsPfnFreeHead' = SsPfn[SsPfnFreeHead].Offset
    /\ SsPfn' = [SsPfn EXCEPT ![SsPfnFreeHead] =
                   [State |-> "Allocated", Offset |-> PFN_LIST_END, Ref |-> 1]]

\* SsGetFreePhysicalPage at the end of the list returns 0.
AllocateNothing ==
    /\ SsPfnFreeHead = PFN_LIST_END
    /\ out' = Tell("OUT_OF_RESOURCES", -1, "No Free memory!")
    /\ UNCHANGED <<SsPfn, SsPfnFreeHead, fw, held>>

\* The address of page 0 is the error value of SsGetFreePhysicalPage.
AllocatePageZero ==
    /\ SsPfnFreeHead = 0
    /\ PopHead
    /\ out' = Tell("OUT_OF_RESOURCES", -1, "No free memory!")
    /\ UNCHANGED <<fw, held>>

\* gBS->AllocatePages(AllocateAddress) refuses a frame it has already given out.
AllocateRefused ==
    /\ SsPfnFreeHead # 0
    /\ PopHead
    /\ fw[SsPfnFreeHead] # "Conventional"
    /\ out' = Tell("NOT_FOUND", -1, "Failed to allocate pages!")
    /\ UNCHANGED <<fw, held>>

\* Mutant of AllocateGranted: the list is trusted and the firmware not asked.
BugGrantUnasked ==
    /\ SsPfnFreeHead # 0
    /\ PopHead
    /\ fw' = [fw EXCEPT ![SsPfnFreeHead] = "Loader"]
    /\ held' = held \cup {SsPfnFreeHead}
    /\ out' = Tell("SUCCESS", SsPfnFreeHead, "")

AllocateGranted ==
    /\ SsPfnFreeHead # 0
    /\ PopHead
    /\ fw[SsPfnFreeHead] = "Conventional"
    /\ fw' = [fw EXCEPT ![SsPfnFreeHead] = "Loader"]
    /\ held' = held \cup {SsPfnFreeHead}
    /\ out' = Tell("SUCCESS", SsPfnFreeHead, "")

\* Mutant of AllocatePage: pages are requested while the map is still scanned.
BugAllocateEarly ==
    /\ \/ AllocateNothing \/ AllocatePageZero
       \/ AllocateRefused \/ AllocateGranted
    /\ UNCHANGED toScan

\* AllocatePage is first called when the scan is over.
AllocatePage ==
    /\ toScan = {}
    /\ \/ AllocateNothing \/ AllocatePageZero
       \/ AllocateRefused \/ AllocateGranted
    /\ UNCHANGED toScan

\* Mutant of FreeInArray: no check against SsPfnCount.
BugFreeAnyPfn(p) ==
    /\ Push(p)
    /\ out' = Quiet

\* SsFreePhysicalPage, called by an owner of the frame (the code does not check
\* it): the frame goes back on the list, but never back to the firmware.
FreeInArray(p) ==
    /\ p < PfnCount
    /\ Push(p)
    /\ out' = Quiet

FreeOutOfArray(p) ==
    /\ p >= PfnCount
    /\ out' = Tell("NONE", -1, "Pfn too large")
    /\ UNCHANGED <<SsPfn, SsPfnFreeHead>>

SsFreePhysicalPage(p) ==
    /\ toScan = {}
    /\ p \in held
    /\ FreeInArray(p) \/ FreeOutOfArray(p)
    /\ held' = held \ {p}
    /\ UNCHANGED <<toScan, fw>>

\* Firmware code (events, drivers, console output) allocates and frees on its own.
FwAllocate(f) ==
    /\ fw[f] = "Conventional"
    /\ fw' = [fw EXCEPT ![f] = "Firmware"]
    /\ UNCHANGED <<SsPfn, SsPfnFreeHead, toScan, held, out>>

FwFree(f) ==
    /\ fw[f] = "Firmware"
    /\ fw' = [fw EXCEPT ![f] = "Conventional"]
    /\ UNCHANGED <<SsPfn, SsPfnFreeHead, toScan, held, out>>

Next ==
    \/ \E p \in Pfns : ScanPage(p)
    \/ AllocatePage
    \/ \E f \in Frames : SsFreePhysicalPage(f) \/ FwAllocate(f) \/ FwFree(f)

Spec == Init /\ [][Next]_vars

-----------------------------------------------------------------------------
\* s lists n pages from the head of the list to its end, each one once.
Chain(n, s) ==
    /\ \A i, j \in 1..n : s[i] = s[j] => i = j
    /\ \A i \in 1..n : SsPfn[s[i]].Offset = IF i = n THEN PFN_LIST_END ELSE s[i + 1]
    /\ SsPfnFreeHead = IF n = 0 THEN PFN_LIST_END ELSE s[1]
    /\ FreePfns = {s[i] : i \in 1..n}

\* The list starting at SsPfnFreeHead (pagemanager.h 135-150, 172-176,
\* UefiMain.c 334-340) ends, visits no page twice, and visits exactly the pages
\* whose State is Free: no page is lost from it and none is on it twice.
FreeListExact ==
    \E n \in 0..PfnCount : \E s \in [1..n -> FreePfns] : Chain(n, s)

\* A frame the loader owns is off the list, the firmware agrees that it is the
\* loader's, and its entry counts one owner if the allocator handed it out and is
\* still Reserved if the loader got it straight from the firmware
\* (pagemanager.h 148-150 and 192-202).
HeldConsistent ==
    \A f \in held :
        /\ fw[f] = "Loader"
        /\ f \in Pfns => /\ SsPfn[f].State \in {"Allocated", "Reserved"}
                         /\ f \notin toScan
                         /\ (SsPfn[f].State = "Allocated") <=> (SsPfn[f].Ref = 1)

\* Pages still to be pushed by the scan (UefiMain.c 315-351) are off the list, so
\* that no page is pushed twice, and nothing is handed out or freed before.
ScanFresh ==
    /\ \A p \in toScan : SsPfn[p].State = "Reserved"
    /\ toScan # {} => out = Quiet

\* A frame the loader has freed with SsFreePhysicalPage (157-177) never comes back
\* from AllocatePage: the list offers it again, but the firmware still counts it
\* as the loader's and refuses it (192-200).
NeverReissued ==
    [][\A f \in Frames : (fw[f] = "Loader" /\ f \notin held) => f \notin held']_vars

-----------------------------------------------------------------------------
\* What the client learns from the status and from the first line printed.
answer ==
    IF out.st = "SUCCESS" THEN "page"
    ELSE IF out.said = "No Free memory!" THEN "empty"
    ELSE IF out.st # "NONE" THEN "lost"
    ELSE "none"

\* The allocator, its list and the firmware's second opinion implement the store.
Store == INSTANCE PageStore WITH Pages <- Frames, NoPage <- 0, free <- FreePfns

\* Every step of the allocator is a step of PageStore: pages are served from the
\* store once, and "No Free memory!" is only said by an empty store.
ImplementsStore == Store!Spec
=============================================================================
