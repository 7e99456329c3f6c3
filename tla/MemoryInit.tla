----------------------------- MODULE MemoryInit -----------------------------
(* How UefiMain (lines 172 to 351) learns which memory is free: it takes the  *)
(* firmware's memory map once to size the PFN array and a second time, after  *)
(* the array is allocated, to fill it. Every allocation of its own changes    *)
(* the map it is reading, and so does other code that runs in the firmware.   *)
EXTENDS Naturals, FiniteSets, FiniteSetsExt

CONSTANTS
    FrameCount,     \* frames of physical memory
    MaxEntries,     \* bound on the descriptors of a memory map
    PerPage,        \* entries of the PFN array that fit in one page
    FirmwareRuns    \* other code may allocate and free pages between two statements

Frames == 0..(FrameCount - 1)

ASSUME MemoryInitAssumption ==
    /\ {FrameCount, MaxEntries, PerPage} \subseteq Nat \ {0}
    /\ FirmwareRuns \in BOOLEAN

VARIABLES
    conv,       \* frames the firmware lists as conventional or persistent memory
    entries,    \* descriptors a map needs now
    at,         \* the statement UefiMain is at
    size,       \* SystemMemoryMap.MapSize, in descriptors
    buffer,     \* SystemMemoryMap.Descriptor: null, a pool buffer, or one freed
    pool,       \* frames the pool buffer took out of conventional memory
    map,        \* the frames the buffer lists as free
    count,      \* SsPfnCount
    array,      \* frames of SsPfn
    listed,     \* frames whose PFN entry is Free
    stray,      \* frames whose PFN entry was written past the end of the array
    spoiled     \* a buffer was written after it was freed

firmware == <<conv, entries>>
pfn == <<count, array, listed, stray>>
vars == <<firmware, at, size, buffer, pool, map, pfn, spoiled>>

Stages == {"size", "buffer", "map", "max", "array", "reset", "drop",
           "size2", "buffer2", "map2", "scan", "done", "return 0", "return 1"}

TypeOK ==
    /\ conv \subseteq Frames
    /\ entries \in 1..MaxEntries
    /\ at \in Stages
    /\ size \in 0..(MaxEntries + 2)
    /\ buffer \in {"null", "live", "freed"}
    /\ pool \subseteq Frames
    /\ map \subseteq Frames
    /\ count \in 0..FrameCount
    /\ array \subseteq Frames
    /\ listed \subseteq Frames
    /\ stray \subseteq Frames
    /\ spoiled \in BOOLEAN

Init ==
    /\ conv \in (SUBSET Frames) \ {{}}
    /\ entries \in 1..MaxEntries
    /\ at = "size"
    /\ size = 0 /\ buffer = "null" /\ pool = {} /\ map = {}
    /\ count = 0 /\ array = {} /\ listed = {} /\ stray = {}
    /\ spoiled = FALSE

-----------------------------------------------------------------------------
\* GetMemoryMap with a buffer that is too small only tells the size. With a large
\* enough one, which a freed buffer still looks like, it writes the map there.
TooSmall == size < entries

\* Mutant of QuerySize: only an error other than too small ends the program.
BugQueryGoesOn(from, to) ==
    /\ at = from
    /\ at' = to
    /\ \/ TooSmall /\ size' = entries /\ UNCHANGED spoiled
       \/ /\ ~TooSmall
          /\ size' \in 1..entries
          /\ spoiled' = (spoiled \/ buffer = "freed")
    /\ UNCHANGED <<firmware, buffer, pool, map, pfn>>

\* The query of the size, in both rounds; any other status than too small is
\* an error.
QuerySize(from, to) ==
    /\ at = from
    /\ \/ /\ TooSmall
          /\ size' = entries
          /\ at' = to
          /\ UNCHANGED spoiled
       \/ /\ ~TooSmall
          /\ size' \in 1..entries
          /\ at' = "return 1"
          /\ spoiled' = (spoiled \/ buffer = "freed")
    /\ UNCHANGED <<firmware, buffer, pool, map, pfn>>

\* AllocateZeroPool, of two descriptors more than needed: from a page the pool has
\* already or from a new one. It may fail; the pointer is not tested.
AllocateBuffer(from, to) ==
    /\ at = from
    /\ at' = to
    /\ size' = size + 2
    /\ \/ /\ buffer' = "live"
          /\ pool' \in {S \in SUBSET conv : Cardinality(S) <= 1}
          /\ conv' = conv \ pool'
          /\ entries' \in 1..MaxEntries
       \/ buffer' = "null" /\ UNCHANGED <<pool, firmware>>
    /\ UNCHANGED <<map, pfn, spoiled>>

\* GetMemoryMap into the buffer: refused when it is NULL or the map has outgrown it.
GetMap(from, to) ==
    /\ at = from
    /\ \/ /\ buffer = "live" /\ ~TooSmall
          /\ map' = conv
          /\ size' \in 1..entries
          /\ at' = to
       \/ /\ buffer = "null" \/ TooSmall
          /\ at' = "return 1"
          /\ UNCHANGED <<map, size>>
    /\ UNCHANGED <<firmware, buffer, pool, pfn, spoiled>>

\* Mutant of FindMaxAddress: the end of the range is rounded up though it is aligned.
BugMaxPastEnd ==
    /\ at = "max"
    /\ count' = IF map = {} THEN 0 ELSE Max(map) + 2
    /\ at' = "array"
    /\ UNCHANGED <<firmware, size, buffer, pool, map, array, listed, stray, spoiled>>

\* MaxAddress and SsPfnCount: the end of the highest range that is free now.
FindMaxAddress ==
    /\ at = "max"
    /\ count' = IF map = {} THEN 0 ELSE Max(map) + 1
    /\ at' = "array"
    /\ UNCHANGED <<firmware, size, buffer, pool, map, array, listed, stray, spoiled>>

\* Mutant of PagesNeeded: the division is not rounded up.
BugPagesRoundedDown(n) == n \div PerPage

PagesNeeded(n) == (n + PerPage - 1) \div PerPage

\* AllocatePages for the array, which gives no run of zero pages; failure ends the program with EFI_SUCCESS.
AllocateArray ==
    /\ at = "array"
    /\ \/ \E first \in Frames :
            LET run == first..(first + PagesNeeded(count) - 1) IN
            /\ count > 0 /\ run \subseteq conv
            /\ array' = run
            /\ conv' = conv \ run
            /\ entries' \in 1..MaxEntries
            /\ at' = "reset"
       \/ at' = "return 0" /\ UNCHANGED <<array, firmware>>
    /\ UNCHANGED <<size, buffer, pool, map, count, listed, stray, spoiled>>

\* All pages Reserved and the list empty.
ResetArray ==
    /\ at = "reset"
    /\ listed' = {}
    /\ at' = "drop"
    /\ UNCHANGED <<firmware, size, buffer, pool, map, count, array, stray, spoiled>>

\* Mutant of FreeBuffer: the map at hand is scanned, no second one is taken.
BugOneMap ==
    /\ at = "drop"
    /\ at' = "scan"
    /\ UNCHANGED <<firmware, size, buffer, pool, map, pfn, spoiled>>

\* FreePool; Descriptor and MapSize keep their values. The pool may keep the page.
FreeBuffer ==
    /\ at = "drop"
    /\ at' = "size2"
    /\ buffer' = "freed"
    /\ pool' = {}
    /\ conv' \in {conv, conv \cup pool}
    /\ entries' \in 1..MaxEntries
    /\ UNCHANGED <<size, map, pfn, spoiled>>

\* Every page the second map lists becomes Free, whatever its number.
ScanMap ==
    /\ at = "scan"
    /\ listed' = {f \in map : f < count}
    /\ stray' = {f \in map : f >= count}
    /\ at' = "done"
    /\ UNCHANGED <<firmware, size, buffer, pool, map, count, array, spoiled>>

\* Other code in the firmware takes or returns a page that is not the loader's.
OtherCode ==
    /\ FirmwareRuns
    /\ at \notin {"done", "return 0", "return 1"}
    /\ \/ \E f \in conv : conv' = conv \ {f}
       \/ \E f \in Frames \ (conv \cup pool \cup array) : conv' = conv \cup {f}
    /\ entries' \in 1..MaxEntries
    /\ UNCHANGED <<at, size, buffer, pool, map, pfn, spoiled>>

Next ==
    \/ QuerySize("size", "buffer") \/ AllocateBuffer("buffer", "map")
    \/ GetMap("map", "max") \/ FindMaxAddress \/ AllocateArray \/ ResetArray
    \/ FreeBuffer
    \/ QuerySize("size2", "buffer2") \/ AllocateBuffer("buffer2", "map2")
    \/ GetMap("map2", "scan") \/ ScanMap
    \/ OtherCode

Spec == Init /\ [][Next]_vars

-----------------------------------------------------------------------------
\* The free list never offers a page that holds the PFN array or the map it was
\* made from (UefiMain.c 247-351): that is what the second map is taken for.
OwnPagesNotListed ==
    (listed \cup stray) \cap (array \cup pool) = {}

\* The pages allocated for SsPfn (UefiMain.c 246-250) hold an entry for each frame
\* that can be reached through SsPfnCount, and no free frame of the first map is
\* out of reach.
ArrayCoversMap ==
    at = "reset" => /\ count <= PerPage * Cardinality(array)
                    /\ \A f \in map : f < count

\* Every map the loader reads is in a live buffer, although neither allocation is
\* tested (UefiMain.c 188, 290); and the size query that still passes the freed
\* buffer with its old size (275) may let the firmware write there, but the program
\* then gives up and never goes on with what other owners of that memory see.
ReadsLiveMap ==
    /\ at \in {"max", "scan"} => buffer = "live"
    /\ spoiled => at = "return 1"

-----------------------------------------------------------------------------
\* "we will get the highest memory address that is available to us"
\* (UefiMain.c:215): no page that is found free lies above it.
ScanInArray == stray = {}
=============================================================================
