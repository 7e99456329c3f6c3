-------------------------------- MODULE Boot --------------------------------
(* The paging half of UefiMain (lines 356 to 434): the page tables are made,  *)
(* all memory is mapped at its own address, CR3 is loaded, stack, code and    *)
(* switch page are mapped, the kernel image is mapped at its virtual base and *)
(* the kernel is entered. The processor caches translations as it likes.      *)
EXTENDS PageTables, Sequences

CONSTANTS
    MaxFrame,       \* MaxAddress, in pages
    KernelStack,    \* KERNEL_VA_STACK
    KernelBase,     \* KERNEL_VA_BASE, the image base the kernel is linked for
    KernelImage,    \* first frame of the loaded kernel image
    HeaderPages,    \* SizeOfHeaders, in pages; the first has the section table
    Sections,       \* sequence of [rva, size, raw, writable], in pages
    SwitchPage,     \* the loader's own page that holds __switchcr3
    CodeBytes,      \* the page of loader code copied to CodePage, read as a table
    Touched         \* virtual pages the processor may cache a translation of

ASSUME BootAssumption ==
    /\ MaxFrame \in 1..FrameCount
    /\ {KernelStack, KernelBase} \subseteq Pages
    /\ {KernelImage, SwitchPage} \subseteq Frames
    /\ HeaderPages \in Nat \ {0}
    /\ Sections \in Seq([rva : Nat, size : Nat, raw : Nat, writable : BOOLEAN])
    /\ Touched \subseteq Pages
    /\ CodeBytes \in Content

VARIABLES
    at,             \* the statement UefiMain is at
    cur,            \* CurrentPhysical of DirectMapRange, in pages
    page,           \* NewStack, then CodePage
    sec, off,       \* section (0: the headers) and page MapKernel is at
    cleared,        \* the frames MapKernel has cleared
    cr3, tlb        \* the processor's root table and its cached translations

boot == <<at, cur, page, sec, off, cleared>>
cpu == <<cr3, tlb>>
allVars == <<vars, boot, cpu>>

Stages == {"init", "direct", "cr3", "stack", "mapstack", "code", "copy", "mapcode",
           "switch", "kernel", "reload", "entry", "failed", "fault"}

BootTypeOK ==
    /\ TypeOK
    /\ at \in Stages
    /\ cur \in 0..FrameCount
    /\ page \in Frames
    /\ sec \in 0..(Len(Sections) + 1)
    /\ off \in 0..FrameCount
    /\ cleared \subseteq Frames
    /\ cr3 \in Frames \cup {NoTable}
    /\ tlb \in [Touched -> [mapped : BOOLEAN, frame : Nat, rw : BOOLEAN]]

NoTranslation == [v \in Touched |-> Unmapped]

BootInit ==
    /\ Init
    /\ at = "init"
    /\ cur = 0 /\ page = 0 /\ sec = 0 /\ off = 0 /\ cleared = {}
    /\ cr3 = NoTable
    /\ tlb = NoTranslation

Map4K(v, f, writable) == [va |-> v, pa |-> f, end |-> 3, rw |-> writable]

-----------------------------------------------------------------------------
\* SsPagingInit and the steps inside UefiMapTables.
PagingStep ==
    /\ Paging
    /\ at' = CASE pc = "start" /\ pc' = "idle" -> "direct"
               [] pc' = "halt" -> "failed"
               [] OTHER -> at
    /\ UNCHANGED <<cur, page, sec, off, cleared, cpu>>

\* DirectMapRange(0, MaxAddress): one mapping, the largest that still fits. Its
\* status is ignored. The virtual address is the physical one.
Largest(remaining) ==
    IF remaining >= Span(1) THEN 1 ELSE IF remaining >= Span(2) THEN 2 ELSE 3

\* Mutant of DirectMapStep: every size advances by a huge page.
BugDirectMapSkips ==
    /\ at = "direct" /\ cur < MaxFrame
    /\ LET e == Largest(MaxFrame - cur) IN
       Call([va |-> cur, pa |-> cur, end |-> e, rw |-> TRUE])
    /\ cur' = cur + Span(1)
    /\ UNCHANGED <<at, page, sec, off, cleared, cpu>>

DirectMapStep ==
    /\ at = "direct" /\ cur < MaxFrame
    /\ LET e == Largest(MaxFrame - cur) IN
       /\ Call([va |-> cur, pa |-> cur, end |-> e, rw |-> TRUE])
       /\ cur' = cur + Span(e)
    /\ UNCHANGED <<at, page, sec, off, cleared, cpu>>

DirectMapDone ==
    /\ at = "direct" /\ pc = "idle" /\ cur >= MaxFrame
    /\ at' = "cr3"
    /\ UNCHANGED <<vars, cur, page, sec, off, cleared, cpu>>

\* Mutant of LoadCr3: CR3 is written only when it changes.
BugLoadCr3Once(from, to) ==
    /\ at = from /\ pc = "idle"
    /\ at' = to
    /\ cr3' = root
    /\ tlb' = IF cr3 = root THEN tlb ELSE NoTranslation
    /\ UNCHANGED <<vars, cur, page, sec, off, cleared>>

\* __writecr3 drops every cached translation (no global pages, no PCIDs).
LoadCr3(from, to) ==
    /\ at = from /\ pc = "idle"
    /\ at' = to
    /\ cr3' = root
    /\ tlb' = NoTranslation
    /\ UNCHANGED <<vars, cur, page, sec, off, cleared>>

WriteCr3 == LoadCr3("cr3", "stack")

\* AllocatePage(&NewStack), AllocatePage(&CodePage): the status is ignored and
\* the local is used as it is.
TakePage(from, to) ==
    /\ at = from /\ pc = "idle"
    /\ at' = to
    /\ \/ \E f \in Frames : AllocatePage(f) /\ page' = f
       \/ AllocateFails /\ page' \in StaleSlots
    /\ UNCHANGED <<mem, root, level, pc, walk, status, cur, sec, off, cleared, cpu>>

AllocateStack == TakePage("stack", "mapstack")
AllocateCode == TakePage("code", "copy")

MapStack ==
    /\ at = "mapstack"
    /\ Call(Map4K(KernelStack, page, TRUE))
    /\ at' = "code"
    /\ UNCHANGED <<cur, page, sec, off, cleared, cpu>>

CopyCode ==
    /\ at = "copy" /\ pc = "idle"
    /\ mem' = [mem EXCEPT ![page] = CodeBytes]
    /\ at' = "mapcode"
    /\ UNCHANGED <<root, level, store, pc, walk, status, cur, page, sec, off, cleared, cpu>>

\* Mutant of MapCode: it maps at the address of the stack.
BugMapCodeAtStack ==
    /\ at = "mapcode"
    /\ Call(Map4K(KernelStack, page, TRUE))
    /\ at' = "switch"
    /\ UNCHANGED <<cur, page, sec, off, cleared, cpu>>

MapCode ==
    /\ at = "mapcode"
    /\ Call(Map4K(KernelBase, page, TRUE))
    /\ at' = "switch"
    /\ UNCHANGED <<cur, page, sec, off, cleared, cpu>>

MapSwitchPage ==
    /\ at = "switch"
    /\ Call(Map4K(SwitchPage, SwitchPage, TRUE))
    /\ at' = "kernel"
    /\ UNCHANGED <<cur, page, sec, off, cleared, cpu>>

\* MappingExists follows present entries, whatever their PS bit.
MappingExists(v) ==
    LET entry[j \in 0..3] ==
            LET t == IF j = 0 THEN root ELSE entry[j - 1].frame
            IN  mem[t][Index(v, j)]
    IN  \A j \in 0..3 : entry[j].p

\* The firmware refuses to stall while the processor's clock is measured.
StallFails ==
    /\ at = "kernel" /\ pc = "idle" /\ <<sec, off>> = <<0, 0>>
    /\ at' = "failed"
    /\ UNCHANGED <<vars, cur, page, sec, off, cleared, cpu>>

\* MapKernel: the pages of the headers, then those of each section. A section is
\* mapped writable when it is NOT marked writable.
Part(n) ==
    IF n = 0 THEN [rva |-> 0, size |-> HeaderPages, rw |-> TRUE]
    ELSE [rva |-> Sections[n].rva, size |-> Sections[n].size,
          rw |-> ~Sections[n].writable]

\* NumberOfSections and the section headers are read again each time, where the image
\* was loaded. Once that page is cleared, all of them read as 0.
HeadersStand == KernelImage \notin cleared
SizeSeen(n) == IF n = 0 \/ HeadersStand THEN Part(n).size ELSE 0

\* Either no page of the kernel was mapped yet, or the last one was.
MayGoOn == <<sec, off>> = <<0, 0>> \/ status = "SUCCESS"

\* The frames ZeroMem clears before section n is mapped: its length is right, but
\* the address is the sum of the two sizes and not the end of the section's data.
ZeroedFor(n) ==
    IF n \in 1..Len(Sections) /\ Sections[n].size > Sections[n].raw
    THEN {f \in Frames : /\ f >= Sections[n].size + Sections[n].raw
                         /\ f < 2 * Sections[n].size}
    ELSE {}

MapKernelPage ==
    /\ at = "kernel" /\ sec <= Len(Sections)
    /\ off < SizeSeen(sec)
    /\ MayGoOn
    /\ Call(Map4K(KernelBase + Part(sec).rva + off,
                  KernelImage + Part(sec).rva + off, Part(sec).rw))
    /\ off' = off + 1
    /\ UNCHANGED <<at, cur, page, sec, cleared, cpu>>

\* The next section, or past the last one when no more are seen.
StartSection(first) ==
    /\ sec' = IF HeadersStand THEN sec + 1 ELSE Len(Sections) + 1
    /\ off' = first
    /\ mem' = [f \in Frames |-> IF f \in ZeroedFor(sec') THEN ZeroPage ELSE mem[f]]
    /\ cleared' = cleared \cup ZeroedFor(sec')

\* Mutant of MapKernelNextSection: the offset is not reset.
BugOffsetKept ==
    /\ at = "kernel" /\ pc = "idle" /\ sec <= Len(Sections)
    /\ off >= SizeSeen(sec)
    /\ MayGoOn
    /\ StartSection(off)
    /\ UNCHANGED <<root, level, store, pc, walk, status, at, cur, page, cpu>>

MapKernelNextSection ==
    /\ at = "kernel" /\ pc = "idle" /\ sec <= Len(Sections)
    /\ off >= SizeSeen(sec)
    /\ MayGoOn
    /\ StartSection(0)
    /\ UNCHANGED <<root, level, store, pc, walk, status, at, cur, page, cpu>>

\* MapKernel returns, after the last section or at the first failure; UefiMain
\* looks at its status in neither case.
MapKernelReturn ==
    /\ at = "kernel" /\ pc = "idle"
    /\ sec > Len(Sections) \/ ~MayGoOn
    /\ at' = "reload"
    /\ UNCHANGED <<vars, cur, page, sec, off, cleared, cpu>>

ReloadCr3 == LoadCr3("reload", "entry")

\* The frames the loader needs at their physical addresses for its next step: its
\* own code, the page it copies code to, the table it edits.
Identity(f) == [mapped |-> TRUE, frame |-> f, rw |-> TRUE]
OnOwnTables == at \notin {"init", "direct", "cr3", "failed", "fault"}
Needed == {SwitchPage} \cup (IF at = "copy" THEN {page} ELSE {})
                       \cup (IF pc = "walk" THEN {table} ELSE {})

\* An access the tables do not translate faults. The processor may still have an
\* older translation cached, so the steps of the loader stay possible.
PageFault ==
    /\ OnOwnTables /\ at # "entry"
    /\ \E f \in Needed : HwWalk(f) # Identity(f)
    /\ at' = "fault"
    /\ UNCHANGED <<vars, cur, page, sec, off, cleared, cpu>>

\* The processor walks the tables for its own reasons and keeps the result.
TlbFill(v) ==
    /\ cr3 # NoTable
    /\ HwWalk(v).mapped
    /\ tlb' = [tlb EXCEPT ![v] = HwWalk(v)]
    /\ UNCHANGED <<vars, boot, cr3>>

BootSteps ==
    \/ at # "fault" /\ PagingStep
    \/ DirectMapStep \/ DirectMapDone \/ WriteCr3
    \/ AllocateStack \/ MapStack \/ AllocateCode \/ CopyCode \/ MapCode
    \/ MapSwitchPage \/ MapKernelPage \/ MapKernelNextSection \/ MapKernelReturn
    \/ StallFails \/ ReloadCr3 \/ PageFault

BootNext == BootSteps \/ \E v \in Touched : TlbFill(v)

BootSpec == BootInit /\ [][BootNext]_allVars

-----------------------------------------------------------------------------
\* No page of the list was lost to the firmware. The statuses that UefiMain ignores
\* are then successes, provided the list is long enough.
NothingLost == Pool \subseteq free \cup held

\* Once CR3 is loaded (UefiMain.c:369), the loader still runs on its own code and
\* reaches, at their physical addresses, its image, the kernel image, every page
\* it was given and every table it still edits (pagemanager.h 254-275).
LoaderKeepsRunning ==
    NothingLost =>
        /\ at # "fault"
        /\ OnOwnTables =>
            \A f \in held \cup {SwitchPage, KernelImage} : HwWalk(f) = Identity(f)

\* When the kernel is entered (UefiMain.c 426-434) its whole image shows at the
\* base it is linked for, none of it cleared since it was loaded, and its stack page is
\* mapped writable: the ZeroMem of MapKernel (pagemanager.h 421-427) has hit neither the
\* image nor the section table that MapKernel goes on reading.
KernelIsMapped ==
    NothingLost /\ at = "entry" =>
        /\ HwWalk(KernelStack).mapped /\ HwWalk(KernelStack).rw
        /\ \A n \in 0..Len(Sections) : \A o \in 0..(Part(n).size - 1) :
              LET w == HwWalk(KernelBase + Part(n).rva + o) IN
              w.mapped /\ w.frame = KernelImage + Part(n).rva + o /\ w.frame \notin cleared

\* When the kernel is entered, no cached translation is older than the tables:
\* KERNEL_VA_BASE was mapped twice (UefiMain.c 392 and 426) without an invlpg.
NoStaleTranslation ==
    at = "entry" => \A v \in Touched : tlb[v] # Unmapped => tlb[v] = HwWalk(v)

\* The three checks of UefiMain (394-407) see the mappings just made, and what they
\* see is what the processor would: stack, code and switch page are mapped.
OwnChecksPass ==
    NothingLost /\ at = "kernel" /\ pc = "idle" =>
        \A v \in {KernelStack, KernelBase, SwitchPage} :
            MappingExists(v) /\ HwWalk(v).mapped

-----------------------------------------------------------------------------
(* The machines and images for which UefiMain may ignore the statuses of its  *)
(* calls and look at no PS bit.                                               *)

\* The first page of the mapping of level j that v lies in, and the level of the
\* mapping that DirectMapRange makes for page v.
Base(v, j) == v - Low(v, j)

SizeAt(v) ==
    IF Base(v, 1) + Span(1) <= MaxFrame THEN 1
    ELSE IF Base(v, 2) + Span(2) <= MaxFrame THEN 2 ELSE 3

ImagePage(n, o) == KernelBase + Part(n).rva + o
ImagePages == {v \in Pages : \E n \in 0..Len(Sections) :
                  \E o \in 0..(Part(n).size - 1) : v = ImagePage(n, o)}

\* The frames that are taken for tables when the switch page is mapped inside a larger
\* page.
StrayPages == {Base(SwitchPage, j) : j \in 1..2}

\* When paging is set up, what will be taken for a table reads as an empty one.
StartsEmpty == \A f \in Pool \cup StrayPages : mem[f] = ZeroPage

\* The frames of the image; the first of them has the section table.
IsImageFrame(f) == \E n \in 0..Len(Sections) : \E o \in 0..(Part(n).size - 1) :
                       f = KernelImage + Part(n).rva + o

\* What must keep its content while MapKernel runs: the loader's code, the image with
\* its section table, pages of the list and what is taken for a table.
Kept == Pool \cup StrayPages \cup {SwitchPage} \cup {f \in Frames : IsImageFrame(f)}

\* All memory can be mapped one to one, the kernel lives above it and its stack beside
\* its image; no table entry is written into the image, and what is cleared for the
\* sections is none of all this.
SafeLayout ==
    /\ MaxFrame <= Fan * Span(0)
    /\ KernelStack >= MaxFrame /\ KernelBase >= MaxFrame
    /\ KernelStack # KernelBase /\ KernelStack \notin ImagePages
    /\ SwitchPage < MaxFrame /\ KernelImage < MaxFrame
    /\ \A f \in Pool : f < MaxFrame
    /\ StrayPages \cap Pool = {}
    /\ \A f \in Pool \cup StrayPages : ~IsImageFrame(f)
    /\ \A n \in 1..Len(Sections) : ZeroedFor(n) \cap Kept = {}

\* A table is known by its level and by the part of the address space it serves.
Region(v, j) == IF j = 0 THEN 0 ELSE v \div Span(j - 1)
TablesFor(v, e) == {<<j, Region(v, j)>> : j \in 0..e}
TablesNeeded ==
    (UNION {TablesFor(v, SizeAt(v)) : v \in 0..(MaxFrame - 1)})
    \cup (UNION {TablesFor(v, 3) : v \in {KernelStack, KernelBase} \cup ImagePages})

\* Inside a huge page, the switch page gets a table that no walk reaches.
Astrays == IF SizeAt(SwitchPage) = 1 THEN 1 ELSE 0

\* There is a page for each table, the stack and the code.
EnoughPages == Cardinality(Pool) >= Cardinality(TablesNeeded) + Astrays + 2

-----------------------------------------------------------------------------
\* "Page aligned buffer that we fill with jmps/ret." (kernel/entry.c:43): when the
\* kernel is entered, the sections it writes to are mapped writable.
KernelCanWrite ==
    NothingLost /\ at = "entry" =>
        \A n \in DOMAIN Sections : Sections[n].writable =>
            \A o \in 0..(Sections[n].size - 1) :
                HwWalk(KernelBase + Sections[n].rva + o).rw
=============================================================================
