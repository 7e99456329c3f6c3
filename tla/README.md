# Paging-Research: a verification project

Paging-Research is a UEFI boot loader (`src/bootloader`) that finds `kernel.exe`
on the boot volumes, loads and relocates it, builds its own physical page
allocator and page tables, switches CR3 to them and calls the kernel
(`src/kernel`), which measures the cost of TLB misses. This directory holds TLA+
models of its parts, TLC configurations that check them on small machines, and
TLAPS proofs of what holds for every machine.

## 1. The system

| Part | Source | State | Operations | Talks to |
|---|---|---|---|---|
| PFN allocator | `pagemanager.h` 24-57, 129-204; `UefiMain.c` 240-351 | `SsPfn[]`, `SsPfnFreeHead`, `SsPfnCount` | scan of the memory map, `AllocatePage`, `SsFreePhysicalPage` | firmware `AllocatePages` |
| page tables | `pagemanager.h` 206-338 | `gPML4`, table pages | `SsPagingInit`, `MapPage`, `MapLargePage`, `MapHugePage` | PFN allocator, the processor's walk |
| boot sequence | `pagemanager.h` 340-448; `UefiMain.c` 83-126, 356-443 | CR3, TLB, mappings | `DirectMapRange`, stack, code and switch page, `MapKernel`, `__writecr3`, kernel entry | page tables, kernel image |
| memory initialisation | `UefiMain.c` 165-351 | memory map buffer, `MaxAddress` | two rounds of `GetMemoryMap`, PFN array | firmware, which allocates at the same time |
| file system | `filesystem.c` | `LoadedImage`, `CurrentDirectory`, `FileSystemLastError` | open volumes and files, names and sizes, recursive listing | firmware file protocol and pool |
| kernel search | `UefiMain.c` 31-79 | local handle and name | `FindExeFile` | file system, PE loader |
| PE loader | `image.c`, `pe.c` | `KernelImage`, image buffers | validate, load, align, relocate | files, firmware pages |
| console and text | `util.c`, `libs/runtimelib/string.c` | none | `getc`, `strfmt`, string functions | firmware console |
| kernel | `kernel/entry.c` | `g_TlbJumpPages` | TLB jump test, decimal output | console |

Nothing runs in parallel with the loader on other processors, but boot services
are never exited: firmware events, drivers and the console allocate and free
memory between any two steps of the loader, and the processor reads the page
tables, and caches what it read, whenever it likes.

### What is hard in it

* The firmware and the PFN array keep separate books of the same memory; the
  array is a snapshot and goes stale.
* Statuses of allocations are ignored and locals that a failed call has not set
  are tested instead.
* Table pages are not zeroed, and the walk does not look at the PS bit.
* Limits: PFN 0 is an error value, PFN 0xFFFFFF is the end of the list, links are
  cut to 32 bits.
* Buffers and handles are used after they are freed, and failure is reported as
  success where Boolean and `EFI_STATUS` results are mixed.
* The directory listing recurses with one position per handle, a buffer per level
  and one last error that every nested call overwrites.
* Relocation is arithmetic modulo 2^64 in two directions over pages that are not
  zeroed, and ends in one of two ways.
* String and memory functions meet characters above 127, ranges that overlap and
  buffers of size 0.

`PROJECT.json` lists every hazard at its line with the properties that cover it.

## 2. The modules

| Module | Models | Uses |
|---|---|---|
| `PageStore` | what `AllocatePage` and `SsFreePhysicalPage` promise: pages are served once, may be lost, may run out | |
| `PfnAllocator` | the PFN array, its free list and the firmware's allocator beside it | implements `PageStore` |
| `PfnAllocatorProofs` | theorems about `PfnAllocator` | `TLAPS` |
| `MemoryInit` | the two memory maps and the PFN array sized and filled from them | |
| `Geometry` | index and span arithmetic of four-level tables with any fan-out | |
| `AddressSpace` | what mapping functions promise: a function from pages to frames | `Geometry` |
| `PageTables` (`MCPageTables`) | tables in physical memory, the loop of `UefiMapTables`, the processor's walk | `PageStore` for memory; implements `AddressSpace` |
| `Boot` (`MCBoot`) | `UefiMain` from `SsPagingInit` to the kernel entry, CR3 and the TLB | extends `PageTables` |
| `PeImage` | an image in memory: headers, sections, relocations, and what a loaded image is by definition | |
| `ImageLoader` (`MCImageLoader`) | `FindExeFile`, the file functions it calls, `BlLdrLoadPEImage64` | extends `PeImage` |
| `FileSystem` (`MCFileSystem`) | every function of `filesystem.c`, called in any order | |
| `Text` (`MCText`) | string, memory and formatting functions, against their definitions | |
| `MemoryInitProofs`, `PageTablesProofs`, `BootProofs`, `ImageLoaderProofs`, `FileSystemProofs`, `TextProofs` | theorems about the module of that name; `BootProofs` builds on `PageTablesProofs` | `Numbers` |
| `Numbers` | lemmas of arithmetic the provers do not know: least elements, induction, quotients by a divisor that is a parameter, and what loops and searches compute | `WellFoundedInduction` |

The layers meet at `PageStore`: `PfnAllocator` is shown to implement it, and
`PageTables` and `Boot` allocate from it without looking at lists and arrays.
`MemoryInit` ends where `PfnAllocator` starts: its `ScanMap` is the loop that
`PfnAllocator` runs page by page as `ScanPage`. `ImageLoader` makes, in a fixed order,
some of the calls that `FileSystem` allows in any order; it keeps of them what the
loader sees, while `FileSystem` has the state behind them.

### State and actions against the code

**PfnAllocator.** `SsPfn`, `SsPfnFreeHead` are the variables of that name; `fw` is
the firmware's owner of each frame, `held` the frames the loader was given,
`toScan` the rest of the memory map the scan has not reached, `out` the status,
the written `*Pa` and the first line printed. `AllocatePage` is one action: in the
code nothing of the loader runs between the pop and the firmware call, and the
firmware's own activity (`FwAllocate`, `FwFree`) before or after it gives the same
outcomes. Offsets are cut to `OffsetSpan` values, 2^32 in the code.

**PageTables.** `mem` is every frame read as a table, because any frame may be
reached as one. `UefiMapTables` is one step per iteration (`Descend`, `NewTable`,
`StaleTable`, `NoMemory`, `WriteLeaf`), since each writes memory the processor can
see. `level` records what the loader allocated a frame for and is read by no
action. An unset local is a choice from `StaleSlots`, or, with `KeepsLocal`, the
value of the previous iteration, which is what a compiler that gives the local one
slot produces.

**Boot.** `at` is the statement of `UefiMain`, `cur` is `CurrentPhysical`, `sec` and
`off` the loop variables of `MapKernel`. The processor's part is `TlbFill` at any
moment after the first CR3 load, and `PageFault` when a frame the next step needs is
not mapped. A write to CR3 empties the cache: the loader sets neither global pages
nor PCIDs. `MapKernel` reads the number of sections, and for each its size and flags, from
the image in memory, again in every round, and its `ZeroMem`, which gets a sum of sizes for
an address, may clear the page they are read from: `cleared` has the frames cleared so far,
and once the first frame of the image is among them (`HeadersStand`), the section under way
has size 0 (`SizeSeen`) and no other is seen (`StartSection`). The image's content is
followed as far as that; a table entry that the switch page puts into the image instead
is left out, and `SafeLayout` excludes it.

**MemoryInit.** A memory map is the set of its free frames and the number of
descriptors it takes; `GetMemoryMap` compares that number with the buffer. A pool
buffer may come from a new page or from one the pool has; freeing it may return the
page. `OtherCode` is any other allocation in the firmware.

**ImageLoader.** A step per call that can fail. `open` and `pool` are the live handles
and buffers; `faults` records undefined behaviour the program runs into; `failed` says
whether the firmware has refused anything, which is what separates a program that is
wrong from one that was let down. `BlGetFileInfo` is a step for each of its calls: two
allocations (`AllocateInfo`), two `GetInfo`, and the `FreePool` between the attempts, with
`fileInfo` the caller's pointer, which keeps naming a buffer that was freed. From
`CheckFile` on the steps are those of `PeImage`.

**PeImage.** `img` is the memory of the image, one cell per 64-bit word, cell 0 the
headers; it starts as `Junk`, because pages from the firmware are not zeroed. `base` is
where the pages are, `sec`, `blk` and `ent` are the loop variables of
`BlLdrAlignFileImage` and `BlLdrImageRelocation`. `WholeImage` is not translated from the
code: it is what the file format says of each word, with no order of steps, and what
the loader's result is compared with.

**FileSystem.** `loaded`, `status` and `cur` are the three globals. `open` is the
firmware's table of handles with the position of each; `held` and `owed` are what the
client was given and has to return, `pool` all live buffers. A function that must first
open the root is two steps (`pending`), and `BlGetFileInfo` up to four, the second attempt
among them. `BlListDirectoryRecursive` is one step per call
to `Read`; `stack` has its activations, so that any of them may fail at any depth.
`printed` is what it printed, as depth and name; `result` what the outermost call
returned. The client is any sequence of calls; `FindExeFile` is one.

**Text.** A behaviour is one call on memory that `call` chooses, and its answer is
compared with `call.memory`, the memory before it. Loops are recursive functions over
indices. Undefined results are choices: `memcmp` of equal buffers returns anything.
`TextAssumption` says what a caller owes each function: pointers and ranges inside
the memory, strings that end, room for what is copied apart from where it is read, a
number that fits the kernel's buffer.

## 3. What the runs check

Passing runs:

| Run | Instance | Shows |
|---|---|---|
| `pfn` | 5 frames, 4 in the array, any firmware activity | the free list is exact (`FreeListExact`), owned frames are off it and are the loader's (`HeldConsistent`), no page is pushed twice or handed out during the scan (`ScanFresh`), a freed page never comes back (`NeverReissued`), and the allocator implements `PageStore` |
| `tables` | fan-out 2, 8 frames, pool of 4, five overlapping requests of three sizes | on zeroed memory and with a careful caller: tables form a tree (`NoSharedTable`), the walk sees only tables of the right level (`ReachesOwnTables`), only tables are written (`WritesOwnTables`), and calls behave like assignments to a function, all or nothing (`ImplementsAddressSpace`) |
| `tables_any_memory` | used memory, unset locals of any value, mappings inside larger pages | whatever is overwritten, each call returns (`CallsReturn`) |
| `boot` | fan-out 3, 17 frames, the kernel image in frames 4 and 5 while frame 1 is cleared, exactly the eleven pages the sequence needs, each of which the firmware may take | when none was taken, the loader survives its own CR3 load (`LoaderKeepsRunning`), its own checks pass (`OwnChecksPass`) and the kernel's stack and image, none of it cleared, are mapped at the entry (`KernelIsMapped`); whatever is taken, no cached translation is stale there (`NoStaleTranslation`) |
| `memory_init` | 5 frames, maps of up to 3 descriptors, other code running throughout | the free list never offers the pages of the array or of a map (`OwnPagesNotListed`), the array covers the map it was sized from (`ArrayCoversMap`), no map is read from a buffer that was freed or spoiled (`ReadsLiveMap`) |
| `image` | every firmware call may fail; eight files; images above, below and at their base | the image's handle is closed on every path (`ImageHandleClosed`); once `KernelImage` is set, every word of the image is right (`InfoIsWhole`); it is left unset only after a failure or for a file that cannot be loaded (`UnsetOnlyOnFailure`); file information is freed only while it is live, through both attempts of `BlGetFileInfo`, and unset pointers are used only after a failure (`FaultsNeedFailure`); file information is left behind on one exit only (`OnlyFirstKeeps`); the load ends (`LoadEnds`) |
| `file_system` | two volumes, a tree three deep, 3 handles and 3 buffers, any calls, any failure | listings print the tree in order, each line below that of its directory and none twice, completely when nothing fails (`ListingFaithful`), end (`ListingEnds`) and give back all they took, and so does the second attempt of `BlGetFileInfo` (`OnlyTheseLose`, which names the four places that do lose handles or buffers); no directory in use is closed (`DirectoriesStayOpen`); the last error agrees with the result (`LastErrorAgrees`) |
| `text` | all strings of up to three characters of which one is 255; all alignments, sizes and overlaps in three longs; sizes around the limits | each answer is that of its definition (`CopiesExactly`, `FindsFirstAndLast`, `ComparesLikeDictionary`, `TextFits`, `DecimalExact`) |

Runs that find a statement of the code's comments violated; each is explained at
its line in `PROJECT.json`:

| Run | What the code does |
|---|---|
| `memory_init_stray` | scans the second map with an array sized from the first: the loader's own freed buffer may lie beyond its end |
| `tables_used_memory` | does not zero new tables, so other pages become mapped |
| `tables_inside` | writes a table entry into the data of a huge page, as for `SwitchPage` |
| `boot_kernel_data` | inverts the test of the write flag: the data the kernel writes to is mapped read-only, with the image where nothing clears it |

Divergences that one reads off a single line have no run; the models have them as
the code does:

* PFN 0xFFFFFF ends the list and page 0 is a failure (`pagemanager.h` 135, 186):
  `PFN_LIST_END`, `AllocatePageZero`.
* `DirectMapRange` maps at the physical address, not at `DIRECT_MAP_BASE`
  (340-362), and returns success over holes (367-383): `DirectMapStep`.
* `ZeroMem` gets a sum of sizes for an address (424) and clears low memory. When the
  page with the section table lies there, `MapKernel` maps no section and the kernel is
  entered without them: `ZeroedFor`, `HeadersStand`.
* `UefiMapTables` tests a local that a failed call has not set (261): with the value
  of the iteration before, it links a table below itself (`StaleTable`).
* `UefiMain` returns 0 when the PFN array cannot be allocated (257):
  `AllocateArray`. The second size query gets the freed buffer with its old size
  (275); when that is large enough it succeeds, which counts as an error: `QuerySize`.
* `FindExeFile` drops the status of the load (76) and frees an unset pointer (66);
  `BlFindFile` reports a missing file as success (`filesystem.c` 208): `ReturnSuccess`,
  `FreeName`, `BlFindFile`.
* `BlGetFileInfo` keeps its buffer when the first `GetInfo` is refused (`filesystem.c`
  479), and its caller, told of a failure, does not free it (`image.c` 30), although
  `filesystem.h` 166 leaves that to the caller: `GetInfo` in `ImageLoader`,
  `GetInfoRefused` in `FileSystem`.
* In `filesystem.c`: `Index > HandleCount` lets one index too many through (81); a
  status is compared with `EFI_FILE_DIRECTORY`, so that `BlOpenSubDirectory` always
  fails and loses its handle, and `BlSetWorkingDirectory` never sets anything (143,
  372); a listing of which a subdirectory failed returns `TRUE` (300); `BlGetFileInfo`
  does not set the last error on success: `BlGetRootDirectoryByIndex`,
  `BlOpenSubDirectory`, `SetDirectory`, `Return`, `GetInfo`.
* `PeIsValidImage` refuses machine and magic only when both are wrong (`pe.c` 26); an
  image without a relocation directory is accepted at any place (`image.c` 276); the
  image is relocated to where it was loaded, not to where it will be mapped:
  `PeIsValidImage`, `Relocates`, `CopyHeaders`.
* The second attempt of `strfmt` has no more room than the first (`util.c` 152-171);
  `AsciiToUnicode` with a size of 0 has no limit (192); `memcmp` of equal buffers and
  `strstr` return no value (`string.c` 82, 185): `StrFmt`, `AsciiToUnicode`, `MemCmp`.

### Bounds, and why they are enough

* The list algorithms depend on a page's neighbours on the list only: with four
  pages there is a head, a middle, an end and a page off the list, and frame 4 is
  above the array. The proofs remove the bound.
* Tables with two entries have, at every level, an entry that is used and one that
  is not. Five requests need five tables and the pool has four pages, so that
  memory can run out before the first, second and third table of a call. The set is
  kept small because the refinement check walks the tables of all 16 pages in every
  state.
* `Boot` has a fan-out of three and 17 frames so that `DirectMapRange` uses huge,
  large and small pages in one run, and the switch page lies inside a huge page, as
  it does on real machines. Its pool is exactly what the sequence needs, so that every
  page the firmware takes makes some allocation fail. The section has no data in the file,
  so that `ZeroMem` clears a frame, which is neither the image's nor on the list.
* `MemoryInit` has `MaxEntries` = 3 so that a map can grow past the slack of two
  descriptors, and an array of one to three pages.
* `PeImage` has five words of three bits: sums and differences wrap in both
  directions, a section can be longer or shorter than its data, two relocations can
  name a word, and a block can lie before or behind the end of the directory.
* `FileSystem` has a tree three deep and three handles: a listing from the root fits
  just, and fails for want of a handle when the client holds one.
* `Text` has `Long` = 4 as on the build's target, and `Guess` = 5 for 256: the texts
  have 0, 1, `Guess` - 1, `Guess` and more characters.

### Fairness

The loader is straight-line code on one processor: `PageTables` asks weak fairness of
the steps inside `UefiMapTables`, `FileSystem` of the steps of a listing that has begun,
`ImageLoader` of its next step. Nothing is assumed about the firmware or the client of the
file functions. On failure paths the code waits for a key (`getc`); liveness assumes that
somebody presses it. `Boot` has no liveness property: its loops run to `MaxAddress` and to
the end of the section table.

The other configurations have no liveness. Deadlock checking is off only where the
program ends (it returns to the firmware or enters the kernel).

## 4. What is proved

Of the forty properties the passing runs check, all but the three liveness properties are
theorems, for every value of the constants.

### The allocator (`PfnAllocatorProofs`)

| Theorem | Statement | Assumes |
|---|---|---|
| `TypeCorrect` | `Spec => []TypeOK` | `SizesAssumption` |
| `ScanIsFresh` | `Spec => []ScanFresh` | `SizesAssumption` |
| `FreeListIsExact` | `Spec => []FreeListExact` | also `MemoryFits` |
| `HeldIsConsistent` | `Spec => []HeldConsistent` | also `MemoryFits` |
| `FreedIsNeverReissued` | `Spec => NeverReissued` | `SizesAssumption` |
| `AllocatorImplementsStore` | `Spec => ImplementsStore` | also `MemoryFits` |

`MemoryFits == PfnCount <= PFN_LIST_END` says that the highest free page lies below
64 GiB. It is needed: with `PfnCount = 8` and `PFN_LIST_END = 6`, page 6 at the head
of the list reads as its end.

The inductive invariant `IInv` is `TypeOK`, `LinksOK` (every offset is a page of the
array or the end mark), `FreeListExact`, `HeldConsistent` and `ScanFresh` together.
`FreeListExact` says that some sequence of `n` pages *is* the list: distinct pages,
each holding the offset of the next, the last one the end mark, and the set of its
pages exactly the `Free` ones. Alone it is not inductive: a push needs that the page is
not on the list already, which `ScanFresh` says of a page to be scanned and
`HeldConsistent` of a page to be freed. A push puts a page in front of the witness
(`PushKeepsList`), a pop drops its first page (`PopKeepsList`), every other action
leaves the array alone (`QuietKeepsList`). `ScanFresh` is inductive with the types
alone, so that it needs no bound, and `NeverReissued` needs the types only: the
firmware refuses what it counts as the loader's. The refinement needs the list to know
that its head is `Free` and that no page is `Free` when it has ended.

### The page tables (`PageTablesProofs`)

| Theorem | Statement | Assumes |
|---|---|---|
| `TypeCorrect` | `Spec => []TypeOK` | `PageTablesAssumption` |
| `OwnTablesAreReached` | `Spec => []ReachesOwnTables` | also `CleanMachine`, `ListStartsClean` |
| `TablesBelongToOnePath` | `Spec => []NoSharedTable` | the same |
| `OnlyTablesAreWritten` | `Spec => WritesOwnTables` | the same |
| `TablesImplementAddressSpace` | `Spec => ImplementsAddressSpace` | the same |
| `OnlyTheRegionChanges` | `Spec => MapsOnlyItsRegion` | the same |

`ListStartsClean`, a hypothesis on the initial state, says that the pages of the list are
zeroed (all other memory holds anything); `CleanMachine` that a local which is not set
reads 0, and that the client maps nothing inside a page that is mapped already by a larger
entry. The code ensures none of the three: it does not zero tables, it relies on the
local being 0, and `SwitchPage` is mapped inside a huge page. That is what the
hypotheses are for. They separate the algorithm, which is right under them for every
fan-out, memory and list of requests, from its three preconditions, each of which some
run drops to show what happens then: `tables_used_memory` (pages that are not zeroed),
`tables_inside` (a careless client) and `tables_any_memory` (all three). The
configuration `tables` satisfies them. Type correctness needs none of them: whatever is
overwritten, the walk stays inside memory.

The invariant is a tree by levels. `IInv` is `TypeOK`, `RootBeforeWalk`, `Tree` and
`WalkOnPath`. `Tree` says that what has a level is held (`TablesOwned`), that there is
one PML4 (`RootIsTable`) without a leaf (`RootHasNoLeaf`), that pages on the list read
as empty (`FreePagesClean`), and that links lead one level down (`LinksGoDown`), no two
to one table (`LinksDistinct`). `ReachesOwnTables` and
`NoSharedTable` speak of paths and are not inductive: a table linked below some path
must be known to be in no other, also in one that is not complete yet, which
`LinksDistinct` says entry by entry. That two pages reach the same table only when they
share the digits above it is an induction over the four levels (`TablesAreNotShared`).
`WalkOnPath` carries what the loop of `UefiMapTables` knows from one iteration to the
next. For the refinement, a step inside the loop is a stutter, because a new table maps
nothing that was not mapped (`NewTable` adds an entry on one path, to an empty table),
and the write of the leaf is the assignment of `AddressSpace` to exactly the pages
below that entry.

### The boot sequence (`BootProofs`)

| Theorem | Statement | Assumes |
|---|---|---|
| `BootTypeCorrect` | `BootSpec => []BootTypeOK` | `BootAssumption` |
| `NothingStaleAtEntry` | `BootSpec => []NoStaleTranslation` | `BootAssumption` |
| `LoaderRunsOn` | `BootSpec => []LoaderKeepsRunning` | also `SafeLayout`, `EnoughPages`, `StartsEmpty` |
| `KernelStartsMapped` | `BootSpec => []KernelIsMapped` | the same |
| `ChecksSeeTheMappings` | `BootSpec => []OwnChecksPass` | the same |

`BootTypes` adds to the types that `UefiMapTables` is never entered without a root and,
stage by stage, where `CurrentPhysical`, the section and the offset stand. It has no
hypothesis about memory: `Boot` may have used pages. `NoStaleTranslation` follows from
`AfterReload`: at the entry the loop is idle and every cached translation is what the
tables say. That is established by the second write to CR3, with nothing cached, and
kept because no step but a fill of the cache is possible afterwards.

The other three are about a program that ignores the statuses of its calls and, when it
maps the switch page, writes table entries into the data of a larger page. They say under
which circumstances it gets away with that:

* `StartsEmpty`, of the initial state: the pages of the list, of which the loader
  zeroes the PML4 only, read as empty tables, and so does the first page of the large and
  of the huge page around the switch page, which `MapPage` takes for a table
  (`StrayPages`). All other memory holds anything.
* `SafeLayout`: memory is not larger than what the tables can map one to one; the kernel
  and its stack are linked above `MaxAddress` and apart from each other; switch page,
  kernel image and list lie below it; neither the list nor the image holds the
  `StrayPages`, into which table entries are written; and the frames which `MapKernel`
  clears by mistake are none of those that must keep their content (`Kept`): the list,
  whose pages may be tables or the stack by then, the `StrayPages`, the switch page,
  and the whole image, of which the first page has the section table that `MapKernel`
  goes on reading. Without the last, `KernelIsMapped` is false: with the image in the
  frame that is cleared, the kernel is entered with its headers mapped and nothing else.
* `EnoughPages`: a page for every table, `TablesNeeded`, for the stack and for the code,
  and one for the table that is lost inside a huge page (`Astrays`).

There is no hypothesis on unset locals (`StaleSlots`, `KeepsLocal`), on the order of
the list or on the firmware: the properties themselves speak of the runs in which it takes
no page off the list (`NothingLost`). `MCBootAssumption`, in `MCBoot`, states the two
about constants of the instance of the run `boot`, whose pool is the smallest that `EnoughPages` admits, and
TLC evaluates it there; its only initial memory satisfies `StartsEmpty`. So the hypotheses
can be met, with a switch page inside a huge page.

`BootInv` is the inductive invariant, and speaks of the runs in which nothing is lost and
the sequence has not given up (`Sound`). Its parts:

* `Intact`: what was cleared is nothing that must keep its content, so that the section
  table still stands in every round of `MapKernel`.
* `Tree`, from `PageTablesProofs`, and `Progress`: which statement goes with which
  values of the loop variables, and that each status so far was a success.
* `Asked`: the call under way is the one that the statement makes.
* `Walks`: `UefiMapTables` is on the path of its page (`OnPath`), or it maps the switch
  page and has left the path at the entry of a larger page (`Astray`), whose frame is
  no table. There it finds zeroes, or the table it linked itself, which no walk of the
  processor reaches (`StrayTable`); what it writes changes no translation.
* `Shown`: below `CurrentPhysical`, then below `MaxAddress`, every page is mapped at its
  own address, larger pages lie nowhere else, and stack, code and image are mapped as
  far as the sequence has come. Since `DirectMapRange` always picks the largest mapping
  that fits (`DirectMapSizes`), the next mapping never lies inside an earlier one, and as
  the kernel is above `MaxAddress` its mappings do not either. This takes the place
  of the careful client that `CleanMachine` asks for.
* `Counted`: the pages held are at most the tables that are there, by level and region
  (`Built`), and those taken for the stack, the code and the lost table (`Extra`). Each
  step that takes a page adds a table that is needed and was not there, or one of the
  others. So the list is not empty whenever a page is asked for (`NotExhausted`), which is
  why no status is ever a failure and no unset local is read.
* `TablesBelow`, for the count: while `DirectMapRange` runs there are tables only where it
  needs them. `SwitchShown` and `CleanOutside`: how `MappingExists` gets from the entry of
  the larger page to four present entries.

`OwnChecksPass` needs the last two, because `MappingExists` and the processor take
different ways through the same memory. `PageTablesProofs` supplies what a step does to all
walks at once: a write outside the tables changes none (`WriteAside`), a new table none
that had an end (`NewTableOnPath`), a leaf those of its region only (`LeafOnPath`).

### The memory initialisation (`MemoryInitProofs`)

| Theorem | Statement |
|---|---|
| `TypeCorrect` | `Spec => []TypeOK` |
| `OwnPagesAreNotListed` | `Spec => []OwnPagesNotListed` |
| `ArrayCoversItsMap` | `Spec => []ArrayCoversMap` |
| `MapsAreLive` | `Spec => []ReadsLiveMap` |

All assume `MemoryInitAssumption`, that sizes are positive. `OwnPagesNotListed` is about
one moment, the scan; what makes it true happens six statements earlier. `IInv` adds
`SizeTold` (a size that was just queried is that of some map), `OwnPagesTaken` (the
firmware lists none of the loader's pages, and the array and the buffer share none),
`SecondMapFresh` (the map that is scanned was taken while the loader owned these pages,
and nothing is listed before), and `CountCoversMap` (from the search of the highest
page to the allocation of the array the map is the same).

### The kernel search and the loader (`ImageLoaderProofs`)

| Theorem | Statement |
|---|---|
| `TypeCorrect` | `Spec => []TypeOK` |
| `HandleIsClosed` | `Spec => []ImageHandleClosed` |
| `FaultsFollowRefusals` | `Spec => []FaultsNeedFailure` |
| `OneExitKeeps` | `Spec => OnlyFirstKeeps` |
| `ImageIsWhole` | `Spec => []InfoIsWhole` |
| `UnsetNeedsReason` | `Spec => []UnsetOnlyOnFailure` |

All assume `FilesAssumption`: sections and relocation targets lie inside the image.
`FilesInv` follows the handle, the name and the file information from the call that
sets them to the one that gives them back, together with whether the firmware has
refused anything: `InfoKnown` says at which statements of `BlGetFileInfo` and its caller
the buffer that `fileInfo` names is live, and that no other file information is. `ImageInv` describes the image at each statement. Before there are
pages it is junk (`NothingCopied`). While sections are copied, each word is what the
headers and the sections before the current one lay on it (`SectionsCopied`). While
relocations are applied, a word has been moved by the difference of the bases once for
every entry for it that has been passed, modulo the width of a word (`EntriesApplied`,
which counts entries by the cardinality of a set, because two of them may name one
word). At the end this is the definition of a whole image, in which no order of steps
appears. `SetWhenWhole` and `NotSetForReason` carry it to the result.

### The file functions (`FileSystemProofs`)

| Theorem | Statement |
|---|---|
| `TypeCorrect` | `Spec => []TypeOK` |
| `StackStaysOpen` | `Spec => []DirectoriesStayOpen` |
| `ErrorFitsResult` | `Spec => []LastErrorAgrees` |
| `NothingElseLoses` | `Spec => OnlyTheseLose` |
| `ListsTheTree` | `Spec => []ListingFaithful` |

All assume `FileSystemAssumption`: the volumes are trees, no node of which has two
places and no directory of which is below itself, as on the FAT volumes of UEFI, which
have no links. They hold for every tree, depth and number of handles and buffers. `IInv` has
five parts. `HandlesInv` and `StackInv` say whose the open handles are: the current
directory's, the client's, or one activation's of the recursion each, of which the first
alone has a handle that is not its own. `PoolInv` says that live buffers are at least
those owed by the client, those of the activations that have theirs (`Busy`) and the one
of a call of `BlGetFileInfo` that is asking (`Informed`).
`CallInv` ties the last error to the result, and `PrintInv` types the output. For
`NothingElseLoses` the handles and buffers that nobody can return are counted:
`Unreachable` handles, and buffers `Unowned = pool - owed - Busy - Informed`; each step but
the named ones leaves both as they were, those of the second attempt of `BlGetFileInfo`
included (`InfoKeepsOrLoses`).

`ListsTheTree` has an invariant of its own, `ListInv`. While the recursion is in the
directories `Trail`, in each of which it has come to the entry `Reach`, `Follows` says
that `Trail` is a way down the tree, that each of its directories has its line with only
deeper lines after it (`OnLine`), and that no line shows an entry past `Reach`
(`NotBeyond`). Two facts about the tree then give the order: a line shows the entry of
one directory only (`OnePlace`), and no way down leads back to where it began
(`NoWayBack`), so that an entry come to for the first time, and everything below it, has
no line yet (`EntryIsNew`). As long as nothing has failed, `LeavesNoneOut` says that
everything up to `Reach` has its line, and everything in the directories that were left.

### The text functions (`TextProofs`)

| Theorem | Statement |
|---|---|
| `TypeCorrect` | `Spec => []TypeOK` |
| `CopiesAreExact` | `Spec => []CopiesExactly` |
| `FirstAndLastAreFound` | `Spec => []FindsFirstAndLast` |
| `OrderIsThatOfDictionary` | `Spec => []ComparesLikeDictionary` |
| `TextsFit` | `Spec => []TextFits` |
| `DecimalsAreExact` | `Spec => []DecimalExact` |

All assume `TextAssumption`. A behaviour is one call, so that the invariant `AnswerInv` is
simple: the memory is untouched until there is an answer, and the answer is right. The
work is in the functions: a lemma for each says what it returns and writes, for every
memory and argument.

A loop that searches is a recursive function over all numbers. `Numbers!SearchExists`
shows that there is such a function and `SearchFinds` that its value is that of the first
place where the loop stops; with the end of the string, or the difference, as that place,
`strlen`, `strchr`, `strcmp`, `strcompare` and `memcmp` follow. A loop that counts is a
recursive function over `0..n` (`LoopExists`); `strrchr` and the two number loops are
inductions over it. `CopyIs` shows that a loop which copies unit by unit, each read before
it is written, copies all at once when the ranges are apart, and `CopiedInParts` that two
such copies in a row are one: bytes up to an aligned destination, longs, and the bytes
left are then the whole range, for every width of a long. `strlcpy`, `strcopy` and
`AsciiToUnicode` all leave a `Prefix` of the source, of the length `Kept` says. For the
decimal output, the digits that the loop has left to write after `p` rounds are those of
what is left of the number (`DigitsOfIs`).

### How inductions are stated

The provers cannot instantiate the induction schemes of the library, which take a
predicate. `Numbers!AllNaturals` states induction for sets (a set of numbers with 0 and,
with each, its successor, is `Nat`), which comes from the library's theorem that `<` is
well-founded; every induction here is an instance of it.

### Only model-checked

* Liveness: `CallsReturn`, `LoadEnds`, `ListingEnds`. ENABLED and fairness are
  out of the prover's reach.

The violation runs refute; `MapsOnlyItsRegion`, which `tables_used_memory` refutes, is
proved under the hypothesis that run drops.

## 5. What is not modelled

* Contents of pages other than as tables, and of the image other than as words; files
  that contradict themselves (a relocation block smaller than its header, sections
  over the headers); what the firmware does with a wrong argument.
* `SsFreePhysicalPage` for a page that is not the caller's: it has no caller.
* Multiprocessors: the other processors are parked by the firmware.
* The kernel's benchmark: it writes one byte to each of its pages, calls it and reads
  the clock. Its property is a duration, which no state shows; that its pages cannot be
  written is in `Boot`.
* `getc`, `DumpPage`, `InitalSetup` and `UefiUnload`, which wait, print or do nothing;
  `UnmapPage`, `strstr` and `archx64`, which are empty; `__switchcr3`, which nothing
  calls. `strcopy` is modelled for strings that do not overlap.
* The EDK2 headers under `src/bootloader/edk2` and the other vendored code: third-party
  declarations, with no behaviour of this program. They are almost all of the
  repository's lines, of which the modelled part is therefore a small share; of the
  program's own C files nearly every function is modelled.
* That the loader, the kernel image and the firmware's own memory lie below
  `MaxAddress`; `Boot` assumes it, nothing in the code checks it.

## 6. Plan

In the order of the importance of what they say:

1. Done: `PfnAllocator`, `PageTables`, `Boot`, `MemoryInit`, `FileSystem`, `PeImage` under
   `ImageLoader`, `Text`.
2. Done: the theorems of section 4.
3. Left: liveness as a theorem, once the provers can handle fairness.
