----------------------------- MODULE BootProofs -----------------------------
(* For every memory, kernel image and layout of the virtual pages: the boot   *)
(* sequence keeps the types of its variables, and the kernel starts without   *)
(* a cached translation that is older than the tables. Where the layout is    *)
(* safe and the list of free pages long enough, UefiMain may ignore what its  *)
(* calls return: the loader keeps running, and the kernel is entered mapped.  *)
EXTENDS Boot, PageTablesProofs, FiniteSetTheorems

-----------------------------------------------------------------------------
(* What the processor's walk returns, on any tables. *)

Translation == [mapped : BOOLEAN, frame : Nat, rw : BOOLEAN]

\* Each table on a path is a frame, and its entries are entries.
LEMMA TablesAreFrames ==
    ASSUME TypeOK, NEW v \in Pages
    PROVE  \A j \in 0..3 : /\ TableAt(v, j) \in Frames \cup {NoTable}
                           /\ TableAt(v, j) # NoTable => EntryAt(v, j) \in Entry
<1>1. ASSUME NEW j \in 0..3, TableAt(v, j) \in Frames \cup {NoTable}
      PROVE  TableAt(v, j) # NoTable => EntryAt(v, j) \in Entry
  BY <1>1, IndexInTable DEF TypeOK, Content, EntryAt
<1>2. TableAt(v, 0) \in Frames \cup {NoTable}
  BY PathByLevel DEF PathSteps, TypeOK
<1>3. ASSUME NEW j \in 0..2, TableAt(v, j) \in Frames \cup {NoTable}
      PROVE  TableAt(v, j + 1) \in Frames \cup {NoTable}
  <2>1. TableAt(v, j) # NoTable => EntryAt(v, j).frame \in Frames
    BY <1>1, <1>3 DEF Entry
  <2>2. TableAt(v, j + 1) = IF TableAt(v, j) # NoTable /\ EntryAt(v, j).p
                               /\ ~EntryAt(v, j).ps
                            THEN EntryAt(v, j).frame ELSE NoTable
    BY PathByLevel DEF PathSteps
  <2> QED
    BY <2>1, <2>2
<1>4. TableAt(v, 1) \in Frames \cup {NoTable}
  BY <1>2, <1>3
<1>5. TableAt(v, 2) \in Frames \cup {NoTable}
  BY <1>3, <1>4
<1>6. TableAt(v, 3) \in Frames \cup {NoTable}
  BY <1>3, <1>5
<1> QED
  BY <1>1, <1>2, <1>4, <1>5, <1>6

LEMMA WalkTypes ==
    ASSUME TypeOK, NEW v \in Pages
    PROVE  HwWalk(v) \in Translation
<1>1. CASE \A j \in 1..3 : ~EndsOn(Path(v), v, j)
  <2>1. HwWalk(v) = Unmapped
    BY <1>1, WalksAre DEF WalksEnd
  <2> QED
    BY <2>1 DEF Unmapped, Translation
<1>2. ASSUME NEW j \in 1..3, EndsOn(Path(v), v, j)
      PROVE  HwWalk(v) \in Translation
  <2> DEFINE granted == \A l \in 0..j : EntryAt(v, l).rw
  <2>1. HwWalk(v) = [mapped |-> TRUE, frame |-> EntryAt(v, j).frame + Low(v, j),
                     rw |-> granted]
    BY <1>2, WalksAre DEF WalksEnd
  <2>2. TableAt(v, j) # NoTable
    BY <1>2, EndsAreByLevel DEF EndsByLevel
  <2>3. EntryAt(v, j).frame \in Nat
    BY <2>2, TablesAreFrames DEF Entry, Frames
  <2>4. Low(v, j) \in Nat
    <3>1. v \in Nat /\ Span(j) \in Nat \ {0}
      BY PagesAreNumbers, SpanPositive
    <3> QED
      BY <3>1 DEF Low
  <2>5. granted \in BOOLEAN
    OBVIOUS
  <2> HIDE DEF granted
  <2> QED
    BY <2>1, <2>3, <2>4, <2>5 DEF Translation
<1> QED
  BY <1>1, <1>2

-----------------------------------------------------------------------------
(* Type correctness. *)

\* The counters and registers of the boot sequence.
BootVariables ==
    /\ at \in Stages
    /\ cur \in 0..FrameCount
    /\ page \in Frames
    /\ sec \in 0..(Len(Sections) + 1)
    /\ off \in 0..FrameCount
    /\ cr3 \in Frames \cup {NoTable}
    /\ tlb \in [Touched -> Translation]

BootTypes == TypeOK /\ RootBeforeWalk /\ BootVariables

LEMMA SectionCount == Len(Sections) \in Nat
  BY BootAssumption

\* What MapKernel clears are frames.
ClearedOK == cleared \subseteq Frames

LEMMA ClearedGrows ==
    [BootNext]_allVars => cleared' = cleared \/ cleared' = cleared \cup ZeroedFor(sec')
<1> SUFFICES ASSUME [BootNext]_allVars
             PROVE  cleared' = cleared \/ cleared' = cleared \cup ZeroedFor(sec')
  OBVIOUS
<1>1. CASE PagingStep
  BY <1>1 DEF PagingStep
<1>2. CASE DirectMapStep \/ MapStack \/ MapCode \/ MapSwitchPage \/ MapKernelPage
  BY <1>2 DEF DirectMapStep, MapStack, MapCode, MapSwitchPage, MapKernelPage
<1>3. CASE DirectMapDone \/ MapKernelReturn \/ StallFails \/ PageFault \/ WriteCr3 \/ ReloadCr3
  BY <1>3 DEF DirectMapDone, MapKernelReturn, StallFails, PageFault, WriteCr3, ReloadCr3, LoadCr3
<1>4. CASE AllocateStack \/ AllocateCode \/ CopyCode
  BY <1>4 DEF AllocateStack, AllocateCode, TakePage, CopyCode
<1>5. CASE MapKernelNextSection
  BY <1>5 DEF MapKernelNextSection, StartSection
<1>6. CASE UNCHANGED allVars \/ \E v \in Touched : TlbFill(v)
  BY <1>6 DEF TlbFill, allVars, boot
<1> QED
  BY <1>1, <1>2, <1>3, <1>4, <1>5, <1>6 DEF BootNext, BootSteps

LEMMA BootSpecCleared == BootSpec => []ClearedOK
<1>1. BootInit => ClearedOK
  BY DEF BootInit, ClearedOK
<1>2. ClearedOK /\ [BootNext]_allVars => ClearedOK'
  BY ClearedGrows DEF ClearedOK, ZeroedFor
<1> QED
  BY <1>1, <1>2, PTL DEF BootSpec

LEMMA PartTypes ==
    ASSUME NEW n \in 0..Len(Sections)
    PROVE  Part(n).rva \in Nat /\ Part(n).size \in Nat
<1>1. CASE n = 0
  BY <1>1, BootAssumption DEF Part
<1>2. CASE n # 0
  <2>1. n \in 1..Len(Sections)
    BY <1>2, SectionCount
  <2>2. \A S : \A s \in Seq(S) : \A k \in 1..Len(s) : s[k] \in S
    OBVIOUS
  <2>3. Sections[n] \in [rva : Nat, size : Nat, raw : Nat, writable : BOOLEAN]
    BY <2>1, <2>2, BootAssumption
  <2> QED
    BY <1>2, <2>3 DEF Part
<1> QED
  BY <1>1, <1>2

LEMMA BootInitTypes == BootInit => BootTypes
<1> SUFFICES ASSUME BootInit PROVE BootTypes
  OBVIOUS
<1>1. TypeOK /\ RootBeforeWalk
  BY InitTypes DEF BootInit
<1>2. Unmapped \in Translation
  BY DEF Unmapped, Translation
<1>3. FrameCount \in Nat
  BY PageTablesAssumption
<1>4. at \in Stages
  BY DEF BootInit, Stages
<1>5. tlb \in [Touched -> Translation]
  BY <1>2 DEF BootInit, NoTranslation
<1> QED
  BY <1>1, <1>3, <1>4, <1>5, ZeroIsFrame, SectionCount DEF BootInit, BootTypes, BootVariables

\* A mapping is one step of PageTables.
LEMMA CallTypes ==
    ASSUME TypeOK, RootBeforeWalk, NEW r, Call(r)
    PROVE  TypeOK' /\ RootBeforeWalk'
<1>1. r \in Requests
  BY DEF Call
<1> QED
  BY <1>1, NextTypes DEF Next

\* The size that DirectMapRange picks still fits.
LEMMA LargestFits ==
    ASSUME NEW n \in Nat \ {0}
    PROVE  Largest(n) \in 1..3 /\ Span(Largest(n)) \in Nat /\ Span(Largest(n)) <= n
<1>1. Span(1) \in Nat /\ Span(2) \in Nat /\ Span(3) = 1
  BY SpanPositive DEF Span
<1> QED
  BY <1>1 DEF Largest

LEMMA DirectMapTypes ==
    ASSUME BootTypes, DirectMapStep
    PROVE  BootTypes'
<1> DEFINE e == Largest(MaxFrame - cur)
<1>1. PICK r : Call(r)
  BY DEF DirectMapStep
<1>2. TypeOK' /\ RootBeforeWalk'
  BY <1>1, CallTypes DEF BootTypes
<1>3. cur' \in 0..FrameCount
  <2>1. cur < MaxFrame /\ cur' = cur + Span(e)
    BY DEF DirectMapStep
  <2>2. cur \in Nat /\ MaxFrame \in Nat /\ MaxFrame <= FrameCount /\ FrameCount \in Nat
    BY BootAssumption, PageTablesAssumption DEF BootTypes, BootVariables
  <2>3. MaxFrame - cur \in Nat \ {0}
    BY <2>1, <2>2
  <2>4. Span(e) \in Nat /\ Span(e) <= MaxFrame - cur
    BY <2>3, LargestFits
  <2> HIDE DEF e
  <2>5. PICK s \in Nat : s = Span(e)
    BY <2>4
  <2>6. s <= MaxFrame - cur
    BY <2>4, <2>5
  <2> QED
    BY <2>1, <2>2, <2>5, <2>6
<1>4. UNCHANGED <<at, page, sec, off, cpu>>
  BY DEF DirectMapStep
<1> QED
  BY <1>2, <1>3, <1>4 DEF BootTypes, BootVariables, cpu

\* MapStack, MapCode, MapSwitchPage: a mapping, then the next statement.
LEMMA MapOnceTypes ==
    ASSUME BootTypes, MapStack \/ MapCode \/ MapSwitchPage
    PROVE  BootTypes'
<1>1. PICK r : Call(r)
  BY DEF MapStack, MapCode, MapSwitchPage
<1>2. TypeOK' /\ RootBeforeWalk'
  BY <1>1, CallTypes DEF BootTypes
<1>3. at' \in Stages /\ UNCHANGED <<cur, page, sec, off, cpu>>
  BY DEF MapStack, MapCode, MapSwitchPage, Stages
<1> QED
  BY <1>2, <1>3 DEF BootTypes, BootVariables, cpu

\* A page of the image that was mapped lies inside physical memory, so its offset
\* does.
LEMMA MapKernelPageTypes ==
    ASSUME BootTypes, MapKernelPage
    PROVE  BootTypes'
<1> DEFINE f == KernelImage + Part(sec).rva + off
<1> DEFINE r == Map4K(KernelBase + Part(sec).rva + off, f, Part(sec).rw)
<1>1. Call(r) /\ sec <= Len(Sections)
  BY DEF MapKernelPage
<1>2. TypeOK' /\ RootBeforeWalk'
  BY <1>1, CallTypes DEF BootTypes
<1>3. off' \in 0..FrameCount
  <2>1. r.pa \in Frames
    BY <1>1, RequestTypes DEF Call
  <2>2. f \in Frames
    BY <2>1 DEF Map4K
  <2>3. sec \in 0..Len(Sections) /\ off \in Nat
    BY <1>1, SectionCount DEF BootTypes, BootVariables
  <2>4. PICK a \in Nat : a = Part(sec).rva
    BY <2>3, PartTypes
  <2>5. KernelImage \in Nat /\ FrameCount \in Nat
    BY BootAssumption, PageTablesAssumption DEF Frames
  <2>6. KernelImage + a + off <= FrameCount - 1
    BY <2>2, <2>4 DEF Frames
  <2>7. off <= FrameCount - 1
    BY <2>3, <2>4, <2>5, <2>6
  <2>8. off' = off + 1
    BY DEF MapKernelPage
  <2> QED
    BY <2>3, <2>5, <2>7, <2>8
<1>4. UNCHANGED <<at, cur, page, sec, cpu>>
  BY DEF MapKernelPage
<1> QED
  BY <1>2, <1>3, <1>4 DEF BootTypes, BootVariables, cpu

\* Pages of memory that the sequence writes itself are contents of pages.
LEMMA WriteTypes ==
    ASSUME TypeOK, RootBeforeWalk, mem' \in [Frames -> Content],
           UNCHANGED <<root, level, store, pc, walk, status>>
    PROVE  TypeOK' /\ RootBeforeWalk'
<1>1. Store!TypeOK'
  BY DEF TypeOK, store, Store!TypeOK
<1> QED
  BY <1>1 DEF TypeOK, RootBeforeWalk, walk

LEMMA CopyCodeTypes ==
    ASSUME BootTypes, CopyCode
    PROVE  BootTypes'
<1>1. mem' \in [Frames -> Content]
  BY BootAssumption DEF BootTypes, TypeOK, CopyCode
<1>2. TypeOK' /\ RootBeforeWalk'
  BY <1>1, WriteTypes DEF BootTypes, CopyCode
<1>3. at' \in Stages /\ UNCHANGED <<cur, page, sec, off, cpu>>
  BY DEF CopyCode, Stages
<1> QED
  BY <1>2, <1>3 DEF BootTypes, BootVariables, cpu

LEMMA NextSectionTypes ==
    ASSUME BootTypes, MapKernelNextSection
    PROVE  BootTypes'
<1>1. mem' \in [Frames -> Content]
  BY ZeroPageIsContent DEF BootTypes, TypeOK, MapKernelNextSection, StartSection
<1>2. TypeOK' /\ RootBeforeWalk'
  BY <1>1, WriteTypes DEF BootTypes, MapKernelNextSection
<1>3. sec' \in 0..(Len(Sections) + 1) /\ off' \in 0..FrameCount
  <2>1. sec' = sec + 1 \/ sec' = Len(Sections) + 1
    BY DEF MapKernelNextSection, StartSection
  <2>2. sec \in 0..(Len(Sections) + 1) /\ sec <= Len(Sections) /\ off' = 0
    BY DEF MapKernelNextSection, StartSection, BootTypes, BootVariables
  <2> QED
    BY <2>1, <2>2, SectionCount, PageTablesAssumption
<1>4. UNCHANGED <<at, cur, page, cpu>>
  BY DEF MapKernelNextSection
<1> QED
  BY <1>2, <1>3, <1>4 DEF BootTypes, BootVariables, cpu

LEMMA TakePageTypes ==
    ASSUME BootTypes, NEW from, NEW to \in Stages, TakePage(from, to)
    PROVE  BootTypes'
<1>1. Store!TypeOK' /\ page' \in Frames
  <2>1. Store!TypeOK
    BY DEF BootTypes, TypeOK
  <2>2. CASE \E f \in Frames : AllocatePage(f) /\ page' = f
    BY <2>1, <2>2, StoreTypes
  <2>3. CASE AllocateFails /\ page' \in StaleSlots
    BY <2>1, <2>3, StoreTypes, PageTablesAssumption
  <2> QED
    BY <2>2, <2>3 DEF TakePage
<1>2. at' = to /\ UNCHANGED <<mem, root, level, pc, walk, status, cur, sec, off, cpu>>
  BY DEF TakePage
<1>3. TypeOK' /\ RootBeforeWalk'
  BY <1>1, <1>2 DEF BootTypes, TypeOK, RootBeforeWalk, walk
<1> QED
  BY <1>1, <1>2, <1>3 DEF BootTypes, BootVariables, cpu

LEMMA SameTypes ==
    ASSUME TypeOK, RootBeforeWalk, UNCHANGED vars
    PROVE  TypeOK' /\ RootBeforeWalk'
  BY NextTypes

LEMMA PagingStepTypes ==
    ASSUME BootTypes, PagingStep
    PROVE  BootTypes'
<1>1. TypeOK' /\ RootBeforeWalk'
  BY NextTypes DEF BootTypes, PagingStep, Next
<1>2. at' \in Stages
  BY DEF PagingStep, BootTypes, BootVariables, Stages
<1>3. UNCHANGED <<cur, page, sec, off, cpu>>
  BY DEF PagingStep
<1> QED
  BY <1>1, <1>2, <1>3 DEF BootTypes, BootVariables, cpu

\* The steps between the calls.
LEMMA PlainTypes ==
    ASSUME BootTypes,
           DirectMapDone \/ MapKernelReturn \/ StallFails \/ PageFault
    PROVE  BootTypes'
<1>1. at' \in Stages /\ UNCHANGED <<vars, cur, page, sec, off, cpu>>
  BY DEF DirectMapDone, MapKernelReturn, StallFails, PageFault, Stages
<1>2. TypeOK' /\ RootBeforeWalk'
  BY <1>1, SameTypes DEF BootTypes
<1> QED
  BY <1>1, <1>2 DEF BootTypes, BootVariables, cpu

LEMMA LoadCr3Types ==
    ASSUME BootTypes, NEW from, NEW to \in Stages, LoadCr3(from, to)
    PROVE  BootTypes'
<1>1. UNCHANGED <<vars, cur, page, sec, off>> /\ at' = to /\ cr3' = root
      /\ tlb' = NoTranslation
  BY DEF LoadCr3
<1>2. TypeOK' /\ RootBeforeWalk'
  BY <1>1, SameTypes DEF BootTypes
<1>3. root \in Frames \cup {NoTable}
  BY DEF BootTypes, TypeOK
<1>4. tlb' \in [Touched -> Translation]
  BY <1>1 DEF NoTranslation, Unmapped, Translation
<1> QED
  BY <1>1, <1>2, <1>3, <1>4 DEF BootTypes, BootVariables

LEMMA TlbFillTypes ==
    ASSUME BootTypes, NEW v \in Touched, TlbFill(v)
    PROVE  BootTypes'
<1>1. HwWalk(v) \in Translation
  BY BootAssumption, WalkTypes DEF BootTypes
<1>2. tlb' \in [Touched -> Translation]
  BY <1>1 DEF TlbFill, BootTypes, BootVariables
<1>3. UNCHANGED <<vars, boot, cr3>>
  BY DEF TlbFill
<1>4. TypeOK' /\ RootBeforeWalk'
  BY <1>3, SameTypes DEF BootTypes
<1> QED
  BY <1>2, <1>3, <1>4 DEF BootTypes, BootVariables, boot

LEMMA BootNextTypes == BootTypes /\ [BootNext]_allVars => BootTypes'
<1> SUFFICES ASSUME BootTypes, [BootNext]_allVars PROVE BootTypes'
  OBVIOUS
<1>1. CASE PagingStep
  BY <1>1, PagingStepTypes
<1>2. CASE DirectMapStep \/ MapStack \/ MapCode \/ MapSwitchPage \/ MapKernelPage
  BY <1>2, DirectMapTypes, MapOnceTypes, MapKernelPageTypes
<1>3. CASE DirectMapDone \/ MapKernelReturn \/ StallFails \/ PageFault
  BY <1>3, PlainTypes
<1>4. CASE WriteCr3 \/ ReloadCr3
  BY <1>4, LoadCr3Types DEF WriteCr3, ReloadCr3, Stages
<1>5. CASE AllocateStack \/ AllocateCode
  BY <1>5, TakePageTypes DEF AllocateStack, AllocateCode, Stages
<1>6. CASE CopyCode \/ MapKernelNextSection
  BY <1>6, CopyCodeTypes, NextSectionTypes
<1>7. CASE \E v \in Touched : TlbFill(v)
  BY <1>7, TlbFillTypes
<1>8. CASE UNCHANGED allVars
  <2>1. TypeOK' /\ RootBeforeWalk'
    BY <1>8, SameTypes DEF BootTypes, allVars
  <2> QED
    BY <1>8, <2>1 DEF BootTypes, BootVariables, allVars, boot, cpu
<1> QED
  BY <1>1, <1>2, <1>3, <1>4, <1>5, <1>6, <1>7, <1>8 DEF BootNext, BootSteps

LEMMA BootSpecTypes == BootSpec => []BootTypes
  BY BootInitTypes, BootNextTypes, PTL DEF BootSpec

\* DirectMapRange ends exactly at MaxAddress at the latest, MapKernel leaves neither
\* the section table nor physical memory, and what a call finds in an unset local is
\* a page all the same (UefiMain.c 356-434, pagemanager.h 254-275).
THEOREM BootTypeCorrect == BootSpec => []BootTypeOK
<1>1. BootTypes /\ ClearedOK => BootTypeOK
  BY DEF BootTypes, BootVariables, BootTypeOK, ClearedOK, Translation
<1> QED
  BY <1>1, BootSpecTypes, BootSpecCleared, PTL

-----------------------------------------------------------------------------
(* Cached translations. *)

\* Once the kernel is entered the loader is in no call, and what the processor
\* cached since CR3 was loaded again is what the tables say.
AfterReload ==
    at = "entry" =>
        /\ pc = "idle"
        /\ \A v \in Touched : tlb[v] # Unmapped => tlb[v] = HwWalk(v)

LEMMA FillIsFresh ==
    ASSUME BootTypes, AfterReload, NEW v \in Touched, TlbFill(v)
    PROVE  AfterReload'
<1> SUFFICES ASSUME at' = "entry"
             PROVE  /\ pc' = "idle"
                    /\ \A w \in Touched : tlb'[w] # Unmapped => tlb'[w] = HwWalk(w)'
  BY DEF AfterReload
<1>1. UNCHANGED <<mem, root, pc, at>>
  BY DEF TlbFill, vars, boot
<1>2. \A w \in Touched : HwWalk(w)' = HwWalk(w)
  BY <1>1, SamePaths, BootAssumption
<1>3. tlb' = [tlb EXCEPT ![v] = HwWalk(v)] /\ tlb \in [Touched -> Translation]
  BY DEF TlbFill, BootTypes, BootVariables
<1> QED
  BY <1>1, <1>2, <1>3 DEF AfterReload

LEMMA NextIsFresh == BootTypes /\ AfterReload /\ [BootNext]_allVars => AfterReload'
<1> SUFFICES ASSUME BootTypes, AfterReload, [BootNext]_allVars PROVE AfterReload'
  OBVIOUS
<1>1. CASE PagingStep
  <2>1. pc \in {"start", "walk"}
    BY <1>1 DEF PagingStep, Paging, SsPagingInit, SsPagingInitStale, SsPagingInitFails,
                SetRoot, Descend, NoMemory, WriteLeaf, NewTable, StaleTable, Link
  <2>2. at # "entry"
    BY <2>1 DEF AfterReload
  <2>3. at' # "entry"
    BY <1>1, <2>2 DEF PagingStep
  <2> QED
    BY <2>3 DEF AfterReload
<1>2. CASE DirectMapStep \/ MapKernelPage \/ MapKernelNextSection
  <2>1. at' # "entry"
    BY <1>2 DEF DirectMapStep, MapKernelPage, MapKernelNextSection
  <2> QED
    BY <2>1 DEF AfterReload
<1>3. CASE MapStack \/ MapCode \/ MapSwitchPage \/ DirectMapDone \/ MapKernelReturn
           \/ StallFails \/ PageFault \/ WriteCr3 \/ AllocateStack \/ AllocateCode \/ CopyCode
  <2>1. at' # "entry"
    BY <1>3 DEF MapStack, MapCode, MapSwitchPage, DirectMapDone, MapKernelReturn, StallFails,
                PageFault, WriteCr3, LoadCr3, AllocateStack, AllocateCode, TakePage, CopyCode
  <2> QED
    BY <2>1 DEF AfterReload
<1>4. CASE ReloadCr3
  <2>1. pc' = "idle" /\ tlb' = NoTranslation
    BY <1>4 DEF ReloadCr3, LoadCr3, vars
  <2>2. \A v \in Touched : tlb'[v] = Unmapped
    BY <2>1 DEF NoTranslation
  <2> QED
    BY <2>1, <2>2 DEF AfterReload
<1>5. CASE \E v \in Touched : TlbFill(v)
  BY <1>5, FillIsFresh
<1>6. CASE UNCHANGED allVars
  <2>1. UNCHANGED <<mem, root, pc, at, tlb>>
    BY <1>6 DEF allVars, vars, boot, cpu
  <2>2. \A v \in Touched : HwWalk(v)' = HwWalk(v)
    BY <2>1, SamePaths, BootAssumption
  <2> QED
    BY <2>1, <2>2 DEF AfterReload
<1> QED
  BY <1>1, <1>2, <1>3, <1>4, <1>5, <1>6 DEF BootNext, BootSteps

\* KERNEL_VA_BASE is mapped twice and no page is invalidated, yet the kernel starts
\* with no translation older than the tables, whatever the processor cached on the
\* way and whatever the tables are: CR3 is loaded again after the last mapping
\* (UefiMain.c 392, 426, 434).
THEOREM NothingStaleAtEntry == BootSpec => []NoStaleTranslation
<1>1. BootInit => AfterReload
  BY DEF BootInit, AfterReload
<1>2. AfterReload => NoStaleTranslation
  BY DEF AfterReload, NoStaleTranslation
<1> QED
  BY <1>1, <1>2, BootSpecTypes, NextIsFresh, PTL DEF BootSpec

-----------------------------------------------------------------------------
(* Where the mappings of DirectMapRange begin and end. *)

\* Dividing a natural number leaves natural numbers.
LEMMA DivideNatural ==
    ASSUME NEW v \in Nat, NEW d \in Nat \ {0}
    PROVE  /\ v \div d \in Nat /\ v % d \in 0..(d - 1)
           /\ d * (v \div d) \in Nat /\ v = d * (v \div d) + (v % d)
<1> DEFINE q == v \div d
<1> DEFINE r == v % d
<1>1. q \in Int /\ r \in 0..(d - 1) /\ v = d * q + r
  OBVIOUS
<1>2. v \div d = q /\ v % d = r
  OBVIOUS
<1> HIDE DEF q, r
<1>3. d * q \in Int
  BY <1>1
<1>4. q >= 0
  <2> SUFFICES ASSUME q <= -1 PROVE FALSE
    BY <1>1
  <2>1. d * q <= -d
    BY <1>1
  <2> QED
    BY <1>1, <1>3, <2>1
<1>5. d * q >= 0
  BY <1>1, <1>4
<1> QED
  BY <1>1, <1>2, <1>3, <1>4, <1>5

\* A page number is the first page of its mapping and an offset in it.
LEMMA BaseFacts ==
    ASSUME NEW v \in Nat, NEW j \in 0..3
    PROVE  /\ Base(v, j) \in Nat /\ Low(v, j) \in 0..(Span(j) - 1)
           /\ Base(v, j) <= v /\ v < Base(v, j) + Span(j)
           /\ v = Base(v, j) + Low(v, j)
           /\ v \div Span(j) \in Nat /\ Base(v, j) = Span(j) * (v \div Span(j))
<1>1. PICK s \in Nat \ {0} : s = Span(j)
  BY SpanPositive
<1>2. /\ v \div s \in Nat /\ v % s \in 0..(s - 1)
      /\ s * (v \div s) \in Nat /\ v = s * (v \div s) + (v % s)
  BY DivideNatural
<1>3. PICK n \in Nat, r \in 0..(s - 1) : n = s * (v \div s) /\ r = v % s
  BY <1>2
<1>4. v = n + r /\ Low(v, j) = r
  BY <1>1, <1>2, <1>3 DEF Low
<1>5. Base(v, j) = n
  BY <1>4 DEF Base
<1>6. n <= v /\ v < n + s
  BY <1>4
<1>7. v \div Span(j) \in Nat /\ n = Span(j) * (v \div Span(j))
  BY <1>1, <1>2, <1>3
<1> QED
  BY <1>1, <1>3, <1>4, <1>5, <1>6, <1>7

\* Pages with the same part have the same first page.
LEMMA SameBase ==
    ASSUME NEW v \in Nat, NEW w \in Nat, NEW j \in 0..3, v \div Span(j) = w \div Span(j)
    PROVE  Base(v, j) = Base(w, j)
<1>1. Base(v, j) = Span(j) * (v \div Span(j)) /\ Base(w, j) = Span(j) * (w \div Span(j))
  BY BaseFacts
<1> QED
  BY <1>1

\* A mapping covers the pages from its first to its last.
LEMMA CoveredByAligned ==
    ASSUME NEW c \in Nat, NEW e \in 1..3, Low(c, e) = 0, NEW v \in Nat
    PROVE  /\ Covers(c, e, v) <=> c <= v /\ v < c + Span(e)
           /\ Covers(c, e, v) => Base(v, e) = c /\ Low(v, e) = v - c
<1>0. e \in 0..3
  OBVIOUS
<1>1. PICK s \in Nat \ {0} : s = Span(e)
  BY <1>0, SpanPositive
<1>2. Base(c, e) = c /\ c = s * (c \div s)
  <2>1. Base(c, e) = c
    BY DEF Base
  <2> QED
    BY <1>0, <1>1, <2>1, BaseFacts
<1>3. ASSUME Covers(c, e, v) PROVE Base(v, e) = c /\ Low(v, e) = v - c
                                   /\ c <= v /\ v < c + s
  <2>1. Base(v, e) = Base(c, e)
    BY <1>0, <1>3, SameBase DEF Covers
  <2>2. Base(v, e) = c
    BY <1>2, <2>1
  <2>3. /\ Low(v, e) \in 0..(Span(e) - 1) /\ Base(v, e) <= v
        /\ v < Base(v, e) + Span(e) /\ v = Base(v, e) + Low(v, e)
    BY <1>0, BaseFacts
  <2>4. PICK l \in Nat : l = Low(v, e)
    BY <1>1, <2>3
  <2>5. v = c + l
    BY <2>2, <2>3, <2>4
  <2> QED
    BY <1>1, <2>2, <2>3, <2>4, <2>5
<1>4. ASSUME c <= v, v < c + s PROVE Covers(c, e, v)
  <2>1. PICK a \in Int : a = c \div s
    BY <1>1
  <2>2. PICK r \in 0..(s - 1) : v = c + r
    <3>1. v - c \in 0..(s - 1) /\ v = c + (v - c)
      BY <1>1, <1>4
    <3> QED
      BY <3>1
  <2>3. v = s * a + r
    BY <1>2, <2>1, <2>2
  <2>4. (s * a + r) \div s = a
    BY <1>1, QuotientIs
  <2> QED
    BY <1>1, <2>1, <2>3, <2>4 DEF Covers
<1> QED
  BY <1>1, <1>3, <1>4

LEMMA CoversItself ==
    ASSUME NEW u \in Nat, NEW v \in Nat
    PROVE  Covers(u, 3, v) <=> v = u
<1>1. Span(3) = 1
  BY DEF Span
<1>2. u \div 1 = u /\ v \div 1 = v
  OBVIOUS
<1> QED
  BY <1>1, <1>2 DEF Covers

\* First pages are in the order of the pages.
LEMMA BaseOrder ==
    ASSUME NEW v \in Nat, NEW w \in Nat, NEW j \in 0..3, v <= w
    PROVE  Base(v, j) <= Base(w, j)
<1>1. PICK s \in Nat \ {0} : s = Span(j)
  BY SpanPositive
<1>2. PICK a \in Nat, b \in Nat : a = v \div s /\ b = w \div s
  BY <1>1, BaseFacts
<1>3. Base(v, j) = s * a /\ Base(w, j) = s * b /\ s * a <= v /\ w < s * b + s
  BY <1>1, <1>2, BaseFacts
<1>4. a <= b
  <2> SUFFICES ASSUME a >= b + 1 PROVE FALSE
    BY <1>2
  <2>1. s * a >= s * (b + 1)
    BY <1>1, <1>2
  <2>2. s * (b + 1) = s * b + s
    BY <1>1, <1>2
  <2>3. s * a \in Int /\ s * b \in Int
    BY <1>1, <1>2
  <2> QED
    BY <1>3, <2>1, <2>2, <2>3
<1>5. s * a <= s * b
  BY <1>1, <1>2, <1>4
<1> QED
  BY <1>3, <1>5

\* What follows a mapping is a first page again, of its own size and of the smaller.
LEMMA NextIsAligned ==
    ASSUME NEW c \in Nat, NEW e \in 1..3, NEW j \in 1..3, e <= j, Low(c, e) = 0
    PROVE  Low(c + Span(e), j) = 0 /\ Low(c, j) = 0
<1>0. e \in 0..3 /\ j \in 0..3
  OBVIOUS
<1>1. PICK s \in Nat \ {0} : s = Span(j)
  BY <1>0, SpanPositive
<1>2. \E m \in Nat : Span(e) = s * m
  <2>1. /\ Span(1) = Span(3) * (Fan * Fan) /\ Span(2) = Span(3) * Fan
        /\ Span(1) = Span(2) * Fan /\ \A l \in 1..3 : Span(l) = Span(l) * 1
    BY FanAssumption DEF Span
  <2>2. Fan * Fan \in Nat /\ Fan \in Nat
    BY FanAssumption
  <2> QED
    BY <1>1, <2>1, <2>2
<1>3. PICK m \in Nat : Span(e) = s * m
  BY <1>2
<1>4. PICK q \in Nat : c = (s * m) * q
  <2>1. Base(c, e) = c /\ c \div Span(e) \in Nat /\ Base(c, e) = Span(e) * (c \div Span(e))
    <3>1. Base(c, e) = c
      BY DEF Base
    <3> QED
      BY <1>0, <3>1, BaseFacts
  <2> QED
    BY <1>3, <2>1
<1>5. c = s * (m * q) + 0 /\ c + s * m = s * (m * q + m) + 0
      /\ m * q \in Int /\ m * q + m \in Int
  BY <1>1, <1>3, <1>4
<1>6. (s * (m * q) + 0) % s = 0 /\ (s * (m * q + m) + 0) % s = 0
  <2>1. \A a \in Int : (s * a + 0) % s = 0
    <3>1. 0 \in 0..(s - 1)
      OBVIOUS
    <3> QED
      BY <3>1, QuotientIs
  <2> QED
    BY <1>5, <2>1
<1> QED
  BY <1>1, <1>3, <1>5, <1>6 DEF Low

\* Where DirectMapRange is between two mappings: at the first page of a mapping of
\* each size, unless no more such mapping fits.
AtFirstPage(c) == \A j \in 1..2 : Low(c, j) = 0 \/ Base(c, j) + Span(j) > MaxFrame

\* The mapping of DirectMapRange is the largest that memory has room for.
LEMMA DirectMapSizes ==
    ASSUME NEW c \in Nat, c < MaxFrame, NEW e \in 1..3, e = Largest(MaxFrame - c),
           Low(c, e) = 0, AtFirstPage(c)
    PROVE  e <= SizeAt(c) /\ AtFirstPage(c + Span(e)) /\ c + Span(e) <= MaxFrame
<1>0. MaxFrame \in Nat
  BY BootAssumption, PageTablesAssumption
<1>1. PICK s1 \in Nat \ {0}, s2 \in Nat \ {0}, s \in Nat \ {0} :
         s1 = Span(1) /\ s2 = Span(2) /\ s = Span(e) /\ s2 <= s1
  <2>1. Span(1) = Fan * Span(2) /\ Span(2) = Fan /\ Span(2) <= Span(1)
    BY FanAssumption DEF Span
  <2> QED
    BY <2>1, SpanPositive
<1>2. c + s <= MaxFrame
  <2>1. MaxFrame - c \in Nat \ {0}
    BY <1>0
  <2>2. Span(e) <= MaxFrame - c
    BY <2>1, LargestFits
  <2> QED
    BY <1>0, <1>1, <2>2
<1>3. ASSUME NEW j \in 1..2, j < e PROVE Base(c, j) + Span(j) > MaxFrame
  <2>1. MaxFrame - c < Span(j)
    BY <1>0, <1>1, <1>3 DEF Largest
  <2>2. Low(c, j) = 0 => Base(c, j) = c
    BY DEF Base
  <2>3. Base(c, j) + Span(j) > MaxFrame \/ Low(c, j) = 0
    BY DEF AtFirstPage
  <2>4. Span(j) \in Nat
    BY SpanPositive
  <2> QED
    BY <1>0, <2>1, <2>2, <2>3, <2>4
<1>4. e <= SizeAt(c)
  <2>1. e > 1 => ~(Base(c, 1) + Span(1) <= MaxFrame)
    <3>1. Base(c, 1) \in Nat
      BY BaseFacts
    <3> QED
      BY <1>0, <1>1, <1>3, <3>1
  <2>2. e > 2 => ~(Base(c, 2) + Span(2) <= MaxFrame)
    <3>1. Base(c, 2) \in Nat
      BY BaseFacts
    <3> QED
      BY <1>0, <1>1, <1>3, <3>1
  <2> QED
    BY <2>1, <2>2 DEF SizeAt
<1>5. AtFirstPage(c + s)
  <2> SUFFICES ASSUME NEW j \in 1..2
               PROVE  Low(c + s, j) = 0 \/ Base(c + s, j) + Span(j) > MaxFrame
    BY DEF AtFirstPage
  <2>1. CASE e <= j
    BY <1>1, <2>1, NextIsAligned
  <2>2. CASE j < e
    <3>1. Base(c, j) <= Base(c + s, j)
      BY <1>1, BaseOrder
    <3>2. Base(c, j) \in Nat /\ Base(c + s, j) \in Nat /\ Span(j) \in Nat
      <4>1. j \in 0..3 /\ c + s \in Nat
        BY <1>1
      <4> QED
        BY <4>1, BaseFacts, SpanPositive
    <3> QED
      BY <1>0, <1>3, <2>2, <3>1, <3>2
  <2> QED
    BY <2>1, <2>2
<1> QED
  BY <1>1, <1>2, <1>4, <1>5

-----------------------------------------------------------------------------
(* The pages that the sequence takes, counted. *)

\* The tables that are there.
Built ==
    {k \in TablesNeeded : \E v \in Pages : \E j \in 0..3 :
                             k = <<j, Region(v, j)>> /\ Has(v, j)}

\* The pages taken for anything else: the stack, the code, and the table no walk
\* reaches.
Extra ==
    IF at \in {"init", "direct", "cr3", "stack"} THEN 0
    ELSE IF at \in {"mapstack", "code"} THEN 1
    ELSE IF \/ at \in {"copy", "mapcode", "switch"}
            \/ at = "kernel" /\ pc = "walk" /\ off = 0 /\ i < 3 THEN 2
    ELSE 2 + Astrays

Counted == Cardinality(held) <= Cardinality(Built) + Extra

LEMMA RegionTypes ==
    ASSUME NEW v \in Nat, NEW j \in 0..3
    PROVE  Region(v, j) \in Nat /\ Region(v, j) <= v
<1>1. CASE j = 0
  BY <1>1 DEF Region
<1>2. CASE j # 0
  <2>1. j - 1 \in 0..3
    BY <1>2
  <2>2. PICK s \in Nat \ {0} : s = Span(j - 1)
    BY <2>1, SpanPositive
  <2>3. PICK q \in Nat, m \in Nat : q = v \div s /\ m = s * q /\ m <= v
    <3>1. /\ v \div s \in Nat /\ s * (v \div s) \in Nat /\ v % s \in 0..(s - 1)
          /\ v = s * (v \div s) + (v % s)
      BY DivideNatural
    <3>2. s * (v \div s) <= v
      BY <3>1
    <3> QED
      BY <3>1, <3>2
  <2>4. q <= s * q
    BY <2>2, <2>3
  <2> QED
    BY <1>2, <2>2, <2>3, <2>4 DEF Region
<1> QED
  BY <1>1, <1>2

\* There is a last table.
LEMMA NeededIsFinite == IsFiniteSet(TablesNeeded)
<1>s. PICK p \in Nat, m \in Nat : p = Fan * Span(0) /\ m = MaxFrame
  <2>1. Fan \in Nat /\ Span(0) \in Nat /\ MaxFrame \in Nat
    BY SpanPositive, FanAssumption, BootAssumption, PageTablesAssumption
  <2>2. Fan * Span(0) \in Nat
    BY <2>1
  <2> QED
    BY <2>1, <2>2
<1>1. PICK n \in Nat : n = p + m
  BY <1>s
<1>2. \A v \in Pages : v \in Nat /\ v <= n
  <2> SUFFICES ASSUME NEW v \in Pages PROVE v \in Nat /\ v <= n
    OBVIOUS
  <2>1. v \in Nat /\ v \in 0..(p - 1)
    BY <1>s, PagesAreNumbers DEF Pages
  <2> QED
    BY <1>s, <1>1, <2>1
<1>3. \A v \in 0..(MaxFrame - 1) : v \in Nat /\ v <= n
  BY <1>s, <1>1
<1>4. TablesNeeded \in SUBSET ((0..3) \X (0..n))
  <2> SUFFICES ASSUME NEW k \in TablesNeeded PROVE k \in (0..3) \X (0..n)
    OBVIOUS
  <2>1. \E v \in Nat : v <= n /\ \E j \in 0..3 : k = <<j, Region(v, j)>>
    <3>1. CASE \E v \in 0..(MaxFrame - 1) : k \in TablesFor(v, SizeAt(v))
      <4>1. \A v \in Nat : SizeAt(v) \in 1..3
        BY DEF SizeAt
      <4> QED
        BY <1>3, <3>1, <4>1 DEF TablesFor
    <3>2. CASE \E v \in {KernelStack, KernelBase} \cup ImagePages : k \in TablesFor(v, 3)
      <4>1. {KernelStack, KernelBase} \cup ImagePages \subseteq Pages
        BY BootAssumption DEF ImagePages
      <4> QED
        BY <1>2, <3>2, <4>1 DEF TablesFor
    <3> QED
      BY <3>1, <3>2 DEF TablesNeeded
  <2>2. PICK v \in Nat, j \in 0..3 : v <= n /\ k = <<j, Region(v, j)>>
    BY <2>1
  <2>3. Region(v, j) \in 0..n
    <3>1. PICK r \in Nat : r = Region(v, j) /\ r <= v
      BY RegionTypes
    <3> QED
      BY <2>2, <3>1
  <2> QED
    BY <2>2, <2>3
<1>5. IsFiniteSet((0..3) \X (0..n))
  <2>1. 0 \in Int /\ 3 \in Int /\ n \in Int
    OBVIOUS
  <2>2. IsFiniteSet(0..3)
    BY <2>1, FS_Interval
  <2>3. IsFiniteSet(0..n)
    BY <2>1, FS_Interval
  <2> QED
    BY <2>2, <2>3, FS_Product
<1> QED
  BY <1>4, <1>5, FS_Subset

\* The tables that DirectMapRange needs for page v, and those for a page of the kernel.
LEMMA NeededForMemory ==
    ASSUME NEW v \in Nat, v < MaxFrame, NEW j \in 0..3, j <= SizeAt(v)
    PROVE  <<j, Region(v, j)>> \in TablesNeeded
<1>1. v \in 0..(MaxFrame - 1) /\ SizeAt(v) \in 1..3 /\ MaxFrame \in Nat
  BY BootAssumption, PageTablesAssumption DEF SizeAt
<1>2. j \in 0..SizeAt(v)
  BY <1>1
<1>3. <<j, Region(v, j)>> \in TablesFor(v, SizeAt(v))
  BY <1>2 DEF TablesFor
<1> QED
  BY <1>1, <1>3 DEF TablesNeeded

LEMMA NeededForKernel ==
    ASSUME NEW v \in {KernelStack, KernelBase} \cup ImagePages, NEW j \in 0..3
    PROVE  <<j, Region(v, j)>> \in TablesNeeded
<1>1. <<j, Region(v, j)>> \in TablesFor(v, 3)
  BY DEF TablesFor
<1> QED
  BY <1>1 DEF TablesNeeded

\* No more tables are there than are needed.
BuiltIsFinite ==
    /\ IsFiniteSet(Built) /\ Built \subseteq TablesNeeded
    /\ Cardinality(Built) \in Nat /\ Cardinality(TablesNeeded) \in Nat
    /\ Cardinality(Built) <= Cardinality(TablesNeeded)

LEMMA BuiltSize == BuiltIsFinite
<1>1. Built \in SUBSET TablesNeeded
  BY DEF Built
<1>2. IsFiniteSet(TablesNeeded)
  BY NeededIsFinite
<1>3. IsFiniteSet(Built) /\ Cardinality(Built) <= Cardinality(TablesNeeded)
  BY <1>1, <1>2, FS_Subset
<1> QED
  BY <1>1, <1>2, <1>3, FS_CardinalityType DEF BuiltIsFinite

LEMMA HeldSize ==
    ASSUME Store!TypeOK
    PROVE  IsFiniteSet(held) /\ Cardinality(held) \in Nat
<1>1. held \in SUBSET Frames
  BY DEF Store!TypeOK
<1>2. IsFiniteSet(Frames)
  BY FS_Interval, PageTablesAssumption DEF Frames
<1>3. IsFiniteSet(held)
  BY <1>1, <1>2, FS_Subset
<1> QED
  BY <1>3, FS_CardinalityType

LEMMA PoolSize == IsFiniteSet(Pool) /\ Cardinality(Pool) \in Nat
<1>1. Pool \in SUBSET Frames
  BY PageTablesAssumption
<1>2. IsFiniteSet(Frames)
  BY FS_Interval, PageTablesAssumption DEF Frames
<1>3. IsFiniteSet(Pool)
  BY <1>1, <1>2, FS_Subset
<1> QED
  BY <1>3, FS_CardinalityType

ExtraIsSmall == Extra \in Nat /\ Extra <= 2 + Astrays /\ Astrays \in Nat

LEMMA ExtraTypes == ExtraIsSmall
  BY DEF ExtraIsSmall, Extra, Astrays

\* A step that takes no page.
LEMMA CountedWithout ==
    ASSUME Store!TypeOK, Counted, held' = held, Built \subseteq Built', Extra <= Extra'
    PROVE  Counted'
<1>1. BuiltIsFinite /\ BuiltIsFinite'
  BY BuiltSize, PTL
<1>2. ExtraIsSmall /\ ExtraIsSmall'
  BY ExtraTypes, PTL
<1>3. Cardinality(Built) <= Cardinality(Built')
  BY <1>1, FS_Subset DEF BuiltIsFinite
<1>4. Cardinality(held) \in Nat
  BY HeldSize
<1> HIDE DEF Built, Extra
<1>5. PICK h \in Nat, b \in Nat, c \in Nat, x \in Nat, y \in Nat :
         /\ h = Cardinality(held) /\ b = Cardinality(Built) /\ c = Cardinality(Built')
         /\ x = Extra /\ y = Extra'
  BY <1>1, <1>2, <1>4 DEF BuiltIsFinite, ExtraIsSmall
<1>6. h <= b + x /\ b <= c /\ x <= y
  BY <1>3, <1>5 DEF Counted
<1>7. h <= c + y
  BY <1>6
<1> QED
  BY <1>5, <1>7 DEF Counted

\* A step that takes a page for a table that is needed and was not there.
LEMMA CountedTable ==
    ASSUME Store!TypeOK, Counted, NEW f \in Frames, held' = held \cup {f},
           NEW k \in TablesNeeded, k \notin Built, k \in Built', Built \subseteq Built',
           Extra <= Extra'
    PROVE  Counted'
<1>1. BuiltIsFinite /\ BuiltIsFinite'
  BY BuiltSize, PTL
<1>2. ExtraIsSmall /\ ExtraIsSmall'
  BY ExtraTypes, PTL
<1>3. Cardinality(Built) + 1 <= Cardinality(Built')
  <2>1. IsFiniteSet(Built \cup {k}) /\ Cardinality(Built \cup {k}) = Cardinality(Built) + 1
    BY <1>1, FS_AddElement DEF BuiltIsFinite
  <2>2. Built \cup {k} \in SUBSET Built'
    OBVIOUS
  <2>3. Cardinality(Built \cup {k}) <= Cardinality(Built')
    BY <1>1, <2>2, FS_Subset DEF BuiltIsFinite
  <2> QED
    BY <2>1, <2>3
<1>4. Cardinality(held) \in Nat /\ Cardinality(held') \in Nat
      /\ Cardinality(held') <= Cardinality(held) + 1
  <2>1. IsFiniteSet(held) /\ Cardinality(held) \in Nat
    BY HeldSize
  <2>2. /\ IsFiniteSet(held \cup {f})
        /\ \/ Cardinality(held \cup {f}) = Cardinality(held)
           \/ Cardinality(held \cup {f}) = Cardinality(held) + 1
    BY <2>1, FS_AddElement
  <2> QED
    BY <2>1, <2>2
<1> HIDE DEF Built, Extra
<1>5. PICK h \in Nat, g \in Nat, b \in Nat, c \in Nat, x \in Nat, y \in Nat :
         /\ h = Cardinality(held) /\ b = Cardinality(Built) /\ c = Cardinality(Built')
         /\ g = Cardinality(held') /\ x = Extra /\ y = Extra'
  BY <1>1, <1>2, <1>4 DEF BuiltIsFinite, ExtraIsSmall
<1>6. h <= b + x /\ b + 1 <= c /\ x <= y /\ g <= h + 1
  BY <1>3, <1>4, <1>5 DEF Counted
<1>7. g <= c + y
  BY <1>6
<1> QED
  BY <1>5, <1>7 DEF Counted

\* A step that takes a page for something else.
LEMMA CountedOther ==
    ASSUME Store!TypeOK, Counted, NEW f \in Frames, held' = held \cup {f},
           Built \subseteq Built', Extra + 1 <= Extra'
    PROVE  Counted'
<1>1. BuiltIsFinite /\ BuiltIsFinite'
  BY BuiltSize, PTL
<1>2. ExtraIsSmall /\ ExtraIsSmall'
  BY ExtraTypes, PTL
<1>3. Cardinality(Built) <= Cardinality(Built')
  BY <1>1, FS_Subset DEF BuiltIsFinite
<1>4. Cardinality(held) \in Nat /\ Cardinality(held') \in Nat
      /\ Cardinality(held') <= Cardinality(held) + 1
  <2>1. IsFiniteSet(held) /\ Cardinality(held) \in Nat
    BY HeldSize
  <2>2. /\ IsFiniteSet(held \cup {f})
        /\ \/ Cardinality(held \cup {f}) = Cardinality(held)
           \/ Cardinality(held \cup {f}) = Cardinality(held) + 1
    BY <2>1, FS_AddElement
  <2> QED
    BY <2>1, <2>2
<1> HIDE DEF Built, Extra
<1>5. PICK h \in Nat, g \in Nat, b \in Nat, c \in Nat, x \in Nat, y \in Nat :
         /\ h = Cardinality(held) /\ b = Cardinality(Built) /\ c = Cardinality(Built')
         /\ g = Cardinality(held') /\ x = Extra /\ y = Extra'
  BY <1>1, <1>2, <1>4 DEF BuiltIsFinite, ExtraIsSmall
<1>6. h <= b + x /\ b <= c /\ x + 1 <= y /\ g <= h + 1
  BY <1>3, <1>4, <1>5 DEF Counted
<1>7. g <= c + y
  BY <1>6
<1> QED
  BY <1>5, <1>7 DEF Counted

\* The pages that the loader owns came from the list.
Owned == held \subseteq Pool /\ free \subseteq Pool

\* While something that a page is needed for is missing, the list is not empty.
LEMMA NotExhausted ==
    ASSUME EnoughPages, NothingLost, Owned, Counted, Store!TypeOK,
           \/ \E k \in TablesNeeded : k \notin Built
           \/ Extra < 2 + Astrays
    PROVE  free # {}
<1> SUFFICES ASSUME free = {} PROVE FALSE
  OBVIOUS
<1>1. held = Pool
  BY DEF NothingLost, Owned
<1>2. BuiltIsFinite /\ ExtraIsSmall
  BY BuiltSize, ExtraTypes
<1>3. Cardinality(Pool) \in Nat
  BY PoolSize
<1>4. (\E k \in TablesNeeded : k \notin Built)
         => Cardinality(Built) + 1 <= Cardinality(TablesNeeded)
  <2> SUFFICES ASSUME NEW k \in TablesNeeded, k \notin Built
               PROVE  Cardinality(Built) + 1 <= Cardinality(TablesNeeded)
    OBVIOUS
  <2>1. IsFiniteSet(Built \cup {k}) /\ Cardinality(Built \cup {k}) = Cardinality(Built) + 1
    BY <1>2, FS_AddElement DEF BuiltIsFinite
  <2>2. Built \cup {k} \in SUBSET TablesNeeded
    BY <1>2 DEF BuiltIsFinite
  <2>3. Cardinality(Built \cup {k}) <= Cardinality(TablesNeeded)
    BY <2>2, NeededIsFinite, FS_Subset
  <2> QED
    BY <2>1, <2>3
<1> HIDE DEF Built, Extra, TablesNeeded, Astrays
<1>5. PICK p \in Nat, b \in Nat, n \in Nat, x \in Nat, a \in Nat :
         /\ p = Cardinality(Pool) /\ b = Cardinality(Built)
         /\ n = Cardinality(TablesNeeded) /\ x = Extra /\ a = Astrays
  BY <1>2, <1>3 DEF BuiltIsFinite, ExtraIsSmall
<1>6. p <= b + x /\ p >= n + a + 2 /\ x <= 2 + a /\ b <= n
  BY <1>1, <1>2, <1>5 DEF Counted, EnoughPages, BuiltIsFinite, ExtraIsSmall
<1>7. b + 1 <= n \/ x < 2 + a
  BY <1>4, <1>5
<1> QED
  BY <1>6, <1>7

\* A page that the firmware took is missing ever after.
LEMMA LostForGood ==
    ASSUME Owned,
           \/ UNCHANGED store
           \/ \E f \in Frames : AllocatePage(f)
           \/ AllocateFails
    PROVE  /\ NothingLost' => NothingLost /\ (AllocateFails => Store!Exhaust)
           /\ Owned'
<1>1. CASE UNCHANGED store
  BY <1>1 DEF store, NothingLost, Owned, AllocateFails, Store!Lose, Store!Exhaust
<1>2. CASE \E f \in Frames : AllocatePage(f)
  BY <1>2 DEF AllocatePage, Store!Serve, NothingLost, Owned, AllocateFails, Store!Lose,
              Store!Exhaust
<1>3. CASE AllocateFails
  BY <1>3 DEF NothingLost, Owned, AllocateFails, Store!Lose, Store!Exhaust
<1> QED
  BY <1>1, <1>2, <1>3

-----------------------------------------------------------------------------
(* What holds between two steps of the sequence while no page is lost.        *)

KernelRun == {"kernel", "reload", "entry"}
Early == {"init", "direct", "cr3", "stack", "mapstack", "code", "copy", "mapcode", "switch"}

\* How far the sequence has come.
Progress ==
    /\ at # "fault" /\ status = "SUCCESS"
    /\ at = "init" => pc = "start" /\ cur = 0
    /\ at # "init" => pc \in {"idle", "walk"}
    /\ at \in {"cr3", "stack", "mapstack", "copy", "mapcode", "reload", "entry"}
          => pc = "idle"
    /\ cur <= MaxFrame
    /\ at \notin {"init", "direct"} => cur = MaxFrame
    /\ at = "direct" => AtFirstPage(cur)
    /\ at \in Early => sec = 0 /\ off = 0
    /\ at \in {"reload", "entry"} => sec = Len(Sections) + 1
    /\ at = "copy" => page \in held /\ level[page] = -1

\* What the call under way was asked for.
DirectRequest ==
    /\ req.pa = req.va /\ req.rw /\ req.va \in Nat /\ Low(req.va, req.end) = 0
    /\ req.end <= SizeAt(req.va)
    /\ cur = req.va + Span(req.end)

SwitchRequest == Map4K(SwitchPage, SwitchPage, TRUE)
ImageRequest(n, o) == Map4K(ImagePage(n, o), KernelImage + Part(n).rva + o, Part(n).rw)

Asked ==
    pc = "walk" =>
        \/ at = "direct" /\ DirectRequest
        \/ at = "code" /\ req = Map4K(KernelStack, page, TRUE)
        \/ at = "switch" /\ req = Map4K(KernelBase, page, TRUE)
        \/ at = "kernel" /\ off = 0 /\ sec = 0 /\ req = SwitchRequest
        \/ /\ at = "kernel" /\ off # 0 /\ sec <= Len(Sections) /\ off <= Part(sec).size
           /\ req = ImageRequest(sec, off - 1)

\* UefiMapTables stands on the path of the page it was asked for.
OnPath == i <= req.end /\ table = TableAt(req.va, i) /\ FitsTables(req)

\* A table that no walk reaches, linked from a page that is no table: what the walk
\* for the switch page leaves behind inside a huge page.
StrayTable(f) ==
    /\ f \in held /\ level[f] = 3 /\ Unlinked(f)
    /\ mem[Base(SwitchPage, 1)][Index(SwitchPage, 2)].p
    /\ mem[Base(SwitchPage, 1)][Index(SwitchPage, 2)].frame = f

\* Or UefiMapTables has followed the entry of level l, that maps the switch page, to
\* the first page of that mapping.
Astray(l) ==
    /\ at = "kernel" /\ off = 0
    /\ Ends(SwitchPage, l)
    /\ i <= l => table = TableAt(SwitchPage, i)
    /\ i <= l + 1 => mem[Base(SwitchPage, l)] = ZeroPage
    /\ i = l + 1 => table = Base(SwitchPage, l)
    /\ i > l + 1 => StrayTable(table) /\ l = 1 /\ i = 3

Walks == pc = "walk" => OnPath \/ \E l \in 1..2 : Astray(l)

\* The pages below this one are mapped at their own addresses.
Mapped == IF at = "direct" /\ pc = "walk" THEN req.va ELSE cur

DirectShown == \A v \in Pages : v < Mapped => HwWalk(v) = Identity(v)

\* Larger pages are only mapped among them, and so are the tables of DirectMapRange.
LargerBelow ==
    \A v \in Pages : \A j \in 1..2 : Ends(v, j) => Base(v, j) + Span(j) <= Mapped

TablesBelow ==
    at = "direct" =>
        \A v \in Pages : \A j \in 1..3 : Has(v, j) =>
            \/ \E w \in Pages : w < Mapped /\ Region(w, j) = Region(v, j)
            \/ pc = "walk" /\ j <= i /\ Region(v, j) = Region(req.va, j)

\* What the kernel needs is mapped as soon as the sequence has mapped it.
StackDone ==
    at \in {"copy", "mapcode", "switch"} \cup KernelRun \/ (at = "code" /\ pc = "idle")
StackShown == Ends(KernelStack, 3) /\ HwWalk(KernelStack).rw
BaseDone == at \in KernelRun \/ (at = "switch" /\ pc = "idle")
BaseShown == Ends(KernelBase, 3)
ImageDone(n, o) ==
    at \in KernelRun /\ (n < sec \/ (n = sec /\ o < (IF pc = "walk" THEN off - 1 ELSE off)))
ImageShown(n, o) ==
    /\ ImagePage(n, o) \in Pages
    /\ HwWalk(ImagePage(n, o)).mapped
    /\ HwWalk(ImagePage(n, o)).frame = KernelImage + Part(n).rva + o

KernelShown ==
    /\ StackDone => StackShown
    /\ BaseDone => BaseShown
    /\ \A n \in 0..Len(Sections) : \A o \in 0..(Part(n).size - 1) :
          ImageDone(n, o) => ImageShown(n, o)

\* MappingExists finds an entry for the switch page, in the tables or astray.
SwitchReached ==
    \/ Ends(SwitchPage, 3)
    \/ Ends(SwitchPage, 2) /\ mem[Base(SwitchPage, 2)][Index(SwitchPage, 3)].p
    \/ Ends(SwitchPage, 1) /\ \E f \in Frames :
          StrayTable(f) /\ mem[f][Index(SwitchPage, 3)].p
SwitchShown == at = "kernel" /\ (pc = "idle" \/ off # 0) => SwitchReached

\* Until the kernel's pages are mapped, the frames that the switch page's mapping will
\* write to keep their content.
CleanOutside ==
    at \in Early => \A f \in Frames \ Pool : f \in StrayPages => mem[f] = ZeroPage

Shown == DirectShown /\ LargerBelow /\ KernelShown

Sound ==
    /\ Tree /\ Counted /\ Progress /\ Asked /\ Walks /\ CleanOutside
    /\ Shown /\ TablesBelow /\ SwitchShown

\* Nothing is cleared that the kernel or the loader still needs.
Intact == cleared \subseteq Frames \ Kept

BootInv ==
    /\ Owned /\ Intact
    /\ at = "failed" => pc \in {"idle", "halt"}
    /\ NothingLost /\ at # "failed" => Sound

-----------------------------------------------------------------------------
(* What a step has to keep. *)

\* The pages below MaxAddress have numbers that the tables can translate.
LowPages ==
    /\ MaxFrame \in Nat \ {0} /\ FrameCount \in Nat
    /\ \A v \in Nat : v < MaxFrame => v \in Pages /\ v \in Frames
    /\ SwitchPage \in Nat /\ SwitchPage < MaxFrame
    /\ \A j \in 1..2 : /\ Base(SwitchPage, j) \in Nat /\ Base(SwitchPage, j) <= SwitchPage
                       /\ Base(SwitchPage, j) \notin Pool
    /\ Pool \subseteq Nat /\ \A f \in Pool : f < MaxFrame

\* What is cleared for the sections stays off what must be kept, and so the section
\* table is read as it was loaded.
LEMMA IntactNext ==
    ASSUME SafeLayout, Intact, [BootNext]_allVars
    PROVE  Intact'
<1>1. ZeroedFor(sec') \subseteq Frames \ Kept
  BY DEF SafeLayout, ZeroedFor
<1> QED
  BY <1>1, ClearedGrows DEF Intact

LEMMA IntactHeaders ==
    ASSUME Intact
    PROVE  HeadersStand /\ \A n : SizeSeen(n) = Part(n).size
<1>1. 0 \in 0..Len(Sections) /\ Part(0).rva = 0 /\ Part(0).size \in Nat \ {0}
  BY SectionCount, BootAssumption DEF Part
<1>2. KernelImage \in Frames /\ KernelImage \in Nat
  BY BootAssumption DEF Frames
<1>3. 0 \in 0..(Part(0).size - 1) /\ KernelImage = KernelImage + Part(0).rva + 0
  BY <1>1, <1>2
<1>4. IsImageFrame(KernelImage)
  BY <1>1, <1>3 DEF IsImageFrame
<1>5. HeadersStand
  BY <1>2, <1>4 DEF Intact, Kept, HeadersStand
<1> QED
  BY <1>5 DEF SizeSeen

\* The hypotheses on memory and layout, in the form the steps use.
LEMMA LowPagesAre ==
    ASSUME SafeLayout
    PROVE  LowPages
<1>1. PICK m \in Nat \ {0}, c \in Nat, p \in Nat :
         m = MaxFrame /\ c = FrameCount /\ p = Fan * Span(0) /\ m <= c /\ m <= p
  <2>1. Fan \in Nat /\ Span(0) \in Nat
    BY SpanPositive, FanAssumption
  <2>2. Fan * Span(0) \in Nat
    BY <2>1
  <2>3. MaxFrame \in Nat \ {0} /\ FrameCount \in Nat /\ MaxFrame <= FrameCount
    BY BootAssumption, PageTablesAssumption
  <2>4. MaxFrame <= Fan * Span(0)
    BY DEF SafeLayout
  <2> QED
    BY <2>2, <2>3, <2>4
<1>2. \A v \in Nat : v < MaxFrame => v \in Pages /\ v \in Frames
  <2> SUFFICES ASSUME NEW v \in Nat, v < m PROVE v \in Pages /\ v \in Frames
    BY <1>1
  <2>1. v \in 0..(c - 1) /\ v \in 0..(p - 1)
    BY <1>1
  <2> QED
    BY <1>1, <2>1 DEF Pages, Frames
<1>3. SwitchPage \in Nat /\ SwitchPage < MaxFrame
  BY BootAssumption DEF SafeLayout, Frames
<1>4. \A j \in 1..2 : /\ Base(SwitchPage, j) \in Nat /\ Base(SwitchPage, j) <= SwitchPage
                      /\ Base(SwitchPage, j) \notin Pool
  <2> SUFFICES ASSUME NEW j \in 1..2
               PROVE  /\ Base(SwitchPage, j) \in Nat /\ Base(SwitchPage, j) <= SwitchPage
                      /\ Base(SwitchPage, j) \notin Pool
    OBVIOUS
  <2>1. j \in 0..3
    OBVIOUS
  <2>2. Base(SwitchPage, j) \notin Pool
    BY DEF SafeLayout, StrayPages
  <2> QED
    BY <1>3, <2>1, <2>2, BaseFacts
<1>5. Pool \subseteq Nat /\ \A f \in Pool : f < MaxFrame
  BY PageTablesAssumption DEF SafeLayout, Frames
<1> QED
  BY <1>1, <1>2, <1>3, <1>4, <1>5 DEF LowPages

\* The first page of a mapping of the switch page is a page of memory, and no table.
LEMMA SwitchBase ==
    ASSUME LowPages, TypeOK, Tree, Owned, NEW j \in 1..2
    PROVE  /\ Base(SwitchPage, j) \in Frames /\ Base(SwitchPage, j) \in Pages
           /\ level[Base(SwitchPage, j)] = -1 /\ Base(SwitchPage, j) \notin free \cup held
           /\ Base(SwitchPage, j) \in Nat /\ Base(SwitchPage, j) < MaxFrame
<1>1. PICK b \in Nat, s \in Nat, m \in Nat :
         b = Base(SwitchPage, j) /\ s = SwitchPage /\ m = MaxFrame /\ b <= s /\ s < m
         /\ b \notin Pool
  BY DEF LowPages
<1>2. b < m
  BY <1>1
<1>3. b \in Frames /\ b \in Pages
  BY <1>1, <1>2 DEF LowPages
<1>4. b \notin free \cup held
  BY <1>1 DEF Owned
<1>5. level[b] = -1
  BY <1>3, <1>4 DEF Tree, TablesOwned
<1> QED
  BY <1>1, <1>2, <1>3, <1>4, <1>5

\* No translation changes.
SameTranslations ==
    \A v \in Pages : /\ HwWalk(v)' = HwWalk(v)
                     /\ \A j \in 1..3 : Ends(v, j)' <=> Ends(v, j)

LEMMA WalksTranslate == SameWalks => SameTranslations
  BY DEF SameWalks, SameWalk, SameTranslations

\* Where no translation changes, what was shown still is.
LEMMA ShownKept ==
    ASSUME Shown, SameTranslations, Mapped' = Mapped,
           StackDone' => StackDone, BaseDone' => BaseDone,
           \A n \in 0..Len(Sections) : \A o \in 0..(Part(n).size - 1) :
               ImageDone(n, o)' => ImageDone(n, o)
    PROVE  Shown'
<1>1. DirectShown'
  BY DEF Shown, DirectShown, SameTranslations, Identity
<1>2. LargerBelow'
  <2>1. \A j \in 1..2 : j \in 1..3
    OBVIOUS
  <2> QED
    BY <2>1 DEF Shown, LargerBelow, SameTranslations
<1>3. StackDone' => StackShown'
  BY BootAssumption DEF Shown, KernelShown, StackShown, SameTranslations
<1>4. BaseDone' => BaseShown'
  BY BootAssumption DEF Shown, KernelShown, BaseShown, SameTranslations
<1>5. ASSUME NEW n \in 0..Len(Sections), NEW o \in 0..(Part(n).size - 1), ImageDone(n, o)'
      PROVE  ImageShown(n, o)'
  <2>1. ImageShown(n, o)
    BY <1>5 DEF Shown, KernelShown
  <2> QED
    BY <2>1 DEF ImageShown, SameTranslations
<1> QED
  BY <1>1, <1>2, <1>3, <1>4, <1>5 DEF Shown, KernelShown

\* A table stays where it was.
TablesStay == \A v \in Pages : \A j \in 0..3 : Has(v, j) => Has(v, j)'

LEMMA BuiltStays == TablesStay => Built \subseteq Built'
  BY DEF TablesStay, Built

LEMMA WalksStay == SameWalks => TablesStay
  BY DEF SameWalks, SameWalk, TablesStay, Has

\* The way to the entry of the switch page is kept.
LEMMA SwitchKept ==
    ASSUME SwitchReached, SwitchPage \in Pages,
           \A j \in 1..3 : Ends(SwitchPage, j)' <=> Ends(SwitchPage, j),
           \A j \in 1..2 : mem'[Base(SwitchPage, j)] = mem[Base(SwitchPage, j)],
           \A f \in Frames : StrayTable(f) => StrayTable(f)' /\ mem'[f] = mem[f]
    PROVE  SwitchReached'
<1>1. CASE Ends(SwitchPage, 3)
  BY <1>1 DEF SwitchReached
<1>2. CASE Ends(SwitchPage, 2) /\ mem[Base(SwitchPage, 2)][Index(SwitchPage, 3)].p
  BY <1>2 DEF SwitchReached
<1>3. CASE Ends(SwitchPage, 1) /\ \E f \in Frames :
              StrayTable(f) /\ mem[f][Index(SwitchPage, 3)].p
  BY <1>3 DEF SwitchReached
<1> QED
  BY <1>1, <1>2, <1>3 DEF SwitchReached

\* The request lies in no larger page.
FitsByLevel ==
    \A r \in Requests : FitsTables(r) <=> \A j \in 1..(r.end - 1) : ~Ends(r.va, j)

LEMMA FitsAreByLevel == FitsByLevel
  BY DEF FitsByLevel, FitsTables, Ends

\* UefiMapTables stays on its path while nothing moves.
LEMMA OnPathKept ==
    ASSUME BootTypes, OnPath, SameWalks, UNCHANGED <<req, i, table>>
    PROVE  OnPath'
<1>1. PICK r \in Requests, n \in 0..3 :
         r = req /\ n = i /\ r.va \in Pages /\ r.end \in 1..3
  BY RequestTypes DEF BootTypes, TypeOK
<1>2. FitsByLevel /\ FitsByLevel'
  BY FitsAreByLevel, PTL
<1>3. SameWalk(r.va)
  BY <1>1 DEF SameWalks
<1>4. TableAt(r.va, n)' = TableAt(r.va, n)
  BY <1>1, <1>3 DEF SameWalk
<1>5. \A j \in 1..(r.end - 1) : j \in 1..3
  BY <1>1
<1>6. FitsTables(r)'
  BY <1>1, <1>2, <1>3, <1>5 DEF OnPath, FitsByLevel, SameWalk
<1> QED
  BY <1>1, <1>4, <1>6 DEF OnPath

\* The table that no walk reaches stays that way.
LEMMA StrayKept ==
    ASSUME NEW f \in Frames, StrayTable(f), Unlinked(f)', level'[f] = level[f],
           held \subseteq held', mem'[Base(SwitchPage, 1)] = mem[Base(SwitchPage, 1)]
    PROVE  StrayTable(f)'
  BY DEF StrayTable

-----------------------------------------------------------------------------
(* The steps between the calls. *)

\* Between two calls it is enough to keep the walks.
LEMMA IdleKeeps ==
    ASSUME Sound, SameWalks, Tree', Counted', Progress', CleanOutside',
           pc = "idle", pc' = "idle", cur' = cur, at' # "direct",
           StackDone' => StackDone, BaseDone' => BaseDone,
           \A n \in 0..Len(Sections) : \A o \in 0..(Part(n).size - 1) :
               ImageDone(n, o)' => ImageDone(n, o),
           at' = "kernel" => SwitchReached'
    PROVE  Sound'
<1>1. Mapped' = Mapped
  BY DEF Mapped
<1>2. Shown'
  BY <1>1, WalksTranslate, ShownKept DEF Sound
<1>3. Asked' /\ Walks' /\ TablesBelow' /\ SwitchShown'
  BY DEF Asked, Walks, TablesBelow, SwitchShown
<1> QED
  BY <1>2, <1>3 DEF Sound

\* The tree needs nothing but the tables and the list.
LEMMA SameTree ==
    ASSUME TypeOK, RootBeforeWalk, Tree, UNCHANGED <<mem, root, level, store>>,
           pc \in {"idle", "walk"}, pc' \in {"idle", "walk"}
    PROVE  Tree' /\ SameWalks
<1>1. SameWalks
  BY SameTables
<1>2. held' = held /\ free' \subseteq free
  BY DEF store
<1> QED
  BY <1>1, <1>2, OtherStepsKeepTree

LEMMA SameCount ==
    ASSUME BootTypes, Counted, UNCHANGED <<mem, root, level, store>>, Extra <= Extra'
    PROVE  Counted'
<1>1. SameWalks
  BY SameTables
<1>2. Built \subseteq Built'
  BY <1>1, WalksStay, BuiltStays
<1>3. held' = held /\ Store!TypeOK
  BY DEF store, BootTypes, TypeOK
<1> QED
  BY <1>2, <1>3, CountedWithout

\* DirectMapRange is done, CR3 is loaded, MapKernel returns.
LEMMA PlainStep ==
    ASSUME BootTypes, Sound, pc = "idle", UNCHANGED <<vars, cur, page, sec, off>>,
           \/ at = "direct" /\ cur = MaxFrame /\ at' = "cr3"
           \/ at = "cr3" /\ at' = "stack"
           \/ at = "kernel" /\ sec = Len(Sections) + 1 /\ at' = "reload"
           \/ at = "reload" /\ at' = "entry"
    PROVE  Sound'
<1>1. UNCHANGED <<mem, root, level, store, pc, status>>
  BY DEF vars
<1>2. Tree' /\ SameWalks
  BY <1>1, SameTree DEF BootTypes, Sound
<1>3. Counted'
  <2>1. ExtraIsSmall
    BY ExtraTypes
  <2>2. Extra <= Extra'
    BY <1>1, <2>1 DEF Extra, ExtraIsSmall
  <2> QED
    BY <1>1, <2>2, SameCount DEF Sound
<1>4. Progress'
  BY <1>1 DEF Sound, Progress, Early
<1>5. CleanOutside'
  BY <1>1 DEF Sound, CleanOutside, Early
<1>6. (StackDone' => StackDone) /\ (BaseDone' => BaseDone)
  BY <1>1 DEF StackDone, BaseDone, KernelRun
<1>7. \A n \in 0..Len(Sections) : \A o \in 0..(Part(n).size - 1) :
         ImageDone(n, o)' => ImageDone(n, o)
  BY <1>1 DEF ImageDone, KernelRun
<1> QED
  BY <1>1, <1>2, <1>3, <1>4, <1>5, <1>6, <1>7, IdleKeeps

\* DirectMapRange and MapKernel return, CR3 is loaded.
LEMMA ReturnStep ==
    ASSUME BootTypes, Sound, DirectMapDone \/ WriteCr3 \/ MapKernelReturn \/ ReloadCr3
    PROVE  Sound'
<1>1. pc = "idle" /\ UNCHANGED <<vars, cur, page, sec, off>>
  BY DEF DirectMapDone, WriteCr3, MapKernelReturn, ReloadCr3, LoadCr3
<1>2. CASE DirectMapDone
  <2>1. cur = MaxFrame
    <3>1. cur <= MaxFrame /\ cur >= MaxFrame /\ cur \in Nat /\ MaxFrame \in Nat
      BY <1>2, BootAssumption, PageTablesAssumption
      DEF Sound, Progress, DirectMapDone, BootTypes, BootVariables
    <3> QED
      BY <3>1
  <2> QED
    BY <1>1, <1>2, <2>1, PlainStep DEF DirectMapDone
<1>3. CASE WriteCr3 \/ ReloadCr3
  BY <1>1, <1>3, PlainStep DEF WriteCr3, ReloadCr3, LoadCr3
<1>4. CASE MapKernelReturn
  <2>1. sec > Len(Sections)
    BY <1>4 DEF MapKernelReturn, MayGoOn, Sound, Progress
  <2>2. sec = Len(Sections) + 1
    <3>1. sec \in 0..(Len(Sections) + 1) /\ Len(Sections) \in Nat
      BY SectionCount DEF BootTypes, BootVariables
    <3> QED
      BY <2>1, <3>1
  <2> QED
    BY <1>1, <1>4, <2>2, PlainStep DEF MapKernelReturn
<1> QED
  BY <1>2, <1>3, <1>4

\* The processor fills its cache, or nothing happens.
LEMMA NothingMoves ==
    ASSUME LowPages, BootTypes, Sound, UNCHANGED <<vars, boot>>
    PROVE  Sound'
<1>1. UNCHANGED <<mem, root, level, store, pc, status, req, i, table, at, cur, page, sec, off>>
      /\ UNCHANGED <<free, held>>
  BY DEF vars, boot, walk, store
<1>2. Tree'
  BY <1>1, OtherStepsKeepTree DEF Sound, Tree, RootIsTable
<1>3. SameWalks
  BY <1>1, SameTables
<1>4. Counted'
  <2>1. ExtraIsSmall
    BY ExtraTypes
  <2>2. Extra <= Extra'
    BY <1>1, <2>1 DEF Extra, ExtraIsSmall
  <2> QED
    BY <1>1, <2>2, SameCount DEF Sound
<1>5. Progress' /\ CleanOutside' /\ Asked'
  <2>1. Progress' /\ CleanOutside'
    BY <1>1 DEF Sound, Progress, CleanOutside
  <2>2. Asked'
    BY <1>1 DEF Sound, Asked, DirectRequest
  <2> QED
    BY <2>1, <2>2
<1>6. \A l \in 1..3 : Ends(SwitchPage, l)' <=> Ends(SwitchPage, l)
  BY <1>3 DEF LowPages, SameWalks, SameWalk
<1>7. \A f : Unlinked(f)' <=> Unlinked(f)
  BY <1>1 DEF Unlinked, IsLink
<1>8. \A f : StrayTable(f)' <=> StrayTable(f)
  BY <1>1, <1>7 DEF StrayTable
<1>9. Walks'
  <2>1. OnPath => OnPath'
    BY <1>1, <1>3, OnPathKept
  <2>2. ASSUME NEW l \in 1..2, Astray(l) PROVE Astray(l)'
    <3>1. Ends(SwitchPage, l)'
      BY <1>6, <2>2 DEF Astray
    <3>2. i <= l => table' = TableAt(SwitchPage, i)'
      BY <1>1, <2>2 DEF Astray, TableAt, Path, Below
    <3> QED
      BY <1>1, <1>8, <2>2, <3>1, <3>2 DEF Astray
  <2> QED
    BY <1>1, <2>1, <2>2 DEF Sound, Walks
<1>10. Mapped' = Mapped
  BY <1>1 DEF Mapped
<1>11. Shown'
  <2>1. SameTranslations
    BY <1>3, WalksTranslate
  <2>2. (StackDone' => StackDone) /\ (BaseDone' => BaseDone)
    BY <1>1 DEF StackDone, BaseDone
  <2>3. \A n \in 0..Len(Sections) : \A o \in 0..(Part(n).size - 1) :
           ImageDone(n, o)' => ImageDone(n, o)
    BY <1>1 DEF ImageDone
  <2> QED
    BY <1>10, <2>1, <2>2, <2>3, ShownKept DEF Sound
<1>12. TablesBelow'
  <2>1. \A v \in Pages : \A j \in 1..3 : Has(v, j)' => Has(v, j)
    BY <1>3 DEF SameWalks, SameWalk, Has
  <2> QED
    BY <1>1, <1>10, <2>1 DEF Sound, TablesBelow
<1>13. SwitchShown'
  BY <1>1, <1>6, <1>8 DEF Sound, SwitchShown, SwitchReached
<1> QED
  BY <1>2, <1>4, <1>5, <1>9, <1>11, <1>12, <1>13 DEF Sound

\* The loader's own code, the code page and the table it edits are mapped at their own
\* addresses.
LEMMA NoFault ==
    ASSUME LowPages, Owned, BootTypes, Sound
    PROVE  ~PageFault
<1> SUFFICES ASSUME PageFault PROVE FALSE
  OBVIOUS
<1>1. /\ at \notin {"init", "direct", "fault"} /\ cur = MaxFrame /\ Mapped = MaxFrame
      /\ DirectShown
  BY DEF PageFault, OnOwnTables, Sound, Progress, Mapped, Shown
<1>2. \A f \in Nat : f < MaxFrame => HwWalk(f) = Identity(f)
  BY <1>1 DEF DirectShown, LowPages
<1>3. \A f \in Pool : HwWalk(f) = Identity(f)
  BY <1>2 DEF LowPages
<1>4. HwWalk(SwitchPage) = Identity(SwitchPage)
  BY <1>2 DEF LowPages
<1>5. at = "copy" => HwWalk(page) = Identity(page)
  BY <1>3 DEF Sound, Progress, Owned
<1>6. ASSUME pc = "walk" PROVE HwWalk(table) = Identity(table)
  <2>1. Reached
    BY PathsReachTables DEF Sound, Tree, BootTypes
  <2>2. \A v \in Pages : \A j \in 0..3 : Has(v, j) =>
           HwWalk(TableAt(v, j)) = Identity(TableAt(v, j))
    <3> SUFFICES ASSUME NEW v \in Pages, NEW j \in 0..3, Has(v, j)
                 PROVE  HwWalk(TableAt(v, j)) = Identity(TableAt(v, j))
      OBVIOUS
    <3>1. TableAt(v, j) \in Frames /\ level[TableAt(v, j)] # -1
      BY <2>1 DEF Reached, Has
    <3>2. TableAt(v, j) \in Pool
      BY <3>1 DEF Sound, Tree, TablesOwned, Owned
    <3> QED
      BY <1>3, <3>2
  <2>3. table # NoTable
    BY PageTablesAssumption DEF BootTypes, TypeOK, Frames, NoTable
  <2>4. CASE OnPath
    <3>1. req.va \in Pages /\ i \in 0..3 /\ table = TableAt(req.va, i)
      BY <2>4, RequestTypes DEF OnPath, BootTypes, TypeOK
    <3> QED
      BY <2>2, <2>3, <3>1 DEF Has
  <2>5. ASSUME NEW l \in 1..2, Astray(l) PROVE HwWalk(table) = Identity(table)
    <3>1. i \in 0..3
      BY DEF BootTypes, TypeOK
    <3>2. CASE i <= l
      <4>1. table = TableAt(SwitchPage, i) /\ SwitchPage \in Pages
        BY <2>5, <3>2 DEF Astray, LowPages
      <4> QED
        BY <2>2, <2>3, <3>1, <4>1 DEF Has
    <3>3. CASE i = l + 1
      <4>1. table = Base(SwitchPage, l)
        BY <2>5, <3>3 DEF Astray
      <4>2. Base(SwitchPage, l) \in Nat /\ Base(SwitchPage, l) < MaxFrame
        BY SwitchBase DEF Sound, BootTypes
      <4> QED
        BY <1>2, <4>1, <4>2
    <3>4. CASE i > l + 1
      <4>1. table \in held
        BY <2>5, <3>4 DEF Astray, StrayTable
      <4> QED
        BY <1>3, <4>1 DEF Owned
    <3> QED
      BY <3>1, <3>2, <3>3, <3>4
  <2> QED
    BY <1>6, <2>4, <2>5 DEF Sound, Walks
<1> QED
  BY <1>4, <1>5, <1>6 DEF PageFault, Needed

\* A page for the stack or for the code: there is one, and no walk reads it.
LEMMA TakeStep ==
    ASSUME LowPages, EnoughPages, Owned, BootTypes, Sound, NothingLost, NothingLost',
           AllocateStack \/ AllocateCode
    PROVE  Sound'
<1>t. TypeOK /\ Store!TypeOK /\ RootBeforeWalk
  BY DEF BootTypes, TypeOK
<1>1. /\ \/ at = "stack" /\ at' = "mapstack"
         \/ at = "code" /\ at' = "copy"
      /\ pc = "idle"
      /\ \/ \E f \in Frames : AllocatePage(f) /\ page' = f
         \/ AllocateFails
      /\ UNCHANGED <<mem, root, level, pc, walk, status, cur, sec, off>>
  BY DEF AllocateStack, AllocateCode, TakePage
<1>2. ExtraIsSmall
  BY ExtraTypes
<1>3. Extra + 1 <= Extra' /\ Extra < 2 + Astrays
  BY <1>1, <1>2 DEF Extra, ExtraIsSmall
<1>4. free # {}
  BY <1>t, <1>3, NotExhausted DEF Sound
<1>5. ~AllocateFails
  BY <1>4, LostForGood DEF Store!Exhaust
<1>6. PICK f \in Frames : AllocatePage(f) /\ page' = f
  BY <1>1, <1>5
<1>7. /\ level[f] = -1 /\ held' = held \cup {f} /\ free' \cap held' = {}
      /\ free' \subseteq free \ {f}
  <2>1. Store!Serve(f)
    BY <1>6 DEF AllocatePage
  <2> QED
    BY <1>t, <2>1, ServedIsFresh DEF Sound
<1>8. SameWalks
  BY <1>1, SameTables
<1>9. Tree'
  <2>1. root # NoTable
    BY <1>1 DEF BootTypes, RootBeforeWalk, Frames, NoTable
  <2>2. \A g \in Frames : level'[g] # -1 => g \in held'
    BY <1>1, <1>7 DEF Sound, Tree, TablesOwned
  <2>3. \A g \in free' : mem'[g] = ZeroPage
    BY <1>1, <1>7 DEF Sound, Tree, FreePagesClean
  <2>4. pc' \notin {"start", "halt"}
    BY <1>1
  <2> QED
    BY <1>t, <1>1, <1>7, <2>1, <2>2, <2>3, <2>4, WriteAsideKeepsTree DEF Sound
<1>10. Counted'
  BY <1>t, <1>3, <1>7, <1>8, WalksStay, BuiltStays, CountedOther DEF Sound
<1>11. Progress'
  BY <1>1, <1>6, <1>7 DEF Sound, Progress, Early
<1>12. CleanOutside'
  BY <1>1 DEF Sound, CleanOutside, Early
<1>13. (StackDone' => StackDone) /\ (BaseDone' => BaseDone)
  BY <1>1 DEF StackDone, BaseDone, KernelRun
<1>14. \A n \in 0..Len(Sections) : \A o \in 0..(Part(n).size - 1) :
          ImageDone(n, o)' => ImageDone(n, o)
  BY <1>1 DEF ImageDone, KernelRun
<1> QED
  BY <1>1, <1>8, <1>9, <1>10, <1>11, <1>12, <1>13, <1>14, IdleKeeps

-----------------------------------------------------------------------------
(* The sequence writes pages itself. *)

\* The code page is no table, and the pages zeroed for a section are not on the list.
LEMMA WriteStep ==
    ASSUME LowPages, Owned, BootTypes, Sound, pc = "idle",
           UNCHANGED <<root, level, store, pc, walk, status, cur, page>>,
           \A f \in Frames : mem'[f] = mem[f] \/ (level[f] = -1 /\ f \notin free)
    PROVE  SameWalks /\ Tree' /\ \A f \in Frames : Unlinked(f) => Unlinked(f)'
<1>1. \A f \in Frames : level[f] \in 0..2 => mem'[f] = mem[f]
  OBVIOUS
<1>2. \A f \in Frames : level'[f] # -1 => f \in held'
  BY DEF Sound, Tree, TablesOwned, store
<1>3. free' \cap held' = {} /\ \A f \in free' : mem'[f] = ZeroPage
  <2>1. free' = free /\ held' = held /\ free \subseteq Frames
    BY DEF store, BootTypes, TypeOK, Store!TypeOK
  <2> QED
    BY <2>1 DEF Sound, Tree, TablesOwned, FreePagesClean
<1>4. root # NoTable
  BY DEF BootTypes, RootBeforeWalk, Frames, NoTable
<1>5. pc' \notin {"start", "halt"}
  OBVIOUS
<1>6. Tree' /\ \A f \in Frames : Unlinked(f) => Unlinked(f)'
  BY <1>1, <1>2, <1>3, <1>4, <1>5, WriteAsideKeepsTree DEF Sound, BootTypes
<1>7. SameWalks
  BY WriteAside DEF Sound, BootTypes
<1> QED
  BY <1>6, <1>7

\* The copied code goes to a page that is no table.
LEMMA CopyStep ==
    ASSUME LowPages, Owned, BootTypes, Sound, CopyCode
    PROVE  Sound'
<1>1. /\ at = "copy" /\ at' = "mapcode" /\ pc = "idle" /\ pc' = "idle"
      /\ mem' = [mem EXCEPT ![page] = CodeBytes]
      /\ UNCHANGED <<root, level, store, pc, walk, status, cur, page, sec, off>>
  BY DEF CopyCode
<1>2. page \in held /\ level[page] = -1 /\ page \in Frames /\ page \in Pool
  BY <1>1 DEF Sound, Progress, BootTypes, BootVariables, Owned
<1>3. \A f \in Frames : f # page => mem'[f] = mem[f]
  BY <1>1 DEF BootTypes, TypeOK
<1>4. page \notin free
  BY <1>2 DEF Sound, Tree, TablesOwned
<1>5. \A f \in Frames : mem'[f] = mem[f] \/ (level[f] = -1 /\ f \notin free)
  BY <1>2, <1>3, <1>4
<1>6. SameWalks /\ Tree'
  BY <1>1, <1>5, WriteStep
<1>7. Counted'
  <2>1. ExtraIsSmall
    BY ExtraTypes
  <2>2. Extra <= Extra'
    BY <1>1, <2>1 DEF Extra, ExtraIsSmall
  <2>3. held' = held /\ Store!TypeOK
    BY <1>1 DEF store, BootTypes, TypeOK
  <2> QED
    BY <1>6, <2>2, <2>3, WalksStay, BuiltStays, CountedWithout DEF Sound
<1>8. Progress'
  BY <1>1 DEF Sound, Progress, Early
<1>9. CleanOutside'
  BY <1>1, <1>2, <1>3 DEF Sound, CleanOutside, Early
<1>10. (StackDone' => StackDone) /\ (BaseDone' => BaseDone)
  BY <1>1 DEF StackDone, BaseDone, KernelRun
<1>11. \A n \in 0..Len(Sections) : \A o \in 0..(Part(n).size - 1) :
          ImageDone(n, o)' => ImageDone(n, o)
  BY <1>1 DEF ImageDone, KernelRun
<1> QED
  BY <1>1, <1>6, <1>7, <1>8, <1>9, <1>10, <1>11, IdleKeeps

\* The next section: pages are zeroed that are neither tables nor on the way of the
\* switch page.
LEMMA SectionStep ==
    ASSUME LowPages, SafeLayout, Owned, Intact, BootTypes, Sound, MapKernelNextSection
    PROVE  Sound'
<1>1. /\ at = "kernel" /\ at' = "kernel" /\ pc = "idle" /\ pc' = "idle"
      /\ sec <= Len(Sections) /\ off >= Part(sec).size /\ sec' = sec + 1 /\ off' = 0
      /\ mem' = [f \in Frames |-> IF f \in ZeroedFor(sec') THEN ZeroPage ELSE mem[f]]
      /\ UNCHANGED <<root, level, store, pc, walk, status, cur, page, at>>
  BY IntactHeaders DEF MapKernelNextSection, StartSection
<1>2. \A f \in Frames : f \in ZeroedFor(sec') =>
         f \notin Pool /\ \A j \in 1..2 : f # Base(SwitchPage, j)
  <2> SUFFICES ASSUME NEW f \in Frames, f \in ZeroedFor(sec')
               PROVE  f \notin Pool \cup StrayPages
    BY DEF StrayPages
  <2> QED
    BY DEF SafeLayout, Kept, ZeroedFor
<1>3. \A f \in Frames : f \in Pool => mem'[f] = mem[f]
  BY <1>1, <1>2
<1>4. \A f \in Frames : mem'[f] = mem[f] \/ (level[f] = -1 /\ f \notin free)
  BY <1>3 DEF Sound, Tree, TablesOwned, Owned
<1>5. SameWalks /\ Tree' /\ \A f \in Frames : Unlinked(f) => Unlinked(f)'
  BY <1>1, <1>4, WriteStep
<1>6. Counted'
  <2>1. ExtraIsSmall
    BY ExtraTypes
  <2>2. Extra <= Extra'
    BY <1>1, <2>1 DEF Extra, ExtraIsSmall
  <2>3. held' = held /\ Store!TypeOK
    BY <1>1 DEF store, BootTypes, TypeOK
  <2> QED
    BY <1>5, <2>2, <2>3, WalksStay, BuiltStays, CountedWithout DEF Sound
<1>7. Progress' /\ CleanOutside'
  BY <1>1 DEF Sound, Progress, CleanOutside, Early
<1>8. (StackDone' => StackDone) /\ (BaseDone' => BaseDone)
  BY <1>1 DEF StackDone, BaseDone
<1>9. ASSUME NEW n \in 0..Len(Sections), NEW o \in 0..(Part(n).size - 1), ImageDone(n, o)'
      PROVE  ImageDone(n, o)
  <2>1. n < sec + 1 \/ (n = sec + 1 /\ o < 0)
    BY <1>1, <1>9 DEF ImageDone
  <2>2. sec \in Nat /\ n \in Nat /\ Part(n).size \in Nat /\ off \in Nat
    BY SectionCount, PartTypes DEF BootTypes, BootVariables
  <2>3. n < sec \/ n = sec
    BY <2>1, <2>2
  <2>4. n = sec => o < off
    <3>1. PICK s \in Nat : s = Part(n).size
      BY <2>2
    <3>2. o \in 0..(s - 1)
      BY <3>1
    <3> QED
      BY <1>1, <2>2, <3>1, <3>2
  <2> QED
    BY <1>1, <2>3, <2>4 DEF ImageDone, KernelRun
<1>10. SwitchReached'
  <2>1. SwitchReached /\ SwitchPage \in Pages
    BY <1>1 DEF Sound, SwitchShown, LowPages
  <2>2. \A j \in 1..3 : Ends(SwitchPage, j)' <=> Ends(SwitchPage, j)
    BY <1>5, <2>1 DEF SameWalks, SameWalk
  <2>3. \A j \in 1..2 : mem'[Base(SwitchPage, j)] = mem[Base(SwitchPage, j)]
    <3>1. \A j \in 1..2 : Base(SwitchPage, j) \in Frames
      BY SwitchBase DEF Sound, BootTypes
    <3> QED
      BY <1>1, <1>2, <3>1
  <2>4. ASSUME NEW f \in Frames, StrayTable(f)
        PROVE  StrayTable(f)' /\ mem'[f] = mem[f]
    <3>1. f \in held /\ Unlinked(f)' /\ level'[f] = level[f] /\ held' = held
      BY <1>1, <1>5, <2>4 DEF StrayTable, store
    <3>2. mem'[f] = mem[f]
      BY <1>3, <3>1 DEF Owned
    <3>3. mem'[Base(SwitchPage, 1)] = mem[Base(SwitchPage, 1)]
      BY <2>3
    <3> QED
      BY <2>4, <3>1, <3>2, <3>3, StrayKept
  <2> QED
    BY <2>1, <2>2, <2>3, <2>4, SwitchKept
<1> QED
  BY <1>1, <1>5, <1>6, <1>7, <1>8, <1>9, <1>10, IdleKeeps

-----------------------------------------------------------------------------
(* The calls. *)

\* Where the pages below have been mapped and no larger page reaches further, a
\* mapping that begins there lies in no larger page.
LEMMA FitsAbove ==
    ASSUME LargerBelow, NEW r \in Requests, NEW m \in Nat, Mapped = m, r.va >= m
    PROVE  FitsTables(r)
<1>1. r.va \in Pages /\ r.va \in Nat /\ r.end \in 1..3
  BY RequestTypes, PagesAreNumbers
<1> SUFFICES ASSUME NEW j \in 1..(r.end - 1), Ends(r.va, j) PROVE FALSE
  BY FitsAreByLevel DEF FitsByLevel
<1>2. j \in 1..2 /\ j \in 0..3
  BY <1>1
<1>3. PICK b \in Nat, s \in Nat : b = Base(r.va, j) /\ s = Span(j) /\ r.va < b + s
  BY <1>1, <1>2, BaseFacts, SpanPositive
<1>4. b + s <= m
  BY <1>1, <1>2, <1>3 DEF LargerBelow
<1> QED
  BY <1>1, <1>3, <1>4

LEMMA SameSwitch ==
    ASSUME LowPages, SwitchReached, UNCHANGED <<mem, root, level, store>>
    PROVE  SwitchReached'
<1>1. \A l \in 1..3 : Ends(SwitchPage, l)' <=> Ends(SwitchPage, l)
  BY SameTables DEF LowPages, SameWalks, SameWalk
<1>2. \A f : Unlinked(f)' <=> Unlinked(f)
  BY DEF Unlinked, IsLink
<1>3. \A f : StrayTable(f)' <=> StrayTable(f)
  BY <1>2 DEF StrayTable, store
<1> QED
  BY <1>1, <1>3 DEF SwitchReached

\* A call changes no table and takes no page.
LEMMA CallKeeps ==
    ASSUME LowPages, BootTypes, Sound, NEW r \in Requests, Call(r),
           Extra <= Extra', Progress', Asked', CleanOutside', Mapped' = Mapped,
           at' = "direct" => at = "direct",
           StackDone' => StackDone, BaseDone' => BaseDone,
           \A n \in 0..Len(Sections) : \A o \in 0..(Part(n).size - 1) :
               ImageDone(n, o)' => ImageDone(n, o),
           FitsTables(r) \/ \E l \in 1..2 : Astray(l)',
           at' = "kernel" /\ off' # 0 => SwitchReached
    PROVE  Sound'
<1>1. /\ pc = "idle" /\ pc' = "walk" /\ req' = r /\ i' = 0 /\ table' = root
      /\ UNCHANGED <<mem, root, level, store>>
  BY DEF Call
<1>2. Tree' /\ SameWalks
  BY <1>1, SameTree DEF BootTypes, Sound
<1>3. Counted'
  BY <1>1, SameCount DEF Sound
<1>4. Shown'
  BY <1>2, WalksTranslate, ShownKept DEF Sound
<1>5. Walks'
  <2>1. CASE FitsTables(r)
    <3>1. FitsTables(r)'
      <4>1. FitsByLevel /\ FitsByLevel'
        BY FitsAreByLevel, PTL
      <4>2. r.va \in Pages /\ \A j \in 1..(r.end - 1) : j \in 1..3
        BY RequestTypes
      <4> QED
        BY <1>2, <2>1, <4>1, <4>2 DEF FitsByLevel, SameWalks, SameWalk
    <3>2. PathSteps'
      BY PathByLevel, PTL
    <3>3. TableAt(r.va, 0)' = root'
      BY <3>2, RequestTypes DEF PathSteps
    <3>4. 0 <= r.end
      BY RequestTypes
    <3>5. OnPath'
      BY <1>1, <3>1, <3>3, <3>4 DEF OnPath
    <3> QED
      BY <3>5 DEF Walks
  <2> QED
    BY <2>1 DEF Walks
<1>6. TablesBelow'
  <2>1. \A v \in Pages : \A j \in 1..3 : Has(v, j)' => Has(v, j)
    BY <1>2 DEF SameWalks, SameWalk, Has
  <2> QED
    BY <1>1, <2>1 DEF Sound, TablesBelow
<1>7. SwitchShown'
  <2> SUFFICES ASSUME at' = "kernel", off' # 0 PROVE SwitchReached'
    BY <1>1 DEF SwitchShown
  <2>1. SwitchReached
    OBVIOUS
  <2> QED
    BY <1>1, <2>1, SameSwitch
<1> QED
  BY <1>2, <1>3, <1>4, <1>5, <1>6, <1>7 DEF Sound

\* DirectMapRange asks for the next mapping; the pages below it are mapped.
LEMMA DirectCall ==
    ASSUME LowPages, BootTypes, Sound, DirectMapStep
    PROVE  Sound'
<1>1. PICK c \in Nat, m \in Nat, e \in 1..3, s \in Nat :
         c = cur /\ m = MaxFrame /\ c < m /\ e = Largest(m - c) /\ s = Span(e)
  <2>1. cur \in Nat /\ MaxFrame \in Nat /\ cur < MaxFrame
    BY DEF BootTypes, BootVariables, DirectMapStep, LowPages
  <2>2. MaxFrame - cur \in Nat \ {0}
    BY <2>1
  <2>3. Largest(MaxFrame - cur) \in 1..3 /\ Span(Largest(MaxFrame - cur)) \in Nat
    BY <2>2, LargestFits
  <2> QED
    BY <2>1, <2>3
<1> DEFINE r == [va |-> c, pa |-> c, end |-> e, rw |-> TRUE]
<1>2. /\ at = "direct" /\ at' = "direct" /\ Call(r) /\ cur' = c + s
      /\ UNCHANGED <<page, sec, off>>
  BY <1>1 DEF DirectMapStep
<1>3. r.va = c /\ r.pa = c /\ r.end = e /\ r.rw = TRUE
  OBVIOUS
<1> HIDE DEF r
<1>4. /\ pc = "idle" /\ pc' = "walk" /\ req' = r /\ i' = 0 /\ r \in Requests
      /\ UNCHANGED <<mem, root, level, store, status>>
  BY <1>2 DEF Call
<1>5. Low(c, e) = 0
  BY <1>3, <1>4, PageTablesAssumption
<1>6. e <= SizeAt(c) /\ AtFirstPage(c + s) /\ c + s <= m
  <2>1. AtFirstPage(c) /\ e = Largest(MaxFrame - c) /\ c < MaxFrame
    BY <1>1, <1>2 DEF Sound, Progress
  <2>2. e <= SizeAt(c) /\ AtFirstPage(c + Span(e)) /\ c + Span(e) <= MaxFrame
    BY <1>5, <2>1, DirectMapSizes
  <2> QED
    BY <1>1, <2>2
<1>7. Mapped = c /\ Mapped' = c
  BY <1>1, <1>2, <1>3, <1>4 DEF Mapped
<1>8. FitsTables(r)
  BY <1>3, <1>4, <1>7, FitsAbove DEF Sound, Shown
<1>9. Extra <= Extra'
  BY <1>2 DEF Extra
<1>10. Progress' /\ CleanOutside'
  <2>1. Progress'
    BY <1>1, <1>2, <1>4, <1>6 DEF Sound, Progress, Early
  <2>2. CleanOutside'
    BY <1>2, <1>4 DEF Sound, CleanOutside
  <2> QED
    BY <2>1, <2>2
<1>11. Asked'
  <2>1. DirectRequest'
    BY <1>1, <1>2, <1>3, <1>4, <1>5, <1>6 DEF DirectRequest
  <2> QED
    BY <1>2, <2>1 DEF Asked
<1>12. (StackDone' => StackDone) /\ (BaseDone' => BaseDone)
  BY <1>2 DEF StackDone, BaseDone, KernelRun
<1>13. \A n \in 0..Len(Sections) : \A o \in 0..(Part(n).size - 1) :
          ImageDone(n, o)' => ImageDone(n, o)
  BY <1>2 DEF ImageDone, KernelRun
<1>14. at' = "direct" => at = "direct"
  BY <1>2
<1>15. at' = "kernel" /\ off' # 0 => SwitchReached
  BY <1>2
<1> QED
  BY <1>2, <1>4, <1>7, <1>8, <1>9, <1>10, <1>11, <1>12, <1>13, <1>14, <1>15, CallKeeps

\* The stack and the code are mapped above physical memory.
LEMMA OnceCall ==
    ASSUME LowPages, SafeLayout, BootTypes, Sound, MapStack \/ MapCode
    PROVE  Sound'
<1>1. /\ \/ at = "mapstack" /\ at' = "code"
         \/ at = "mapcode" /\ at' = "switch"
      /\ UNCHANGED <<cur, page, sec, off>>
  BY DEF MapStack, MapCode
<1>2. PICK r \in Requests :
         /\ Call(r)
         /\ at = "mapstack" => r = Map4K(KernelStack, page, TRUE)
         /\ at = "mapcode" => r = Map4K(KernelBase, page, TRUE)
  <2>1. CASE MapStack
    <3>1. Map4K(KernelStack, page, TRUE) \in Requests
      BY <2>1 DEF MapStack, Call
    <3> QED
      BY <2>1, <3>1 DEF MapStack
  <2>2. CASE MapCode
    <3>1. Map4K(KernelBase, page, TRUE) \in Requests
      BY <2>2 DEF MapCode, Call
    <3> QED
      BY <2>2, <3>1 DEF MapCode
  <2> QED
    BY <2>1, <2>2
<1>3. /\ pc = "idle" /\ pc' = "walk" /\ req' = r /\ i' = 0
      /\ UNCHANGED <<mem, root, level, store, status>>
  BY <1>2 DEF Call
<1>4. cur = MaxFrame /\ Mapped = MaxFrame /\ Mapped' = Mapped /\ MaxFrame \in Nat
  BY <1>1, <1>3 DEF Sound, Progress, Mapped, LowPages
<1>5. FitsTables(r)
  <2>1. r.va >= MaxFrame
    BY <1>1, <1>2 DEF Map4K, SafeLayout
  <2> QED
    BY <1>4, <2>1, FitsAbove DEF Sound, Shown
<1>6. Extra <= Extra'
  <2>1. ExtraIsSmall
    BY ExtraTypes
  <2> QED
    BY <1>1, <1>3, <2>1 DEF Extra, ExtraIsSmall
<1>7. Progress' /\ CleanOutside'
  <2>1. Progress'
    BY <1>1, <1>3 DEF Sound, Progress, Early
  <2>2. CleanOutside'
    BY <1>1, <1>3 DEF Sound, CleanOutside, Early
  <2> QED
    BY <2>1, <2>2
<1>8. Asked'
  BY <1>1, <1>2, <1>3 DEF Asked
<1>9. (StackDone' => StackDone) /\ (BaseDone' => BaseDone)
  BY <1>1, <1>3 DEF StackDone, BaseDone, KernelRun
<1>10. \A n \in 0..Len(Sections) : \A o \in 0..(Part(n).size - 1) :
          ImageDone(n, o)' => ImageDone(n, o)
  BY <1>1 DEF ImageDone, KernelRun
<1>11. at' # "direct" /\ at' # "kernel"
  BY <1>1
<1> QED
  BY <1>2, <1>4, <1>5, <1>6, <1>7, <1>8, <1>9, <1>10, <1>11, CallKeeps

\* The switch page is mapped already: by a page, or by a larger page that the call will
\* take for a table.
LEMMA SwitchIsMapped ==
    ASSUME LowPages, Sound, Mapped = MaxFrame
    PROVE  \E l \in 1..3 : Ends(SwitchPage, l)
<1>1. SwitchPage \in Pages /\ HwWalk(SwitchPage) = Identity(SwitchPage)
  BY DEF Sound, Shown, DirectShown, LowPages
<1>2. HwWalk(SwitchPage) # Unmapped
  BY <1>1 DEF Identity, Unmapped
<1> QED
  BY <1>1, <1>2, WalksAre DEF WalksEnd, Ends

\* The switch page is mapped already; the call leaves the path where that mapping ends.
LEMMA SwitchCall ==
    ASSUME LowPages, Owned, BootTypes, Sound, MapSwitchPage
    PROVE  Sound'
<1>1. /\ at = "switch" /\ at' = "kernel" /\ Call(SwitchRequest)
      /\ UNCHANGED <<cur, page, sec, off>>
  BY DEF MapSwitchPage, SwitchRequest
<1>2. /\ pc = "idle" /\ pc' = "walk" /\ req' = SwitchRequest /\ i' = 0 /\ table' = root
      /\ SwitchRequest \in Requests
      /\ UNCHANGED <<mem, root, level, store, status>>
  BY <1>1 DEF Call
<1>3. cur = MaxFrame /\ Mapped = MaxFrame /\ Mapped' = Mapped /\ MaxFrame \in Nat
      /\ sec = 0 /\ off = 0
  BY <1>1, <1>2 DEF Sound, Progress, Mapped, LowPages, Early
<1>4. PICK l \in 1..3 : Ends(SwitchPage, l)
  BY <1>3, SwitchIsMapped
<1>s. SameWalks /\ SwitchPage \in Pages
  BY <1>2, SameTables DEF LowPages
<1>5. FitsTables(SwitchRequest) \/ \E k \in 1..2 : Astray(k)'
  <2>1. CASE l = 3
    <3>1. SwitchRequest.va = SwitchPage /\ SwitchRequest.end = 3
      BY DEF SwitchRequest, Map4K
    <3>2. \A j \in 1..2 : ~Ends(SwitchPage, j)
      BY <1>4, <1>s, <2>1, WalksEndOnce DEF OneEnd
    <3>3. FitsTables(SwitchRequest)
      BY <1>2, <3>1, <3>2, FitsAreByLevel DEF FitsByLevel
    <3> QED
      BY <3>3
  <2>2. CASE l # 3
    <3>1. l \in 1..2
      BY <2>2
    <3>2. Ends(SwitchPage, l)'
      BY <1>4, <1>s DEF SameWalks, SameWalk
    <3>3. Base(SwitchPage, l) \in Frames \ Pool
      BY <3>1, SwitchBase DEF Sound, BootTypes, LowPages
    <3>4. mem'[Base(SwitchPage, l)] = ZeroPage
      <4>1. Base(SwitchPage, l) \in StrayPages
        BY <3>1 DEF StrayPages
      <4> QED
        BY <1>1, <1>2, <3>3, <4>1 DEF Sound, CleanOutside, Early
    <3>5. TableAt(SwitchPage, 0)' = root'
      <4>1. PathSteps'
        BY PathByLevel, PTL
      <4> QED
        BY <1>s, <4>1 DEF PathSteps
    <3>6. Astray(l)'
      BY <1>1, <1>2, <1>3, <3>1, <3>2, <3>4, <3>5 DEF Astray
    <3> QED
      BY <3>1, <3>6
  <2> QED
    BY <2>1, <2>2
<1>6. Extra <= Extra'
  <2>1. ExtraIsSmall
    BY ExtraTypes
  <2> QED
    BY <1>1, <1>2, <1>3, <2>1 DEF Extra, ExtraIsSmall
<1>7. Progress' /\ CleanOutside'
  <2>1. Progress'
    BY <1>1, <1>2 DEF Sound, Progress, Early
  <2>2. CleanOutside'
    BY <1>1 DEF CleanOutside, Early
  <2> QED
    BY <2>1, <2>2
<1>8. Asked'
  BY <1>1, <1>2, <1>3 DEF Asked
<1>9. (StackDone' => StackDone) /\ (BaseDone' => BaseDone)
  BY <1>1, <1>2 DEF StackDone, BaseDone, KernelRun
<1>10. \A n \in 0..Len(Sections) : \A o \in 0..(Part(n).size - 1) :
          ImageDone(n, o)' => ImageDone(n, o)
  <2> SUFFICES ASSUME NEW n \in 0..Len(Sections), NEW o \in 0..(Part(n).size - 1),
                      ImageDone(n, o)'
               PROVE  FALSE
    OBVIOUS
  <2>1. n < 0 \/ o < -1
    BY <1>1, <1>2, <1>3 DEF ImageDone
  <2>2. n \in Nat /\ o \in Nat
    BY SectionCount, PartTypes
  <2> QED
    BY <2>1, <2>2
<1>11. at' # "direct" /\ ~(at' = "kernel" /\ off' # 0)
  BY <1>1, <1>3
<1> QED
  BY <1>1, <1>2, <1>3, <1>5, <1>6, <1>7, <1>8, <1>9, <1>10, <1>11, CallKeeps

\* The kernel's pages are mapped above physical memory.
LEMMA KernelCall ==
    ASSUME LowPages, SafeLayout, Intact, BootTypes, Sound, MapKernelPage
    PROVE  Sound'
<1>1. /\ at = "kernel" /\ at' = "kernel" /\ sec <= Len(Sections) /\ off < Part(sec).size
      /\ off' = off + 1 /\ UNCHANGED <<cur, page, sec>> /\ Call(ImageRequest(sec, off))
  BY IntactHeaders DEF MapKernelPage, ImageRequest, ImagePage
<1> DEFINE r == ImageRequest(sec, off)
<1>2. r.va = ImagePage(sec, off)
  BY DEF ImageRequest, Map4K
<1> HIDE DEF r
<1>3. /\ pc = "idle" /\ pc' = "walk" /\ req' = r /\ i' = 0 /\ r \in Requests
      /\ UNCHANGED <<mem, root, level, store, status>>
  BY <1>1 DEF Call, r
<1>4. cur = MaxFrame /\ Mapped = MaxFrame /\ Mapped' = Mapped /\ MaxFrame \in Nat
  BY <1>1, <1>3 DEF Sound, Progress, Mapped, LowPages
<1>5. sec \in 0..Len(Sections) /\ off \in Nat /\ Part(sec).size \in Nat /\ Part(sec).rva \in Nat
  BY <1>1, SectionCount, PartTypes DEF BootTypes, BootVariables
<1>6. FitsTables(r)
  <2>1. PICK b \in Nat, a \in Nat, o \in Nat :
           b = KernelBase /\ a = Part(sec).rva /\ o = off /\ b >= MaxFrame
    BY <1>5, BootAssumption, PagesAreNumbers DEF SafeLayout
  <2>2. r.va >= MaxFrame
    BY <1>2, <1>4, <2>1 DEF ImagePage
  <2> QED
    BY <1>3, <1>4, <2>2, FitsAbove DEF Sound, Shown
<1>7. Extra <= Extra'
  <2>1. ExtraIsSmall
    BY ExtraTypes
  <2>2. off' # 0
    BY <1>1, <1>5
  <2> QED
    BY <1>1, <1>3, <2>1, <2>2 DEF Extra, ExtraIsSmall
<1>8. Progress' /\ CleanOutside'
  <2>1. Progress'
    BY <1>1, <1>3 DEF Sound, Progress, Early
  <2>2. CleanOutside'
    BY <1>1 DEF CleanOutside, Early
  <2> QED
    BY <2>1, <2>2
<1>9. Asked'
  <2>1. off' # 0 /\ off' <= Part(sec).size /\ off' - 1 = off
    <3>1. PICK o \in Nat, s \in Nat : o = off /\ s = Part(sec).size
      BY <1>5
    <3> QED
      BY <1>1, <3>1
  <2>2. ImageRequest(sec, off' - 1) = r
    BY <2>1 DEF r
  <2> QED
    BY <1>1, <1>3, <2>1, <2>2 DEF Asked, ImageRequest, ImagePage
<1>10. (StackDone' => StackDone) /\ (BaseDone' => BaseDone)
  BY <1>1 DEF StackDone, BaseDone, KernelRun
<1>11. \A n \in 0..Len(Sections) : \A o \in 0..(Part(n).size - 1) :
          ImageDone(n, o)' => ImageDone(n, o)
  <2>1. off' - 1 = off
    BY <1>1, <1>5
  <2> QED
    BY <1>1, <1>3, <2>1 DEF ImageDone
<1>12. at' # "direct" /\ SwitchReached
  BY <1>1, <1>3 DEF Sound, SwitchShown
<1>13. Call(r)
  BY <1>1 DEF r
<1> QED
  BY <1>3, <1>4, <1>6, <1>7, <1>8, <1>9, <1>10, <1>11, <1>12, <1>13, CallKeeps

-----------------------------------------------------------------------------
(* The steps inside UefiMapTables. *)

\* What every step of the loop needs to know.
LEMMA InLoop ==
    ASSUME BootTypes, Sound, pc = "walk"
    PROVE  /\ TypeOK /\ Store!TypeOK /\ RootBeforeWalk /\ Tree /\ Reached
           /\ (OnPath => WalkOnPath)
           /\ req \in Requests /\ req.va \in Pages /\ req.va \in Nat /\ req.end \in 1..3
           /\ i \in 0..3 /\ table \in Frames /\ table # NoTable /\ root # NoTable
           /\ at \in {"direct", "code", "switch", "kernel"}
           /\ at # "direct" => /\ Mapped = MaxFrame /\ cur = MaxFrame /\ req.end = 3
<1>1. TypeOK /\ Store!TypeOK /\ RootBeforeWalk /\ Tree
  BY DEF BootTypes, TypeOK, Sound
<1>2. Reached
  BY <1>1, PathsReachTables DEF Tree
<1>3. req \in Requests /\ i \in 0..3 /\ table \in Frames /\ root \in Frames
  BY DEF BootTypes, TypeOK, RootBeforeWalk
<1>4. req.va \in Pages /\ req.va \in Nat /\ req.end \in 1..3
  BY <1>3, RequestTypes, PagesAreNumbers
<1>5. at \in {"direct", "code", "switch", "kernel"} /\ (at # "direct" => req.end = 3)
  BY DEF Sound, Asked, SwitchRequest, ImageRequest, Map4K
<1>6. at # "direct" => Mapped = MaxFrame /\ cur = MaxFrame
  BY <1>5 DEF Sound, Progress, Mapped
<1>7. OnPath => WalkOnPath
  BY DEF OnPath, WalkOnPath
<1>8. table # NoTable /\ root # NoTable
  BY <1>3 DEF Frames, NoTable
<1> QED
  BY <1>1, <1>2, <1>3, <1>4, <1>5, <1>6, <1>7, <1>8

\* On the path of the page, a table that is not there is one that is needed.
LEMMA OnPathNeeds ==
    ASSUME LowPages, BootTypes, Sound, pc = "walk", OnPath, i < req.end, ~Current.p
    PROVE  /\ i + 1 \in 1..3
           /\ <<i + 1, Region(req.va, i + 1)>> \in TablesNeeded
           /\ <<i + 1, Region(req.va, i + 1)>> \notin Built
<1>0. Reached /\ WalkOnPath /\ TypeOK /\ RootBeforeWalk /\ Tree
  BY InLoop
<1>1. PICK u \in Pages, n \in 0..2 :
         /\ u = req.va /\ n = i /\ u \in Nat /\ TableAt(u, n) = table /\ Index(u, n) = Slot
  <2>1. i \in 0..2 /\ req.va \in Pages /\ req.va \in Nat
    BY InLoop
  <2> QED
    BY <1>0, <2>1, WalkStands
<1>2. ~EntryAt(u, n).p
  BY <1>1 DEF EntryAt, Current
<1>3. <<n + 1, Region(u, n + 1)>> \in TablesNeeded
  <2>0. n + 1 \in 0..3
    OBVIOUS
  <2>1. CASE at = "direct"
    <3>1. DirectRequest
      BY <2>1 DEF Sound, Asked
    <3>2. PICK e \in 1..3, s \in Nat \ {0}, c \in Nat, m \in Nat :
             e = req.end /\ s = Span(e) /\ c = cur /\ m = MaxFrame /\ c <= m
      <4>1. req.end \in 0..3 /\ req.end \in 1..3
        BY InLoop
      <4>2. Span(req.end) \in Nat \ {0}
        BY <4>1, SpanPositive
      <4>3. cur \in Nat /\ MaxFrame \in Nat /\ cur <= MaxFrame
        BY DEF BootTypes, BootVariables, LowPages, Sound, Progress
      <4> QED
        BY <4>1, <4>2, <4>3
    <3>3. c = u + s /\ e <= SizeAt(u) /\ n < e
      BY <1>1, <3>1, <3>2 DEF DirectRequest
    <3>4. u < MaxFrame
      BY <1>1, <3>2, <3>3
    <3>5. n + 1 <= SizeAt(u)
      <4>1. SizeAt(u) \in 1..3
        BY DEF SizeAt
      <4> QED
        BY <3>3, <4>1
    <3> QED
      BY <1>1, <2>0, <3>4, <3>5, NeededForMemory
  <2>2. CASE at = "code"
    <3>1. u = KernelStack
      BY <1>1, <2>2 DEF Sound, Asked, Map4K
    <3> QED
      BY <2>0, <3>1, NeededForKernel
  <2>3. CASE at = "switch"
    <3>1. u = KernelBase
      BY <1>1, <2>3 DEF Sound, Asked, Map4K
    <3> QED
      BY <2>0, <3>1, NeededForKernel
  <2>4. CASE at = "kernel" /\ off = 0
    <3>1. req = SwitchRequest /\ u = SwitchPage /\ req.end = 3
      BY <1>1, <2>4 DEF Sound, Asked, SwitchRequest, Map4K
    <3>2. \A j \in 1..2 : ~Ends(SwitchPage, j)
      <4>1. \A j \in 1..(req.end - 1) : ~Ends(req.va, j)
        BY InLoop, FitsAreByLevel DEF OnPath, FitsByLevel
      <4> QED
        BY <1>1, <3>1, <4>1
    <3>3. Ends(SwitchPage, 3)
      <4>1. \E l \in 1..3 : Ends(SwitchPage, l)
        BY <2>4, InLoop, SwitchIsMapped
      <4> QED
        BY <3>2, <4>1
    <3>4. TableAt(u, 3) # NoTable
      BY <3>1, <3>3, EndsAreByLevel DEF EndsByLevel, Ends
    <3>5. EntryAt(u, n).p
      BY <3>4, TablesAbove
    <3> QED
      BY <1>2, <3>5
  <2>5. CASE at = "kernel" /\ off # 0
    <3>1. /\ sec <= Len(Sections) /\ off <= Part(sec).size
          /\ u = ImagePage(sec, off - 1)
      BY <1>1, <2>5 DEF Sound, Asked, ImageRequest, Map4K
    <3>2. sec \in 0..Len(Sections) /\ off \in Nat
      BY <3>1, SectionCount DEF BootTypes, BootVariables
    <3>3. off - 1 \in 0..(Part(sec).size - 1)
      <4>1. PICK o \in Nat, s \in Nat : o = off /\ s = Part(sec).size
        BY <3>2, PartTypes
      <4> QED
        BY <2>5, <3>1, <4>1
    <3>4. u \in ImagePages
      BY <3>1, <3>2, <3>3 DEF ImagePages
    <3> QED
      BY <2>0, <3>4, NeededForKernel
  <2> QED
    BY <2>1, <2>2, <2>3, <2>4, <2>5, InLoop
<1>4. <<n + 1, Region(u, n + 1)>> \notin Built
  <2> SUFFICES ASSUME NEW v \in Pages, NEW j \in 0..3,
                      <<n + 1, Region(u, n + 1)>> = <<j, Region(v, j)>>, Has(v, j)
               PROVE  FALSE
    BY DEF Built
  <2>1. j = n + 1 /\ Region(u, n + 1) = Region(v, n + 1)
    OBVIOUS
  <2>2. v \div Span(n) = u \div Span(n)
    <3>1. n + 1 # 0 /\ (n + 1) - 1 = n
      OBVIOUS
    <3> QED
      BY <2>1, <3>1 DEF Region
  <2>3. Index(v, n) = Index(u, n) /\ TableAt(v, n) = TableAt(u, n)
    <3>1. n \in 0..3 /\ n \in 0..n
      OBVIOUS
    <3> QED
      BY <2>2, <3>1, PathsAgree
  <2>4. ~EntryAt(v, n).p
    BY <1>2, <2>3 DEF EntryAt
  <2>5. TableAt(v, n + 1) = NoTable
    BY <2>4, PathByLevel DEF PathSteps
  <2> QED
    BY <2>1, <2>5 DEF Has
<1> QED
  BY <1>1, <1>3, <1>4

\* Astray, the one table that is taken is the one inside a huge page.
LEMMA AstrayNeeds ==
    ASSUME LowPages, BootTypes, Sound, pc = "walk", NEW l \in 1..2, Astray(l),
           i < req.end, ~Current.p
    PROVE  /\ l = 1 /\ i = 2 /\ table = Base(SwitchPage, 1) /\ Slot = Index(SwitchPage, 2)
           /\ Extra = 2 /\ Astrays = 1
<1>1. at = "kernel" /\ off = 0 /\ req = SwitchRequest /\ req.va = SwitchPage /\ req.end = 3
  BY DEF Astray, Sound, Asked, SwitchRequest, Map4K
<1>2. SwitchPage \in Pages /\ Ends(SwitchPage, l)
  BY DEF Astray, LowPages
<1>3. TableAt(SwitchPage, l) # NoTable /\ EntryAt(SwitchPage, l).p
  BY <1>2, EndsAreByLevel DEF EndsByLevel, Ends
<1>4. ~(i <= l)
  <2> SUFFICES ASSUME i <= l PROVE FALSE
    OBVIOUS
  <2>1. PICK n \in 0..2 : n = i
    BY InLoop
  <2>2. EntryAt(SwitchPage, n).p
    BY <1>2, <1>3, <2>1, TablesAbove
  <2>3. Current = EntryAt(SwitchPage, n)
    BY <1>1, <2>1 DEF Astray, Current, Slot, EntryAt
  <2> QED
    BY <2>2, <2>3
<1>5. l = 1 /\ i = 2
  BY <1>1, <1>4, InLoop
<1>6. table = Base(SwitchPage, 1) /\ Slot = Index(SwitchPage, 2)
  BY <1>1, <1>5 DEF Astray, Slot
<1>7. Astrays = 1
  <2>1. Base(SwitchPage, 1) + Span(1) <= Mapped
    BY <1>2, <1>5 DEF Sound, Shown, LargerBelow
  <2>2. Mapped = MaxFrame
    BY <1>1, InLoop
  <2> QED
    BY <2>1, <2>2 DEF Astrays, SizeAt
<1>8. Extra = 2
  BY <1>1, <1>5 DEF Extra
<1> QED
  BY <1>5, <1>6, <1>7, <1>8

\* In the loop, AllocatePage has a page to give.
LEMMA LoopIsServed ==
    ASSUME LowPages, EnoughPages, Owned, NothingLost, NothingLost', BootTypes, Sound,
           pc = "walk", i < req.end, ~Current.p
    PROVE  ~AllocateFails
<1>1. (\E k \in TablesNeeded : k \notin Built) \/ Extra < 2 + Astrays
  <2>1. CASE OnPath
    BY <2>1, OnPathNeeds
  <2>2. ASSUME NEW l \in 1..2, Astray(l) PROVE Extra < 2 + Astrays
    BY <2>2, AstrayNeeds
  <2> QED
    BY <2>1, <2>2 DEF Sound, Walks
<1>2. free # {}
  BY <1>1, InLoop, NotExhausted DEF Sound
<1> QED
  BY <1>2, LostForGood DEF Store!Exhaust

\* And it has one for the PML4.
LEMMA StartIsServed ==
    ASSUME EnoughPages, Owned, NothingLost, NothingLost', BootTypes, Sound, at = "init"
    PROVE  ~AllocateFails
<1>1. Extra < 2 + Astrays
  <2>1. ExtraIsSmall
    BY ExtraTypes
  <2> QED
    BY <2>1 DEF Extra, ExtraIsSmall
<1>2. free # {}
  BY <1>1, NotExhausted DEF Sound, BootTypes, TypeOK
<1> QED
  BY <1>2, LostForGood DEF Store!Exhaust

\* SsPagingInit.
LEMMA StartStep ==
    ASSUME LowPages, Owned, BootTypes, Sound, PagingStep, at # "fault",
           NEW f \in Frames, SsPagingInit(f)
    PROVE  Sound'
<1>t. TypeOK /\ Store!TypeOK /\ RootBeforeWalk /\ Tree
  BY DEF BootTypes, TypeOK, Sound
<1>1. /\ pc = "start" /\ pc' = "idle" /\ root' = f /\ AllocatePage(f)
      /\ mem' = [mem EXCEPT ![f] = ZeroPage] /\ level' = [level EXCEPT ![f] = 0]
      /\ UNCHANGED <<walk, status>>
  BY DEF SsPagingInit, SetRoot
<1>2. at = "init" /\ cur = 0 /\ sec = 0 /\ off = 0
  BY <1>1 DEF Sound, Progress, Early
<1>3. at' = "direct" /\ UNCHANGED <<cur, page, sec, off>>
  BY <1>1 DEF PagingStep
<1>4. Tree'
  BY <1>t, SetRootKeepsTree
<1>5. \A v \in Pages : /\ Has(v, 0)' /\ \A j \in 0..3 : Has(v, j)' => j = 0
                       /\ \A j \in 1..3 : ~Ends(v, j)'
  BY <1>t, OnlyRoot
<1>6. Progress'
  <2>1. AtFirstPage(0)
    <3>1. \A j \in 1..2 : Low(0, j) = 0
      <4> SUFFICES ASSUME NEW j \in 1..2 PROVE Low(0, j) = 0
        OBVIOUS
      <4>1. j \in 0..3 /\ 0 \in Nat
        OBVIOUS
      <4>2. Base(0, j) \in Nat /\ Base(0, j) <= 0 /\ Low(0, j) \in 0..(Span(j) - 1)
            /\ 0 = Base(0, j) + Low(0, j) /\ Span(j) \in Nat
        BY <4>1, BaseFacts, SpanPositive
      <4>3. PICK b \in Nat, c \in Nat : b = Base(0, j) /\ c = Low(0, j) /\ 0 = b + c
        BY <4>2
      <4> QED
        BY <4>3
    <3> QED
      BY <3>1 DEF AtFirstPage
  <2> QED
    BY <1>1, <1>2, <1>3, <2>1 DEF Sound, Progress, Early, LowPages
<1>7. Counted'
  <2>1. <<0, Region(KernelStack, 0)>> \in TablesNeeded
    <3>1. 0 \in 0..3 /\ KernelStack \in {KernelStack, KernelBase} \cup ImagePages
      OBVIOUS
    <3> QED
      BY <3>1, NeededForKernel
  <2> DEFINE k == <<0, Region(KernelStack, 0)>>
  <2>2. root = NoTable
    BY <1>t, <1>1 DEF Tree, RootIsTable
  <2>3. Built = {}
    <3>1. \A v \in Pages : \A j \in 0..3 : ~Has(v, j)
      <4> SUFFICES ASSUME NEW v \in Pages, NEW j \in 0..3, Has(v, j) PROVE FALSE
        OBVIOUS
      <4>1. TableAt(v, 0) = NoTable
        BY <2>2, PathByLevel DEF PathSteps
      <4>2. j # 0
        BY <4>1 DEF Has
      <4> QED
        BY <4>1, <4>2, TablesAbove DEF Has
    <3> QED
      BY <3>1 DEF Built
  <2>4. k \in Built'
    <3>1. Has(KernelStack, 0)' /\ KernelStack \in Pages
      BY <1>5, BootAssumption
    <3> QED
      BY <2>1, <3>1 DEF Built
  <2>5. held' = held \cup {f}
    <3>1. Store!Serve(f)
      BY <1>1 DEF AllocatePage
    <3> QED
      BY <1>t, <3>1, ServedIsFresh
  <2>6. Extra <= Extra'
    BY <1>2, <1>3 DEF Extra
  <2> HIDE DEF k
  <2>7. k \in TablesNeeded /\ k \notin Built /\ Built \subseteq Built'
    BY <2>1, <2>3 DEF k
  <2> QED
    BY <1>t, <2>4, <2>5, <2>6, <2>7, CountedTable DEF Sound
<1>8. Asked' /\ Walks'
  BY <1>1 DEF Asked, Walks
<1>9. CleanOutside'
  <2>1. f \in Pool
    <3>1. Store!Serve(f)
      BY <1>1 DEF AllocatePage
    <3> QED
      BY <3>1 DEF Store!Serve, Owned
  <2>2. \A g \in Frames : g # f => mem'[g] = mem[g]
    BY <1>1, <1>t DEF TypeOK
  <2> QED
    BY <1>2, <2>1, <2>2 DEF Sound, CleanOutside, Early
<1>10. Shown'
  <2>1. Mapped' = 0
    BY <1>1, <1>2, <1>3 DEF Mapped
  <2>2. DirectShown'
    <3>1. \A v \in Pages : ~(v < 0)
      BY PagesAreNumbers
    <3> QED
      BY <2>1, <3>1 DEF DirectShown
  <2>3. LargerBelow'
    <3>1. \A j \in 1..2 : j \in 1..3
      OBVIOUS
    <3> QED
      BY <1>5, <3>1 DEF LargerBelow
  <2>4. KernelShown'
    BY <1>3 DEF KernelShown, StackDone, BaseDone, ImageDone, KernelRun
  <2> QED
    BY <2>2, <2>3, <2>4 DEF Shown
<1>11. TablesBelow' /\ SwitchShown'
  <2>1. \A v \in Pages : \A j \in 1..3 : ~Has(v, j)'
    <3>1. \A j \in 1..3 : j \in 0..3 /\ j # 0
      OBVIOUS
    <3> QED
      BY <1>5, <3>1
  <2> QED
    BY <1>3, <2>1 DEF TablesBelow, SwitchShown
<1> QED
  BY <1>4, <1>6, <1>7, <1>8, <1>9, <1>10, <1>11 DEF Sound

\* The steps of the loop are steps of the same statement.
LEMMA LoopFrame ==
    ASSUME PagingStep, pc = "walk", pc' # "halt"
    PROVE  UNCHANGED <<at, cur, page, sec, off>>
  BY DEF PagingStep

\* A present entry is followed.
LEMMA DescendStep ==
    ASSUME LowPages, Owned, BootTypes, Sound, PagingStep, Descend
    PROVE  Sound'
<1>1. /\ pc = "walk" /\ pc' = "walk" /\ i < req.end /\ Current.p
      /\ table' = Current.frame /\ i' = i + 1 /\ req' = req
      /\ UNCHANGED <<mem, root, level, store, status>>
  BY DEF Descend
<1>2. UNCHANGED <<at, cur, page, sec, off>>
  BY <1>1, LoopFrame
<1>t. /\ TypeOK /\ RootBeforeWalk /\ Tree /\ Reached /\ (OnPath => WalkOnPath)
      /\ req.end \in 1..3 /\ i \in 0..3
      /\ at \in {"direct", "code", "switch", "kernel"}
  BY <1>1, InLoop
<1>3. Tree' /\ SameWalks
  BY <1>1, SameTree DEF BootTypes, Sound
<1>4. Counted'
  <2>1. ExtraIsSmall
    BY ExtraTypes
  <2>2. Extra <= Extra'
    BY <1>1, <1>2, <1>t, <2>1 DEF Extra, ExtraIsSmall
  <2> QED
    BY <1>1, <2>2, SameCount DEF Sound
<1>5. Progress' /\ CleanOutside'
  <2>1. Progress'
    BY <1>1, <1>2, <1>t DEF Sound, Progress
  <2>2. CleanOutside'
    BY <1>1, <1>2 DEF Sound, CleanOutside
  <2> QED
    BY <2>1, <2>2
<1>6. Asked'
  BY <1>1, <1>2 DEF Sound, Asked, DirectRequest
<1>7. Walks'
  <2>1. CASE OnPath
    <3>1. WalkOnPath'
      BY <1>t, <2>1, DescendStaysOnPath
    <3> QED
      BY <1>1, <3>1 DEF Walks, WalkOnPath, OnPath
  <2>2. ASSUME NEW l \in 1..2, Astray(l) PROVE Astray(l)'
    <3>1. /\ at = "kernel" /\ off = 0 /\ req.va = SwitchPage /\ SwitchPage \in Pages
          /\ Ends(SwitchPage, l) /\ SwitchPage \in Nat /\ req.end = 3
      BY <1>1, <2>2 DEF Astray, Sound, Asked, SwitchRequest, Map4K, LowPages
    <3>2. i <= l
      <4>1. ~(i > l + 1)
        BY <1>1, <2>2, <3>1 DEF Astray
      <4>2. ~(i = l + 1)
        <5>1. \A k \in 0..(Fan - 1) : ~ZeroPage[k].p
          BY ZeroPageEntries
        <5>2. Slot \in 0..(Fan - 1)
          BY <1>t, SlotInTable
        <5>3. i = l + 1 => Current = ZeroPage[Slot]
          BY <2>2 DEF Astray, Current
        <5> QED
          BY <1>1, <5>1, <5>2, <5>3
      <4> QED
        BY <1>t, <4>1, <4>2
    <3>3. PICK n \in 0..2 : n = i /\ n <= l
      BY <1>t, <3>2
    <3>4. Current = EntryAt(SwitchPage, n)
      BY <2>2, <3>1, <3>3 DEF Astray, Current, Slot, EntryAt
    <3>5. TableAt(SwitchPage, l) # NoTable /\ EntryAt(SwitchPage, l).p
      BY <3>1, EndsAreByLevel DEF EndsByLevel, Ends
    <3>6. n + 1 <= l => Current.frame = TableAt(SwitchPage, n + 1)'
      <4> SUFFICES ASSUME n + 1 <= l
                   PROVE  Current.frame = TableAt(SwitchPage, n + 1)'
        OBVIOUS
      <4>1. TableAt(SwitchPage, n) # NoTable /\ EntryAt(SwitchPage, n).p
            /\ ~EntryAt(SwitchPage, n).ps
        <5>1. n \in 0..3 /\ n < l /\ l \in 0..3
          OBVIOUS
        <5> QED
          BY <3>1, <3>5, <5>1, TablesAbove
      <4>2. TableAt(SwitchPage, n + 1) = EntryAt(SwitchPage, n).frame
        BY <3>1, <4>1, PathByLevel DEF PathSteps
      <4>3. n + 1 \in 0..3
        OBVIOUS
      <4>4. TableAt(SwitchPage, n + 1)' = TableAt(SwitchPage, n + 1)
        BY <1>3, <3>1, <4>3 DEF SameWalks, SameWalk
      <4> QED
        BY <3>4, <4>2, <4>4
    <3>7. i' = l + 1 => table' = Base(SwitchPage, l)
      <4> SUFFICES ASSUME n = l PROVE Current.frame = Base(SwitchPage, l)
        BY <1>1, <3>3
      <4>1. HwWalk(SwitchPage) = Identity(SwitchPage)
        BY <1>1, <3>1, InLoop DEF Sound, Shown, DirectShown, LowPages
      <4>2. HwWalk(SwitchPage).frame = EntryAt(SwitchPage, l).frame + Low(SwitchPage, l)
        <5>1. l \in 1..3
          OBVIOUS
        <5> QED
          BY <3>1, <5>1, WalksAre DEF WalksEnd, Ends
      <4>3. EntryAt(SwitchPage, l).frame \in Nat
        <5>1. l \in 0..3
          OBVIOUS
        <5> QED
          BY <1>t, <3>1, <3>5, <5>1, TablesAreFrames DEF Entry, Frames
      <4>4. Low(SwitchPage, l) \in Nat /\ Base(SwitchPage, l) = SwitchPage - Low(SwitchPage, l)
        <5>1. l \in 0..3
          OBVIOUS
        <5>2. Low(SwitchPage, l) \in 0..(Span(l) - 1) /\ Span(l) \in Nat
          BY <3>1, <5>1, BaseFacts, SpanPositive
        <5> QED
          BY <5>2 DEF Base
      <4>5. EntryAt(SwitchPage, l).frame + Low(SwitchPage, l) = SwitchPage
        BY <4>1, <4>2 DEF Identity
      <4> QED
        BY <3>1, <3>3, <3>4, <4>3, <4>4, <4>5
    <3>8. i' <= l + 1 => mem'[Base(SwitchPage, l)] = ZeroPage
      BY <1>1, <1>t, <2>2, <3>2 DEF Astray
    <3>9. ~(i' > l + 1)
      BY <1>1, <1>t, <3>2
    <3>10. Ends(SwitchPage, l)'
      BY <1>3, <3>1 DEF SameWalks, SameWalk
    <3>11. i' <= l => table' = TableAt(SwitchPage, i)'
      <4>1. i' = n + 1 /\ table' = Current.frame
        BY <1>1, <3>3
      <4> QED
        BY <3>6, <4>1 DEF TableAt
    <3>12. at' = "kernel" /\ off' = 0
      BY <1>2, <3>1
    <3> QED
      BY <3>7, <3>8, <3>9, <3>10, <3>11, <3>12 DEF Astray
  <2> QED
    BY <1>1, <2>1, <2>2 DEF Sound, Walks
<1>8. Mapped' = Mapped
  BY <1>1, <1>2 DEF Mapped
<1>9. Shown'
  <2>1. SameTranslations
    BY <1>3, WalksTranslate
  <2>2. (StackDone' => StackDone) /\ (BaseDone' => BaseDone)
    BY <1>1, <1>2 DEF StackDone, BaseDone
  <2>3. \A n \in 0..Len(Sections) : \A o \in 0..(Part(n).size - 1) :
           ImageDone(n, o)' => ImageDone(n, o)
    BY <1>1, <1>2 DEF ImageDone
  <2> QED
    BY <1>8, <2>1, <2>2, <2>3, ShownKept DEF Sound
<1>10. TablesBelow'
  <2>1. \A v \in Pages : \A j \in 1..3 : Has(v, j)' => Has(v, j)
    BY <1>3 DEF SameWalks, SameWalk, Has
  <2>2. \A j \in 1..3 : j <= i => j <= i'
    BY <1>1, <1>t
  <2> QED
    BY <1>1, <1>2, <1>8, <2>1, <2>2 DEF Sound, TablesBelow
<1>11. SwitchShown'
  <2> SUFFICES ASSUME at' = "kernel", off' # 0 PROVE SwitchReached'
    BY <1>1 DEF SwitchShown
  <2>1. SwitchReached
    BY <1>2 DEF Sound, SwitchShown
  <2> QED
    BY <1>1, <2>1, SameSwitch
<1> QED
  BY <1>3, <1>4, <1>5, <1>6, <1>7, <1>9, <1>10, <1>11 DEF Sound

\* A new table on the path of the page.
LEMMA TableStep ==
    ASSUME LowPages, Owned, BootTypes, Sound, PagingStep, OnPath,
           NEW f \in Frames, NewTable(f)
    PROVE  Sound'
<1>1. /\ pc = "walk" /\ pc' = "walk" /\ i < req.end /\ ~Current.p
      /\ i' = i + 1 /\ req' = req /\ root' = root /\ status' = status
      /\ mem' = [mem EXCEPT ![table][Slot] =
                   [p |-> TRUE, rw |-> TRUE, ps |-> FALSE, frame |-> f]]
      /\ AllocatePage(f)
  BY DEF NewTable, Link
<1>2. UNCHANGED <<at, cur, page, sec, off>>
  BY <1>1, LoopFrame
<1>t. /\ TypeOK /\ Store!TypeOK /\ RootBeforeWalk /\ Tree /\ Reached /\ WalkOnPath
      /\ req.end \in 1..3 /\ i \in 0..3 /\ req.va \in Pages
      /\ table \in Frames /\ at \in {"direct", "code", "switch", "kernel"}
  BY <1>1, InLoop
<1>3. Tree' /\ WalkOnPath'
  BY <1>t, NewTableKeepsTree, NewTableStaysOnPath
<1>4. held' = held \cup {f}
  <2>1. Store!Serve(f)
    BY <1>1 DEF AllocatePage
  <2> QED
    BY <1>t, <2>1, ServedIsFresh
<1>5. level[table] = i /\ table \in held /\ table \in Pool
  <2>1. level[table] = i
    BY <1>t, <1>1, WalkStands
  <2>2. level[table] # -1
    BY <1>t, <2>1
  <2> QED
    BY <1>t, <2>1, <2>2 DEF Tree, TablesOwned, Owned
<1>6. \A g \in Frames : g # table => mem'[g] = mem[g]
  BY <1>1, <1>t DEF TypeOK
<1>7. \A v \in Pages :
         /\ HwWalk(v)' = HwWalk(v)
         /\ \A j \in 1..3 : Ends(v, j)' <=> Ends(v, j)
         /\ \A j \in 0..3 : Has(v, j) => TableAt(v, j)' = TableAt(v, j)
         /\ \A j \in 0..3 : Has(v, j)' =>
               Has(v, j) \/ (j = i + 1 /\ v \div Span(i) = req.va \div Span(i))
  BY <1>t, NewTableOnPath
<1>8. SameTranslations
  BY <1>7 DEF SameTranslations
<1>9. Counted'
  <2>1. PICK n \in 0..2, u \in Pages : n = i /\ u = req.va
    BY <1>1, <1>t
  <2> DEFINE k == <<n + 1, Region(u, n + 1)>>
  <2>2. k \in TablesNeeded /\ k \notin Built
    BY <1>1, <2>1, OnPathNeeds
  <2>3. Has(u, n + 1)'
    <3>1. Has(req.va, i)'
      BY <1>t, NewTableIsThere
    <3>2. req'.va = u /\ i' = n + 1
      BY <1>1, <2>1
    <3> QED
      BY <3>1, <3>2 DEF Has
  <2>4. k \in Built'
    <3>1. n + 1 \in 0..3
      OBVIOUS
    <3> QED
      BY <2>2, <2>3, <3>1 DEF Built
  <2>5. Built \subseteq Built'
    <3>1. TablesStay
      BY <1>7 DEF TablesStay, Has
    <3> QED
      BY <3>1, BuiltStays
  <2>6. Extra <= Extra'
    <3>1. ExtraIsSmall
      BY ExtraTypes
    <3> QED
      BY <1>1, <1>2, <1>t, <3>1 DEF Extra, ExtraIsSmall
  <2> HIDE DEF k
  <2> QED
    BY <1>t, <1>4, <2>2, <2>4, <2>5, <2>6, CountedTable DEF Sound
<1>10. Progress' /\ CleanOutside'
  <2>1. Progress'
    BY <1>1, <1>2, <1>t DEF Sound, Progress
  <2>2. CleanOutside'
    BY <1>2, <1>5, <1>6 DEF Sound, CleanOutside
  <2> QED
    BY <2>1, <2>2
<1>11. Asked'
  BY <1>1, <1>2 DEF Sound, Asked, DirectRequest
<1>12. Walks'
  BY <1>1, <1>3 DEF Walks, WalkOnPath, OnPath
<1>13. Mapped' = Mapped
  BY <1>1, <1>2 DEF Mapped
<1>14. Shown'
  <2>1. (StackDone' => StackDone) /\ (BaseDone' => BaseDone)
    BY <1>1, <1>2 DEF StackDone, BaseDone
  <2>2. \A n \in 0..Len(Sections) : \A o \in 0..(Part(n).size - 1) :
           ImageDone(n, o)' => ImageDone(n, o)
    BY <1>1, <1>2 DEF ImageDone
  <2> QED
    BY <1>8, <1>13, <2>1, <2>2, ShownKept DEF Sound
<1>15. TablesBelow'
  <2> SUFFICES ASSUME at = "direct", NEW v \in Pages, NEW j \in 1..3, Has(v, j)'
               PROVE  \/ \E w \in Pages : w < Mapped /\ Region(w, j) = Region(v, j)
                      \/ j <= i + 1 /\ Region(v, j) = Region(req.va, j)
    BY <1>1, <1>2, <1>13 DEF TablesBelow
  <2>1. CASE Has(v, j)
    <3>1. \/ \E w \in Pages : w < Mapped /\ Region(w, j) = Region(v, j)
          \/ j <= i /\ Region(v, j) = Region(req.va, j)
      BY <2>1 DEF Sound, TablesBelow
    <3>2. j <= i => j <= i + 1
      BY <1>t
    <3> QED
      BY <3>1, <3>2
  <2>2. CASE j = i + 1 /\ v \div Span(i) = req.va \div Span(i)
    <3>1. j # 0 /\ j - 1 = i
      BY <1>t, <2>2
    <3>2. Region(v, j) = Region(req.va, j)
      BY <2>2, <3>1 DEF Region
    <3> QED
      BY <2>2, <3>2
  <2>3. j \in 0..3
    OBVIOUS
  <2> QED
    BY <1>7, <2>1, <2>2, <2>3
<1>16. SwitchShown'
  <2> SUFFICES ASSUME at' = "kernel", off' # 0 PROVE SwitchReached'
    BY <1>1 DEF SwitchShown
  <2>1. SwitchReached /\ SwitchPage \in Pages
    BY <1>2 DEF Sound, SwitchShown, LowPages
  <2>2. \A j \in 1..3 : Ends(SwitchPage, j)' <=> Ends(SwitchPage, j)
    BY <1>7, <2>1
  <2>3. \A j \in 1..2 : mem'[Base(SwitchPage, j)] = mem[Base(SwitchPage, j)]
    <3>1. \A j \in 1..2 : Base(SwitchPage, j) \in Frames /\ Base(SwitchPage, j) # table
      BY <1>t, <1>5, SwitchBase
    <3> QED
      BY <1>6, <3>1
  <2>4. ASSUME NEW g \in Frames, StrayTable(g)
        PROVE  StrayTable(g)' /\ mem'[g] = mem[g]
    <3>1. g \in held /\ Unlinked(g) /\ level[g] = 3
      BY <2>4 DEF StrayTable
    <3>2. Unlinked(g)' /\ level'[g] = level[g]
      BY <1>t, <3>1, StaysUnlinked
    <3>3. g # table
      BY <1>1, <1>5, <1>t, <3>1
    <3>4. mem'[g] = mem[g] /\ held \subseteq held'
      BY <1>4, <1>6, <3>3
    <3>5. mem'[Base(SwitchPage, 1)] = mem[Base(SwitchPage, 1)]
      BY <2>3
    <3> QED
      BY <2>4, <3>2, <3>4, <3>5, StrayKept
  <2> QED
    BY <2>1, <2>2, <2>3, <2>4, SwitchKept
<1> QED
  BY <1>3, <1>9, <1>10, <1>11, <1>12, <1>14, <1>15, <1>16 DEF Sound

\* What is astray leaves every walk alone.
LEMMA AstrayKeeps ==
    ASSUME LowPages, BootTypes, Sound, pc = "walk", PagingStep, pc' # "halt",
           NEW l \in 1..2, Astray(l), SameWalks, Tree', Counted', Walks',
           pc' \in {"idle", "walk"}, req' = req \/ pc' = "idle", status' = "SUCCESS",
           pc' = "idle" => SwitchReached'
    PROVE  Sound'
<1>1. at = "kernel" /\ off = 0 /\ sec = 0 /\ UNCHANGED <<at, cur, page, sec, off>>
  BY LoopFrame DEF Astray, Sound, Asked
<1>2. Progress' /\ CleanOutside'
  <2>1. Progress'
    BY <1>1 DEF Sound, Progress, Early
  <2>2. CleanOutside'
    BY <1>1 DEF CleanOutside, Early
  <2> QED
    BY <2>1, <2>2
<1>3. Asked'
  BY <1>1 DEF Sound, Asked
<1>4. Shown'
  <2>1. SameTranslations
    BY WalksTranslate
  <2>2. Mapped' = Mapped
    BY <1>1 DEF Mapped
  <2>3. (StackDone' => StackDone) /\ (BaseDone' => BaseDone)
    BY <1>1 DEF StackDone, BaseDone, KernelRun
  <2>4. \A n \in 0..Len(Sections) : \A o \in 0..(Part(n).size - 1) :
           ImageDone(n, o)' => ImageDone(n, o)
    <3> SUFFICES ASSUME NEW n \in 0..Len(Sections), NEW o \in 0..(Part(n).size - 1),
                        ImageDone(n, o)'
                 PROVE  FALSE
      OBVIOUS
    <3>1. n < 0 \/ o < 0 \/ o < -1
      BY <1>1 DEF ImageDone
    <3>2. n \in Nat /\ o \in Nat
      BY SectionCount, PartTypes
    <3> QED
      BY <3>1, <3>2
  <2> QED
    BY <2>1, <2>2, <2>3, <2>4, ShownKept DEF Sound
<1>5. TablesBelow' /\ SwitchShown'
  BY <1>1 DEF TablesBelow, SwitchShown
<1> QED
  BY <1>2, <1>3, <1>4, <1>5 DEF Sound

\* The new table that no walk reaches.
LEMMA StrayTableStep ==
    ASSUME LowPages, Owned, BootTypes, Sound, PagingStep,
           NEW l \in 1..2, Astray(l), NEW f \in Frames, NewTable(f)
    PROVE  Sound'
<1> DEFINE e == [p |-> TRUE, rw |-> TRUE, ps |-> FALSE, frame |-> f]
<1>1. /\ pc = "walk" /\ pc' = "walk" /\ i < req.end /\ ~Current.p
      /\ i' = i + 1 /\ req' = req /\ root' = root /\ status' = status /\ table' = f
      /\ mem' = [mem EXCEPT ![table][Slot] = e] /\ level' = [level EXCEPT ![f] = i + 1]
      /\ AllocatePage(f)
  BY DEF NewTable, Link
<1>e. e.p /\ e.frame = f
  OBVIOUS
<1> HIDE DEF e
<1>t. /\ TypeOK /\ Store!TypeOK /\ RootBeforeWalk /\ Tree /\ Reached
      /\ root # NoTable /\ SwitchPage \in Pages /\ Slot \in 0..(Fan - 1)
  BY <1>1, InLoop, SlotInTable DEF LowPages
<1>2. /\ l = 1 /\ i = 2 /\ table = Base(SwitchPage, 1) /\ Slot = Index(SwitchPage, 2)
      /\ Extra = 2 /\ Astrays = 1
  BY <1>1, AstrayNeeds
<1>3. UNCHANGED <<at, cur, page, sec, off>>
  BY <1>1, LoopFrame
<1>4. /\ level[f] = -1 /\ held' = held \cup {f} /\ free' \cap held' = {}
      /\ free' \subseteq free \ {f}
  <2>1. Store!Serve(f)
    BY <1>1 DEF AllocatePage
  <2> QED
    BY <1>t, <2>1, ServedIsFresh
<1>5. table \in Frames /\ level[table] = -1 /\ table \notin free
  BY <1>2, <1>t, SwitchBase
<1>6. /\ \A g \in Frames : g # table => mem'[g] = mem[g]
      /\ mem'[table][Slot] = e
  BY <1>1, <1>5, <1>t DEF TypeOK, Content
<1>7. \A g \in Frames : level'[g] = level[g] \/ (level[g] = -1 /\ level'[g] = 3)
  BY <1>1, <1>2, <1>4, <1>t DEF TypeOK
<1>8. level'[f] = 3
  BY <1>1, <1>2, <1>t DEF TypeOK
<1>9. SameWalks
  BY <1>1, <1>5, <1>6, <1>t, WriteAside
<1>10. Tree' /\ \A g \in Frames : Unlinked(g) => Unlinked(g)'
  <2>1. \A g \in Frames : level[g] \in 0..2 => mem'[g] = mem[g]
    BY <1>5, <1>6
  <2>2. \A g \in Frames : level'[g] # -1 => g \in held'
    BY <1>1, <1>4, <1>t DEF Tree, TablesOwned, TypeOK
  <2>3. \A g \in free' : mem'[g] = ZeroPage
    BY <1>4, <1>5, <1>6, <1>t DEF Tree, FreePagesClean, Store!TypeOK
  <2>4. pc' \notin {"start", "halt"}
    BY <1>1
  <2> QED
    BY <1>1, <1>4, <1>7, <1>t, <2>1, <2>2, <2>3, <2>4, WriteAsideKeepsTree
<1>11. Unlinked(f)'
  <2>1. Unlinked(f)
    <3> SUFFICES ASSUME NEW g \in Frames, NEW k \in 0..(Fan - 1), IsLink(g, k),
                        mem[g][k].frame = f
                 PROVE  FALSE
      BY DEF Unlinked
    <3>1. level[f] = level[g] + 1 /\ level[g] \in 0..2
      BY <1>t DEF Tree, LinksGoDown, IsLink
    <3> QED
      BY <1>4, <3>1
  <2> QED
    BY <1>10, <2>1
<1>12. Counted'
  <2>1. Extra' = 3
    <3>1. at' = "kernel" /\ off' = 0 /\ i' = 3
      BY <1>1, <1>2, <1>3 DEF Astray
    <3> QED
      BY <1>2, <3>1 DEF Extra, Astrays
  <2>2. Extra + 1 <= Extra'
    BY <1>2, <2>1
  <2>3. Built \subseteq Built'
    BY <1>9, WalksStay, BuiltStays
  <2> QED
    BY <1>t, <1>4, <2>2, <2>3, CountedOther DEF Sound
<1>13. Walks'
  <2>1. StrayTable(f)'
    BY <1>2, <1>4, <1>6, <1>8, <1>11, <1>e DEF StrayTable
  <2>2. Ends(SwitchPage, 1)'
    BY <1>2, <1>9, <1>t DEF Astray, SameWalks, SameWalk
  <2>3. at' = "kernel" /\ off' = 0 /\ i' = 3 /\ table' = f
    BY <1>1, <1>2, <1>3 DEF Astray
  <2>4. StrayTable(table)'
    BY <2>1, <2>3 DEF StrayTable, Unlinked
  <2>5. Astray(1)'
    BY <2>2, <2>3, <2>4 DEF Astray
  <2> QED
    BY <2>5 DEF Walks
<1>14. status' = "SUCCESS"
  BY <1>1 DEF Sound, Progress
<1> QED
  BY <1>1, <1>9, <1>10, <1>12, <1>13, <1>14, AstrayKeeps

\* The entry for the switch page that no walk reaches.
LEMMA StrayLeafStep ==
    ASSUME LowPages, Owned, BootTypes, Sound, PagingStep,
           NEW l \in 1..2, Astray(l), WriteLeaf
    PROVE  Sound'
<1> DEFINE e == [p |-> TRUE, rw |-> req.rw, ps |-> req.end < 3, frame |-> req.pa]
<1>1. /\ pc = "walk" /\ pc' = "idle" /\ i = req.end /\ status' = "SUCCESS"
      /\ mem' = [mem EXCEPT ![table][Slot] = e]
      /\ UNCHANGED <<root, level, store>>
  BY DEF WriteLeaf
<1>e. e.p
  OBVIOUS
<1> HIDE DEF e
<1>t. /\ TypeOK /\ Store!TypeOK /\ RootBeforeWalk /\ Tree /\ Reached
      /\ root # NoTable /\ SwitchPage \in Pages /\ Slot \in 0..(Fan - 1)
      /\ table \in Frames
  BY <1>1, InLoop, SlotInTable DEF LowPages
<1>2. at = "kernel" /\ off = 0 /\ req = SwitchRequest /\ i = 3 /\ Slot = Index(SwitchPage, 3)
  BY <1>1 DEF Astray, Sound, Asked, SwitchRequest, Map4K, Slot
<1>3. UNCHANGED <<at, cur, page, sec, off>> /\ held' = held /\ free' = free
  BY <1>1, LoopFrame DEF store
<1>4. \/ l = 2 /\ table = Base(SwitchPage, 2)
      \/ l = 1 /\ StrayTable(table)
  <2>1. CASE l = 2
    BY <1>2, <2>1 DEF Astray
  <2>2. CASE l = 1
    BY <1>2, <2>2 DEF Astray
  <2> QED
    BY <2>1, <2>2
<1>5. level[table] = -1 \/ (level[table] = 3 /\ Unlinked(table))
  BY <1>4, <1>t, SwitchBase DEF StrayTable
<1>6. table \notin free
  <2>1. CASE table = Base(SwitchPage, 2)
    BY <1>t, <2>1, SwitchBase
  <2>2. CASE StrayTable(table)
    BY <1>t, <2>2 DEF StrayTable, Tree, TablesOwned
  <2> QED
    BY <1>4, <2>1, <2>2
<1>7. /\ \A g \in Frames : g # table => mem'[g] = mem[g]
      /\ mem'[table][Slot] = e
  BY <1>1, <1>t DEF TypeOK, Content
<1>8. SameWalks
  BY <1>1, <1>5, <1>7, <1>t, WriteAside
<1>9. Tree' /\ \A g \in Frames : Unlinked(g) => Unlinked(g)'
  <2>1. \A g \in Frames : level[g] \in 0..2 => mem'[g] = mem[g]
    BY <1>5, <1>7
  <2>2. \A g \in Frames : level'[g] # -1 => g \in held'
    BY <1>1, <1>3, <1>t DEF Tree, TablesOwned
  <2>3. free' \cap held' = {} /\ \A g \in free' : mem'[g] = ZeroPage
    BY <1>3, <1>6, <1>7, <1>t DEF Tree, TablesOwned, FreePagesClean, Store!TypeOK
  <2>4. pc' \notin {"start", "halt"}
    BY <1>1
  <2>5. \A g \in Frames : level'[g] = level[g]
    BY <1>1
  <2> QED
    BY <1>1, <1>t, <2>1, <2>2, <2>3, <2>4, <2>5, WriteAsideKeepsTree
<1>10. Counted'
  <2>1. Extra' = 2 + Astrays /\ ExtraIsSmall
    BY <1>1, <1>2, <1>3, ExtraTypes DEF Extra
  <2>2. Extra <= Extra'
    BY <2>1 DEF ExtraIsSmall
  <2>3. Built \subseteq Built'
    BY <1>8, WalksStay, BuiltStays
  <2> QED
    BY <1>t, <1>3, <2>2, <2>3, CountedWithout DEF Sound
<1>11. SwitchReached'
  <2>1. Ends(SwitchPage, l)'
    BY <1>8, <1>t DEF Astray, SameWalks, SameWalk
  <2>2. mem'[table][Index(SwitchPage, 3)].p
    BY <1>2, <1>7, <1>e
  <2>3. CASE l = 2 /\ table = Base(SwitchPage, 2)
    BY <2>1, <2>2, <2>3 DEF SwitchReached
  <2>4. CASE l = 1 /\ StrayTable(table)
    <3>1. table # Base(SwitchPage, 1) /\ Base(SwitchPage, 1) \in Frames
      BY <1>t, <2>4, SwitchBase DEF StrayTable
    <3>2. mem'[Base(SwitchPage, 1)] = mem[Base(SwitchPage, 1)]
      BY <1>7, <3>1
    <3> DEFINE g == table
    <3>3. g \in Frames /\ StrayTable(g) /\ mem'[g][Index(SwitchPage, 3)].p
      BY <1>t, <2>2, <2>4
    <3>4. \E h \in Frames : StrayTable(h) /\ h = table /\ mem'[h][Index(SwitchPage, 3)].p
      BY <3>3
    <3>5. PICK h \in Frames : StrayTable(h) /\ h = table /\ mem'[h][Index(SwitchPage, 3)].p
      BY <3>4
    <3>6. Unlinked(h)' /\ level'[h] = level[h] /\ held \subseteq held'
      BY <1>1, <1>3, <1>9, <3>5 DEF StrayTable
    <3>7. StrayTable(h)'
      BY <3>2, <3>5, <3>6, StrayKept
    <3> QED
      BY <2>1, <2>4, <3>5, <3>7 DEF SwitchReached
  <2> QED
    BY <1>4, <2>3, <2>4
<1>12. Walks'
  BY <1>1 DEF Walks
<1> QED
  BY <1>1, <1>8, <1>9, <1>10, <1>11, <1>12, AstrayKeeps

\* The smaller parts that two pages share lie in a larger part that they share.
LEMMA SharedPart ==
    ASSUME NEW v \in Pages, NEW w \in Pages, NEW e \in 0..3, NEW j \in 0..3, e <= j,
           v \div Span(j) = w \div Span(j)
    PROVE  v \div Span(e) = w \div Span(e)
<1>1. ASSUME NEW k \in 1..3, v \div Span(k) = w \div Span(k)
      PROVE  v \div Span(k - 1) = w \div Span(k - 1)
  <2>1. v \in Int /\ w \in Int /\ Span(k) \in Nat \ {0} /\ Fan \in Nat \ {0}
    BY PagesAreNumbers, SpanPositive, FanAssumption
  <2>2. /\ (v \div Span(k)) \div Fan = v \div (Fan * Span(k))
        /\ (w \div Span(k)) \div Fan = w \div (Fan * Span(k))
    BY <2>1, DivideTwice
  <2> QED
    BY <1>1, <2>2, SpanSteps
<1>2. CASE j = 3
  <2>1. v \div Span(3 - 1) = w \div Span(3 - 1)
    BY <1>1, <1>2
  <2>2. v \div Span(2 - 1) = w \div Span(2 - 1)
    BY <1>1, <2>1
  <2>3. v \div Span(1 - 1) = w \div Span(1 - 1)
    BY <1>1, <2>2
  <2> QED
    BY <1>2, <2>1, <2>2, <2>3
<1>3. CASE j = 2
  <2>1. v \div Span(2 - 1) = w \div Span(2 - 1)
    BY <1>1, <1>3
  <2>2. v \div Span(1 - 1) = w \div Span(1 - 1)
    BY <1>1, <2>1
  <2> QED
    BY <1>3, <2>1, <2>2
<1>4. CASE j = 1
  <2>1. v \div Span(1 - 1) = w \div Span(1 - 1)
    BY <1>1, <1>4
  <2> QED
    BY <1>4, <2>1
<1> QED
  BY <1>2, <1>3, <1>4

\* What a leaf does to the walks, whoever asked for it.
LeafWalks(e, u) ==
    \A v \in Pages :
        /\ Covers(u, e, v) =>
              /\ HwWalk(v)' = [mapped |-> TRUE, frame |-> req.pa + Low(v, e), rw |-> req.rw]
              /\ \A j \in 1..3 : Ends(v, j)' <=> j = e
              /\ \A j \in 0..3 : j <= e /\ Has(v, j) => Has(v, j)'
              /\ \A j \in 0..3 : Has(v, j)' => j <= e /\ Has(v, j)
        /\ ~Covers(u, e, v) => SameWalk(v)

\* And what it keeps.
LEMMA LeafFrame ==
    ASSUME LowPages, Owned, BootTypes, Sound, PagingStep, OnPath, WriteLeaf,
           NEW e \in 1..3, e = req.end, NEW u \in Pages, u = req.va
    PROVE  /\ pc = "walk" /\ pc' = "idle" /\ i = e /\ u \in Nat
           /\ UNCHANGED <<at, cur, page, sec, off, root, level, free, held>>
           /\ Tree' /\ Progress' /\ CleanOutside' /\ Asked' /\ Walks'
           /\ LeafWalks(e, u)
           /\ (Built \subseteq Built' => Counted')
           /\ table \in Frames /\ table \in held /\ level[table] = e
           /\ (e = 3 => ~Unlinked(table))
           /\ \A f \in Frames : f # table => mem'[f] = mem[f]
<1>1. /\ pc = "walk" /\ pc' = "idle" /\ i = req.end /\ status' = "SUCCESS"
      /\ mem' = [mem EXCEPT ![table][Slot] =
                   [p |-> TRUE, rw |-> req.rw, ps |-> req.end < 3, frame |-> req.pa]]
      /\ UNCHANGED <<root, level, store>>
  BY DEF WriteLeaf
<1>2. UNCHANGED <<at, cur, page, sec, off, free, held>>
  BY <1>1, LoopFrame DEF store
<1>t. /\ TypeOK /\ Store!TypeOK /\ RootBeforeWalk /\ Tree /\ Reached /\ WalkOnPath
      /\ u \in Nat /\ at \in {"direct", "code", "switch", "kernel"} /\ table \in Frames
      /\ at # "direct" => req.end = 3
  BY <1>1, InLoop
<1>3. Tree'
  BY <1>t, WriteLeafKeepsTree
<1>4. table \in held /\ level[table] = e /\ TableAt(u, e) = table /\ table # NoTable
  <2>1. level[table] = i /\ table = TableAt(req.va, i) /\ table # NoTable
    BY <1>t, <1>1, WalkStands
  <2>2. level[table] = e
    BY <1>1, <2>1
  <2>3. table \in held
    BY <1>t, <2>2 DEF Tree, TablesOwned
  <2>4. TableAt(u, e) = table
    BY <1>1, <2>1
  <2> QED
    BY <2>1, <2>2, <2>3, <2>4
<1>5. e = 3 => ~Unlinked(table)
  <2> SUFFICES ASSUME e = 3 PROVE ~Unlinked(TableAt(u, 3))
    BY <1>4
  <2>1. Has(u, 3)
    BY <1>4 DEF Has
  <2> QED
    BY <1>t, <2>1, LastIsLinked
<1>6. \A f \in Frames : f # table => mem'[f] = mem[f]
  BY <1>1, <1>t DEF TypeOK
<1>7. Progress' /\ CleanOutside'
  <2>1. Progress'
    BY <1>1, <1>2, <1>t DEF Sound, Progress
  <2>2. CleanOutside'
    BY <1>2, <1>4, <1>6 DEF Sound, CleanOutside, Owned
  <2> QED
    BY <2>1, <2>2
<1>8. Asked' /\ Walks'
  BY <1>1 DEF Asked, Walks
<1>9. LeafWalks(e, u)
  <2>1. \A v \in Pages :
           /\ Covers(u, e, v) =>
                 /\ HwWalk(v)' = [mapped |-> TRUE, frame |-> req.pa + Low(v, e),
                                  rw |-> req.rw]
                 /\ \A j \in 1..3 : Ends(v, j)' <=> j = e
                 /\ \A j \in 0..e : TableAt(v, j)' = TableAt(v, j)
                 /\ \A j \in 0..3 : Has(v, j)' => j <= e /\ Has(v, j)
           /\ ~Covers(u, e, v) => SameWalk(v)
    BY <1>t, LeafOnPath
  <2>2. \A j \in 0..3 : j <= e => j \in 0..e
    OBVIOUS
  <2> SUFFICES ASSUME NEW v \in Pages, Covers(u, e, v), NEW j \in 0..3, j <= e, Has(v, j)
               PROVE  Has(v, j)'
    BY <2>1 DEF LeafWalks
  <2>3. TableAt(v, j)' = TableAt(v, j)
    BY <2>1, <2>2
  <2> QED
    BY <2>3 DEF Has
<1>10. Built \subseteq Built' => Counted'
  <2> SUFFICES ASSUME Built \subseteq Built' PROVE Counted'
    OBVIOUS
  <2>1. Extra <= Extra'
    <3>1. ExtraIsSmall
      BY ExtraTypes
    <3>2. at = "kernel" => i = 3
      BY <1>1, <1>t
    <3> QED
      BY <1>1, <1>2, <1>t, <3>1, <3>2 DEF Extra, ExtraIsSmall
  <2> QED
    BY <1>2, <1>t, <2>1, CountedWithout DEF Sound
<1> QED
  BY <1>1, <1>2, <1>3, <1>4, <1>5, <1>6, <1>7, <1>8, <1>9, <1>10, <1>t

\* DirectMapRange maps the next pages at their own addresses.
LEMMA DirectLeaf ==
    ASSUME LowPages, Owned, BootTypes, Sound, PagingStep, OnPath, WriteLeaf,
           at = "direct"
    PROVE  Sound'
<1>1. PICK e \in 1..3, u \in Pages : e = req.end /\ u = req.va
  <2>1. pc = "walk"
    BY DEF WriteLeaf
  <2> QED
    BY <2>1, InLoop
<1>2. /\ pc = "walk" /\ pc' = "idle" /\ i = e /\ u \in Nat
      /\ UNCHANGED <<at, cur, page, sec, off, root, level, free, held>>
      /\ Tree' /\ Progress' /\ CleanOutside' /\ Asked' /\ Walks'
      /\ LeafWalks(e, u) /\ (Built \subseteq Built' => Counted')
  BY <1>1, LeafFrame
<1>3. PICK s \in Nat \ {0} : s = Span(e)
  <2>1. e \in 0..3
    OBVIOUS
  <2> QED
    BY <2>1, SpanPositive
<1>4. /\ req.pa = u /\ req.rw /\ Low(u, e) = 0 /\ cur = u + s
      /\ Mapped = u /\ Mapped' = u + s
  BY <1>1, <1>2, <1>3 DEF Sound, Asked, DirectRequest, Mapped
<1>5. req.rw = TRUE
  BY <1>1, <1>4, RequestTypes DEF BootTypes, TypeOK
<1>6. \A v \in Pages : /\ v \in Nat
                       /\ Covers(u, e, v) <=> u <= v /\ v < u + s
                       /\ Covers(u, e, v) => Base(v, e) = u /\ Low(v, e) = v - u
  BY <1>2, <1>3, <1>4, CoveredByAligned, PagesAreNumbers
<1>7. DirectShown'
  <2> SUFFICES ASSUME NEW v \in Pages, v < u + s PROVE HwWalk(v)' = Identity(v)
    BY <1>4 DEF DirectShown, Identity
  <2>1. CASE Covers(u, e, v)
    <3>1. HwWalk(v)' = [mapped |-> TRUE, frame |-> u + Low(v, e), rw |-> TRUE]
      BY <1>2, <1>4, <1>5, <2>1 DEF LeafWalks
    <3>2. u + Low(v, e) = v
      BY <1>2, <1>6, <2>1
    <3> QED
      BY <3>1, <3>2 DEF Identity
  <2>2. CASE ~Covers(u, e, v)
    <3>1. v < u
      BY <1>2, <1>3, <1>6, <2>2
    <3> QED
      BY <1>2, <1>4, <2>2, <3>1 DEF LeafWalks, SameWalk, Sound, Shown, DirectShown
  <2> QED
    BY <2>1, <2>2
<1>8. LargerBelow'
  <2> SUFFICES ASSUME NEW v \in Pages, NEW j \in 1..2, Ends(v, j)'
               PROVE  Base(v, j) + Span(j) <= u + s
    BY <1>4 DEF LargerBelow
  <2>0. j \in 1..3
    OBVIOUS
  <2>1. CASE Covers(u, e, v)
    <3>1. j = e /\ Base(v, e) = u
      BY <1>2, <1>6, <2>0, <2>1 DEF LeafWalks
    <3> QED
      BY <1>2, <1>3, <3>1
  <2>2. CASE ~Covers(u, e, v)
    <3>1. Ends(v, j)
      BY <1>2, <2>0, <2>2 DEF LeafWalks, SameWalk
    <3>2. Base(v, j) + Span(j) <= u
      BY <1>4, <3>1 DEF Sound, Shown, LargerBelow
    <3>3. Base(v, j) \in Nat /\ Span(j) \in Nat
      <4>1. j \in 0..3 /\ v \in Nat
        BY <1>6
      <4> QED
        BY <4>1, BaseFacts, SpanPositive
    <3>4. PICK b \in Nat, x \in Nat : b = Base(v, j) /\ x = Span(j)
      BY <3>3
    <3> QED
      BY <1>2, <1>3, <3>2, <3>4
  <2> QED
    BY <2>1, <2>2
<1>9. ASSUME NEW v \in Pages, NEW j \in 1..3, Has(v, j)
      PROVE  \/ \E w \in Pages : w < u /\ Region(w, j) = Region(v, j)
             \/ j <= e /\ Region(v, j) = Region(u, j)
  BY <1>1, <1>2, <1>4, <1>9 DEF Sound, TablesBelow
<1>10. TablesBelow'
  <2> SUFFICES ASSUME NEW v \in Pages, NEW j \in 1..3, Has(v, j)'
               PROVE  \E w \in Pages : w < u + s /\ Region(w, j) = Region(v, j)
    BY <1>4 DEF TablesBelow
  <2>1. Has(v, j)
    <3>1. j \in 0..3
      OBVIOUS
    <3> QED
      BY <1>2, <3>1 DEF LeafWalks, SameWalk, Has
  <2>2. CASE \E w \in Pages : w < u /\ Region(w, j) = Region(v, j)
    <3>1. PICK w \in Pages : w < u /\ Region(w, j) = Region(v, j)
      BY <2>2
    <3>2. w < u + s
      BY <1>2, <1>3, <1>6, <3>1
    <3> QED
      BY <3>1, <3>2
  <2>3. CASE j <= e /\ Region(v, j) = Region(u, j)
    <3>1. u < u + s
      BY <1>2, <1>3
    <3> QED
      BY <2>3, <3>1
  <2> QED
    BY <1>9, <2>1, <2>2, <2>3
<1>11. Counted'
  <2>1. TablesStay
    <3> SUFFICES ASSUME NEW v \in Pages, NEW j \in 0..3, Has(v, j) PROVE Has(v, j)'
      BY DEF TablesStay
    <3>1. CASE ~Covers(u, e, v)
      BY <1>2, <3>1 DEF LeafWalks, SameWalk, Has
    <3>2. CASE Covers(u, e, v) /\ j <= e
      BY <1>2, <3>2 DEF LeafWalks
    <3>3. CASE Covers(u, e, v) /\ j > e
      <4>1. j \in 1..3 /\ e <= j - 1 /\ j - 1 \in 0..3 /\ e \in 0..3 /\ j # 0
        BY <3>3
      <4>2. PICK w \in Pages : w < u /\ Region(w, j) = Region(v, j)
        BY <1>9, <3>3, <4>1
      <4>3. w \div Span(j - 1) = v \div Span(j - 1)
        BY <4>1, <4>2 DEF Region
      <4>4. w \div Span(e) = v \div Span(e)
        BY <4>1, <4>3, SharedPart
      <4>5. Covers(u, e, w)
        BY <3>3, <4>4 DEF Covers
      <4> QED
        BY <1>2, <1>6, <4>2, <4>5
    <3> QED
      BY <3>1, <3>2, <3>3
  <2> QED
    BY <1>2, <2>1, BuiltStays
<1>12. KernelShown' /\ SwitchShown'
  BY <1>2 DEF KernelShown, StackDone, BaseDone, ImageDone, KernelRun, SwitchShown
<1> QED
  BY <1>2, <1>7, <1>8, <1>10, <1>11, <1>12 DEF Sound, Shown

\* The page that the call was about, outside DirectMapRange.
LEMMA KernelRequest ==
    ASSUME LowPages, SafeLayout, BootTypes, Sound, pc = "walk", at # "direct"
    PROVE  \/ at = "code" /\ req.va = KernelStack /\ req.va >= MaxFrame /\ req.rw = TRUE
           \/ at = "switch" /\ req.va = KernelBase /\ req.va >= MaxFrame
                            /\ req.va # KernelStack
           \/ /\ at = "kernel" /\ off = 0 /\ sec = 0 /\ req.rw = TRUE
              /\ req.va = SwitchPage /\ req.pa = SwitchPage /\ req.va # KernelStack
           \/ /\ at = "kernel" /\ off # 0 /\ sec \in 0..Len(Sections)
              /\ off \in Nat /\ off - 1 \in Nat
              /\ req.va = ImagePage(sec, off - 1) /\ req.va >= MaxFrame
              /\ req.pa = KernelImage + Part(sec).rva + (off - 1)
              /\ req.va # KernelStack
<1>1. CASE at = "code" /\ req = Map4K(KernelStack, page, TRUE)
  BY <1>1 DEF Map4K, SafeLayout
<1>2. CASE at = "switch" /\ req = Map4K(KernelBase, page, TRUE)
  BY <1>2 DEF Map4K, SafeLayout
<1>3. CASE at = "kernel" /\ off = 0 /\ sec = 0 /\ req = SwitchRequest
  <2>1. SwitchPage # KernelStack
    <3>1. SwitchPage < MaxFrame /\ KernelStack >= MaxFrame
          /\ SwitchPage \in Nat /\ KernelStack \in Nat /\ MaxFrame \in Nat
      BY BootAssumption, PagesAreNumbers DEF LowPages, SafeLayout
    <3> QED
      BY <3>1
  <2> QED
    BY <1>3, <2>1 DEF SwitchRequest, Map4K
<1>4. CASE /\ at = "kernel" /\ off # 0 /\ sec <= Len(Sections) /\ off <= Part(sec).size
           /\ req = ImageRequest(sec, off - 1)
  <2>1. sec \in 0..Len(Sections) /\ off \in Nat
    BY <1>4, SectionCount DEF BootTypes, BootVariables
  <2>2. PICK o \in Nat, a \in Nat, s \in Nat, b \in Nat, m \in Nat :
           /\ o = off - 1 /\ a = Part(sec).rva /\ s = Part(sec).size /\ b = KernelBase
           /\ m = MaxFrame /\ b >= m /\ o + 1 = off /\ o + 1 <= s
    <3>1. off - 1 \in Nat /\ (off - 1) + 1 = off
      BY <1>4, <2>1
    <3>2. Part(sec).rva \in Nat /\ Part(sec).size \in Nat
      BY <2>1, PartTypes
    <3>3. KernelBase \in Nat /\ MaxFrame \in Nat /\ KernelBase >= MaxFrame
      BY BootAssumption, PagesAreNumbers DEF LowPages, SafeLayout
    <3>4. (off - 1) + 1 <= Part(sec).size
      BY <1>4, <3>1
    <3> QED
      BY <3>1, <3>2, <3>3, <3>4
  <2>3. req.va = ImagePage(sec, off - 1) /\ req.pa = KernelImage + Part(sec).rva + (off - 1)
    BY <1>4 DEF ImageRequest, Map4K
  <2>4. ImagePage(sec, off - 1) = b + a + o
    BY <2>2 DEF ImagePage
  <2>5. req.va >= MaxFrame
    BY <2>2, <2>3, <2>4
  <2>6. req.va \in ImagePages
    <3>1. off - 1 \in 0..(Part(sec).size - 1)
      BY <2>2
    <3>2. req.va \in Pages
      BY InLoop
    <3> QED
      BY <2>1, <2>3, <3>1, <3>2 DEF ImagePages
  <2>7. req.va # KernelStack
    BY <2>6 DEF SafeLayout
  <2>8. off - 1 \in Nat
    BY <2>2
  <2> QED
    BY <1>4, <2>1, <2>3, <2>5, <2>7, <2>8
<1> QED
  BY <1>1, <1>2, <1>3, <1>4 DEF Sound, Asked

\* A leaf of the last level is the translation of one page.
LEMMA KernelLeaf ==
    ASSUME LowPages, SafeLayout, Owned, BootTypes, Sound, PagingStep, OnPath, WriteLeaf,
           at # "direct"
    PROVE  Sound'
<1>1. pc = "walk"
  BY DEF WriteLeaf
<1>2. PICK u \in Pages : u = req.va /\ u \in Nat /\ req.end = 3
  BY <1>1, InLoop
<1>f. /\ pc' = "idle" /\ i = 3
      /\ UNCHANGED <<at, cur, page, sec, off, root, level, free, held>>
      /\ Tree' /\ Progress' /\ CleanOutside' /\ Asked' /\ Walks'
      /\ LeafWalks(3, u) /\ (Built \subseteq Built' => Counted')
      /\ table \in Frames /\ level[table] = 3 /\ ~Unlinked(table)
      /\ \A f \in Frames : f # table => mem'[f] = mem[f]
  <2> DEFINE e == 3
  <2>1. e \in 1..3 /\ e = req.end
    BY <1>2
  <2> HIDE DEF e
  <2>2. /\ pc' = "idle" /\ i = e
        /\ UNCHANGED <<at, cur, page, sec, off, root, level, free, held>>
        /\ Tree' /\ Progress' /\ CleanOutside' /\ Asked' /\ Walks'
        /\ LeafWalks(e, u) /\ (Built \subseteq Built' => Counted')
        /\ table \in Frames /\ level[table] = e /\ (e = 3 => ~Unlinked(table))
        /\ \A f \in Frames : f # table => mem'[f] = mem[f]
    BY <1>2, <2>1, LeafFrame
  <2> QED
    BY <2>2 DEF e
<1>3. /\ at \in {"code", "switch", "kernel"} /\ Mapped = MaxFrame /\ Mapped' = MaxFrame
      /\ cur = MaxFrame /\ MaxFrame \in Nat
  BY <1>1, <1>f, InLoop DEF Mapped, LowPages
<1>4. \A v \in Pages : /\ v \in Nat /\ (Covers(u, 3, v) <=> v = u)
  BY <1>2, CoversItself, PagesAreNumbers
<1>5. \A v \in Pages : v # u => SameWalk(v)
  BY <1>4, <1>f DEF LeafWalks
<1>6. /\ HwWalk(u)' = [mapped |-> TRUE, frame |-> req.pa, rw |-> req.rw]
      /\ \A j \in 1..3 : Ends(u, j)' <=> j = 3
      /\ \A j \in 0..3 : Has(u, j) => Has(u, j)'
  <2>1. Covers(u, 3, u)
    BY <1>4
  <2>2. /\ HwWalk(u)' = [mapped |-> TRUE, frame |-> req.pa + Low(u, 3), rw |-> req.rw]
        /\ \A j \in 1..3 : Ends(u, j)' <=> j = 3
        /\ \A j \in 0..3 : j <= 3 /\ Has(u, j) => Has(u, j)'
    BY <1>f, <2>1 DEF LeafWalks
  <2>3. Low(u, 3) = 0
    <3>1. Span(3) = 1
      BY DEF Span
    <3>2. u % 1 = 0
      BY <1>2
    <3> QED
      BY <3>1, <3>2 DEF Low
  <2>4. req.pa \in Nat
    BY RequestTypes DEF BootTypes, TypeOK, Frames
  <2>5. req.pa + Low(u, 3) = req.pa
    BY <2>3, <2>4
  <2>6. HwWalk(u)' = [mapped |-> TRUE, frame |-> req.pa, rw |-> req.rw]
    BY <2>2, <2>5
  <2>7. \A j \in 0..3 : j <= 3
    OBVIOUS
  <2>8. \A j \in 0..3 : Has(u, j) => Has(u, j)'
    BY <2>2, <2>7
  <2> QED
    BY <2>2, <2>6, <2>8
<1>7. \A v \in Pages : Ends(v, 3) => Ends(v, 3)'
  BY <1>5, <1>6 DEF SameWalk
<1>8. Counted'
  <2>1. TablesStay
    BY <1>5, <1>6 DEF TablesStay, SameWalk, Has
  <2> QED
    BY <1>f, <2>1, BuiltStays
<1>k. \/ at = "code" /\ u = KernelStack /\ u >= MaxFrame /\ req.rw = TRUE
      \/ at = "switch" /\ u = KernelBase /\ u >= MaxFrame /\ u # KernelStack
      \/ /\ at = "kernel" /\ off = 0 /\ sec = 0 /\ req.rw = TRUE
         /\ u = SwitchPage /\ req.pa = SwitchPage /\ u # KernelStack
      \/ /\ at = "kernel" /\ off # 0 /\ sec \in 0..Len(Sections)
         /\ off \in Nat /\ off - 1 \in Nat
         /\ u = ImagePage(sec, off - 1) /\ u >= MaxFrame
         /\ req.pa = KernelImage + Part(sec).rva + (off - 1) /\ u # KernelStack
  BY <1>1, <1>2, <1>3, KernelRequest
<1>9. DirectShown'
  <2> SUFFICES ASSUME NEW v \in Pages, v < MaxFrame PROVE HwWalk(v)' = Identity(v)
    BY <1>3 DEF DirectShown, Identity
  <2>1. CASE v = u
    <3>1. ~(u >= MaxFrame)
      BY <1>2, <1>3, <2>1
    <3>2. u = SwitchPage /\ req.pa = SwitchPage /\ req.rw = TRUE
      BY <1>k, <3>1
    <3> QED
      BY <1>6, <2>1, <3>2 DEF Identity
  <2>2. CASE v # u
    BY <1>3, <1>5, <2>2 DEF SameWalk, Sound, Shown, DirectShown
  <2> QED
    BY <2>1, <2>2
<1>10. LargerBelow'
  <2> SUFFICES ASSUME NEW v \in Pages, NEW j \in 1..2, Ends(v, j)'
               PROVE  Base(v, j) + Span(j) <= MaxFrame
    BY <1>3 DEF LargerBelow
  <2>0. j \in 1..3 /\ j # 3
    OBVIOUS
  <2>1. v # u
    BY <1>6, <2>0
  <2>2. Ends(v, j)
    BY <1>5, <2>0, <2>1 DEF SameWalk
  <2> QED
    BY <1>3, <2>2 DEF Sound, Shown, LargerBelow
<1>11. StackDone' => StackShown'
  <2>1. KernelStack \in Pages
    BY BootAssumption
  <2>2. CASE at = "code"
    BY <1>6, <1>k, <2>1, <2>2 DEF StackShown
  <2>3. CASE at # "code"
    <3>1. u # KernelStack
      BY <1>k, <2>3
    <3>2. StackShown
      BY <1>3, <2>3 DEF StackDone, KernelRun, Sound, Shown, KernelShown
    <3> QED
      BY <1>5, <2>1, <3>1, <3>2 DEF StackShown, SameWalk
  <2> QED
    BY <2>2, <2>3
<1>12. BaseDone' => BaseShown'
  <2>1. KernelBase \in Pages
    BY BootAssumption
  <2>2. CASE at = "code"
    BY <1>f, <2>2 DEF BaseDone, KernelRun
  <2>3. CASE at = "switch"
    BY <1>6, <1>k, <2>3 DEF BaseShown
  <2>4. CASE at = "kernel"
    <3>1. BaseShown
      BY <2>4 DEF BaseDone, KernelRun, Sound, Shown, KernelShown
    <3> QED
      BY <1>7, <2>1, <3>1 DEF BaseShown
  <2> QED
    BY <1>3, <2>2, <2>3, <2>4
<1>13. ASSUME NEW n \in 0..Len(Sections), NEW o \in 0..(Part(n).size - 1), ImageDone(n, o)'
       PROVE  ImageShown(n, o)'
  <2>1. at = "kernel" /\ (n < sec \/ (n = sec /\ o < off))
    BY <1>3, <1>f, <1>13 DEF ImageDone, KernelRun
  <2>2. PICK m \in Nat, x \in Nat, a \in Nat :
           m = n /\ x = o /\ a = Part(n).rva
    <3>1. n \in Nat
      BY SectionCount
    <3>2. Part(n).rva \in Nat /\ Part(n).size \in Nat
      BY PartTypes
    <3>3. o \in Nat
      BY <3>2
    <3> QED
      BY <3>1, <3>2, <3>3
  <2>3. /\ off # 0 /\ sec \in 0..Len(Sections) /\ off \in Nat /\ off - 1 \in Nat
        /\ u = ImagePage(sec, off - 1)
        /\ req.pa = KernelImage + Part(sec).rva + (off - 1)
    <3>1. ~(off = 0 /\ sec = 0)
      BY <2>1, <2>2
    <3> QED
      BY <1>k, <2>1, <3>1
  <2>4. CASE ImagePage(n, o) = u
    <3>1. PICK y \in Nat, c \in Nat, b \in Nat, k \in Nat :
             y = off - 1 /\ c = Part(sec).rva /\ b = KernelBase /\ k = KernelImage
      <4>1. Part(sec).rva \in Nat
        BY <2>3, PartTypes
      <4>2. KernelBase \in Nat
        BY BootAssumption, PagesAreNumbers
      <4>3. KernelImage \in Frames
        BY BootAssumption
      <4>4. KernelImage \in Nat
        BY <4>3 DEF Frames
      <4> QED
        BY <2>3, <4>1, <4>2, <4>4
    <3>2. b + a + x = b + c + y
      BY <2>2, <2>3, <2>4, <3>1 DEF ImagePage
    <3>3. req.pa = k + a + x
      <4>1. req.pa = k + c + y
        BY <2>3, <3>1
      <4> QED
        BY <3>2, <4>1
    <3>4. req.pa = KernelImage + Part(n).rva + o
      BY <2>2, <3>1, <3>3
    <3> QED
      BY <1>6, <2>4, <3>4 DEF ImageShown
  <2>5. CASE ImagePage(n, o) # u
    <3>1. n < sec \/ (n = sec /\ o < off - 1)
      <4> SUFFICES ASSUME n = sec, ~(o < off - 1) PROVE FALSE
        BY <2>1
      <4>1. o = off - 1
        BY <2>1, <2>2, <2>3
      <4> QED
        BY <2>3, <2>5, <4>1
    <3>2. ImageDone(n, o)
      BY <1>1, <2>1, <3>1 DEF ImageDone, KernelRun
    <3>3. ImageShown(n, o)
      BY <3>2 DEF Sound, Shown, KernelShown
    <3> QED
      BY <1>5, <2>5, <3>3 DEF ImageShown, SameWalk
  <2> QED
    BY <2>4, <2>5
<1>14. KernelShown'
  BY <1>11, <1>12, <1>13 DEF KernelShown
<1>15. TablesBelow'
  BY <1>3, <1>f DEF TablesBelow
<1>16. SwitchShown'
  <2> SUFFICES ASSUME at = "kernel" PROVE SwitchReached'
    BY <1>f DEF SwitchShown
  <2>1. SwitchPage \in Pages
    BY DEF LowPages
  <2>2. CASE u = SwitchPage
    BY <1>6, <2>2 DEF SwitchReached
  <2>3. CASE u # SwitchPage
    <3>1. off # 0 /\ SwitchReached
      BY <1>k, <2>3 DEF Sound, SwitchShown
    <3>2. \A j \in 1..3 : Ends(SwitchPage, j)' <=> Ends(SwitchPage, j)
      BY <1>5, <2>1, <2>3 DEF SameWalk
    <3>3. \A j \in 1..2 : mem'[Base(SwitchPage, j)] = mem[Base(SwitchPage, j)]
      <4>1. \A j \in 1..2 : Base(SwitchPage, j) \in Frames /\ level[Base(SwitchPage, j)] = -1
        BY SwitchBase DEF BootTypes, Sound
      <4> QED
        BY <1>f, <4>1
    <3>4. ASSUME NEW g \in Frames, StrayTable(g)
          PROVE  StrayTable(g)' /\ mem'[g] = mem[g]
      <4>1. g \in held /\ Unlinked(g) /\ level[g] = 3
        BY <3>4 DEF StrayTable
      <4>2. Unlinked(g)' /\ level'[g] = level[g]
        BY <1>1, <4>1, InLoop, StaysUnlinked
      <4>3. mem'[g] = mem[g] /\ held \subseteq held'
        BY <1>f, <4>1
      <4>4. mem'[Base(SwitchPage, 1)] = mem[Base(SwitchPage, 1)]
        BY <3>3
      <4> QED
        BY <3>4, <4>2, <4>3, <4>4, StrayKept
    <3> QED
      BY <2>1, <3>1, <3>2, <3>3, <3>4, SwitchKept
  <2> QED
    BY <2>2, <2>3
<1> QED
  BY <1>f, <1>8, <1>9, <1>10, <1>14, <1>15, <1>16 DEF Sound, Shown

-----------------------------------------------------------------------------
(* Every step. *)

\* SsPagingInit and UefiMapTables, while no page is lost.
LEMMA PagingKeeps ==
    ASSUME LowPages, SafeLayout, EnoughPages, Owned, BootTypes, Sound,
           NothingLost, NothingLost', PagingStep
    PROVE  Sound'
<1>1. at # "fault" /\ (pc = "start" => at = "init")
  <2>1. at # "init" => pc \in {"idle", "walk"}
    BY DEF Sound, Progress
  <2> QED
    BY <2>1 DEF Sound, Progress
<1>2. ASSUME pc = "start", AllocateFails PROVE FALSE
  BY <1>1, <1>2, StartIsServed
<1>3. ASSUME pc = "walk", i < req.end, ~Current.p, AllocateFails PROVE FALSE
  BY <1>3, LoopIsServed
<1>4. CASE SsPagingInitFails
  BY <1>2, <1>4 DEF SsPagingInitFails
<1>5. CASE Descend
  BY <1>5, DescendStep
<1>6. CASE NoMemory
  BY <1>3, <1>6 DEF NoMemory
<1>7. CASE WriteLeaf
  <2>1. OnPath \/ \E l \in 1..2 : Astray(l)
    BY <1>7 DEF WriteLeaf, Sound, Walks
  <2> QED
    BY <1>7, <2>1, DirectLeaf, KernelLeaf, StrayLeafStep
<1>8. ASSUME NEW f \in Frames, SsPagingInit(f) PROVE Sound'
  BY <1>1, <1>8, StartStep
<1>9. ASSUME NEW f \in Frames, SsPagingInitStale(f) PROVE Sound'
  BY <1>2, <1>9 DEF SsPagingInitStale, SetRoot
<1>10. ASSUME NEW f \in Frames, NewTable(f) PROVE Sound'
  <2>1. OnPath \/ \E l \in 1..2 : Astray(l)
    BY <1>10 DEF NewTable, Link, Sound, Walks
  <2> QED
    BY <1>10, <2>1, TableStep, StrayTableStep
<1>11. ASSUME NEW f \in Frames, StaleTable(f) PROVE Sound'
  BY <1>3, <1>11 DEF StaleTable, Link
<1> QED
  BY <1>4, <1>5, <1>6, <1>7, <1>8, <1>9, <1>10, <1>11 DEF PagingStep, Paging

\* A step leaves the list alone, takes a page from it, or finds none.
LEMMA StepOfStore ==
    ASSUME [BootNext]_allVars
    PROVE  \/ UNCHANGED store
           \/ \E f \in Frames : AllocatePage(f)
           \/ AllocateFails
<1>1. CASE PagingStep
  BY <1>1 DEF PagingStep, Paging, SsPagingInit, SsPagingInitStale, SsPagingInitFails, Descend,
              NewTable, StaleTable, NoMemory, WriteLeaf
<1>2. CASE DirectMapStep \/ MapStack \/ MapCode \/ MapSwitchPage \/ MapKernelPage
  BY <1>2 DEF DirectMapStep, MapStack, MapCode, MapSwitchPage, MapKernelPage, Call
<1>3. CASE \/ DirectMapDone \/ MapKernelReturn \/ StallFails \/ PageFault
           \/ WriteCr3 \/ ReloadCr3 \/ UNCHANGED allVars \/ \E v \in Touched : TlbFill(v)
  BY <1>3 DEF DirectMapDone, MapKernelReturn, StallFails, PageFault, WriteCr3, ReloadCr3,
              LoadCr3, TlbFill, allVars, vars
<1>4. CASE AllocateStack \/ AllocateCode
  BY <1>4 DEF AllocateStack, AllocateCode, TakePage
<1>5. CASE CopyCode \/ MapKernelNextSection
  BY <1>5 DEF CopyCode, MapKernelNextSection
<1> QED
  BY <1>1, <1>2, <1>3, <1>4, <1>5 DEF BootNext, BootSteps

\* After a failure no statement is left.
LEMMA FailedStays ==
    ASSUME at = "failed", pc \in {"idle", "halt"}, [BootNext]_allVars
    PROVE  at' = "failed" /\ pc' = pc
<1>1. ~PagingStep
  BY DEF PagingStep, Paging, SsPagingInit, SsPagingInitStale, SsPagingInitFails, SetRoot,
         Descend, NoMemory, WriteLeaf, NewTable, StaleTable, Link
<1>2. /\ ~DirectMapStep /\ ~DirectMapDone /\ ~WriteCr3 /\ ~AllocateStack /\ ~MapStack
      /\ ~AllocateCode /\ ~CopyCode /\ ~MapCode /\ ~MapSwitchPage /\ ~MapKernelPage
      /\ ~MapKernelNextSection /\ ~MapKernelReturn /\ ~StallFails /\ ~ReloadCr3 /\ ~PageFault
  BY DEF DirectMapStep, DirectMapDone, WriteCr3, AllocateStack, MapStack, AllocateCode,
         CopyCode, MapCode, MapSwitchPage, MapKernelPage, MapKernelNextSection,
         MapKernelReturn, StallFails, ReloadCr3, PageFault, LoadCr3, TakePage, OnOwnTables
<1>3. UNCHANGED <<vars, boot>>
  BY <1>1, <1>2 DEF BootNext, BootSteps, TlbFill, allVars
<1> QED
  BY <1>3 DEF vars, boot

\* The sequence gives up between two calls, or where SsPagingInit stops.
LEMMA FailsOutside ==
    ASSUME at # "failed", at' = "failed", [BootNext]_allVars
    PROVE  pc' \in {"idle", "halt"}
<1>1. CASE PagingStep
  BY <1>1 DEF PagingStep
<1>2. CASE StallFails
  BY <1>2 DEF StallFails, vars
<1>3. /\ ~DirectMapStep /\ ~DirectMapDone /\ ~WriteCr3 /\ ~AllocateStack /\ ~MapStack
      /\ ~AllocateCode /\ ~CopyCode /\ ~MapCode /\ ~MapSwitchPage /\ ~MapKernelPage
      /\ ~MapKernelNextSection /\ ~MapKernelReturn /\ ~ReloadCr3 /\ ~PageFault
  BY DEF DirectMapStep, DirectMapDone, WriteCr3, AllocateStack, MapStack, AllocateCode,
         CopyCode, MapCode, MapSwitchPage, MapKernelPage, MapKernelNextSection,
         MapKernelReturn, ReloadCr3, PageFault, LoadCr3, TakePage
<1>4. ~UNCHANGED boot
  BY DEF boot
<1> QED
  BY <1>1, <1>2, <1>3, <1>4 DEF BootNext, BootSteps, TlbFill, allVars

\* Every step keeps the invariant.
LEMMA BootNextInv ==
    ASSUME SafeLayout, EnoughPages, BootTypes, BootInv, [BootNext]_allVars
    PROVE  BootInv'
<1>1. Owned' /\ Intact' /\ (NothingLost' => NothingLost)
  BY StepOfStore, LostForGood, IntactNext DEF BootInv
<1>2. CASE at = "failed"
  <2>1. at' = "failed" /\ pc' = pc /\ pc \in {"idle", "halt"}
    BY <1>2, FailedStays DEF BootInv
  <2> QED
    BY <1>1, <2>1 DEF BootInv
<1>3. CASE at # "failed"
  <2>1. at' = "failed" => pc' \in {"idle", "halt"}
    BY <1>3, FailsOutside
  <2>2. ASSUME NothingLost', at' # "failed" PROVE Sound'
    <3>1. LowPages
      BY LowPagesAre
    <3>2. NothingLost /\ Owned /\ Intact /\ Sound
      BY <1>1, <1>3, <2>2 DEF BootInv
    <3>3. CASE PagingStep
      BY <2>2, <3>1, <3>2, <3>3, PagingKeeps
    <3>4. CASE DirectMapStep \/ MapStack \/ MapCode \/ MapSwitchPage \/ MapKernelPage
      BY <3>1, <3>2, <3>4, DirectCall, OnceCall, SwitchCall, KernelCall
    <3>5. CASE DirectMapDone \/ WriteCr3 \/ MapKernelReturn \/ ReloadCr3
      BY <3>2, <3>5, ReturnStep
    <3>6. CASE AllocateStack \/ AllocateCode
      BY <2>2, <3>1, <3>2, <3>6, TakeStep
    <3>7. CASE CopyCode \/ MapKernelNextSection
      BY <3>1, <3>2, <3>7, CopyStep, SectionStep
    <3>8. CASE StallFails
      BY <2>2, <3>8 DEF StallFails
    <3>9. CASE PageFault
      BY <3>1, <3>2, <3>9, NoFault
    <3>10. CASE UNCHANGED <<vars, boot>>
      BY <3>1, <3>2, <3>10, NothingMoves
    <3> QED
      BY <3>3, <3>4, <3>5, <3>6, <3>7, <3>8, <3>9, <3>10 DEF BootNext, BootSteps, TlbFill, allVars
  <2> QED
    BY <1>1, <2>1, <2>2 DEF BootInv
<1> QED
  BY <1>2, <1>3

\* Before the first step.
LEMMA BootInitInv ==
    ASSUME SafeLayout, BootInit, StartsEmpty
    PROVE  BootInv
<1>1. /\ at = "init" /\ cur = 0 /\ sec = 0 /\ off = 0 /\ pc = "start" /\ status = "SUCCESS"
      /\ root = NoTable /\ free = Pool /\ held = {}
  BY DEF BootInit, Init
<1>2. Tree
  BY <1>1, InitIsTree DEF BootInit, StartsEmpty
<1>3. Counted
  <2>1. Cardinality(held) = 0
    BY <1>1, FS_EmptySet
  <2>2. BuiltIsFinite /\ ExtraIsSmall
    BY BuiltSize, ExtraTypes
  <2> HIDE DEF Built, Extra
  <2>3. PICK b \in Nat, x \in Nat : b = Cardinality(Built) /\ x = Extra
    BY <2>2 DEF BuiltIsFinite, ExtraIsSmall
  <2>4. 0 <= b + x
    OBVIOUS
  <2> QED
    BY <2>1, <2>3, <2>4 DEF Counted
<1>4. Progress
  <2>1. MaxFrame \in Nat /\ 0 <= MaxFrame
    BY BootAssumption, PageTablesAssumption
  <2> QED
    BY <1>1, <2>1 DEF Progress
<1>5. Asked /\ Walks
  BY <1>1 DEF Asked, Walks
<1>6. CleanOutside
  BY DEF CleanOutside, StartsEmpty
<1>7. \A v \in Pages : \A j \in 1..3 : ~Has(v, j) /\ ~Ends(v, j)
  <2> SUFFICES ASSUME NEW v \in Pages, NEW j \in 1..3 PROVE ~Has(v, j) /\ ~Ends(v, j)
    OBVIOUS
  <2>1. TableAt(v, 0) = NoTable
    BY <1>1, PathByLevel DEF PathSteps
  <2>2. ~Has(v, j)
    <3>1. j \in 0..3 /\ j # 0
      OBVIOUS
    <3> QED
      BY <2>1, <3>1, TablesAbove DEF Has
  <2> QED
    BY <2>2, EndsAreByLevel DEF EndsByLevel, Ends, Has
<1>8. Shown
  <2>1. Mapped = 0
    BY <1>1 DEF Mapped
  <2>2. DirectShown
    <3>1. \A v \in Pages : ~(v < 0)
      BY PagesAreNumbers
    <3> QED
      BY <2>1, <3>1 DEF DirectShown
  <2>3. LargerBelow
    <3>1. \A j \in 1..2 : j \in 1..3
      OBVIOUS
    <3> QED
      BY <1>7, <3>1 DEF LargerBelow
  <2>4. KernelShown
    BY <1>1 DEF KernelShown, StackDone, BaseDone, ImageDone, KernelRun
  <2> QED
    BY <2>2, <2>3, <2>4 DEF Shown
<1>9. TablesBelow /\ SwitchShown
  BY <1>1 DEF TablesBelow, SwitchShown
<1>10. Owned /\ Intact
  BY <1>1 DEF Owned, Intact, BootInit
<1> QED
  BY <1>1, <1>2, <1>3, <1>4, <1>5, <1>6, <1>8, <1>9, <1>10 DEF BootInv, Sound

-----------------------------------------------------------------------------
(* What the sequence promises. *)

\* The entries that MappingExists looks at are those of f.
EntriesSeen(f, v) ==
    f = [j \in 0..3 |-> LET t == IF j = 0 THEN root ELSE f[j - 1].frame
                        IN  mem[t][Index(v, j)]]

\* A function on the four levels, by its values.
Four(a, b, c, d) ==
    [j \in 0..3 |-> IF j = 0 THEN a ELSE IF j = 1 THEN b ELSE IF j = 2 THEN c ELSE d]

\* Its values, and the levels they are at.
LEMMA FourValues ==
    ASSUME NEW a, NEW b, NEW c, NEW d
    PROVE  /\ Four(a, b, c, d)[0] = a /\ Four(a, b, c, d)[1] = b
           /\ Four(a, b, c, d)[2] = c /\ Four(a, b, c, d)[3] = d
  BY DEF Four

LEMMA FourLevels ==
    /\ 0 \in 0..3 /\ 1 \in 0..3 /\ 2 \in 0..3 /\ 3 \in 0..3
    /\ 1 # 0 /\ 2 # 0 /\ 3 # 0 /\ 1 - 1 = 0 /\ 2 - 1 = 1 /\ 3 - 1 = 2
    /\ \A j \in 0..3 : j = 0 \/ j = 1 \/ j = 2 \/ j = 3
  OBVIOUS

\* Each of these entries is in the frame the last one names.
Chain(a, b, c, d, v) ==
    /\ a = mem[root][Index(v, 0)] /\ b = mem[a.frame][Index(v, 1)]
    /\ c = mem[b.frame][Index(v, 2)] /\ d = mem[c.frame][Index(v, 3)]

\* The four entries of a chain are those MappingExists looks at.
LEMMA FourSeen ==
    ASSUME NEW v, NEW a, NEW b, NEW c, NEW d, Chain(a, b, c, d, v)
    PROVE  EntriesSeen(Four(a, b, c, d), v)
<1> DEFINE g == Four(a, b, c, d)
<1>1. g[0] = a /\ g[1] = b /\ g[2] = c /\ g[3] = d
  BY FourValues
<1>2. g = [j \in 0..3 |-> g[j]]
  BY Zenon DEF Four
<1> HIDE DEF g
<1>3. ASSUME NEW j \in 0..3
      PROVE  g[j] = mem[IF j = 0 THEN root ELSE g[j - 1].frame][Index(v, j)]
  <2>1. CASE j = 0
    BY <1>1, <2>1, Zenon DEF Chain
  <2>2. CASE j = 1
    BY <1>1, <2>2, FourLevels, Zenon DEF Chain
  <2>3. CASE j = 2
    BY <1>1, <2>3, FourLevels, Zenon DEF Chain
  <2>4. CASE j = 3
    BY <1>1, <2>4, FourLevels, Zenon DEF Chain
  <2> QED
    BY <2>1, <2>2, <2>3, <2>4, FourLevels, Zenon
<1>4. EntriesSeen(g, v)
  BY <1>2, <1>3, Zenon DEF EntriesSeen
<1> QED
  BY <1>4 DEF g

\* MappingExists looks at four entries, each in the frame the last one names.
LEMMA FourEntries ==
    ASSUME NEW v, NEW a, NEW b, NEW c, NEW d, Chain(a, b, c, d, v), a.p, b.p, c.p, d.p
    PROVE  MappingExists(v)
<1> DEFINE h == CHOOSE f : EntriesSeen(f, v)
<1>1. \E f : EntriesSeen(f, v)
  BY FourSeen, Zenon
<1>2. EntriesSeen(h, v)
  BY <1>1, Zenon
<1> HIDE DEF h
<1>3. \A j \in 0..3 : h[j] = mem[IF j = 0 THEN root ELSE h[j - 1].frame][Index(v, j)]
  <2> DEFINE k == [j \in 0..3 |-> mem[IF j = 0 THEN root ELSE h[j - 1].frame][Index(v, j)]]
  <2>1. h = k
    BY <1>2 DEF EntriesSeen
  <2> SUFFICES ASSUME NEW j \in 0..3 PROVE k[j] = mem[IF j = 0 THEN root ELSE h[j - 1].frame][Index(v, j)]
    BY <2>1
  <2> QED
    OBVIOUS
<1>4. h[0] = a
  BY <1>3, FourLevels, Zenon DEF Chain
<1>5. h[1] = b
  <2>1. h[1] = mem[h[1 - 1].frame][Index(v, 1)]
    BY <1>3, FourLevels, Zenon
  <2> QED
    BY <1>4, <2>1, FourLevels, Zenon DEF Chain
<1>6. h[2] = c
  <2>1. h[2] = mem[h[2 - 1].frame][Index(v, 2)]
    BY <1>3, FourLevels, Zenon
  <2> QED
    BY <1>5, <2>1, FourLevels, Zenon DEF Chain
<1>7. h[3] = d
  <2>1. h[3] = mem[h[3 - 1].frame][Index(v, 3)]
    BY <1>3, FourLevels, Zenon
  <2> QED
    BY <1>6, <2>1, FourLevels, Zenon DEF Chain
<1>8. \A j \in 0..3 : h[j].p
  BY <1>4, <1>5, <1>6, <1>7, FourLevels, Zenon
<1> QED
  BY <1>8 DEF h, MappingExists, EntriesSeen

\* A page of 4 KiB that is mapped has the four entries.
LEMMA EndsFound ==
    ASSUME NEW v \in Pages, Ends(v, 3)
    PROVE  MappingExists(v) /\ HwWalk(v).mapped
<1>1. TableAt(v, 3) # NoTable /\ EntryAt(v, 3).p
  BY EndsAreByLevel DEF EndsByLevel, Ends
<1>2. \A j \in 0..2 : TableAt(v, j) # NoTable /\ EntryAt(v, j).p /\ ~EntryAt(v, j).ps
  <2>1. 3 \in 0..3 /\ \A j \in 0..2 : j \in 0..3 /\ j < 3
    OBVIOUS
  <2> QED
    BY <1>1, <2>1, TablesAbove
<1>3. \A j \in 0..2 : TableAt(v, j + 1) = EntryAt(v, j).frame
  BY <1>2, PathByLevel DEF PathSteps
<1>4. /\ TableAt(v, 0) = root /\ TableAt(v, 1) = EntryAt(v, 0).frame
      /\ TableAt(v, 2) = EntryAt(v, 1).frame /\ TableAt(v, 3) = EntryAt(v, 2).frame
  BY <1>3, PathByLevel DEF PathSteps
<1>5. Chain(EntryAt(v, 0), EntryAt(v, 1), EntryAt(v, 2), EntryAt(v, 3), v)
  BY <1>4 DEF Chain, EntryAt
<1>6. EntryAt(v, 0).p /\ EntryAt(v, 1).p /\ EntryAt(v, 2).p
  BY <1>2
<1>7. MappingExists(v)
  BY <1>1, <1>5, <1>6, FourEntries
<1>8. HwWalk(v).mapped
  <2>1. 3 \in 1..3
    OBVIOUS
  <2> QED
    BY <2>1, WalksAre DEF WalksEnd, Ends
<1> QED
  BY <1>7, <1>8

\* The entry that maps the switch page names the first page of the mapping.
LEMMA SwitchNames ==
    ASSUME LowPages, BootTypes, NEW l \in 1..2, Ends(SwitchPage, l),
           HwWalk(SwitchPage) = Identity(SwitchPage)
    PROVE  /\ EntryAt(SwitchPage, l).p /\ EntryAt(SwitchPage, l).frame = Base(SwitchPage, l)
           /\ \A j \in 0..3 : j < l =>
                 /\ EntryAt(SwitchPage, j).p
                 /\ TableAt(SwitchPage, j + 1) = EntryAt(SwitchPage, j).frame
<1>1. SwitchPage \in Pages /\ SwitchPage \in Nat /\ l \in 1..3 /\ l \in 0..3
  BY DEF LowPages
<1>2. TableAt(SwitchPage, l) # NoTable /\ EntryAt(SwitchPage, l).p
  BY <1>1, EndsAreByLevel DEF EndsByLevel, Ends
<1>3. EntryAt(SwitchPage, l).frame + Low(SwitchPage, l) = SwitchPage
  <2>1. HwWalk(SwitchPage).frame = EntryAt(SwitchPage, l).frame + Low(SwitchPage, l)
    BY <1>1, WalksAre DEF WalksEnd, Ends
  <2> QED
    BY <2>1 DEF Identity
<1>4. EntryAt(SwitchPage, l).frame = Base(SwitchPage, l)
  <2>1. EntryAt(SwitchPage, l).frame \in Nat
    BY <1>1, <1>2, TablesAreFrames DEF BootTypes, Entry, Frames
  <2>2. PICK x \in Nat, y \in Nat, b \in Nat :
           /\ x = EntryAt(SwitchPage, l).frame /\ y = Low(SwitchPage, l)
           /\ b = Base(SwitchPage, l) /\ SwitchPage = b + y
    <3>1. /\ Base(SwitchPage, l) \in Nat /\ Low(SwitchPage, l) \in 0..(Span(l) - 1)
          /\ SwitchPage = Base(SwitchPage, l) + Low(SwitchPage, l)
      BY <1>1, BaseFacts
    <3>2. Low(SwitchPage, l) \in Nat
      BY <1>1, <3>1, SpanPositive
    <3> QED
      BY <2>1, <3>1, <3>2
  <2>3. x + y = b + y
    BY <1>3, <2>2
  <2> QED
    BY <2>2, <2>3
<1>5. \A j \in 0..3 : j < l => /\ TableAt(SwitchPage, j) # NoTable /\ EntryAt(SwitchPage, j).p
                              /\ ~EntryAt(SwitchPage, j).ps
  BY <1>1, <1>2, TablesAbove
<1>6. ASSUME NEW j \in 0..3, j < l
      PROVE  TableAt(SwitchPage, j + 1) = EntryAt(SwitchPage, j).frame
  <2>1. j \in 0..2
    BY <1>6
  <2> QED
    BY <1>1, <1>5, <1>6, <2>1, PathByLevel DEF PathSteps
<1> QED
  BY <1>2, <1>4, <1>5, <1>6

\* Inside a larger page, the entries below it are astray, and are found.
LEMMA SwitchFound ==
    ASSUME LowPages, BootTypes, SwitchReached, HwWalk(SwitchPage) = Identity(SwitchPage)
    PROVE  MappingExists(SwitchPage)
<1> DEFINE s == SwitchPage
<1>0. s \in Pages /\ TableAt(s, 0) = root
  BY PathByLevel DEF LowPages, PathSteps
<1>1. CASE Ends(s, 3)
  BY <1>0, <1>1, EndsFound
<1>2. CASE Ends(s, 2) /\ mem[Base(s, 2)][Index(s, 3)].p
  <2> DEFINE l == 2
  <2>1. l \in 1..2 /\ Ends(s, l) /\ 0 \in 0..3 /\ 1 \in 0..3 /\ 0 < l /\ 1 < l
        /\ 0 + 1 = 1 /\ 1 + 1 = 2
    BY <1>2
  <2>2. /\ EntryAt(s, 2).p /\ EntryAt(s, 2).frame = Base(s, 2)
        /\ EntryAt(s, 0).p /\ EntryAt(s, 1).p
        /\ TableAt(s, 1) = EntryAt(s, 0).frame /\ TableAt(s, 2) = EntryAt(s, 1).frame
    <3> HIDE DEF l
    <3>1. /\ EntryAt(s, l).p /\ EntryAt(s, l).frame = Base(s, l)
          /\ \A j \in 0..3 : j < l => /\ EntryAt(s, j).p
                                     /\ TableAt(s, j + 1) = EntryAt(s, j).frame
      BY <2>1, SwitchNames
    <3>2. /\ EntryAt(s, 0).p /\ TableAt(s, 0 + 1) = EntryAt(s, 0).frame
          /\ EntryAt(s, 1).p /\ TableAt(s, 1 + 1) = EntryAt(s, 1).frame
      BY <2>1, <3>1
    <3> QED
      BY <2>1, <3>1, <3>2 DEF l
  <2>3. Chain(EntryAt(s, 0), EntryAt(s, 1), EntryAt(s, 2), mem[Base(s, 2)][Index(s, 3)], s)
    BY <1>0, <2>2 DEF Chain, EntryAt
  <2> QED
    BY <1>2, <2>2, <2>3, FourEntries
<1>3. CASE Ends(s, 1) /\ \E f \in Frames : StrayTable(f) /\ mem[f][Index(s, 3)].p
  <2> DEFINE l == 1
  <2>1. l \in 1..2 /\ Ends(s, l) /\ 0 \in 0..3 /\ 0 < l /\ 0 + 1 = 1
    BY <1>3
  <2>2. /\ EntryAt(s, 1).p /\ EntryAt(s, 1).frame = Base(s, 1)
        /\ EntryAt(s, 0).p /\ TableAt(s, 1) = EntryAt(s, 0).frame
    <3> HIDE DEF l
    <3>1. /\ EntryAt(s, l).p /\ EntryAt(s, l).frame = Base(s, l)
          /\ \A j \in 0..3 : j < l => /\ EntryAt(s, j).p
                                     /\ TableAt(s, j + 1) = EntryAt(s, j).frame
      BY <2>1, SwitchNames
    <3>2. EntryAt(s, 0).p /\ TableAt(s, 0 + 1) = EntryAt(s, 0).frame
      BY <2>1, <3>1
    <3> QED
      BY <2>1, <3>1, <3>2 DEF l
  <2>3. PICK f \in Frames : StrayTable(f) /\ mem[f][Index(s, 3)].p
    BY <1>3
  <2>4. mem[Base(s, 1)][Index(s, 2)].p /\ mem[Base(s, 1)][Index(s, 2)].frame = f
    BY <2>3 DEF StrayTable
  <2>5. Chain(EntryAt(s, 0), EntryAt(s, 1), mem[Base(s, 1)][Index(s, 2)],
              mem[f][Index(s, 3)], s)
    BY <1>0, <2>2, <2>4 DEF Chain, EntryAt
  <2> QED
    BY <2>2, <2>3, <2>4, <2>5, FourEntries
<1> QED
  BY <1>1, <1>2, <1>3 DEF SwitchReached

\* Once DirectMapRange is through, all memory shows at its own address.
LEMMA MemoryShown ==
    ASSUME LowPages, Sound, at \notin {"init", "direct"}, NEW f \in Nat, f < MaxFrame
    PROVE  HwWalk(f) = Identity(f)
<1>1. Mapped = MaxFrame
  BY DEF Sound, Progress, Mapped
<1> QED
  BY <1>1 DEF LowPages, Sound, Shown, DirectShown

\* The inductive invariant.
LEMMA BootSpecInv ==
    ASSUME SafeLayout, EnoughPages
    PROVE  BootSpec /\ StartsEmpty => [](BootTypes /\ BootInv)
<1>1. BootInit /\ StartsEmpty => BootInv
  BY BootInitInv
<1>2. BootTypes /\ BootInv /\ [BootNext]_allVars => BootInv'
  BY BootNextInv
<1> QED
  BY <1>1, <1>2, BootSpecTypes, PTL DEF BootSpec

\* From the load of CR3 (UefiMain.c:369) to the jump into the kernel, the loader finds
\* its code, the kernel image and every page it took at their physical addresses, with
\* write access, and never faults: although UefiMain drops the statuses of AllocatePage
\* and MapPage, although mapping the switch page (405) follows the entry of a larger
\* page as if it named a table (pagemanager.h 254-275), and although MapKernel zeroes
\* pages at an address that is not the section's (421-427).
THEOREM LoaderRunsOn ==
    ASSUME SafeLayout, EnoughPages
    PROVE  BootSpec /\ StartsEmpty => []LoaderKeepsRunning
<1>1. BootTypes /\ BootInv => LoaderKeepsRunning
  <2> SUFFICES ASSUME BootTypes, BootInv, NothingLost
               PROVE  /\ at # "fault"
                      /\ OnOwnTables => \A f \in held \cup {SwitchPage, KernelImage} :
                                           HwWalk(f) = Identity(f)
    BY DEF LoaderKeepsRunning
  <2>1. at # "fault"
    BY DEF BootInv, Sound, Progress
  <2>2. ASSUME OnOwnTables, NEW f \in held \cup {SwitchPage, KernelImage}
        PROVE  HwWalk(f) = Identity(f)
    <3>1. LowPages
      BY LowPagesAre
    <3>2. at \notin {"init", "direct"} /\ Sound /\ Owned
      BY <2>2 DEF OnOwnTables, BootInv
    <3>3. f \in Nat /\ f < MaxFrame
      <4>1. CASE f \in held
        BY <3>1, <3>2, <4>1 DEF Owned, LowPages
      <4>2. CASE f = SwitchPage
        BY <3>1, <4>2 DEF LowPages
      <4>3. CASE f = KernelImage
        BY <4>3, BootAssumption DEF SafeLayout, Frames
      <4> QED
        BY <2>2, <4>1, <4>2, <4>3
    <3> QED
      BY <3>1, <3>2, <3>3, MemoryShown
  <2> QED
    BY <2>1, <2>2
<1> QED
  BY <1>1, BootSpecInv, PTL

\* When the kernel is entered (UefiMain.c:434) its stack is mapped writable and every
\* page of its image shows, at the address it is linked for, the frame it was loaded
\* to: no mapping takes back one that was made before, although KERNEL_VA_BASE is
\* mapped twice (392, 426) and nobody looks at what MapKernel returns; and the memory
\* that MapKernel clears at the wrong address (pagemanager.h 421-427) holds neither that
\* image nor the section table, which is read again for each section (415-437).
THEOREM KernelStartsMapped ==
    ASSUME SafeLayout, EnoughPages
    PROVE  BootSpec /\ StartsEmpty => []KernelIsMapped
<1>1. BootTypes /\ BootInv => KernelIsMapped
  <2> SUFFICES ASSUME BootTypes, BootInv, NothingLost, at = "entry"
               PROVE  KernelIsMapped
    BY DEF KernelIsMapped
  <2>1. Sound /\ sec = Len(Sections) + 1
    BY DEF BootInv, Sound, Progress
  <2>2. StackShown
    BY <2>1 DEF Sound, Shown, KernelShown, StackDone, KernelRun
  <2>3. HwWalk(KernelStack).mapped /\ HwWalk(KernelStack).rw
    BY <2>2, EndsFound, BootAssumption DEF StackShown
  <2>4. ASSUME NEW n \in 0..Len(Sections), NEW o \in 0..(Part(n).size - 1)
        PROVE  ImageShown(n, o) /\ KernelImage + Part(n).rva + o \notin cleared
    <3>1. n < sec
      BY <2>1, SectionCount
    <3>2. ImageDone(n, o)
      BY <3>1 DEF ImageDone, KernelRun
    <3>3. IsImageFrame(KernelImage + Part(n).rva + o)
      BY DEF IsImageFrame
    <3>4. KernelImage + Part(n).rva + o \notin cleared
      BY <3>3 DEF BootInv, Intact, Kept
    <3> QED
      BY <2>1, <3>2, <3>4 DEF Sound, Shown, KernelShown
  <2> QED
    BY <2>3, <2>4 DEF KernelIsMapped, ImageShown, ImagePage
<1> QED
  BY <1>1, BootSpecInv, PTL

\* The checks of UefiMain (394-407) report no error, and what they report is what the
\* processor does: MappingExists, which ignores the PS bit, finds four present entries
\* for the stack, the kernel's base and the switch page, even where the last lies in a
\* larger page, and the processor translates all three.
THEOREM ChecksSeeTheMappings ==
    ASSUME SafeLayout, EnoughPages
    PROVE  BootSpec /\ StartsEmpty => []OwnChecksPass
<1>1. BootTypes /\ BootInv => OwnChecksPass
  <2> SUFFICES ASSUME BootTypes, BootInv, NothingLost, at = "kernel", pc = "idle",
                      NEW v \in {KernelStack, KernelBase, SwitchPage}
               PROVE  MappingExists(v) /\ HwWalk(v).mapped
    BY DEF OwnChecksPass
  <2>1. Sound /\ LowPages
    BY LowPagesAre DEF BootInv
  <2>2. Ends(KernelStack, 3) /\ Ends(KernelBase, 3)
    BY <2>1 DEF Sound, Shown, KernelShown, StackDone, StackShown, BaseDone, BaseShown, KernelRun
  <2>3. SwitchReached /\ HwWalk(SwitchPage) = Identity(SwitchPage)
    <3>1. SwitchPage \in Nat /\ SwitchPage < MaxFrame
      BY <2>1 DEF LowPages
    <3> QED
      BY <2>1, <3>1, MemoryShown DEF Sound, SwitchShown
  <2>4. MappingExists(SwitchPage) /\ HwWalk(SwitchPage).mapped
    BY <2>1, <2>3, SwitchFound DEF Identity
  <2> QED
    BY <2>2, <2>4, EndsFound, BootAssumption
<1> QED
  BY <1>1, BootSpecInv, PTL
=============================================================================
