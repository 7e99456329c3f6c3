----------------------------- MODULE PageTables -----------------------------
(* The page tables the boot loader builds (SsPagingInit, UefiMapTables and    *)
(* the three Map functions of pagemanager.h) in a physical memory whose pages *)
(* hold whatever was there before, and the walk the processor makes over them.*)
(* One step per iteration of UefiMapTables; AllocatePage is PageStore.        *)
EXTENDS Geometry, FiniteSets

CONSTANTS
    FrameCount,     \* frames of physical memory
    Pool,           \* frames on the free list when paging is set up
    AnyOrder,       \* the list offers its pages in any order, or the highest first
    FirmwareTakes,  \* firmware may have taken a page that is still on the list
    Dirt,           \* what a page not yet used as a table may contain
    StaleSlots,     \* what an unset local of the caller of AllocatePage may hold
    KeepsLocal,     \* a local of the loop keeps its value from one iteration to the next
    Requests,       \* the mappings the loader may ask for: va, pa, end, rw
    CheckedClient   \* the loader never maps inside a larger page it has mapped

Frames == 0..(FrameCount - 1)
NoTable == -1

\* A page table entry: PRESENT, RW, PS and the physical frame.
Entry == [p : BOOLEAN, rw : BOOLEAN, ps : BOOLEAN, frame : Frames]
Clear == [p |-> FALSE, rw |-> FALSE, ps |-> FALSE, frame |-> 0]
Content == [0..(Fan - 1) -> Entry]
ZeroPage == [k \in 0..(Fan - 1) |-> Clear]

ASSUME PageTablesAssumption ==
    /\ FrameCount \in Nat \ {0}
    /\ Pool \subseteq Frames
    /\ {AnyOrder, FirmwareTakes} \subseteq BOOLEAN
    /\ Dirt \subseteq Content
    /\ StaleSlots \subseteq Frames
    /\ Requests # {}
    /\ Requests \subseteq [va : Pages, pa : Frames, end : 1..3, rw : BOOLEAN]
    /\ \A r \in Requests : Low(r.pa, r.end) = 0 /\ r.pa + Span(r.end) <= FrameCount
    /\ KeepsLocal \in BOOLEAN
    /\ CheckedClient \in BOOLEAN

VARIABLES
    mem,            \* the content of every frame, read as a table
    root,           \* gPML4
    level,          \* the level a frame was allocated as a table for, or -1
    free, held, answer,         \* the page store
    pc,             \* "start", "idle", "walk" (inside UefiMapTables), "halt"
    req, i, table,  \* arguments and locals of UefiMapTables
    local,          \* NextTablePhysical if AllocatePage has set it in this call, or 0
    status          \* what the last call returned

store == <<free, held, answer>>
walk == <<req, i, table, local>>
vars == <<mem, root, level, store, pc, walk, status>>

Store == INSTANCE PageStore WITH Pages <- Frames, NoPage <- 0

TypeOK ==
    /\ mem \in [Frames -> Content]
    /\ root \in Frames \cup {NoTable}
    /\ level \in [Frames -> -1..3]
    /\ Store!TypeOK
    /\ pc \in {"start", "idle", "walk", "halt"}
    /\ req \in Requests
    /\ i \in 0..3
    /\ table \in Frames
    /\ local \in Frames
    /\ status \in {"SUCCESS", "OUT_OF_RESOURCES"}

-----------------------------------------------------------------------------
\* Outside UefiMapTables its locals do not exist; they are given fixed values.
NoRequest == CHOOSE r \in Requests : TRUE

Init ==
    /\ mem \in [Frames -> Dirt]
    /\ root = NoTable
    /\ level = [f \in Frames |-> -1]
    /\ free = Pool
    /\ held = {}
    /\ answer = "none"
    /\ pc = "start"
    /\ req = NoRequest /\ i = 0 /\ table = 0 /\ local = 0
    /\ status = "SUCCESS"

\* The pages AllocatePage may take next. The scan of an ascending memory map
\* leaves the highest page at the head of the list.
Offered == IF AnyOrder THEN free ELSE {f \in free : \A g \in free : g <= f}

AllocatePage(f) == f \in Offered /\ Store!Serve(f)

\* AllocatePage fails: the list is at its end, or the page is lost.
AllocateFails ==
    \/ Store!Exhaust
    \/ FirmwareTakes /\ \E f \in Offered : Store!Lose(f)

\* SsPagingInit takes a page for the PML4 and zeroes it.
SetRoot(f) ==
    /\ pc = "start"
    /\ root' = f
    /\ mem' = [mem EXCEPT ![f] = ZeroPage]
    /\ level' = [level EXCEPT ![f] = 0]
    /\ pc' = "idle"
    /\ UNCHANGED <<walk, status>>

SsPagingInit(f) == AllocatePage(f) /\ SetRoot(f)

\* Its status is not looked at: a stale local that is not 0 becomes the PML4.
SsPagingInitStale(s) ==
    /\ AllocateFails
    /\ s \in StaleSlots \ {0}
    /\ SetRoot(s)

\* UefiMain gives up when SsPagingInit returns 0.
SsPagingInitFails ==
    /\ pc = "start"
    /\ AllocateFails
    /\ 0 \in StaleSlots
    /\ pc' = "halt"
    /\ status' = "OUT_OF_RESOURCES"
    /\ UNCHANGED <<mem, root, level, walk>>

\* The entry UefiMapTables looks at in iteration i.
Slot == Index(req.va, i)
Current == mem[table][Slot]

-----------------------------------------------------------------------------
\* The walk of the processor: the tables on the path of page v, PML4 first.
Below(t, v, j) ==
    IF t = NoTable THEN NoTable
    ELSE LET e == mem[t][Index(v, j)] IN
         IF e.p /\ ~e.ps THEN e.frame ELSE NoTable

Path(v) ==
    LET pdpt == Below(root, v, 0)
        pd   == Below(pdpt, v, 1)
        pt   == Below(pd, v, 2)
    IN  <<root, pdpt, pd, pt>>

TableAt(v, j) == Path(v)[j + 1]

\* The entry of page v in the table of level j on a path, and whether the walk
\* ends there with a translation.
EntryOn(path, v, j) == mem[path[j + 1]][Index(v, j)]

EndsOn(path, v, j) ==
    /\ path[j + 1] # NoTable
    /\ EntryOn(path, v, j).p
    /\ j = 3 \/ EntryOn(path, v, j).ps

Unmapped == [mapped |-> FALSE, frame |-> 0, rw |-> FALSE]

HwWalk(v) ==
    LET path == Path(v)
        ends == {j \in 1..3 : EndsOn(path, v, j)}
        last == CHOOSE j \in ends : TRUE
    IN  IF ends = {} THEN Unmapped
        ELSE [mapped |-> TRUE,
              frame  |-> EntryOn(path, v, last).frame + Low(v, last),
              rw     |-> \A j \in 0..last : EntryOn(path, v, j).rw]

\* The request does not lie inside a larger page that is already mapped. Nothing
\* in the code looks at the PS bit; callers have to see to it themselves.
FitsTables(r) == \A j \in 1..(r.end - 1) : ~EndsOn(Path(r.va), r.va, j)

-----------------------------------------------------------------------------
Return == req' = NoRequest /\ i' = 0 /\ table' = 0 /\ local' = 0

\* What NextTablePhysical reads as when AllocatePage has failed and not set it.
Unset == IF KeepsLocal /\ local # 0 THEN {local} ELSE StaleSlots

\* MapPage, MapLargePage, MapHugePage: enter UefiMapTables. The check of TableEnd
\* never fails for these three callers.
Call(r) ==
    /\ pc = "idle"
    /\ r \in Requests
    /\ CheckedClient => FitsTables(r)
    /\ pc' = "walk"
    /\ req' = r
    /\ i' = 0
    /\ table' = root
    /\ local' = 0
    /\ UNCHANGED <<mem, root, level, store, status>>

\* Mutant of Descend: the loop runs one table too far.
BugDescendPastEnd ==
    /\ pc = "walk" /\ i <= req.end
    /\ Current.p
    /\ table' = Current.frame
    /\ i' = i + 1
    /\ UNCHANGED <<mem, root, level, store, pc, req, local, status>>

\* A present entry is followed, whatever its PS bit.
Descend ==
    /\ pc = "walk" /\ i < req.end
    /\ Current.p
    /\ table' = Current.frame
    /\ i' = i + 1
    /\ UNCHANGED <<mem, root, level, store, pc, req, local, status>>

\* Mutant of Link: the entry of the lower table is not writable.
BugLinkReadOnly(f) ==
    /\ pc = "walk" /\ i < req.end
    /\ ~Current.p
    /\ mem' = [mem EXCEPT ![table][Slot] =
                 [p |-> TRUE, rw |-> FALSE, ps |-> FALSE, frame |-> f]]
    /\ table' = f
    /\ local' = f
    /\ i' = i + 1
    /\ UNCHANGED <<root, pc, req, status>>

\* MAKE_PAGE_ENTRY with frame f, and on to that table; f is not zeroed.
Link(f) ==
    /\ pc = "walk" /\ i < req.end
    /\ ~Current.p
    /\ mem' = [mem EXCEPT ![table][Slot] =
                 [p |-> TRUE, rw |-> TRUE, ps |-> FALSE, frame |-> f]]
    /\ table' = f
    /\ local' = f
    /\ i' = i + 1
    /\ UNCHANGED <<root, pc, req, status>>

\* Mutant of NewTable: the page is looked up but not taken off the free list.
BugTableNotTaken(f) ==
    /\ f \in free
    /\ UNCHANGED store
    /\ Link(f)
    /\ level' = [level EXCEPT ![f] = i + 1]

NewTable(f) ==
    /\ AllocatePage(f)
    /\ Link(f)
    /\ level' = [level EXCEPT ![f] = i + 1]

\* The status of AllocatePage is ignored: a stale local is linked as a table.
StaleTable(s) ==
    /\ AllocateFails
    /\ s \in Unset \ {0}
    /\ Link(s)
    /\ UNCHANGED level

\* Only a local that happens to be 0 ends the call; tables linked so far stay.
NoMemory ==
    /\ pc = "walk" /\ i < req.end
    /\ ~Current.p
    /\ AllocateFails
    /\ 0 \in Unset
    /\ pc' = "idle"
    /\ status' = "OUT_OF_RESOURCES"
    /\ Return
    /\ UNCHANGED <<mem, root, level>>

\* Mutant of WriteLeaf: MapLargePage and MapHugePage forget PAGE_FLAG_PS.
BugLeafWithoutPS ==
    /\ pc = "walk" /\ i = req.end
    /\ mem' = [mem EXCEPT ![table][Slot] =
                 [p |-> TRUE, rw |-> req.rw, ps |-> FALSE, frame |-> req.pa]]
    /\ pc' = "idle"
    /\ status' = "SUCCESS"
    /\ Return
    /\ UNCHANGED <<root, level, store>>

\* MAKE_LEAF_ENTRY, over whatever the entry was.
WriteLeaf ==
    /\ pc = "walk" /\ i = req.end
    /\ mem' = [mem EXCEPT ![table][Slot] =
                 [p |-> TRUE, rw |-> req.rw, ps |-> req.end < 3, frame |-> req.pa]]
    /\ pc' = "idle"
    /\ status' = "SUCCESS"
    /\ Return
    /\ UNCHANGED <<root, level, store>>

Paging ==
    \/ SsPagingInitFails \/ Descend \/ NoMemory \/ WriteLeaf
    \/ \E f \in Frames : \/ SsPagingInit(f) \/ SsPagingInitStale(f)
                         \/ NewTable(f) \/ StaleTable(f)

Next == Paging \/ \E r \in Requests : Call(r)

Spec == Init /\ [][Next]_vars

\* Straight-line code: a step of the loader that can be taken is taken.
FairSpec == Spec /\ WF_vars(Paging)

-----------------------------------------------------------------------------
\* No two paths of the walk share a table, and no table serves two levels: what
\* UefiMapTables (pagemanager.h 256-275) writes for one page is seen by no other.
NoSharedTable ==
    LET Visits == {<<TableAt(v, j), j, IF j = 0 THEN 0 ELSE v \div Span(j - 1)>> :
                      v \in Pages, j \in 0..3}
    IN  \A a, b \in Visits : (a[1] = b[1] /\ a[1] # NoTable) => a = b

\* Every table the walk can reach was allocated by the loader as a table of that
\* level (pagemanager.h 216-225, 260-272): the processor never reads data as a
\* table.
ReachesOwnTables ==
    \A v \in Pages : \A j \in 0..3 :
        TableAt(v, j) # NoTable => level[TableAt(v, j)] = j

\* Paging code only ever writes to frames it has allocated as tables (227, 269, 275).
WritesOwnTables ==
    [][\A f \in Frames : mem'[f] # mem[f] => level'[f] # -1]_vars

\* The mapping made of tables behaves like a function from pages to frames: a call
\* that returns EFI_SUCCESS maps exactly its region to exactly the frames asked
\* for, and a call that fails changes nothing (pagemanager.h 232-338).
Flat == INSTANCE AddressSpace
            WITH space <- [v \in Pages |-> HwWalk(v)],
                 asked <- IF pc = "walk" THEN {req} ELSE {}
ImplementsAddressSpace == Flat!Spec

\* UefiMapTables (256-277) always comes back to its caller, also when it follows
\* stale entries, cycles of tables or the entries of a larger page.
CallsReturn == (pc = "walk") ~> (pc = "idle")

\* A call changes the translation of no page outside the region it was asked for:
\* "MapPage maps a single 4KB page" (pagemanager.h:280).
MapsOnlyItsRegion ==
    [][\A v \in Pages :
          HwWalk(v)' # HwWalk(v) => pc = "walk" /\ Covers(req.va, req.end, v)]_vars
=============================================================================
