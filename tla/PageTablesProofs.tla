-------------------------- MODULE PageTablesProofs --------------------------
(* For every fan-out, memory, pool and set of requests: the variables of      *)
(* PageTables keep their types, and on zeroed pages with a careful caller     *)
(* the tables form a tree that behaves like AddressSpace.                     *)
EXTENDS PageTables, Numbers, TLAPS

-----------------------------------------------------------------------------
(* The digits of a page number. *)

LEMMA SpanPositive == \A j \in 0..3 : Span(j) \in Nat \ {0}
<1>1. Fan * Fan \in Nat \ {0}
  BY FanAssumption
<1>2. Fan * Fan * Fan \in Nat \ {0}
  BY <1>1, FanAssumption
<1> QED
  BY <1>1, <1>2, FanAssumption DEF Span

LEMMA SpanSteps == \A j \in 1..3 : Span(j - 1) = Fan * Span(j)
  BY FanAssumption DEF Span

LEMMA PagesAreNumbers == Pages \subseteq Nat
  BY SpanPositive, FanAssumption DEF Pages

LEMMA IndexInTable ==
    ASSUME NEW v \in Pages, NEW j \in 0..3
    PROVE  Index(v, j) \in 0..(Fan - 1)
<1>1. v \in Nat /\ Span(j) \in Nat \ {0}
  BY PagesAreNumbers, SpanPositive
<1>2. v \div Span(j) \in Int
  BY <1>1
<1> QED
  BY <1>2, FanAssumption DEF Index

\* The part of a page number above level j, and the digit of level j, make the part
\* above level j + 1; above the PML4 there is nothing.
LEMMA PartIsDigits ==
    ASSUME NEW v \in Pages
    PROVE  /\ v \div Span(0) = Index(v, 0)
           /\ \A j \in 1..3 : v \div Span(j) = Fan * (v \div Span(j - 1)) + Index(v, j)
<1>1. v \in Nat /\ \A j \in 0..3 : Span(j) \in Nat \ {0}
  BY PagesAreNumbers, SpanPositive
<1>2. v \div Span(0) = Index(v, 0)
  <2> DEFINE s == Span(0)
  <2> DEFINE a == v \div s
  <2>1. a \in Int /\ v < Fan * s /\ v = s * a + (v % s) /\ v % s \in 0..(s - 1)
    BY <1>1, FanAssumption DEF Pages
  <2>2. s \in Nat \ {0} /\ Index(v, 0) = a % Fan
    BY <1>1 DEF Index
  <2> HIDE DEF s, a
  <2>3. a >= 0 /\ a < Fan
    <3>1. ~(a <= -1)
      <4> SUFFICES ASSUME a <= -1 PROVE FALSE
        OBVIOUS
      <4>1. s * a <= -s
        BY <2>1, <2>2
      <4> QED
        BY <1>1, <2>1, <2>2, <4>1
    <3>2. ~(a >= Fan)
      <4> SUFFICES ASSUME a >= Fan PROVE FALSE
        OBVIOUS
      <4>1. s * a >= Fan * s
        BY <2>1, <2>2, FanAssumption
      <4> QED
        BY <1>1, <2>1, <2>2, <4>1, FanAssumption
    <3> QED
      BY <2>1, <3>1, <3>2, FanAssumption
  <2>4. a % Fan = a
    BY <2>1, <2>3, FanAssumption
  <2> QED
    BY <2>2, <2>4 DEF a, s
<1>3. ASSUME NEW j \in 1..3
      PROVE  v \div Span(j) = Fan * (v \div Span(j - 1)) + Index(v, j)
  <2> DEFINE a == v \div Span(j)
  <2>1. a \in Int
    BY <1>1
  <2>2. a \div Fan = v \div Span(j - 1)
    <3>1. v \in Int /\ Span(j) \in Nat \ {0} /\ Fan \in Nat \ {0}
      BY <1>1, FanAssumption
    <3>2. (v \div Span(j)) \div Fan = v \div (Fan * Span(j))
      BY <3>1, DivideTwice
    <3> QED
      BY <3>2, SpanSteps
  <2>3. Index(v, j) = a % Fan
    BY DEF Index
  <2> HIDE DEF a
  <2>4. a = Fan * (a \div Fan) + (a % Fan)
    BY <2>1, FanAssumption
  <2> QED
    BY <2>2, <2>3, <2>4 DEF a
<1> QED
  BY <1>2, <1>3

-----------------------------------------------------------------------------
(* Type correctness. *)

\* The loader is inside UefiMapTables only with a PML4, and writes only entries that
\* a table has.
RootBeforeWalk == pc \in {"idle", "walk"} => root \in Frames

LEMMA ZeroIsFrame == 0 \in Frames
  BY PageTablesAssumption DEF Frames

LEMMA ZeroPageIsContent == Clear \in Entry /\ ZeroPage \in Content
<1>1. Clear \in Entry
  BY ZeroIsFrame DEF Clear, Entry
<1> QED
  BY <1>1 DEF ZeroPage, Content

LEMMA RequestTypes ==
    ASSUME NEW r \in Requests
    PROVE  r.va \in Pages /\ r.pa \in Frames /\ r.end \in 1..3 /\ r.rw \in BOOLEAN
  BY PageTablesAssumption

LEMMA NoRequestTypes == NoRequest \in Requests
  BY PageTablesAssumption DEF NoRequest

LEMMA SlotInTable ==
    ASSUME TypeOK
    PROVE  Slot \in 0..(Fan - 1) /\ Current \in Entry
<1>1. Slot \in 0..(Fan - 1)
  BY RequestTypes, IndexInTable DEF TypeOK, Slot
<1> QED
  BY <1>1 DEF TypeOK, Content, Current

LEMMA StoreTypes ==
    ASSUME Store!TypeOK
    PROVE  /\ \A f \in Frames : Store!Serve(f) => Store!TypeOK'
           /\ AllocateFails => Store!TypeOK'
           /\ \A f \in Frames : AllocatePage(f) => Store!Serve(f)
<1>1. \A f \in Frames : Store!Serve(f) \/ Store!Lose(f) => Store!TypeOK'
  BY DEF Store!TypeOK, Store!Serve, Store!Lose, Store!Answers
<1>2. Store!Exhaust => Store!TypeOK'
  BY DEF Store!TypeOK, Store!Exhaust, Store!Answers
<1>3. Offered \subseteq Frames
  BY DEF Offered, Store!TypeOK
<1> QED
  BY <1>1, <1>2, <1>3 DEF AllocateFails, AllocatePage

LEMMA InitTypes == Init => TypeOK /\ RootBeforeWalk
<1> SUFFICES ASSUME Init PROVE TypeOK /\ RootBeforeWalk
  OBVIOUS
<1>1. mem \in [Frames -> Content]
  BY PageTablesAssumption DEF Init
<1>2. Store!TypeOK
  BY PageTablesAssumption DEF Init, Store!TypeOK, Store!Answers
<1>3. req \in Requests /\ table \in Frames /\ local \in Frames
  BY NoRequestTypes, ZeroIsFrame DEF Init
<1> QED
  BY <1>1, <1>2, <1>3 DEF Init, TypeOK, RootBeforeWalk

LEMMA SetRootTypes ==
    ASSUME TypeOK, Store!TypeOK', NEW f \in Frames, SetRoot(f)
    PROVE  TypeOK' /\ RootBeforeWalk'
<1>1. mem' \in [Frames -> Content]
  BY ZeroPageIsContent DEF SetRoot, TypeOK
<1>2. level' \in [Frames -> -1..3]
  BY DEF SetRoot, TypeOK
<1> QED
  BY <1>1, <1>2 DEF SetRoot, TypeOK, RootBeforeWalk, walk

LEMMA LinkTypes ==
    ASSUME TypeOK, RootBeforeWalk, Store!TypeOK', NEW f \in Frames, Link(f),
           level' \in {level, [level EXCEPT ![f] = i + 1]}
    PROVE  TypeOK' /\ RootBeforeWalk'
<1> DEFINE e == [p |-> TRUE, rw |-> TRUE, ps |-> FALSE, frame |-> f]
<1>1. mem' \in [Frames -> Content]
  <2>1. e \in Entry
    BY DEF Entry
  <2>2. mem' = [mem EXCEPT ![table][Slot] = e]
    BY DEF Link
  <2> HIDE DEF e
  <2> QED
    BY <2>1, <2>2, SlotInTable DEF TypeOK, Content
<1>2. i + 1 \in 0..3
  BY RequestTypes DEF Link, TypeOK
<1>3. level' \in [Frames -> -1..3]
  BY <1>2 DEF TypeOK
<1> QED
  BY <1>1, <1>2, <1>3 DEF Link, TypeOK, RootBeforeWalk

LEMMA WriteLeafTypes ==
    ASSUME TypeOK, RootBeforeWalk, WriteLeaf
    PROVE  TypeOK' /\ RootBeforeWalk'
<1> DEFINE e == [p |-> TRUE, rw |-> req.rw, ps |-> req.end < 3, frame |-> req.pa]
<1>1. mem' \in [Frames -> Content]
  <2>1. e \in Entry
    BY RequestTypes DEF Entry, TypeOK
  <2>2. mem' = [mem EXCEPT ![table][Slot] = e]
    BY DEF WriteLeaf
  <2> HIDE DEF e
  <2> QED
    BY <2>1, <2>2, SlotInTable DEF TypeOK, Content
<1>2. req' \in Requests /\ i' \in 0..3 /\ table' \in Frames /\ local' \in Frames
  BY NoRequestTypes, ZeroIsFrame DEF WriteLeaf, Return
<1>3. Store!TypeOK'
  BY DEF WriteLeaf, TypeOK, store, Store!TypeOK
<1> QED
  BY <1>1, <1>2, <1>3 DEF WriteLeaf, TypeOK, RootBeforeWalk

LEMMA NextTypes == TypeOK /\ RootBeforeWalk /\ [Next]_vars => TypeOK' /\ RootBeforeWalk'
<1> SUFFICES ASSUME TypeOK, RootBeforeWalk, [Next]_vars
             PROVE  TypeOK' /\ RootBeforeWalk'
  OBVIOUS
<1>s. Store!TypeOK
  BY DEF TypeOK
<1>1. ASSUME NEW f \in Frames, SsPagingInit(f) PROVE TypeOK' /\ RootBeforeWalk'
  BY <1>1, <1>s, StoreTypes, SetRootTypes DEF SsPagingInit
<1>2. ASSUME NEW f \in Frames, SsPagingInitStale(f) PROVE TypeOK' /\ RootBeforeWalk'
  BY <1>2, <1>s, StoreTypes, SetRootTypes DEF SsPagingInitStale
<1>3. ASSUME NEW f \in Frames, NewTable(f) PROVE TypeOK' /\ RootBeforeWalk'
  BY <1>3, <1>s, StoreTypes, LinkTypes DEF NewTable
<1>4. ASSUME NEW f \in Frames, StaleTable(f) PROVE TypeOK' /\ RootBeforeWalk'
  BY <1>4, <1>s, StoreTypes, LinkTypes DEF StaleTable
<1>5. CASE SsPagingInitFails
  <2>1. Store!TypeOK'
    BY <1>5, <1>s, StoreTypes DEF SsPagingInitFails
  <2> QED
    BY <1>5, <2>1 DEF SsPagingInitFails, TypeOK, RootBeforeWalk, walk
<1>6. CASE NoMemory
  <2>1. Store!TypeOK'
    BY <1>6, <1>s, StoreTypes DEF NoMemory
  <2>2. req' \in Requests /\ i' \in 0..3 /\ table' \in Frames /\ local' \in Frames
    BY <1>6, NoRequestTypes, ZeroIsFrame DEF NoMemory, Return
  <2> QED
    BY <1>6, <2>1, <2>2 DEF NoMemory, TypeOK, RootBeforeWalk
<1>7. CASE Descend
  <2>1. Current.frame \in Frames /\ i + 1 \in 0..3
    BY <1>7, SlotInTable, RequestTypes DEF Descend, Entry, TypeOK
  <2>2. Store!TypeOK'
    BY <1>7, <1>s DEF Descend, store, Store!TypeOK
  <2> QED
    BY <1>7, <2>1, <2>2 DEF Descend, TypeOK, RootBeforeWalk
<1>8. ASSUME NEW r \in Requests, Call(r) PROVE TypeOK' /\ RootBeforeWalk'
  <2>1. Store!TypeOK'
    BY <1>8, <1>s DEF Call, store, Store!TypeOK
  <2> QED
    BY <1>8, <2>1, ZeroIsFrame DEF Call, TypeOK, RootBeforeWalk
<1>9. CASE UNCHANGED vars
  <2>1. Store!TypeOK'
    BY <1>9, <1>s DEF vars, store, Store!TypeOK
  <2> QED
    BY <1>9, <2>1 DEF vars, walk, TypeOK, RootBeforeWalk
<1> QED
  BY <1>1, <1>2, <1>3, <1>4, <1>5, <1>6, <1>7, <1>8, <1>9, WriteLeafTypes
  DEF Next, Paging

LEMMA SpecTypes == Spec => [](TypeOK /\ RootBeforeWalk)
  BY InitTypes, NextTypes, PTL DEF Spec

\* UefiMapTables stays inside physical memory and writes only entries that a table
\* has, whatever the pages held before and whatever an unset local reads as
\* (pagemanager.h 216-277).
THEOREM TypeCorrect == Spec => []TypeOK
  BY SpecTypes, PTL

-----------------------------------------------------------------------------
(* The tables are a tree, on zeroed pages and with a caller that maps nothing *)
(* inside a larger page. The inductive invariant, part by part.               *)

\* A local that is not set reads 0, and the caller is careful.
CleanMachine == StaleSlots \subseteq {0} /\ ~KeepsLocal /\ CheckedClient

\* The pages of the list are zeroed when paging is set up; the others hold anything.
ListStartsClean == \A f \in Pool : mem[f] = ZeroPage

\* The loader owns its tables, and nothing it owns is on offer.
TablesOwned ==
    /\ \A f \in Frames : level[f] # -1 => f \in held
    /\ free \cap held = {}

\* There is one PML4 from SsPagingInit on, and no table without it.
RootIsTable ==
    /\ root = NoTable => \A f \in Frames : level[f] = -1
    /\ root # NoTable => level[root] = 0
    /\ \A f \in Frames : level[f] = 0 => f = root
    /\ pc \in {"start", "halt"} => root = NoTable

\* A page that is still on the list reads as an empty table.
FreePagesClean == \A f \in free : mem[f] = ZeroPage

\* An entry that the processor follows to another table.
IsLink(f, k) == level[f] \in 0..2 /\ mem[f][k].p /\ ~mem[f][k].ps

\* It leads to a table of the next level and grants every access.
LinksGoDown ==
    \A f \in Frames : \A k \in 0..(Fan - 1) :
        IsLink(f, k) => level[mem[f][k].frame] = level[f] + 1 /\ mem[f][k].rw

\* No two entries lead to the same table.
LinksDistinct ==
    \A f, g \in Frames : \A k, l \in 0..(Fan - 1) :
        IsLink(f, k) /\ IsLink(g, l) /\ mem[f][k].frame = mem[g][l].frame
            => f = g /\ k = l

\* The PML4 maps no page by itself.
RootHasNoLeaf ==
    root # NoTable => \A k \in 0..(Fan - 1) : ~mem[root][k].ps

\* UefiMapTables stands on the path of the page it was asked for.
WalkOnPath ==
    pc = "walk" => i <= req.end /\ table = TableAt(req.va, i) /\ FitsTables(req)

Tree ==
    /\ TablesOwned /\ RootIsTable /\ FreePagesClean
    /\ LinksGoDown /\ LinksDistinct /\ RootHasNoLeaf

IInv == TypeOK /\ RootBeforeWalk /\ Tree /\ WalkOnPath

-----------------------------------------------------------------------------
(* The walk of the processor, level by level. *)

\* The entry the processor reads for page v in its table of level j.
EntryAt(v, j) == mem[TableAt(v, j)][Index(v, j)]

PathSteps ==
    \A v \in Pages :
        /\ TableAt(v, 0) = root
        /\ \A j \in 0..2 :
              TableAt(v, j + 1) = IF TableAt(v, j) # NoTable /\ EntryAt(v, j).p
                                     /\ ~EntryAt(v, j).ps
                                  THEN EntryAt(v, j).frame ELSE NoTable

LEMMA PathByLevel == PathSteps
<1> SUFFICES ASSUME NEW v \in Pages
             PROVE  /\ TableAt(v, 0) = root
                    /\ \A j \in 0..2 :
                          TableAt(v, j + 1) =
                             IF TableAt(v, j) # NoTable /\ EntryAt(v, j).p
                                /\ ~EntryAt(v, j).ps
                             THEN EntryAt(v, j).frame ELSE NoTable
  BY DEF PathSteps
<1>1. /\ TableAt(v, 0) = root
      /\ TableAt(v, 1) = Below(TableAt(v, 0), v, 0)
      /\ TableAt(v, 2) = Below(TableAt(v, 1), v, 1)
      /\ TableAt(v, 3) = Below(TableAt(v, 2), v, 2)
  BY DEF TableAt, Path
<1>2. \A j \in 0..2 : TableAt(v, j + 1) = Below(TableAt(v, j), v, j)
  BY <1>1
<1> QED
  BY <1>1, <1>2 DEF Below, EntryAt

\* Every table on a path is one the loader made for that level.
Reached ==
    \A v \in Pages : \A j \in 0..3 :
        TableAt(v, j) # NoTable =>
            TableAt(v, j) \in Frames /\ level[TableAt(v, j)] = j

\* A step down a path is a link.
LEMMA StepIsLink ==
    ASSUME TypeOK, NEW v \in Pages, NEW j \in 0..2, TableAt(v, j + 1) # NoTable,
           TableAt(v, j) # NoTable =>
               TableAt(v, j) \in Frames /\ level[TableAt(v, j)] = j
    PROVE  /\ TableAt(v, j) \in Frames /\ level[TableAt(v, j)] = j
           /\ Index(v, j) \in 0..(Fan - 1)
           /\ IsLink(TableAt(v, j), Index(v, j))
           /\ TableAt(v, j + 1) = EntryAt(v, j).frame
           /\ EntryAt(v, j) \in Entry
<1>1. /\ TableAt(v, j) # NoTable /\ EntryAt(v, j).p /\ ~EntryAt(v, j).ps
      /\ TableAt(v, j + 1) = EntryAt(v, j).frame
  BY PathByLevel DEF PathSteps
<1>2. Index(v, j) \in 0..(Fan - 1)
  BY IndexInTable
<1>3. EntryAt(v, j) \in Entry
  BY <1>1, <1>2 DEF EntryAt, TypeOK, Content
<1> QED
  BY <1>1, <1>2, <1>3 DEF IsLink, EntryAt

LEMMA PathsReachTables == TypeOK /\ RootIsTable /\ LinksGoDown => Reached
<1> SUFFICES ASSUME TypeOK, RootIsTable, LinksGoDown, NEW v \in Pages
             PROVE  \A j \in 0..3 : TableAt(v, j) # NoTable =>
                       TableAt(v, j) \in Frames /\ level[TableAt(v, j)] = j
  BY DEF Reached
<1> DEFINE Good(j) == TableAt(v, j) # NoTable =>
                         TableAt(v, j) \in Frames /\ level[TableAt(v, j)] = j
<1>1. Good(0)
  BY PathByLevel DEF PathSteps, RootIsTable, TypeOK
<1>2. ASSUME NEW j \in 0..2, Good(j) PROVE Good(j + 1)
  <2> SUFFICES ASSUME TableAt(v, j + 1) # NoTable
               PROVE  TableAt(v, j + 1) \in Frames /\ level[TableAt(v, j + 1)] = j + 1
    OBVIOUS
  <2> QED
    BY <1>2, StepIsLink DEF LinksGoDown, EntryAt, Entry
<1>3. Good(1) /\ Good(2) /\ Good(3)
  <2>1. Good(1)
    <3>1. Good(0 + 1)
      BY <1>1, <1>2
    <3> QED
      BY <3>1
  <2>2. Good(2)
    <3>1. Good(1 + 1)
      BY <2>1, <1>2
    <3> QED
      BY <3>1
  <2>3. Good(3)
    <3>1. Good(2 + 1)
      BY <2>2, <1>2
    <3> QED
      BY <3>1
  <2> QED
    BY <2>1, <2>2, <2>3
<1> HIDE DEF Good
<1>4. \A j \in 0..3 : Good(j)
  BY <1>1, <1>3
<1> QED
  BY <1>4 DEF Good

\* Links being distinct, two pages that share a table share everything above it.
LEMMA TablesAreNotShared ==
    ASSUME TypeOK, Reached, LinksDistinct, NEW v \in Pages, NEW w \in Pages,
           NEW j \in 1..3, TableAt(v, j) # NoTable, TableAt(v, j) = TableAt(w, j)
    PROVE  v \div Span(j - 1) = w \div Span(j - 1)
<1> DEFINE Same(n) == TableAt(v, n) # NoTable /\ TableAt(v, n) = TableAt(w, n)
                         => v \div Span(n - 1) = w \div Span(n - 1)
<1>1. ASSUME NEW n \in 0..2, TableAt(v, n + 1) # NoTable,
             TableAt(v, n + 1) = TableAt(w, n + 1)
      PROVE  TableAt(v, n) # NoTable /\ TableAt(v, n) = TableAt(w, n)
             /\ Index(v, n) = Index(w, n)
  <2>1. /\ TableAt(v, n) \in Frames /\ Index(v, n) \in 0..(Fan - 1)
        /\ IsLink(TableAt(v, n), Index(v, n))
        /\ TableAt(v, n + 1) = EntryAt(v, n).frame
    BY <1>1, StepIsLink DEF Reached
  <2>2. /\ TableAt(w, n) \in Frames /\ Index(w, n) \in 0..(Fan - 1)
        /\ IsLink(TableAt(w, n), Index(w, n))
        /\ TableAt(w, n + 1) = EntryAt(w, n).frame
    BY <1>1, StepIsLink DEF Reached
  <2>3. TableAt(v, n) = TableAt(w, n) /\ Index(v, n) = Index(w, n)
    BY <1>1, <2>1, <2>2 DEF LinksDistinct, EntryAt
  <2>4. TableAt(v, n) # NoTable
    BY <2>1, PageTablesAssumption DEF Frames, NoTable
  <2> QED
    BY <2>3, <2>4
<1>2. Same(1)
  <2> SUFFICES ASSUME TableAt(v, 1) # NoTable, TableAt(v, 1) = TableAt(w, 1)
               PROVE  v \div Span(1 - 1) = w \div Span(1 - 1)
    OBVIOUS
  <2>1. Index(v, 0) = Index(w, 0)
    <3>1. TableAt(v, 0 + 1) # NoTable /\ TableAt(v, 0 + 1) = TableAt(w, 0 + 1)
      OBVIOUS
    <3> QED
      BY <3>1, <1>1
  <2>2. v \div Span(0) = Index(v, 0) /\ w \div Span(0) = Index(w, 0)
    BY PartIsDigits
  <2> QED
    BY <2>1, <2>2
<1>3. ASSUME NEW n \in 1..2, Same(n) PROVE Same(n + 1)
  <2> SUFFICES ASSUME TableAt(v, n + 1) # NoTable, TableAt(v, n + 1) = TableAt(w, n + 1)
               PROVE  v \div Span(n) = w \div Span(n)
    OBVIOUS
  <2>1. TableAt(v, n) # NoTable /\ TableAt(v, n) = TableAt(w, n)
        /\ Index(v, n) = Index(w, n)
    BY <1>1
  <2>2. v \div Span(n - 1) = w \div Span(n - 1)
    BY <1>3, <2>1
  <2>3. /\ v \div Span(n) = Fan * (v \div Span(n - 1)) + Index(v, n)
        /\ w \div Span(n) = Fan * (w \div Span(n - 1)) + Index(w, n)
    BY PartIsDigits
  <2> QED
    BY <2>1, <2>2, <2>3
<1>4. Same(2)
  <2>1. Same(1 + 1)
    BY <1>2, <1>3
  <2> QED
    BY <2>1
<1>5. Same(3)
  <2>1. Same(2 + 1)
    BY <1>3, <1>4
  <2> QED
    BY <2>1
<1> HIDE DEF Same
<1>6. Same(j)
  BY <1>2, <1>4, <1>5
<1> QED
  BY <1>6 DEF Same

\* Pages of one mapping of level e agree on every index and every table down to e.
LEMMA PathsAgree ==
    ASSUME NEW v \in Pages, NEW w \in Pages, NEW e \in 0..3,
           v \div Span(e) = w \div Span(e)
    PROVE  \A j \in 0..e : Index(v, j) = Index(w, j) /\ TableAt(v, j) = TableAt(w, j)
<1>1. ASSUME NEW j \in 1..3, v \div Span(j) = w \div Span(j)
      PROVE  v \div Span(j - 1) = w \div Span(j - 1)
  <2>1. v \in Int /\ w \in Int /\ Span(j) \in Nat \ {0} /\ Fan \in Nat \ {0}
    BY PagesAreNumbers, SpanPositive, FanAssumption
  <2>2. /\ (v \div Span(j)) \div Fan = v \div (Fan * Span(j))
        /\ (w \div Span(j)) \div Fan = w \div (Fan * Span(j))
    BY <2>1, DivideTwice
  <2> QED
    BY <1>1, <2>2, SpanSteps
<1>2. \A j \in 0..e : v \div Span(j) = w \div Span(j)
  <2>1. \A n \in 1..3 : v \div Span(n) = w \div Span(n)
                           => v \div Span(n - 1) = w \div Span(n - 1)
    BY <1>1
  <2>2. /\ v \div Span(3) = w \div Span(3) => v \div Span(2) = w \div Span(2)
        /\ v \div Span(2) = w \div Span(2) => v \div Span(1) = w \div Span(1)
        /\ v \div Span(1) = w \div Span(1) => v \div Span(0) = w \div Span(0)
    <3>1. 3 \in 1..3 /\ 2 \in 1..3 /\ 1 \in 1..3 /\ 3 - 1 = 2 /\ 2 - 1 = 1 /\ 1 - 1 = 0
      OBVIOUS
    <3> QED
      BY <2>1, <3>1
  <2>3. \A j \in 0..e : e = j \/ (e = 3 /\ j \in 0..2) \/ (e = 2 /\ j \in 0..1)
                           \/ (e = 1 /\ j = 0)
    OBVIOUS
  <2> QED
    BY <2>2, <2>3
<1>3. \A j \in 0..e : Index(v, j) = Index(w, j)
  BY <1>2 DEF Index
<1>4. TableAt(v, 0) = TableAt(w, 0)
  BY PathByLevel DEF PathSteps
<1>5. ASSUME NEW j \in 0..2, j < e, TableAt(v, j) = TableAt(w, j)
      PROVE  TableAt(v, j + 1) = TableAt(w, j + 1)
  BY <1>3, <1>5, PathByLevel DEF PathSteps, EntryAt
<1>6. /\ 0 < e => TableAt(v, 1) = TableAt(w, 1)
      /\ 1 < e => TableAt(v, 2) = TableAt(w, 2)
      /\ 2 < e => TableAt(v, 3) = TableAt(w, 3)
  <2>1. 0 < e => TableAt(v, 0 + 1) = TableAt(w, 0 + 1)
    BY <1>4, <1>5
  <2>2. 1 < e => TableAt(v, 1 + 1) = TableAt(w, 1 + 1)
    BY <2>1, <1>5
  <2>3. 2 < e => TableAt(v, 2 + 1) = TableAt(w, 2 + 1)
    BY <2>2, <1>5
  <2> QED
    BY <2>1, <2>2, <2>3
<1>7. \A j \in 0..e : TableAt(v, j) = TableAt(w, j)
  <2>1. \A j \in 0..e : j = 0 \/ (j = 1 /\ 0 < e) \/ (j = 2 /\ 1 < e) \/ (j = 3 /\ 2 < e)
    OBVIOUS
  <2> QED
    BY <1>4, <1>6, <2>1
<1> QED
  BY <1>3, <1>7

\* A step that keeps the entries a path goes through above level n keeps the path
\* down to level n.
LEMMA PathKept ==
    ASSUME NEW v \in Pages, NEW n \in 0..3, root' = root,
           \A j \in 0..3 : j < n /\ TableAt(v, j) # NoTable =>
               mem'[TableAt(v, j)][Index(v, j)] = EntryAt(v, j)
    PROVE  \A j \in 0..n : TableAt(v, j)' = TableAt(v, j)
<1>p. PathSteps /\ PathSteps'
  BY PathByLevel, PTL
<1>1. TableAt(v, 0)' = TableAt(v, 0)
  BY <1>p DEF PathSteps
<1>2. ASSUME NEW j \in 0..2, j < n, TableAt(v, j)' = TableAt(v, j)
      PROVE  TableAt(v, j + 1)' = TableAt(v, j + 1)
  <2>1. TableAt(v, j) # NoTable => EntryAt(v, j)' = EntryAt(v, j)
    BY <1>2 DEF EntryAt
  <2> QED
    BY <1>2, <2>1, <1>p DEF PathSteps
<1>3. /\ 0 < n => TableAt(v, 1)' = TableAt(v, 1)
      /\ 1 < n => TableAt(v, 2)' = TableAt(v, 2)
      /\ 2 < n => TableAt(v, 3)' = TableAt(v, 3)
  <2>1. 0 < n => TableAt(v, 0 + 1)' = TableAt(v, 0 + 1)
    BY <1>1, <1>2
  <2>2. 1 < n => TableAt(v, 1 + 1)' = TableAt(v, 1 + 1)
    BY <2>1, <1>2
  <2>3. 2 < n => TableAt(v, 2 + 1)' = TableAt(v, 2 + 1)
    BY <2>2, <1>2
  <2> QED
    BY <2>1, <2>2, <2>3
<1> QED
  <2>1. \A j \in 0..n : j = 0 \/ (j = 1 /\ 0 < n) \/ (j = 2 /\ 1 < n) \/ (j = 3 /\ 2 < n)
    OBVIOUS
  <2> QED
    BY <1>1, <1>3, <2>1

\* A write to entry k of table t is seen by no page that does not go through it.
LEMMA PathBeside ==
    ASSUME TypeOK, Reached, root' = root, NEW t \in Frames, NEW k \in 0..(Fan - 1),
           level[t] \in 0..3, NEW e, mem' = [mem EXCEPT ![t][k] = e],
           NEW v \in Pages, ~(TableAt(v, level[t]) = t /\ Index(v, level[t]) = k)
    PROVE  \A j \in 0..3 :
              /\ TableAt(v, j)' = TableAt(v, j)
              /\ TableAt(v, j) # NoTable => EntryAt(v, j)' = EntryAt(v, j)
<1>1. ASSUME NEW j \in 0..3, TableAt(v, j) # NoTable
      PROVE  mem'[TableAt(v, j)][Index(v, j)] = EntryAt(v, j)
  <2>1. /\ TableAt(v, j) \in Frames /\ level[TableAt(v, j)] = j
        /\ Index(v, j) \in 0..(Fan - 1)
    BY <1>1, IndexInTable DEF Reached
  <2>2. ~(TableAt(v, j) = t /\ Index(v, j) = k)
    BY <2>1
  <2> QED
    BY <2>1, <2>2 DEF EntryAt, TypeOK, Content
<1>2. \A j \in 0..3 : TableAt(v, j)' = TableAt(v, j)
  BY <1>1, PathKept
<1> QED
  BY <1>1, <1>2 DEF EntryAt

\* And no path notices it above table t.
LEMMA PathAbove ==
    ASSUME TypeOK, Reached, root' = root, NEW t \in Frames, NEW k \in 0..(Fan - 1),
           level[t] \in 0..3, NEW e, mem' = [mem EXCEPT ![t][k] = e],
           NEW v \in Pages
    PROVE  /\ \A j \in 0..level[t] : TableAt(v, j)' = TableAt(v, j)
           /\ \A j \in 0..3 : j < level[t] /\ TableAt(v, j) # NoTable
                                 => EntryAt(v, j)' = EntryAt(v, j)
<1>1. ASSUME NEW j \in 0..3, j < level[t], TableAt(v, j) # NoTable
      PROVE  mem'[TableAt(v, j)][Index(v, j)] = EntryAt(v, j)
  <2>1. /\ TableAt(v, j) \in Frames /\ level[TableAt(v, j)] = j
        /\ Index(v, j) \in 0..(Fan - 1)
    BY <1>1, IndexInTable DEF Reached
  <2>2. TableAt(v, j) # t
    BY <1>1, <2>1
  <2> QED
    BY <2>1, <2>2 DEF EntryAt, TypeOK, Content
<1>2. \A j \in 0..level[t] : TableAt(v, j)' = TableAt(v, j)
  BY <1>1, PathKept
<1>3. \A j \in 0..3 : j < level[t] => j \in 0..level[t]
  OBVIOUS
<1> QED
  BY <1>1, <1>2, <1>3 DEF EntryAt

-----------------------------------------------------------------------------
(* Every step keeps the tree. *)

\* Of the ways AllocatePage may fail none hands a page to the code here.
LEMMA NothingStale ==
    ASSUME CleanMachine
    PROVE  /\ \A s \in Frames : ~SsPagingInitStale(s)
           /\ \A s \in Frames : ~StaleTable(s)
  BY DEF CleanMachine, SsPagingInitStale, StaleTable, Unset

\* A page that AllocatePage hands out is no table, and reads as an empty one.
LEMMA ServedIsFresh ==
    ASSUME TypeOK, Tree, NEW f \in Frames, Store!Serve(f)
    PROVE  /\ level[f] = -1 /\ mem[f] = ZeroPage /\ f # 0
           /\ held' = held \cup {f} /\ free' \cap held' = {}
           /\ free' \subseteq free \ {f}
<1>1. f \in free \ held /\ f # 0 /\ free' = free \ {f} /\ held' = held \cup {f}
  BY DEF Store!Serve
<1>2. level[f] = -1
  BY <1>1 DEF Tree, TablesOwned
<1> QED
  BY <1>1, <1>2 DEF Tree, FreePagesClean, TablesOwned

LEMMA FailKeepsOwners ==
    ASSUME AllocateFails
    PROVE  held' = held /\ free' \subseteq free
  BY DEF AllocateFails, Store!Exhaust, Store!Lose

LEMMA ZeroPageEntries ==
    \A k \in 0..(Fan - 1) : ~ZeroPage[k].p /\ ~ZeroPage[k].ps
  BY DEF ZeroPage, Clear

LEMMA SetRootKeepsTree ==
    ASSUME TypeOK, Tree, NEW f \in Frames, SsPagingInit(f)
    PROVE  Tree'
<1>1. Store!Serve(f) /\ SetRoot(f)
  BY DEF SsPagingInit, AllocatePage
<1>2. /\ level[f] = -1 /\ mem[f] = ZeroPage
      /\ held' = held \cup {f} /\ free' \cap held' = {} /\ free' \subseteq free \ {f}
  BY <1>1, ServedIsFresh
<1>3. root = NoTable /\ \A g \in Frames : level[g] = -1
  BY <1>1 DEF SetRoot, Tree, RootIsTable
<1>4. /\ root' = f /\ pc' = "idle"
      /\ mem' = [mem EXCEPT ![f] = ZeroPage]
      /\ level' = [level EXCEPT ![f] = 0]
  BY <1>1 DEF SetRoot
<1>5. /\ level' [f] = 0 /\ mem'[f] = ZeroPage
      /\ \A g \in Frames : g # f => level'[g] = -1 /\ mem'[g] = mem[g]
  BY <1>3, <1>4 DEF TypeOK
<1>6. TablesOwned'
  BY <1>2, <1>5 DEF TablesOwned
<1>7. f # NoTable
  BY PageTablesAssumption DEF Frames, NoTable
<1>8. RootIsTable'
  BY <1>4, <1>5, <1>7 DEF RootIsTable
<1>9. FreePagesClean'
  BY <1>2, <1>5 DEF Tree, FreePagesClean, TypeOK, Store!TypeOK
<1>10. \A g \in Frames : \A k \in 0..(Fan - 1) : ~IsLink(g, k)'
  BY <1>5, ZeroPageEntries DEF IsLink
<1>11. LinksGoDown' /\ LinksDistinct'
  BY <1>10 DEF LinksGoDown, LinksDistinct
<1>12. RootHasNoLeaf'
  BY <1>4, <1>5, ZeroPageEntries DEF RootHasNoLeaf
<1> QED
  BY <1>6, <1>8, <1>9, <1>11, <1>12 DEF Tree

\* Where the walk stands.
LEMMA WalkStands ==
    ASSUME TypeOK, RootBeforeWalk, Tree, WalkOnPath, pc = "walk", Reached
    PROVE  /\ table \in Frames /\ level[table] = i /\ i \in 0..3 /\ req \in Requests
           /\ req.va \in Pages /\ req.end \in 1..3 /\ i <= req.end
           /\ Slot \in 0..(Fan - 1) /\ Slot = Index(req.va, i)
           /\ table = TableAt(req.va, i) /\ table # NoTable
           /\ root \in Frames /\ root # NoTable
<1>1. /\ table \in Frames /\ i \in 0..3 /\ req \in Requests /\ root \in Frames
      /\ Slot \in 0..(Fan - 1) /\ Slot = Index(req.va, i)
  BY SlotInTable DEF TypeOK, RootBeforeWalk, Slot
<1>2. req.va \in Pages /\ req.end \in 1..3
  BY <1>1, RequestTypes
<1>3. table = TableAt(req.va, i) /\ i <= req.end
  BY DEF WalkOnPath
<1>4. table # NoTable /\ root # NoTable
  BY <1>1, PageTablesAssumption DEF Frames, NoTable
<1>5. level[table] = i
  BY <1>1, <1>2, <1>3, <1>4 DEF Reached
<1> QED
  BY <1>1, <1>2, <1>3, <1>4, <1>5

LEMMA NewTableKeepsTree ==
    ASSUME TypeOK, RootBeforeWalk, Tree, WalkOnPath, NEW f \in Frames, NewTable(f)
    PROVE  /\ Tree'
           /\ f # table /\ mem'[f] = ZeroPage /\ level'[f] = i + 1
<1>0. Reached
  BY PathsReachTables DEF Tree
<1>1. Store!Serve(f) /\ Link(f) /\ level' = [level EXCEPT ![f] = i + 1]
  BY DEF NewTable, AllocatePage
<1>2. /\ level[f] = -1 /\ mem[f] = ZeroPage
      /\ held' = held \cup {f} /\ free' \cap held' = {} /\ free' \subseteq free \ {f}
  BY <1>1, ServedIsFresh
<1> DEFINE e == [p |-> TRUE, rw |-> TRUE, ps |-> FALSE, frame |-> f]
<1>3. /\ pc = "walk" /\ i < req.end /\ pc' = "walk" /\ root' = root
      /\ mem' = [mem EXCEPT ![table][Slot] = e]
  BY <1>1 DEF Link
<1>4. /\ table \in Frames /\ level[table] = i /\ i \in 0..2
      /\ Slot \in 0..(Fan - 1) /\ root # NoTable
  BY <1>0, <1>3, WalkStands
<1>5. f # table /\ level'[f] = i + 1
  BY <1>1, <1>2, <1>4 DEF TypeOK
<1>6. \A g \in Frames : g # f => level'[g] = level[g]
  BY <1>1 DEF TypeOK
<1>e. e.p /\ e.rw /\ ~e.ps /\ e.frame = f
  OBVIOUS
<1> HIDE DEF e
<1>7. \A g \in Frames : g # table => mem'[g] = mem[g]
  BY <1>3 DEF TypeOK
<1>8. /\ mem'[table][Slot] = e
      /\ \A k \in 0..(Fan - 1) : k # Slot => mem'[table][k] = mem[table][k]
  BY <1>3, <1>4 DEF TypeOK, Content
<1>9. mem'[f] = ZeroPage
  BY <1>2, <1>5, <1>7
<1>10. TablesOwned'
  BY <1>2, <1>6 DEF Tree, TablesOwned
<1>11. RootIsTable'
  <2>1. level[root] = 0 /\ root # f
    BY <1>2, <1>4 DEF Tree, RootIsTable
  <2>2. root \in Frames
    BY <1>4 DEF TypeOK
  <2>3. level'[root] = 0
    BY <1>6, <2>1, <2>2
  <2>4. \A g \in Frames : level'[g] = 0 => g = root
    BY <1>4, <1>5, <1>6 DEF Tree, RootIsTable
  <2> QED
    BY <1>3, <1>4, <2>3, <2>4 DEF RootIsTable
<1>t. table \notin free
  BY <1>4 DEF Tree, TablesOwned
<1>12. FreePagesClean'
  BY <1>2, <1>7, <1>t DEF Tree, FreePagesClean, TypeOK, Store!TypeOK
\* A link of the new memory is the new one or an old one.
<1>13. ASSUME NEW g \in Frames, NEW k \in 0..(Fan - 1), IsLink(g, k)'
       PROVE  \/ g = table /\ k = Slot
              \/ /\ IsLink(g, k) /\ mem'[g][k] = mem[g][k]
                 /\ level'[g] = level[g] /\ mem[g][k].frame # f
                 /\ mem[g][k].frame \in Frames
  <2> SUFFICES ASSUME ~(g = table /\ k = Slot)
               PROVE  /\ IsLink(g, k) /\ mem'[g][k] = mem[g][k]
                      /\ level'[g] = level[g] /\ mem[g][k].frame # f
                      /\ mem[g][k].frame \in Frames
    OBVIOUS
  <2>1. mem'[g][k] = mem[g][k]
    BY <1>7, <1>8
  <2>2. g # f
    BY <1>9, <1>13, ZeroPageEntries DEF IsLink
  <2>3. level'[g] = level[g]
    BY <1>6, <2>2
  <2>4. IsLink(g, k)
    BY <1>13, <2>1, <2>3 DEF IsLink
  <2>5. level[mem[g][k].frame] = level[g] + 1 /\ level[g] \in 0..2
    BY <2>4 DEF IsLink, Tree, LinksGoDown
  <2>6. mem[g][k].frame \in Frames
    BY DEF TypeOK, Content, Entry
  <2> QED
    BY <1>2, <2>1, <2>3, <2>4, <2>5, <2>6
<1>14. LinksGoDown'
  <2> SUFFICES ASSUME NEW g \in Frames, NEW k \in 0..(Fan - 1), IsLink(g, k)'
               PROVE  level'[mem'[g][k].frame] = level'[g] + 1 /\ mem'[g][k].rw
    BY DEF LinksGoDown
  <2>1. CASE g = table /\ k = Slot
    BY <1>4, <1>5, <1>6, <1>8, <1>e, <2>1
  <2>2. CASE ~(g = table /\ k = Slot)
    BY <1>6, <1>13, <2>2 DEF Tree, LinksGoDown
  <2> QED
    BY <2>1, <2>2
<1>15. LinksDistinct'
  <2> SUFFICES ASSUME NEW g \in Frames, NEW h \in Frames,
                      NEW k \in 0..(Fan - 1), NEW l \in 0..(Fan - 1),
                      IsLink(g, k)', IsLink(h, l)',
                      mem'[g][k].frame = mem'[h][l].frame
               PROVE  g = h /\ k = l
    BY DEF LinksDistinct
  <2>1. CASE g = table /\ k = Slot
    BY <1>8, <1>13, <1>e, <2>1
  <2>2. CASE h = table /\ l = Slot
    BY <1>8, <1>13, <1>e, <2>2
  <2>3. CASE ~(g = table /\ k = Slot) /\ ~(h = table /\ l = Slot)
    BY <1>13, <2>3 DEF Tree, LinksDistinct
  <2> QED
    BY <2>1, <2>2, <2>3
<1>16. RootHasNoLeaf'
  BY <1>3, <1>4, <1>7, <1>8, <1>e DEF Tree, RootHasNoLeaf, TypeOK
<1> QED
  BY <1>5, <1>9, <1>10, <1>11, <1>12, <1>14, <1>15, <1>16 DEF Tree

LEMMA WriteLeafKeepsTree ==
    ASSUME TypeOK, RootBeforeWalk, Tree, WalkOnPath, WriteLeaf
    PROVE  Tree'
<1>0. Reached
  BY PathsReachTables DEF Tree
<1> DEFINE e == [p |-> TRUE, rw |-> req.rw, ps |-> req.end < 3, frame |-> req.pa]
<1>1. /\ pc = "walk" /\ i = req.end /\ pc' = "idle" /\ root' = root
      /\ mem' = [mem EXCEPT ![table][Slot] = e]
      /\ level' = level /\ free' = free /\ held' = held
  BY DEF WriteLeaf, store
<1>2. /\ table \in Frames /\ level[table] \in 1..3 /\ level[table] = req.end
      /\ Slot \in 0..(Fan - 1) /\ root # NoTable
  BY <1>0, <1>1, WalkStands
<1>e. req.end < 3 => e.ps
  OBVIOUS
<1> HIDE DEF e
<1>3. \A g \in Frames : g # table => mem'[g] = mem[g]
  BY <1>1 DEF TypeOK
<1>4. /\ mem'[table][Slot] = e
      /\ \A k \in 0..(Fan - 1) : k # Slot => mem'[table][k] = mem[table][k]
  BY <1>1, <1>2 DEF TypeOK, Content
<1>5. TablesOwned' /\ RootIsTable' /\ FreePagesClean'
  <2>1. TablesOwned'
    BY <1>1 DEF Tree, TablesOwned
  <2>2. RootIsTable'
    BY <1>1, <1>2 DEF Tree, RootIsTable
  <2>3. FreePagesClean'
    <3>1. table \notin free
      BY <1>2 DEF Tree, TablesOwned
    <3> QED
      BY <1>1, <1>3, <3>1 DEF Tree, FreePagesClean, TypeOK, Store!TypeOK
  <2> QED
    BY <2>1, <2>2, <2>3
<1>6. ASSUME NEW g \in Frames, NEW k \in 0..(Fan - 1), IsLink(g, k)'
      PROVE  IsLink(g, k) /\ mem'[g][k] = mem[g][k]
  <2>1. ~(g = table /\ k = Slot)
    BY <1>1, <1>2, <1>4, <1>6, <1>e DEF IsLink
  <2>2. mem'[g][k] = mem[g][k]
    BY <1>3, <1>4, <2>1
  <2> QED
    BY <1>1, <1>6, <2>2 DEF IsLink
<1>7. LinksGoDown'
  BY <1>1, <1>6 DEF Tree, LinksGoDown
<1>8. LinksDistinct'
  BY <1>6 DEF Tree, LinksDistinct
<1>9. RootHasNoLeaf'
  <2>1. root # table
    BY <1>2 DEF Tree, RootIsTable
  <2> QED
    BY <1>1, <1>2, <1>3, <2>1 DEF Tree, RootHasNoLeaf, TypeOK
<1> QED
  BY <1>5, <1>7, <1>8, <1>9 DEF Tree

\* A step that writes no table and gives none up keeps the tree.
LEMMA OtherStepsKeepTree ==
    ASSUME Tree, UNCHANGED <<mem, root, level>>, held' = held, free' \subseteq free,
           pc' \in {"start", "halt"} => root = NoTable
    PROVE  Tree'
<1>1. TablesOwned'
  BY DEF Tree, TablesOwned
<1>2. RootIsTable'
  BY DEF Tree, RootIsTable
<1>3. FreePagesClean' /\ LinksGoDown' /\ LinksDistinct' /\ RootHasNoLeaf'
  BY DEF Tree, FreePagesClean, LinksGoDown, LinksDistinct, RootHasNoLeaf, IsLink
<1> QED
  BY <1>1, <1>2, <1>3 DEF Tree

-----------------------------------------------------------------------------
(* UefiMapTables stays on its path. *)

EndsByLevel ==
    \A v \in Pages : \A j \in 1..3 :
        EndsOn(Path(v), v, j) <=> /\ TableAt(v, j) # NoTable /\ EntryAt(v, j).p
                                  /\ j = 3 \/ EntryAt(v, j).ps

LEMMA EndsAreByLevel == EndsByLevel
  BY DEF EndsByLevel, EndsOn, EntryOn, TableAt, EntryAt

LEMMA SamePaths ==
    ASSUME UNCHANGED <<mem, root>>
    PROVE  \A v \in Pages :
              /\ HwWalk(v)' = HwWalk(v)
              /\ \A j \in 0..3 : /\ TableAt(v, j)' = TableAt(v, j)
                                 /\ EntryAt(v, j)' = EntryAt(v, j)
                                 /\ EndsOn(Path(v), v, j)' = EndsOn(Path(v), v, j)
<1>1. \A v \in Pages : Path(v)' = Path(v)
  BY DEF Path, Below
<1>2. \A v \in Pages : \A j \in 0..3 :
         /\ EndsOn(Path(v), v, j)' = EndsOn(Path(v), v, j)
         /\ EntryOn(Path(v), v, j)' = EntryOn(Path(v), v, j)
  BY <1>1 DEF EndsOn, EntryOn
<1>3. \A v \in Pages : HwWalk(v)' = HwWalk(v)
  BY <1>1 DEF HwWalk, EndsOn, EntryOn
<1> QED
  BY <1>1, <1>2, <1>3 DEF TableAt, EntryAt

LEMMA CallStaysOnPath ==
    ASSUME CleanMachine, TypeOK, NEW r \in Requests, Call(r)
    PROVE  WalkOnPath'
<1>1. /\ i' = 0 /\ table' = root /\ req' = r /\ UNCHANGED <<mem, root>>
      /\ FitsTables(r)
  BY DEF Call, CleanMachine
<1>2. r.va \in Pages /\ r.end \in 1..3
  BY RequestTypes
<1>3. TableAt(r.va, 0)' = root
  BY <1>1, <1>2, SamePaths, PathByLevel DEF PathSteps
<1>4. FitsTables(r)'
  <2>1. \A j \in 1..(r.end - 1) : j \in 0..3
    BY <1>2
  <2> QED
    BY <1>1, <1>2, <2>1, SamePaths DEF FitsTables
<1> QED
  BY <1>1, <1>2, <1>3, <1>4 DEF WalkOnPath

LEMMA DescendStaysOnPath ==
    ASSUME TypeOK, RootBeforeWalk, Tree, WalkOnPath, Descend
    PROVE  WalkOnPath'
<1>0. Reached
  BY PathsReachTables DEF Tree
<1>1. /\ pc = "walk" /\ i < req.end /\ Current.p /\ table' = Current.frame
      /\ i' = i + 1 /\ req' = req /\ UNCHANGED <<mem, root>>
  BY DEF Descend
<1>2. /\ table = TableAt(req.va, i) /\ table # NoTable /\ i \in 0..2
      /\ req.va \in Pages /\ req.end \in 1..3 /\ Slot = Index(req.va, i)
      /\ Slot \in 0..(Fan - 1) /\ root # NoTable
  BY <1>0, <1>1, WalkStands
<1>3. Current = EntryAt(req.va, i)
  BY <1>2 DEF Current, EntryAt
<1>4. ~Current.ps
  <2>1. CASE i = 0
    BY <1>2, <2>1, PathByLevel DEF PathSteps, Current, Tree, RootHasNoLeaf
  <2>2. CASE i # 0
    <3>1. i \in 1..(req.end - 1) /\ i \in 1..3
      BY <1>1, <1>2, <2>2
    <3>2. ~EndsOn(Path(req.va), req.va, i)
      BY <1>1, <3>1 DEF WalkOnPath, FitsTables
    <3> QED
      BY <1>1, <1>2, <1>3, <3>1, <3>2, EndsAreByLevel DEF EndsByLevel
  <2> QED
    BY <2>1, <2>2
<1>5. TableAt(req.va, i + 1) = Current.frame
  BY <1>1, <1>2, <1>3, <1>4, PathByLevel DEF PathSteps
<1>6. TableAt(req.va, i)' = Current.frame
  <2>1. i + 1 \in 0..3
    BY <1>2
  <2> QED
    BY <1>1, <1>2, <1>5, <2>1, SamePaths
<1>7. FitsTables(req)'
  <2>1. \A j \in 1..(req.end - 1) : j \in 0..3
    BY <1>2
  <2>2. FitsTables(req)
    BY <1>1 DEF WalkOnPath
  <2> QED
    BY <1>1, <1>2, <2>1, <2>2, SamePaths DEF FitsTables
<1> QED
  BY <1>1, <1>2, <1>6, <1>7 DEF WalkOnPath

\* Above a table on a path there are only entries that lead on.
LEMMA TablesAbove ==
    ASSUME NEW v \in Pages, NEW n \in 0..3, TableAt(v, n) # NoTable
    PROVE  \A j \in 0..3 : j < n =>
              TableAt(v, j) # NoTable /\ EntryAt(v, j).p /\ ~EntryAt(v, j).ps
<1> DEFINE Leads(j) == TableAt(v, j) # NoTable /\ EntryAt(v, j).p /\ ~EntryAt(v, j).ps
<1>1. ASSUME NEW j \in 0..2, TableAt(v, j + 1) # NoTable PROVE Leads(j)
  BY <1>1, PathByLevel DEF PathSteps
<1>2. /\ n = 3 => Leads(2)
      /\ n = 2 \/ Leads(2) => Leads(1)
      /\ n = 1 \/ Leads(1) => Leads(0)
  <2>1. TableAt(v, 2 + 1) # NoTable => Leads(2)
    BY <1>1
  <2>2. TableAt(v, 1 + 1) # NoTable => Leads(1)
    BY <1>1
  <2>3. TableAt(v, 0 + 1) # NoTable => Leads(0)
    BY <1>1
  <2> QED
    BY <2>1, <2>2, <2>3
<1> HIDE DEF Leads
<1>3. \A j \in 0..3 : j < n => Leads(j)
  <2>1. \A j \in 0..3 : j < n => \/ n = 3 /\ j \in {0, 1, 2}
                                 \/ n = 2 /\ j \in {0, 1}
                                 \/ n = 1 /\ j = 0
    OBVIOUS
  <2> QED
    BY <1>2, <2>1
<1> QED
  BY <1>3 DEF Leads

\* What the walk of a page sees below a new table: nothing.
LEMMA NewTableIsEmpty ==
    ASSUME TypeOK, RootBeforeWalk, Tree, WalkOnPath, NEW f \in Frames, NewTable(f),
           NEW n \in 0..3, n = i,
           NEW v \in Pages, TableAt(v, n) = table, Index(v, n) = Slot
    PROVE  /\ n \in 0..2 /\ TableAt(v, n + 1)' = f
           /\ \A j \in 1..n : ~EndsOn(Path(v), v, j)
           /\ \A j \in 1..3 : ~EndsOn(Path(v), v, j)'
<1>0. Reached
  BY PathsReachTables DEF Tree
<1> DEFINE e == [p |-> TRUE, rw |-> TRUE, ps |-> FALSE, frame |-> f]
<1>1. /\ pc = "walk" /\ i < req.end /\ root' = root /\ ~Current.p
      /\ mem' = [mem EXCEPT ![table][Slot] = e]
  BY DEF NewTable, Link
<1>2. PICK t \in Frames, k \in 0..(Fan - 1) :
         t = table /\ k = Slot /\ level[t] = n /\ n \in 0..2 /\ t # NoTable
  BY <1>0, <1>1, WalkStands
<1>3. f # t /\ mem'[f] = ZeroPage
  BY <1>2, NewTableKeepsTree
<1>e. e.p /\ ~e.ps /\ e.frame = f
  OBVIOUS
<1> HIDE DEF e
<1>4. mem' = [mem EXCEPT ![t][k] = e] /\ mem'[t][k] = e /\ ~mem[t][k].p
  BY <1>1, <1>2 DEF TypeOK, Content, Current
<1>p. PathSteps /\ PathSteps' /\ EndsByLevel /\ EndsByLevel'
  BY PathByLevel, EndsAreByLevel, PTL
<1>5. /\ \A j \in 0..n : TableAt(v, j)' = TableAt(v, j)
      /\ \A j \in 0..3 : j < n /\ TableAt(v, j) # NoTable
                            => EntryAt(v, j)' = EntryAt(v, j)
  <2>1. level[t] \in 0..3
    BY <1>2
  <2>2. root' = root /\ mem' = [mem EXCEPT ![t][k] = e]
    BY <1>1, <1>4
  <2>3. /\ \A j \in 0..level[t] : TableAt(v, j)' = TableAt(v, j)
        /\ \A j \in 0..3 : j < level[t] /\ TableAt(v, j) # NoTable
                              => EntryAt(v, j)' = EntryAt(v, j)
    BY <1>0, <2>1, <2>2, PathAbove
  <2> QED
    BY <1>2, <2>3
<1>6. \A j \in 0..3 : j < n => TableAt(v, j) # NoTable /\ ~EntryAt(v, j).ps
  BY <1>2, TablesAbove
<1>7. TableAt(v, n)' = t /\ EntryAt(v, n)' = e
  <2>1. TableAt(v, n)' = t /\ Index(v, n) = k
    BY <1>2, <1>5
  <2> QED
    BY <1>4, <2>1 DEF EntryAt
<1>8. TableAt(v, n + 1)' = f
  BY <1>2, <1>7, <1>e, <1>p DEF PathSteps
<1>9. \A j \in 1..n : ~EndsOn(Path(v), v, j)
  <2> SUFFICES ASSUME NEW j \in 1..n PROVE ~EndsOn(Path(v), v, j)
    OBVIOUS
  <2>1. j \in 1..3 /\ j # 3 /\ (j < n \/ j = n)
    BY <1>2
  <2>2. CASE j < n
    BY <1>6, <1>p, <2>1, <2>2 DEF EndsByLevel
  <2>3. CASE j = n
    BY <1>2, <1>4, <1>p, <2>1, <2>3 DEF EndsByLevel, EntryAt
  <2> QED
    BY <2>1, <2>2, <2>3
<1>10. \A j \in 1..3 : ~EndsOn(Path(v), v, j)'
  <2>1. ~EntryAt(v, n + 1)'.p
    <3>1. Index(v, n + 1) \in 0..(Fan - 1)
      BY <1>2, IndexInTable
    <3> QED
      BY <1>3, <1>8, <3>1, ZeroPageEntries DEF EntryAt
  <2>2. \A j \in 0..3 : j > n + 1 => TableAt(v, j)' = NoTable
    <3>1. ASSUME n + 1 \in 0..2 PROVE TableAt(v, n + 2)' = NoTable
      <4>1. TableAt(v, (n + 1) + 1)' = NoTable
        BY <1>p, <2>1, <3>1 DEF PathSteps
      <4>2. (n + 1) + 1 = n + 2
        OBVIOUS
      <4> QED
        BY <4>1, <4>2
    <3>2. ASSUME n + 2 \in 0..2 PROVE TableAt(v, n + 3)' = NoTable
      <4>1. TableAt(v, (n + 2) + 1)' = NoTable
        BY <1>p, <3>1, <3>2 DEF PathSteps
      <4>2. (n + 2) + 1 = n + 3
        OBVIOUS
      <4> QED
        BY <4>1, <4>2
    <3>3. \A j \in 0..3 : j > n + 1 => \/ j = n + 2 /\ n + 1 \in 0..2
                                       \/ j = n + 3 /\ n + 2 \in 0..2
      OBVIOUS
    <3> QED
      BY <3>1, <3>2, <3>3
  <2> SUFFICES ASSUME NEW j \in 1..3 PROVE ~EndsOn(Path(v), v, j)'
    OBVIOUS
  <2>3. EndsOn(Path(v), v, j)' <=> /\ TableAt(v, j)' # NoTable /\ EntryAt(v, j)'.p
                                   /\ j = 3 \/ EntryAt(v, j)'.ps
    BY <1>p DEF EndsByLevel
  <2>4. CASE j < n
    BY <1>2, <1>5, <1>6, <2>3, <2>4
  <2>5. CASE j = n
    BY <1>2, <1>7, <1>e, <2>3, <2>5
  <2>6. CASE j = n + 1
    BY <2>1, <2>3, <2>6
  <2>7. CASE j > n + 1
    BY <2>2, <2>3, <2>7
  <2> QED
    BY <2>4, <2>5, <2>6, <2>7
<1> QED
  BY <1>2, <1>8, <1>9, <1>10

LEMMA NewTableStaysOnPath ==
    ASSUME TypeOK, RootBeforeWalk, Tree, WalkOnPath, NEW f \in Frames, NewTable(f)
    PROVE  WalkOnPath'
<1>0. Reached
  BY PathsReachTables DEF Tree
<1>1. pc = "walk" /\ i < req.end /\ i' = i + 1 /\ req' = req /\ table' = f
  BY DEF NewTable, Link
<1>2. PICK n \in 0..3, r \in Requests, v \in Pages :
         /\ n = i /\ r = req /\ v = r.va /\ r.end \in 1..3
         /\ TableAt(v, n) = table /\ Index(v, n) = Slot
  BY <1>0, <1>1, WalkStands
<1>3. /\ TableAt(v, n + 1)' = f /\ n \in 0..2
      /\ \A j \in 1..3 : ~EndsOn(Path(v), v, j)'
  BY <1>2, NewTableIsEmpty
<1>4. TableAt(req.va, i)' = f
  BY <1>1, <1>2, <1>3
<1>5. FitsTables(req)'
  <2>1. \A j \in 1..(r.end - 1) : j \in 1..3
    BY <1>2
  <2>2. \A j \in 1..(r.end - 1) : ~EndsOn(Path(v), v, j)'
    BY <1>3, <2>1
  <2> QED
    BY <1>1, <1>2, <2>2 DEF FitsTables
<1>6. i' <= req'.end
  BY <1>1, <1>2, <1>3
<1> QED
  BY <1>1, <1>4, <1>5, <1>6 DEF WalkOnPath

LEMMA InitIsTree ==
    ASSUME Init, \A f \in free : mem[f] = ZeroPage
    PROVE  Tree
<1>1. \A f \in Frames : level[f] = -1
  BY DEF Init
<1>2. TablesOwned /\ RootIsTable
  BY <1>1 DEF Init, TablesOwned, RootIsTable
<1>c. FreePagesClean
  BY DEF FreePagesClean
<1>3. LinksGoDown /\ LinksDistinct /\ RootHasNoLeaf
  BY <1>1 DEF Init, LinksGoDown, LinksDistinct, RootHasNoLeaf, IsLink
<1> QED
  BY <1>2, <1>3, <1>c DEF Tree

LEMMA InitTree == Init /\ ListStartsClean => Tree /\ WalkOnPath
<1> SUFFICES ASSUME Init, ListStartsClean PROVE Tree /\ WalkOnPath
  OBVIOUS
<1>1. \A f \in free : mem[f] = ZeroPage
  BY DEF Init, ListStartsClean
<1> QED
  BY <1>1, InitIsTree DEF Init, WalkOnPath

LEMMA NextInv == CleanMachine /\ IInv /\ [Next]_vars => IInv'
<1> SUFFICES ASSUME CleanMachine, IInv, [Next]_vars PROVE Tree' /\ WalkOnPath'
  BY NextTypes DEF IInv
<1>0. TypeOK /\ RootBeforeWalk /\ Tree /\ WalkOnPath
  BY DEF IInv
<1>1. ASSUME NEW f \in Frames, SsPagingInit(f) PROVE Tree' /\ WalkOnPath'
  <2>1. pc' = "idle"
    BY <1>1 DEF SsPagingInit, SetRoot
  <2> QED
    BY <1>0, <1>1, <2>1, SetRootKeepsTree DEF WalkOnPath
<1>2. ASSUME NEW f \in Frames, NewTable(f) PROVE Tree' /\ WalkOnPath'
  BY <1>0, <1>2, NewTableKeepsTree, NewTableStaysOnPath
<1>3. ASSUME NEW r \in Requests, Call(r) PROVE Tree' /\ WalkOnPath'
  <2>1. UNCHANGED <<mem, root, level>> /\ pc' = "walk" /\ held' = held /\ free' = free
    BY <1>3 DEF Call, store
  <2> QED
    BY <1>0, <1>3, <2>1, OtherStepsKeepTree, CallStaysOnPath
<1>4. CASE SsPagingInitFails
  <2>1. /\ UNCHANGED <<mem, root, level>> /\ pc' = "halt" /\ pc = "start"
        /\ held' = held /\ free' \subseteq free
    BY <1>4, FailKeepsOwners DEF SsPagingInitFails
  <2>2. root = NoTable
    BY <1>0, <2>1 DEF Tree, RootIsTable
  <2> QED
    BY <1>0, <2>1, <2>2, OtherStepsKeepTree DEF WalkOnPath
<1>5. CASE NoMemory
  <2>1. /\ UNCHANGED <<mem, root, level>> /\ pc' = "idle"
        /\ held' = held /\ free' \subseteq free
    BY <1>5, FailKeepsOwners DEF NoMemory
  <2> QED
    BY <1>0, <2>1, OtherStepsKeepTree DEF WalkOnPath
<1>6. CASE Descend
  <2>1. UNCHANGED <<mem, root, level>> /\ pc' = "walk" /\ held' = held /\ free' = free
    BY <1>6 DEF Descend, store
  <2> QED
    BY <1>0, <1>6, <2>1, OtherStepsKeepTree, DescendStaysOnPath
<1>7. CASE WriteLeaf
  <2>1. pc' = "idle"
    BY <1>7 DEF WriteLeaf
  <2> QED
    BY <1>0, <1>7, <2>1, WriteLeafKeepsTree DEF WalkOnPath
<1>8. CASE UNCHANGED vars
  <2>1. /\ UNCHANGED <<mem, root, level, pc, i, table, req>>
        /\ held' = held /\ free' = free
    BY <1>8 DEF vars, store, walk
  <2>2. Tree'
    BY <1>0, <2>1, OtherStepsKeepTree DEF Tree, RootIsTable
  <2>3. PICK r \in Requests, n \in 0..3 : r = req /\ n = i
    BY <1>0 DEF TypeOK
  <2>4. TableAt(r.va, n)' = TableAt(r.va, n) /\ FitsTables(r)' = FitsTables(r)
    <3>1. r.va \in Pages /\ \A j \in 1..(r.end - 1) : j \in 0..3
      BY RequestTypes
    <3> QED
      BY <2>1, <3>1, SamePaths DEF FitsTables
  <2>5. WalkOnPath'
    BY <1>0, <2>1, <2>3, <2>4 DEF WalkOnPath
  <2> QED
    BY <2>2, <2>5
<1> QED
  BY <1>1, <1>2, <1>3, <1>4, <1>5, <1>6, <1>7, <1>8, NothingStale DEF Next, Paging

\* On a clean machine the tables are a tree in every reachable state.
THEOREM SpecInv ==
    ASSUME CleanMachine
    PROVE  Spec /\ ListStartsClean => []IInv
<1>1. Init /\ ListStartsClean => IInv
  BY InitTypes, InitTree DEF IInv
<1>2. IInv /\ [Next]_vars => IInv'
  BY NextInv
<1> QED
  BY <1>1, <1>2, PTL DEF Spec

\* On zeroed pages the processor, walking from the PML4, reads no frame that the
\* loader did not make a table of that level (pagemanager.h 216-277).
THEOREM OwnTablesAreReached ==
    ASSUME CleanMachine
    PROVE  Spec /\ ListStartsClean => []ReachesOwnTables
<1>1. IInv => ReachesOwnTables
  BY PathsReachTables DEF IInv, Tree, Reached, ReachesOwnTables
<1> QED
  BY <1>1, SpecInv, PTL

\* What UefiMapTables writes for one page is seen by no other: no two paths of the
\* walk share a table, and no table serves two levels (pagemanager.h 256-275).
THEOREM TablesBelongToOnePath ==
    ASSUME CleanMachine
    PROVE  Spec /\ ListStartsClean => []NoSharedTable
<1>1. IInv => NoSharedTable
  <2> SUFFICES ASSUME IInv PROVE NoSharedTable
    OBVIOUS
  <2>1. TypeOK /\ LinksDistinct /\ Reached
    BY PathsReachTables DEF IInv, Tree
  <2> DEFINE Part(v, j) == IF j = 0 THEN 0 ELSE v \div Span(j - 1)
  <2>2. ASSUME NEW v \in Pages, NEW w \in Pages, NEW j \in 0..3, NEW l \in 0..3,
               TableAt(v, j) = TableAt(w, l), TableAt(v, j) # NoTable
        PROVE  j = l /\ Part(v, j) = Part(w, l)
    <3>1. j = l
      BY <2>1, <2>2 DEF Reached
    <3>2. CASE j = 0
      BY <3>1, <3>2
    <3>3. CASE j # 0
      <4>1. v \div Span(j - 1) = w \div Span(j - 1)
        BY <2>1, <2>2, <3>1, <3>3, TablesAreNotShared
      <4> QED
        BY <3>1, <3>3, <4>1
    <3> QED
      BY <3>1, <3>2, <3>3
  <2> DEFINE Visits == {<<TableAt(v, j), j, Part(v, j)>> : v \in Pages, j \in 0..3}
  <2>3. SUFFICES \A a, b \in Visits : (a[1] = b[1] /\ a[1] # NoTable) => a = b
    BY DEF NoSharedTable
  <2> HIDE DEF Part
  <2>4. ASSUME NEW a \in Visits, NEW b \in Visits, a[1] = b[1], a[1] # NoTable
        PROVE  a = b
    <3>1. PICK v \in Pages, j \in 0..3 : a = <<TableAt(v, j), j, Part(v, j)>>
      BY <2>4
    <3>2. PICK w \in Pages, l \in 0..3 : b = <<TableAt(w, l), l, Part(w, l)>>
      BY <2>4
    <3> QED
      BY <2>2, <2>4, <3>1, <3>2
  <2> QED
    BY <2>4
<1> QED
  BY <1>1, SpecInv, PTL

\* The paging code writes to no frame but its own tables: a page of data or of
\* firmware keeps its content (pagemanager.h 227, 269, 275).
THEOREM OnlyTablesAreWritten ==
    ASSUME CleanMachine
    PROVE  Spec /\ ListStartsClean => WritesOwnTables
<1>1. ASSUME IInv, [Next]_vars
      PROVE  \A f \in Frames : mem'[f] # mem[f] => level'[f] # -1
  <2> SUFFICES ASSUME NEW f \in Frames, mem'[f] # mem[f] PROVE level'[f] # -1
    OBVIOUS
  <2>0. TypeOK /\ RootBeforeWalk /\ Tree /\ WalkOnPath /\ Reached
    BY <1>1, PathsReachTables DEF IInv, Tree
  <2>1. ASSUME NEW g \in Frames, SsPagingInit(g) PROVE level'[f] # -1
    <3>1. mem' = [mem EXCEPT ![g] = ZeroPage] /\ level' = [level EXCEPT ![g] = 0]
      BY <2>1 DEF SsPagingInit, SetRoot
    <3>2. f = g
      BY <2>0, <3>1 DEF TypeOK
    <3> QED
      BY <2>0, <3>1, <3>2 DEF TypeOK
  <2>2. ASSUME NEW g \in Frames, NewTable(g) PROVE level'[f] # -1
    <3>1. level' = [level EXCEPT ![g] = i + 1] /\ pc = "walk"
          /\ \A h \in Frames : h # table => mem'[h] = mem[h]
      BY <2>0, <2>2 DEF NewTable, Link, TypeOK
    <3>2. level[table] = i /\ i \in 0..3 /\ g # table /\ f = table
      BY <2>0, <2>2, <3>1, WalkStands, NewTableKeepsTree
    <3> QED
      BY <2>0, <3>1, <3>2 DEF TypeOK
  <2>3. CASE WriteLeaf
    <3>1. level' = level /\ pc = "walk" /\ \A h \in Frames : h # table => mem'[h] = mem[h]
      BY <2>0, <2>3 DEF WriteLeaf, TypeOK
    <3>2. level[table] = i /\ i \in 0..3 /\ f = table
      BY <2>0, <3>1, WalkStands
    <3> QED
      BY <3>1, <3>2
  <2>4. CASE UNCHANGED mem
    BY <2>4
  <2> QED
    BY <1>1, <2>1, <2>2, <2>3, <2>4, NothingStale
    DEF Next, Paging, Descend, NoMemory, SsPagingInitFails, Call, vars
<1> QED
  BY <1>1, SpecInv, PTL DEF Spec, WritesOwnTables

-----------------------------------------------------------------------------
(* The tables implement AddressSpace. *)

\* A walk stops at one level at most.
LEMMA EndsOnce ==
    ASSUME NEW v \in Pages, NEW j \in 1..3, NEW l \in 1..3,
           EndsOn(Path(v), v, j), EndsOn(Path(v), v, l)
    PROVE  j = l
<1>1. ASSUME NEW a \in 1..3, NEW b \in 1..3, a < b,
             EndsOn(Path(v), v, a), EndsOn(Path(v), v, b)
      PROVE  FALSE
  <2>1. /\ TableAt(v, b) # NoTable /\ EntryAt(v, a).ps /\ a \in 0..2
    BY <1>1, EndsAreByLevel DEF EndsByLevel
  <2>2. TableAt(v, a + 1) = NoTable
    BY <2>1, PathByLevel DEF PathSteps
  <2>3. ASSUME NEW c \in 0..2, TableAt(v, c) = NoTable PROVE TableAt(v, c + 1) = NoTable
    BY <2>3, PathByLevel DEF PathSteps
  <2>4. TableAt(v, 3) = NoTable /\ (a = 1 => TableAt(v, 2) = NoTable)
    <3>1. CASE a = 1
      <4>1. TableAt(v, 2) = NoTable
        <5>1. 1 + 1 = 2
          OBVIOUS
        <5> QED
          BY <2>2, <3>1, <5>1
      <4>2. TableAt(v, 2 + 1) = NoTable
        BY <2>3, <4>1
      <4> QED
        BY <4>1, <4>2
    <3>2. CASE a = 2
      <4>1. 2 + 1 = 3
        OBVIOUS
      <4> QED
        BY <2>2, <3>2, <4>1
    <3> QED
      BY <2>1, <1>1, <3>1, <3>2
  <2> QED
    BY <1>1, <2>1, <2>4
<1>2. j < l \/ l < j \/ j = l
  OBVIOUS
<1> QED
  BY <1>1, <1>2

\* What the processor finds for page v when its walk ends at level j, and when it
\* ends nowhere.
WalksEnd ==
    \A v \in Pages :
        /\ \A j \in 1..3 : EndsOn(Path(v), v, j) =>
              HwWalk(v) = [mapped |-> TRUE,
                           frame  |-> EntryAt(v, j).frame + Low(v, j),
                           rw     |-> \A l \in 0..j : EntryAt(v, l).rw]
        /\ (\A j \in 1..3 : ~EndsOn(Path(v), v, j)) => HwWalk(v) = Unmapped

LEMMA WalksAre == WalksEnd
<1> SUFFICES ASSUME NEW v \in Pages
             PROVE  /\ \A j \in 1..3 : EndsOn(Path(v), v, j) =>
                         HwWalk(v) = [mapped |-> TRUE,
                                      frame  |-> EntryAt(v, j).frame + Low(v, j),
                                      rw     |-> \A l \in 0..j : EntryAt(v, l).rw]
                    /\ (\A j \in 1..3 : ~EndsOn(Path(v), v, j)) => HwWalk(v) = Unmapped
  BY DEF WalksEnd
<1>e. \A j \in 0..3 : EntryOn(Path(v), v, j) = EntryAt(v, j)
  BY DEF EntryOn, EntryAt, TableAt
<1> DEFINE ends == {j \in 1..3 : EndsOn(Path(v), v, j)}
<1> DEFINE last == CHOOSE j \in ends : TRUE
<1>1. HwWalk(v) = IF ends = {} THEN Unmapped
                  ELSE [mapped |-> TRUE,
                        frame  |-> EntryOn(Path(v), v, last).frame + Low(v, last),
                        rw     |-> \A l \in 0..last : EntryOn(Path(v), v, l).rw]
  BY DEF HwWalk
<1>2. ASSUME NEW j \in 1..3, EndsOn(Path(v), v, j)
      PROVE  HwWalk(v) = [mapped |-> TRUE,
                          frame  |-> EntryAt(v, j).frame + Low(v, j),
                          rw     |-> \A l \in 0..j : EntryAt(v, l).rw]
  <2>1. j \in ends
    BY <1>2
  <2>2. last \in ends
    BY <2>1
  <2>3. last = j
    BY <1>2, <2>2, EndsOnce
  <2> HIDE DEF last, ends
  <2>4. HwWalk(v) = [mapped |-> TRUE,
                     frame  |-> EntryOn(Path(v), v, j).frame + Low(v, j),
                     rw     |-> \A l \in 0..j : EntryOn(Path(v), v, l).rw]
    BY <1>1, <2>1, <2>3
  <2>5. EntryOn(Path(v), v, j) = EntryAt(v, j)
    BY <1>e
  <2>6. (\A l \in 0..j : EntryOn(Path(v), v, l).rw) = (\A l \in 0..j : EntryAt(v, l).rw)
    <3>1. \A l \in 0..j : EntryOn(Path(v), v, l) = EntryAt(v, l)
      BY <1>e
    <3> QED
      BY <3>1
  <2> QED
    BY <2>4, <2>5, <2>6
<1>3. ASSUME \A j \in 1..3 : ~EndsOn(Path(v), v, j) PROVE HwWalk(v) = Unmapped
  <2>1. ends = {}
    BY <1>3
  <2> HIDE DEF last, ends
  <2> QED
    BY <1>1, <2>1
<1> QED
  BY <1>2, <1>3

\* The translation of a page whose tables and entries a step keeps is kept.
LEMMA WalkKept ==
    ASSUME NEW v \in Pages,
           \A j \in 0..3 : /\ TableAt(v, j)' = TableAt(v, j)
                           /\ TableAt(v, j) # NoTable => EntryAt(v, j)' = EntryAt(v, j)
    PROVE  HwWalk(v)' = HwWalk(v)
<1>p. WalksEnd /\ WalksEnd' /\ EndsByLevel /\ EndsByLevel'
  BY WalksAre, EndsAreByLevel, PTL
<1>1. \A j \in 1..3 : EndsOn(Path(v), v, j)' <=> EndsOn(Path(v), v, j)
  BY <1>p DEF EndsByLevel
<1>2. ASSUME NEW j \in 1..3, EndsOn(Path(v), v, j) PROVE HwWalk(v)' = HwWalk(v)
  <2>1. TableAt(v, j) # NoTable
    BY <1>2, <1>p DEF EndsByLevel
  <2>2. \A l \in 0..3 : l < j => TableAt(v, l) # NoTable
    BY <2>1, TablesAbove
  <2>3. \A l \in 0..j : EntryAt(v, l)' = EntryAt(v, l)
    BY <2>1, <2>2
  <2>4. (\A l \in 0..j : EntryAt(v, l)'.rw) = (\A l \in 0..j : EntryAt(v, l).rw)
    BY <2>3
  <2>5. EntryAt(v, j)' = EntryAt(v, j)
    BY <2>3
  <2>6. HwWalk(v) = [mapped |-> TRUE, frame |-> EntryAt(v, j).frame + Low(v, j),
                     rw |-> \A l \in 0..j : EntryAt(v, l).rw]
    BY <1>2, <1>p DEF WalksEnd
  <2>7. HwWalk(v)' = [mapped |-> TRUE, frame |-> EntryAt(v, j)'.frame + Low(v, j),
                      rw |-> \A l \in 0..j : EntryAt(v, l)'.rw]
    BY <1>1, <1>2, <1>p DEF WalksEnd
  <2> QED
    BY <2>4, <2>5, <2>6, <2>7
<1>3. ASSUME \A j \in 1..3 : ~EndsOn(Path(v), v, j) PROVE HwWalk(v)' = HwWalk(v)
  <2>1. HwWalk(v) = Unmapped
    BY <1>3, <1>p DEF WalksEnd
  <2>2. HwWalk(v)' = Unmapped
    BY <1>1, <1>3, <1>p DEF WalksEnd
  <2> QED
    BY <2>1, <2>2
<1> QED
  BY <1>2, <1>3

\* Without a PML4 nothing is mapped.
LEMMA NoRootMapsNothing ==
    ASSUME root = NoTable, NEW v \in Pages
    PROVE  HwWalk(v) = Unmapped
<1>1. \A j \in 1..3 : TableAt(v, j) = NoTable
  <2>1. ~(TableAt(v, 1) # NoTable) /\ ~(TableAt(v, 2) # NoTable)
        /\ ~(TableAt(v, 3) # NoTable)
    <3>1. TableAt(v, 0) = NoTable
      BY PathByLevel DEF PathSteps
    <3>2. \A n \in 1..3 : ~(TableAt(v, n) # NoTable)
      <4>1. SUFFICES ASSUME NEW n \in 1..3, TableAt(v, n) # NoTable PROVE FALSE
        OBVIOUS
      <4>2. TableAt(v, 0) # NoTable
        BY <4>1, TablesAbove
      <4> QED
        BY <3>1, <4>2
    <3> QED
      BY <3>2
  <2> QED
    BY <2>1
<1>2. \A j \in 1..3 : ~EndsOn(Path(v), v, j)
  BY <1>1, EndsAreByLevel DEF EndsByLevel
<1> QED
  BY <1>2, WalksAre DEF WalksEnd

LEMMA SetRootMapsNothing ==
    ASSUME TypeOK, Tree, NEW f \in Frames, SsPagingInit(f), NEW v \in Pages
    PROVE  HwWalk(v)' = HwWalk(v)
<1>1. root = NoTable
  BY DEF SsPagingInit, SetRoot, Tree, RootIsTable
<1>2. HwWalk(v) = Unmapped
  BY <1>1, NoRootMapsNothing
<1>3. root' = f /\ mem'[f] = ZeroPage
  BY DEF SsPagingInit, SetRoot, TypeOK
<1>p. WalksEnd' /\ EndsByLevel' /\ PathSteps'
  BY WalksAre, EndsAreByLevel, PathByLevel, PTL
<1>4. TableAt(v, 0)' = f /\ ~EntryAt(v, 0)'.p
  <2>1. TableAt(v, 0)' = f /\ Index(v, 0) \in 0..(Fan - 1)
    BY <1>3, <1>p, IndexInTable DEF PathSteps
  <2> QED
    BY <1>3, <2>1, ZeroPageEntries DEF EntryAt
<1>5. \A j \in 1..3 : TableAt(v, j)' = NoTable
  <2>1. TableAt(v, 0 + 1)' = NoTable
    BY <1>4, <1>p DEF PathSteps
  <2>2. TableAt(v, 1 + 1)' = NoTable
    BY <2>1, <1>p DEF PathSteps
  <2>3. TableAt(v, 2 + 1)' = NoTable
    BY <2>2, <1>p DEF PathSteps
  <2> QED
    BY <2>1, <2>2, <2>3
<1>6. \A j \in 1..3 : ~EndsOn(Path(v), v, j)'
  BY <1>5, <1>p DEF EndsByLevel
<1> QED
  BY <1>2, <1>6, <1>p DEF WalksEnd

\* A new table changes no translation.
LEMMA NewTableMapsNothing ==
    ASSUME TypeOK, RootBeforeWalk, Tree, WalkOnPath, NEW f \in Frames, NewTable(f),
           NEW v \in Pages
    PROVE  HwWalk(v)' = HwWalk(v)
<1>0. Reached
  BY PathsReachTables DEF Tree
<1> DEFINE e == [p |-> TRUE, rw |-> TRUE, ps |-> FALSE, frame |-> f]
<1>1. /\ pc = "walk" /\ i < req.end /\ root' = root
      /\ mem' = [mem EXCEPT ![table][Slot] = e]
  BY DEF NewTable, Link
<1>2. PICK t \in Frames, k \in 0..(Fan - 1), n \in 0..2 :
         t = table /\ k = Slot /\ n = i /\ level[t] = n /\ t # NoTable
  BY <1>0, <1>1, WalkStands
<1> HIDE DEF e
<1>3. CASE TableAt(v, n) = t /\ Index(v, n) = k
  <2>1. /\ \A j \in 1..n : ~EndsOn(Path(v), v, j)
        /\ \A j \in 1..3 : ~EndsOn(Path(v), v, j)'
    BY <1>2, <1>3, NewTableIsEmpty
  <2>2. HwWalk(v)' = Unmapped
    <3>1. WalksEnd'
      BY WalksAre, PTL
    <3> QED
      BY <2>1, <3>1 DEF WalksEnd
  <2>3. ~EntryAt(v, n).p
    BY <1>2, <1>3 DEF NewTable, Link, Current, EntryAt
  <2>4. \A j \in 1..3 : ~EndsOn(Path(v), v, j)
    <3> SUFFICES ASSUME NEW j \in 1..3, EndsOn(Path(v), v, j) PROVE FALSE
      OBVIOUS
    <3>1. TableAt(v, j) # NoTable /\ EntryAt(v, j).p
      BY EndsAreByLevel DEF EndsByLevel
    <3>2. j > n
      BY <2>1
    <3>3. EntryAt(v, n).p
      BY <3>1, <3>2, TablesAbove
    <3> QED
      BY <2>3, <3>3
  <2> QED
    BY <2>2, <2>4, WalksAre DEF WalksEnd
<1>4. CASE ~(TableAt(v, n) = t /\ Index(v, n) = k)
  <2>1. /\ mem' = [mem EXCEPT ![t][k] = e] /\ root' = root /\ level[t] \in 0..3
        /\ ~(TableAt(v, level[t]) = t /\ Index(v, level[t]) = k)
    BY <1>1, <1>2, <1>4
  <2>2. \A j \in 0..3 : /\ TableAt(v, j)' = TableAt(v, j)
                        /\ TableAt(v, j) # NoTable => EntryAt(v, j)' = EntryAt(v, j)
    BY <1>0, <2>1, PathBeside
  <2> QED
    BY <2>2, WalkKept
<1> QED
  BY <1>3, <1>4

\* The leaf entry translates the pages of its region to the frames asked for, and
\* no other page.
LEMMA LeafMapsItsRegion ==
    ASSUME TypeOK, RootBeforeWalk, Tree, WalkOnPath, WriteLeaf, NEW v \in Pages
    PROVE  HwWalk(v)' = IF Covers(req.va, req.end, v)
                        THEN [mapped |-> TRUE,
                              frame  |-> req.pa + Low(v, req.end),
                              rw     |-> req.rw]
                        ELSE HwWalk(v)
<1>0. Reached
  BY PathsReachTables DEF Tree
<1>1. /\ pc = "walk" /\ i = req.end /\ root' = root
      /\ mem' = [mem EXCEPT ![table][Slot] =
                   [p |-> TRUE, rw |-> req.rw, ps |-> req.end < 3, frame |-> req.pa]]
  BY DEF WriteLeaf
<1>2. PICK r \in Requests, w \in Pages, t \in Frames, k \in 0..(Fan - 1), n \in 1..3 :
         /\ r = req /\ w = r.va /\ t = table /\ k = Slot /\ n = r.end /\ level[t] = n
         /\ t # NoTable /\ TableAt(w, n) = t /\ Index(w, n) = k
  BY <1>0, <1>1, WalkStands
<1> DEFINE e == [p |-> TRUE, rw |-> r.rw, ps |-> r.end < 3, frame |-> r.pa]
<1>3. mem' = [mem EXCEPT ![t][k] = e] /\ root' = root /\ level[t] \in 0..3
  BY <1>1, <1>2
<1>e. e.p /\ e.rw = r.rw /\ (n = 3 \/ e.ps) /\ e.frame = r.pa /\ r.rw \in BOOLEAN
  <2>1. e.p /\ e.rw = r.rw /\ e.frame = r.pa /\ (r.end < 3 => e.ps)
    OBVIOUS
  <2>2. n = 3 \/ r.end < 3
    BY <1>2
  <2>3. r.rw \in BOOLEAN
    BY RequestTypes
  <2> HIDE DEF e
  <2> QED
    BY <2>1, <2>2, <2>3
<1> HIDE DEF e
<1>4. CASE Covers(w, n, v)
  <2>1. \A j \in 0..n : Index(v, j) = Index(w, j) /\ TableAt(v, j) = TableAt(w, j)
    <3>1. v \div Span(n) = w \div Span(n)
      BY <1>4 DEF Covers
    <3> QED
      BY <3>1, PathsAgree
  <2>2. TableAt(v, n) = t /\ Index(v, n) = k
    BY <1>2, <2>1
  <2>3. /\ \A j \in 0..n : TableAt(v, j)' = TableAt(v, j)
        /\ \A j \in 0..3 : j < n /\ TableAt(v, j) # NoTable
                              => EntryAt(v, j)' = EntryAt(v, j)
    <3>1. /\ \A j \in 0..level[t] : TableAt(v, j)' = TableAt(v, j)
          /\ \A j \in 0..3 : j < level[t] /\ TableAt(v, j) # NoTable
                                => EntryAt(v, j)' = EntryAt(v, j)
      BY <1>0, <1>3, PathAbove
    <3> QED
      BY <1>2, <3>1
  <2>4. TableAt(v, n)' = t /\ EntryAt(v, n)' = e
    <3>1. TableAt(v, n)' = t
      BY <2>2, <2>3
    <3>2. mem'[t][k] = e
      BY <1>3 DEF TypeOK, Content
    <3> QED
      BY <2>2, <3>1, <3>2 DEF EntryAt
  <2>5. EndsOn(Path(v), v, n)'
    <3>1. EndsByLevel'
      BY EndsAreByLevel, PTL
    <3> QED
      BY <1>2, <1>e, <2>4, <3>1 DEF EndsByLevel
  <2>6. \A l \in 0..n : l < n => EntryAt(v, l)'.rw
    <3> SUFFICES ASSUME NEW l \in 0..n, l < n PROVE EntryAt(v, l)'.rw
      OBVIOUS
    <3>1. TableAt(v, n) # NoTable /\ l \in 0..2
      BY <1>2, <2>2
    <3>2. TableAt(v, l) # NoTable /\ EntryAt(v, l).p /\ ~EntryAt(v, l).ps
      BY <3>1, TablesAbove
    <3>3. /\ TableAt(v, l) \in Frames /\ level[TableAt(v, l)] = l
          /\ Index(v, l) \in 0..(Fan - 1)
      BY <1>0, <3>1, <3>2, IndexInTable DEF Reached
    <3>4. IsLink(TableAt(v, l), Index(v, l))
      BY <3>1, <3>2, <3>3 DEF IsLink, EntryAt
    <3>5. EntryAt(v, l).rw
      BY <3>3, <3>4 DEF Tree, LinksGoDown, EntryAt
    <3> QED
      BY <2>3, <3>2, <3>1, <3>5
  <2>7. (\A l \in 0..n : EntryAt(v, l)'.rw) = r.rw
    <3>1. \A l \in 0..n : l < n \/ l = n
      OBVIOUS
    <3>2. n \in 0..n
      OBVIOUS
    <3>3. EntryAt(v, n)'.rw = r.rw
      BY <1>e, <2>4
    <3> QED
      BY <1>e, <2>6, <3>1, <3>2, <3>3
  <2>8. HwWalk(v)' = [mapped |-> TRUE, frame |-> EntryAt(v, n)'.frame + Low(v, n),
                      rw |-> \A l \in 0..n : EntryAt(v, l)'.rw]
    <3>1. WalksEnd'
      BY WalksAre, PTL
    <3> QED
      BY <2>5, <3>1 DEF WalksEnd
  <2>9. HwWalk(v)' = [mapped |-> TRUE, frame |-> r.pa + Low(v, n), rw |-> r.rw]
    BY <1>e, <2>4, <2>7, <2>8
  <2> QED
    BY <1>2, <1>4, <2>9
<1>5. CASE ~Covers(w, n, v)
  <2>1. ~(TableAt(v, n) = t /\ Index(v, n) = k)
    <3> SUFFICES ASSUME TableAt(v, n) = t, Index(v, n) = k PROVE FALSE
      OBVIOUS
    <3>1. v \div Span(n - 1) = w \div Span(n - 1)
      <4>1. TableAt(v, n) # NoTable /\ TableAt(v, n) = TableAt(w, n)
        BY <1>2
      <4> QED
        BY <1>0, <4>1, TablesAreNotShared DEF Tree
    <3>2. /\ v \div Span(n) = Fan * (v \div Span(n - 1)) + Index(v, n)
          /\ w \div Span(n) = Fan * (w \div Span(n - 1)) + Index(w, n)
      BY PartIsDigits
    <3>3. v \div Span(n) = w \div Span(n)
      BY <1>2, <3>1, <3>2
    <3> QED
      BY <1>5, <3>3 DEF Covers
  <2>2. ~(TableAt(v, level[t]) = t /\ Index(v, level[t]) = k)
    BY <1>2, <2>1
  <2>3. \A j \in 0..3 : /\ TableAt(v, j)' = TableAt(v, j)
                        /\ TableAt(v, j) # NoTable => EntryAt(v, j)' = EntryAt(v, j)
    BY <1>0, <1>3, <2>2, PathBeside
  <2>4. HwWalk(v)' = HwWalk(v)
    BY <2>3, WalkKept
  <2> QED
    BY <1>2, <1>5, <2>4
<1> QED
  BY <1>4, <1>5

\* AddressSpace counts pages as PageTables does.
LEMMA SameGeometry ==
    /\ Flat!Pages = Pages
    /\ Flat!Unmapped = Unmapped
    /\ \A v, w, j : Flat!Covers(v, j, w) = Covers(v, j, w)
    /\ \A v, j : Flat!Low(v, j) = Low(v, j)
  BY DEF Flat!Pages, Pages, Flat!Span, Span, Flat!Unmapped, Unmapped,
         Flat!Covers, Covers, Flat!Low, Low

\* A step of the tables is a step of AddressSpace or none.
LEMMA StepsImplement ==
    ASSUME CleanMachine, IInv, [Next]_vars
    PROVE  [Flat!Next]_(Flat!vars)
<1>0. TypeOK /\ RootBeforeWalk /\ Tree /\ WalkOnPath
  BY DEF IInv
<1> DEFINE space == [v \in Pages |-> HwWalk(v)]
<1> DEFINE asked == IF pc = "walk" THEN {req} ELSE {}
<1>k. (\A v \in Pages : HwWalk(v)' = HwWalk(v)) => space' = space
  OBVIOUS
<1>m. UNCHANGED <<mem, root>> => space' = space
  BY SamePaths
<1>s. space' = space /\ asked' = asked /\ status' = status => [Flat!Next]_(Flat!vars)
  BY DEF Flat!vars
<1>1. ASSUME NEW f \in Frames, SsPagingInit(f) PROVE [Flat!Next]_(Flat!vars)
  <2>1. pc = "start" /\ pc' = "idle" /\ status' = status
    BY <1>1 DEF SsPagingInit, SetRoot
  <2>2. space' = space
    BY <1>0, <1>1, <1>k, SetRootMapsNothing
  <2> QED
    BY <1>s, <2>1, <2>2
<1>2. ASSUME NEW f \in Frames, NewTable(f) PROVE [Flat!Next]_(Flat!vars)
  <2>1. pc = "walk" /\ pc' = "walk" /\ req' = req /\ status' = status
    BY <1>2 DEF NewTable, Link
  <2>2. space' = space
    BY <1>0, <1>2, <1>k, NewTableMapsNothing
  <2> QED
    BY <1>s, <2>1, <2>2
<1>3. CASE Descend
  <2>1. pc = "walk" /\ pc' = "walk" /\ req' = req /\ status' = status
        /\ UNCHANGED <<mem, root>>
    BY <1>3 DEF Descend
  <2> QED
    BY <1>m, <1>s, <2>1
<1>4. CASE UNCHANGED vars
  <2>1. UNCHANGED <<mem, root, pc, req, status>>
    BY <1>4 DEF vars, walk
  <2> QED
    BY <1>m, <1>s, <2>1
<1>5. CASE SsPagingInitFails
  <2>1. /\ pc = "start" /\ pc' = "halt" /\ status' = "OUT_OF_RESOURCES"
        /\ UNCHANGED <<mem, root>>
    BY <1>5 DEF SsPagingInitFails
  <2>2. Flat!NoTables
    BY <1>m, <2>1 DEF Flat!NoTables
  <2> QED
    BY <2>2 DEF Flat!Next
<1>6. CASE NoMemory
  <2>1. /\ pc = "walk" /\ pc' = "idle" /\ status' = "OUT_OF_RESOURCES"
        /\ UNCHANGED <<mem, root>>
    BY <1>6 DEF NoMemory
  <2>2. Flat!Fail
    BY <1>m, <2>1 DEF Flat!Fail
  <2> QED
    BY <2>2 DEF Flat!Next
<1>7. ASSUME NEW r \in Requests, Call(r) PROVE [Flat!Next]_(Flat!vars)
  <2>1. /\ pc = "idle" /\ pc' = "walk" /\ req' = r /\ status' = status
        /\ UNCHANGED <<mem, root>>
    BY <1>7 DEF Call
  <2>2. Flat!Ask(r)
    BY <1>m, <2>1 DEF Flat!Ask
  <2> QED
    BY <2>2 DEF Flat!Next
<1>8. CASE WriteLeaf
  <2>1. pc = "walk" /\ pc' = "idle" /\ status' = "SUCCESS"
    BY <1>8 DEF WriteLeaf
  <2>2. PICK r \in Requests : r = req
    BY <1>0 DEF TypeOK
  <2>3. space' = [w \in Pages |->
                    IF Covers(r.va, r.end, w)
                    THEN [mapped |-> TRUE, frame |-> r.pa + Low(w, r.end), rw |-> r.rw]
                    ELSE space[w]]
    BY <1>0, <1>8, <2>2, LeafMapsItsRegion
  <2>4. Flat!Map(r)
    BY <2>1, <2>2, <2>3, SameGeometry DEF Flat!Map, Flat!Target
  <2> QED
    BY <2>4 DEF Flat!Next
<1> QED
  BY <1>1, <1>2, <1>3, <1>4, <1>5, <1>6, <1>7, <1>8, NothingStale DEF Next, Paging

\* On zeroed pages MapPage, MapLargePage and MapHugePage behave like assignments to
\* a function from pages to frames: EFI_SUCCESS means that exactly the region asked
\* for has been mapped, a failure that nothing has (pagemanager.h 232-338).
THEOREM TablesImplementAddressSpace ==
    ASSUME CleanMachine
    PROVE  Spec /\ ListStartsClean => ImplementsAddressSpace
<1>1. Init => Flat!Init
  <2> SUFFICES ASSUME Init PROVE Flat!Init
    OBVIOUS
  <2>1. root = NoTable /\ pc = "start" /\ status = "SUCCESS"
    BY DEF Init
  <2>2. [v \in Pages |-> HwWalk(v)] = [v \in Pages |-> Unmapped]
    BY <2>1, NoRootMapsNothing
  <2> QED
    BY <2>1, <2>2, SameGeometry DEF Flat!Init
<1>2. IInv /\ [Next]_vars => [Flat!Next]_(Flat!vars)
  BY StepsImplement
<1> QED
  BY <1>1, <1>2, SpecInv, PTL DEF Spec, ImplementsAddressSpace, Flat!Spec

\* A call changes the translation of no page outside its region, which the tables
\* run on used pages refutes ("maps a single 4KB page", pagemanager.h:280).
THEOREM OnlyTheRegionChanges ==
    ASSUME CleanMachine
    PROVE  Spec /\ ListStartsClean => MapsOnlyItsRegion
<1>1. ASSUME IInv, [Next]_vars
      PROVE  \A v \in Pages :
                HwWalk(v)' # HwWalk(v) => pc = "walk" /\ Covers(req.va, req.end, v)
  <2> SUFFICES ASSUME NEW v \in Pages, HwWalk(v)' # HwWalk(v)
               PROVE  pc = "walk" /\ Covers(req.va, req.end, v)
    OBVIOUS
  <2>0. TypeOK /\ RootBeforeWalk /\ Tree /\ WalkOnPath
    BY <1>1 DEF IInv
  <2>1. \A f \in Frames : ~SsPagingInit(f) /\ ~NewTable(f)
    BY <2>0, SetRootMapsNothing, NewTableMapsNothing
  <2>2. ~UNCHANGED <<mem, root>>
    BY SamePaths
  <2>3. WriteLeaf
    BY <1>1, <2>1, <2>2, NothingStale
    DEF Next, Paging, Descend, NoMemory, SsPagingInitFails, Call, vars
  <2> QED
    BY <2>0, <2>3, LeafMapsItsRegion DEF WriteLeaf
<1> QED
  BY <1>1, SpecInv, PTL DEF Spec, MapsOnlyItsRegion

-----------------------------------------------------------------------------
(* What single steps do to the walks of all pages, on tables that some walks  *)
(* leave: what a caller of UefiMapTables needs to know of it.                 *)

\* The walk of page v has a table of level j; it ends there.
Has(v, j) == TableAt(v, j) # NoTable
Ends(v, j) == EndsOn(Path(v), v, j)

\* No walk reaches frame f.
Unlinked(f) ==
    \A g \in Frames : \A k \in 0..(Fan - 1) : IsLink(g, k) => mem[g][k].frame # f

\* A step that leaves everything the walk of page v reads as it is.
SameWalk(v) ==
    /\ HwWalk(v)' = HwWalk(v)
    /\ \A j \in 0..3 : /\ TableAt(v, j)' = TableAt(v, j)
                       /\ Has(v, j) => EntryAt(v, j)' = EntryAt(v, j)
    /\ \A j \in 1..3 : Ends(v, j)' <=> Ends(v, j)

SameWalks == \A v \in Pages : SameWalk(v)

LEMMA EntriesKept ==
    ASSUME NEW v \in Pages,
           \A j \in 0..3 : /\ TableAt(v, j)' = TableAt(v, j)
                           /\ TableAt(v, j) # NoTable => EntryAt(v, j)' = EntryAt(v, j)
    PROVE  SameWalk(v)
<1>1. HwWalk(v)' = HwWalk(v)
  BY WalkKept
<1>2. EndsByLevel /\ EndsByLevel'
  BY EndsAreByLevel, PTL
<1>3. \A j \in 1..3 : Ends(v, j)' <=> Ends(v, j)
  BY <1>2 DEF EndsByLevel, Ends
<1> QED
  BY <1>1, <1>3 DEF SameWalk, Has

LEMMA SameTables ==
    ASSUME UNCHANGED <<mem, root>>
    PROVE  SameWalks
  BY SamePaths, EntriesKept DEF SameWalks

\* A table of the last level on a path is linked.
LEMMA LastIsLinked ==
    ASSUME TypeOK, Reached, NEW v \in Pages, Has(v, 3)
    PROVE  ~Unlinked(TableAt(v, 3))
<1>1. 2 + 1 = 3 /\ 2 \in 0..2
  OBVIOUS
<1>2. Has(v, 2 + 1)
  BY <1>1
<1>3. /\ TableAt(v, 2) \in Frames /\ Index(v, 2) \in 0..(Fan - 1)
      /\ IsLink(TableAt(v, 2), Index(v, 2))
      /\ TableAt(v, 2 + 1) = EntryAt(v, 2).frame
  BY <1>1, <1>2, StepIsLink DEF Reached, Has
<1> QED
  BY <1>1, <1>3 DEF Unlinked, EntryAt

\* What is written outside the tables of the walks changes none of them.
LEMMA WriteAside ==
    ASSUME TypeOK, Tree, root' = root,
           \A f \in Frames : mem'[f] = mem[f] \/ level[f] = -1
                                \/ (level[f] = 3 /\ Unlinked(f))
    PROVE  SameWalks
<1>0. Reached
  BY PathsReachTables DEF Tree
<1> SUFFICES ASSUME NEW v \in Pages PROVE SameWalk(v)
  BY DEF SameWalks
<1>1. ASSUME NEW j \in 0..3, TableAt(v, j) # NoTable
      PROVE  mem'[TableAt(v, j)][Index(v, j)] = EntryAt(v, j)
  <2>1. TableAt(v, j) \in Frames /\ level[TableAt(v, j)] = j
    BY <1>0, <1>1 DEF Reached
  <2>2. ~(level[TableAt(v, j)] = 3 /\ Unlinked(TableAt(v, j)))
    BY <1>0, <1>1, <2>1, LastIsLinked DEF Has
  <2>3. mem'[TableAt(v, j)] = mem[TableAt(v, j)]
    BY <2>1, <2>2
  <2> QED
    BY <2>3 DEF EntryAt
<1>2. \A j \in 0..3 : TableAt(v, j)' = TableAt(v, j)
  BY <1>1, PathKept
<1>3. \A j \in 0..3 : TableAt(v, j) # NoTable => EntryAt(v, j)' = EntryAt(v, j)
  BY <1>1, <1>2 DEF EntryAt
<1> QED
  BY <1>2, <1>3, EntriesKept

\* And it keeps the tree.
LEMMA WriteAsideKeepsTree ==
    ASSUME TypeOK, Tree, root' = root,
           \A f \in Frames : level[f] \in 0..2 => mem'[f] = mem[f],
           \A f \in Frames : level'[f] = level[f] \/ (level[f] = -1 /\ level'[f] = 3),
           \A f \in Frames : level'[f] # -1 => f \in held',
           free' \cap held' = {}, \A f \in free' : mem'[f] = ZeroPage,
           root # NoTable, pc' \notin {"start", "halt"}
    PROVE  Tree' /\ \A f \in Frames : Unlinked(f) => Unlinked(f)'
<1>1. ASSUME NEW f \in Frames, NEW k \in 0..(Fan - 1), IsLink(f, k)'
      PROVE  IsLink(f, k) /\ mem'[f][k] = mem[f][k] /\ level'[f] = level[f]
             /\ mem[f][k].frame \in Frames
  <2>1. level[f] \in 0..2 /\ level'[f] = level[f]
    BY <1>1 DEF IsLink
  <2>2. mem[f] \in Content
    BY DEF TypeOK
  <2>3. mem[f][k].frame \in Frames
    BY <2>2 DEF Content, Entry
  <2> QED
    BY <1>1, <2>1, <2>3 DEF IsLink
<1>2. TablesOwned' /\ FreePagesClean'
  BY DEF TablesOwned, FreePagesClean
<1>3. RootIsTable'
  <2>1. root \in Frames /\ level[root] = 0
    BY DEF TypeOK, Tree, RootIsTable
  <2>2. level'[root] = 0
    BY <2>1
  <2>3. \A f \in Frames : level'[f] = 0 => f = root
    BY DEF Tree, RootIsTable
  <2> QED
    BY <2>2, <2>3 DEF RootIsTable
<1>4. LinksGoDown'
  <2> SUFFICES ASSUME NEW f \in Frames, NEW k \in 0..(Fan - 1), IsLink(f, k)'
               PROVE  level'[mem'[f][k].frame] = level'[f] + 1 /\ mem'[f][k].rw
    BY DEF LinksGoDown
  <2>1. level[mem[f][k].frame] = level[f] + 1 /\ mem[f][k].rw /\ level[f] \in 0..2
    BY <1>1 DEF Tree, LinksGoDown, IsLink
  <2>2. level'[mem[f][k].frame] = level[mem[f][k].frame]
    BY <1>1, <2>1
  <2> QED
    BY <1>1, <2>1, <2>2
<1>5. LinksDistinct'
  BY <1>1 DEF Tree, LinksDistinct
<1>6. RootHasNoLeaf'
  <2>1. root \in Frames /\ level[root] = 0
    BY DEF TypeOK, Tree, RootIsTable
  <2> QED
    BY <2>1 DEF Tree, RootHasNoLeaf
<1>7. ASSUME NEW f \in Frames, Unlinked(f) PROVE Unlinked(f)'
  BY <1>1, <1>7 DEF Unlinked
<1> QED
  BY <1>2, <1>3, <1>4, <1>5, <1>6, <1>7 DEF Tree

\* A new table is on the way of the pages of its region and changes no translation.
LEMMA NewTableOnPath ==
    ASSUME TypeOK, RootBeforeWalk, Tree, WalkOnPath, NEW f \in Frames, NewTable(f)
    PROVE  \A v \in Pages :
              /\ HwWalk(v)' = HwWalk(v)
              /\ \A j \in 1..3 : Ends(v, j)' <=> Ends(v, j)
              /\ \A j \in 0..3 : Has(v, j) => TableAt(v, j)' = TableAt(v, j)
              /\ \A j \in 0..3 : Has(v, j)' =>
                    Has(v, j) \/ (j = i + 1 /\ v \div Span(i) = req.va \div Span(i))
<1>0. Reached
  BY PathsReachTables DEF Tree
<1> DEFINE e == [p |-> TRUE, rw |-> TRUE, ps |-> FALSE, frame |-> f]
<1>1. /\ pc = "walk" /\ i < req.end /\ root' = root /\ ~Current.p
      /\ mem' = [mem EXCEPT ![table][Slot] = e]
  BY DEF NewTable, Link
<1>2. PICK t \in Frames, k \in 0..(Fan - 1), n \in 0..2, w \in Pages :
         /\ t = table /\ k = Slot /\ n = i /\ level[t] = n /\ t # NoTable
         /\ w = req.va /\ TableAt(w, n) = t /\ Index(w, n) = k
  BY <1>0, <1>1, WalkStands
<1>3. f # t /\ mem'[f] = ZeroPage
  BY <1>2, NewTableKeepsTree
<1>e. e.p /\ ~e.ps /\ e.frame = f
  OBVIOUS
<1> HIDE DEF e
<1>4. /\ mem' = [mem EXCEPT ![t][k] = e] /\ mem'[t][k] = e /\ ~mem[t][k].p
      /\ level[t] \in 0..3
  BY <1>1, <1>2 DEF TypeOK, Content, Current
<1> SUFFICES ASSUME NEW v \in Pages
             PROVE  /\ HwWalk(v)' = HwWalk(v)
                    /\ \A j \in 1..3 : Ends(v, j)' <=> Ends(v, j)
                    /\ \A j \in 0..3 : Has(v, j) => TableAt(v, j)' = TableAt(v, j)
                    /\ \A j \in 0..3 : Has(v, j)' =>
                          Has(v, j) \/ (j = n + 1 /\ v \div Span(n) = w \div Span(n))
  BY <1>2
<1>5. CASE ~(TableAt(v, n) = t /\ Index(v, n) = k)
  <2>1. /\ mem' = [mem EXCEPT ![t][k] = e] /\ root' = root /\ level[t] \in 0..3
        /\ ~(TableAt(v, level[t]) = t /\ Index(v, level[t]) = k)
    BY <1>1, <1>2, <1>4, <1>5
  <2>2. \A j \in 0..3 : /\ TableAt(v, j)' = TableAt(v, j)
                        /\ TableAt(v, j) # NoTable => EntryAt(v, j)' = EntryAt(v, j)
    BY <1>0, <2>1, PathBeside
  <2>3. SameWalk(v)
    BY <2>2, EntriesKept
  <2> QED
    BY <2>3 DEF SameWalk, Has
<1>6. CASE TableAt(v, n) = t /\ Index(v, n) = k
  <2>1. HwWalk(v)' = HwWalk(v)
    BY NewTableMapsNothing
  <2>2. /\ TableAt(v, n + 1)' = f
        /\ \A j \in 1..n : ~EndsOn(Path(v), v, j)
        /\ \A j \in 1..3 : ~EndsOn(Path(v), v, j)'
    BY <1>2, <1>6, NewTableIsEmpty
  <2>3. ~EntryAt(v, n).p
    BY <1>4, <1>6 DEF EntryAt
  <2>4. \A j \in 0..3 : j > n => ~Has(v, j)
    <3> SUFFICES ASSUME NEW j \in 0..3, j > n, Has(v, j) PROVE FALSE
      OBVIOUS
    <3> QED
      BY <2>3, TablesAbove DEF Has
  <2>5. \A j \in 1..3 : Ends(v, j)' <=> Ends(v, j)
    <3> SUFFICES ASSUME NEW j \in 1..3 PROVE ~Ends(v, j) /\ ~Ends(v, j)'
      OBVIOUS
    <3>1. j \in 1..n \/ j > n
      OBVIOUS
    <3>2. j > n => ~Ends(v, j)
      BY <2>4, EndsAreByLevel DEF EndsByLevel, Ends, Has
    <3> QED
      BY <2>2, <3>1, <3>2 DEF Ends
  <2>6. \A j \in 0..n : TableAt(v, j)' = TableAt(v, j)
    <3>1. \A j \in 0..level[t] : TableAt(v, j)' = TableAt(v, j)
      BY <1>0, <1>1, <1>4, PathAbove
    <3> QED
      BY <1>2, <3>1
  <2>7. \A j \in 0..3 : Has(v, j) => TableAt(v, j)' = TableAt(v, j)
    <3>1. \A j \in 0..3 : j > n \/ j \in 0..n
      OBVIOUS
    <3> QED
      BY <2>4, <2>6, <3>1
  <2>8. \A j \in 0..3 : j > n + 1 => ~Has(v, j)'
    <3>1. ~EntryAt(v, n + 1)'.p
      <4>1. n + 1 \in 0..3
        OBVIOUS
      <4>2. Index(v, n + 1) \in 0..(Fan - 1)
        BY <4>1, IndexInTable
      <4> QED
        BY <1>3, <2>2, <4>2, ZeroPageEntries DEF EntryAt
    <3>2. PathSteps'
      BY PathByLevel, PTL
    <3>3. ASSUME NEW j \in 0..2, j >= n + 1, j = n + 1 \/ ~Has(v, j)'
          PROVE  ~Has(v, j + 1)'
      BY <3>1, <3>2, <3>3 DEF PathSteps, Has
    <3>4. n = 0 => ~Has(v, 1 + 1)' /\ ~Has(v, 2 + 1)'
      BY <3>3
    <3>5. n = 1 => ~Has(v, 2 + 1)'
      BY <3>3
    <3>6. \A j \in 0..3 : j > n + 1 => \/ n = 0 /\ j \in {1 + 1, 2 + 1}
                                       \/ n = 1 /\ j = 2 + 1
      OBVIOUS
    <3> QED
      BY <3>4, <3>5, <3>6
  <2>9. v \div Span(n) = w \div Span(n)
    <3>1. CASE n = 0
      <4>1. v \div Span(0) = Index(v, 0) /\ w \div Span(0) = Index(w, 0)
        BY PartIsDigits
      <4> QED
        BY <1>2, <1>6, <3>1, <4>1
    <3>2. CASE n # 0
      <4>1. n \in 1..3 /\ TableAt(v, n) # NoTable /\ TableAt(v, n) = TableAt(w, n)
        BY <1>2, <1>6, <3>2
      <4>2. v \div Span(n - 1) = w \div Span(n - 1)
        BY <1>0, <4>1, TablesAreNotShared DEF Tree
      <4>3. /\ v \div Span(n) = Fan * (v \div Span(n - 1)) + Index(v, n)
            /\ w \div Span(n) = Fan * (w \div Span(n - 1)) + Index(w, n)
        BY <4>1, PartIsDigits
      <4> QED
        BY <1>2, <1>6, <4>2, <4>3
    <3> QED
      BY <3>1, <3>2
  <2>10. \A j \in 0..3 : Has(v, j)' =>
            Has(v, j) \/ (j = n + 1 /\ v \div Span(n) = w \div Span(n))
    <3>1. \A j \in 0..3 : j > n + 1 \/ j = n + 1 \/ j \in 0..n
      OBVIOUS
    <3> QED
      BY <2>6, <2>8, <2>9, <3>1 DEF Has
  <2> QED
    BY <2>1, <2>5, <2>7, <2>10
<1> QED
  BY <1>5, <1>6

\* The table made for the page the call is about.
LEMMA NewTableIsThere ==
    ASSUME TypeOK, RootBeforeWalk, Tree, WalkOnPath, NEW f \in Frames, NewTable(f)
    PROVE  Has(req.va, i)' /\ ~Has(req.va, i + 1)
<1>0. Reached
  BY PathsReachTables DEF Tree
<1>1. pc = "walk" /\ i < req.end /\ ~Current.p /\ req' = req /\ i' = i + 1
  BY DEF NewTable, Link
<1>2. PICK n \in 0..2, w \in Pages :
         /\ n = i /\ w = req.va /\ TableAt(w, n) = table /\ Index(w, n) = Slot
  BY <1>0, <1>1, WalkStands
<1>3. TableAt(w, n + 1)' = f
  BY <1>2, NewTableIsEmpty
<1>4. f # NoTable
  BY PageTablesAssumption DEF Frames, NoTable
<1>5. ~EntryAt(w, n).p
  BY <1>1, <1>2 DEF EntryAt, Current
<1>6. ~Has(w, n + 1)
  BY <1>5, PathByLevel DEF PathSteps, Has
<1>7. Has(w, n + 1)'
  BY <1>3, <1>4 DEF Has
<1>8. Has(req.va, i)'
  <2>1. req'.va = w /\ i' = n + 1
    BY <1>1, <1>2
  <2> QED
    BY <1>7, <2>1 DEF Has
<1> QED
  BY <1>2, <1>6, <1>8

OneEnd == \A v \in Pages : \A j, l \in 1..3 : Ends(v, j) /\ Ends(v, l) => j = l

LEMMA WalksEndOnce == OneEnd
  BY EndsOnce DEF OneEnd, Ends

\* A leaf entry of level e replaces what the walks of its region found below it, and
\* no walk of another page notices.
LEMMA LeafOnPath ==
    ASSUME TypeOK, RootBeforeWalk, Tree, WalkOnPath, WriteLeaf,
           NEW e \in 1..3, e = req.end, NEW u \in Pages, u = req.va
    PROVE  \A v \in Pages :
              /\ Covers(u, e, v) =>
                    /\ HwWalk(v)' = [mapped |-> TRUE, frame |-> req.pa + Low(v, e),
                                     rw |-> req.rw]
                    /\ \A j \in 1..3 : Ends(v, j)' <=> j = e
                    /\ \A j \in 0..e : TableAt(v, j)' = TableAt(v, j)
                    /\ \A j \in 0..3 : Has(v, j)' => j <= e /\ Has(v, j)
              /\ ~Covers(u, e, v) => SameWalk(v)
<1>0. Reached
  BY PathsReachTables DEF Tree
<1>1. /\ pc = "walk" /\ i = req.end /\ root' = root
      /\ mem' = [mem EXCEPT ![table][Slot] =
                   [p |-> TRUE, rw |-> req.rw, ps |-> req.end < 3, frame |-> req.pa]]
  BY DEF WriteLeaf
<1>2. PICK r \in Requests, t \in Frames, k \in 0..(Fan - 1) :
         /\ r = req /\ t = table /\ k = Slot /\ e = r.end /\ level[t] = e
         /\ t # NoTable /\ TableAt(u, e) = t /\ Index(u, e) = k
  BY <1>0, <1>1, WalkStands
<1> DEFINE x == [p |-> TRUE, rw |-> r.rw, ps |-> r.end < 3, frame |-> r.pa]
<1>3. mem' = [mem EXCEPT ![t][k] = x] /\ root' = root /\ level[t] \in 0..3
  BY <1>1, <1>2
<1>e. x.p /\ (e = 3 \/ x.ps)
  <2>1. x.p /\ (r.end < 3 => x.ps)
    OBVIOUS
  <2> HIDE DEF x
  <2> QED
    BY <1>2, <2>1
<1> HIDE DEF x
<1> SUFFICES ASSUME NEW v \in Pages
             PROVE  /\ Covers(u, e, v) =>
                          /\ HwWalk(v)' = [mapped |-> TRUE, frame |-> r.pa + Low(v, e),
                                           rw |-> r.rw]
                          /\ \A j \in 1..3 : Ends(v, j)' <=> j = e
                          /\ \A j \in 0..e : TableAt(v, j)' = TableAt(v, j)
                          /\ \A j \in 0..3 : Has(v, j)' => j <= e /\ Has(v, j)
                    /\ ~Covers(u, e, v) => SameWalk(v)
  BY <1>2
<1>4. ASSUME Covers(u, e, v)
      PROVE  /\ HwWalk(v)' = [mapped |-> TRUE, frame |-> r.pa + Low(v, e), rw |-> r.rw]
             /\ \A j \in 1..3 : Ends(v, j)' <=> j = e
             /\ \A j \in 0..e : TableAt(v, j)' = TableAt(v, j)
             /\ \A j \in 0..3 : Has(v, j)' => j <= e /\ Has(v, j)
  <2>1. HwWalk(v)' = [mapped |-> TRUE, frame |-> r.pa + Low(v, e), rw |-> r.rw]
    BY <1>2, <1>4, LeafMapsItsRegion
  <2>2. TableAt(v, e) = t /\ Index(v, e) = k
    <3>1. v \div Span(e) = u \div Span(e)
      BY <1>4 DEF Covers
    <3>2. Index(v, e) = Index(u, e) /\ TableAt(v, e) = TableAt(u, e)
      BY <3>1, PathsAgree
    <3> QED
      BY <1>2, <3>2
  <2>3. \A j \in 0..e : TableAt(v, j)' = TableAt(v, j)
    <3>1. \A j \in 0..level[t] : TableAt(v, j)' = TableAt(v, j)
      BY <1>0, <1>3, PathAbove
    <3> QED
      BY <1>2, <3>1
  <2>4. TableAt(v, e)' = t /\ EntryAt(v, e)' = x
    <3>1. TableAt(v, e)' = t
      BY <2>2, <2>3
    <3>2. mem'[t][k] = x
      BY <1>3 DEF TypeOK, Content
    <3> QED
      BY <2>2, <3>1, <3>2 DEF EntryAt
  <2>5. Ends(v, e)'
    <3>1. EndsByLevel'
      BY EndsAreByLevel, PTL
    <3> QED
      BY <1>2, <1>e, <2>4, <3>1 DEF EndsByLevel, Ends
  <2>6. \A j \in 1..3 : Ends(v, j)' <=> j = e
    <3>1. OneEnd'
      BY WalksEndOnce, PTL
    <3> QED
      BY <2>5, <3>1 DEF OneEnd
  <2>7. \A j \in 0..3 : j > e => ~Has(v, j)'
    <3>1. PathSteps'
      BY PathByLevel, PTL
    <3>2. ASSUME NEW j \in 0..2, j = e \/ ~Has(v, j)' PROVE ~Has(v, j + 1)'
      BY <1>e, <2>4, <3>1, <3>2 DEF PathSteps, Has
    <3>3. e = 1 => ~Has(v, 1 + 1)' /\ ~Has(v, 2 + 1)'
      BY <3>2
    <3>4. e = 2 => ~Has(v, 2 + 1)'
      BY <3>2
    <3>5. \A j \in 0..3 : j > e => \/ e = 1 /\ j \in {1 + 1, 2 + 1}
                                   \/ e = 2 /\ j = 2 + 1
      OBVIOUS
    <3> QED
      BY <3>3, <3>4, <3>5
  <2>8. \A j \in 0..3 : Has(v, j)' => j <= e /\ Has(v, j)
    <3>1. \A j \in 0..3 : j > e \/ (j <= e /\ j \in 0..e)
      OBVIOUS
    <3> QED
      BY <2>3, <2>7, <3>1 DEF Has
  <2> QED
    BY <2>1, <2>3, <2>6, <2>8
<1>5. ASSUME ~Covers(u, e, v) PROVE SameWalk(v)
  <2>1. ~(TableAt(v, e) = t /\ Index(v, e) = k)
    <3> SUFFICES ASSUME TableAt(v, e) = t, Index(v, e) = k PROVE FALSE
      OBVIOUS
    <3>1. v \div Span(e - 1) = u \div Span(e - 1)
      <4>1. TableAt(v, e) # NoTable /\ TableAt(v, e) = TableAt(u, e)
        BY <1>2
      <4> QED
        BY <1>0, <4>1, TablesAreNotShared DEF Tree
    <3>2. /\ v \div Span(e) = Fan * (v \div Span(e - 1)) + Index(v, e)
          /\ u \div Span(e) = Fan * (u \div Span(e - 1)) + Index(u, e)
      BY PartIsDigits
    <3>3. v \div Span(e) = u \div Span(e)
      BY <1>2, <3>1, <3>2
    <3> QED
      BY <1>5, <3>3 DEF Covers
  <2>2. /\ mem' = [mem EXCEPT ![t][k] = x] /\ root' = root /\ level[t] \in 0..3
        /\ ~(TableAt(v, level[t]) = t /\ Index(v, level[t]) = k)
    BY <1>2, <1>3, <2>1
  <2>3. \A j \in 0..3 : /\ TableAt(v, j)' = TableAt(v, j)
                        /\ TableAt(v, j) # NoTable => EntryAt(v, j)' = EntryAt(v, j)
    BY <1>0, <2>2, PathBeside
  <2> QED
    BY <2>3, EntriesKept
<1> QED
  BY <1>4, <1>5

\* With the PML4 just made, no walk gets further than it.
LEMMA OnlyRoot ==
    ASSUME TypeOK, Tree, NEW f \in Frames, SsPagingInit(f), NEW v \in Pages
    PROVE  /\ Has(v, 0)' /\ \A j \in 0..3 : Has(v, j)' => j = 0
           /\ \A j \in 1..3 : ~Ends(v, j)'
<1>1. root' = f /\ mem'[f] = ZeroPage /\ f # NoTable
  BY PageTablesAssumption DEF SsPagingInit, SetRoot, TypeOK, Frames, NoTable
<1>p. EndsByLevel' /\ PathSteps'
  BY EndsAreByLevel, PathByLevel, PTL
<1>2. TableAt(v, 0)' = f /\ ~EntryAt(v, 0)'.p
  <2>1. TableAt(v, 0)' = f /\ Index(v, 0) \in 0..(Fan - 1)
    BY <1>1, <1>p, IndexInTable DEF PathSteps
  <2> QED
    BY <1>1, <2>1, ZeroPageEntries DEF EntryAt
<1>3. TableAt(v, 1)' = NoTable /\ TableAt(v, 2)' = NoTable /\ TableAt(v, 3)' = NoTable
  <2>1. TableAt(v, 0 + 1)' = NoTable
    BY <1>2, <1>p DEF PathSteps
  <2>2. TableAt(v, 1 + 1)' = NoTable
    BY <2>1, <1>p DEF PathSteps
  <2>3. TableAt(v, 2 + 1)' = NoTable
    BY <2>2, <1>p DEF PathSteps
  <2> QED
    BY <2>1, <2>2, <2>3
<1>4. \A j \in 0..3 : j = 0 \/ TableAt(v, j)' = NoTable
  BY <1>3
<1>5. \A j \in 1..3 : ~Ends(v, j)'
  BY <1>4, <1>p DEF EndsByLevel, Ends
<1> QED
  BY <1>1, <1>2, <1>4, <1>5 DEF Has

\* A frame that no walk reaches and that the loader already owns is not reached
\* after a step on a path either.
LEMMA StaysUnlinked ==
    ASSUME TypeOK, RootBeforeWalk, Tree, WalkOnPath, NEW f \in Frames,
           f \in held, Unlinked(f),
           WriteLeaf \/ \E g \in Frames : NewTable(g)
    PROVE  Unlinked(f)' /\ level'[f] = level[f]
<1>0. Reached
  BY PathsReachTables DEF Tree
<1>1. CASE WriteLeaf
  <2> DEFINE e == [p |-> TRUE, rw |-> req.rw, ps |-> req.end < 3, frame |-> req.pa]
  <2>1. /\ pc = "walk" /\ i = req.end /\ level' = level
        /\ mem' = [mem EXCEPT ![table][Slot] = e]
    BY <1>1 DEF WriteLeaf
  <2>2. /\ table \in Frames /\ level[table] = req.end /\ req.end \in 1..3
        /\ Slot \in 0..(Fan - 1)
    BY <1>0, <2>1, WalkStands
  <2>e. req.end < 3 => e.ps
    OBVIOUS
  <2> HIDE DEF e
  <2>3. /\ \A g \in Frames : g # table => mem'[g] = mem[g]
        /\ mem'[table][Slot] = e
        /\ \A k \in 0..(Fan - 1) : k # Slot => mem'[table][k] = mem[table][k]
    BY <2>1, <2>2 DEF TypeOK, Content
  <2>4. ASSUME NEW g \in Frames, NEW k \in 0..(Fan - 1), IsLink(g, k)'
        PROVE  IsLink(g, k) /\ mem'[g][k] = mem[g][k]
    <3>1. ~(g = table /\ k = Slot)
      BY <2>1, <2>2, <2>3, <2>4, <2>e DEF IsLink
    <3>2. mem'[g][k] = mem[g][k]
      BY <2>3, <3>1
    <3> QED
      BY <2>1, <2>4, <3>2 DEF IsLink
  <2> QED
    BY <2>1, <2>4 DEF Unlinked
<1>2. CASE \E g \in Frames : NewTable(g)
  <2>1. PICK g \in Frames : NewTable(g)
    BY <1>2
  <2> DEFINE e == [p |-> TRUE, rw |-> TRUE, ps |-> FALSE, frame |-> g]
  <2>2. /\ pc = "walk" /\ level' = [level EXCEPT ![g] = i + 1] /\ Store!Serve(g)
        /\ mem' = [mem EXCEPT ![table][Slot] = e]
    BY <2>1 DEF NewTable, Link, AllocatePage
  <2>3. g # f /\ mem'[g] = ZeroPage
    BY <2>1, <2>2, NewTableKeepsTree DEF Store!Serve
  <2>4. table \in Frames /\ Slot \in 0..(Fan - 1)
    BY <1>0, <2>2, WalkStands
  <2>e. e.frame = g
    OBVIOUS
  <2> HIDE DEF e
  <2>5. /\ \A h \in Frames : h # table => mem'[h] = mem[h]
        /\ mem'[table][Slot] = e
        /\ \A k \in 0..(Fan - 1) : k # Slot => mem'[table][k] = mem[table][k]
    BY <2>2, <2>4 DEF TypeOK, Content
  <2>6. \A h \in Frames : h # g => level'[h] = level[h]
    BY <2>2 DEF TypeOK
  <2>7. ASSUME NEW h \in Frames, NEW k \in 0..(Fan - 1), IsLink(h, k)'
        PROVE  mem'[h][k].frame # f
    <3>1. CASE h = table /\ k = Slot
      BY <2>3, <2>5, <2>e, <3>1
    <3>2. CASE ~(h = table /\ k = Slot)
      <4>1. mem'[h][k] = mem[h][k]
        BY <2>5, <3>2
      <4>2. h # g
        BY <2>3, <2>7, ZeroPageEntries DEF IsLink
      <4>3. IsLink(h, k)
        BY <2>6, <2>7, <4>1, <4>2 DEF IsLink
      <4> QED
        BY <4>1, <4>3 DEF Unlinked
    <3> QED
      BY <3>1, <3>2
  <2> QED
    BY <2>3, <2>6, <2>7 DEF Unlinked
<1> QED
  BY <1>1, <1>2
=============================================================================
