------------------------- MODULE PfnAllocatorProofs -------------------------
(* The free list of PfnAllocator is exact for every number of pages, and the  *)
(* allocator implements PageStore, provided no PFN reaches the list end mark. *)
EXTENDS PfnAllocator, FiniteSetTheorems, TLAPS

\* The array stays below PFN_LIST_END: less than 64 GiB of memory in the code,
\* which nothing there checks.
MemoryFits == PfnCount <= PFN_LIST_END

\* Every link of the array is a page or the end of the list; free or not.
LinksOK == \A p \in Pfns : SsPfn[p].Offset \in Pfns \cup {PFN_LIST_END}

-----------------------------------------------------------------------------
(* Type correctness. *)

LEMMA CastKeepsLink ==
    ASSUME NEW h \in Pfns \cup {PFN_LIST_END}
    PROVE  /\ h % OffsetSpan \in Pfns \cup {PFN_LIST_END}
           /\ h % OffsetSpan \in 0..(OffsetSpan - 1)
           /\ MemoryFits => h % OffsetSpan = h
<1> USE SizesAssumption DEF Pfns
<1>1. CASE h < OffsetSpan
  BY <1>1
<1>2. CASE h >= OffsetSpan
  <2>1. h \in Pfns
    BY <1>2
  <2>2. h % OffsetSpan \in 0..(OffsetSpan - 1) /\ h % OffsetSpan <= h
    BY <1>2
  <2> QED
    BY <1>2, <2>1, <2>2 DEF MemoryFits
<1> QED
  BY <1>1, <1>2

LEMMA PushTypes ==
    ASSUME TypeOK, LinksOK, NEW p \in Pfns, Push(p)
    PROVE  /\ SsPfn' \in [Pfns -> PfnEntry]
           /\ SsPfnFreeHead' \in Pfns \cup {PFN_LIST_END}
           /\ LinksOK'
<1>1. /\ SsPfnFreeHead % OffsetSpan \in Pfns \cup {PFN_LIST_END}
      /\ SsPfnFreeHead % OffsetSpan \in 0..(OffsetSpan - 1)
  BY CastKeepsLink DEF TypeOK
<1> QED
  BY <1>1 DEF TypeOK, LinksOK, Push, PfnEntry, PfnState

LEMMA PopTypes ==
    ASSUME TypeOK, LinksOK, PopHead
    PROVE  /\ SsPfnFreeHead \in Pfns
           /\ SsPfn' \in [Pfns -> PfnEntry]
           /\ SsPfnFreeHead' \in Pfns \cup {PFN_LIST_END}
           /\ LinksOK'
<1>1. SsPfnFreeHead \in Pfns
  BY DEF TypeOK, PopHead
<1>2. PFN_LIST_END \in 0..(OffsetSpan - 1)
  BY SizesAssumption
<1> QED
  BY <1>1, <1>2 DEF TypeOK, LinksOK, PopHead, PfnEntry, PfnState

LEMMA InitTypes == Init => TypeOK /\ LinksOK
<1> SUFFICES ASSUME Init PROVE TypeOK /\ LinksOK
  OBVIOUS
<1>1. PFN_LIST_END \in 0..(OffsetSpan - 1)
  BY SizesAssumption
<1>2. out \in Report
  BY DEF Init, Report, Quiet, Tell
<1> QED
  BY <1>1, <1>2 DEF Init, TypeOK, LinksOK, PfnEntry, PfnState, Pfns, Frames

LEMMA NextTypes == TypeOK /\ LinksOK /\ [Next]_vars => TypeOK' /\ LinksOK'
<1> SUFFICES ASSUME TypeOK, LinksOK, [Next]_vars PROVE TypeOK' /\ LinksOK'
  OBVIOUS
<1>p. Pfns \subseteq Frames
  BY SizesAssumption DEF Pfns, Frames
<1>1. ASSUME NEW p \in Pfns, ScanPage(p) PROVE TypeOK' /\ LinksOK'
  <2>1. Push(p)
    BY <1>1 DEF ScanPage
  <2> QED
    BY <1>1, <2>1, PushTypes DEF TypeOK, ScanPage
<1>2. ASSUME AllocatePage PROVE TypeOK' /\ LinksOK'
  <2>1. CASE AllocateNothing
    BY <1>2, <2>1 DEF AllocatePage, AllocateNothing, TypeOK, LinksOK, Report, Tell
  <2>2. CASE AllocatePageZero
    <3>1. PopHead
      BY <2>2 DEF AllocatePageZero
    <3> QED
      BY <1>2, <2>2, <3>1, PopTypes DEF AllocatePage, AllocatePageZero, TypeOK, Report, Tell
  <2>3. CASE AllocateRefused
    <3>1. PopHead
      BY <2>3 DEF AllocateRefused
    <3> QED
      BY <1>2, <2>3, <3>1, PopTypes DEF AllocatePage, AllocateRefused, TypeOK, Report, Tell
  <2>4. CASE AllocateGranted
    <3>1. PopHead
      BY <2>4 DEF AllocateGranted
    <3>2. SsPfnFreeHead \in Frames
      BY <1>p, <3>1, PopTypes
    <3>3. out' \in Report
      BY <2>4, <3>2 DEF AllocateGranted, Report, Tell
    <3>4. fw' \in [Frames -> FrameOwner] /\ held' \subseteq Frames
      BY <2>4, <3>2 DEF AllocateGranted, TypeOK, FrameOwner
    <3> QED
      BY <1>2, <3>1, <3>3, <3>4, PopTypes DEF AllocatePage, TypeOK
  <2> QED
    BY <1>2, <2>1, <2>2, <2>3, <2>4 DEF AllocatePage
<1>3. ASSUME NEW f \in Frames, SsFreePhysicalPage(f) PROVE TypeOK' /\ LinksOK'
  <2>1. CASE FreeInArray(f)
    <3>1. f \in Pfns /\ Push(f)
      BY <2>1, SizesAssumption DEF FreeInArray, Frames, Pfns
    <3> QED
      BY <1>3, <2>1, <3>1, PushTypes
      DEF SsFreePhysicalPage, FreeInArray, TypeOK, Report, Quiet, Tell
  <2>2. CASE FreeOutOfArray(f)
    BY <1>3, <2>2
    DEF SsFreePhysicalPage, FreeOutOfArray, TypeOK, LinksOK, Report, Tell
  <2> QED
    BY <1>3, <2>1, <2>2 DEF SsFreePhysicalPage
<1>4. ASSUME NEW f \in Frames, FwAllocate(f) \/ FwFree(f) PROVE TypeOK' /\ LinksOK'
  BY <1>4 DEF FwAllocate, FwFree, TypeOK, LinksOK, FrameOwner
<1>5. CASE UNCHANGED vars
  BY <1>5 DEF vars, TypeOK, LinksOK
<1> QED
  BY <1>1, <1>2, <1>3, <1>4, <1>5 DEF Next

\* Every variable keeps its type for every size of the machine, also when PFNs
\* reach the list end mark or do not fit an Offset (pagemanager.h 129-177).
THEOREM TypeCorrect == Spec => []TypeOK
<1>1. Spec => [](TypeOK /\ LinksOK)
  BY InitTypes, NextTypes, PTL DEF Spec
<1> QED
  BY <1>1, PTL
-----------------------------------------------------------------------------
(* The free list. *)

LEMMA NoLongerThanArray ==
    ASSUME NEW n \in Nat, NEW s \in [1..n -> Pfns],
           \A i, j \in 1..n : s[i] = s[j] => i = j
    PROVE  n <= PfnCount
<1> SUFFICES ASSUME n > PfnCount PROVE FALSE
  BY SizesAssumption
<1>1. IsFiniteSet(1..n) /\ Cardinality(1..n) = n
  BY FS_Interval
<1>2. IsFiniteSet(Pfns) /\ Cardinality(Pfns) = PfnCount
  BY FS_Interval, SizesAssumption DEF Pfns
<1>3. \E i, j \in 1..n : i # j /\ s[i] = s[j]
  BY <1>1, <1>2, FS_PigeonHole
<1> QED
  BY <1>3

\* Pushing a page that is not Free prepends it to the list.
LEMMA PushKeepsList ==
    ASSUME MemoryFits, TypeOK, LinksOK, FreeListExact,
           NEW p \in Pfns \ FreePfns, Push(p)
    PROVE  FreeListExact' /\ FreePfns' = FreePfns \cup {p}
<1>1. FreePfns' = FreePfns \cup {p}
  BY DEF FreePfns, Push, TypeOK
<1>2. SsPfnFreeHead % OffsetSpan = SsPfnFreeHead
  BY CastKeepsLink DEF TypeOK
<1>3. PICK n \in 0..PfnCount : \E s \in [1..n -> FreePfns] : Chain(n, s)
  BY DEF FreeListExact
<1>4. PICK s \in [1..n -> FreePfns] : Chain(n, s)
  BY <1>3
<1> DEFINE t == [i \in 1..(n + 1) |-> IF i = 1 THEN p ELSE s[i - 1]]
<1>5. /\ n \in Nat
      /\ t \in [1..(n + 1) -> FreePfns \cup {p}]
      /\ t[1] = p
      /\ \A i \in 1..n : t[i + 1] = s[i]
      /\ \A i \in 2..(n + 1) : t[i] = s[i - 1] /\ i - 1 \in 1..n
  BY <1>3, SizesAssumption
<1> HIDE DEF t
<1>6. \A i, j \in 1..(n + 1) : t[i] = t[j] => i = j
  <2> SUFFICES ASSUME NEW i \in 1..(n + 1), NEW j \in 1..(n + 1), t[i] = t[j]
               PROVE  i = j
    OBVIOUS
  <2>1. CASE i = 1 /\ j = 1
    BY <2>1
  <2>2. CASE i = 1 /\ j \in 2..(n + 1)
    BY <1>5, <2>2
  <2>3. CASE i \in 2..(n + 1) /\ j = 1
    BY <1>5, <2>3
  <2>4. CASE i \in 2..(n + 1) /\ j \in 2..(n + 1)
    <3>1. s[i - 1] = s[j - 1]
      BY <1>5, <2>4
    <3>2. i - 1 = j - 1
      BY <1>4, <1>5, <2>4, <3>1 DEF Chain
    <3> QED
      BY <3>2
  <2> QED
    BY <1>5, <2>1, <2>2, <2>3, <2>4
<1>7. n + 1 \in 0..PfnCount
  <2>1. t \in [1..(n + 1) -> Pfns]
    BY <1>5 DEF FreePfns
  <2> QED
    BY <1>5, <1>6, <2>1, NoLongerThanArray
<1>8. \A i \in 1..(n + 1) :
         SsPfn'[t[i]].Offset = IF i = n + 1 THEN PFN_LIST_END ELSE t[i + 1]
  <2> SUFFICES ASSUME NEW i \in 1..(n + 1)
               PROVE  SsPfn'[t[i]].Offset = IF i = n + 1 THEN PFN_LIST_END ELSE t[i + 1]
    OBVIOUS
  <2>1. CASE i = 1
    <3>1. SsPfn'[p].Offset = SsPfnFreeHead
      BY <1>2 DEF Push, TypeOK
    <3>2. SsPfnFreeHead = IF n = 0 THEN PFN_LIST_END ELSE s[1]
      BY <1>4 DEF Chain
    <3>3. CASE n = 0
      BY <1>5, <2>1, <3>1, <3>2, <3>3
    <3>4. CASE n # 0
      <4>1. t[1 + 1] = s[1] /\ 1 # n + 1
        BY <1>5, <3>4
      <4> QED
        BY <1>5, <2>1, <3>1, <3>2, <3>4, <4>1
    <3> QED
      BY <3>3, <3>4
  <2>2. CASE i \in 2..(n + 1)
    <3>1. i - 1 \in 1..n /\ t[i] = s[i - 1]
      BY <1>5, <2>2
    <3>2. t[i] \in FreePfns /\ t[i] # p
      BY <3>1, <1>4
    <3>3. SsPfn'[t[i]].Offset = SsPfn[s[i - 1]].Offset
      BY <3>1, <3>2 DEF Push, TypeOK, FreePfns
    <3>4. SsPfn[s[i - 1]].Offset = IF i - 1 = n THEN PFN_LIST_END ELSE s[(i - 1) + 1]
      BY <1>4, <3>1 DEF Chain
    <3>5. CASE i = n + 1
      BY <1>5, <3>3, <3>4, <3>5
    <3>6. CASE i # n + 1
      <4>1. i \in 1..n /\ t[i + 1] = s[i] /\ (i - 1) + 1 = i /\ i - 1 # n
        BY <1>5, <2>2, <3>6
      <4> QED
        BY <3>3, <3>4, <3>6, <4>1
    <3> QED
      BY <3>5, <3>6
  <2> QED
    BY <1>5, <2>1, <2>2
<1>9. FreePfns' = {t[i] : i \in 1..(n + 1)}
  <2>1. FreePfns = {s[i] : i \in 1..n}
    BY <1>4 DEF Chain
  <2>2. ASSUME NEW q \in FreePfns \cup {p} PROVE q \in {t[i] : i \in 1..(n + 1)}
    <3>1. CASE q = p
      BY <1>5, <3>1
    <3>2. CASE q \in FreePfns
      <4>1. PICK i \in 1..n : q = s[i]
        BY <2>1, <3>2
      <4>2. i + 1 \in 1..(n + 1) /\ t[i + 1] = q
        BY <1>5, <4>1
      <4> QED
        BY <4>2
    <3> QED
      BY <3>1, <3>2
  <2>3. \A i \in 1..(n + 1) : t[i] \in FreePfns \cup {p}
    BY <1>5
  <2> QED
    BY <1>1, <2>2, <2>3
<1>10. SsPfnFreeHead' = t[1] /\ n + 1 # 0
  BY <1>5 DEF Push
<1>11. t \in [1..(n + 1) -> FreePfns']
  BY <1>1, <1>5
<1>12. Chain(n + 1, t)'
  BY <1>6, <1>8, <1>9, <1>10 DEF Chain
<1> QED
  BY <1>1, <1>7, <1>11, <1>12 DEF FreeListExact

\* Popping takes the first page of the list, which is Free, and leaves the rest.
LEMMA PopKeepsList ==
    ASSUME MemoryFits, TypeOK, LinksOK, FreeListExact, PopHead
    PROVE  /\ SsPfnFreeHead \in FreePfns
           /\ FreePfns' = FreePfns \ {SsPfnFreeHead}
           /\ FreeListExact'
<1>1. SsPfnFreeHead \in Pfns /\ SsPfnFreeHead # PFN_LIST_END
  BY DEF PopHead, TypeOK
<1>2. FreePfns' = FreePfns \ {SsPfnFreeHead}
  BY <1>1 DEF FreePfns, PopHead, TypeOK
<1>3. PICK n \in 0..PfnCount : \E s \in [1..n -> FreePfns] : Chain(n, s)
  BY DEF FreeListExact
<1>4. PICK s \in [1..n -> FreePfns] : Chain(n, s)
  BY <1>3
<1>5. /\ n \in Nat \ {0}
      /\ SsPfnFreeHead = s[1]
      /\ SsPfnFreeHead \in FreePfns
  <2>1. SsPfnFreeHead = IF n = 0 THEN PFN_LIST_END ELSE s[1]
    BY <1>4 DEF Chain
  <2>2. n \in Nat /\ n # 0
    BY <1>1, <1>3, <2>1, SizesAssumption
  <2>3. 1 \in 1..n
    BY <2>2
  <2> QED
    BY <1>4, <2>1, <2>2, <2>3
<1> DEFINE t == [i \in 1..(n - 1) |-> s[i + 1]]
<1>6. /\ \A i \in 1..(n - 1) : t[i] = s[i + 1] /\ i + 1 \in 2..n
      /\ \A i \in 2..n : i - 1 \in 1..(n - 1) /\ t[i - 1] = s[i]
      /\ \A i \in 2..n : s[i] \in FreePfns /\ s[i] # SsPfnFreeHead
  BY <1>4, <1>5 DEF Chain
<1>7. t \in [1..(n - 1) -> FreePfns']
  BY <1>2, <1>6
<1> HIDE DEF t
<1>8. \A i, j \in 1..(n - 1) : t[i] = t[j] => i = j
  BY <1>4, <1>5, <1>6 DEF Chain
<1>9. \A i \in 1..(n - 1) :
         SsPfn'[t[i]].Offset = IF i = n - 1 THEN PFN_LIST_END ELSE t[i + 1]
  <2> SUFFICES ASSUME NEW i \in 1..(n - 1)
               PROVE  SsPfn'[t[i]].Offset = IF i = n - 1 THEN PFN_LIST_END ELSE t[i + 1]
    OBVIOUS
  <2>1. SsPfn'[t[i]].Offset = SsPfn[s[i + 1]].Offset
    BY <1>6 DEF PopHead, TypeOK, FreePfns
  <2>2. SsPfn[s[i + 1]].Offset = IF i + 1 = n THEN PFN_LIST_END ELSE s[(i + 1) + 1]
    BY <1>4, <1>5, <1>6 DEF Chain
  <2>3. CASE i = n - 1
    BY <2>1, <2>2, <2>3, <1>5
  <2>4. CASE i # n - 1
    <3>1. i + 1 \in 1..(n - 1) /\ t[i + 1] = s[(i + 1) + 1] /\ i + 1 # n
      BY <1>5, <1>6, <2>4
    <3> QED
      BY <2>1, <2>2, <2>4, <3>1
  <2> QED
    BY <2>3, <2>4
<1>10. SsPfnFreeHead' = IF n - 1 = 0 THEN PFN_LIST_END ELSE t[1]
  <2>1. SsPfnFreeHead' = SsPfn[s[1]].Offset
    BY <1>5 DEF PopHead
  <2>2. SsPfn[s[1]].Offset = IF 1 = n THEN PFN_LIST_END ELSE s[1 + 1]
    BY <1>4, <1>5 DEF Chain
  <2>3. CASE n = 1
    BY <2>1, <2>2, <2>3
  <2>4. CASE n # 1
    <3>1. 1 \in 1..(n - 1) /\ t[1] = s[1 + 1]
      BY <1>5, <1>6, <2>4
    <3> QED
      BY <1>5, <2>1, <2>2, <2>4, <3>1
  <2> QED
    BY <2>3, <2>4
<1>11. FreePfns' = {t[i] : i \in 1..(n - 1)}
  <2>1. FreePfns = {s[i] : i \in 1..n}
    BY <1>4 DEF Chain
  <2>2. ASSUME NEW q \in FreePfns \ {SsPfnFreeHead} PROVE q \in {t[i] : i \in 1..(n - 1)}
    <3>1. PICK i \in 1..n : q = s[i]
      BY <2>1
    <3>2. i \in 2..n
      BY <1>5, <3>1
    <3> QED
      BY <1>6, <3>1, <3>2
  <2>3. \A i \in 1..(n - 1) : t[i] \in FreePfns \ {SsPfnFreeHead}
    BY <1>6
  <2> QED
    BY <1>2, <2>2, <2>3
<1>12. Chain(n - 1, t)'
  BY <1>8, <1>9, <1>10, <1>11 DEF Chain
<1>13. n - 1 \in 0..PfnCount
  BY <1>3, <1>5, SizesAssumption
<1> QED
  BY <1>2, <1>5, <1>7, <1>12, <1>13 DEF FreeListExact
-----------------------------------------------------------------------------
(* The inductive invariant. *)

IInv ==
    /\ TypeOK
    /\ LinksOK
    /\ FreeListExact
    /\ HeldConsistent
    /\ ScanFresh

LEMMA InitInv == Init => IInv
<1> SUFFICES ASSUME Init PROVE IInv
  OBVIOUS
<1>1. TypeOK /\ LinksOK
  BY InitTypes
<1>2. FreeListExact
  <2>1. FreePfns = {}
    BY DEF Init, FreePfns
  <2>2. PICK s : s \in [1..0 -> FreePfns]
    <3>1. [i \in 1..0 |-> i] \in [1..0 -> FreePfns]
      OBVIOUS
    <3> QED
      BY <3>1
  <2>3. Chain(0, s)
    BY <2>1 DEF Chain, Init
  <2>4. 0 \in 0..PfnCount
    BY SizesAssumption
  <2> QED
    BY <2>2, <2>3, <2>4 DEF FreeListExact
<1>3. HeldConsistent
  BY DEF Init, HeldConsistent
<1>4. ScanFresh
  BY DEF Init, ScanFresh
<1> QED
  BY <1>1, <1>2, <1>3, <1>4 DEF IInv

\* A page on the list that is taken off it is owned by nobody and already scanned.
LEMMA FreeIsUnheld ==
    ASSUME IInv, NEW p \in FreePfns
    PROVE  p \notin held /\ p \notin toScan
BY DEF IInv, HeldConsistent, ScanFresh, FreePfns

\* A page the loader owns is not on the list.
LEMMA HeldIsUnlisted ==
    ASSUME IInv, NEW p \in held, p \in Pfns
    PROVE  p \in Pfns \ FreePfns
BY DEF IInv, HeldConsistent, FreePfns

\* The list only depends on the array and on the head.
LEMMA QuietKeepsList ==
    ASSUME FreeListExact, UNCHANGED <<SsPfn, SsPfnFreeHead>>
    PROVE  FreeListExact' /\ FreePfns' = FreePfns
<1>1. FreePfns' = FreePfns
  BY DEF FreePfns
<1>2. \A n, s : Chain(n, s) => Chain(n, s)'
  BY <1>1 DEF Chain
<1>3. PICK n \in 0..PfnCount : \E s \in [1..n -> FreePfns] : Chain(n, s)
  BY DEF FreeListExact
<1> QED
  BY <1>1, <1>2, <1>3 DEF FreeListExact

LEMMA ScanKeepsInv ==
    ASSUME MemoryFits, IInv, NEW p \in Pfns, ScanPage(p)
    PROVE  FreeListExact' /\ HeldConsistent' /\ ScanFresh'
<1>1. p \in toScan /\ SsPfn[p].State = "Reserved" /\ out = Quiet
  BY DEF IInv, ScanPage, ScanFresh
<1>2. Push(p) /\ p \in Pfns \ FreePfns
  BY <1>1 DEF ScanPage, FreePfns
<1>3. FreeListExact'
  BY <1>2, PushKeepsList DEF IInv
<1>4. \A q \in Pfns \ {p} : SsPfn'[q] = SsPfn[q]
  BY <1>2 DEF Push, IInv, TypeOK
<1>5. p \notin held
  BY <1>1 DEF IInv, HeldConsistent
<1>6. HeldConsistent'
  BY <1>4, <1>5 DEF IInv, HeldConsistent, ScanPage
<1>7. ScanFresh'
  BY <1>1, <1>4 DEF IInv, TypeOK, ScanFresh, ScanPage
<1> QED
  BY <1>3, <1>6, <1>7

LEMMA AllocateKeepsInv ==
    ASSUME MemoryFits, IInv, AllocatePage
    PROVE  FreeListExact' /\ HeldConsistent' /\ ScanFresh'
<1>1. toScan = {} /\ toScan' = {}
  BY DEF AllocatePage
<1>2. ScanFresh'
  BY <1>1 DEF ScanFresh
<1>3. CASE AllocateNothing
  <2>1. FreeListExact'
    BY <1>3, QuietKeepsList DEF AllocateNothing, IInv
  <2>2. HeldConsistent'
    BY <1>1, <1>3 DEF AllocateNothing, IInv, HeldConsistent
  <2> QED
    BY <1>2, <2>1, <2>2
<1>4. CASE PopHead
  <2>1. SsPfnFreeHead \in FreePfns /\ FreeListExact'
    BY <1>4, PopKeepsList DEF IInv
  <2>2. SsPfnFreeHead \notin held
    BY <2>1, FreeIsUnheld
  <2>3. SsPfnFreeHead \in Pfns
    BY <2>1 DEF FreePfns
  <2>4. /\ \A q \in Pfns \ {SsPfnFreeHead} : SsPfn'[q] = SsPfn[q]
        /\ SsPfn'[SsPfnFreeHead].State = "Allocated"
        /\ SsPfn'[SsPfnFreeHead].Ref = 1
    BY <1>4, <2>3 DEF PopHead, IInv, TypeOK
  <2>5. CASE UNCHANGED <<fw, held>>
    <3>1. HeldConsistent'
      BY <1>1, <2>2, <2>4, <2>5 DEF IInv, HeldConsistent
    <3> QED
      BY <1>2, <2>1, <3>1
  <2>6. CASE AllocateGranted
    <3>1. /\ held' = held \cup {SsPfnFreeHead}
          /\ fw' = [fw EXCEPT ![SsPfnFreeHead] = "Loader"]
      BY <2>6 DEF AllocateGranted
    <3>2. SsPfnFreeHead \in Frames
      BY <2>3, SizesAssumption DEF Pfns, Frames
    <3>3. \A f \in Frames : fw'[f] = IF f = SsPfnFreeHead THEN "Loader" ELSE fw[f]
      BY <3>1, <3>2 DEF IInv, TypeOK
    <3>4. HeldConsistent'
      BY <1>1, <2>2, <2>4, <3>1, <3>2, <3>3 DEF IInv, TypeOK, HeldConsistent
    <3> QED
      BY <1>2, <2>1, <3>4
  <2>7. UNCHANGED <<fw, held>> \/ AllocateGranted
    BY <1>4 DEF AllocatePage, AllocateNothing, AllocatePageZero, AllocateRefused, PopHead
  <2> QED
    BY <1>2, <2>1, <2>5, <2>6, <2>7
<1> QED
  BY <1>3, <1>4
  DEF AllocatePage, AllocatePageZero, AllocateRefused, AllocateGranted

LEMMA FreeKeepsInv ==
    ASSUME MemoryFits, IInv, NEW f \in Frames, SsFreePhysicalPage(f)
    PROVE  FreeListExact' /\ HeldConsistent' /\ ScanFresh'
<1>1. toScan = {} /\ toScan' = {} /\ f \in held /\ held' = held \ {f} /\ fw' = fw
  BY DEF SsFreePhysicalPage
<1>2. ScanFresh'
  BY <1>1 DEF ScanFresh
<1>3. CASE FreeInArray(f)
  <2>1. f \in Pfns /\ Push(f)
    BY <1>3, SizesAssumption DEF FreeInArray, Frames, Pfns
  <2>2. FreeListExact'
    BY <1>1, <2>1, HeldIsUnlisted, PushKeepsList DEF IInv
  <2>3. \A q \in Pfns \ {f} : SsPfn'[q] = SsPfn[q]
    BY <2>1 DEF Push, IInv, TypeOK
  <2>4. HeldConsistent'
    BY <1>1, <2>3 DEF IInv, HeldConsistent
  <2> QED
    BY <1>2, <2>2, <2>4
<1>4. CASE FreeOutOfArray(f)
  <2>1. FreeListExact'
    BY <1>4, QuietKeepsList DEF FreeOutOfArray, IInv
  <2>2. HeldConsistent'
    BY <1>1, <1>4 DEF FreeOutOfArray, IInv, HeldConsistent
  <2> QED
    BY <1>2, <2>1, <2>2
<1> QED
  BY <1>3, <1>4 DEF SsFreePhysicalPage

LEMMA FirmwareKeepsInv ==
    ASSUME IInv, NEW f \in Frames, FwAllocate(f) \/ FwFree(f)
    PROVE  FreeListExact' /\ HeldConsistent' /\ ScanFresh'
<1>1. UNCHANGED <<SsPfn, SsPfnFreeHead, toScan, held, out>>
  BY DEF FwAllocate, FwFree
<1>2. \A g \in Frames : fw[g] = "Loader" => fw'[g] = "Loader"
  BY DEF FwAllocate, FwFree, IInv, TypeOK
<1>3. FreeListExact' /\ ScanFresh'
  BY <1>1, QuietKeepsList DEF IInv, ScanFresh
<1>4. HeldConsistent'
  BY <1>1, <1>2 DEF IInv, TypeOK, HeldConsistent
<1> QED
  BY <1>3, <1>4

LEMMA NextInv == MemoryFits /\ IInv /\ [Next]_vars => IInv'
<1> SUFFICES ASSUME MemoryFits, IInv, [Next]_vars PROVE IInv'
  OBVIOUS
<1>1. TypeOK' /\ LinksOK'
  BY NextTypes DEF IInv
<1>2. CASE UNCHANGED vars
  BY <1>1, <1>2, QuietKeepsList DEF vars, IInv, HeldConsistent, ScanFresh
<1>3. CASE Next
  BY <1>1, <1>3, ScanKeepsInv, AllocateKeepsInv, FreeKeepsInv, FirmwareKeepsInv
  DEF Next, IInv
<1> QED
  BY <1>2, <1>3

LEMMA SpecInv ==
    ASSUME MemoryFits
    PROVE  Spec => []IInv
<1>1. IInv /\ [Next]_vars => IInv'
  BY NextInv
<1> QED
  BY <1>1, InitInv, PTL DEF Spec

\* While the PFN array stays below PFN_LIST_END (pagemanager.h:50), the free list
\* visits exactly the Free pages, once each, whatever the order of the memory
\* map, of the calls and of the firmware's own allocations.
THEOREM FreeListIsExact ==
    ASSUME MemoryFits
    PROVE  Spec => []FreeListExact
<1>1. IInv => FreeListExact
  BY DEF IInv
<1> QED
  BY <1>1, SpecInv, PTL

\* Under the same bound, a frame the loader owns is off the list and is the
\* loader's in the firmware's view too (pagemanager.h 142-152, 192-203).
THEOREM HeldIsConsistent ==
    ASSUME MemoryFits
    PROVE  Spec => []HeldConsistent
<1>1. IInv => HeldConsistent
  BY DEF IInv
<1> QED
  BY <1>1, SpecInv, PTL

\* Until the scan has reached a page it is off the list, and no call is answered
\* before the scan is over (UefiMain.c 315-351), also when PFNs reach the end mark.
THEOREM ScanIsFresh == Spec => []ScanFresh
<1>1. Init => ScanFresh
  BY SizesAssumption DEF Init, ScanFresh
<1>2. TypeOK /\ ScanFresh /\ [Next]_vars => ScanFresh'
  <2> SUFFICES ASSUME TypeOK, ScanFresh, [Next]_vars PROVE ScanFresh'
    OBVIOUS
  <2>1. ASSUME NEW p \in Pfns, ScanPage(p) PROVE ScanFresh'
    BY <2>1 DEF ScanPage, Push, ScanFresh, TypeOK
  <2>2. CASE toScan = {} /\ toScan' = {}
    BY <2>2 DEF ScanFresh
  <2>3. CASE UNCHANGED <<SsPfn, toScan, out>>
    BY <2>3 DEF ScanFresh
  <2> QED
    BY <2>1, <2>2, <2>3
    DEF Next, vars, AllocatePage, SsFreePhysicalPage, FwAllocate, FwFree
<1> QED
  BY <1>1, <1>2, TypeCorrect, PTL DEF Spec

\* A frame freed with SsFreePhysicalPage is never handed out again: the firmware
\* still counts it as the loader's (pagemanager.h 157-177, 192-200).
THEOREM FreedIsNeverReissued == Spec => NeverReissued
<1> DEFINE Same == \A f \in Frames : (fw[f] = "Loader" /\ f \notin held) => f \notin held'
<1>1. TypeOK /\ LinksOK /\ [Next]_vars => [Same]_vars
  <2> SUFFICES ASSUME TypeOK, LinksOK, Next, NEW f \in Frames,
                      fw[f] = "Loader", f \notin held
               PROVE  f \notin held'
    BY DEF vars
  <2>1. CASE AllocatePage
    BY <2>1 DEF AllocatePage, AllocateNothing, AllocatePageZero, AllocateRefused,
                AllocateGranted
  <2>2. CASE ~AllocatePage
    BY <2>2 DEF Next, ScanPage, SsFreePhysicalPage, FwAllocate, FwFree
  <2> QED
    BY <2>1, <2>2
<1>2. NeverReissued <=> [][Same]_vars
  BY DEF NeverReissued
<1> QED
  BY <1>1, <1>2, InitTypes, NextTypes, PTL DEF Spec

-----------------------------------------------------------------------------
(* The allocator implements the store. *)

LEMMA InitStore == Init => Store!Init
<1> SUFFICES ASSUME Init PROVE Store!Init
  OBVIOUS
<1>1. out.st = "NONE" /\ out.said = ""
  BY DEF Init, Quiet, Tell
<1>2. answer = "none"
  BY <1>1 DEF answer
<1>3. FreePfns = {} /\ held \in SUBSET Frames
  BY DEF Init, FreePfns
<1> QED
  BY <1>2, <1>3 DEF Store!Init

LEMMA ScanStore ==
    ASSUME IInv, NEW p \in Pfns, ScanPage(p)
    PROVE  Store!Stock(p)
<1>1. p \in toScan /\ SsPfn[p].State = "Reserved" /\ p \notin held
  BY DEF IInv, ScanPage, ScanFresh, HeldConsistent
<1>2. FreePfns' = FreePfns \cup {p} /\ p \notin FreePfns
  BY <1>1 DEF ScanPage, Push, FreePfns, IInv, TypeOK
<1>3. UNCHANGED <<held, out, answer>>
  BY DEF ScanPage, answer
<1> QED
  BY <1>1, <1>2, <1>3 DEF Store!Stock

LEMMA AllocateStore ==
    ASSUME MemoryFits, IInv, AllocatePage
    PROVE  Store!Next
<1>f. FreePfns \subseteq Frames
  BY SizesAssumption DEF FreePfns, Pfns, Frames
<1>1. CASE AllocateNothing
  <2>1. FreePfns = {}
    <3>1. PICK n \in 0..PfnCount : \E s \in [1..n -> FreePfns] : Chain(n, s)
      BY DEF IInv, FreeListExact
    <3>2. PICK s \in [1..n -> FreePfns] : Chain(n, s)
      BY <3>1
    <3>3. n = 0
      <4> SUFFICES ASSUME n # 0 PROVE FALSE
        OBVIOUS
      <4>1. 1 \in 1..n
        BY <3>1, SizesAssumption
      <4>2. s[1] \in Pfns /\ SsPfnFreeHead = s[1]
        BY <3>2, <4>1 DEF Chain, FreePfns
      <4>3. PFN_LIST_END \notin Pfns
        BY SizesAssumption DEF MemoryFits, Pfns
      <4>4. SsPfnFreeHead = PFN_LIST_END
        BY <1>1 DEF AllocateNothing
      <4> QED
        BY <4>2, <4>3, <4>4
    <3> QED
      BY <3>2, <3>3 DEF Chain
  <2>2. FreePfns' = FreePfns /\ held' = held
    BY <1>1 DEF AllocateNothing, FreePfns
  <2>3. answer' = "empty"
    BY <1>1 DEF AllocateNothing, answer, Tell
  <2> QED
    BY <2>1, <2>2, <2>3 DEF Store!Next, Store!Exhaust
<1>2. CASE PopHead
  <2>1. /\ SsPfnFreeHead \in FreePfns
        /\ FreePfns' = FreePfns \ {SsPfnFreeHead}
    BY <1>2, PopKeepsList DEF IInv
  <2>2. SsPfnFreeHead \notin held
    BY <2>1, FreeIsUnheld
  <2>3. CASE AllocateGranted
    <3>1. /\ answer' = "page"
          /\ held' = held \cup {SsPfnFreeHead}
          /\ SsPfnFreeHead # 0
      BY <2>3 DEF AllocateGranted, answer, Tell
    <3>2. Store!Serve(SsPfnFreeHead)
      BY <2>1, <2>2, <3>1 DEF Store!Serve
    <3> QED
      BY <1>f, <2>1, <3>2 DEF Store!Next
  <2>4. CASE AllocatePageZero \/ AllocateRefused
    <3>1. answer' = "lost" /\ held' = held
      <4>1. /\ out'.st \in {"OUT_OF_RESOURCES", "NOT_FOUND"}
            /\ out'.said \in {"No free memory!", "Failed to allocate pages!"}
            /\ held' = held
        <5>1. CASE AllocatePageZero
          BY <5>1 DEF AllocatePageZero, Tell
        <5>2. CASE AllocateRefused
          BY <5>2 DEF AllocateRefused, Tell
        <5> QED
          BY <2>4, <5>1, <5>2
      <4> QED
        BY <4>1 DEF answer
    <3>2. Store!Lose(SsPfnFreeHead)
      BY <2>1, <2>2, <3>1 DEF Store!Lose
    <3> QED
      BY <1>f, <2>1, <3>2 DEF Store!Next
  <2> QED
    BY <1>2, <2>3, <2>4 DEF AllocatePage, AllocateNothing, PopHead
<1> QED
  BY <1>1, <1>2
  DEF AllocatePage, AllocatePageZero, AllocateRefused, AllocateGranted

LEMMA FreeStore ==
    ASSUME IInv, NEW f \in Frames, SsFreePhysicalPage(f)
    PROVE  Store!Return(f)
<1>1. f \in held /\ held' = held \ {f}
  BY DEF SsFreePhysicalPage
<1>2. answer' = "none"
  <2>1. out'.st = "NONE" /\ out'.said \in {"", "Pfn too large"}
    <3>1. CASE FreeInArray(f)
      BY <3>1 DEF FreeInArray, Quiet, Tell
    <3>2. CASE FreeOutOfArray(f)
      BY <3>2 DEF FreeOutOfArray, Tell
    <3> QED
      BY <3>1, <3>2 DEF SsFreePhysicalPage
  <2> QED
    BY <2>1 DEF answer
<1>3. FreePfns' \in {FreePfns, FreePfns \cup {f}}
  <2>1. CASE FreeInArray(f)
    <3>1. f \in Pfns /\ Push(f)
      BY <2>1, SizesAssumption DEF FreeInArray, Frames, Pfns
    <3> QED
      BY <3>1 DEF Push, FreePfns, IInv, TypeOK
  <2>2. CASE FreeOutOfArray(f)
    BY <2>2 DEF FreeOutOfArray, FreePfns
  <2> QED
    BY <2>1, <2>2 DEF SsFreePhysicalPage
<1> QED
  BY <1>1, <1>2, <1>3 DEF Store!Return

LEMMA NextStore ==
    ASSUME MemoryFits, IInv, [Next]_vars
    PROVE  [Store!Next]_(Store!vars)
<1>p. Pfns \subseteq Frames
  BY SizesAssumption DEF Pfns, Frames
<1>1. ASSUME NEW p \in Pfns, ScanPage(p) PROVE Store!Next
  BY <1>1, <1>p, ScanStore DEF Store!Next
<1>2. ASSUME NEW f \in Frames, SsFreePhysicalPage(f) PROVE Store!Next
  BY <1>2, FreeStore DEF Store!Next
<1>3. ASSUME UNCHANGED <<SsPfn, held, out>> PROVE UNCHANGED Store!vars
  BY <1>3 DEF Store!vars, FreePfns, answer
<1>4. ASSUME NEW f \in Frames, FwAllocate(f) \/ FwFree(f) PROVE UNCHANGED Store!vars
  BY <1>3, <1>4 DEF FwAllocate, FwFree
<1>5. CASE UNCHANGED vars
  BY <1>3, <1>5 DEF vars
<1> QED
  BY <1>1, <1>2, <1>4, <1>5, AllocateStore DEF Next

\* While the PFN array stays below PFN_LIST_END, every call of AllocatePage and
\* SsFreePhysicalPage (pagemanager.h 129-204) does what PageStore promises.
THEOREM AllocatorImplementsStore ==
    ASSUME MemoryFits
    PROVE  Spec => ImplementsStore
<1>1. IInv /\ [Next]_vars => [Store!Next]_(Store!vars)
  BY NextStore
<1> QED
  BY <1>1, SpecInv, InitStore, PTL DEF Spec, Store!Spec, ImplementsStore
=============================================================================
