-------------------------- MODULE MemoryInitProofs --------------------------
(* What the run of MemoryInit checks, for every number of frames, every bound *)
(* on the descriptors of a map and any other code in the firmware.            *)
EXTENDS MemoryInit, Numbers, FiniteSetTheorems

-----------------------------------------------------------------------------
(* Numbers. *)

\* The pages of the PFN array have room for its entries.
LEMMA PagesAreEnough ==
    ASSUME NEW n \in Nat
    PROVE  /\ PagesNeeded(n) \in Nat
           /\ n <= PerPage * PagesNeeded(n)
<1> DEFINE x == n + PerPage - 1
<1>1. x \in Nat /\ PerPage \in Nat /\ PerPage > 0
  BY MemoryInitAssumption
<1>2. x \div PerPage \in Int /\ x % PerPage \in 0..(PerPage - 1)
  BY <1>1
<1>3. x = PerPage * (x \div PerPage) + (x % PerPage)
  BY <1>1
<1> QED
  BY <1>1, <1>2, <1>3 DEF PagesNeeded

\* The end of the highest frame of a map that is not empty.
LEMMA MaxIsHighest ==
    ASSUME NEW S \in SUBSET Frames, S # {}
    PROVE  Max(S) \in S /\ \A f \in S : f <= Max(S)
<1>1. S \in SUBSET Nat /\ FrameCount \in Nat /\ \A f \in S : f <= FrameCount
  BY MemoryInitAssumption DEF Frames
<1>2. \E m \in S : \A f \in S : f <= m
  BY <1>1, GreatestElement
<1>3. \E m \in S : \A f \in S : m >= f
  BY <1>1, <1>2
<1>4. Max(S) \in S /\ \A f \in S : Max(S) >= f
  BY <1>3 DEF Max
<1> QED
  BY <1>1, <1>4

-----------------------------------------------------------------------------
(* The inductive invariant. *)

\* A size that a query has just told is that of some map.
SizeTold == at \in {"buffer", "buffer2"} => size \in 1..MaxEntries

\* The firmware lists none of the loader's pages as free, and gives none out twice.
OwnPagesTaken ==
    /\ conv \cap (array \cup pool) = {}
    /\ array \cap pool = {}

\* The second map is one of that firmware, and nothing is listed before it is read.
SecondMapFresh ==
    /\ at = "scan" => map \cap (array \cup pool) = {}
    /\ at # "done" => listed = {} /\ stray = {}

\* SsPfnCount is past the first map as long as that is the map at hand.
CountCoversMap == at \in {"array", "reset"} => \A f \in map : f < count

IInv ==
    /\ TypeOK /\ SizeTold
    /\ OwnPagesTaken /\ SecondMapFresh /\ OwnPagesNotListed
    /\ CountCoversMap /\ ArrayCoversMap
    /\ ReadsLiveMap

LEMMA InitInv == Init => IInv
<1> SUFFICES ASSUME Init PROVE IInv
  OBVIOUS
<1>1. 0 \in 0..(MaxEntries + 2) /\ 0 \in 0..FrameCount
  BY MemoryInitAssumption
<1> QED
  BY <1>1 DEF Init, IInv, TypeOK, Stages, SizeTold, OwnPagesTaken, SecondMapFresh,
              OwnPagesNotListed, CountCoversMap, ArrayCoversMap, ReadsLiveMap

LEMMA QuerySizeInv ==
    ASSUME IInv, NEW from, NEW to,
           QuerySize(from, to),
           <<from, to>> \in {<<"size", "buffer">>, <<"size2", "buffer2">>}
    PROVE  IInv'
<1> USE DEF IInv
<1>e. entries \in Nat \ {0} /\ entries <= MaxEntries /\ MaxEntries \in Nat
  BY MemoryInitAssumption DEF TypeOK
<1>1. size' \in 1..MaxEntries
  <2>1. size' = entries \/ size' \in 1..entries
    BY DEF QuerySize
  <2> QED
    BY <1>e, <2>1
<1>s. spoiled' \in BOOLEAN /\ (spoiled' => spoiled \/ at' = "return 1")
  <2>1. spoiled \in BOOLEAN
    BY DEF TypeOK
  <2>2. CASE UNCHANGED spoiled
    BY <2>1, <2>2
  <2>3. CASE at' = "return 1" /\ spoiled' = (spoiled \/ buffer = "freed")
    BY <2>3
  <2> QED
    BY <2>2, <2>3 DEF QuerySize
<1>2. TypeOK'
  <2>1. size' \in 0..(MaxEntries + 2)
    BY <1>1, <1>e
  <2>2. at' \in Stages
    BY DEF QuerySize, Stages
  <2> QED
    BY <1>s, <2>1, <2>2 DEF QuerySize, TypeOK, firmware, pfn
<1>3. SizeTold'
  BY <1>1 DEF SizeTold
<1>4. OwnPagesTaken' /\ OwnPagesNotListed'
  BY DEF QuerySize, firmware, pfn, OwnPagesTaken, OwnPagesNotListed
<1>5. SecondMapFresh' /\ CountCoversMap' /\ ArrayCoversMap'
  BY DEF QuerySize, firmware, pfn, SecondMapFresh, CountCoversMap, ArrayCoversMap
<1>6. ReadsLiveMap'
  <2>1. at' \notin {"max", "scan"} /\ ~spoiled
    BY DEF QuerySize, ReadsLiveMap
  <2> QED
    BY <1>s, <2>1 DEF ReadsLiveMap
<1> QED
  BY <1>2, <1>3, <1>4, <1>5, <1>6

LEMMA AllocateBufferInv ==
    ASSUME IInv, NEW from, NEW to,
           AllocateBuffer(from, to),
           <<from, to>> \in {<<"buffer", "map">>, <<"buffer2", "map2">>}
    PROVE  IInv'
<1> USE DEF IInv
<1>1. size' \in 0..(MaxEntries + 2)
  BY MemoryInitAssumption DEF AllocateBuffer, SizeTold
<1>2. TypeOK'
  BY <1>1 DEF AllocateBuffer, TypeOK, Stages, firmware, pfn
<1>3. OwnPagesTaken'
  BY DEF AllocateBuffer, firmware, pfn, OwnPagesTaken
<1>4. SecondMapFresh' /\ OwnPagesNotListed'
  BY DEF AllocateBuffer, pfn, SecondMapFresh, OwnPagesNotListed
<1>5. SizeTold' /\ CountCoversMap' /\ ArrayCoversMap' /\ ReadsLiveMap'
  BY DEF AllocateBuffer, SizeTold, CountCoversMap, ArrayCoversMap, ReadsLiveMap
<1> QED
  BY <1>2, <1>3, <1>4, <1>5

LEMMA GetMapInv ==
    ASSUME IInv, NEW from, NEW to,
           GetMap(from, to),
           <<from, to>> \in {<<"map", "max">>, <<"map2", "scan">>}
    PROVE  IInv'
<1> USE DEF IInv
<1>1. size' \in 0..(MaxEntries + 2)
  <2>1. size' = size \/ size' \in 1..entries
    BY DEF GetMap
  <2> QED
    BY <2>1, MemoryInitAssumption DEF TypeOK
<1>2. TypeOK'
  BY <1>1 DEF GetMap, TypeOK, Stages, firmware, pfn
<1>3. OwnPagesTaken' /\ OwnPagesNotListed'
  BY DEF GetMap, firmware, pfn, OwnPagesTaken, OwnPagesNotListed
<1>4. SecondMapFresh'
  BY DEF GetMap, pfn, SecondMapFresh, OwnPagesTaken
<1>5. SizeTold' /\ CountCoversMap' /\ ArrayCoversMap'
  BY DEF GetMap, SizeTold, CountCoversMap, ArrayCoversMap
<1>6. ReadsLiveMap'
  BY DEF GetMap, ReadsLiveMap
<1> QED
  BY <1>2, <1>3, <1>4, <1>5, <1>6

LEMMA FindMaxAddressInv ==
    ASSUME IInv, FindMaxAddress
    PROVE  IInv'
<1> USE DEF IInv
<1>1. count' \in 0..FrameCount /\ \A f \in map : f < count'
  <2>1. CASE map = {}
    BY <2>1, MemoryInitAssumption DEF FindMaxAddress
  <2>2. CASE map # {}
    <3>1. Max(map) \in Frames /\ \A f \in map : f <= Max(map)
      BY <2>2, MaxIsHighest DEF TypeOK
    <3>2. count' = Max(map) + 1
      BY <2>2 DEF FindMaxAddress
    <3> QED
      BY <3>1, <3>2, MemoryInitAssumption DEF Frames, TypeOK
  <2> QED
    BY <2>1, <2>2
<1>2. TypeOK'
  BY <1>1 DEF FindMaxAddress, TypeOK, Stages, firmware
<1>3. CountCoversMap' /\ ArrayCoversMap'
  BY <1>1 DEF FindMaxAddress, CountCoversMap, ArrayCoversMap
<1>4. OwnPagesTaken' /\ SecondMapFresh' /\ OwnPagesNotListed'
  BY DEF FindMaxAddress, firmware, OwnPagesTaken, SecondMapFresh, OwnPagesNotListed
<1>5. SizeTold' /\ ReadsLiveMap'
  BY DEF FindMaxAddress, SizeTold, ReadsLiveMap
<1> QED
  BY <1>2, <1>3, <1>4, <1>5

LEMMA AllocateArrayInv ==
    ASSUME IInv, AllocateArray
    PROVE  IInv'
<1> USE DEF IInv
<1>1. CASE at' = "return 0" /\ UNCHANGED <<array, firmware>>
  BY <1>1
  DEF AllocateArray, firmware, TypeOK, Stages, SizeTold, OwnPagesTaken, SecondMapFresh,
      OwnPagesNotListed, CountCoversMap, ArrayCoversMap, ReadsLiveMap
<1>2. CASE at' = "reset"
  <2>1. PICK first \in Frames :
            /\ array' = first..(first + PagesNeeded(count) - 1)
            /\ array' \subseteq conv
            /\ conv' = conv \ array'
            /\ entries' \in 1..MaxEntries
    BY <1>2 DEF AllocateArray
  <2>2. /\ UNCHANGED <<size, buffer, pool, map, count, listed, stray, spoiled>>
        /\ at = "array"
    BY DEF AllocateArray
  <2>3. TypeOK'
    BY <1>2, <2>1, <2>2 DEF TypeOK, Stages
  <2>4. OwnPagesTaken' /\ SecondMapFresh' /\ OwnPagesNotListed'
    BY <1>2, <2>1, <2>2 DEF OwnPagesTaken, SecondMapFresh, OwnPagesNotListed
  <2>5. CountCoversMap'
    BY <1>2, <2>2 DEF CountCoversMap
  <2>6. ArrayCoversMap'
    <3>1. first \in Nat /\ count \in Nat
      BY MemoryInitAssumption DEF TypeOK, Frames
    <3>2. PagesNeeded(count) \in Nat /\ count <= PerPage * PagesNeeded(count)
      BY <3>1, PagesAreEnough
    <3> DEFINE last == first + PagesNeeded(count) - 1
    <3>3. last \in Int /\ last - first + 1 = PagesNeeded(count)
          /\ (first > last => PagesNeeded(count) = 0)
      BY <3>1, <3>2
    <3>4. Cardinality(first..last) = PagesNeeded(count)
      <4> HIDE DEF last
      <4> QED
        BY <3>1, <3>3, FS_Interval
    <3> QED
      BY <2>1, <2>2, <3>2, <3>4 DEF ArrayCoversMap, CountCoversMap
  <2>7. SizeTold' /\ ReadsLiveMap'
    BY <1>2, <2>2 DEF SizeTold, ReadsLiveMap
  <2> QED
    BY <2>3, <2>4, <2>5, <2>6, <2>7
<1> QED
  BY <1>1, <1>2 DEF AllocateArray

LEMMA FreeBufferInv ==
    ASSUME IInv, FreeBuffer
    PROVE  IInv'
<1> USE DEF IInv
<1>1. TypeOK'
  BY DEF FreeBuffer, TypeOK, Stages, pfn
<1>2. OwnPagesTaken' /\ SecondMapFresh' /\ OwnPagesNotListed'
  BY DEF FreeBuffer, pfn, OwnPagesTaken, SecondMapFresh, OwnPagesNotListed
<1>3. SizeTold' /\ CountCoversMap' /\ ArrayCoversMap' /\ ReadsLiveMap'
  BY DEF FreeBuffer, SizeTold, CountCoversMap, ArrayCoversMap, ReadsLiveMap
<1> QED
  BY <1>1, <1>2, <1>3

LEMMA NextInv ==
    ASSUME IInv, [Next]_vars
    PROVE  IInv'
<1> USE DEF IInv
<1>1. CASE ResetArray
  BY <1>1 DEF ResetArray, firmware, TypeOK, Stages, SizeTold, OwnPagesTaken,
              SecondMapFresh, OwnPagesNotListed, CountCoversMap, ArrayCoversMap,
              ReadsLiveMap
<1>2. CASE ScanMap
  BY <1>2 DEF ScanMap, firmware, TypeOK, Stages, SizeTold, OwnPagesTaken,
              SecondMapFresh, OwnPagesNotListed, CountCoversMap, ArrayCoversMap,
              ReadsLiveMap
<1>3. CASE OtherCode
  <2>1. TypeOK' /\ OwnPagesTaken'
    BY <1>3 DEF OtherCode, pfn, TypeOK, OwnPagesTaken
  <2> QED
    BY <1>3, <2>1 DEF OtherCode, pfn, SizeTold, SecondMapFresh, OwnPagesNotListed,
                      CountCoversMap, ArrayCoversMap, ReadsLiveMap
<1>4. CASE UNCHANGED vars
  BY <1>4 DEF vars, firmware, pfn, TypeOK, SizeTold, OwnPagesTaken, SecondMapFresh,
              OwnPagesNotListed, CountCoversMap, ArrayCoversMap, ReadsLiveMap
<1> HIDE DEF IInv
<1> QED
  BY <1>1, <1>2, <1>3, <1>4, QuerySizeInv, AllocateBufferInv, GetMapInv,
     FindMaxAddressInv, AllocateArrayInv, FreeBufferInv
  DEF Next

THEOREM SpecInv == Spec => []IInv
<1>1. IInv /\ [Next]_vars => IInv'
  BY NextInv
<1> QED
  BY <1>1, InitInv, PTL DEF Spec

-----------------------------------------------------------------------------
(* What follows from it. *)

\* Every variable keeps its type: SsPfnCount never exceeds physical memory, and the
\* size of a map (UefiMain.c 172-290) stays within two descriptors of a real one.
THEOREM TypeCorrect == Spec => []TypeOK
<1>1. IInv => TypeOK
  BY DEF IInv
<1> QED
  BY <1>1, SpecInv, PTL

\* Whatever else the firmware allocates and frees between the statements of UefiMain
\* (247-351), no page of the PFN array or of the map at hand is on the free list.
THEOREM OwnPagesAreNotListed == Spec => []OwnPagesNotListed
<1>1. IInv => OwnPagesNotListed
  BY DEF IInv
<1> QED
  BY <1>1, SpecInv, PTL

\* For every number of entries per page, the array (UefiMain.c 246-250) has an entry for
\* each frame below SsPfnCount, and the first map has no frame above.
THEOREM ArrayCoversItsMap == Spec => []ArrayCoversMap
<1>1. IInv => ArrayCoversMap
  BY DEF IInv
<1> QED
  BY <1>1, SpecInv, PTL

\* No map is read from a buffer that is not live, and after a buffer was written when it
\* had been freed (UefiMain.c:275) the program only gives up.
THEOREM MapsAreLive == Spec => []ReadsLiveMap
<1>1. IInv => ReadsLiveMap
  BY DEF IInv
<1> QED
  BY <1>1, SpecInv, PTL
=============================================================================
