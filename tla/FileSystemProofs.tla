--------------------------- MODULE FileSystemProofs ---------------------------
(* For every tree of directories and every number of handles and buffers: the *)
(* handles and buffers the functions of filesystem.c keep, and the error they *)
(* leave, and, for every tree, what a listing prints.                         *)
EXTENDS FileSystem, Numbers, FiniteSetTheorems

-----------------------------------------------------------------------------
(* What the firmware opens and closes. *)

Record == [node : Nodes, pos : Nat]

LEMMA Constants ==
    /\ MaxHandles \in Nat \ {0} /\ MaxBuffers \in Nat \ {0}
    /\ Volumes \in Seq(Dirs) /\ Len(Volumes) \in Nat \ {0}
    /\ \A k \in 1..Len(Volumes) : Volumes[k] \in Dirs /\ Volumes[k] \in ToSet(Volumes)
    /\ ToSet(Volumes) \subseteq Dirs /\ Dirs \subseteq Nodes /\ Paths \subseteq Nodes
    /\ NULL \notin Handles
<1>1. Volumes \in Seq(Dirs) /\ Volumes # <<>>
  BY FileSystemAssumption
<1>2. DOMAIN Volumes = 1..Len(Volumes) /\ Len(Volumes) \in Nat \ {0}
  BY <1>1
<1>3. \A k \in 1..Len(Volumes) : Volumes[k] \in Dirs
  BY <1>1
<1>4. ToSet(Volumes) = {Volumes[k] : k \in 1..Len(Volumes)}
  BY <1>2 DEF ToSet
<1> QED
  BY <1>1, <1>2, <1>3, <1>4, FileSystemAssumption DEF Nodes, Handles, NULL

LEMMA EntryTypes ==
    ASSUME NEW d \in Dirs, NEW k \in 1..Len(Tree[d])
    PROVE  /\ Tree[d][k] \in [kind : {"dot", "dir", "file"}, node : Nodes]
           /\ Tree[d][k].node \in Nodes
           /\ Tree[d][k].kind = "dir" => Tree[d][k].node \in Dirs
<1> DEFINE names == Tree[d]
<1> DEFINE S == [kind : {"dot", "dir", "file"}, node : Nodes]
<1>1. names \in Seq(S) /\ k \in 1..Len(names)
  BY FileSystemAssumption
<1>2. names[k] \in S /\ k \in DOMAIN names
  <2> HIDE DEF names, S
  <2> QED
    BY <1>1
<1>3. Tree[d][k] \in Entries
  BY <1>2 DEF Entries
<1> QED
  BY <1>2, <1>3, FileSystemAssumption

LEMMA NewHandleIs ==
    CanOpen => NewHandle \in Handles /\ NewHandle \notin DOMAIN open
<1> SUFFICES ASSUME CanOpen PROVE NewHandle \in Handles \ DOMAIN open
  OBVIOUS
<1> DEFINE unused == Handles \ DOMAIN open
<1>1. unused \in SUBSET Nat /\ unused # {}
  BY DEF CanOpen, Handles
<1>2. \E h \in unused : \A g \in unused : h <= g
  <2> HIDE DEF unused
  <2> QED
    BY <1>1, LeastElement
<1> QED
  BY <1>2 DEF NewHandle

-----------------------------------------------------------------------------
(* The inductive invariant. *)

\* Every handle the loader has is open, and the current directory is not a file the
\* client may close.
HandlesInv ==
    /\ DOMAIN open \subseteq Handles
    /\ open \in [DOMAIN open -> Record]
    /\ cur \in Handles \cup {NULL}
    /\ cur # NULL => cur \in DOMAIN open /\ open[cur].node \in ToSet(Volumes)
    /\ held \subseteq DOMAIN open
    /\ cur \notin held

\* The first call of a listing has a handle of the client or the current directory,
\* the others have opened one each; all but the innermost are reading.
StackInv ==
    /\ stack \in Seq(Frame)
    /\ \A k \in 1..Len(stack) :
          /\ stack[k].handle \in DOMAIN open
          /\ open[stack[k].handle].node \in Dirs
          /\ k = 1 <=> stack[k].handle \in held \cup {cur}
          /\ k < Len(stack) => stack[k].reading
          /\ \A j \in 1..(k - 1) : stack[k].handle # stack[j].handle

\* Calls of the recursion that have their buffer.
Busy ==
    IF stack = <<>> THEN 0
    ELSE IF stack[Len(stack)].reading THEN Len(stack) ELSE Len(stack) - 1

\* Every buffer that is to be freed is live.
PoolInv ==
    /\ pool \in 0..MaxBuffers /\ owed \in 0..MaxBuffers
    /\ pool >= owed + Busy + Informed

\* Where a call of BlFindFile or BlSetWorkingDirectory goes on, and one of BlGetFileInfo.
ByName == {"find", "subdirectory"} \X Paths
Asking == {"info"} \X {"get", "again", "get again"}

\* While a call is under way there is no result; afterwards the error agrees with it.
CallInv ==
    /\ status \in {"SUCCESS", "ERROR", "INVALID_PARAMETER", "OUT_OF_RESOURCES"}
    /\ result \in {"none", "TRUE", "FALSE"}
    /\ pending \in {<<>>} \cup ByName \cup Asking
    /\ stack # <<>> => pending = <<>> /\ result = "none"
    /\ pending # <<>> => result = "none"
    /\ LastErrorAgrees

\* What has been printed.
PrintInv ==
    /\ loaded \in BOOLEAN /\ failed \in BOOLEAN
    /\ from \in Dirs
    /\ printed \in Seq([depth : Nat, node : Nodes])

IInv == HandlesInv /\ StackInv /\ PoolInv /\ CallInv /\ PrintInv

LEMMA NothingPrinted == <<>> \in Seq([depth : Nat, node : Nodes])
<1>1. \A S : <<>> \in Seq(S)
  OBVIOUS
<1> QED
  BY <1>1

LEMMA TypesFollow == IInv => TypeOK
<1> SUFFICES ASSUME IInv PROVE TypeOK
  OBVIOUS
<1>1. \A h \in DOMAIN open : h \in Handles /\ open[h] \in [node : Nodes, pos : Nat]
  BY DEF IInv, HandlesInv, Record
<1> QED
  BY <1>1 DEF IInv, HandlesInv, StackInv, PoolInv, CallInv, PrintInv, TypeOK, ByName, Asking

LEMMA NotAsked == \A p \in {<<>>} \cup ByName : p \notin {"info"} \X {"get", "get again"}
<1>1. ASSUME NEW p \in ByName PROVE p \notin {"info"} \X {"get", "get again"}
  BY DEF ByName
<1>2. <<>> \notin {"info"} \X {"get", "get again"}
  <2>1. \A S, T : <<>> \notin S \X T
    OBVIOUS
  <2> QED
    BY <2>1, Zenon
<1> QED
  BY <1>1, <1>2

\* BlGetFileInfo has a buffer for the information only while it asks for it.
LEMMA InformedIs ==
    /\ Informed \in {0, 1}
    /\ pending \in {<<>>} \cup ByName => Informed = 0
    /\ pending = <<>> => Informed = 0
  BY NotAsked DEF Informed

LEMMA InformedNext ==
    /\ Informed' \in {0, 1}
    /\ pending' \in {<<>>} \cup ByName => Informed' = 0
    /\ pending' = <<>> => Informed' = 0
  BY NotAsked DEF Informed

LEMMA InitInv == Init => IInv
<1> SUFFICES ASSUME Init PROVE IInv
  OBVIOUS
<1>1. stack = <<>> /\ Len(stack) = 0 /\ open = <<>> /\ held = {} /\ cur = NULL
  BY DEF Init
<1>2. DOMAIN open = {}
  BY <1>1
<1>3. HandlesInv
  <2>1. open \in [DOMAIN open -> Record]
    BY <1>1, <1>2
  <2> QED
    BY <1>1, <1>2, <2>1 DEF HandlesInv
<1>4. StackInv
  BY <1>1 DEF StackInv
<1>5. PoolInv
  <2>1. Informed = 0
    BY InformedIs DEF Init
  <2> QED
    BY <1>1, <2>1, Constants DEF Init, PoolInv, Busy
<1>6. CallInv
  BY <1>1 DEF Init, CallInv, LastErrorAgrees
<1>7. PrintInv
  <2>1. from \in Dirs
    BY Constants DEF Init
  <2> QED
    BY <2>1, NothingPrinted DEF Init, PrintInv
<1> QED
  BY <1>3, <1>4, <1>5, <1>6, <1>7 DEF IInv

LEMMA OpenedIs ==
    ASSUME NEW T, NEW n \in Nodes, DOMAIN T = DOMAIN open, T \in [DOMAIN open -> Record],
           CanOpen
    PROVE  /\ DOMAIN Opened(T, n) = DOMAIN open \cup {NewHandle}
           /\ Opened(T, n) \in [DOMAIN open \cup {NewHandle} -> Record]
           /\ Opened(T, n)[NewHandle].node = n
           /\ \A h \in DOMAIN open : Opened(T, n)[h] = T[h]
<1>1. NewHandle \notin DOMAIN open
  BY NewHandleIs
<1>2. [node |-> n, pos |-> 0] \in Record
  BY DEF Record
<1> QED
  BY <1>1, <1>2 DEF Opened

\* What a call of any function but a listing does to the handles.
OpenStep ==
    \/ UNCHANGED <<open, cur, held>>
    \/ /\ CanOpen
       /\ \E n \in ToSet(Volumes) : open' = Opened(open, n)
       /\ cur' = NewHandle /\ held' = held
    \/ /\ CanOpen
       /\ \E n \in Nodes : open' = Opened(open, n)
       /\ cur' = cur /\ held' \in {held, held \cup {NewHandle}}
    \/ \E h \in held : open' = Closed(open, h) /\ cur' = cur /\ held' = held \ {h}

LEMMA OpenStepKeeps == HandlesInv /\ OpenStep => HandlesInv'
<1> SUFFICES ASSUME HandlesInv, OpenStep PROVE HandlesInv'
  OBVIOUS
<1>1. CASE UNCHANGED <<open, cur, held>>
  BY <1>1 DEF HandlesInv
<1>2. CASE /\ CanOpen
           /\ \E n \in ToSet(Volumes) : open' = Opened(open, n)
           /\ cur' = NewHandle /\ held' = held
  <2>1. PICK n \in ToSet(Volumes) : open' = Opened(open, n)
    BY <1>2
  <2>2. n \in Nodes
    BY Constants
  <2>3. /\ DOMAIN open' = DOMAIN open \cup {NewHandle}
        /\ open' \in [DOMAIN open \cup {NewHandle} -> Record]
        /\ open'[NewHandle].node = n
    BY <1>2, <2>1, <2>2, OpenedIs DEF HandlesInv
  <2>4. NewHandle \in Handles /\ NewHandle \notin DOMAIN open
    BY <1>2, NewHandleIs
  <2> QED
    BY <1>2, <2>3, <2>4 DEF HandlesInv
<1>3. CASE /\ CanOpen
           /\ \E n \in Nodes : open' = Opened(open, n)
           /\ cur' = cur /\ held' \in {held, held \cup {NewHandle}}
  <2>1. PICK n \in Nodes : open' = Opened(open, n)
    BY <1>3
  <2>2. /\ DOMAIN open' = DOMAIN open \cup {NewHandle}
        /\ open' \in [DOMAIN open \cup {NewHandle} -> Record]
        /\ \A h \in DOMAIN open : open'[h] = open[h]
    BY <1>3, <2>1, OpenedIs DEF HandlesInv
  <2>3. NewHandle \in Handles /\ NewHandle \notin DOMAIN open /\ NewHandle # NULL
    BY <1>3, NewHandleIs, Constants
  <2>4. cur # NewHandle
    BY <2>3 DEF HandlesInv
  <2> QED
    BY <1>3, <2>2, <2>3, <2>4 DEF HandlesInv
<1>4. ASSUME NEW h \in held, open' = Closed(open, h), cur' = cur, held' = held \ {h}
      PROVE  HandlesInv'
  <2>1. /\ DOMAIN open' = DOMAIN open \ {h}
        /\ \A g \in DOMAIN open \ {h} : open'[g] = open[g]
        /\ open' \in [DOMAIN open \ {h} -> Record]
    BY <1>4 DEF Closed, HandlesInv
  <2> QED
    BY <1>4, <2>1 DEF HandlesInv
<1> QED
  BY <1>1, <1>2, <1>3, <1>4 DEF OpenStep

\* What such a call does to the buffers.
BufferStep ==
    \/ UNCHANGED memory
    \/ pool < MaxBuffers /\ pool' = pool + 1 /\ owed' \in {owed, owed + 1}
    \/ owed > 0 /\ owed' = owed - 1 /\ pool' = pool - 1

\* All that is used of such a call.
Outside ==
    /\ stack = <<>> /\ stack' = <<>> /\ result' = "none"
    /\ OpenStep /\ BufferStep
    /\ status' \in {"SUCCESS", "ERROR", "INVALID_PARAMETER", "OUT_OF_RESOURCES"}
    /\ pending' \in {<<>>} \cup ByName
    /\ loaded' \in BOOLEAN /\ failed' \in BOOLEAN
    /\ from' \in {from, Volumes[1]}
    /\ printed' \in {printed, <<>>}

LEMMA OutsideKeeps == IInv /\ Outside => IInv'
<1> SUFFICES ASSUME IInv, Outside PROVE IInv'
  OBVIOUS
<1>1. HandlesInv'
  BY OpenStepKeeps DEF IInv, Outside
<1>2. StackInv'
  <2>1. stack' = <<>> /\ Len(stack') = 0
    BY DEF Outside
  <2> QED
    BY <2>1 DEF StackInv
<1>3. PoolInv'
  <2>1. Busy = 0 /\ Busy' = 0
    BY DEF Outside, Busy
  <2>2. Informed' = 0 /\ Informed \in {0, 1}
    BY InformedIs, InformedNext DEF Outside
  <2> QED
    BY <2>1, <2>2, Constants DEF IInv, PoolInv, Outside, BufferStep, memory
<1>4. CallInv'
  BY DEF Outside, CallInv, LastErrorAgrees
<1>5. PrintInv'
  <2>1. from' \in Dirs
    BY Constants DEF IInv, PrintInv, Outside
  <2>2. printed' \in Seq([depth : Nat, node : Nodes])
    BY NothingPrinted DEF IInv, PrintInv, Outside
  <2> QED
    BY <2>1, <2>2 DEF Outside, PrintInv
<1> QED
  BY <1>1, <1>2, <1>3, <1>4, <1>5 DEF IInv

LEMMA GetRootOpens ==
    IInv /\ GetRoot /\ UNCHANGED held =>
        /\ OpenStep /\ failed' \in BOOLEAN
        /\ status' \in {"SUCCESS", "ERROR", "INVALID_PARAMETER", "OUT_OF_RESOURCES"}
<1> SUFFICES ASSUME IInv, GetRoot, UNCHANGED held
             PROVE  /\ OpenStep /\ failed' \in BOOLEAN
                    /\ status' \in {"SUCCESS", "ERROR", "INVALID_PARAMETER",
                                    "OUT_OF_RESOURCES"}
  OBVIOUS
<1>1. Volumes[1] \in ToSet(Volumes)
  BY Constants
<1>2. OpenStep
  BY <1>1 DEF GetRoot, OpenStep
<1>3. failed' \in BOOLEAN
  BY DEF GetRoot, Refused, Firmware
<1>4. status' \in {"SUCCESS", "ERROR", "INVALID_PARAMETER", "OUT_OF_RESOURCES"}
  BY DEF GetRoot, Refused, IInv, CallInv
<1> QED
  BY <1>2, <1>3, <1>4

OutsideAction ==
    \/ BlInitFileSystem \/ BlGetRootDirectory
    \/ \E index \in 0..3 : BlGetRootDirectoryByIndex(index)
    \/ \E n \in Paths : \/ BlFindFile(n) \/ OpenFile(n)
                        \/ BlSetWorkingDirectory(n) \/ SetDirectory(n)
                        \/ SubDirectoryForClient(n)
    \/ \E h \in held : BlGetFileName(h) \/ Close(h)
    \/ FreeBuffer

LEMMA CallIsOutside ==
    ASSUME IInv, NEW what \in {"find", "subdirectory"}, NEW n \in Paths, Call(what, n)
    PROVE  Outside
<1>1. stack = <<>> /\ stack' = <<>> /\ result' = "none"
  BY DEF Call, Idle, NotListing
<1>2. /\ OpenStep /\ failed' \in BOOLEAN
      /\ status' \in {"SUCCESS", "ERROR", "INVALID_PARAMETER", "OUT_OF_RESOURCES"}
  <2>1. CASE cur # NULL
    BY <2>1 DEF Call, OpenStep, Firmware, IInv, CallInv
  <2>2. CASE cur = NULL
    <3>1. GetRoot /\ UNCHANGED held
      BY <2>2 DEF Call
    <3> QED
      BY <3>1, GetRootOpens
  <2> QED
    BY <2>1, <2>2
<1>3. pending' \in {<<>>} \cup ByName
  <2>1. pending' = <<>> \/ pending' = <<what, n>>
    BY DEF Call
  <2>2. <<what, n>> \in ByName
    BY DEF ByName
  <2> QED
    BY <2>1, <2>2
<1>4. loaded' \in BOOLEAN
  BY DEF Call, IInv, PrintInv
<1>5. from' \in {from, Volumes[1]} /\ printed' \in {printed, <<>>}
  BY DEF Call, NotListing
<1>6. BufferStep
  BY DEF Call, BufferStep
<1> QED
  BY <1>1, <1>2, <1>3, <1>4, <1>5, <1>6 DEF Outside

LEMMA SubDirectoryOpens ==
    ASSUME NEW n \in Paths, BlOpenSubDirectory(n)
    PROVE  /\ OpenStep /\ failed' \in BOOLEAN /\ BufferStep
           /\ status' = "INVALID_PARAMETER" /\ loaded' = loaded
<1>1. OpenStep
  <2>1. n \in Nodes
    BY Constants
  <2> QED
    BY <2>1 DEF BlOpenSubDirectory, OpenStep
<1> QED
  BY <1>1 DEF BlOpenSubDirectory, Firmware, BufferStep

LEMMA OutsideActionIs == IInv /\ OutsideAction => Outside
<1> SUFFICES ASSUME IInv, OutsideAction PROVE Outside
  OBVIOUS
<1>0. /\ status \in {"SUCCESS", "ERROR", "INVALID_PARAMETER", "OUT_OF_RESOURCES"}
      /\ loaded \in BOOLEAN
      /\ pending # <<>> => stack = <<>> /\ result = "none"
  BY DEF IInv, CallInv, PrintInv
<1>1. CASE BlInitFileSystem
  <2>1. OpenStep /\ BufferStep
    BY <1>1 DEF BlInitFileSystem, OpenStep, BufferStep
  <2>2. failed' \in BOOLEAN /\ loaded' \in BOOLEAN
    BY <1>0, <1>1 DEF BlInitFileSystem, Refused, Firmware
  <2>3. status' \in {"SUCCESS", "ERROR"}
    BY <1>1 DEF BlInitFileSystem, Refused
  <2> QED
    BY <1>0, <1>1, <2>1, <2>2, <2>3 DEF BlInitFileSystem, Outside, Idle, NotListing
<1>2. CASE BlGetRootDirectory
  <2>1. /\ OpenStep /\ failed' \in BOOLEAN
        /\ status' \in {"SUCCESS", "ERROR", "INVALID_PARAMETER", "OUT_OF_RESOURCES"}
    BY <1>2, GetRootOpens DEF BlGetRootDirectory
  <2>2. BufferStep
    BY <1>2 DEF BlGetRootDirectory, BufferStep
  <2> QED
    BY <1>0, <1>2, <2>1, <2>2 DEF BlGetRootDirectory, Outside, Idle, NotListing
<1>3. ASSUME NEW index \in 0..3, BlGetRootDirectoryByIndex(index) PROVE Outside
  <2>1. index < Len(Volumes) => Volumes[index + 1] \in ToSet(Volumes)
    BY Constants
  <2>2. OpenStep
    BY <1>3, <2>1 DEF BlGetRootDirectoryByIndex, OpenStep
  <2>3. BufferStep
    BY <1>3 DEF BlGetRootDirectoryByIndex, BufferStep, memory
  <2>4. failed' \in BOOLEAN
    BY <1>3 DEF BlGetRootDirectoryByIndex, Refused, Firmware
  <2>5. status' \in {"SUCCESS", "ERROR"}
    BY <1>3 DEF BlGetRootDirectoryByIndex, Refused
  <2> QED
    BY <1>0, <1>3, <2>2, <2>3, <2>4, <2>5
    DEF BlGetRootDirectoryByIndex, Outside, Idle, NotListing
<1>4. ASSUME NEW n \in Paths, BlFindFile(n) \/ BlSetWorkingDirectory(n) PROVE Outside
  BY <1>4, CallIsOutside DEF BlFindFile, BlSetWorkingDirectory
<1>5. ASSUME NEW n \in Paths, OpenFile(n) PROVE Outside
  <2>1. stack = <<>> /\ result = "none" /\ n \in Nodes
    BY <1>0, <1>5, Constants DEF OpenFile
  <2>2. OpenStep /\ BufferStep
    BY <1>5, <2>1 DEF OpenFile, OpenStep, BufferStep
  <2>3. failed' \in BOOLEAN
    BY <1>5 DEF OpenFile, Refused, Firmware
  <2>4. status' \in {"SUCCESS", "ERROR"}
    BY <1>5 DEF OpenFile, Refused
  <2> QED
    BY <1>0, <1>5, <2>1, <2>2, <2>3, <2>4 DEF OpenFile, Outside, listing
<1>6. ASSUME NEW n \in Paths, SetDirectory(n) PROVE Outside
  <2>1. stack = <<>> /\ result = "none"
    BY <1>0, <1>6 DEF SetDirectory
  <2>2. BlOpenSubDirectory(n) /\ pending' = <<>> /\ UNCHANGED listing
    BY <1>6 DEF SetDirectory
  <2> QED
    BY <1>0, <2>1, <2>2, SubDirectoryOpens DEF Outside, listing
<1>7. ASSUME NEW n \in Paths, SubDirectoryForClient(n) PROVE Outside
  <2>1. BlOpenSubDirectory(n) /\ NotListing /\ Idle /\ UNCHANGED pending
    BY <1>7 DEF SubDirectoryForClient
  <2> QED
    BY <1>0, <2>1, SubDirectoryOpens DEF Outside, Idle, NotListing
<1>8. ASSUME NEW h \in held, BlGetFileName(h) PROVE Outside
  <2>1. OpenStep /\ BufferStep
    BY <1>8 DEF BlGetFileName, OpenStep, BufferStep
  <2>2. failed' \in BOOLEAN
    BY <1>8 DEF BlGetFileName, Refused, Firmware
  <2>3. status' \in {"SUCCESS", "ERROR", "OUT_OF_RESOURCES"}
    BY <1>8 DEF BlGetFileName, Refused
  <2> QED
    BY <1>0, <1>8, <2>1, <2>2, <2>3 DEF BlGetFileName, Outside, Idle, NotListing
<1>9. ASSUME NEW h \in held, Close(h) PROVE Outside
  <2>1. OpenStep /\ BufferStep
    BY <1>9 DEF Close, OpenStep, BufferStep
  <2>2. failed' \in BOOLEAN
    BY <1>9 DEF Close, Firmware
  <2> QED
    BY <1>0, <1>9, <2>1, <2>2 DEF Close, Outside, Idle, NotListing
<1>10. CASE FreeBuffer
  <2>1. OpenStep /\ BufferStep
    BY <1>10 DEF FreeBuffer, OpenStep, BufferStep
  <2>2. failed' \in BOOLEAN
    BY <1>10 DEF FreeBuffer, Firmware
  <2> QED
    BY <1>0, <1>10, <2>1, <2>2 DEF FreeBuffer, Outside, Idle, NotListing
<1> QED
  BY <1>1, <1>2, <1>3, <1>4, <1>5, <1>6, <1>7, <1>8, <1>9, <1>10
  DEF OutsideAction

-----------------------------------------------------------------------------
(* BlGetFileInfo. *)

InfoAction ==
    \/ \E h \in held : BlGetFileInfo(h)
    \/ GetInfo \/ GetInfoRefused \/ AllocateInfoAgain \/ GetInfoAgain

\* All that is used of a step of it: it takes a buffer, hands it out, frees it, or
\* leaves the pool alone.
Informs ==
    /\ stack = <<>> /\ stack' = <<>> /\ result' = "none"
    /\ UNCHANGED <<loaded, cur, open, held>>
    /\ \/ /\ Informed = 0 /\ Informed' = 1
          /\ pool < MaxBuffers /\ pool' = pool + 1 /\ owed' = owed
       \/ Informed = 1 /\ Informed' = 0 /\ pool' = pool /\ owed' = owed + 1
       \/ Informed = 1 /\ Informed' = 0 /\ pool' = pool - 1 /\ owed' = owed
       \/ Informed = 0 /\ Informed' = 0 /\ UNCHANGED memory
       \/ GetInfoRefused /\ Informed' = 0 /\ UNCHANGED memory
    /\ status' \in {"SUCCESS", "ERROR", "INVALID_PARAMETER", "OUT_OF_RESOURCES"}
    /\ pending' \in {<<>>} \cup Asking
    /\ failed' \in BOOLEAN
    /\ from' \in {from, Volumes[1]}
    /\ printed' \in {printed, <<>>}
    /\ UNCHANGED <<printed, from>> \/ NotListing

LEMMA Askings ==
    /\ \A what \in {"get", "again", "get again"} : <<"info", what>> \in Asking
    /\ <<"info", "get">> \in {"info"} \X {"get", "get again"}
    /\ <<"info", "get again">> \in {"info"} \X {"get", "get again"}
    /\ <<"info", "again">> \notin {"info"} \X {"get", "get again"}
    /\ \A what : <<"info", what>> # <<>>
  BY DEF Asking

LEMMA InfoActionIs == IInv /\ InfoAction => Informs
<1> SUFFICES ASSUME IInv, InfoAction PROVE Informs
  OBVIOUS
<1>0. /\ status \in {"SUCCESS", "ERROR", "INVALID_PARAMETER", "OUT_OF_RESOURCES"}
      /\ pending # <<>> => stack = <<>> /\ result = "none"
  BY DEF IInv, CallInv
<1>1. ASSUME NEW h \in held, BlGetFileInfo(h) PROVE Informs
  <2>1. Informed = 0 /\ stack = <<>> /\ NotListing
    BY <1>1, InformedIs DEF BlGetFileInfo, Idle
  <2>2. /\ UNCHANGED <<loaded, cur, open, held>> /\ owed' = owed
        /\ failed' \in BOOLEAN
    BY <1>1 DEF BlGetFileInfo, Refused, Firmware
  <2>3. CASE /\ pool < MaxBuffers /\ pool' = pool + 1
             /\ pending' = <<"info", "get">> /\ UNCHANGED status
    <3>1. Informed' = 1
      BY <2>3, Askings DEF Informed
    <3> QED
      BY <1>0, <2>1, <2>2, <2>3, <3>1, Askings DEF Informs, NotListing
  <2>4. CASE Refused /\ UNCHANGED <<pool, pending>>
    <3>1. pending' = <<>> /\ Informed' = 0 /\ UNCHANGED memory
      BY <1>1, <2>2, <2>4, InformedNext DEF BlGetFileInfo, Idle, memory
    <3> QED
      BY <2>1, <2>2, <2>4, <3>1 DEF Informs, NotListing, Refused
  <2> QED
    BY <1>1, <2>3, <2>4 DEF BlGetFileInfo
<1>2. ASSUME pending # <<>>, UNCHANGED around
      PROVE  /\ stack = <<>> /\ stack' = <<>> /\ result' = "none"
             /\ UNCHANGED <<loaded, cur, open, held>> /\ UNCHANGED <<printed, from>>
  BY <1>0, <1>2 DEF around, listing
<1>3. CASE GetInfo
  <2>1. pending = <<"info", "get">> /\ UNCHANGED around /\ Informed = 1
    BY <1>3, Askings DEF GetInfo, Informed
  <2>2. failed' \in BOOLEAN /\ status' = status
    BY <1>3 DEF GetInfo, Firmware
  <2>3. \/ pending' = <<>> /\ owed' = owed + 1 /\ pool' = pool
        \/ pending' = <<"info", "again">> /\ pool' = pool - 1 /\ owed' = owed
    BY <1>3 DEF GetInfo
  <2>4. Informed' = 0 /\ pending' \in {<<>>} \cup Asking
    BY <2>3, Askings, InformedNext DEF Informed
  <2> QED
    BY <1>0, <1>2, <2>1, <2>2, <2>3, <2>4, Askings DEF Informs
<1>4. CASE GetInfoRefused
  <2>1. pending = <<"info", "get">> /\ UNCHANGED around /\ UNCHANGED memory
    BY <1>4 DEF GetInfoRefused
  <2>2. failed' \in BOOLEAN /\ status' = "ERROR" /\ pending' = <<>>
    BY <1>4 DEF GetInfoRefused, Refused, Firmware
  <2>3. Informed' = 0
    BY <2>2, InformedNext
  <2> QED
    BY <1>2, <1>4, <2>1, <2>2, <2>3, Askings DEF Informs
<1>5. CASE AllocateInfoAgain
  <2>1. pending = <<"info", "again">> /\ UNCHANGED around /\ owed' = owed /\ Informed = 0
    BY <1>5, Askings DEF AllocateInfoAgain, Informed
  <2>2. failed' \in BOOLEAN /\ status' \in {status, "ERROR"}
    BY <1>5 DEF AllocateInfoAgain, Firmware, Refused
  <2>3. \/ pool < MaxBuffers /\ pool' = pool + 1 /\ pending' = <<"info", "get again">>
        \/ pending' = <<>> /\ pool' = pool
    BY <1>5 DEF AllocateInfoAgain
  <2>4. CASE pool < MaxBuffers /\ pool' = pool + 1 /\ pending' = <<"info", "get again">>
    <3>1. Informed' = 1
      BY <2>4, Askings DEF Informed
    <3> QED
      BY <1>0, <1>2, <2>1, <2>2, <2>4, <3>1, Askings DEF Informs
  <2>5. CASE pending' = <<>> /\ pool' = pool
    <3>1. Informed' = 0 /\ UNCHANGED memory
      BY <2>1, <2>5, InformedNext DEF memory
    <3> QED
      BY <1>0, <1>2, <2>1, <2>2, <2>5, <3>1, Askings DEF Informs
  <2> QED
    BY <2>3, <2>4, <2>5
<1>6. CASE GetInfoAgain
  <2>1. pending = <<"info", "get again">> /\ UNCHANGED around /\ Informed = 1
    BY <1>6, Askings DEF GetInfoAgain, Informed
  <2>2. failed' \in BOOLEAN /\ status' \in {status, "ERROR"}
    BY <1>6 DEF GetInfoAgain, Firmware, Refused
  <2>3. \/ owed' = owed + 1 /\ pool' = pool
        \/ pool' = pool - 1 /\ owed' = owed
    BY <1>6 DEF GetInfoAgain
  <2>4. pending' = <<>> /\ Informed' = 0
    BY <1>6, InformedNext DEF GetInfoAgain
  <2> QED
    BY <1>0, <1>2, <2>1, <2>2, <2>3, <2>4, Askings DEF Informs
<1> QED
  BY <1>1, <1>3, <1>4, <1>5, <1>6 DEF InfoAction

LEMMA InfoKeeps == IInv /\ InfoAction => IInv'
<1> SUFFICES ASSUME IInv, Informs PROVE IInv'
  BY InfoActionIs
<1>1. HandlesInv'
  BY DEF IInv, HandlesInv, Informs
<1>2. StackInv'
  <2>1. stack' = <<>> /\ Len(stack') = 0
    BY DEF Informs
  <2> QED
    BY <2>1 DEF StackInv
<1>3. PoolInv'
  <2>1. Busy = 0 /\ Busy' = 0
    BY DEF Informs, Busy
  <2>2. /\ pool \in 0..MaxBuffers /\ owed \in 0..MaxBuffers /\ MaxBuffers \in Nat
        /\ pool >= owed + Informed
    BY <2>1, Constants, InformedIs DEF IInv, PoolInv
  <2>3. \/ /\ Informed = 0 /\ Informed' = 1
           /\ pool < MaxBuffers /\ pool' = pool + 1 /\ owed' = owed
        \/ Informed = 1 /\ Informed' = 0 /\ pool' = pool /\ owed' = owed + 1
        \/ Informed = 1 /\ Informed' = 0 /\ pool' = pool - 1 /\ owed' = owed
        \/ Informed' = 0 /\ pool' = pool /\ owed' = owed
    BY DEF Informs, memory
  <2>4. Informed \in {0, 1}
    BY InformedIs
  <2>5. pool' \in 0..MaxBuffers /\ owed' \in 0..MaxBuffers /\ pool' >= owed' + Informed'
    BY <2>2, <2>3, <2>4
  <2>6. owed' + Busy' + Informed' = owed' + Informed'
    BY <2>1, <2>5
  <2> QED
    BY <2>5, <2>6 DEF PoolInv
<1>4. CallInv'
  BY DEF Informs, CallInv, LastErrorAgrees
<1>5. PrintInv'
  <2>1. from' \in Dirs
    BY Constants DEF IInv, PrintInv, Informs
  <2>2. printed' \in Seq([depth : Nat, node : Nodes])
    BY NothingPrinted DEF IInv, PrintInv, Informs
  <2>3. loaded' \in BOOLEAN /\ failed' \in BOOLEAN
    BY DEF IInv, PrintInv, Informs
  <2> QED
    BY <2>1, <2>2, <2>3 DEF PrintInv
<1> QED
  BY <1>1, <1>2, <1>3, <1>4, <1>5 DEF IInv

-----------------------------------------------------------------------------
(* Listings. *)

\* A listing that begins, for a directory that is open.
Begins(h) ==
    /\ h \in DOMAIN open' /\ h \in held' \cup {cur'}
    /\ open'[h].node \in Dirs
    /\ Enter(h, open'[h].node)

LEMMA BeginsKeeps ==
    ASSUME IInv, Idle, OpenStep, UNCHANGED <<pool, owed, loaded, pending>>,
           NEW h, Begins(h), failed' \in BOOLEAN,
           status' \in {"SUCCESS", "ERROR", "INVALID_PARAMETER", "OUT_OF_RESOURCES"}
    PROVE  IInv'
<1>1. HandlesInv'
  BY OpenStepKeeps DEF IInv
<1>2. /\ stack' = <<[handle |-> h, reading |-> FALSE]>>
      /\ Len(stack') = 1 /\ stack' # <<>>
      /\ stack'[1] = [handle |-> h, reading |-> FALSE]
  BY DEF Begins, Enter
<1>3. h \in Handles
  BY <1>1 DEF Begins, HandlesInv
<1>4. StackInv'
  <2>1. [handle |-> h, reading |-> FALSE] \in Frame
    BY <1>3 DEF Frame
  <2>2. stack' \in Seq(Frame)
    BY <1>2, <2>1
  <2> QED
    BY <1>2, <2>2 DEF StackInv, Begins
<1>5. PoolInv'
  <2>1. Busy = 0 /\ Busy' = 0
    BY <1>2 DEF Idle, Busy
  <2>2. Informed = 0 /\ Informed' = 0
    BY InformedIs, InformedNext DEF Idle
  <2> QED
    BY <2>1, <2>2 DEF IInv, PoolInv
<1>6. CallInv'
  <2>1. pending' = <<>> /\ result' = "none"
    BY DEF Idle, Begins, Enter
  <2> QED
    BY <1>2, <2>1 DEF CallInv, LastErrorAgrees
<1>7. PrintInv'
  BY NothingPrinted DEF IInv, PrintInv, Begins, Enter
<1> QED
  BY <1>1, <1>4, <1>5, <1>6, <1>7 DEF IInv

LEMMA ListOpenDirectoryBegins ==
    ASSUME IInv, NEW h \in held, ListOpenDirectory(h)
    PROVE  IInv'
<1>1. Begins(h)
  BY DEF ListOpenDirectory, Begins, Enter, IInv, HandlesInv
<1>2. OpenStep /\ Idle /\ UNCHANGED <<pool, owed, loaded, pending>>
  BY DEF ListOpenDirectory, OpenStep, memory
<1>3. failed' \in BOOLEAN
  BY DEF ListOpenDirectory, Firmware
<1>4. status' \in {"SUCCESS", "ERROR", "INVALID_PARAMETER", "OUT_OF_RESOURCES"}
  BY DEF ListOpenDirectory, IInv, CallInv
<1> QED
  BY <1>1, <1>2, <1>3, <1>4, BeginsKeeps

LEMMA BlListAllFilesKeeps == IInv /\ BlListAllFiles => IInv'
<1> SUFFICES ASSUME IInv, BlListAllFiles PROVE IInv'
  OBVIOUS
<1>1. Idle /\ UNCHANGED <<loaded, held, pool, owed, pending>>
  BY DEF BlListAllFiles, memory
<1>2. /\ OpenStep /\ failed' \in BOOLEAN
      /\ status' \in {"SUCCESS", "ERROR", "INVALID_PARAMETER", "OUT_OF_RESOURCES"}
  <2>1. CASE cur # NULL
    BY <2>1 DEF BlListAllFiles, OpenStep, Firmware, IInv, CallInv
  <2>2. CASE cur = NULL
    BY <1>1, <2>2, GetRootOpens DEF BlListAllFiles
  <2> QED
    BY <2>1, <2>2
<1>3. HandlesInv'
  BY <1>2, OpenStepKeeps DEF IInv
<1>4. CASE cur' # NULL
  <2>1. cur' \in DOMAIN open' /\ open'[cur'].node \in Dirs
    BY <1>3, <1>4, Constants DEF HandlesInv
  <2>2. Begins(cur')
    BY <1>4, <2>1 DEF BlListAllFiles, Begins
  <2> QED
    BY <1>1, <1>2, <2>2, BeginsKeeps
<1>5. CASE cur' = NULL
  <2>1. /\ stack = <<>> /\ stack' = <<>> /\ from' = Volumes[1] /\ printed' = <<>>
        /\ result' = "FALSE" /\ pending' = <<>>
    BY <1>1, <1>5 DEF BlListAllFiles, Idle
  <2>2. StackInv'
    <3>1. Len(stack') = 0
      BY <2>1
    <3> QED
      BY <2>1, <3>1 DEF StackInv
  <2>3. PoolInv'
    <3>1. Busy = 0 /\ Busy' = 0
      BY <2>1 DEF Busy
    <3>2. Informed = 0 /\ Informed' = 0
      BY <1>1, InformedIs, InformedNext DEF Idle
    <3> QED
      BY <1>1, <3>1, <3>2 DEF IInv, PoolInv
  <2>4. CallInv'
    <3>1. cur = NULL /\ GetRoot
      <4>1. cur' = cur \/ GetRoot
        BY DEF BlListAllFiles
      <4> QED
        BY <1>5, <4>1 DEF BlListAllFiles
    <3>2. loaded' => status' # "SUCCESS"
      <4>1. CanOpen => NewHandle # NULL
        BY NewHandleIs, Constants
      <4> QED
        BY <1>1, <1>5, <3>1, <4>1 DEF GetRoot, Refused
    <3> QED
      BY <1>2, <2>1, <3>2 DEF CallInv, LastErrorAgrees
  <2>5. PrintInv'
    <3>1. from' \in Dirs
      BY <2>1, Constants
    <3>2. loaded' \in BOOLEAN
      BY <1>1 DEF IInv, PrintInv
    <3> QED
      BY <1>2, <2>1, <3>1, <3>2, NothingPrinted DEF PrintInv
  <2> QED
    BY <1>3, <2>2, <2>3, <2>4, <2>5 DEF IInv
<1> QED
  BY <1>4, <1>5

\* The innermost call.
LEMMA TopIs ==
    ASSUME HandlesInv, StackInv, stack # <<>>
    PROVE  /\ Len(stack) \in Nat \ {0} /\ DOMAIN stack = 1..Len(stack)
           /\ Len(stack) \in 1..Len(stack)
           /\ Top = stack[Len(stack)] /\ Top \in Frame
           /\ Top.handle \in DOMAIN open /\ Top.handle \in Handles
           /\ Top.reading \in BOOLEAN
           /\ open[Top.handle] \in Record /\ open[Top.handle].node \in Dirs
           /\ Position \in Nat
           /\ Names = Tree[open[Top.handle].node]
<1>1. stack \in Seq(Frame)
  BY DEF StackInv
<1>2. Len(stack) \in Nat \ {0} /\ DOMAIN stack = 1..Len(stack)
  BY <1>1
<1>3. Len(stack) \in 1..Len(stack)
  BY <1>2
<1>4. Top = stack[Len(stack)]
  BY DEF Top, Last
<1>5. Top \in Frame
  BY <1>1, <1>3, <1>4
<1>6. Top.handle \in DOMAIN open /\ open[Top.handle].node \in Dirs
  BY <1>3, <1>4 DEF StackInv
<1>7. open[Top.handle] \in Record
  BY <1>6 DEF HandlesInv
<1>8. Position \in Nat
  BY <1>7 DEF Position, Record
<1> QED
  BY <1>2, <1>3, <1>4, <1>5, <1>6, <1>7, <1>8 DEF Frame, Names

\* The table of handles, but for a position.
Same(T) ==
    /\ DOMAIN T = DOMAIN open
    /\ T \in [DOMAIN open -> Record]
    /\ \A h \in DOMAIN open : T[h].node = open[h].node

LEMMA MovedIsSame ==
    ASSUME HandlesInv, NEW h \in DOMAIN open, NEW x \in Nat
    PROVE  Same([open EXCEPT ![h].pos = x])
<1> DEFINE T == [open EXCEPT ![h].pos = x]
<1>1. DOMAIN T = DOMAIN open
  OBVIOUS
<1>2. ASSUME NEW g \in DOMAIN open
      PROVE  T[g] = IF g = h THEN [open[g] EXCEPT !.pos = x] ELSE open[g]
  OBVIOUS
<1>3. \A g \in DOMAIN open : open[g] \in Record
  BY DEF HandlesInv
<1>4. \A r \in Record : [r EXCEPT !.pos = x] \in Record /\ [r EXCEPT !.pos = x].node = r.node
  BY DEF Record
<1>5. \A g \in DOMAIN open : T[g] \in Record /\ T[g].node = open[g].node
  BY <1>2, <1>3, <1>4
<1>6. T = [g \in DOMAIN open |-> T[g]]
  OBVIOUS
<1>7. T \in [DOMAIN open -> Record]
  <2> HIDE DEF T
  <2> QED
    BY <1>5, <1>6
<1> QED
  BY <1>1, <1>5, <1>7 DEF Same

LEMMA SameItself == HandlesInv => Same(open)
  BY DEF HandlesInv, Same

LEMMA FrontIs ==
    ASSUME NEW S, NEW s \in Seq(S), Len(s) > 1
    PROVE  /\ Front(s) \in Seq(S) /\ Len(Front(s)) = Len(s) - 1 /\ Front(s) # <<>>
           /\ \A k \in 1..(Len(s) - 1) : Front(s)[k] = s[k]
<1>1. Front(s) = SubSeq(s, 1, Len(s) - 1)
  BY DEF Front
<1> DEFINE k == Len(s) - 1
<1>2. k \in Nat /\ k >= 1 /\ k <= Len(s)
  OBVIOUS
<1> HIDE DEF k
<1>3. Len(SubSeq(s, 1, k)) = k
  BY <1>2
<1>4. \A j \in 1..k : SubSeq(s, 1, k)[j] = s[j]
  BY <1>2
<1>5. SubSeq(s, 1, k) \in Seq(S)
  BY <1>2
<1>6. SubSeq(s, 1, k) # <<>>
  BY <1>2, <1>3
<1> QED
  BY <1>1, <1>3, <1>4, <1>5, <1>6 DEF k

\* A call that returns leaves the handles of the calls around it as they were.
LEMMA ReturnKeeps ==
    ASSUME HandlesInv, StackInv, stack # <<>>, NEW T, Same(T), NEW value,
           Return(T, value), UNCHANGED <<cur, held>>
    PROVE  /\ HandlesInv' /\ StackInv'
           /\ Busy' = Len(stack) - 1
           /\ IF stack' = <<>> THEN result' = value ELSE result' = result
<1>1. CASE Len(stack) = 1
  <2>1. open' = T /\ stack' = <<>> /\ result' = value /\ Len(stack') = 0
    BY <1>1 DEF Return
  <2>2. HandlesInv'
    BY <2>1, Constants DEF HandlesInv, Same
  <2>3. StackInv'
    BY <2>1 DEF StackInv
  <2> QED
    BY <1>1, <2>1, <2>2, <2>3 DEF Busy
<1>2. CASE Len(stack) # 1
  <2>1. open' = Closed(T, Top.handle) /\ stack' = Front(stack) /\ result' = result
    BY <1>2 DEF Return
  <2>2. Len(stack) \in Nat /\ Len(stack) > 1 /\ stack \in Seq(Frame)
    <3>1. Len(stack) \in Nat \ {0}
      BY TopIs
    <3>2. Len(stack) > 1
      <4>1. \A n \in Nat \ {0} : n # 1 => n > 1
        OBVIOUS
      <4> QED
        BY <1>2, <3>1, <4>1
    <3>3. stack \in Seq(Frame)
      BY DEF StackInv
    <3> QED
      BY <3>1, <3>2, <3>3
  <2>3. /\ stack' \in Seq(Frame) /\ Len(stack') = Len(stack) - 1 /\ stack' # <<>>
        /\ \A k \in 1..(Len(stack) - 1) : stack'[k] = stack[k]
    BY <2>1, <2>2, FrontIs
  <2>4. /\ DOMAIN open' = DOMAIN open \ {Top.handle}
        /\ \A h \in DOMAIN open \ {Top.handle} :
              open'[h] = T[h] /\ open'[h].node = open[h].node
        /\ open' \in [DOMAIN open \ {Top.handle} -> Record]
    BY <2>1 DEF Closed, Same
  <2>5. Top.handle \notin held \cup {cur}
    BY <2>2, TopIs DEF StackInv
  <2>6. HandlesInv'
    BY <2>4, <2>5 DEF HandlesInv
  <2>7. ASSUME NEW k \in 1..(Len(stack) - 1)
        PROVE  /\ stack[k].handle \in DOMAIN open /\ open[stack[k].handle].node \in Dirs
               /\ k = 1 <=> stack[k].handle \in held \cup {cur}
               /\ stack[k].reading
               /\ stack[k].handle # Top.handle
               /\ \A j \in 1..(k - 1) : stack[k].handle # stack[j].handle
    <3>1. k \in 1..Len(stack) /\ k < Len(stack)
      BY <2>2
    <3>2. stack[Len(stack)].handle # stack[k].handle
      <4>1. k \in 1..(Len(stack) - 1) /\ Len(stack) \in 1..Len(stack)
        BY <2>2
      <4> QED
        BY <4>1 DEF StackInv
    <3> QED
      BY <3>1, <3>2, TopIs DEF StackInv
  <2>8. StackInv'
    <3> SUFFICES ASSUME NEW k \in 1..(Len(stack) - 1)
                 PROVE  /\ stack'[k].handle \in DOMAIN open'
                        /\ open'[stack'[k].handle].node \in Dirs
                        /\ k = 1 <=> stack'[k].handle \in held' \cup {cur'}
                        /\ k < Len(stack') => stack'[k].reading
                        /\ \A j \in 1..(k - 1) : stack'[k].handle # stack'[j].handle
      BY <2>3 DEF StackInv
    <3>1. stack'[k] = stack[k] /\ \A j \in 1..(k - 1) : stack'[j] = stack[j]
      BY <2>2, <2>3
    <3>2. stack[k].handle \in DOMAIN open \ {Top.handle}
      BY <2>7
    <3> QED
      BY <2>4, <2>7, <3>1, <3>2
  <2>9. Busy' = Len(stack) - 1
    <3>1. Len(stack') \in 1..(Len(stack) - 1)
      BY <2>2, <2>3
    <3>2. stack'[Len(stack')].reading
      BY <2>3, <2>7, <3>1
    <3> QED
      BY <2>3, <3>2 DEF Busy
  <2> QED
    BY <2>1, <2>3, <2>6, <2>8, <2>9
<1> QED
  BY <1>1, <1>2

LEMMA StartReadingIs ==
    ASSUME StackInv, stack # <<>>
    PROVE  LET S == [stack EXCEPT ![Len(stack)].reading = TRUE] IN
           /\ S \in Seq(Frame) /\ Len(S) = Len(stack) /\ S # <<>>
           /\ \A k \in 1..Len(stack) : /\ S[k].handle = stack[k].handle
                                       /\ stack[k].reading => S[k].reading
           /\ S[Len(stack)].reading
<1> DEFINE S == [stack EXCEPT ![Len(stack)].reading = TRUE]
<1>1. stack \in Seq(Frame) /\ Len(stack) \in Nat /\ DOMAIN stack = 1..Len(stack)
  BY DEF StackInv
<1>2. Len(stack) # 0
  BY <1>1
<1>3. ASSUME NEW k \in 1..Len(stack)
      PROVE  S[k] = IF k = Len(stack) THEN [stack[k] EXCEPT !.reading = TRUE] ELSE stack[k]
  BY <1>1
<1>4. \A r \in Frame : /\ [r EXCEPT !.reading = TRUE] \in Frame
                       /\ [r EXCEPT !.reading = TRUE].handle = r.handle
                       /\ [r EXCEPT !.reading = TRUE].reading
  BY DEF Frame
<1>5. \A k \in 1..Len(stack) : stack[k] \in Frame
  BY <1>1
<1>6. \A k \in 1..Len(stack) : /\ S[k] \in Frame /\ S[k].handle = stack[k].handle
                               /\ stack[k].reading => S[k].reading
  BY <1>3, <1>4, <1>5
<1>7. S = [k \in 1..Len(stack) |-> S[k]]
  BY <1>1
<1>8. Len(stack) \in 1..Len(stack)
  BY <1>1, <1>2
<1>9. S[Len(stack)].reading
  BY <1>3, <1>4, <1>5, <1>8
<1>10. S \in [1..Len(stack) -> Frame]
  <2> HIDE DEF S
  <2> QED
    BY <1>6, <1>7
<1>11. S \in Seq(Frame) /\ Len(S) = Len(stack)
  <2> HIDE DEF S
  <2>1. S \in Seq(Frame)
    BY <1>1, <1>10
  <2>2. DOMAIN S = 1..Len(stack)
    BY <1>10
  <2> QED
    BY <1>1, <2>1, <2>2
<1>12. S # <<>>
  <2> HIDE DEF S
  <2> QED
    BY <1>2, <1>11
<1> QED
  BY <1>6, <1>9, <1>11, <1>12

\* A position that changes, or a call that starts to read.
LEMMA MoveKeeps ==
    ASSUME HandlesInv, StackInv, stack # <<>>, NEW T, Same(T), open' = T,
           UNCHANGED <<cur, held>>,
           \/ stack' = stack
           \/ stack' = [stack EXCEPT ![Len(stack)].reading = TRUE]
    PROVE  /\ HandlesInv' /\ StackInv'
           /\ Len(stack') = Len(stack) /\ stack' # <<>>
           /\ stack' # stack => Busy' = Len(stack)
           /\ stack' = stack => Busy' = Busy
<1>1. HandlesInv'
  BY Constants DEF HandlesInv, Same
<1>2. /\ stack' \in Seq(Frame) /\ Len(stack') = Len(stack) /\ stack' # <<>>
      /\ \A k \in 1..Len(stack) : /\ stack'[k].handle = stack[k].handle
                                  /\ stack[k].reading => stack'[k].reading
  <2>1. CASE stack' = stack
    BY <2>1 DEF StackInv
  <2>2. CASE stack' = [stack EXCEPT ![Len(stack)].reading = TRUE]
    BY <2>2, StartReadingIs
  <2> QED
    BY <2>1, <2>2
<1>3. StackInv'
  <2> SUFFICES ASSUME NEW k \in 1..Len(stack)
               PROVE  /\ stack'[k].handle \in DOMAIN open'
                      /\ open'[stack'[k].handle].node \in Dirs
                      /\ k = 1 <=> stack'[k].handle \in held' \cup {cur'}
                      /\ k < Len(stack') => stack'[k].reading
                      /\ \A j \in 1..(k - 1) : stack'[k].handle # stack'[j].handle
    BY <1>2 DEF StackInv
  <2>1. \A j \in 1..(k - 1) : stack'[j].handle = stack[j].handle
    <3>1. \A j \in 1..(k - 1) : j \in 1..Len(stack)
      BY TopIs
    <3> QED
      BY <1>2, <3>1
  <2>2. stack'[k].handle = stack[k].handle
    BY <1>2
  <2>3. DOMAIN open' = DOMAIN open /\ \A h \in DOMAIN open : open'[h].node = open[h].node
    BY DEF Same
  <2>4. /\ stack[k].handle \in DOMAIN open
        /\ open[stack[k].handle].node \in Dirs
        /\ k = 1 <=> stack[k].handle \in held \cup {cur}
        /\ k < Len(stack) => stack[k].reading
        /\ \A j \in 1..(k - 1) : stack[k].handle # stack[j].handle
    BY DEF StackInv
  <2> QED
    BY <1>2, <2>1, <2>2, <2>3, <2>4
<1>4. stack' # stack => Busy' = Len(stack)
  <2> SUFFICES ASSUME stack' # stack PROVE Busy' = Len(stack)
    OBVIOUS
  <2>1. stack'[Len(stack)].reading
    BY StartReadingIs
  <2> QED
    BY <1>2, <2>1 DEF Busy
<1>5. stack' = stack => Busy' = Busy
  BY DEF Busy
<1> QED
  BY <1>1, <1>2, <1>3, <1>4, <1>5

\* A call for a subdirectory.
LEMMA PushKeeps ==
    ASSUME HandlesInv, StackInv, stack # <<>>, NEW T, Same(T), NEW n \in Dirs, CanOpen,
           open' = Opened(T, n), UNCHANGED <<cur, held>>, Top.reading,
           stack' = Append(stack, [handle |-> NewHandle, reading |-> FALSE])
    PROVE  /\ HandlesInv' /\ StackInv' /\ stack' # <<>>
           /\ Busy' = Len(stack) /\ Busy = Len(stack)
<1>1. NewHandle \in Handles /\ NewHandle \notin DOMAIN open /\ NewHandle # NULL
  BY NewHandleIs, Constants
<1>2. n \in Nodes
  BY Constants
<1>3. /\ DOMAIN open' = DOMAIN open \cup {NewHandle}
      /\ open' \in [DOMAIN open \cup {NewHandle} -> Record]
      /\ open'[NewHandle].node = n
      /\ \A h \in DOMAIN open : open'[h].node = open[h].node
  BY <1>2, OpenedIs DEF Same
<1>4. HandlesInv'
  BY <1>1, <1>3 DEF HandlesInv
<1> DEFINE new == [handle |-> NewHandle, reading |-> FALSE]
<1> DEFINE len == Len(stack)
<1>5. new \in Frame /\ new.handle = NewHandle /\ new.reading = FALSE
  BY <1>1 DEF Frame
<1>6. /\ stack' \in Seq(Frame) /\ Len(stack') = len + 1 /\ stack' # <<>>
      /\ \A k \in 1..len : stack'[k] = stack[k]
      /\ stack'[len + 1] = new
  <2>1. stack \in Seq(Frame) /\ stack' = Append(stack, new)
    BY DEF StackInv
  <2> HIDE DEF new
  <2> QED
    BY <1>5, <2>1
<1>7. len \in Nat \ {0} /\ stack[len].reading
  BY TopIs
<1>8. NewHandle \notin held \cup {cur}
  BY <1>1 DEF HandlesInv
<1>9. ASSUME NEW k \in 1..len
      PROVE  /\ stack'[k].handle \in DOMAIN open'
             /\ open'[stack'[k].handle].node \in Dirs
             /\ k = 1 <=> stack'[k].handle \in held' \cup {cur'}
             /\ stack'[k].reading
             /\ \A j \in 1..(k - 1) : stack'[k].handle # stack'[j].handle
  <2>1. \A j \in 1..(k - 1) : stack'[j] = stack[j]
    BY <1>6, <1>7
  <2>2. stack[k].reading
    BY <1>7 DEF StackInv
  <2> QED
    BY <1>3, <1>6, <2>1, <2>2 DEF StackInv
<1>10. /\ stack'[len + 1].handle \in DOMAIN open'
       /\ open'[stack'[len + 1].handle].node \in Dirs
       /\ stack'[len + 1].handle \notin held' \cup {cur'}
       /\ \A j \in 1..len : stack'[len + 1].handle # stack'[j].handle
  <2>1. \A j \in 1..len : stack[j].handle \in DOMAIN open
    BY DEF StackInv
  <2> QED
    BY <1>1, <1>3, <1>5, <1>6, <1>8, <2>1
<1>11. StackInv'
  <2> SUFFICES ASSUME NEW k \in 1..(len + 1)
               PROVE  /\ stack'[k].handle \in DOMAIN open'
                      /\ open'[stack'[k].handle].node \in Dirs
                      /\ k = 1 <=> stack'[k].handle \in held' \cup {cur'}
                      /\ k < len + 1 => stack'[k].reading
                      /\ \A j \in 1..(k - 1) : stack'[k].handle # stack'[j].handle
    BY <1>6 DEF StackInv
  <2>1. CASE k \in 1..len
    BY <1>9, <2>1
  <2>2. CASE k = len + 1
    <3>1. k - 1 = len /\ k # 1 /\ ~(k < len + 1)
      BY <1>7, <2>2
    <3> QED
      BY <1>10, <2>2, <3>1
  <2>3. k \in 1..len \/ k = len + 1
    BY <1>7
  <2> QED
    BY <2>1, <2>2, <2>3
<1>12. Busy' = Len(stack) /\ Busy = Len(stack)
  BY <1>5, <1>6, <1>7 DEF Busy
<1> QED
  BY <1>4, <1>6, <1>11, <1>12

\* A line is added to what has been printed, or none is.
LEMMA EntryIsTyped ==
    ASSUME IInv, NEW kind, AtEntry(kind)
    PROVE  /\ stack # <<>> /\ Top.reading
           /\ Entry.node \in Nodes /\ Entry.kind = kind
           /\ kind = "dir" => Entry.node \in Dirs
           /\ PrintEntry => printed' \in Seq([depth : Nat, node : Nodes])
           /\ Same(Advanced)
<1>1. HandlesInv /\ StackInv /\ stack # <<>>
  BY DEF IInv, AtEntry
<1> DEFINE d == open[Top.handle].node
<1> DEFINE p == Position
<1>2. d \in Dirs /\ p \in Nat /\ Names = Tree[d] /\ Top.handle \in DOMAIN open
      /\ Len(stack) \in Nat \ {0}
  BY <1>1, TopIs
<1>3. Len(Tree[d]) \in Nat
  BY <1>2, FileSystemAssumption
<1>4. p + 1 \in 1..Len(Tree[d])
  <2>1. p < Len(Tree[d])
    BY <1>2 DEF AtEntry
  <2> HIDE DEF p, d
  <2> QED
    BY <1>2, <1>3, <2>1
<1>5. Entry = Tree[d][p + 1]
  BY <1>2 DEF Entry
<1>6. Entry.node \in Nodes /\ (Entry.kind = "dir" => Entry.node \in Dirs)
  <2> HIDE DEF p, d
  <2> QED
    BY <1>2, <1>4, <1>5, EntryTypes
<1>7. Entry.kind = kind /\ Top.reading
  BY DEF AtEntry
<1>8. PrintEntry => printed' \in Seq([depth : Nat, node : Nodes])
  <2> DEFINE line == [depth |-> Len(stack) - 1, node |-> Entry.node]
  <2>1. line \in [depth : Nat, node : Nodes]
    <3>1. Len(stack) - 1 \in Nat
      BY <1>2
    <3> QED
      BY <1>6, <3>1
  <2>2. printed \in Seq([depth : Nat, node : Nodes])
    BY DEF IInv, PrintInv
  <2>3. PrintEntry => printed' = Append(printed, line)
    BY DEF PrintEntry
  <2> HIDE DEF line
  <2>4. \A S : \A s \in Seq(S) : \A e \in S : Append(s, e) \in Seq(S)
    OBVIOUS
  <2> QED
    BY <2>1, <2>2, <2>3, <2>4
<1>9. Same(Advanced)
  <2>1. Advanced = [open EXCEPT ![Top.handle].pos = p + 1]
    BY DEF Advanced, Position
  <2>2. p + 1 \in Nat
    BY <1>2
  <2> HIDE DEF p
  <2> QED
    BY <1>1, <1>2, <2>1, <2>2, MovedIsSame
<1> QED
  BY <1>1, <1>6, <1>7, <1>8, <1>9

LEMMA BusyIs ==
    StackInv /\ stack # <<>> =>
        Busy = (IF Top.reading THEN Len(stack) ELSE Len(stack) - 1)
  BY DEF Busy, Top, Last

\* What the listing leaves alone.
LEMMA Elsewhere ==
    IInv /\ stack # <<>> /\ UNCHANGED elsewhere =>
        /\ UNCHANGED <<cur, held>>
        /\ loaded' \in BOOLEAN /\ owed' = owed /\ owed \in 0..MaxBuffers
        /\ pending' = <<>> /\ from' \in Dirs
        /\ Informed = 0 /\ Informed' = 0
<1> SUFFICES ASSUME IInv, stack # <<>>, UNCHANGED elsewhere
             PROVE  /\ UNCHANGED <<cur, held>>
                    /\ loaded' \in BOOLEAN /\ owed' = owed /\ owed \in 0..MaxBuffers
                    /\ pending' = <<>> /\ from' \in Dirs
                    /\ Informed = 0 /\ Informed' = 0
  OBVIOUS
<1>1. pending = <<>> /\ pending' = <<>>
  BY DEF IInv, CallInv, elsewhere
<1>2. Informed = 0 /\ Informed' = 0
  BY <1>1, InformedIs, InformedNext
<1> QED
  BY <1>1, <1>2 DEF IInv, elsewhere, PoolInv, PrintInv

\* A call that returns, having freed its buffer if it had one.
LEMMA ReturnDone ==
    ASSUME IInv, stack # <<>>, NEW T, Same(T), NEW value \in {"TRUE", "FALSE"},
           Return(T, value), UNCHANGED elsewhere,
           pool' = (IF Top.reading THEN pool - 1 ELSE pool),
           status' \in {"SUCCESS", "ERROR", "OUT_OF_RESOURCES"},
           value = "TRUE" <=> status' = "SUCCESS",
           failed' \in BOOLEAN, printed' \in Seq([depth : Nat, node : Nodes])
    PROVE  IInv' /\ pool' - Busy' = pool - Busy
<1>0. HandlesInv /\ StackInv
  BY DEF IInv
<1>1. UNCHANGED <<cur, held>>
  BY Elsewhere
<1>2. /\ HandlesInv' /\ StackInv'
      /\ Busy' = Len(stack) - 1
      /\ IF stack' = <<>> THEN result' = value ELSE result' = result
  BY <1>0, <1>1, ReturnKeeps
<1>3. Len(stack) \in Nat \ {0} /\ Top.reading \in BOOLEAN
  BY <1>0, TopIs
<1>4. Busy = (IF Top.reading THEN Len(stack) ELSE Len(stack) - 1)
  BY <1>0, BusyIs
<1>5. pool \in 0..MaxBuffers /\ owed \in 0..MaxBuffers /\ pool >= owed + Busy
  BY <1>3, <1>4, Elsewhere DEF IInv, PoolInv
<1>6. pool' - Busy' = pool - Busy
  BY <1>2, <1>3, <1>4, <1>5
<1>7. PoolInv'
  <2>1. owed' = owed /\ Informed' = 0
    BY Elsewhere
  <2>2. pool' \in 0..MaxBuffers /\ pool' >= owed + Busy' + 0
    BY <1>2, <1>3, <1>4, <1>5, Constants
  <2> QED
    BY <1>5, <2>1, <2>2 DEF PoolInv
<1>8. CallInv'
  <2>1. result = "none"
    BY DEF IInv, CallInv
  <2>2. pending' = <<>>
    BY Elsewhere
  <2>3. stack' # <<>> => result' = "none"
    BY <1>2, <2>1
  <2>4. stack' = <<>> => result' = value
    BY <1>2
  <2> QED
    BY <2>2, <2>3, <2>4 DEF CallInv, LastErrorAgrees
<1>9. PrintInv'
  BY Elsewhere DEF PrintInv
<1> QED
  BY <1>2, <1>6, <1>7, <1>8, <1>9 DEF IInv

\* A call that goes on.
LEMMA GoesOn ==
    ASSUME IInv, stack # <<>>, HandlesInv', StackInv', stack' # <<>>,
           UNCHANGED elsewhere, UNCHANGED result, status' = "SUCCESS",
           pool' \in 0..MaxBuffers, pool' - Busy' = pool - Busy, Busy' \in Nat, Busy \in Nat,
           failed' \in BOOLEAN, printed' \in Seq([depth : Nat, node : Nodes])
    PROVE  IInv'
<1>1. PoolInv'
  <2>1. pool \in 0..MaxBuffers /\ owed \in 0..MaxBuffers /\ pool >= owed + Busy
    BY Elsewhere DEF IInv, PoolInv
  <2>2. owed' = owed /\ Informed' = 0
    BY Elsewhere
  <2>3. pool' >= owed + Busy' + 0
    <3>1. \A p, q, o, b, c \in Int : q - c = p - b /\ p >= o + b => q >= o + c + 0
      OBVIOUS
    <3>2. pool \in Int /\ pool' \in Int /\ owed \in Int /\ Busy \in Int /\ Busy' \in Int
      BY <2>1
    <3> QED
      BY <2>1, <3>1, <3>2
  <2> QED
    BY <2>1, <2>2, <2>3 DEF PoolInv
<1>2. CallInv'
  <2>1. result' = "none" /\ pending' = <<>>
    BY Elsewhere DEF IInv, CallInv
  <2> QED
    BY <2>1 DEF CallInv, LastErrorAgrees
<1>3. PrintInv'
  BY Elsewhere DEF PrintInv
<1> QED
  BY <1>1, <1>2, <1>3 DEF IInv

LEMMA BusyIsNat == StackInv => Busy \in Nat
<1> SUFFICES ASSUME StackInv PROVE Busy \in Nat
  OBVIOUS
<1>1. Len(stack) \in Nat
  BY DEF StackInv
<1>2. stack # <<>> => Len(stack) # 0
  BY DEF StackInv
<1> QED
  BY <1>1, <1>2 DEF Busy

\* A step of a listing keeps the invariant, and of the buffers only its own count.
LEMMA ListStepKeeps == IInv /\ ListStep => IInv' /\ pool' - Busy' = pool - Busy
<1> SUFFICES ASSUME IInv, ListStep PROVE IInv' /\ pool' - Busy' = pool - Busy
  OBVIOUS
<1>0. /\ HandlesInv /\ StackInv /\ Same(open)
      /\ printed \in Seq([depth : Nat, node : Nodes])
      /\ pool \in 0..MaxBuffers /\ Busy \in Nat
  BY SameItself, BusyIsNat DEF IInv, PrintInv, PoolInv
<1>1. CASE Rewind
  <2>1. stack # <<>> /\ ~Top.reading /\ UNCHANGED elsewhere /\ printed' = printed
    BY <1>1 DEF Rewind
  <2>2. Top.handle \in DOMAIN open /\ 0 \in Nat
    BY <1>0, <2>1, TopIs
  <2>3. Same([open EXCEPT ![Top.handle].pos = 0])
    BY <1>0, <2>2, MovedIsSame
  <2>4. CASE Refused /\ Return(open, "FALSE") /\ UNCHANGED pool
    <3>1. status' = "ERROR" /\ failed' \in BOOLEAN
      BY <2>4 DEF Refused, Firmware
    <3> QED
      BY <1>0, <2>1, <2>4, <3>1, ReturnDone
  <2>5. CASE /\ status' = "OUT_OF_RESOURCES" /\ Firmware(TRUE)
             /\ Return([open EXCEPT ![Top.handle].pos = 0], "FALSE") /\ UNCHANGED pool
    <3>1. failed' \in BOOLEAN
      BY <2>5 DEF Firmware
    <3> QED
      BY <1>0, <2>1, <2>3, <2>5, <3>1, ReturnDone
  <2>6. CASE /\ pool < MaxBuffers /\ pool' = pool + 1
             /\ open' = [open EXCEPT ![Top.handle].pos = 0]
             /\ stack' = [stack EXCEPT ![Len(stack)].reading = TRUE]
             /\ status' = "SUCCESS" /\ Firmware(FALSE)
             /\ UNCHANGED result
    <3>1. failed' \in BOOLEAN
      BY <2>6 DEF Firmware
    <3>2. stack' # stack
      <4>1. stack[Len(stack)] = Top /\ stack'[Len(stack)].reading
        BY <1>0, <2>1, <2>6, TopIs, StartReadingIs
      <4> QED
        BY <2>1, <4>1
    <3>3. UNCHANGED <<cur, held>>
      BY <2>1, Elsewhere
    <3>4. HandlesInv' /\ StackInv' /\ stack' # <<>> /\ Busy' = Len(stack)
      BY <1>0, <2>1, <2>3, <2>6, <3>2, <3>3, MoveKeeps
    <3>5. Busy = Len(stack) - 1 /\ Len(stack) \in Nat
      BY <1>0, <2>1, BusyIs, TopIs
    <3>6. pool' \in 0..MaxBuffers /\ pool' - Busy' = pool - Busy /\ Busy' \in Nat
      <4>1. \A p, m \in Nat : p < m => p + 1 \in 0..m
        OBVIOUS
      <4>2. \A p, n \in Int : (p + 1) - n = p - (n - 1)
        OBVIOUS
      <4>3. pool \in Nat /\ MaxBuffers \in Nat
        BY <1>0, Constants
      <4>4. pool < MaxBuffers /\ pool' = pool + 1
        BY <2>6
      <4>5. pool' \in 0..MaxBuffers
        BY <4>1, <4>3, <4>4
      <4>6. pool' - Busy' = pool - Busy
        BY <3>4, <3>5, <4>2, <4>3, <4>4
      <4> QED
        BY <3>4, <3>5, <4>5, <4>6
    <3> QED
      BY <1>0, <2>1, <2>6, <3>1, <3>4, <3>6, GoesOn
  <2> QED
    BY <1>1, <2>4, <2>5, <2>6 DEF Rewind
<1>2. CASE ReadFails
  <2>1. /\ stack # <<>> /\ Top.reading /\ UNCHANGED elsewhere /\ printed' = printed
        /\ Return(open, "FALSE") /\ pool' = pool - 1
    BY <1>2 DEF ReadFails
  <2>2. status' = "ERROR" /\ failed' \in BOOLEAN
    BY <1>2 DEF ReadFails, Refused, Firmware
  <2> QED
    BY <1>0, <2>1, <2>2, ReturnDone
<1>3. CASE ReadNothingMore
  <2>1. /\ stack # <<>> /\ Top.reading /\ UNCHANGED elsewhere /\ printed' = printed
        /\ Return(open, "TRUE") /\ pool' = pool - 1
    BY <1>3 DEF ReadNothingMore
  <2>2. status' = "SUCCESS" /\ failed' \in BOOLEAN
    BY <1>3 DEF ReadNothingMore, Firmware
  <2> QED
    BY <1>0, <2>1, <2>2, ReturnDone
<1>4. CASE CannotEnter
  <2>1. /\ UNCHANGED elsewhere /\ PrintEntry /\ AtEntry("dir")
        /\ Return(Advanced, "FALSE") /\ pool' = pool - 1
    BY <1>4 DEF CannotEnter
  <2>2. /\ stack # <<>> /\ Top.reading /\ Same(Advanced)
        /\ printed' \in Seq([depth : Nat, node : Nodes])
    BY <2>1, EntryIsTyped
  <2>3. status' = "ERROR" /\ failed' \in BOOLEAN
    BY <1>4 DEF CannotEnter, Refused, Firmware
  <2> QED
    BY <2>1, <2>2, <2>3, ReturnDone
<1>5. CASE SkipDots \/ ListFile
  <2>1. /\ open' = Advanced /\ stack' = stack /\ pool' = pool /\ result' = result
        /\ status' = "SUCCESS" /\ UNCHANGED elsewhere
        /\ printed' = printed \/ PrintEntry
    BY <1>5 DEF SkipDots, ListFile
  <2>2. /\ stack # <<>> /\ Same(Advanced)
        /\ printed' \in Seq([depth : Nat, node : Nodes])
    <3>1. AtEntry("dot") \/ AtEntry("file")
      BY <1>5 DEF SkipDots, ListFile
    <3> QED
      BY <1>0, <2>1, <3>1, EntryIsTyped
  <2>3. failed' \in BOOLEAN
    BY <1>5 DEF SkipDots, ListFile, Firmware
  <2>4. UNCHANGED <<cur, held>>
    BY <2>1, <2>2, Elsewhere
  <2>5. HandlesInv' /\ StackInv' /\ stack' # <<>> /\ Busy' = Busy
    BY <1>0, <2>1, <2>2, <2>4, MoveKeeps
  <2>6. pool' \in 0..MaxBuffers /\ pool' - Busy' = pool - Busy /\ Busy' \in Nat
    BY <1>0, <2>1, <2>5
  <2> QED
    BY <1>0, <2>1, <2>2, <2>3, <2>5, <2>6, GoesOn
<1>6. CASE EnterDirectory
  <2>1. /\ AtEntry("dir") /\ PrintEntry /\ CanOpen
        /\ open' = Opened(Advanced, Entry.node)
        /\ stack' = Append(stack, [handle |-> NewHandle, reading |-> FALSE])
        /\ pool' = pool /\ result' = result
        /\ status' = "SUCCESS" /\ UNCHANGED elsewhere
    BY <1>6 DEF EnterDirectory
  <2>2. /\ stack # <<>> /\ Top.reading /\ Same(Advanced) /\ Entry.node \in Dirs
        /\ printed' \in Seq([depth : Nat, node : Nodes])
    BY <2>1, EntryIsTyped
  <2>3. failed' \in BOOLEAN
    BY <1>6 DEF EnterDirectory, Firmware
  <2>4. UNCHANGED <<cur, held>>
    BY <2>1, <2>2, Elsewhere
  <2>5. HandlesInv' /\ StackInv' /\ stack' # <<>> /\ Busy' = Len(stack) /\ Busy = Len(stack)
    BY <1>0, <2>1, <2>2, <2>4, PushKeeps
  <2>6. pool' \in 0..MaxBuffers /\ pool' - Busy' = pool - Busy /\ Busy' \in Nat
    BY <1>0, <2>1, <2>5
  <2> QED
    BY <1>0, <2>1, <2>2, <2>3, <2>5, <2>6, GoesOn
<1> QED
  BY <1>1, <1>2, <1>3, <1>4, <1>5, <1>6 DEF ListStep

LEMMA Stutter == IInv /\ UNCHANGED vars => IInv'
<1> SUFFICES ASSUME IInv, UNCHANGED vars PROVE IInv'
  OBVIOUS
<1>1. /\ loaded' = loaded /\ status' = status /\ cur' = cur /\ open' = open /\ held' = held
      /\ pool' = pool /\ owed' = owed /\ pending' = pending /\ stack' = stack
      /\ from' = from /\ printed' = printed /\ result' = result /\ failed' = failed
  BY DEF vars, memory, listing
<1>2. HandlesInv'
  BY <1>1 DEF IInv, HandlesInv
<1>3. StackInv'
  BY <1>1 DEF IInv, StackInv
<1>4. PoolInv'
  BY <1>1 DEF IInv, PoolInv, Busy, Informed
<1>5. CallInv'
  BY <1>1 DEF IInv, CallInv, LastErrorAgrees
<1>6. PrintInv'
  BY <1>1 DEF IInv, PrintInv
<1> QED
  BY <1>2, <1>3, <1>4, <1>5, <1>6 DEF IInv

LEMMA NextCases ==
    Next <=> \/ OutsideAction \/ InfoAction \/ \E h \in held : ListOpenDirectory(h)
             \/ BlListAllFiles \/ ListStep
  BY DEF Next, OutsideAction, InfoAction

LEMMA InvKept == IInv /\ [Next]_vars => IInv'
<1> SUFFICES ASSUME IInv, [Next]_vars PROVE IInv'
  OBVIOUS
<1>1. CASE OutsideAction
  BY <1>1, OutsideActionIs, OutsideKeeps
<1>2. ASSUME NEW h \in held, ListOpenDirectory(h) PROVE IInv'
  BY <1>2, ListOpenDirectoryBegins
<1>3. CASE BlListAllFiles
  BY <1>3, BlListAllFilesKeeps
<1>4. CASE ListStep
  BY <1>4, ListStepKeeps
<1>5. CASE UNCHANGED vars
  BY <1>5, Stutter
<1>6. CASE InfoAction
  BY <1>6, InfoKeeps
<1> QED
  BY <1>1, <1>2, <1>3, <1>4, <1>5, <1>6, NextCases

LEMMA SpecInv == Spec => []IInv
  BY InitInv, InvKept, PTL DEF Spec

\* Nothing FileSystem keeps is mistyped, whichever call of the firmware fails.
THEOREM TypeCorrect == Spec => []TypeOK
  BY SpecInv, TypesFollow, PTL

\* The current directory and every directory of the recursion (filesystem.c 216-313)
\* stay open, whatever the client closes, the recursion closes and the firmware fails.
THEOREM StackStaysOpen == Spec => []DirectoriesStayOpen
<1>1. IInv => DirectoriesStayOpen
  <2> SUFFICES ASSUME IInv PROVE DirectoriesStayOpen
    OBVIOUS
  <2>1. DOMAIN stack = 1..Len(stack)
    BY DEF IInv, StackInv
  <2>2. cur # NULL => cur \in DOMAIN open /\ open[cur].node \in ToSet(Volumes)
    BY DEF IInv, HandlesInv
  <2>3. \A k \in 1..Len(stack) : /\ stack[k].handle \in DOMAIN open
                                 /\ \A j \in 1..(k - 1) : stack[k].handle # stack[j].handle
    BY DEF IInv, StackInv
  <2> QED
    BY <2>1, <2>2, <2>3 DEF DirectoriesStayOpen
<1> QED
  BY <1>1, SpecInv, PTL

\* What a listing returns agrees with the error it leaves (filesystem.h:87), although
\* every call inside it sets the error too.
THEOREM ErrorFitsResult == Spec => []LastErrorAgrees
<1>1. IInv => LastErrorAgrees
  BY DEF IInv, CallInv
<1> QED
  BY <1>1, SpecInv, PTL

-----------------------------------------------------------------------------
(* Handles and buffers that are lost. *)

LEMMA ActiveIs == StackInv => Cardinality(Active) = Busy
<1> SUFFICES ASSUME StackInv PROVE Cardinality(Active) = Busy
  OBVIOUS
<1>1. /\ Len(stack) \in Nat /\ DOMAIN stack = 1..Len(stack)
      /\ \A k \in 1..Len(stack) : k < Len(stack) => stack[k].reading
  BY DEF StackInv
<1>2. \A n \in Nat : Cardinality(1..n) = n
  BY FS_Interval
<1>3. CASE stack = <<>>
  <2>1. Active = {}
    BY <1>3 DEF Active
  <2> QED
    BY <1>3, <2>1, FS_EmptySet DEF Busy
<1>4. CASE stack # <<>> /\ stack[Len(stack)].reading
  <2>1. Active = 1..Len(stack)
    BY <1>1, <1>4 DEF Active
  <2> QED
    BY <1>1, <1>2, <1>4, <2>1 DEF Busy
<1>5. CASE stack # <<>> /\ ~stack[Len(stack)].reading
  <2>1. Len(stack) # 0
    BY <1>5 DEF StackInv
  <2>2. Len(stack) - 1 \in Nat
    BY <1>1, <2>1
  <2>3. Active = 1..(Len(stack) - 1)
    BY <1>1, <1>5 DEF Active
  <2> QED
    BY <1>2, <1>5, <2>2, <2>3 DEF Busy
<1> QED
  BY <1>3, <1>4, <1>5

LEMMA UnownedIs == IInv => Unowned = pool - owed - Busy - Informed
  BY ActiveIs DEF IInv, Unowned

UnownedAgrees == Unowned = pool - owed - Busy - Informed

LEMMA UnownedNext == IInv' => Unowned' = pool' - owed' - Busy' - Informed'
<1>1. IInv => UnownedAgrees
  BY UnownedIs DEF UnownedAgrees
<1>2. IInv' => UnownedAgrees'
  BY <1>1, PTL
<1> QED
  BY <1>2 DEF UnownedAgrees

StackHandles == {stack[k].handle : k \in DOMAIN stack}

LEMMA UnreachableIs == Unreachable = DOMAIN open \ ({cur} \cup held \cup StackHandles)
  BY DEF Unreachable, StackHandles

LEMMA NoStackHandles == stack = <<>> => StackHandles = {} /\ Busy = 0
  BY DEF StackHandles, Busy

\* A root opened when there was no current directory is not lost.
LEMMA GetRootKeepsReach ==
    ASSUME IInv, GetRoot, UNCHANGED held, cur = NULL \/ cur' = cur
    PROVE  DOMAIN open' \ ({cur'} \cup held') = DOMAIN open \ ({cur} \cup held)
<1>1. CASE CanOpen /\ open' = Opened(open, Volumes[1]) /\ cur' = NewHandle
  <2>1. NewHandle \notin DOMAIN open /\ held \subseteq DOMAIN open
    BY <1>1, NewHandleIs DEF IInv, HandlesInv
  <2>2. cur = NULL /\ NULL \notin DOMAIN open
    <3>1. DOMAIN open \subseteq Handles /\ (cur # NULL => cur \in DOMAIN open)
      BY DEF IInv, HandlesInv
    <3> QED
      BY <1>1, <2>1, <3>1, Constants
  <2>3. DOMAIN open' = DOMAIN open \cup {NewHandle}
    BY <1>1 DEF Opened
  <2> QED
    BY <1>1, <2>1, <2>2, <2>3
<1>2. CASE UNCHANGED <<open, cur>>
  BY <1>2
<1> QED
  BY <1>1, <1>2 DEF GetRoot

\* A step after which the same handles and buffers are lost as before.
Keeps == Unreachable' = Unreachable /\ Unowned' = Unowned

\* The exceptions.
Loses ==
    \/ cur # NULL /\ cur' # cur
    \/ \E n \in Paths : SubDirectoryForClient(n) \/ SetDirectory(n)
    \/ \E index \in 0..3 : BlGetRootDirectoryByIndex(index)
    \/ GetInfoRefused

LEMMA OutsideReach ==
    ASSUME IInv, IInv', stack = <<>>, stack' = <<>>,
           DOMAIN open' \ ({cur'} \cup held') = DOMAIN open \ ({cur} \cup held),
           pool' - owed' - Informed' = pool - owed - Informed
    PROVE  Keeps
<1>1. StackHandles = {} /\ Busy = 0 /\ StackHandles' = {} /\ Busy' = 0
  BY NoStackHandles DEF StackHandles, Busy
<1>2. Unreachable' = Unreachable
  <2>1. Unreachable = DOMAIN open \ ({cur} \cup held)
    BY <1>1, UnreachableIs
  <2>2. Unreachable' = DOMAIN open' \ ({cur'} \cup held')
    BY <1>1 DEF Unreachable, StackHandles
  <2> QED
    BY <2>1, <2>2
<1>3. Unowned' = Unowned
  <2>1. pool \in Nat /\ owed \in Nat /\ pool' \in Nat /\ owed' \in Nat
    BY DEF IInv, PoolInv
  <2>2. Unowned = pool - owed - 0 - Informed
    BY <1>1, UnownedIs
  <2>3. Unowned' = pool' - owed' - 0 - Informed'
    BY <1>1, UnownedNext
  <2> QED
    BY <2>1, <2>2, <2>3
<1> QED
  BY <1>2, <1>3 DEF Keeps

LEMMA OutsideKeepsOrLoses == IInv /\ IInv' /\ OutsideAction => Keeps \/ Loses
<1> SUFFICES ASSUME IInv, IInv', OutsideAction, ~Loses PROVE Keeps
  OBVIOUS
<1>1. stack = <<>> /\ stack' = <<>>
  BY OutsideActionIs DEF Outside
<1>2. pool \in Nat /\ owed \in Nat
  BY DEF IInv, PoolInv
<1>3. DOMAIN open' \ ({cur'} \cup held') = DOMAIN open \ ({cur} \cup held)
  <2>1. CASE BlInitFileSystem \/ FreeBuffer \/ \E h \in held : BlGetFileName(h)
    BY <2>1 DEF BlInitFileSystem, FreeBuffer, BlGetFileName
  <2>2. CASE BlGetRootDirectory
    <3>1. GetRoot /\ UNCHANGED held /\ (cur = NULL \/ cur' = cur)
      BY <2>2 DEF BlGetRootDirectory, Loses
    <3> QED
      BY <3>1, GetRootKeepsReach
  <2>3. ASSUME NEW n \in Paths, BlFindFile(n) \/ BlSetWorkingDirectory(n)
        PROVE  DOMAIN open' \ ({cur'} \cup held') = DOMAIN open \ ({cur} \cup held)
    <3>1. CASE cur # NULL
      BY <2>3, <3>1 DEF BlFindFile, BlSetWorkingDirectory, Call
    <3>2. CASE cur = NULL
      <4>1. GetRoot /\ UNCHANGED held
        BY <2>3, <3>2 DEF BlFindFile, BlSetWorkingDirectory, Call
      <4> QED
        BY <3>2, <4>1, GetRootKeepsReach
    <3> QED
      BY <3>1, <3>2
  <2>4. ASSUME NEW n \in Paths, OpenFile(n)
        PROVE  DOMAIN open' \ ({cur'} \cup held') = DOMAIN open \ ({cur} \cup held)
    <3>1. CASE CanOpen /\ open' = Opened(open, n) /\ held' = held \cup {NewHandle}
      <4>1. NewHandle \notin DOMAIN open
        BY <3>1, NewHandleIs
      <4>2. DOMAIN open' = DOMAIN open \cup {NewHandle} /\ cur' = cur
        BY <2>4, <3>1 DEF OpenFile, Opened
      <4> QED
        BY <3>1, <4>1, <4>2
    <3>2. CASE UNCHANGED <<open, held>>
      BY <2>4, <3>2 DEF OpenFile
    <3> QED
      BY <2>4, <3>1, <3>2 DEF OpenFile
  <2>5. ASSUME NEW h \in held, Close(h)
        PROVE  DOMAIN open' \ ({cur'} \cup held') = DOMAIN open \ ({cur} \cup held)
    <3>1. DOMAIN open' = DOMAIN open \ {h} /\ held' = held \ {h} /\ cur' = cur
      BY <2>5 DEF Close, Closed
    <3>2. h \in DOMAIN open
      BY DEF IInv, HandlesInv
    <3> QED
      BY <3>1, <3>2
  <2> QED
    BY <2>1, <2>2, <2>3, <2>4, <2>5 DEF OutsideAction, Loses
<1>4. pool' - owed' = pool - owed
  <2>1. CASE FreeBuffer
    BY <1>2, <2>1 DEF FreeBuffer
  <2>2. ASSUME NEW h \in held, BlGetFileName(h) PROVE pool' - owed' = pool - owed
    <3>1. \/ pool' = pool + 1 /\ owed' = owed + 1
          \/ pool' = pool /\ owed' = owed
      BY <2>2 DEF BlGetFileName, memory
    <3> QED
      BY <1>2, <3>1
  <2>3. CASE BlInitFileSystem \/ BlGetRootDirectory
    BY <2>3 DEF BlInitFileSystem, BlGetRootDirectory, memory
  <2>4. CASE \E n \in Paths : BlFindFile(n) \/ OpenFile(n) \/ BlSetWorkingDirectory(n)
    BY <2>4 DEF BlFindFile, OpenFile, BlSetWorkingDirectory, Call, memory
  <2>5. CASE \E h \in held : Close(h)
    BY <2>5 DEF Close, memory
  <2> QED
    BY <2>1, <2>2, <2>3, <2>4, <2>5 DEF OutsideAction, Loses
<1>5. Informed = 0 /\ Informed' = 0
  <2>1. Informed' = 0
    BY OutsideActionIs, InformedNext DEF Outside
  <2>2. CASE Idle
    BY <2>1, <2>2, InformedIs DEF Idle
  <2>3. ASSUME NEW n \in Paths, OpenFile(n) PROVE Informed = 0
    <3>1. pending = <<"find", n>> /\ <<"find", n>> \in ByName
      BY <2>3 DEF OpenFile, ByName
    <3> QED
      BY <3>1, InformedIs
  <2>4. ASSUME NEW n \in Paths, SetDirectory(n) PROVE Informed = 0
    <3>1. pending = <<"subdirectory", n>> /\ <<"subdirectory", n>> \in ByName
      BY <2>4 DEF SetDirectory, ByName
    <3> QED
      BY <3>1, InformedIs
  <2>5. Idle \/ \E n \in Paths : OpenFile(n) \/ SetDirectory(n)
    BY DEF OutsideAction, BlInitFileSystem, BlGetRootDirectory, BlGetRootDirectoryByIndex,
           BlFindFile, BlSetWorkingDirectory, SubDirectoryForClient, BlGetFileName, Close,
           FreeBuffer, Call
  <2> QED
    BY <2>1, <2>2, <2>3, <2>4, <2>5
<1> QED
  BY <1>1, <1>3, <1>4, <1>5, OutsideReach

\* BlGetFileInfo accounts for its buffer in every step but one.
LEMMA InfoKeepsOrLoses == IInv /\ IInv' /\ InfoAction => Keeps \/ Loses
<1> SUFFICES ASSUME IInv, IInv', Informs, ~GetInfoRefused PROVE Keeps
  BY InfoActionIs DEF Loses
<1>1. stack = <<>> /\ stack' = <<>>
  BY DEF Informs
<1>2. DOMAIN open' \ ({cur'} \cup held') = DOMAIN open \ ({cur} \cup held)
  BY DEF Informs
<1>3. pool \in Nat /\ owed \in Nat
  BY DEF IInv, PoolInv
<1>4. \/ Informed = 0 /\ Informed' = 1 /\ pool' = pool + 1 /\ owed' = owed
      \/ Informed = 1 /\ Informed' = 0 /\ pool' = pool /\ owed' = owed + 1
      \/ Informed = 1 /\ Informed' = 0 /\ pool' = pool - 1 /\ owed' = owed
      \/ Informed = 0 /\ Informed' = 0 /\ pool' = pool /\ owed' = owed
  BY DEF Informs, memory
<1>5. pool' - owed' - Informed' = pool - owed - Informed
  BY <1>3, <1>4
<1> QED
  BY <1>1, <1>2, <1>5, OutsideReach

\* A listing begins with a handle that somebody has.
LEMMA BeginsKeepsReach ==
    ASSUME IInv, IInv', stack = <<>>, NEW h, Begins(h),
           DOMAIN open' \ ({cur'} \cup held') = DOMAIN open \ ({cur} \cup held),
           UNCHANGED <<pool, owed>>, Informed = 0, Informed' = 0
    PROVE  Keeps
<1>1. stack' = <<[handle |-> h, reading |-> FALSE]>> /\ h \in held' \cup {cur'}
  BY DEF Begins, Enter
<1>2. StackHandles = {} /\ Busy = 0
  BY NoStackHandles
<1>3. StackHandles' = {h} /\ Busy' = 0
  <2>1. Len(stack') = 1 /\ DOMAIN stack' = {1} /\ stack' # <<>>
        /\ stack'[1] = [handle |-> h, reading |-> FALSE]
    BY <1>1
  <2>2. stack'[1].handle = h /\ ~stack'[1].reading
    BY <2>1
  <2>3. StackHandles' = {stack'[k].handle : k \in {1}}
    BY <2>1 DEF StackHandles
  <2> QED
    BY <2>1, <2>2, <2>3 DEF Busy
<1>4. Unreachable' = DOMAIN open' \ ({cur'} \cup held' \cup StackHandles')
  BY DEF Unreachable, StackHandles
<1>5. Unreachable' = Unreachable
  BY <1>1, <1>2, <1>3, <1>4, UnreachableIs
<1>6. Unowned' = Unowned
  BY <1>2, <1>3, UnownedIs, UnownedNext
<1> QED
  BY <1>5, <1>6 DEF Keeps

LEMMA ListingBeginsKeeps ==
    ASSUME IInv, IInv',
           BlListAllFiles \/ \E h \in held : ListOpenDirectory(h)
    PROVE  Keeps
<1>1. ASSUME NEW h \in held, ListOpenDirectory(h) PROVE Keeps
  <2>1. Begins(h)
    BY <1>1 DEF ListOpenDirectory, Begins, Enter, IInv, HandlesInv
  <2>2. stack = <<>> /\ UNCHANGED <<open, cur, held, pool, owed>>
    BY <1>1 DEF ListOpenDirectory, Idle, memory
  <2>3. DOMAIN open' \ ({cur'} \cup held') = DOMAIN open \ ({cur} \cup held)
    BY <2>2
  <2>4. Informed = 0 /\ Informed' = 0
    BY <1>1, InformedIs, InformedNext DEF ListOpenDirectory, Idle
  <2> QED
    BY <2>1, <2>2, <2>3, <2>4, BeginsKeepsReach
<1>2. CASE BlListAllFiles
  <2>0. Informed = 0 /\ Informed' = 0
    BY <1>2, InformedIs, InformedNext DEF BlListAllFiles, Idle
  <2>1. stack = <<>> /\ UNCHANGED <<held, pool, owed>>
    BY <1>2 DEF BlListAllFiles, Idle, memory
  <2>2. DOMAIN open' \ ({cur'} \cup held') = DOMAIN open \ ({cur} \cup held)
    <3>1. CASE cur # NULL
      BY <1>2, <2>1, <3>1 DEF BlListAllFiles
    <3>2. CASE cur = NULL
      <4>1. GetRoot
        BY <1>2, <3>2 DEF BlListAllFiles
      <4> QED
        BY <2>1, <3>2, <4>1, GetRootKeepsReach
    <3> QED
      BY <3>1, <3>2
  <2>3. CASE cur' # NULL
    <3>1. cur' \in DOMAIN open' /\ open'[cur'].node \in Dirs
      BY <2>3, Constants DEF IInv, HandlesInv
    <3>2. Begins(cur')
      BY <1>2, <2>3, <3>1 DEF BlListAllFiles, Begins
    <3> QED
      BY <2>0, <2>1, <2>2, <3>2, BeginsKeepsReach
  <2>4. CASE cur' = NULL
    <3>1. stack' = <<>>
      BY <1>2, <2>4 DEF BlListAllFiles
    <3> QED
      BY <2>0, <2>1, <2>2, <3>1, OutsideReach
  <2> QED
    BY <2>3, <2>4
<1> QED
  BY <1>1, <1>2

\* What is closed is what comes off the stack.
LEMMA ReturnKeepsReach ==
    ASSUME HandlesInv, StackInv, stack # <<>>, NEW T, Same(T), NEW value, Return(T, value),
           UNCHANGED <<cur, held>>
    PROVE  DOMAIN open' \ ({cur'} \cup held' \cup StackHandles') =
              DOMAIN open \ ({cur} \cup held \cup StackHandles)
<1>1. /\ Len(stack) \in Nat \ {0} /\ DOMAIN stack = 1..Len(stack)
      /\ Top = stack[Len(stack)] /\ stack \in Seq(Frame)
  BY TopIs DEF StackInv
<1>2. CASE Len(stack) = 1
  <2>1. stack' = <<>> /\ DOMAIN open' = DOMAIN open /\ DOMAIN stack = {1}
    BY <1>1, <1>2 DEF Return, Same
  <2>2. StackHandles' = {}
    BY <2>1 DEF StackHandles
  <2>3. StackHandles = {stack[1].handle}
    BY <2>1 DEF StackHandles
  <2>4. stack[1].handle \in held \cup {cur}
    <3>1. 1 \in 1..Len(stack)
      BY <1>2
    <3> QED
      BY <3>1 DEF StackInv
  <2> QED
    BY <2>1, <2>2, <2>3, <2>4
<1>3. CASE Len(stack) # 1
  <2>1. open' = Closed(T, Top.handle) /\ stack' = Front(stack)
    BY <1>3 DEF Return
  <2>2. DOMAIN open' = DOMAIN open \ {Top.handle}
    BY <2>1 DEF Closed, Same
  <2>3. Len(stack) > 1
    <3>1. \A n \in Nat \ {0} : n # 1 => n > 1
      OBVIOUS
    <3> QED
      BY <1>1, <1>3, <3>1
  <2>4. /\ stack' \in Seq(Frame) /\ Len(stack') = Len(stack) - 1
        /\ \A k \in 1..(Len(stack) - 1) : stack'[k] = stack[k]
    BY <1>1, <2>1, <2>3, FrontIs
  <2>5. DOMAIN stack' = 1..(Len(stack) - 1)
    BY <2>4
  <2>6. StackHandles' = {stack[k].handle : k \in 1..(Len(stack) - 1)}
    BY <2>4, <2>5 DEF StackHandles
  <2>7. StackHandles = StackHandles' \cup {Top.handle}
    <3>1. DOMAIN stack = 1..(Len(stack) - 1) \cup {Len(stack)}
      BY <1>1, <2>3
    <3> QED
      BY <1>1, <2>6, <3>1 DEF StackHandles
  <2> QED
    BY <2>2, <2>7
<1> QED
  BY <1>2, <1>3

LEMMA MoveKeepsReach ==
    ASSUME HandlesInv, StackInv, stack # <<>>, NEW T, Same(T), open' = T,
           UNCHANGED <<cur, held>>,
           \/ stack' = stack
           \/ stack' = [stack EXCEPT ![Len(stack)].reading = TRUE]
    PROVE  DOMAIN open' \ ({cur'} \cup held' \cup StackHandles') =
              DOMAIN open \ ({cur} \cup held \cup StackHandles)
<1>1. DOMAIN open' = DOMAIN open
  BY DEF Same
<1>2. StackHandles' = StackHandles
  <2>1. CASE stack' = stack
    BY <2>1 DEF StackHandles
  <2>2. CASE stack' = [stack EXCEPT ![Len(stack)].reading = TRUE]
    <3>1. /\ stack' \in Seq(Frame) /\ Len(stack') = Len(stack)
          /\ \A k \in 1..Len(stack) : stack'[k].handle = stack[k].handle
      BY <2>2, StartReadingIs
    <3>2. DOMAIN stack = 1..Len(stack) /\ DOMAIN stack' = 1..Len(stack)
      BY <3>1 DEF StackInv
    <3> QED
      BY <3>1, <3>2 DEF StackHandles
  <2> QED
    BY <2>1, <2>2
<1> QED
  BY <1>1, <1>2

LEMMA ListStepReach ==
    ASSUME IInv, ListStep
    PROVE  DOMAIN open' \ ({cur'} \cup held' \cup StackHandles') =
              DOMAIN open \ ({cur} \cup held \cup StackHandles)
<1>0. HandlesInv /\ StackInv /\ Same(open)
  BY SameItself DEF IInv
<1>1. stack # <<>> /\ UNCHANGED elsewhere
  BY DEF ListStep, Rewind, ReadFails, ReadNothingMore, SkipDots, ListFile, EnterDirectory,
         CannotEnter, AtEntry
<1>2. UNCHANGED <<cur, held>>
  BY <1>1, Elsewhere
<1>3. Same([open EXCEPT ![Top.handle].pos = 0])
  BY <1>0, <1>1, TopIs, MovedIsSame
<1>4. \A kind : AtEntry(kind) => Same(Advanced)
  BY EntryIsTyped
<1>5. \/ \E value : Return(open, value)
      \/ \E value : Return([open EXCEPT ![Top.handle].pos = 0], value)
      \/ \E value : Return(Advanced, value) /\ AtEntry("dir")
      \/ /\ open' = [open EXCEPT ![Top.handle].pos = 0]
         /\ stack' = [stack EXCEPT ![Len(stack)].reading = TRUE]
      \/ open' = Advanced /\ stack' = stack /\ \E kind : AtEntry(kind)
      \/ EnterDirectory
  BY DEF ListStep, Rewind, ReadFails, ReadNothingMore, SkipDots, ListFile, CannotEnter
<1>6. CASE \E value : Return(open, value)
  BY <1>0, <1>1, <1>2, <1>6, ReturnKeepsReach
<1>7. CASE \E value : Return([open EXCEPT ![Top.handle].pos = 0], value)
  BY <1>0, <1>1, <1>2, <1>3, <1>7, ReturnKeepsReach
<1>8. CASE \E value : Return(Advanced, value) /\ AtEntry("dir")
  BY <1>0, <1>1, <1>2, <1>4, <1>8, ReturnKeepsReach
<1>9. CASE /\ open' = [open EXCEPT ![Top.handle].pos = 0]
           /\ stack' = [stack EXCEPT ![Len(stack)].reading = TRUE]
  BY <1>0, <1>1, <1>2, <1>3, <1>9, MoveKeepsReach
<1>10. CASE open' = Advanced /\ stack' = stack /\ \E kind : AtEntry(kind)
  BY <1>0, <1>1, <1>2, <1>4, <1>10, MoveKeepsReach
<1>11. CASE EnterDirectory
  <2>1. /\ CanOpen /\ AtEntry("dir")
        /\ open' = Opened(Advanced, Entry.node)
        /\ stack' = Append(stack, [handle |-> NewHandle, reading |-> FALSE])
    BY <1>11 DEF EnterDirectory
  <2>2. DOMAIN open' = DOMAIN open \cup {NewHandle}
    BY <1>4, <2>1 DEF Opened, Same
  <2>3. NewHandle \in Handles /\ NewHandle \notin DOMAIN open
    BY <2>1, NewHandleIs
  <2>4. StackHandles' = StackHandles \cup {NewHandle}
    <3> DEFINE new == [handle |-> NewHandle, reading |-> FALSE]
    <3> DEFINE len == Len(stack)
    <3>1. new \in Frame /\ new.handle = NewHandle /\ stack' = Append(stack, new)
      BY <2>1, <2>3 DEF Frame
    <3>2. stack \in Seq(Frame) /\ len \in Nat /\ DOMAIN stack = 1..len
      BY <1>0 DEF StackInv
    <3> HIDE DEF new
    <3>3. /\ DOMAIN stack' = 1..(len + 1)
          /\ \A k \in 1..len : stack'[k] = stack[k]
          /\ stack'[len + 1] = new
      BY <3>1, <3>2
    <3>4. 1..(len + 1) = 1..len \cup {len + 1}
      BY <3>2
    <3> HIDE DEF len
    <3> QED
      BY <3>1, <3>2, <3>3, <3>4 DEF StackHandles
  <2> QED
    BY <1>2, <2>2, <2>3, <2>4
<1> QED
  BY <1>5, <1>6, <1>7, <1>8, <1>9, <1>10, <1>11

LEMMA ListStepGivesBack == IInv /\ IInv' /\ ListStep => Keeps
<1> SUFFICES ASSUME IInv, IInv', ListStep PROVE Keeps
  OBVIOUS
<1>1. pool' - Busy' = pool - Busy
  BY ListStepKeeps
<1>2. stack # <<>> /\ UNCHANGED elsewhere
  BY DEF ListStep, Rewind, ReadFails, ReadNothingMore, SkipDots, ListFile, EnterDirectory,
         CannotEnter, AtEntry
<1>3. owed' = owed /\ owed \in Nat /\ pool \in Nat /\ pool' \in Nat
  BY <1>2, Elsewhere DEF IInv, PoolInv
<1>4. Busy \in Nat /\ Busy' \in Nat
  <2>1. Busy \in Nat
    BY BusyIsNat DEF IInv
  <2>2. Len(stack') \in Nat /\ (stack' # <<>> => Len(stack') # 0)
    BY DEF IInv, StackInv
  <2> QED
    BY <2>1, <2>2 DEF Busy
<1>5. Unowned' = Unowned
  <2>1. /\ Unowned = pool - owed - Busy - 0
        /\ Unowned' = pool' - owed' - Busy' - 0
    BY <1>2, Elsewhere, UnownedIs, UnownedNext
  <2>2. PICK p \in Int, q \in Int, o \in Int : p = pool /\ q = pool' /\ o = owed
    BY <1>3
  <2>3. PICK b \in Int, c \in Int : b = Busy /\ c = Busy'
    BY <1>4
  <2>4. q - c = p - b
    BY <1>1, <2>2, <2>3
  <2>5. q - o - c - 0 = p - o - b - 0
    BY <2>4
  <2> QED
    BY <1>3, <2>1, <2>2, <2>3, <2>5
<1>6. Unreachable' = Unreachable
  <2>1. Unreachable' = DOMAIN open' \ ({cur'} \cup held' \cup StackHandles')
    BY DEF Unreachable, StackHandles
  <2> QED
    BY <2>1, ListStepReach, UnreachableIs
<1> QED
  BY <1>5, <1>6 DEF Keeps

\* No listing loses a handle or a buffer, at whatever depth and in whichever call of
\* the firmware it fails, and no other call does but where it is known to (filesystem.c
\* 52, 107, 134, and the refusal of the first GetInfo at 479): BlGetFileInfo frees or
\* hands out its buffer on every other way through its retry (451-480).
THEOREM NothingElseLoses == Spec => OnlyTheseLose
<1>1. IInv /\ IInv' /\ [Next]_vars => Keeps \/ Loses
  <2> SUFFICES ASSUME IInv, IInv', [Next]_vars PROVE Keeps \/ Loses
    OBVIOUS
  <2>1. CASE UNCHANGED vars
    <3>1. /\ cur' = cur /\ open' = open /\ held' = held /\ pool' = pool /\ owed' = owed
          /\ stack' = stack /\ pending' = pending
      BY <2>1 DEF vars, memory, listing
    <3> QED
      BY <3>1 DEF Keeps, Unreachable, Unowned, Active, Informed
  <2> QED
    BY <2>1, NextCases, OutsideKeepsOrLoses, InfoKeepsOrLoses, ListingBeginsKeeps,
       ListStepGivesBack
<1>2. (Keeps \/ Loses) =>
         [(Unreachable' # Unreachable \/ Unowned' # Unowned) =>
             \/ cur # NULL /\ cur' # cur
             \/ \E n \in Paths : SubDirectoryForClient(n) \/ SetDirectory(n)
             \/ \E index \in 0..3 : BlGetRootDirectoryByIndex(index)
             \/ GetInfoRefused]_vars
  BY DEF Keeps, Loses
<1> QED
  BY <1>1, <1>2, SpecInv, PTL DEF Spec, OnlyTheseLose

-----------------------------------------------------------------------------
(* The tree of directories. *)

Line == [depth : Nat, node : Nodes]

IsChild(c, d) == \E x \in DOMAIN Tree[c] : Tree[c][x].kind = "dir" /\ Tree[c][x].node = d

\* What a line shows is in one place of the tree.
LEMMA OnePlace ==
    ASSUME NEW line, NEW c \in Dirs, NEW d \in Dirs,
           NEW x \in DOMAIN Tree[c], NEW y \in DOMAIN Tree[d],
           Shows(line, c, x), Shows(line, d, y)
    PROVE  c = d /\ x = y
<1>1. /\ Tree[c][x].kind # "dot" /\ Tree[d][y].kind # "dot"
      /\ Tree[c][x].node = Tree[d][y].node
  BY DEF Shows
<1>2. <<c, x>> = <<d, y>>
  BY <1>1, FileSystemAssumption
<1> QED
  BY <1>2

LEMMA EntriesOf ==
    ASSUME NEW d \in Dirs
    PROVE  DOMAIN Tree[d] = 1..Len(Tree[d]) /\ Len(Tree[d]) \in Nat
<1>1. Tree[d] \in Seq([kind : {"dot", "dir", "file"}, node : Nodes])
  BY FileSystemAssumption
<1> QED
  BY <1>1

\* No way down leads back to where it began.
LEMMA NoWayBack ==
    ASSUME NEW m \in Nat, m > 0, NEW T \in [1..m -> Dirs],
           \A k \in 1..m : k > 1 => IsChild(T[k - 1], T[k])
    PROVE  ~IsChild(T[m], T[1])
<1> SUFFICES ASSUME IsChild(T[m], T[1]) PROVE FALSE
  OBVIOUS
<1> DEFINE S == {T[k] : k \in 1..m}
<1>1. 1 \in 1..m /\ m \in 1..m
  OBVIOUS
<1>2. S \in SUBSET Dirs /\ S # {}
  BY <1>1
<1>3. PICK d \in S : \A c \in S : \A i \in DOMAIN Tree[c] :
                        Tree[c][i].kind = "dir" => Tree[c][i].node # d
  <2> HIDE DEF S
  <2> QED
    BY <1>2, FileSystemAssumption
<1>4. PICK k \in 1..m : d = T[k]
  OBVIOUS
<1>5. \E c \in S : IsChild(c, d)
  <2>1. CASE k = 1
    BY <1>1, <1>4, <2>1
  <2>2. CASE k > 1
    <3>1. k - 1 \in 1..m
      BY <2>2
    <3> QED
      BY <1>4, <2>2, <3>1
  <2> QED
    BY <2>1, <2>2
<1> QED
  BY <1>3, <1>5 DEF IsChild

-----------------------------------------------------------------------------
(* What has been printed when the recursion is in directories T, in each of   *)
(* which it has come to entry R.                                              *)

\* Directory d has its line, and all lines since are deeper.
OnLine(lines, depth, d) ==
    \E j \in DOMAIN lines :
        /\ lines[j] = [depth |-> depth, node |-> d]
        /\ \A k \in (j + 1)..Len(lines) : lines[k].depth > depth

NotBeyond(lines, d, r) ==
    \A i \in DOMAIN lines : \A x \in DOMAIN Tree[d] : Shows(lines[i], d, x) => x <= r

UpTo(lines, d, r) ==
    \A x \in DOMAIN Tree[d] : x <= r /\ Tree[d][x].kind # "dot" =>
        \E i \in DOMAIN lines : Shows(lines[i], d, x)

AllOf(lines, d) ==
    \A x \in DOMAIN Tree[d] : Tree[d][x].kind # "dot" =>
        \E i \in DOMAIN lines : Shows(lines[i], d, x)

\* The way down.
IsTrail(T, m, top) ==
    /\ m \in Nat /\ T \in [1..m -> Dirs]
    /\ m > 0 => T[1] = top
    /\ \A k \in 1..m : k > 1 => IsChild(T[k - 1], T[k])
    /\ \A k, l \in 1..m : T[k] = T[l] => k = l

Follows(T, R, m, lines, top) ==
    /\ IsTrail(T, m, top) /\ R \in [1..m -> Nat]
    /\ lines \in Seq(Line) /\ top \in Dirs
    /\ IsListing(lines, top)
    /\ \A k \in 1..m : k > 1 => OnLine(lines, k - 2, T[k])
    /\ \A k \in 1..m : NotBeyond(lines, T[k], R[k])

LeavesNoneOut(T, R, m, lines, top) ==
    /\ \A k \in 1..m : UpTo(lines, T[k], R[k])
    /\ \A d \in Dirs \cap ({top} \cup {lines[i].node : i \in DOMAIN lines}) :
          (\E k \in 1..m : T[k] = d) \/ AllOf(lines, d)

\* The innermost directory has come to the entry before one of that kind, for node n.
AtNext(T, R, m, kind, n) ==
    /\ R[m] + 1 \in DOMAIN Tree[T[m]]
    /\ Tree[T[m]][R[m] + 1].kind = kind /\ Tree[T[m]][R[m] + 1].node = n

\* It goes to the next entry.
Passes(R, Q, m) ==
    /\ Q \in [1..m -> Nat]
    /\ Q[m] = R[m] + 1
    /\ \A k \in 1..m : k # m => Q[k] = R[k]

\* It goes to the next entry, and down into it.
GoesDown(T, R, m, U, V, n) ==
    /\ U \in [1..(m + 1) -> Dirs] /\ V \in [1..(m + 1) -> Nat]
    /\ \A k \in 1..m : U[k] = T[k] /\ (k # m => V[k] = R[k])
    /\ V[m] = R[m] + 1 /\ U[m + 1] = n /\ V[m + 1] = 0

\* One line is added.
Adds(lines, line, out) ==
    /\ Len(lines) \in Nat /\ DOMAIN lines = 1..Len(lines)
    /\ DOMAIN out = 1..Len(out) /\ Len(out) = Len(lines) + 1
    /\ out[Len(out)] = line
    /\ \A k \in DOMAIN lines : out[k] = lines[k]

\* Nothing is left out, except that the last line may be that of a directory that is
\* not entered yet.
LeavesOneOut(T, Q, m, lines, out, top) ==
    /\ \A k \in 1..m : UpTo(out, T[k], Q[k])
    /\ \A d \in Dirs \cap ({top} \cup {lines[i].node : i \in DOMAIN lines}) :
          (\E k \in 1..m : T[k] = d) \/ AllOf(out, d)

\* Neither the next entry nor what is below it has a line.
NotYet(T, m, lines, n) ==
    /\ \A i \in DOMAIN lines : lines[i].node # n
    /\ n \in Dirs =>
          /\ \A k \in 1..m : T[k] # n
          /\ \A i \in DOMAIN lines : \A y \in DOMAIN Tree[n] : ~Shows(lines[i], n, y)

\* The innermost directory is left.
LEMMA TrailDrops ==
    ASSUME NEW T, NEW R, NEW m, m > 0, NEW lines, NEW top, Follows(T, R, m, lines, top),
           NEW U \in [1..(m - 1) -> Dirs], NEW Q \in [1..(m - 1) -> Nat],
           \A k \in 1..(m - 1) : U[k] = T[k] /\ Q[k] = R[k]
    PROVE  /\ Follows(U, Q, m - 1, lines, top)
           /\ LeavesNoneOut(T, R, m, lines, top) /\ R[m] >= Len(Tree[T[m]]) =>
                 LeavesNoneOut(U, Q, m - 1, lines, top)
<1>1. m \in Nat /\ m - 1 \in Nat /\ \A k \in 1..(m - 1) : k \in 1..m
  BY DEF Follows, IsTrail
<1>2. IsTrail(U, m - 1, top)
  <2>1. m - 1 > 0 => U[1] = top
    <3>1. m - 1 > 0 => 1 \in 1..(m - 1)
      BY <1>1
    <3> QED
      BY <1>1, <3>1 DEF Follows, IsTrail
  <2>2. ASSUME NEW k \in 1..(m - 1), k > 1 PROVE IsChild(U[k - 1], U[k])
    <3>1. k - 1 \in 1..(m - 1) /\ k \in 1..m
      BY <1>1, <2>2
    <3>2. U[k - 1] = T[k - 1] /\ U[k] = T[k]
      BY <3>1
    <3>3. IsChild(T[k - 1], T[k])
      BY <2>2, <3>1 DEF Follows, IsTrail
    <3> QED
      BY <3>2, <3>3
  <2>3. \A k, l \in 1..(m - 1) : U[k] = U[l] => k = l
    BY <1>1 DEF Follows, IsTrail
  <2> QED
    BY <1>1, <2>1, <2>2, <2>3 DEF IsTrail
<1>3. Follows(U, Q, m - 1, lines, top)
  BY <1>1, <1>2 DEF Follows
<1>4. ASSUME LeavesNoneOut(T, R, m, lines, top), R[m] >= Len(Tree[T[m]])
      PROVE  LeavesNoneOut(U, Q, m - 1, lines, top)
  <2>1. m \in 1..m /\ T[m] \in Dirs /\ R[m] \in Nat
    BY <1>1 DEF Follows, IsTrail
  <2>2. AllOf(lines, T[m])
    <3>1. UpTo(lines, T[m], R[m])
      BY <1>4, <2>1 DEF LeavesNoneOut
    <3>2. \A x \in DOMAIN Tree[T[m]] : x <= R[m]
      <4>1. DOMAIN Tree[T[m]] = 1..Len(Tree[T[m]]) /\ Len(Tree[T[m]]) \in Nat
        BY <2>1, EntriesOf
      <4>2. \A r, l \in Nat : r >= l => \A x \in 1..l : x <= r
        OBVIOUS
      <4> QED
        BY <1>4, <2>1, <4>1, <4>2
    <3> QED
      BY <3>1, <3>2 DEF UpTo, AllOf
  <2>3. \A k \in 1..(m - 1) : UpTo(lines, U[k], Q[k])
    BY <1>1, <1>4 DEF LeavesNoneOut
  <2>4. ASSUME NEW d \in Dirs \cap ({top} \cup {lines[i].node : i \in DOMAIN lines})
        PROVE  (\E k \in 1..(m - 1) : U[k] = d) \/ AllOf(lines, d)
    <3>1. (\E k \in 1..m : T[k] = d) \/ AllOf(lines, d)
      BY <1>4 DEF LeavesNoneOut
    <3>2. \A k \in 1..m : k = m \/ k \in 1..(m - 1)
      BY <1>1
    <3> QED
      BY <2>2, <3>1, <3>2
  <2> QED
    BY <2>3, <2>4 DEF LeavesNoneOut
<1> QED
  BY <1>3, <1>4

\* An entry that has no line is passed, or none is.
LEMMA TrailMoves ==
    ASSUME NEW T, NEW R, NEW m, m > 0, NEW lines, NEW top, Follows(T, R, m, lines, top),
           NEW Q \in [1..m -> Nat], \A k \in 1..m : k # m => Q[k] = R[k],
           \/ Q[m] = R[m]
           \/ /\ Q[m] = R[m] + 1
              /\ Q[m] \in DOMAIN Tree[T[m]] => Tree[T[m]][Q[m]].kind = "dot"
    PROVE  /\ Follows(T, Q, m, lines, top)
           /\ LeavesNoneOut(T, R, m, lines, top) => LeavesNoneOut(T, Q, m, lines, top)
<1>0. m \in Nat /\ T \in [1..m -> Dirs] /\ R \in [1..m -> Nat]
  BY DEF Follows, IsTrail
<1>1. m \in 1..m /\ \A k \in 1..m : R[k] \in Nat /\ Q[k] \in Nat /\ T[k] \in Dirs
  BY <1>0
<1>2. \A k \in 1..m : Q[k] >= R[k]
  BY <1>1
<1>3. ASSUME NEW k \in 1..m PROVE NotBeyond(lines, T[k], Q[k])
  <2>1. NotBeyond(lines, T[k], R[k])
    BY DEF Follows
  <2>2. DOMAIN Tree[T[k]] \subseteq Nat
    BY <1>1, EntriesOf
  <2>3. \A x, q, r \in Nat : x <= r /\ q >= r => x <= q
    OBVIOUS
  <2> QED
    BY <1>1, <1>2, <2>1, <2>2, <2>3 DEF NotBeyond
<1>4. Follows(T, Q, m, lines, top)
  BY <1>3 DEF Follows
<1>5. ASSUME LeavesNoneOut(T, R, m, lines, top), NEW k \in 1..m
      PROVE  UpTo(lines, T[k], Q[k])
  <2>1. UpTo(lines, T[k], R[k])
    BY <1>5 DEF LeavesNoneOut
  <2>2. CASE Q[k] = R[k]
    BY <2>1, <2>2
  <2>3. CASE Q[k] # R[k]
    <3>1. k = m /\ Q[m] = R[m] + 1
      BY <2>3
    <3>2. \A x \in DOMAIN Tree[T[m]] : x <= Q[m] => x <= R[m] \/ x = Q[m]
      <4>1. DOMAIN Tree[T[m]] \subseteq Nat
        BY <1>1, EntriesOf
      <4>2. \A x, r \in Nat : x <= r + 1 => x <= r \/ x = r + 1
        OBVIOUS
      <4> QED
        BY <1>1, <3>1, <4>1, <4>2
    <3> QED
      BY <2>1, <3>1, <3>2, <2>3 DEF UpTo
  <2> QED
    BY <2>2, <2>3
<1> QED
  BY <1>4, <1>5 DEF LeavesNoneOut

\* The next entry has no line yet; nor, if it is a directory, has any of its entries.
LEMMA EntryIsNew ==
    ASSUME NEW T, NEW R, NEW m, m > 0, NEW lines, NEW top, Follows(T, R, m, lines, top),
           NEW n, NEW kind, kind # "dot", AtNext(T, R, m, kind, n)
    PROVE  NotYet(T, m, lines, n)
<1>0. R[m] + 1 \in DOMAIN Tree[T[m]] /\ Tree[T[m]][R[m] + 1].kind # "dot"
      /\ n = Tree[T[m]][R[m] + 1].node
  BY DEF AtNext
<1>1. m \in Nat /\ m \in 1..m /\ T[m] \in Dirs /\ R[m] \in Nat /\ T \in [1..m -> Dirs]
  BY DEF Follows, IsTrail
<1>2. PICK x \in DOMAIN Tree[T[m]] : x = R[m] + 1
  BY <1>0
<1>3. ASSUME NEW i \in DOMAIN lines, lines[i].node = n PROVE FALSE
  <2>1. Shows(lines[i], T[m], x)
    BY <1>0, <1>2, <1>3 DEF Shows
  <2>2. x <= R[m]
    BY <1>1, <2>1 DEF Follows, NotBeyond
  <2> QED
    BY <1>1, <1>2, <2>2
<1>4. ASSUME n \in Dirs, NEW k \in 1..m, T[k] = n PROVE FALSE
  <2>1. CASE k = 1
    <3>1. Tree[T[m]][x].kind = "dir"
      <4>1. Tree[T[m]][x] \in Entries
        BY <1>1 DEF Entries
      <4>2. Tree[T[m]][x].kind \in {"dot", "dir", "file"}
        BY <1>1, EntriesOf, EntryTypes
      <4> QED
        BY <1>0, <1>2, <1>4, <4>1, <4>2, FileSystemAssumption
    <3>2. IsChild(T[m], T[1])
      BY <1>0, <1>2, <1>4, <2>1, <3>1 DEF IsChild
    <3> QED
      BY <1>1, <3>2, NoWayBack DEF Follows, IsTrail
  <2>2. CASE k > 1
    <3>1. OnLine(lines, k - 2, T[k])
      BY <2>2 DEF Follows
    <3>2. PICK j \in DOMAIN lines : lines[j] = [depth |-> k - 2, node |-> T[k]]
      BY <3>1 DEF OnLine
    <3> QED
      BY <1>3, <1>4, <3>2
  <2> QED
    BY <1>1, <2>1, <2>2
<1>5. ASSUME n \in Dirs, NEW i \in DOMAIN lines, NEW y \in DOMAIN Tree[n],
             Shows(lines[i], n, y)
      PROVE  FALSE
  <2>1. Placed(lines, top, i) /\ top \in Dirs
    BY DEF Follows, IsListing
  <2>2. CASE \E z \in DOMAIN Tree[top] : Shows(lines[i], top, z)
    <3>1. top = n
      BY <1>5, <2>1, <2>2, OnePlace
    <3>2. T[1] = top /\ 1 \in 1..m
      BY <1>1 DEF Follows, IsTrail
    <3> QED
      BY <1>4, <1>5, <3>1, <3>2
  <2>3. CASE \E j \in 1..(i - 1) :
               /\ lines[j].node \in Dirs
               /\ \E z \in DOMAIN Tree[lines[j].node] : Shows(lines[i], lines[j].node, z)
    <3>1. PICK j \in 1..(i - 1) :
               /\ lines[j].node \in Dirs
               /\ \E z \in DOMAIN Tree[lines[j].node] : Shows(lines[i], lines[j].node, z)
      BY <2>3
    <3>2. lines[j].node = n
      BY <1>5, <3>1, OnePlace
    <3>3. j \in DOMAIN lines
      <4>1. DOMAIN lines = 1..Len(lines) /\ Len(lines) \in Nat
        BY DEF Follows
      <4> QED
        BY <4>1
    <3> QED
      BY <1>3, <3>2, <3>3
  <2> QED
    BY <2>1, <2>2, <2>3 DEF Placed
<1> QED
  BY <1>3, <1>4, <1>5 DEF NotYet

LEMMA AppendIs ==
    ASSUME NEW S, NEW s \in Seq(S), NEW e \in S
    PROVE  /\ Append(s, e) \in Seq(S)
           /\ DOMAIN s = 1..Len(s) /\ Len(s) \in Nat /\ Len(Append(s, e)) = Len(s) + 1
           /\ DOMAIN Append(s, e) = 1..(Len(s) + 1)
           /\ \A k \in DOMAIN s : Append(s, e)[k] = s[k] /\ k \in DOMAIN Append(s, e)
           /\ Append(s, e)[Len(s) + 1] = e /\ Len(s) + 1 \in DOMAIN Append(s, e)
           /\ \A k \in DOMAIN Append(s, e) : k \in DOMAIN s \/ k = Len(s) + 1
  OBVIOUS

\* The line of the next entry is printed.
LEMMA TrailPrints ==
    ASSUME NEW T, NEW R, NEW m, m > 0, NEW lines, NEW top, Follows(T, R, m, lines, top),
           NEW n, NEW kind, kind # "dot", AtNext(T, R, m, kind, n), NEW Q, Passes(R, Q, m),
           NEW line, line = [depth |-> m - 1, node |-> n],
           NEW out, out = Append(lines, line)
    PROVE  /\ Follows(T, Q, m, out, top)
           /\ Adds(lines, line, out)
           /\ LeavesNoneOut(T, R, m, lines, top) => LeavesOneOut(T, Q, m, lines, out, top)
<1>0. /\ R[m] + 1 \in DOMAIN Tree[T[m]] /\ Tree[T[m]][R[m] + 1].kind # "dot"
      /\ n = Tree[T[m]][R[m] + 1].node
      /\ Q \in [1..m -> Nat] /\ Q[m] = R[m] + 1
      /\ \A k \in 1..m : k # m => Q[k] = R[k]
  BY DEF AtNext, Passes
<1>1. m \in Nat /\ m \in 1..m /\ T[m] \in Dirs /\ R[m] \in Nat /\ T \in [1..m -> Dirs]
      /\ top \in Dirs
  BY DEF Follows, IsTrail
<1>2. PICK x \in DOMAIN Tree[T[m]] : x = R[m] + 1 /\ x = Q[m]
  BY <1>0
<1>3. x \in Nat /\ x > R[m]
  BY <1>1, <1>2
<1>4. line \in Line
  <2>1. Tree[T[m]][x].node \in Nodes
    BY <1>1, EntriesOf, EntryTypes
  <2>2. m - 1 \in Nat
    BY <1>1
  <2> QED
    BY <1>0, <1>2, <2>1, <2>2 DEF Line
<1> DEFINE len == Len(lines)
<1>5. /\ out \in Seq(Line) /\ DOMAIN lines = 1..len /\ len \in Nat /\ Len(out) = len + 1
      /\ DOMAIN out = 1..(len + 1)
      /\ \A k \in DOMAIN lines : out[k] = lines[k] /\ k \in DOMAIN out
      /\ out[len + 1] = line /\ len + 1 \in DOMAIN out
      /\ \A k \in DOMAIN out : k \in DOMAIN lines \/ k = len + 1
  <2>1. lines \in Seq(Line)
    BY DEF Follows
  <2> QED
    BY <1>4, <2>1, AppendIs
<1>6. line.depth = m - 1 /\ Shows(line, T[m], x)
  BY <1>0, <1>2 DEF Shows
<1> HIDE DEF len
<1>7. \A k \in 1..m : NotBeyond(out, T[k], Q[k])
  <2> SUFFICES ASSUME NEW k \in 1..m, NEW i \in DOMAIN out, NEW y \in DOMAIN Tree[T[k]],
                      Shows(out[i], T[k], y)
               PROVE  y <= Q[k]
    BY DEF NotBeyond
  <2>1. T[k] \in Dirs /\ y \in Nat /\ Q[k] \in Nat /\ R[k] \in Nat /\ Q[k] >= R[k]
    <3>1. T[k] \in Dirs /\ Q[k] \in Nat /\ R[k] \in Nat
      BY <1>0, <1>1 DEF Follows
    <3>2. y \in Nat
      BY <3>1, EntriesOf
    <3>3. Q[k] = R[k] \/ (k = m /\ Q[k] = R[k] + 1)
      BY <1>0
    <3> QED
      BY <3>1, <3>2, <3>3
  <2>2. CASE i \in DOMAIN lines
    <3>1. Shows(lines[i], T[k], y)
      BY <1>5, <2>2
    <3>2. y <= R[k]
      BY <2>2, <3>1 DEF Follows, NotBeyond
    <3>3. \A a, b, c \in Nat : a <= b /\ c >= b => a <= c
      OBVIOUS
    <3> QED
      BY <2>1, <3>2, <3>3
  <2>3. CASE i = len + 1
    <3>1. T[k] = T[m] /\ x = y
      BY <1>1, <1>5, <1>6, <2>1, <2>3, OnePlace
    <3>2. k = m
      BY <1>1, <3>1 DEF Follows, IsTrail
    <3>3. y = Q[k]
      BY <1>2, <3>1, <3>2
    <3> QED
      BY <2>1, <3>3
  <2> QED
    BY <1>5, <2>2, <2>3
<1>8. \A k \in 1..m : k > 1 => OnLine(out, k - 2, T[k])
  <2> SUFFICES ASSUME NEW k \in 1..m, k > 1 PROVE OnLine(out, k - 2, T[k])
    OBVIOUS
  <2>1. PICK j \in DOMAIN lines :
           /\ lines[j] = [depth |-> k - 2, node |-> T[k]]
           /\ \A h \in (j + 1)..Len(lines) : lines[h].depth > k - 2
    <3>1. OnLine(lines, k - 2, T[k])
      BY DEF Follows
    <3> QED
      BY <3>1 DEF OnLine
  <2>2. ASSUME NEW h \in (j + 1)..Len(out) PROVE out[h].depth > k - 2
    <3>1. CASE h = len + 1
      BY <1>1, <1>5, <1>6, <3>1
    <3>2. CASE h # len + 1
      <4>1. h \in (j + 1)..Len(lines) /\ h \in DOMAIN lines
        BY <1>5, <3>2 DEF len
      <4> QED
        BY <1>5, <2>1, <4>1
    <3> QED
      BY <3>1, <3>2
  <2>3. j \in DOMAIN out /\ out[j] = [depth |-> k - 2, node |-> T[k]]
    BY <1>5, <2>1
  <2> QED
    BY <2>2, <2>3 DEF OnLine
<1>9. \A i \in DOMAIN out : Placed(out, top, i)
  <2>1. ASSUME NEW i \in DOMAIN lines PROVE Placed(out, top, i)
    <3>1. Placed(lines, top, i)
      BY DEF Follows, IsListing
    <3>2. out[i] = lines[i] /\ \A j \in 1..(i - 1) : out[j] = lines[j]
      <4>1. \A j \in 1..(i - 1) : j \in DOMAIN lines
        BY <1>5
      <4> QED
        BY <1>5, <4>1
    <3>3. CASE lines[i].depth = 0 /\ \E y \in DOMAIN Tree[top] : Shows(lines[i], top, y)
      BY <3>2, <3>3 DEF Placed
    <3>4. ASSUME NEW j \in 1..(i - 1),
                 lines[i].depth = lines[j].depth + 1,
                 \A k \in (j + 1)..(i - 1) : lines[k].depth > lines[j].depth,
                 lines[j].node \in Dirs,
                 \E y \in DOMAIN Tree[lines[j].node] : Shows(lines[i], lines[j].node, y)
          PROVE  Placed(out, top, i)
      <4>1. \A k \in (j + 1)..(i - 1) : k \in 1..(i - 1)
        BY <1>5
      <4>2. \A k \in (j + 1)..(i - 1) : out[k].depth > out[j].depth
        BY <3>2, <3>4, <4>1
      <4> QED
        BY <3>2, <3>4, <4>2 DEF Placed
    <3> QED
      BY <3>1, <3>3, <3>4 DEF Placed
  <2>2. Placed(out, top, len + 1)
    <3>1. CASE m = 1
      <4>1. T[1] = top /\ line.depth = 0
        BY <1>1, <1>6, <3>1 DEF Follows, IsTrail
      <4> QED
        BY <1>5, <1>6, <3>1, <4>1 DEF Placed
    <3>2. CASE m # 1
      <4>1. m > 1
        BY <1>1, <3>2
      <4>2. PICK j \in DOMAIN lines :
               /\ lines[j] = [depth |-> m - 2, node |-> T[m]]
               /\ \A h \in (j + 1)..Len(lines) : lines[h].depth > m - 2
        <5>1. OnLine(lines, m - 2, T[m])
          BY <1>1, <4>1 DEF Follows
        <5> QED
          BY <5>1 DEF OnLine
      <4>3. out[j].depth = m - 2 /\ out[j].node = T[m] /\ j \in 1..((len + 1) - 1)
        BY <1>5, <4>2
      <4>4. \A k \in (j + 1)..((len + 1) - 1) : out[k].depth > out[j].depth
        <5>1. \A k \in (j + 1)..((len + 1) - 1) : k \in (j + 1)..Len(lines)
                                                   /\ k \in DOMAIN lines
          BY <1>5 DEF len
        <5> QED
          BY <1>5, <4>2, <4>3, <5>1
      <4>5. out[len + 1].depth = out[j].depth + 1
        <5>1. \A a \in Int : a - 1 = (a - 2) + 1
          OBVIOUS
        <5> QED
          BY <1>1, <1>5, <1>6, <4>3, <5>1
      <4>6. out[j].node \in Dirs /\ \E y \in DOMAIN Tree[out[j].node] :
                                        Shows(out[len + 1], out[j].node, y)
        BY <1>1, <1>5, <1>6, <4>3
      <4> QED
        BY <4>3, <4>4, <4>5, <4>6 DEF Placed
    <3> QED
      BY <3>1, <3>2
  <2> QED
    BY <1>5, <2>1, <2>2
<1>10. Ordered(out)
  <2> SUFFICES ASSUME NEW i \in DOMAIN out, NEW j \in DOMAIN out, i < j, NEW d \in Dirs,
                      NEW y \in DOMAIN Tree[d], NEW z \in DOMAIN Tree[d],
                      Shows(out[i], d, y), Shows(out[j], d, z)
               PROVE  y < z
    BY DEF Ordered
  <2>1. i \in DOMAIN lines
    BY <1>5
  <2>2. CASE j \in DOMAIN lines
    <3>1. Shows(lines[i], d, y) /\ Shows(lines[j], d, z) /\ Ordered(lines)
      BY <1>5, <2>1, <2>2 DEF Follows, IsListing
    <3> QED
      BY <2>1, <2>2, <3>1 DEF Ordered
  <2>3. CASE j = len + 1
    <3>1. d = T[m] /\ z = x
      BY <1>1, <1>5, <1>6, <2>3, OnePlace
    <3>2. Shows(lines[i], T[m], y)
      BY <1>5, <2>1, <3>1
    <3>3. y <= R[m]
      BY <1>1, <2>1, <3>1, <3>2 DEF Follows, NotBeyond
    <3>4. y \in Nat
      BY EntriesOf
    <3> QED
      BY <1>1, <1>2, <3>1, <3>3, <3>4
  <2> QED
    BY <1>5, <2>2, <2>3
<1>11. Follows(T, Q, m, out, top)
  BY <1>0, <1>5, <1>7, <1>8, <1>9, <1>10 DEF Follows, IsListing
<1>12. ASSUME LeavesNoneOut(T, R, m, lines, top)
       PROVE  LeavesOneOut(T, Q, m, lines, out, top)
  <2>1. ASSUME NEW k \in 1..m PROVE UpTo(out, T[k], Q[k])
    <3>1. UpTo(lines, T[k], R[k]) /\ T[k] \in Dirs /\ R[k] \in Nat
      BY <1>1, <1>12 DEF LeavesNoneOut, Follows
    <3>2. UpTo(out, T[k], R[k])
      BY <1>5, <3>1 DEF UpTo
    <3>3. CASE k # m
      BY <1>0, <3>2, <3>3
    <3>4. CASE k = m
      <4>1. \A y \in DOMAIN Tree[T[m]] : y <= Q[m] => y <= R[m] \/ y = x
        <5>1. DOMAIN Tree[T[m]] \subseteq Nat
          BY <1>1, EntriesOf
        <5>2. \A a, r \in Nat : a <= r + 1 => a <= r \/ a = r + 1
          OBVIOUS
        <5> QED
          BY <1>1, <1>2, <5>1, <5>2
      <4>2. \E i \in DOMAIN out : Shows(out[i], T[m], x)
        BY <1>5, <1>6
      <4> QED
        BY <3>2, <3>4, <4>1, <4>2 DEF UpTo
    <3> QED
      BY <3>3, <3>4
  <2>2. \A d \in Dirs \cap ({top} \cup {lines[i].node : i \in DOMAIN lines}) :
           (\E k \in 1..m : T[k] = d) \/ AllOf(out, d)
    BY <1>5, <1>12 DEF LeavesNoneOut, AllOf
  <2> QED
    BY <2>1, <2>2 DEF LeavesOneOut
<1>13. Adds(lines, line, out)
  BY <1>5 DEF Adds, len
<1> QED
  BY <1>11, <1>12, <1>13

\* After the line of a file nothing is left out that was not before.
LEMMA FilePrints ==
    ASSUME NEW T, NEW R, NEW m, m > 0, NEW lines, NEW top, Follows(T, R, m, lines, top),
           LeavesNoneOut(T, R, m, lines, top),
           NEW n, AtNext(T, R, m, "file", n), NEW Q, Passes(R, Q, m),
           NEW line, line = [depth |-> m - 1, node |-> n],
           NEW out, out = Append(lines, line)
    PROVE  LeavesNoneOut(T, Q, m, out, top)
<1>1. Adds(lines, line, out) /\ LeavesOneOut(T, Q, m, lines, out, top)
  <2>1. "file" # "dot"
    OBVIOUS
  <2> QED
    BY <2>1, TrailPrints
<1>2. line.node \notin Dirs
  <2>1. T[m] \in Dirs
    BY DEF Follows, IsTrail
  <2>2. Tree[T[m]][R[m] + 1] \in Entries
    BY <2>1 DEF Entries, AtNext
  <2> QED
    BY <2>2, FileSystemAssumption DEF AtNext
<1>3. ASSUME NEW d \in Dirs \cap ({top} \cup {out[i].node : i \in DOMAIN out})
      PROVE  d \in {top} \cup {lines[i].node : i \in DOMAIN lines}
  <2>1. CASE d = top
    BY <2>1
  <2>2. ASSUME NEW i \in DOMAIN out, d = out[i].node
        PROVE  d \in {lines[k].node : k \in DOMAIN lines}
    <3>1. i # Len(out)
      BY <1>1, <1>2, <2>2 DEF Adds
    <3>2. i \in DOMAIN lines
      BY <1>1, <3>1 DEF Adds
    <3> QED
      BY <1>1, <2>2, <3>2 DEF Adds
  <2> QED
    BY <2>1, <2>2
<1> QED
  BY <1>1, <1>3 DEF LeavesNoneOut, LeavesOneOut

\* The directory of the line just printed is entered.
LEMMA TrailEnters ==
    ASSUME NEW T, NEW R, NEW m, m > 0, NEW lines, NEW top, Follows(T, R, m, lines, top),
           NEW n, AtNext(T, R, m, "dir", n),
           NEW line, line = [depth |-> m - 1, node |-> n],
           NEW out, out = Append(lines, line),
           NEW U, NEW V, GoesDown(T, R, m, U, V, n)
    PROVE  /\ Follows(U, V, m + 1, out, top)
           /\ LeavesNoneOut(T, R, m, lines, top) => LeavesNoneOut(U, V, m + 1, out, top)
<1>0. /\ U \in [1..(m + 1) -> Dirs] /\ V \in [1..(m + 1) -> Nat]
      /\ \A k \in 1..m : U[k] = T[k] /\ (k # m => V[k] = R[k])
      /\ V[m] = R[m] + 1 /\ U[m + 1] = n /\ V[m + 1] = 0
  BY DEF GoesDown
<1>1. m \in Nat /\ m \in 1..m /\ T[m] \in Dirs /\ R[m] \in Nat /\ T \in [1..m -> Dirs]
      /\ top \in Dirs /\ m + 1 \in 1..(m + 1) /\ 1 \in 1..m
  BY DEF Follows, IsTrail
<1>2. /\ \A k \in 1..m : k \in 1..(m + 1)
      /\ \A k \in 1..(m + 1) : k \in 1..m \/ k = m + 1
  BY <1>1
<1>3. PICK Q \in [1..m -> Nat] : \A k \in 1..m : Q[k] = V[k]
  <2> DEFINE F == [k \in 1..m |-> V[k]]
  <2>1. F \in [1..m -> Nat] /\ \A k \in 1..m : F[k] = V[k]
    BY <1>0, <1>2
  <2> QED
    BY <2>1
<1>4. Passes(R, Q, m)
  BY <1>0, <1>1, <1>3 DEF Passes
<1>5. /\ Follows(T, Q, m, out, top)
      /\ Adds(lines, line, out)
      /\ LeavesNoneOut(T, R, m, lines, top) => LeavesOneOut(T, Q, m, lines, out, top)
  <2>1. "dir" # "dot"
    OBVIOUS
  <2> QED
    BY <1>4, <2>1, TrailPrints
<1>6. n \in Dirs
  BY <1>0, <1>1
<1>7. /\ \A k \in 1..m : T[k] # n
      /\ \A i \in DOMAIN lines : \A y \in DOMAIN Tree[n] : ~Shows(lines[i], n, y)
  <2>1. "dir" # "dot"
    OBVIOUS
  <2>2. NotYet(T, m, lines, n)
    BY <2>1, EntryIsNew
  <2> QED
    BY <1>6, <2>2 DEF NotYet
<1>8. \A y \in DOMAIN Tree[n] : ~Shows(line, n, y)
  <2> SUFFICES ASSUME NEW y \in DOMAIN Tree[n], Shows(line, n, y) PROVE FALSE
    OBVIOUS
  <2>1. Shows(line, T[m], R[m] + 1) /\ R[m] + 1 \in DOMAIN Tree[T[m]]
    BY DEF Shows, AtNext
  <2>2. T[m] = n
    BY <1>1, <1>6, <2>1, OnePlace
  <2> QED
    BY <1>1, <1>7, <2>2
<1>9. IsTrail(U, m + 1, top)
  <2>1. U[1] = top
    BY <1>0, <1>1 DEF Follows, IsTrail
  <2>2. ASSUME NEW k \in 1..(m + 1), k > 1 PROVE IsChild(U[k - 1], U[k])
    <3>1. CASE k = m + 1
      <4>1. IsChild(T[m], n)
        BY DEF IsChild, AtNext
      <4>2. k - 1 = m
        BY <1>1, <3>1
      <4> QED
        BY <1>0, <1>1, <3>1, <4>1, <4>2
    <3>2. CASE k \in 1..m
      <4>1. k - 1 \in 1..m
        BY <1>1, <2>2, <3>2
      <4>2. IsChild(T[k - 1], T[k])
        BY <2>2, <3>2 DEF Follows, IsTrail
      <4> QED
        BY <1>0, <3>2, <4>1, <4>2
    <3> QED
      BY <1>2, <3>1, <3>2
  <2>3. \A k, l \in 1..m : T[k] = T[l] => k = l
    BY DEF Follows, IsTrail
  <2>4. ASSUME NEW k \in 1..(m + 1), NEW l \in 1..(m + 1), U[k] = U[l] PROVE k = l
    <3>1. CASE k \in 1..m /\ l \in 1..m
      BY <1>0, <2>3, <2>4, <3>1
    <3>2. CASE k \in 1..m /\ l = m + 1
      BY <1>0, <1>7, <2>4, <3>2
    <3>3. CASE k = m + 1 /\ l \in 1..m
      BY <1>0, <1>7, <2>4, <3>3
    <3> QED
      BY <1>2, <3>1, <3>2, <3>3
  <2> QED
    BY <1>0, <1>1, <2>1, <2>2, <2>4 DEF IsTrail
<1>10. \A k \in 1..(m + 1) : k > 1 => OnLine(out, k - 2, U[k])
  <2> SUFFICES ASSUME NEW k \in 1..(m + 1), k > 1 PROVE OnLine(out, k - 2, U[k])
    OBVIOUS
  <2>1. CASE k \in 1..m
    BY <1>0, <1>5, <2>1 DEF Follows
  <2>2. CASE k = m + 1
    <3>1. k - 2 = m - 1
      BY <1>1, <2>2
    <3>2. Len(out) \in DOMAIN out /\ out[Len(out)] = [depth |-> k - 2, node |-> U[k]]
      BY <1>0, <1>5, <2>2, <3>1 DEF Adds
    <3>3. (Len(out) + 1)..Len(out) = {}
      BY <1>5 DEF Adds
    <3> QED
      BY <3>2, <3>3 DEF OnLine
  <2> QED
    BY <1>2, <2>1, <2>2
<1>11. \A k \in 1..(m + 1) : NotBeyond(out, U[k], V[k])
  <2> SUFFICES ASSUME NEW k \in 1..(m + 1) PROVE NotBeyond(out, U[k], V[k])
    OBVIOUS
  <2>1. CASE k \in 1..m
    <3>1. NotBeyond(out, T[k], Q[k])
      BY <1>5, <2>1 DEF Follows
    <3> QED
      BY <1>0, <1>3, <2>1, <3>1
  <2>2. CASE k = m + 1
    <3>1. ASSUME NEW i \in DOMAIN out, NEW y \in DOMAIN Tree[n], Shows(out[i], n, y)
          PROVE  FALSE
      <4>1. i \in DOMAIN lines \/ i = Len(out)
        BY <1>5 DEF Adds
      <4> QED
        BY <1>5, <1>7, <1>8, <3>1, <4>1 DEF Adds
    <3> QED
      BY <1>0, <2>2, <3>1 DEF NotBeyond
  <2> QED
    BY <1>2, <2>1, <2>2
<1>12. Follows(U, V, m + 1, out, top)
  BY <1>0, <1>5, <1>9, <1>10, <1>11 DEF Follows
<1>13. ASSUME LeavesNoneOut(T, R, m, lines, top)
       PROVE  LeavesNoneOut(U, V, m + 1, out, top)
  <2>1. ASSUME NEW k \in 1..(m + 1) PROVE UpTo(out, U[k], V[k])
    <3>1. CASE k \in 1..m
      <4>1. UpTo(out, T[k], Q[k])
        BY <1>5, <1>13, <3>1 DEF LeavesOneOut
      <4> QED
        BY <1>0, <1>3, <3>1, <4>1
    <3>2. CASE k = m + 1
      <4>1. \A x \in DOMAIN Tree[n] : ~(x <= 0)
        BY <1>6, EntriesOf
      <4> QED
        BY <1>0, <3>2, <4>1 DEF UpTo
    <3> QED
      BY <1>2, <3>1, <3>2
  <2>2. ASSUME NEW d \in Dirs \cap ({top} \cup {out[i].node : i \in DOMAIN out})
        PROVE  (\E k \in 1..(m + 1) : U[k] = d) \/ AllOf(out, d)
    <3>1. CASE d = n
      BY <1>0, <1>1, <3>1
    <3>2. CASE d # n
      <4>1. d \in Dirs \cap ({top} \cup {lines[i].node : i \in DOMAIN lines})
        <5>1. ASSUME NEW i \in DOMAIN out, d = out[i].node
              PROVE  i \in DOMAIN lines /\ d = lines[i].node
          <6>1. i # Len(out)
            BY <1>5, <3>2, <5>1 DEF Adds
          <6> QED
            BY <1>5, <5>1, <6>1 DEF Adds
        <5> QED
          BY <5>1
      <4>2. (\E k \in 1..m : T[k] = d) \/ AllOf(out, d)
        BY <1>5, <1>13, <4>1 DEF LeavesOneOut
      <4> QED
        BY <1>0, <1>2, <4>2
    <3> QED
      BY <3>1, <3>2
  <2> QED
    BY <2>1, <2>2 DEF LeavesNoneOut
<1> QED
  BY <1>12, <1>13

\* A listing begins.
LEMMA TrailBegins ==
    ASSUME NEW top \in Dirs, NEW T, T = [k \in 1..1 |-> top], NEW R, R = [k \in 1..1 |-> 0]
    PROVE  Follows(T, R, 1, <<>>, top) /\ LeavesNoneOut(T, R, 1, <<>>, top)
<1>1. /\ T \in [1..1 -> Dirs] /\ R \in [1..1 -> Nat]
      /\ \A k \in 1..1 : k = 1 /\ T[k] = top /\ R[k] = 0
  OBVIOUS
<1>2. <<>> \in Seq(Line) /\ DOMAIN <<>> = {}
  <2>1. \A S : <<>> \in Seq(S)
    OBVIOUS
  <2> QED
    BY <2>1
<1>3. IsTrail(T, 1, top)
  <2>1. \A k \in 1..1 : ~(k > 1)
    OBVIOUS
  <2> QED
    BY <1>1, <2>1 DEF IsTrail
<1>4. IsListing(<<>>, top)
  BY <1>2 DEF IsListing, Ordered
<1>5. Follows(T, R, 1, <<>>, top)
  <2>1. \A k \in 1..1 : NotBeyond(<<>>, T[k], R[k])
    BY <1>2 DEF NotBeyond
  <2>2. \A k \in 1..1 : ~(k > 1)
    OBVIOUS
  <2> QED
    BY <1>1, <1>2, <1>3, <1>4, <2>1, <2>2 DEF Follows
<1>6. LeavesNoneOut(T, R, 1, <<>>, top)
  <2>1. \A x \in DOMAIN Tree[top] : ~(x <= 0)
    BY EntriesOf
  <2>2. \A k \in 1..1 : UpTo(<<>>, T[k], R[k])
    BY <1>1, <2>1 DEF UpTo
  <2>3. \A d \in {top} \cup {(<<>>)[i].node : i \in DOMAIN <<>>} : T[1] = d
    BY <1>1, <1>2
  <2> QED
    BY <2>2, <2>3 DEF LeavesNoneOut
<1> QED
  BY <1>5, <1>6

-----------------------------------------------------------------------------
(* What the listing prints. *)

\* The directories the recursion is in, and the entry each has come to.
Trail == [k \in 1..Len(stack) |-> open[stack[k].handle].node]
Reach == [k \in 1..Len(stack) |-> IF stack[k].reading THEN open[stack[k].handle].pos ELSE 0]

ListInv ==
    /\ stack # <<>> => /\ Follows(Trail, Reach, Len(stack), printed, from)
                       /\ ~failed => LeavesNoneOut(Trail, Reach, Len(stack), printed, from)
    /\ stack = <<>> => /\ IsListing(printed, from)
                       /\ (result # "none" /\ loaded /\ ~failed) =>
                             result = "TRUE" /\ IsComplete(printed, from)

ViewTyped ==
    /\ Trail \in [1..Len(stack) -> Dirs] /\ Reach \in [1..Len(stack) -> Nat]
    /\ stack # <<>> => Len(stack) > 0
    /\ Len(stack) \in Nat

LEMMA ViewIsTyped == IInv => ViewTyped
<1> SUFFICES ASSUME IInv PROVE ViewTyped
  OBVIOUS
<1>1. stack \in Seq(Frame) /\ Len(stack) \in Nat
  BY DEF IInv, StackInv
<1>2. ASSUME NEW k \in 1..Len(stack)
      PROVE  /\ open[stack[k].handle].node \in Dirs
             /\ open[stack[k].handle].pos \in Nat
  <2>1. stack[k].handle \in DOMAIN open /\ open[stack[k].handle].node \in Dirs
    BY DEF IInv, StackInv
  <2>2. open[stack[k].handle] \in Record
    BY <2>1 DEF IInv, HandlesInv
  <2> QED
    BY <2>1, <2>2 DEF Record
<1>3. stack # <<>> => Len(stack) > 0
  BY <1>1
<1>4. Trail \in [1..Len(stack) -> Dirs]
  BY <1>2 DEF Trail
<1>5. Reach \in [1..Len(stack) -> Nat]
  BY <1>2 DEF Reach
<1> QED
  BY <1>1, <1>3, <1>4, <1>5 DEF ViewTyped

LEMMA ViewIsTypedNext == IInv' => ViewTyped'
  BY ViewIsTyped, PTL

LEMMA NothingIsListing == \A d \in Dirs : IsListing(<<>>, d)
<1>1. DOMAIN <<>> = {}
  OBVIOUS
<1> QED
  BY <1>1 DEF IsListing, Ordered

LEMMA ListInitInv == Init => ListInv
<1> SUFFICES ASSUME Init PROVE ListInv
  OBVIOUS
<1>1. stack = <<>> /\ printed = <<>> /\ result = "none" /\ from \in Dirs
  BY Constants DEF Init
<1> QED
  BY <1>1, NothingIsListing DEF ListInv

LEMMA ListIsFaithful == IInv /\ ListInv => ListingFaithful
<1> SUFFICES ASSUME IInv, ListInv PROVE ListingFaithful
  OBVIOUS
<1>1. CASE stack = <<>>
  BY <1>1 DEF ListInv, ListingFaithful
<1>2. CASE stack # <<>>
  <2>1. Follows(Trail, Reach, Len(stack), printed, from)
    BY <1>2 DEF ListInv
  <2> QED
    BY <1>2, <2>1 DEF Follows, ListingFaithful
<1> QED
  BY <1>1, <1>2

\* The innermost call, and the entry it comes to.
LEMMA TopView ==
    ASSUME IInv, stack # <<>>
    PROVE  /\ Len(stack) \in Nat /\ Len(stack) > 0 /\ Len(stack) \in 1..Len(stack)
           /\ Trail[Len(stack)] = open[Top.handle].node
           /\ Names = Tree[Trail[Len(stack)]]
           /\ Reach[Len(stack)] = IF Top.reading THEN Position ELSE 0
           /\ Trail[Len(stack)] \in Dirs /\ Position \in Nat
<1>1. /\ Len(stack) \in Nat \ {0} /\ Len(stack) \in 1..Len(stack)
      /\ Top = stack[Len(stack)]
      /\ open[Top.handle].node \in Dirs
      /\ Names = Tree[open[Top.handle].node] /\ Position \in Nat
  BY TopIs DEF IInv
<1> QED
  BY <1>1 DEF Trail, Reach, Position

LEMMA EntryIsNext ==
    ASSUME IInv, NEW kind, AtEntry(kind)
    PROVE  AtNext(Trail, Reach, Len(stack), kind, Entry.node)
<1>1. stack # <<>> /\ Top.reading /\ Position < Len(Names) /\ Entry.kind = kind
  BY DEF AtEntry
<1>2. /\ Names = Tree[Trail[Len(stack)]] /\ Reach[Len(stack)] = Position
      /\ Trail[Len(stack)] \in Dirs /\ Position \in Nat
  BY <1>1, TopView
<1>3. PICK d \in Dirs, p \in Nat : d = Trail[Len(stack)] /\ p = Position
  BY <1>2
<1>4. p + 1 \in DOMAIN Tree[d]
  <2>1. DOMAIN Tree[d] = 1..Len(Tree[d]) /\ Len(Tree[d]) \in Nat
    BY EntriesOf
  <2>2. p < Len(Tree[d])
    BY <1>1, <1>2, <1>3
  <2> QED
    BY <2>1, <2>2
<1>5. Entry = Tree[d][p + 1]
  BY <1>2, <1>3 DEF Entry
<1> QED
  BY <1>1, <1>2, <1>3, <1>4, <1>5 DEF AtNext

\* A table that differs from the present one in the position of the innermost call.
OnlyTop(T) ==
    /\ Same(T)
    /\ \A h \in DOMAIN open : h # Top.handle => T[h] = open[h]

LEMMA MovedIsOnlyTop ==
    ASSUME HandlesInv, StackInv, stack # <<>>, NEW x \in Nat
    PROVE  /\ OnlyTop([open EXCEPT ![Top.handle].pos = x])
           /\ [open EXCEPT ![Top.handle].pos = x][Top.handle].pos = x
<1>1. Top.handle \in DOMAIN open /\ open[Top.handle] \in Record
  BY TopIs
<1>2. Same([open EXCEPT ![Top.handle].pos = x])
  BY <1>1, MovedIsSame
<1>3. [open EXCEPT ![Top.handle].pos = x][Top.handle].pos = x
  BY <1>1 DEF Record
<1> QED
  BY <1>2, <1>3 DEF OnlyTop

LEMMA AdvancedIs ==
    ASSUME HandlesInv, StackInv, stack # <<>>
    PROVE  OnlyTop(Advanced) /\ Advanced[Top.handle].pos = Position + 1
<1>1. Advanced = [open EXCEPT ![Top.handle].pos = Position + 1]
  BY DEF Advanced, Position
<1>2. Position + 1 \in Nat
  BY TopIs
<1> QED
  BY <1>1, <1>2, MovedIsOnlyTop

LEMMA ItselfIsOnlyTop == HandlesInv => OnlyTop(open)
  BY SameItself DEF OnlyTop

\* The calls around the innermost.
LEMMA AroundTop ==
    ASSUME IInv, stack # <<>>, NEW k \in 1..Len(stack), k # Len(stack)
    PROVE  stack[k].handle \in DOMAIN open /\ stack[k].handle # Top.handle
<1>1. /\ Len(stack) \in Nat \ {0} /\ Len(stack) \in 1..Len(stack)
      /\ Top = stack[Len(stack)]
  BY TopIs DEF IInv
<1>2. k \in 1..(Len(stack) - 1)
  BY <1>1
<1>3. stack[Len(stack)].handle # stack[k].handle
  BY <1>1, <1>2 DEF IInv, StackInv
<1> QED
  BY <1>1, <1>3 DEF IInv, StackInv

LEMMA ReturnView ==
    ASSUME IInv, stack # <<>>, NEW T, OnlyTop(T), NEW value, Return(T, value),
           Len(stack) # 1
    PROVE  /\ stack' # <<>> /\ Len(stack') = Len(stack) - 1
           /\ \A k \in 1..(Len(stack) - 1) : Trail'[k] = Trail[k] /\ Reach'[k] = Reach[k]
<1>1. open' = Closed(T, Top.handle) /\ stack' = Front(stack)
  BY DEF Return
<1>2. stack \in Seq(Frame) /\ Len(stack) \in Nat /\ Len(stack) > 1
  <2>1. stack \in Seq(Frame) /\ Len(stack) \in Nat \ {0}
    BY TopIs DEF IInv, StackInv
  <2>2. \A n \in Nat \ {0} : n # 1 => n > 1
    OBVIOUS
  <2> QED
    BY <2>1, <2>2
<1>3. /\ Len(stack') = Len(stack) - 1 /\ stack' # <<>>
      /\ \A k \in 1..(Len(stack) - 1) : stack'[k] = stack[k]
  BY <1>1, <1>2, FrontIs
<1>4. ASSUME NEW k \in 1..(Len(stack) - 1)
      PROVE  Trail'[k] = Trail[k] /\ Reach'[k] = Reach[k]
  <2>1. k \in 1..Len(stack) /\ k # Len(stack) /\ k \in 1..Len(stack')
    BY <1>2, <1>3
  <2>2. stack[k].handle \in DOMAIN open /\ stack[k].handle # Top.handle
    BY <2>1, AroundTop
  <2>3. open'[stack[k].handle] = open[stack[k].handle]
    BY <1>1, <2>2 DEF Closed, OnlyTop, Same
  <2>4. stack'[k] = stack[k]
    BY <1>3
  <2>5. Trail'[k] = open'[stack'[k].handle].node /\ Trail[k] = open[stack[k].handle].node
    BY <2>1 DEF Trail
  <2>6. /\ Reach'[k] = IF stack'[k].reading THEN open'[stack'[k].handle].pos ELSE 0
        /\ Reach[k] = IF stack[k].reading THEN open[stack[k].handle].pos ELSE 0
    BY <2>1 DEF Reach
  <2> QED
    BY <2>3, <2>4, <2>5, <2>6
<1> QED
  BY <1>3, <1>4

LEMMA MoveView ==
    ASSUME IInv, stack # <<>>, NEW T, OnlyTop(T), open' = T,
           \/ stack' = stack
           \/ stack' = [stack EXCEPT ![Len(stack)].reading = TRUE]
    PROVE  /\ stack' # <<>> /\ Len(stack') = Len(stack)
           /\ Trail' = Trail
           /\ \A k \in 1..Len(stack) : k # Len(stack) => Reach'[k] = Reach[k]
           /\ Reach'[Len(stack)] = IF stack' = stack /\ ~Top.reading THEN 0
                                   ELSE T[Top.handle].pos
<1>1. /\ Len(stack) \in Nat \ {0} /\ Len(stack) \in 1..Len(stack)
      /\ Top = stack[Len(stack)] /\ Top.handle \in DOMAIN open /\ Top \in Frame
      /\ stack \in Seq(Frame)
  BY TopIs DEF IInv, StackInv
<1>2. /\ Len(stack') = Len(stack) /\ stack' # <<>>
      /\ \A k \in 1..Len(stack) : /\ stack'[k].handle = stack[k].handle
                                  /\ k # Len(stack) => stack'[k] = stack[k]
      /\ stack'[Len(stack)].reading <=> (Top.reading \/ stack' # stack)
  <2>1. CASE stack' = stack
    <3>1. stack'[Len(stack)].reading <=> Top.reading
      BY <1>1, <2>1
    <3> QED
      BY <2>1, <3>1
  <2>2. CASE stack' # stack
    <3>1. stack' = [stack EXCEPT ![Len(stack)].reading = TRUE]
      BY <2>2
    <3>2. /\ Len(stack') = Len(stack) /\ stack' # <<>>
          /\ \A k \in 1..Len(stack) : stack'[k].handle = stack[k].handle
          /\ stack'[Len(stack)].reading
      BY <3>1, StartReadingIs DEF IInv
    <3>3. \A k \in 1..Len(stack) : k # Len(stack) => stack'[k] = stack[k]
      BY <1>1, <3>1
    <3> QED
      BY <2>2, <3>2, <3>3
  <2> QED
    BY <2>1, <2>2
<1>3. \A h \in DOMAIN open : open'[h].node = open[h].node
  BY DEF OnlyTop, Same
<1>4. Trail' = Trail
  <2>1. \A k \in 1..Len(stack) : stack[k].handle \in DOMAIN open
    BY DEF IInv, StackInv
  <2>2. \A k \in 1..Len(stack) : open'[stack'[k].handle].node = open[stack[k].handle].node
    BY <1>2, <1>3, <2>1
  <2> QED
    BY <1>2, <2>2 DEF Trail
<1>5. ASSUME NEW k \in 1..Len(stack), k # Len(stack) PROVE Reach'[k] = Reach[k]
  <2>1. stack[k].handle \in DOMAIN open /\ stack[k].handle # Top.handle
    BY <1>5, AroundTop
  <2>2. open'[stack[k].handle] = open[stack[k].handle] /\ stack'[k] = stack[k]
    BY <1>2, <1>5, <2>1 DEF OnlyTop
  <2>3. /\ Reach'[k] = IF stack'[k].reading THEN open'[stack'[k].handle].pos ELSE 0
        /\ Reach[k] = IF stack[k].reading THEN open[stack[k].handle].pos ELSE 0
    BY <1>2 DEF Reach
  <2> QED
    BY <2>2, <2>3
<1>6. Reach'[Len(stack)] = IF stack' = stack /\ ~Top.reading THEN 0 ELSE T[Top.handle].pos
  <2>1. Reach'[Len(stack)] = IF stack'[Len(stack)].reading
                             THEN open'[stack'[Len(stack)].handle].pos ELSE 0
    BY <1>1, <1>2 DEF Reach
  <2>2. stack'[Len(stack)].handle = Top.handle
    BY <1>1, <1>2
  <2> QED
    BY <1>2, <2>1, <2>2
<1> QED
  BY <1>2, <1>4, <1>5, <1>6

LEMMA PushView ==
    ASSUME IInv, stack # <<>>, Top.reading, NEW T, OnlyTop(T), NEW n \in Dirs, CanOpen,
           open' = Opened(T, n),
           stack' = Append(stack, [handle |-> NewHandle, reading |-> FALSE])
    PROVE  /\ stack' # <<>> /\ Len(stack') = Len(stack) + 1
           /\ \A k \in 1..Len(stack) : /\ Trail'[k] = Trail[k]
                                       /\ k # Len(stack) => Reach'[k] = Reach[k]
           /\ Reach'[Len(stack)] = T[Top.handle].pos
           /\ Trail'[Len(stack) + 1] = n /\ Reach'[Len(stack) + 1] = 0
<1>1. /\ Len(stack) \in Nat \ {0} /\ Len(stack) \in 1..Len(stack)
      /\ Top = stack[Len(stack)] /\ Top.handle \in DOMAIN open
      /\ stack \in Seq(Frame)
  BY TopIs DEF IInv, StackInv
<1>2. n \in Nodes
  BY Constants
<1>3. /\ open'[NewHandle].node = n
      /\ \A h \in DOMAIN open : open'[h] = T[h] /\ open'[h].node = open[h].node
  BY <1>2, OpenedIs DEF OnlyTop, Same
<1> DEFINE new == [handle |-> NewHandle, reading |-> FALSE]
<1> DEFINE len == Len(stack)
<1>4. new \in Frame /\ new.handle = NewHandle /\ ~new.reading
  BY NewHandleIs DEF Frame
<1>5. /\ Len(stack') = len + 1 /\ stack' # <<>>
      /\ \A k \in 1..len : stack'[k] = stack[k]
      /\ stack'[len + 1] = new
  <2>1. stack \in Seq(Frame) /\ stack' = Append(stack, new)
    BY <1>1
  <2> HIDE DEF new
  <2> QED
    BY <1>4, <2>1
<1>6. \A k \in 1..len : k \in 1..Len(stack') /\ stack[k].handle \in DOMAIN open
  BY <1>1, <1>5 DEF IInv, StackInv
<1>7. ASSUME NEW k \in 1..Len(stack)
      PROVE  /\ Trail'[k] = Trail[k]
             /\ k # Len(stack) => Reach'[k] = Reach[k]
             /\ k = Len(stack) => Reach'[k] = T[Top.handle].pos
  <2>1. /\ Trail'[k] = open'[stack'[k].handle].node
        /\ Trail[k] = open[stack[k].handle].node
    BY <1>6 DEF Trail
  <2>2. /\ Reach'[k] = IF stack'[k].reading THEN open'[stack'[k].handle].pos ELSE 0
        /\ Reach[k] = IF stack[k].reading THEN open[stack[k].handle].pos ELSE 0
    BY <1>6 DEF Reach
  <2>3. stack'[k] = stack[k] /\ open'[stack[k].handle].node = open[stack[k].handle].node
    BY <1>3, <1>5, <1>6
  <2>4. k # Len(stack) => open'[stack[k].handle] = open[stack[k].handle]
    BY <1>3, <1>6, AroundTop DEF OnlyTop
  <2>5. k = Len(stack) => open'[stack[k].handle] = T[Top.handle] /\ stack[k].reading
    BY <1>1, <1>3
  <2> QED
    BY <2>1, <2>2, <2>3, <2>4, <2>5
<1>8. Trail'[len + 1] = n /\ Reach'[len + 1] = 0
  <2>1. len + 1 \in 1..Len(stack')
    BY <1>1, <1>5
  <2> QED
    BY <1>3, <1>4, <1>5, <2>1 DEF Trail, Reach
<1> QED
  BY <1>1, <1>5, <1>7, <1>8

\* A call returns: nothing is left out if it came to the end of its directory.
LEMMA ListReturns ==
    ASSUME IInv, IInv', stack # <<>>, NEW T, OnlyTop(T), NEW value, Return(T, value),
           from' = from,
           NEW R \in [1..Len(stack) -> Nat],
           \A k \in 1..Len(stack) : k # Len(stack) => R[k] = Reach[k],
           Follows(Trail, R, Len(stack), printed', from),
           ~failed' => /\ value = "TRUE" /\ R[Len(stack)] >= Len(Tree[Trail[Len(stack)]])
                       /\ LeavesNoneOut(Trail, R, Len(stack), printed', from)
    PROVE  ListInv'
<1>1. /\ Len(stack) \in Nat /\ Len(stack) > 0
      /\ Trail \in [1..Len(stack) -> Dirs] /\ Reach \in [1..Len(stack) -> Nat]
  BY ViewIsTyped DEF ViewTyped
<1>2. CASE Len(stack) = 1
  <2>1. stack' = <<>> /\ result' = value
    BY <1>2 DEF Return
  <2>2. IsListing(printed', from')
    BY DEF Follows
  <2>3. ASSUME ~failed' PROVE IsComplete(printed', from')
    <3> DEFINE U == [k \in 1..(Len(stack) - 1) |-> Trail[k]]
    <3> DEFINE Q == [k \in 1..(Len(stack) - 1) |-> R[k]]
    <3>1. /\ U \in [1..(Len(stack) - 1) -> Dirs] /\ Q \in [1..(Len(stack) - 1) -> Nat]
          /\ \A k \in 1..(Len(stack) - 1) : U[k] = Trail[k] /\ Q[k] = R[k]
      BY <1>1, <1>2
    <3>2. /\ R[Len(stack)] >= Len(Tree[Trail[Len(stack)]])
          /\ LeavesNoneOut(Trail, R, Len(stack), printed', from)
      BY <2>3
    <3> HIDE DEF U, Q
    <3>3. LeavesNoneOut(U, Q, Len(stack) - 1, printed', from)
      BY <1>1, <3>1, <3>2, TrailDrops
    <3>4. 1..(Len(stack) - 1) = {}
      BY <1>2
    <3> QED
      BY <3>3, <3>4 DEF LeavesNoneOut, AllOf, IsComplete
  <2> QED
    BY <2>1, <2>2, <2>3 DEF ListInv
<1>3. CASE Len(stack) # 1
  <2>1. /\ stack' # <<>> /\ Len(stack') = Len(stack) - 1
        /\ \A k \in 1..(Len(stack) - 1) : Trail'[k] = Trail[k] /\ Reach'[k] = Reach[k]
    BY <1>3, ReturnView
  <2>2. /\ Trail' \in [1..(Len(stack) - 1) -> Dirs]
        /\ Reach' \in [1..(Len(stack) - 1) -> Nat]
    BY <2>1, ViewIsTypedNext DEF ViewTyped
  <2>3. \A k \in 1..(Len(stack) - 1) : Trail'[k] = Trail[k] /\ Reach'[k] = R[k]
    BY <1>1, <2>1
  <2>4. /\ Follows(Trail', Reach', Len(stack) - 1, printed', from)
        /\ LeavesNoneOut(Trail, R, Len(stack), printed', from)
              /\ R[Len(stack)] >= Len(Tree[Trail[Len(stack)]]) =>
             LeavesNoneOut(Trail', Reach', Len(stack) - 1, printed', from)
    BY <1>1, <2>2, <2>3, TrailDrops
  <2> QED
    BY <2>1, <2>4 DEF ListInv
<1> QED
  BY <1>2, <1>3

LEMMA RewindLists ==
    ASSUME IInv, IInv', ListInv, Rewind
    PROVE  ListInv'
<1>1. /\ stack # <<>> /\ ~Top.reading /\ printed' = printed /\ from' = from
      /\ HandlesInv /\ StackInv
  BY DEF Rewind, elsewhere, IInv
<1>2. /\ Follows(Trail, Reach, Len(stack), printed, from)
      /\ ~failed => LeavesNoneOut(Trail, Reach, Len(stack), printed, from)
  BY <1>1 DEF ListInv
<1>3. Reach \in [1..Len(stack) -> Nat]
  BY ViewIsTyped DEF ViewTyped
<1>4. 0 \in Nat
  OBVIOUS
<1>5. CASE Refused /\ Return(open, "FALSE")
  <2>1. failed' /\ OnlyTop(open)
    BY <1>1, <1>5, ItselfIsOnlyTop DEF Refused, Firmware
  <2> QED
    BY <1>1, <1>2, <1>3, <1>5, <2>1, ListReturns
<1>6. CASE Firmware(TRUE) /\ Return([open EXCEPT ![Top.handle].pos = 0], "FALSE")
  <2>1. failed' /\ OnlyTop([open EXCEPT ![Top.handle].pos = 0])
    BY <1>1, <1>4, <1>6, MovedIsOnlyTop DEF Firmware
  <2> QED
    BY <1>1, <1>2, <1>3, <1>6, <2>1, ListReturns
<1>7. CASE /\ open' = [open EXCEPT ![Top.handle].pos = 0]
           /\ stack' = [stack EXCEPT ![Len(stack)].reading = TRUE]
           /\ Firmware(FALSE)
  <2>1. /\ OnlyTop([open EXCEPT ![Top.handle].pos = 0])
        /\ [open EXCEPT ![Top.handle].pos = 0][Top.handle].pos = 0
    BY <1>1, <1>4, MovedIsOnlyTop
  <2>2. /\ stack' # <<>> /\ Len(stack') = Len(stack) /\ Trail' = Trail
        /\ \A k \in 1..Len(stack) : k # Len(stack) => Reach'[k] = Reach[k]
        /\ Reach'[Len(stack)] = 0
    BY <1>1, <1>7, <2>1, MoveView
  <2>3. Reach[Len(stack)] = 0
    BY <1>1, TopView
  <2>4. Reach' = Reach
    <3>1. Reach' \in [1..Len(stack) -> Nat]
      BY <2>2, ViewIsTypedNext DEF ViewTyped
    <3>2. \A k \in 1..Len(stack) : Reach'[k] = Reach[k]
      BY <2>2, <2>3
    <3> QED
      BY <1>3, <3>1, <3>2
  <2>5. ~failed' => ~failed
    BY <1>1, <1>7 DEF Firmware, Idle
  <2> QED
    BY <1>1, <1>2, <2>2, <2>4, <2>5 DEF ListInv
<1> QED
  BY <1>5, <1>6, <1>7 DEF Rewind

LEMMA ReadsList ==
    ASSUME IInv, IInv', ListInv, ReadFails \/ ReadNothingMore
    PROVE  ListInv'
<1>1. /\ stack # <<>> /\ Top.reading /\ printed' = printed /\ from' = from
      /\ HandlesInv /\ StackInv
  BY DEF ReadFails, ReadNothingMore, elsewhere, IInv
<1>2. /\ Follows(Trail, Reach, Len(stack), printed, from)
      /\ ~failed => LeavesNoneOut(Trail, Reach, Len(stack), printed, from)
  BY <1>1 DEF ListInv
<1>3. Reach \in [1..Len(stack) -> Nat] /\ OnlyTop(open)
  BY <1>1, ViewIsTyped, ItselfIsOnlyTop DEF ViewTyped
<1>4. CASE ReadFails
  <2>1. failed' /\ Return(open, "FALSE")
    BY <1>4 DEF ReadFails, Refused, Firmware
  <2> QED
    BY <1>1, <1>2, <1>3, <2>1, ListReturns
<1>5. CASE ReadNothingMore
  <2>1. Return(open, "TRUE") /\ Position = Len(Names) /\ Firmware(FALSE)
    BY <1>5 DEF ReadNothingMore
  <2>2. ~failed' => ~failed
    BY <1>1, <2>1 DEF Firmware, Idle
  <2>3. Reach[Len(stack)] >= Len(Tree[Trail[Len(stack)]])
    <3>1. /\ Reach[Len(stack)] = Position /\ Names = Tree[Trail[Len(stack)]]
          /\ Position \in Nat
      BY <1>1, TopView
    <3>2. \A p \in Nat : p >= p
      OBVIOUS
    <3> QED
      BY <2>1, <3>1, <3>2
  <2> QED
    BY <1>1, <1>2, <1>3, <2>1, <2>2, <2>3, ListReturns
<1> QED
  BY <1>4, <1>5

\* The entry is passed, whether its line is printed or not.
LEMMA PassesEntry ==
    ASSUME IInv, NEW kind, AtEntry(kind), NEW Q \in [1..Len(stack) -> Nat],
           \A k \in 1..Len(stack) : k # Len(stack) => Q[k] = Reach[k],
           Q[Len(stack)] = Position + 1
    PROVE  Passes(Reach, Q, Len(stack))
<1>1. stack # <<>> /\ Top.reading
  BY DEF AtEntry
<1>2. Reach[Len(stack)] = Position
  BY <1>1, TopView
<1> QED
  BY <1>2 DEF Passes

LEMMA SkipDotsLists ==
    ASSUME IInv, IInv', ListInv, SkipDots
    PROVE  ListInv'
<1>1. /\ stack # <<>> /\ Top.reading /\ printed' = printed /\ from' = from
      /\ HandlesInv /\ StackInv /\ AtEntry("dot") /\ open' = Advanced /\ stack' = stack
      /\ Firmware(FALSE)
  BY DEF SkipDots, AtEntry, elsewhere, IInv
<1>2. /\ Follows(Trail, Reach, Len(stack), printed, from)
      /\ ~failed => LeavesNoneOut(Trail, Reach, Len(stack), printed, from)
  BY <1>1 DEF ListInv
<1>3. OnlyTop(Advanced) /\ Advanced[Top.handle].pos = Position + 1
  BY <1>1, AdvancedIs
<1>4. /\ stack' # <<>> /\ Len(stack') = Len(stack) /\ Trail' = Trail
      /\ \A k \in 1..Len(stack) : k # Len(stack) => Reach'[k] = Reach[k]
      /\ Reach'[Len(stack)] = Position + 1
  BY <1>1, <1>3, MoveView
<1>5. Reach' \in [1..Len(stack) -> Nat]
  BY <1>4, ViewIsTypedNext DEF ViewTyped
<1>6. AtNext(Trail, Reach, Len(stack), "dot", Entry.node)
  BY <1>1, EntryIsNext
<1>7. Reach[Len(stack)] = Position /\ Len(stack) > 0
  BY <1>1, TopView
<1>8. /\ Reach'[Len(stack)] = Reach[Len(stack)] + 1
      /\ Reach'[Len(stack)] \in DOMAIN Tree[Trail[Len(stack)]] =>
            Tree[Trail[Len(stack)]][Reach'[Len(stack)]].kind = "dot"
  BY <1>4, <1>6, <1>7 DEF AtNext
<1>9. /\ Follows(Trail, Reach', Len(stack), printed, from)
      /\ LeavesNoneOut(Trail, Reach, Len(stack), printed, from) =>
            LeavesNoneOut(Trail, Reach', Len(stack), printed, from)
  BY <1>2, <1>4, <1>5, <1>7, <1>8, TrailMoves
<1>10. ~failed' => ~failed
  BY <1>1 DEF Firmware, Idle
<1> QED
  BY <1>1, <1>2, <1>4, <1>9, <1>10 DEF ListInv

LEMMA ListFileLists ==
    ASSUME IInv, IInv', ListInv, ListFile
    PROVE  ListInv'
<1>1. /\ stack # <<>> /\ Top.reading /\ from' = from
      /\ HandlesInv /\ StackInv /\ AtEntry("file") /\ open' = Advanced /\ stack' = stack
      /\ Firmware(FALSE)
      /\ printed' = Append(printed, [depth |-> Len(stack) - 1, node |-> Entry.node])
  BY DEF ListFile, PrintEntry, AtEntry, elsewhere, IInv
<1>2. /\ Follows(Trail, Reach, Len(stack), printed, from)
      /\ ~failed => LeavesNoneOut(Trail, Reach, Len(stack), printed, from)
  BY <1>1 DEF ListInv
<1>3. OnlyTop(Advanced) /\ Advanced[Top.handle].pos = Position + 1
  BY <1>1, AdvancedIs
<1>4. /\ stack' # <<>> /\ Len(stack') = Len(stack) /\ Trail' = Trail
      /\ \A k \in 1..Len(stack) : k # Len(stack) => Reach'[k] = Reach[k]
      /\ Reach'[Len(stack)] = Position + 1
  BY <1>1, <1>3, MoveView
<1>5. Reach' \in [1..Len(stack) -> Nat]
  BY <1>4, ViewIsTypedNext DEF ViewTyped
<1>6. AtNext(Trail, Reach, Len(stack), "file", Entry.node)
  BY <1>1, EntryIsNext
<1>7. Passes(Reach, Reach', Len(stack)) /\ Len(stack) > 0
  BY <1>1, <1>4, <1>5, PassesEntry, TopView
<1>8. Follows(Trail, Reach', Len(stack), printed', from)
  <2>1. "file" # "dot"
    OBVIOUS
  <2> QED
    BY <1>1, <1>2, <1>6, <1>7, <2>1, TrailPrints
<1>9. LeavesNoneOut(Trail, Reach, Len(stack), printed, from) =>
          LeavesNoneOut(Trail, Reach', Len(stack), printed', from)
  BY <1>1, <1>2, <1>6, <1>7, FilePrints
<1>10. ~failed' => ~failed
  BY <1>1 DEF Firmware, Idle
<1> QED
  BY <1>1, <1>2, <1>4, <1>8, <1>9, <1>10 DEF ListInv

LEMMA CannotEnterLists ==
    ASSUME IInv, IInv', ListInv, CannotEnter
    PROVE  ListInv'
<1>1. /\ stack # <<>> /\ Top.reading /\ from' = from
      /\ HandlesInv /\ StackInv /\ AtEntry("dir") /\ Return(Advanced, "FALSE")
      /\ failed'
      /\ printed' = Append(printed, [depth |-> Len(stack) - 1, node |-> Entry.node])
  BY DEF CannotEnter, PrintEntry, AtEntry, elsewhere, IInv, Refused, Firmware
<1>2. Follows(Trail, Reach, Len(stack), printed, from)
  BY <1>1 DEF ListInv
<1>3. OnlyTop(Advanced)
  BY <1>1, AdvancedIs
<1>4. Reach \in [1..Len(stack) -> Nat] /\ Len(stack) \in 1..Len(stack) /\ Len(stack) > 0
      /\ Position \in Nat
  BY <1>1, ViewIsTyped, TopView DEF ViewTyped
<1>5. PICK Q \in [1..Len(stack) -> Nat] :
         /\ \A k \in 1..Len(stack) : k # Len(stack) => Q[k] = Reach[k]
         /\ Q[Len(stack)] = Position + 1
  <2> DEFINE F == [k \in 1..Len(stack) |-> IF k = Len(stack) THEN Position + 1 ELSE Reach[k]]
  <2>1. /\ F \in [1..Len(stack) -> Nat] /\ F[Len(stack)] = Position + 1
        /\ \A k \in 1..Len(stack) : k # Len(stack) => F[k] = Reach[k]
    BY <1>4
  <2> QED
    BY <2>1
<1>6. AtNext(Trail, Reach, Len(stack), "dir", Entry.node)
  BY <1>1, EntryIsNext
<1>7. Passes(Reach, Q, Len(stack))
  BY <1>1, <1>5, PassesEntry
<1>8. Follows(Trail, Q, Len(stack), printed', from)
  <2>1. "dir" # "dot"
    OBVIOUS
  <2> QED
    BY <1>1, <1>2, <1>4, <1>6, <1>7, <2>1, TrailPrints
<1> QED
  BY <1>1, <1>3, <1>5, <1>8, ListReturns

LEMMA EnterDirectoryLists ==
    ASSUME IInv, IInv', ListInv, EnterDirectory
    PROVE  ListInv'
<1>1. /\ stack # <<>> /\ Top.reading /\ from' = from
      /\ HandlesInv /\ StackInv /\ AtEntry("dir") /\ CanOpen
      /\ open' = Opened(Advanced, Entry.node)
      /\ stack' = Append(stack, [handle |-> NewHandle, reading |-> FALSE])
      /\ Firmware(FALSE)
      /\ printed' = Append(printed, [depth |-> Len(stack) - 1, node |-> Entry.node])
  BY DEF EnterDirectory, PrintEntry, AtEntry, elsewhere, IInv
<1>2. /\ Follows(Trail, Reach, Len(stack), printed, from)
      /\ ~failed => LeavesNoneOut(Trail, Reach, Len(stack), printed, from)
  BY <1>1 DEF ListInv
<1>3. OnlyTop(Advanced) /\ Advanced[Top.handle].pos = Position + 1
  BY <1>1, AdvancedIs
<1>4. Entry.node \in Dirs
  BY <1>1, EntryIsTyped
<1>5. /\ stack' # <<>> /\ Len(stack') = Len(stack) + 1
      /\ \A k \in 1..Len(stack) : /\ Trail'[k] = Trail[k]
                                  /\ k # Len(stack) => Reach'[k] = Reach[k]
      /\ Reach'[Len(stack)] = Position + 1
      /\ Trail'[Len(stack) + 1] = Entry.node /\ Reach'[Len(stack) + 1] = 0
  BY <1>1, <1>3, <1>4, PushView
<1>6. /\ Trail' \in [1..(Len(stack) + 1) -> Dirs]
      /\ Reach' \in [1..(Len(stack) + 1) -> Nat]
  BY <1>5, ViewIsTypedNext DEF ViewTyped
<1>7. AtNext(Trail, Reach, Len(stack), "dir", Entry.node)
  BY <1>1, EntryIsNext
<1>8. Reach'[Len(stack)] = Reach[Len(stack)] + 1 /\ Len(stack) > 0
  BY <1>1, <1>5, TopView
<1>9. /\ Follows(Trail', Reach', Len(stack) + 1, printed', from)
      /\ LeavesNoneOut(Trail, Reach, Len(stack), printed, from) =>
            LeavesNoneOut(Trail', Reach', Len(stack) + 1, printed', from)
  <2>1. GoesDown(Trail, Reach, Len(stack), Trail', Reach', Entry.node)
    BY <1>5, <1>6, <1>8 DEF GoesDown
  <2> QED
    BY <1>1, <1>2, <1>7, <1>8, <2>1, TrailEnters
<1>10. ~failed' => ~failed
  BY <1>1 DEF Firmware, Idle
<1> QED
  BY <1>1, <1>2, <1>5, <1>9, <1>10 DEF ListInv

LEMMA ListStepLists == IInv /\ IInv' /\ ListInv /\ ListStep => ListInv'
  BY RewindLists, ReadsList, SkipDotsLists, ListFileLists, CannotEnterLists,
     EnterDirectoryLists DEF ListStep

\* A listing that begins has printed nothing.
LEMMA BeginsLists ==
    ASSUME IInv', NEW h, Begins(h)
    PROVE  ListInv'
<1>1. /\ stack' = <<[handle |-> h, reading |-> FALSE]>> /\ printed' = <<>>
      /\ from' = open'[h].node /\ from' \in Dirs
  BY DEF Begins, Enter
<1>2. /\ Len(stack') = 1 /\ stack' # <<>>
      /\ stack'[1] = [handle |-> h, reading |-> FALSE]
  BY <1>1
<1>3. Trail' = [k \in 1..1 |-> from']
  BY <1>1, <1>2 DEF Trail
<1>4. Reach' = [k \in 1..1 |-> 0]
  BY <1>1, <1>2 DEF Reach
<1>5. Follows(Trail', Reach', 1, <<>>, from') /\ LeavesNoneOut(Trail', Reach', 1, <<>>, from')
  BY <1>1, <1>3, <1>4, TrailBegins
<1> QED
  BY <1>1, <1>2, <1>5 DEF ListInv

\* Between listings the output stays as it is, or is that of no listing.
LEMMA OutsideLists == IInv /\ ListInv /\ OutsideAction => ListInv'
<1> SUFFICES ASSUME IInv, ListInv, OutsideAction PROVE ListInv'
  OBVIOUS
<1>1. stack = <<>> /\ stack' = <<>> /\ result' = "none"
  BY OutsideActionIs DEF Outside
<1>2. UNCHANGED <<printed, from>> \/ NotListing
  BY DEF OutsideAction, BlInitFileSystem, BlGetRootDirectory, BlGetRootDirectoryByIndex,
         BlFindFile, OpenFile, BlSetWorkingDirectory, SetDirectory, SubDirectoryForClient,
         BlGetFileName, Close, FreeBuffer, Call, listing
<1>3. IsListing(printed', from')
  <2>1. CASE UNCHANGED <<printed, from>>
    BY <1>1, <2>1 DEF ListInv
  <2>2. CASE NotListing
    <3>1. printed' = <<>> /\ from' \in Dirs
      BY <2>2, Constants DEF NotListing
    <3> QED
      BY <3>1, NothingIsListing
  <2> QED
    BY <1>2, <2>1, <2>2
<1> QED
  BY <1>1, <1>3 DEF ListInv

LEMMA InfoLists == IInv /\ ListInv /\ InfoAction => ListInv'
<1> SUFFICES ASSUME IInv, ListInv, Informs PROVE ListInv'
  BY InfoActionIs
<1>1. stack = <<>> /\ stack' = <<>> /\ result' = "none"
  BY DEF Informs
<1>2. UNCHANGED <<printed, from>> \/ NotListing
  BY DEF Informs
<1>3. IsListing(printed', from')
  <2>1. CASE UNCHANGED <<printed, from>>
    BY <1>1, <2>1 DEF ListInv
  <2>2. CASE NotListing
    <3>1. printed' = <<>> /\ from' \in Dirs
      BY <2>2, Constants DEF NotListing
    <3> QED
      BY <3>1, NothingIsListing
  <2> QED
    BY <1>2, <2>1, <2>2
<1> QED
  BY <1>1, <1>3 DEF ListInv

LEMMA BlListAllFilesLists == IInv /\ IInv' /\ BlListAllFiles => ListInv'
<1> SUFFICES ASSUME IInv, IInv', BlListAllFiles PROVE ListInv'
  OBVIOUS
<1>1. CASE cur' # NULL
  <2>1. cur' \in DOMAIN open' /\ open'[cur'].node \in Dirs
    BY <1>1, Constants DEF IInv, HandlesInv
  <2>2. Begins(cur')
    BY <1>1, <2>1 DEF BlListAllFiles, Begins
  <2> QED
    BY <2>2, BeginsLists
<1>2. CASE cur' = NULL
  <2>1. stack' = <<>> /\ from' = Volumes[1] /\ printed' = <<>>
    BY <1>2 DEF BlListAllFiles
  <2>2. loaded' => failed'
    <3>1. cur = NULL /\ GetRoot /\ loaded' = loaded
      <4>1. cur' = cur \/ GetRoot
        BY DEF BlListAllFiles
      <4> QED
        BY <1>2, <4>1 DEF BlListAllFiles
    <3>2. CanOpen => NewHandle # NULL
      BY NewHandleIs, Constants
    <3> QED
      BY <1>2, <3>1, <3>2 DEF GetRoot, Refused, Firmware
  <2>3. IsListing(printed', from')
    <3>1. from' \in Dirs
      BY <2>1, Constants
    <3> QED
      BY <2>1, <3>1, NothingIsListing
  <2> QED
    BY <2>1, <2>2, <2>3 DEF ListInv
<1> QED
  BY <1>1, <1>2

LEMMA ListInvKept == IInv /\ IInv' /\ ListInv /\ [Next]_vars => ListInv'
<1> SUFFICES ASSUME IInv, IInv', ListInv, [Next]_vars PROVE ListInv'
  OBVIOUS
<1>1. CASE OutsideAction
  BY <1>1, OutsideLists
<1>2. ASSUME NEW h \in held, ListOpenDirectory(h) PROVE ListInv'
  <2>1. Begins(h)
    BY <1>2 DEF ListOpenDirectory, Begins, Enter, IInv, HandlesInv
  <2> QED
    BY <2>1, BeginsLists
<1>3. CASE BlListAllFiles
  BY <1>3, BlListAllFilesLists
<1>4. CASE ListStep
  BY <1>4, ListStepLists
<1>5. CASE UNCHANGED vars
  <2>1. /\ loaded' = loaded /\ open' = open /\ stack' = stack /\ from' = from
        /\ printed' = printed /\ result' = result /\ failed' = failed
    BY <1>5 DEF vars, memory, listing
  <2>2. Trail' = Trail /\ Reach' = Reach
    BY <2>1 DEF Trail, Reach
  <2> QED
    BY <2>1, <2>2 DEF ListInv
<1>6. CASE InfoAction
  BY <1>6, InfoLists
<1> QED
  BY <1>1, <1>2, <1>3, <1>4, <1>5, <1>6, NextCases

\* What BlListDirectoryRecursive prints (filesystem.c 216-313) is, line by line, the
\* tree below the directory it is given, for every tree, at every depth and whichever
\* call of the firmware fails; nothing is left out unless one has failed.
THEOREM ListsTheTree == Spec => []ListingFaithful
<1>1. Init => IInv /\ ListInv
  BY InitInv, ListInitInv
<1>2. IInv /\ ListInv /\ [Next]_vars => (IInv /\ ListInv)'
  BY InvKept, ListInvKept
<1>3. IInv /\ ListInv => ListingFaithful
  BY ListIsFaithful
<1> QED
  BY <1>1, <1>2, <1>3, PTL DEF Spec
=============================================================================
