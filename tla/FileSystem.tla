----------------------------- MODULE FileSystem -----------------------------
(* The functions of filesystem.c, called in any order by one client over a   *)
(* firmware whose every call may fail: the current directory, the last error, *)
(* the handles and pool buffers that are live, and BlListDirectoryRecursive   *)
(* with its stack of open directories. FindExeFile is one such client.        *)
EXTENDS Naturals, FiniteSets, SequencesExt

CONSTANTS
    Tree,           \* directory -> its entries, in the order Read returns them
    Volumes,        \* the root directories fs0, fs1, ...; the loader is on fs0
    Paths,          \* what the client asks for by name
    MaxHandles,     \* file handles the firmware can have open
    MaxBuffers      \* pool buffers that fit in memory

Dirs == DOMAIN Tree
Entries == UNION {{Tree[d][i] : i \in DOMAIN Tree[d]} : d \in Dirs}
Nodes == {e.node : e \in Entries} \cup Dirs
Handles == 1..MaxHandles
NULL == 0

\* An entry is "." or "..", a directory or a file. Directories form a tree: but for
\* "." and ".." nothing is an entry twice, and no directory is below itself.
ASSUME FileSystemAssumption ==
    /\ {MaxHandles, MaxBuffers} \subseteq Nat \ {0}
    /\ Volumes \in Seq(Dirs) /\ Volumes # <<>>
    /\ Paths \subseteq Nodes
    /\ \A d \in Dirs : Tree[d] \in Seq([kind : {"dot", "dir", "file"}, node : Nodes])
    /\ \A e \in Entries : e.kind = "file" <=> e.node \notin Dirs
    /\ \A c, d \in Dirs : \A i \in DOMAIN Tree[c] : \A j \in DOMAIN Tree[d] :
          "dot" \notin {Tree[c][i].kind, Tree[d][j].kind}
          /\ Tree[c][i].node = Tree[d][j].node => <<c, i>> = <<d, j>>
    /\ \A S \in SUBSET Dirs : S # {} =>
          \E d \in S : \A c \in S : \A i \in DOMAIN Tree[c] :
              Tree[c][i].kind = "dir" => Tree[c][i].node # d

VARIABLES
    loaded,     \* LoadedImage is not NULL
    status,     \* FILE_SYSTEM_STATUS
    cur,        \* CurrentDirectory
    open,       \* the open handles: what each is for and its position
    held,       \* handles of BlFindFile the client has not closed
    pool, owed, \* live pool buffers, and those among them the client is to free
    pending,    \* what a call of several steps, other than a listing, does next
    stack,      \* active calls of BlListDirectoryRecursive, the innermost last
    from,       \* the directory that is being listed, or was last
    printed,    \* the lines that listing has printed: depth and name
    result,     \* what it returned
    failed      \* a firmware call of the current or last call has failed

listing == <<stack, from, printed, result>>
memory == <<pool, owed>>
vars == <<loaded, status, cur, open, held, memory, pending, listing, failed>>

Frame == [handle : Handles, reading : BOOLEAN]

TypeOK ==
    /\ loaded \in BOOLEAN
    /\ status \in {"SUCCESS", "ERROR", "INVALID_PARAMETER", "OUT_OF_RESOURCES"}
    /\ cur \in Handles \cup {NULL}
    /\ \A h \in DOMAIN open : h \in Handles /\ open[h] \in [node : Nodes, pos : Nat]
    /\ held \subseteq Handles
    /\ {pool, owed} \subseteq 0..MaxBuffers
    /\ pending \in {<<>>} \cup ({"find", "subdirectory"} \X Paths)
                        \cup ({"info"} \X {"get", "again", "get again"})
    /\ stack \in Seq(Frame)
    /\ from \in Dirs
    /\ printed \in Seq([depth : Nat, node : Nodes])
    /\ result \in {"none", "TRUE", "FALSE"}
    /\ failed \in BOOLEAN

NotListing == /\ stack' = <<>> /\ printed' = <<>> /\ result' = "none"
              /\ from' = Volumes[1]

Init ==
    /\ loaded = FALSE /\ status = "SUCCESS" /\ cur = NULL /\ open = <<>>
    /\ held = {} /\ pool = 0 /\ owed = 0 /\ pending = <<>>
    /\ stack = <<>> /\ from = Volumes[1] /\ printed = <<>> /\ result = "none"
    /\ failed = FALSE

Idle == stack = <<>> /\ pending = <<>>

\* Whether a firmware call of this step fails; a new call starts without failures.
Firmware(fails) == failed' = (fails \/ (~Idle /\ failed))

-----------------------------------------------------------------------------
\* The firmware's part: a handle not in use, at the start of node n.
CanOpen == Handles \ DOMAIN open # {}
NewHandle == CHOOSE h \in Handles \ DOMAIN open :
                 \A g \in Handles \ DOMAIN open : h <= g
Opened(table, n) ==
    [h \in DOMAIN table \cup {NewHandle} |->
        IF h = NewHandle THEN [node |-> n, pos |-> 0] ELSE table[h]]
Closed(table, h) == [g \in DOMAIN table \ {h} |-> table[g]]

Refused == status' = "ERROR" /\ Firmware(TRUE)

\* On failure the protocol pointer may have been cleared or not been written.
BlInitFileSystem ==
    /\ Idle
    /\ \/ loaded' = TRUE /\ status' = "SUCCESS" /\ Firmware(FALSE)
       \/ loaded' \in {loaded, FALSE} /\ Refused
    /\ NotListing
    /\ UNCHANGED <<cur, open, held, memory, pending>>

\* BlGetRootDirectory(NULL): a new handle each time; the one before stays open.
GetRoot ==
    \/ /\ loaded /\ CanOpen
       /\ open' = Opened(open, Volumes[1])
       /\ cur' = NewHandle
       /\ status' = "SUCCESS"
       /\ Firmware(FALSE)
    \/ loaded /\ Refused /\ UNCHANGED <<open, cur>>
    \/ ~loaded /\ Firmware(FALSE) /\ UNCHANGED <<open, cur, status>>

BlGetRootDirectory ==
    /\ Idle
    /\ GetRoot
    /\ NotListing
    /\ UNCHANGED <<loaded, held, memory, pending>>

\* Only the paths that fail early free the handle buffer. The element past its end
\* is no handle, which OpenProtocol refuses.
BlGetRootDirectoryByIndex(index) ==
    /\ Idle
    /\ \/ Refused /\ UNCHANGED <<cur, open, pool>>
       \/ /\ pool < MaxBuffers /\ index > Len(Volumes)
          /\ status' = "SUCCESS" /\ Firmware(FALSE)
          /\ UNCHANGED <<cur, open, pool>>
       \/ /\ pool < MaxBuffers /\ index < Len(Volumes)
          /\ pool' = pool + 1
          /\ \/ Refused /\ UNCHANGED <<cur, open>>
             \/ /\ CanOpen
                /\ open' = Opened(open, Volumes[index + 1])
                /\ cur' = NewHandle
                /\ status' = "SUCCESS" /\ Firmware(FALSE)
    /\ NotListing
    /\ UNCHANGED <<loaded, held, owed, pending>>

\* A function that needs CurrentDirectory opens the root first if there is none; if
\* that fails it returns.
Call(what, n) ==
    /\ Idle
    /\ IF cur # NULL
       THEN pending' = <<what, n>> /\ Firmware(FALSE) /\ UNCHANGED <<open, cur, status>>
       ELSE GetRoot /\ pending' = IF cur' = NULL THEN <<>> ELSE <<what, n>>
    /\ NotListing
    /\ UNCHANGED <<loaded, held, memory>>

BlFindFile(n) == Call("find", n)
BlSetWorkingDirectory(n) == Call("subdirectory", n)

OpenFile(n) ==
    /\ pending = <<"find", n>>
    /\ pending' = <<>>
    /\ \/ /\ CanOpen
          /\ open' = Opened(open, n) /\ held' = held \cup {NewHandle}
          /\ status' = "SUCCESS" /\ Firmware(FALSE)
       \/ Refused /\ UNCHANGED <<open, held>>
    /\ UNCHANGED <<loaded, cur, memory, listing>>

\* BlOpenSubDirectory. No status equals EFI_FILE_DIRECTORY, so that the handle just
\* opened is dropped, and lines 150 to 166 are not reached.
BlOpenSubDirectory(n) ==
    /\ \/ CanOpen /\ open' = Opened(open, n) /\ Firmware(FALSE)
       \/ Firmware(TRUE) /\ UNCHANGED open
    /\ status' = "INVALID_PARAMETER"
    /\ UNCHANGED <<loaded, cur, held, memory>>

SubDirectoryForClient(n) ==
    /\ Idle /\ cur # NULL
    /\ BlOpenSubDirectory(n)
    /\ NotListing
    /\ UNCHANGED pending

\* BlSetWorkingDirectory goes on: NewDirectory is still NULL, FALSE is returned.
SetDirectory(n) ==
    /\ pending = <<"subdirectory", n>>
    /\ pending' = <<>>
    /\ BlOpenSubDirectory(n)
    /\ UNCHANGED listing

\* BlGetFileName: the name from strfmt, which may fail without being noticed.
BlGetFileName(h) ==
    /\ Idle /\ h \in held
    /\ \/ status' = "OUT_OF_RESOURCES" /\ Firmware(TRUE) /\ UNCHANGED memory
       \/ Refused /\ UNCHANGED memory
       \/ /\ pool < MaxBuffers /\ status' = "SUCCESS"
          /\ \/ pool' = pool + 1 /\ owed' = owed + 1 /\ Firmware(FALSE)
             \/ Firmware(TRUE) /\ UNCHANGED memory
    /\ NotListing
    /\ UNCHANGED <<loaded, cur, open, held, pending>>

\* BlGetFileInfo allocates room for the information. Success does not set the last error.
BlGetFileInfo(h) ==
    /\ Idle /\ h \in held
    /\ \/ /\ pool < MaxBuffers /\ pool' = pool + 1
          /\ pending' = <<"info", "get">>
          /\ Firmware(FALSE) /\ UNCHANGED status
       \/ Refused /\ UNCHANGED <<pool, pending>>
    /\ NotListing
    /\ UNCHANGED <<loaded, cur, open, held, owed>>

around == <<loaded, cur, open, held, listing>>

\* GetInfo answers, and the buffer is the client's; or it is too small and freed.
GetInfo ==
    /\ pending = <<"info", "get">>
    /\ \/ pending' = <<>> /\ owed' = owed + 1 /\ UNCHANGED pool
       \/ pending' = <<"info", "again">> /\ pool' = pool - 1 /\ UNCHANGED owed
    /\ Firmware(FALSE)
    /\ UNCHANGED <<around, status>>

\* Refused for any other reason, it leaves the buffer to nobody.
GetInfoRefused ==
    /\ pending = <<"info", "get">>
    /\ pending' = <<>>
    /\ Refused
    /\ UNCHANGED <<around, memory>>

\* The second attempt, with as much room as the first one asked for.
AllocateInfoAgain ==
    /\ pending = <<"info", "again">>
    /\ \/ /\ pool < MaxBuffers /\ pool' = pool + 1
          /\ pending' = <<"info", "get again">>
          /\ Firmware(FALSE) /\ UNCHANGED status
       \/ pending' = <<>> /\ Refused /\ UNCHANGED pool
    /\ UNCHANGED <<around, owed>>

\* Mutant of GetInfoAgain: a refusal keeps the buffer, like that of the first attempt.
BugGetInfoAgainKeeps ==
    /\ pending = <<"info", "get again">>
    /\ pending' = <<>>
    /\ \/ owed' = owed + 1 /\ Firmware(FALSE) /\ UNCHANGED <<status, pool>>
       \/ Refused /\ UNCHANGED memory
    /\ UNCHANGED around

GetInfoAgain ==
    /\ pending = <<"info", "get again">>
    /\ pending' = <<>>
    /\ \/ owed' = owed + 1 /\ Firmware(FALSE) /\ UNCHANGED <<status, pool>>
       \/ pool' = pool - 1 /\ Refused /\ UNCHANGED owed
    /\ UNCHANGED around

\* The client closes a file and frees a buffer it was given.
Close(h) ==
    /\ Idle /\ h \in held
    /\ held' = held \ {h} /\ open' = Closed(open, h)
    /\ NotListing /\ Firmware(FALSE)
    /\ UNCHANGED <<loaded, status, cur, memory, pending>>

FreeBuffer ==
    /\ Idle /\ owed > 0
    /\ owed' = owed - 1 /\ pool' = pool - 1
    /\ NotListing /\ Firmware(FALSE)
    /\ UNCHANGED <<loaded, status, cur, open, held, pending>>

-----------------------------------------------------------------------------
\* BlListDirectoryRecursive: entering it for handle h.
Enter(h, n) ==
    /\ stack' = <<[handle |-> h, reading |-> FALSE]>>
    /\ from' = n /\ printed' = <<>> /\ result' = "none"

ListOpenDirectory(h) ==
    /\ Idle /\ h \in held /\ open[h].node \in Dirs
    /\ Enter(h, open[h].node)
    /\ Firmware(FALSE)
    /\ UNCHANGED <<loaded, status, cur, open, held, memory, pending>>

BlListAllFiles ==
    /\ Idle
    /\ IF cur # NULL
       THEN Firmware(FALSE) /\ UNCHANGED <<open, cur, status>>
       ELSE GetRoot
    /\ IF cur' # NULL
       THEN Enter(cur', open'[cur'].node)
       ELSE /\ stack' = <<>> /\ from' = Volumes[1]
            /\ printed' = <<>> /\ result' = "FALSE"
    /\ UNCHANGED <<loaded, held, memory, pending>>

Top == Last(stack)
Position == open[Top.handle].pos
Names == Tree[open[Top.handle].node]
Entry == Names[Position + 1]
AtEntry(kind) == /\ stack # <<>> /\ Top.reading
                 /\ Position < Len(Names) /\ Entry.kind = kind
Advanced == [open EXCEPT ![Top.handle].pos = @ + 1]
PrintEntry == printed' = Append(printed, [depth |-> Len(stack) - 1, node |-> Entry.node])

\* Mutant of Return: the caller closes its own directory.
BugReturnClosesParent(table, value) ==
    IF Len(stack) = 1
    THEN open' = table /\ stack' = <<>> /\ result' = value
    ELSE /\ open' = Closed(table, stack[Len(stack) - 1].handle)
         /\ stack' = Front(stack)
         /\ UNCHANGED result

\* A call returns; its caller closes the subdirectory and drops the value.
Return(table, value) ==
    IF Len(stack) = 1
    THEN open' = table /\ stack' = <<>> /\ result' = value
    ELSE open' = Closed(table, Top.handle) /\ stack' = Front(stack) /\ UNCHANGED result

elsewhere == <<loaded, cur, held, owed, pending, from>>

\* Mutant of Rewind: the position is left where the last listing stopped.
BugNoRewind ==
    /\ stack # <<>> /\ ~Top.reading
    /\ \/ Refused /\ Return(open, "FALSE") /\ UNCHANGED pool
       \/ /\ status' = "OUT_OF_RESOURCES" /\ Firmware(TRUE)
          /\ Return(open, "FALSE") /\ UNCHANGED pool
       \/ /\ pool < MaxBuffers /\ pool' = pool + 1
          /\ stack' = [stack EXCEPT ![Len(stack)].reading = TRUE]
          /\ status' = "SUCCESS" /\ Firmware(FALSE)
          /\ UNCHANGED <<open, result>>
    /\ UNCHANGED <<elsewhere, printed>>

\* Mutant of Rewind: an allocation that fails does not set the last error.
BugNoErrorSet ==
    /\ stack # <<>> /\ ~Top.reading
    /\ \/ Refused /\ Return(open, "FALSE") /\ UNCHANGED pool
       \/ /\ status' = "SUCCESS" /\ Firmware(TRUE)
          /\ Return([open EXCEPT ![Top.handle].pos = 0], "FALSE") /\ UNCHANGED pool
       \/ /\ pool < MaxBuffers /\ pool' = pool + 1
          /\ open' = [open EXCEPT ![Top.handle].pos = 0]
          /\ stack' = [stack EXCEPT ![Len(stack)].reading = TRUE]
          /\ status' = "SUCCESS" /\ Firmware(FALSE)
          /\ UNCHANGED result
    /\ UNCHANGED <<elsewhere, printed>>

\* SetPosition, and the buffer for one entry.
Rewind ==
    /\ stack # <<>> /\ ~Top.reading
    /\ \/ Refused /\ Return(open, "FALSE") /\ UNCHANGED pool
       \/ /\ status' = "OUT_OF_RESOURCES" /\ Firmware(TRUE)
          /\ Return([open EXCEPT ![Top.handle].pos = 0], "FALSE") /\ UNCHANGED pool
       \/ /\ pool < MaxBuffers /\ pool' = pool + 1
          /\ open' = [open EXCEPT ![Top.handle].pos = 0]
          /\ stack' = [stack EXCEPT ![Len(stack)].reading = TRUE]
          /\ status' = "SUCCESS" /\ Firmware(FALSE)
          /\ UNCHANGED result
    /\ UNCHANGED <<elsewhere, printed>>

\* Read fails, also for a name longer than the buffer is made for.
ReadFails ==
    /\ stack # <<>> /\ Top.reading
    /\ Refused
    /\ pool' = pool - 1
    /\ Return(open, "FALSE")
    /\ UNCHANGED <<elsewhere, printed>>

ReadNothingMore ==
    /\ stack # <<>> /\ Top.reading /\ Position = Len(Names)
    /\ status' = "SUCCESS" /\ Firmware(FALSE)
    /\ pool' = pool - 1
    /\ Return(open, "TRUE")
    /\ UNCHANGED <<elsewhere, printed>>

\* Mutant of SkipDots: "." and ".." are entered like any directory.
BugEnterDots ==
    /\ AtEntry("dot")
    /\ CanOpen
    /\ open' = Opened(Advanced, Entry.node)
    /\ stack' = Append(stack, [handle |-> NewHandle, reading |-> FALSE])
    /\ PrintEntry
    /\ status' = "SUCCESS" /\ Firmware(FALSE)
    /\ UNCHANGED <<elsewhere, pool, result>>

\* Mutant of SkipDots: ".." is skipped by going back to the start.
BugSkipRewinds ==
    /\ AtEntry("dot")
    /\ open' = IF Position = 0 THEN Advanced ELSE [open EXCEPT ![Top.handle].pos = 0]
    /\ status' = "SUCCESS" /\ Firmware(FALSE)
    /\ UNCHANGED <<elsewhere, pool, stack, printed, result>>

SkipDots ==
    /\ AtEntry("dot")
    /\ open' = Advanced
    /\ status' = "SUCCESS" /\ Firmware(FALSE)
    /\ UNCHANGED <<elsewhere, pool, stack, printed, result>>

ListFile ==
    /\ AtEntry("file")
    /\ open' = Advanced
    /\ PrintEntry
    /\ status' = "SUCCESS" /\ Firmware(FALSE)
    /\ UNCHANGED <<elsewhere, pool, stack, result>>

EnterDirectory ==
    /\ AtEntry("dir")
    /\ PrintEntry
    /\ CanOpen
    /\ open' = Opened(Advanced, Entry.node)
    /\ stack' = Append(stack, [handle |-> NewHandle, reading |-> FALSE])
    /\ status' = "SUCCESS" /\ Firmware(FALSE)
    /\ UNCHANGED <<elsewhere, pool, result>>

\* Mutant of CannotEnter: the buffer is not freed.
BugCannotEnterKeeps ==
    /\ AtEntry("dir")
    /\ PrintEntry
    /\ Refused
    /\ Return(Advanced, "FALSE")
    /\ UNCHANGED <<elsewhere, pool>>

\* Mutant of CannotEnter: the buffer is freed here and at the end once more.
BugCannotEnterFreesTwice ==
    /\ AtEntry("dir")
    /\ PrintEntry
    /\ Refused
    /\ pool' = pool - 2
    /\ Return(Advanced, "FALSE")
    /\ UNCHANGED <<elsewhere>>

\* OpenDirectory fails: the rest of the directory is given up.
CannotEnter ==
    /\ AtEntry("dir")
    /\ PrintEntry
    /\ Refused
    /\ pool' = pool - 1
    /\ Return(Advanced, "FALSE")
    /\ UNCHANGED <<elsewhere>>

ListStep ==
    \/ Rewind \/ ReadFails \/ ReadNothingMore \/ SkipDots \/ ListFile
    \/ EnterDirectory \/ CannotEnter

\* FILE_SYSTEM names FS0 to FS3.
Next ==
    \/ BlInitFileSystem \/ BlGetRootDirectory
    \/ \E index \in 0..3 : BlGetRootDirectoryByIndex(index)
    \/ \E n \in Paths : \/ BlFindFile(n) \/ OpenFile(n)
                        \/ BlSetWorkingDirectory(n) \/ SetDirectory(n)
                        \/ SubDirectoryForClient(n)
    \/ \E h \in held : \/ BlGetFileName(h) \/ BlGetFileInfo(h) \/ Close(h)
                       \/ ListOpenDirectory(h)
    \/ GetInfo \/ GetInfoRefused \/ AllocateInfoAgain \/ GetInfoAgain
    \/ FreeBuffer \/ BlListAllFiles \/ ListStep

\* One thread: a listing that has begun goes on.
Spec == Init /\ [][Next]_vars /\ WF_vars(ListStep)

-----------------------------------------------------------------------------
\* A line shows entry x of directory d, which is neither "." nor "..".
Shows(line, d, x) == Tree[d][x].kind # "dot" /\ Tree[d][x].node = line.node

\* Line i is an entry of the directory that is listed, or it is an entry of the
\* directory on the last line before it that is less deep, and one step deeper.
Placed(lines, top, i) ==
    \/ lines[i].depth = 0 /\ \E x \in DOMAIN Tree[top] : Shows(lines[i], top, x)
    \/ \E j \in 1..(i - 1) :
          /\ lines[i].depth = lines[j].depth + 1
          /\ \A k \in (j + 1)..(i - 1) : lines[k].depth > lines[j].depth
          /\ lines[j].node \in Dirs
          /\ \E x \in DOMAIN Tree[lines[j].node] : Shows(lines[i], lines[j].node, x)

\* The lines come in the order of the entries, and no entry has two.
Ordered(lines) ==
    \A i, j \in DOMAIN lines : i < j =>
        \A d \in Dirs : \A x, y \in DOMAIN Tree[d] :
            Shows(lines[i], d, x) /\ Shows(lines[j], d, y) => x < y

IsListing(lines, top) ==
    Ordered(lines) /\ \A i \in DOMAIN lines : Placed(lines, top, i)

\* Of each directory that is listed, every entry but "." and ".." has a line.
IsComplete(lines, top) ==
    \A d \in Dirs \cap ({top} \cup {lines[i].node : i \in DOMAIN lines}) :
        \A x \in DOMAIN Tree[d] : Tree[d][x].kind # "dot" =>
            \E i \in DOMAIN lines : Shows(lines[i], d, x)

\* A listing (filesystem.c 216-313) prints every line below that of its directory, the
\* entries of a directory in their order and none of them twice, whatever fails; when
\* nothing fails and it is over, also after one that stopped half-way, it has left
\* nothing out and returns TRUE.
ListingFaithful ==
    /\ IsListing(printed, from)
    /\ (stack = <<>> /\ result # "none" /\ loaded /\ ~failed) =>
          result = "TRUE" /\ IsComplete(printed, from)

\* CurrentDirectory (filesystem.h:17) and every directory on the recursion's stack
\* are open, and are different handles below the first: closing a subdirectory
\* (filesystem.c:302) pulls no handle from under a caller.
DirectoriesStayOpen ==
    /\ cur # NULL => cur \in DOMAIN open /\ open[cur].node \in ToSet(Volumes)
    /\ \A i \in DOMAIN stack : /\ stack[i].handle \in DOMAIN open
                               /\ \A j \in 1..(i - 1) : stack[i].handle # stack[j].handle

\* Nested calls overwrite the last error. Once a listing is over it nevertheless
\* agrees with what the listing returned ("TRUE on success, FALSE on error. Get
\* error through BlGetLastFileError()", filesystem.h:87).
LastErrorAgrees ==
    (stack = <<>> /\ loaded) =>
        (result = "TRUE" => status = "SUCCESS") /\ (result = "FALSE" => status # "SUCCESS")

\* Handles and buffers nobody can give back any more: a listing holds a buffer for each
\* directory it reads, BlGetFileInfo one while it asks for the information.
Active == {i \in DOMAIN stack : stack[i].reading}
Informed == IF pending \in {"info"} \X {"get", "get again"} THEN 1 ELSE 0
Unreachable == DOMAIN open \ ({cur} \cup held \cup {stack[i].handle : i \in DOMAIN stack})
Unowned == pool - owed - Cardinality(Active) - Informed

\* Nothing is lost but by replacing the current directory, by BlOpenSubDirectory, by
\* BlGetRootDirectoryByIndex and where the first GetInfo of BlGetFileInfo is refused
\* (filesystem.c 52, 107, 134, 479): a listing, whichever of its calls fails at whatever
\* depth, and the second attempt of BlGetFileInfo (459-473) give everything back.
OnlyTheseLose ==
    [][(Unreachable' # Unreachable \/ Unowned' # Unowned) =>
          \/ cur # NULL /\ cur' # cur
          \/ \E n \in Paths : SubDirectoryForClient(n) \/ SetDirectory(n)
          \/ \E index \in 0..3 : BlGetRootDirectoryByIndex(index)
          \/ GetInfoRefused]_vars

\* Every listing ends although each directory contains "." and ".." ("to avoid
\* infinite recursion", filesystem.c:264) and may fail anywhere.
ListingEnds == (stack # <<>>) ~> (stack = <<>>)
=============================================================================
