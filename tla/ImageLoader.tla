----------------------------- MODULE ImageLoader -----------------------------
(* How the loader finds kernel.exe and loads it: FindExeFile of UefiMain.c,   *)
(* the file functions it calls and BlLdrLoadPEImage64 over PeImage. Any call  *)
(* of the firmware may fail; what is followed is which handles and buffers    *)
(* are live, what is read as a status, and the image UefiMain goes on with.   *)
EXTENDS PeImage

VARIABLES
    at,         \* the statement FindExeFile or BlLdrLoadPEImage64 is at
    dir,        \* CurrentDirectory
    found,      \* File of FindExeFile
    handle,     \* ImageFileHandle of BlLdrLoadPEImageFile
    open,       \* handles that are open
    name,       \* Buffer of FindExeFile
    fileInfo,   \* ImageFileInfo of BlLdrLoadPEImageFile
    pool,       \* pool buffers that are live
    info,       \* KernelImage: still zero, or set
    faults,     \* undefined behaviour the program has run into
    failed      \* whether the firmware has refused anything

files == <<dir, found, handle, open>>
vars == <<file, image, at, files, name, fileInfo, pool, info, faults, failed>>

Handles == {"first root", "fallback root", "second root", "file", "image file"}
Infos == {"short info", "long info"}
Buffers == {"name", "file image"} \cup Infos
Ends == {"load error", "success", "crash"}

TypeOK ==
    /\ PeTypeOK
    /\ at \in Ends \cup {"init", "root", "find", "name", "free name", "root again",
                         "open", "info", "get info", "free info", "info again",
                         "get info again", "buffer", "read", "check", "pages",
                         "sections", "relocate", "set", "loaded"}
    /\ dir \in Handles \cup {"NULL"}
    /\ found \in {"NULL", "file"}
    /\ handle \in {"NULL", "image file"}
    /\ open \subseteq Handles
    /\ name \in {"unset", "name"}
    /\ fileInfo \in Infos \cup {"NULL"}
    /\ pool \subseteq Buffers
    /\ info \in {"zero", "set"}
    /\ faults \subseteq {"free unset", "free twice", "NULL call"}
    /\ failed \in BOOLEAN

Init ==
    /\ PeInit
    /\ at = "init"
    /\ dir = "NULL" /\ found = "NULL" /\ handle = "NULL" /\ open = {}
    /\ name = "unset" /\ fileInfo = "NULL" /\ pool = {}
    /\ info = "zero"
    /\ faults = {} /\ failed = FALSE

loading == <<file, image, info>>

\* The firmware does what it is asked, or refuses.
Done == UNCHANGED failed
Refused == failed' = TRUE

-----------------------------------------------------------------------------
\* FindExeFile. BlInitFileSystem: the loaded image protocol, or EFI_NOT_FOUND.
BlInitFileSystem ==
    /\ at = "init"
    /\ \/ at' = "root" /\ Done
       \/ at' = "load error" /\ Refused
    /\ UNCHANGED <<files, name, fileInfo, pool, loading, faults>>

\* BlGetRootDirectory: the handle opened before is not closed.
BlGetRootDirectory(h) ==
    /\ open' = open \cup {h}
    /\ dir' = h
    /\ Done
    /\ UNCHANGED <<found, handle>>

\* Before the search and again after it; a failure only skips the listing.
GetRoot(from, h, to) ==
    /\ at = from
    /\ at' = to
    /\ \/ BlGetRootDirectory(h)
       \/ Refused /\ UNCHANGED files
    /\ UNCHANGED <<name, fileInfo, pool, loading, faults>>

\* BlFindFile without a current directory; the one error it does report.
FindWithoutRoot ==
    /\ at = "find" /\ dir = "NULL"
    /\ \/ BlGetRootDirectory("fallback root") /\ UNCHANGED at
       \/ at' = "load error" /\ Refused /\ UNCHANGED files
    /\ UNCHANGED <<name, fileInfo, pool, loading, faults>>

\* Mutant of BlFindFile: the handle goes to the wrong caller's variable.
BugFindMixesHandles(from, h, to) ==
    /\ at = from /\ dir # "NULL"
    /\ at' = to
    /\ open' = open \cup {h}
    /\ handle' = h
    /\ UNCHANGED <<dir, found, name, fileInfo, pool, loading, faults, failed>>

\* BlFindFile: opened, or not and FALSE, which is EFI_SUCCESS, is returned.
BlFindFile(from, h, to) ==
    /\ at = from /\ dir # "NULL"
    /\ at' = to
    /\ \/ /\ open' = open \cup {h}
          /\ IF h = "file" THEN found' = h /\ UNCHANGED handle
                           ELSE handle' = h /\ UNCHANGED found
          /\ Done /\ UNCHANGED dir
       \/ Refused /\ UNCHANGED files
    /\ UNCHANGED <<name, fileInfo, pool, loading, faults>>

\* BlGetFileName frees its own buffer; the name, from strfmt, is set on success only.
BlGetFileName ==
    /\ at = "name"
    /\ at' = "free name"
    /\ \/ found # "NULL" /\ name' = "name" /\ pool' = pool \cup {"name"} /\ Done
       \/ Refused /\ UNCHANGED <<name, pool>>
    /\ UNCHANGED <<files, fileInfo, loading, faults>>

\* FreePool of a buffer that must be live.
Free(b) ==
    /\ pool' = pool \ {b}
    /\ faults' = IF b \in pool THEN faults ELSE faults \cup {"free twice"}

\* FreePool(Buffer), set or not.
FreeName ==
    /\ at = "free name"
    /\ at' = "root again"
    /\ IF name = "unset" THEN faults' = faults \cup {"free unset"} /\ UNCHANGED pool
                         ELSE Free(name)
    /\ UNCHANGED <<files, name, fileInfo, loading, failed>>

-----------------------------------------------------------------------------
\* BlLdrLoadPEImageFile. Each failure after the lookup closes the file.
Fail ==
    /\ at' = "loaded"
    /\ open' = open \ {handle}
    /\ Refused
    /\ UNCHANGED <<dir, found, handle>>

\* Mutant of AllocateInfo: a refusal cleans up as that of the second GetInfo does.
BugRefusalFrees(from, b, to) ==
    /\ at = from /\ handle # "NULL"
    /\ \/ /\ at' = to
          /\ pool' = pool \cup {b} /\ fileInfo' = b
          /\ Done /\ UNCHANGED <<files, faults>>
       \/ /\ Fail /\ UNCHANGED fileInfo
          /\ IF fileInfo = "NULL" THEN UNCHANGED <<pool, faults>> ELSE Free(fileInfo)
    /\ UNCHANGED <<name, loading>>

\* BlGetFileInfo allocates room for a name of common length, and in the second attempt
\* as much as GetInfo asked for. A refusal may or may not reset the pointer.
AllocateInfo(from, b, to) ==
    /\ at = from /\ handle # "NULL"
    /\ \/ /\ at' = to
          /\ pool' = pool \cup {b} /\ fileInfo' = b
          /\ Done /\ UNCHANGED files
       \/ Fail /\ fileInfo' \in {fileInfo, "NULL"} /\ UNCHANGED pool
    /\ UNCHANGED <<name, loading, faults>>

\* GetInfo answers, finds the buffer too small, or is refused; then the buffer stays.
GetInfo ==
    /\ at = "get info"
    /\ \/ at' \in {"buffer", "free info"} /\ Done /\ UNCHANGED files
       \/ Fail
    /\ UNCHANGED <<name, fileInfo, pool, loading, faults>>

\* Mutant of FreeShortInfo: the second attempt begins without the FreePool.
BugShortInfoKept ==
    /\ at = "free info"
    /\ at' = "info again"
    /\ UNCHANGED <<files, name, fileInfo, pool, loading, faults, failed>>

FreeShortInfo ==
    /\ at = "free info"
    /\ at' = "info again"
    /\ Free(fileInfo)
    /\ UNCHANGED <<files, name, fileInfo, loading, failed>>

\* The second attempt gives its buffer back when it is refused.
GetInfoAgain ==
    /\ at = "get info again"
    /\ \/ at' = "buffer" /\ Done /\ UNCHANGED <<files, pool, faults>>
       \/ Fail /\ Free(fileInfo)
    /\ UNCHANGED <<name, fileInfo, loading>>

\* A file that was not found: BlGetFileInfo refuses it and Close is called on NULL.
CloseNull ==
    /\ at = "info" /\ handle = "NULL"
    /\ at' = "crash"
    /\ faults' = faults \cup {"NULL call"}
    /\ UNCHANGED <<files, name, fileInfo, pool, loading, failed>>

\* The caller frees the file information and allocates the file's size.
AllocateFileImage ==
    /\ at = "buffer"
    /\ faults' = IF fileInfo \in pool THEN faults ELSE faults \cup {"free twice"}
    /\ \/ /\ at' = "read"
          /\ pool' = (pool \ {fileInfo}) \cup {"file image"}
          /\ Done /\ UNCHANGED files
       \/ Fail /\ pool' = pool \ {fileInfo}
    /\ UNCHANGED <<name, fileInfo, loading>>

\* Mutant of ReadFile: the failure path forgets to close the file.
BugReadLeavesOpen ==
    /\ at = "read"
    /\ \/ /\ at' = "check" /\ open' = open \ {handle}
          /\ Done /\ UNCHANGED <<dir, found, handle>>
       \/ at' = "loaded" /\ Refused /\ UNCHANGED files
    /\ UNCHANGED <<name, fileInfo, pool, loading, faults>>

\* Read, and Close in both cases.
ReadFile ==
    /\ at = "read"
    /\ \/ /\ at' = "check" /\ open' = open \ {handle}
          /\ Done /\ UNCHANGED <<dir, found, handle>>
       \/ Fail
    /\ UNCHANGED <<name, fileInfo, pool, loading, faults>>

-----------------------------------------------------------------------------
\* BlLdrLoadPEImage64 goes on with the file in memory.
CheckFile ==
    /\ at = "check"
    /\ at' = IF PeIsValidImage(file) THEN "pages" ELSE "loaded"
    /\ UNCHANGED <<files, name, fileInfo, pool, loading, faults, failed>>

\* BlLdrAllocatePEImagePages, anywhere or, when there is no such memory, at the
\* preferred base; the headers are checked again where they were copied to.
AllocateImagePages ==
    /\ at = "pages"
    /\ \/ /\ \E b \in Places \cup {file.base} : CopyHeaders(b)
          /\ at' = IF file.cut THEN "loaded" ELSE "sections"
          /\ Done
       \/ at' = "loaded" /\ Refused /\ UNCHANGED <<file, image>>
    /\ UNCHANGED <<files, name, fileInfo, pool, info, faults>>

Rest == <<files, name, fileInfo, pool, faults, failed>>

BlLdrAlignFileImage ==
    /\ at = "sections"
    /\ \/ CopySection /\ UNCHANGED at
       \/ SectionsDone /\ at' = "relocate" /\ UNCHANGED <<file, image>>
    /\ UNCHANGED <<info, Rest>>

\* Mutant of BlLdrImageRelocation: a type that is not known ends it with success.
BugUnknownIsSuccess ==
    /\ at = "relocate"
    /\ \/ (RelocateEntry \/ NextBlock) /\ UNCHANGED at
       \/ UnknownType /\ at' = "set" /\ UNCHANGED <<file, image>>
       \/ RelocationDone /\ at' = "set" /\ UNCHANGED <<file, image>>
    /\ UNCHANGED <<info, Rest>>

BlLdrImageRelocation ==
    /\ at = "relocate"
    /\ \/ (RelocateEntry \/ NextBlock) /\ UNCHANGED at
       \/ UnknownType /\ at' = "loaded" /\ UNCHANGED <<file, image>>
       \/ RelocationDone /\ at' = "set" /\ UNCHANGED <<file, image>>
    /\ UNCHANGED <<info, Rest>>

\* KernelImage is filled in last.
SetInfo ==
    /\ at = "set"
    /\ info' = "set"
    /\ at' = "loaded"
    /\ UNCHANGED <<file, image, Rest>>

\* FindExeFile drops the status of BlLdrLoadPEImage64.
ReturnSuccess ==
    /\ at = "loaded"
    /\ at' = "success"
    /\ UNCHANGED <<loading, Rest>>

Next ==
    \/ BlInitFileSystem \/ GetRoot("root", "first root", "find")
    \/ FindWithoutRoot \/ BlFindFile("find", "file", "name")
    \/ BlGetFileName \/ FreeName \/ GetRoot("root again", "second root", "open")
    \/ BlFindFile("open", "image file", "info")
    \/ AllocateInfo("info", "short info", "get info") \/ CloseNull \/ GetInfo
    \/ FreeShortInfo \/ AllocateInfo("info again", "long info", "get info again")
    \/ GetInfoAgain \/ AllocateFileImage \/ ReadFile
    \/ CheckFile \/ AllocateImagePages \/ BlLdrAlignFileImage
    \/ BlLdrImageRelocation \/ SetInfo \/ ReturnSuccess

\* The loader is one sequence of statements, which runs on.
Spec == Init /\ [][Next]_vars /\ WF_vars(Next)

-----------------------------------------------------------------------------
\* On every path out of BlLdrLoadPEImageFile (image.c 20-58) the handle it opened
\* is closed, whichever firmware call failed.
ImageHandleClosed ==
    at \in {"check", "pages", "sections", "relocate", "set", "loaded", "success"} =>
        "image file" \notin open

\* What UefiMain maps and enters (UefiMain.c 426-434) is a whole image: once
\* KernelImage is set (image.c 188-191), every word is what the format says of this
\* file at this place, through sections longer or shorter than their data, the
\* modular distance in both directions (image.c 284-319), padding, the two ends of
\* the relocations (295) and memory that was not zeroed (112-116).
InfoIsWhole == info = "set" => img = WholeImage(file, base) /\ KnownTypes(file, base)

\* FindExeFile returns EFI_SUCCESS with KernelImage unset (UefiMain.c 76-78) only when
\* a call of the firmware failed, or for a file that cannot be loaded where it was put.
UnsetOnlyOnFailure ==
    at = "success" /\ info = "zero" => failed \/ ~Loadable(file, base)

\* On every way through BlGetFileInfo, with or without the second attempt and whatever
\* of it is refused, and through its caller (filesystem.c 444-481, image.c 28-45) file
\* information is freed only while it is live; and the two calls on pointers that were
\* never set (UefiMain.c:66, image.c:31) are made only after a refusal.
FaultsNeedFailure ==
    /\ "free twice" \notin faults
    /\ faults # {} => failed

\* The statements after BlLdrLoadPEImageFile is done with the file information.
InfoOver == {"read", "check", "pages", "sections", "relocate", "set", "loaded", "success"}

\* BlGetFileInfo and its caller leave file information behind, the short one or the one
\* of the second attempt, at no other place than where the first GetInfo is refused
\* (filesystem.c:479): the other exits (448, 464, 473) and the caller (image.c:37) free
\* what is live.
OnlyFirstKeeps ==
    [][at \notin InfoOver /\ at' \in InfoOver /\ Infos \cap pool' # {}
          => at = "get info"]_vars

\* FindExeFile ends, however many blocks of relocations the directory promises and
\* wherever they end (image.c 295-336).
LoadEnds == <>(at \in Ends)
=============================================================================
