------------------------- MODULE ImageLoaderProofs --------------------------
(* For every set of files that stay inside their images, every place they may *)
(* be put at and every width of a word: what the run of ImageLoader checks,   *)
(* the image that is handed on included.                                      *)
EXTENDS ImageLoader, Numbers, FiniteSetTheorems

-----------------------------------------------------------------------------
(* Type correctness. *)

SectionType == [va : 1..(Cells - 1), data : Seq(Words), size : 0..Cells]
EntryType == [type : {"ABSOLUTE", "DIR64", "HIGHLOW"}, offset : 0..(Cells - 1)]
BlockType == [ends : BOOLEAN, page : 0..(Cells - 1), entries : Seq(EntryType)]

LEMMA FileTypes ==
    ASSUME NEW f \in Files
    PROVE  /\ f.base \in Words /\ f.cut \in BOOLEAN /\ f.directory \in BOOLEAN
           /\ f.sections \in Seq(SectionType) /\ f.blocks \in Seq(BlockType)
           /\ f.covered \in Nat
           /\ {f.dos, f.nt, f.x64, f.magic} \subseteq BOOLEAN
  BY FilesAssumption DEF FileType, SectionType, BlockType, EntryType

LEMMA SectionTypes ==
    ASSUME NEW f \in Files, NEW n \in 1..Len(f.sections)
    PROVE  /\ f.sections[n] \in SectionType
           /\ f.sections[n].va \in 1..(Cells - 1) /\ f.sections[n].size \in 0..Cells
           /\ f.sections[n].data \in Seq(Words) /\ Len(f.sections[n].data) \in Nat
<1>1. f.sections[n] \in SectionType
  BY FileTypes
<1> QED
  BY <1>1 DEF SectionType

LEMMA BlockTypes ==
    ASSUME NEW f \in Files, NEW b \in 1..Len(f.blocks)
    PROVE  /\ f.blocks[b].ends \in BOOLEAN /\ f.blocks[b].page \in 0..(Cells - 1)
           /\ f.blocks[b].entries \in Seq(EntryType)
           /\ Len(f.blocks[b].entries) \in Nat
           /\ \A e \in 1..Len(f.blocks[b].entries) :
                 /\ f.blocks[b].entries[e] \in EntryType
                 /\ f.blocks[b].entries[e].offset \in 0..(Cells - 1)
                 /\ f.blocks[b].page + f.blocks[b].entries[e].offset \in 1..(Cells - 1)
<1>1. f.blocks[b] \in BlockType
  BY FileTypes
<1>2. f.blocks[b].entries \in Seq(EntryType)
  BY <1>1 DEF BlockType
<1>3. \A e \in 1..Len(f.blocks[b].entries) : f.blocks[b].entries[e] \in EntryType
  BY <1>2
<1>4. \A e \in 1..Len(f.blocks[b].entries) :
         f.blocks[b].page + f.blocks[b].entries[e].offset \in 1..(Cells - 1)
  <2>1. b \in DOMAIN f.blocks /\ DOMAIN f.blocks[b].entries = 1..Len(f.blocks[b].entries)
    BY <1>2, FileTypes
  <2> QED
    BY <2>1, FilesAssumption
<1> QED
  BY <1>1, <1>2, <1>3, <1>4 DEF BlockType, EntryType

LEMMA WordTypes ==
    /\ Word \in Nat \ {0} /\ Cells \in Nat \ {0} /\ Junk \in Words /\ 0 \in Words
    /\ Places \subseteq Words /\ Words \subseteq Nat
  BY FilesAssumption DEF Words

LEMMA RemainderIsWord == \A n \in Int : n % Word \in Words
  BY FilesAssumption DEF Words

LEMMA InitTypes == Init => TypeOK
<1> SUFFICES ASSUME Init PROVE TypeOK
  OBVIOUS
<1>1. file \in Files /\ Len(file.sections) \in Nat /\ Len(file.blocks) \in Nat
  BY FileTypes DEF Init, PeInit
<1>2. PeTypeOK
  BY <1>1, WordTypes DEF Init, PeInit, PeTypeOK
<1> QED
  BY <1>2 DEF Init, TypeOK, Ends, Handles, Buffers, Infos

LEMMA CopyHeadersTypes ==
    ASSUME PeTypeOK, NEW b \in Places \cup {file.base}, CopyHeaders(b)
    PROVE  PeTypeOK'
<1>1. b \in Words /\ file.base \in Words
  BY FileTypes, WordTypes DEF PeTypeOK
<1>2. img' \in [0..(Cells - 1) -> Words]
  BY <1>1 DEF CopyHeaders, PeTypeOK
<1> QED
  BY <1>1, <1>2 DEF CopyHeaders, PeTypeOK

LEMMA CopySectionTypes == PeTypeOK /\ CopySection => PeTypeOK'
<1> SUFFICES ASSUME PeTypeOK, CopySection PROVE PeTypeOK'
  OBVIOUS
<1>1. /\ file \in Files /\ sec \in 1..Len(file.sections) /\ Len(file.sections) \in Nat
  BY FileTypes DEF PeTypeOK, CopySection
<1> DEFINE s == file.sections[sec]
<1>2. /\ img' = [c \in DOMAIN img |->
                 IF c \in s.va..(s.va + Len(s.data) - 1) THEN s.data[c - s.va + 1]
                 ELSE IF c \in (s.va + Len(s.data))..(s.va + s.size - 1) THEN 0
                 ELSE img[c]]
      /\ sec' = sec + 1 /\ UNCHANGED <<file, base, blk, ent>>
  BY DEF CopySection
<1>3. s.va \in 1..(Cells - 1) /\ s.data \in Seq(Words) /\ Len(s.data) \in Nat
  BY <1>1, SectionTypes
<1> HIDE DEF s
<1>4. ASSUME NEW c \in 0..(Cells - 1), c \in s.va..(s.va + Len(s.data) - 1)
      PROVE  s.data[c - s.va + 1] \in Words
  <2>1. c - s.va + 1 \in 1..Len(s.data)
    BY <1>3, <1>4
  <2> QED
    BY <1>3, <2>1
<1>5. img' \in [0..(Cells - 1) -> Words]
  BY <1>2, <1>4, WordTypes DEF PeTypeOK
<1>6. sec' \in 1..(Len(file.sections) + 1)
  BY <1>1, <1>2
<1> QED
  BY <1>2, <1>5, <1>6 DEF PeTypeOK

LEMMA RelocatedIsWord == PeTypeOK => \A w \in Words : Relocated(w) \in Words
<1> SUFFICES ASSUME PeTypeOK, NEW w \in Words PROVE Relocated(w) \in Words
  OBVIOUS
<1>1. base \in Nat /\ ImageBase \in Nat /\ w \in Nat
  <2>1. 0 \in 0..(Cells - 1)
    BY WordTypes
  <2>2. base \in Words /\ img[0] \in Words
    BY <2>1 DEF PeTypeOK
  <2> QED
    BY <2>2, WordTypes DEF ImageBase
<1>2. RelativeOffset \in Int
  BY <1>1 DEF RelativeOffset
<1>3. w + RelativeOffset \in Int /\ w - RelativeOffset \in Int
  BY <1>1, <1>2
<1> QED
  BY <1>3, RemainderIsWord DEF Relocated

LEMMA RelocateEntryTypes == PeTypeOK /\ RelocateEntry => PeTypeOK'
<1> SUFFICES ASSUME PeTypeOK, RelocateEntry PROVE PeTypeOK'
  OBVIOUS
<1>1. \A c : \A w \in Words : Relocated(w) \in Words
  BY RelocatedIsWord
<1>2. img' \in [0..(Cells - 1) -> Words]
  BY <1>1 DEF RelocateEntry, PeTypeOK
<1> QED
  BY <1>2 DEF RelocateEntry, PeTypeOK

LEMMA NextBlockTypes == PeTypeOK /\ NextBlock => PeTypeOK'
<1> SUFFICES ASSUME PeTypeOK, NextBlock PROVE PeTypeOK'
  OBVIOUS
<1>1. Len(file.blocks) \in Nat
  BY FileTypes DEF PeTypeOK
<1> QED
  BY <1>1 DEF NextBlock, MoreBlocks, PeTypeOK

\* The steps that leave the image and the file as they are.
LEMMA PeSame == PeTypeOK /\ UNCHANGED <<file, image>> => PeTypeOK'
  BY DEF PeTypeOK, image

\* The rest of TypeOK: what the statements of FindExeFile and its callees touch.
RestOK ==
    /\ at \in Ends \cup {"init", "root", "find", "name", "free name", "root again",
                         "open", "info", "get info", "free info", "info again",
                         "get info again", "buffer", "read", "check", "pages",
                         "sections", "relocate", "set", "loaded"}
    /\ dir \in Handles \cup {"NULL"}
    /\ found \in {"NULL", "file"}
    /\ handle \in {"NULL", "image file"}
    /\ open \subseteq Handles
    /\ name \in {"unset", "name"}
    /\ fileInfo \in Infos \cup {"NULL"}
    /\ pool \subseteq Buffers
    /\ info \in {"zero", "set"}
    /\ faults \subseteq {"free unset", "free twice", "NULL call"}
    /\ failed \in BOOLEAN

LEMMA TypeParts == TypeOK <=> PeTypeOK /\ RestOK
  BY DEF TypeOK, RestOK

\* The statements of BlGetFileInfo.
InfoStep ==
    \/ AllocateInfo("info", "short info", "get info") \/ GetInfo \/ FreeShortInfo
    \/ AllocateInfo("info again", "long info", "get info again") \/ GetInfoAgain

\* What a step does to the image.
ImageStep ==
    \/ UNCHANGED <<file, image>>
    \/ \E b \in Places \cup {file.base} : CopyHeaders(b)
    \/ CopySection \/ RelocateEntry \/ NextBlock

LEMMA NextImageStep == [Next]_vars => ImageStep
  BY DEF Next, vars, loading, ImageStep, BlInitFileSystem, GetRoot, FindWithoutRoot,
         BlFindFile, BlGetFileName, FreeName, AllocateInfo, GetInfo, FreeShortInfo,
         GetInfoAgain, Free, CloseNull,
         AllocateFileImage, ReadFile, CheckFile, AllocateImagePages,
         BlLdrAlignFileImage, BlLdrImageRelocation, SetInfo, ReturnSuccess

LEMMA ImageTypes == PeTypeOK /\ ImageStep => PeTypeOK'
  BY PeSame, CopyHeadersTypes, CopySectionTypes, RelocateEntryTypes, NextBlockTypes
  DEF ImageStep

LEMMA RestSame ==
    ASSUME RestOK,
           UNCHANGED <<at, dir, found, handle, open, name, fileInfo, pool, info, faults, failed>>
    PROVE  RestOK'
  BY DEF RestOK

\* A step that gives up handles and buffers, at most, and goes on.
LEMMA RestMoves ==
    ASSUME RestOK, UNCHANGED <<dir, found, handle, name, fileInfo, info, faults>>,
           open' \subseteq open, pool' \subseteq pool, failed' \in BOOLEAN,
           at' \in {"buffer", "free info", "loaded", "relocate", "set"}
    PROVE  RestOK'
<1>1. at' \in {"buffer", "free info", "relocate", "set", "loaded"}
  OBVIOUS
<1>2. open' \subseteq Handles /\ pool' \subseteq Buffers
  BY DEF RestOK
<1> QED
  BY <1>1, <1>2 DEF RestOK

LEMMA RestTypes == RestOK /\ [Next]_vars => RestOK'
<1> SUFFICES ASSUME RestOK, [Next]_vars PROVE RestOK'
  OBVIOUS
<1>a. CASE GetInfo
  <2>1. /\ UNCHANGED <<dir, found, handle, name, fileInfo, info, faults>>
        /\ open' \subseteq open /\ pool' \subseteq pool
        /\ at' \in {"buffer", "free info", "loaded"}
    BY <1>a DEF GetInfo, Fail, files, loading
  <2>2. failed' \in BOOLEAN
    BY <1>a DEF GetInfo, Fail, Done, Refused, RestOK
  <2> QED
    BY <2>1, <2>2, RestMoves
<1>b. CASE BlLdrImageRelocation
  <2>1. at' \in {"relocate", "loaded", "set"} /\ UNCHANGED <<info, Rest>>
    BY <1>b DEF BlLdrImageRelocation
  <2>2. /\ UNCHANGED <<dir, found, handle, name, fileInfo, info, faults>>
        /\ open' \subseteq open /\ pool' \subseteq pool /\ failed' \in BOOLEAN
    BY <2>1 DEF Rest, files, RestOK
  <2> QED
    BY <2>1, <2>2, RestMoves
<1> USE DEF RestOK, Ends, Handles, Buffers, Infos
<1>1. CASE BlInitFileSystem
  BY <1>1 DEF BlInitFileSystem, files, loading, Done, Refused
<1>2. CASE GetRoot("root", "first root", "find")
  BY <1>2 DEF GetRoot, BlGetRootDirectory, files, loading, Done, Refused
<1>3. CASE FindWithoutRoot
  BY <1>3 DEF FindWithoutRoot, BlGetRootDirectory, files, loading, Done, Refused
<1>4. CASE BlFindFile("find", "file", "name")
  BY <1>4 DEF BlFindFile, files, loading, Done, Refused
<1>5. CASE BlGetFileName
  BY <1>5 DEF BlGetFileName, files, loading, Done, Refused
<1>6. CASE FreeName
  BY <1>6 DEF FreeName, Free, files, loading
<1>7. CASE GetRoot("root again", "second root", "open")
  BY <1>7 DEF GetRoot, BlGetRootDirectory, files, loading, Done, Refused
<1>8. CASE BlFindFile("open", "image file", "info")
  BY <1>8 DEF BlFindFile, files, loading, Done, Refused
<1>9. CASE InfoStep
  <2>1. ASSUME NEW from, NEW b \in Infos, NEW to \in {"get info", "get info again"},
               AllocateInfo(from, b, to)
        PROVE  RestOK'
    BY <2>1 DEF AllocateInfo, Fail, files, loading, Done, Refused
  <2>2. CASE FreeShortInfo
    BY <2>2 DEF FreeShortInfo, Free, files, loading
  <2>3. CASE GetInfoAgain
    BY <2>3 DEF GetInfoAgain, Free, Fail, files, loading, Done, Refused
  <2> QED
    BY <1>9, <1>a, <2>1, <2>2, <2>3 DEF InfoStep
<1>10. CASE CloseNull
  BY <1>10 DEF CloseNull, files, loading
<1>11. CASE AllocateFileImage
  BY <1>11 DEF AllocateFileImage, Fail, files, loading, Done, Refused
<1>12. CASE ReadFile
  BY <1>12 DEF ReadFile, Fail, files, loading, Done, Refused
<1>13. CASE CheckFile
  BY <1>13 DEF CheckFile, files, loading
<1>14. CASE AllocateImagePages
  BY <1>14 DEF AllocateImagePages, files, Done, Refused
<1>15. CASE BlLdrAlignFileImage
  BY <1>15 DEF BlLdrAlignFileImage, Rest, files
<1>16. CASE SetInfo
  BY <1>16 DEF SetInfo, Rest, files
<1>17. CASE ReturnSuccess
  BY <1>17 DEF ReturnSuccess, Rest, files, loading
<1>18. CASE UNCHANGED vars
  <2>1. UNCHANGED <<at, dir, found, handle, open, name, fileInfo, pool, info, faults, failed>>
    BY <1>18 DEF vars, files
  <2> QED
    BY <2>1, RestSame
<1> QED
  BY <1>1, <1>2, <1>3, <1>4, <1>5, <1>6, <1>7, <1>8, <1>9, <1>10, <1>11, <1>12,
     <1>13, <1>14, <1>15, <1>16, <1>17, <1>18, <1>a, <1>b DEF Next, InfoStep

\* No relocation writes outside the image and every word stays a word, whatever the
\* sections and relocations of the file are (image.c 80-336).
THEOREM TypeCorrect == Spec => []TypeOK
<1>1. TypeOK /\ [Next]_vars => TypeOK'
  BY TypeParts, RestTypes, NextImageStep, ImageTypes, PTL
<1> QED
  BY <1>1, InitTypes, PTL DEF Spec

-----------------------------------------------------------------------------
(* Handles, buffers and refusals. *)

\* The image file is open only while it is read, and in the variable it is closed by.
ImageHandleKnown ==
    "image file" \in open =>
        /\ handle = "image file"
        /\ at \in {"info", "get info", "free info", "info again", "get info again",
                  "buffer", "read"}

\* Up to the call that sets it the name is unset, and unset only after a refusal.
NameKnown ==
    /\ at \in {"init", "root", "find", "name"} => name = "unset"
    /\ at = "free name" => (name = "unset" => failed) /\ (name = "name" => "name" \in pool)

\* A file that was not opened was refused; its information is live from the call that
\* allocates it to the one that frees it, and never twice.
WithoutInfo == {"init", "root", "find", "name", "free name", "root again", "open", "info",
                "info again"}
WithInfo == {"get info", "free info", "get info again", "buffer"}

InfoKnown ==
    /\ at = "info" /\ handle = "NULL" => failed
    /\ at \in WithoutInfo => Infos \cap pool = {}
    /\ at \in WithInfo => fileInfo \in Infos /\ Infos \cap pool = {fileInfo}

FilesInv == ImageHandleKnown /\ NameKnown /\ InfoKnown /\ FaultsNeedFailure

\* BlGetFileInfo frees what it allocated, once, wherever it is refused.
LEMMA InfoStepKept ==
    ASSUME RestOK, FilesInv, InfoStep
    PROVE  FilesInv'
<1> USE DEF FilesInv, ImageHandleKnown, NameKnown, InfoKnown, FaultsNeedFailure,
            WithInfo, WithoutInfo, Infos
<1>0. handle \in {"NULL", "image file"} /\ failed \in BOOLEAN
  BY DEF RestOK
<1>1. ASSUME NEW from \in {"info", "info again"}, NEW b \in Infos,
             NEW to \in {"get info", "get info again"}, AllocateInfo(from, b, to)
      PROVE  FilesInv'
  <2>1. ImageHandleKnown' /\ NameKnown'
    BY <1>0, <1>1 DEF AllocateInfo, Fail, files, Done, Refused
  <2>2. InfoKnown'
    BY <1>0, <1>1 DEF AllocateInfo, Fail, files, Done, Refused
  <2>3. FaultsNeedFailure'
    <3>1. faults' = faults
      BY <1>1 DEF AllocateInfo
    <3>2. failed => failed'
      BY <1>1 DEF AllocateInfo, Fail, Done, Refused
    <3> QED
      BY <3>1, <3>2
  <2> QED
    BY <2>1, <2>2, <2>3
<1>2. CASE GetInfo
  <2>1. ImageHandleKnown' /\ NameKnown'
    BY <1>0, <1>2 DEF GetInfo, Fail, files, Done, Refused
  <2>2. InfoKnown'
    BY <1>0, <1>2 DEF GetInfo, Fail, files, Done, Refused
  <2>3. FaultsNeedFailure'
    <3>1. faults' = faults
      BY <1>2 DEF GetInfo
    <3>2. failed => failed'
      BY <1>2 DEF GetInfo, Fail, Done, Refused
    <3> QED
      BY <3>1, <3>2
  <2> QED
    BY <2>1, <2>2, <2>3
<1>3. CASE FreeShortInfo
  <2>1. fileInfo \in pool
    BY <1>3 DEF FreeShortInfo
  <2>2. ImageHandleKnown' /\ NameKnown'
    BY <1>0, <1>3 DEF FreeShortInfo, files
  <2>3. InfoKnown'
    BY <1>3 DEF FreeShortInfo, Free
  <2>4. faults' = faults /\ failed' = failed
    BY <1>3, <2>1 DEF FreeShortInfo, Free
  <2>5. FaultsNeedFailure'
    BY <2>4
  <2> QED
    BY <2>2, <2>3, <2>5
<1>4. CASE GetInfoAgain
  <2>1. fileInfo \in pool
    BY <1>4 DEF GetInfoAgain
  <2>2. ImageHandleKnown' /\ NameKnown'
    BY <1>0, <1>4 DEF GetInfoAgain, Fail, files, Done, Refused
  <2>3. InfoKnown'
    BY <1>4 DEF GetInfoAgain, Fail
  <2>4. FaultsNeedFailure'
    <3>1. faults' = faults
      BY <1>4, <2>1 DEF GetInfoAgain, Free
    <3>2. failed => failed'
      BY <1>4 DEF GetInfoAgain, Fail, Done, Refused
    <3> QED
      BY <3>1, <3>2
  <2> QED
    BY <2>2, <2>3, <2>4
<1> QED
  BY <1>1, <1>2, <1>3, <1>4 DEF InfoStep

LEMMA FilesInvKept == RestOK /\ FilesInv /\ [Next]_vars => FilesInv'
<1> SUFFICES ASSUME RestOK, FilesInv, [Next]_vars PROVE FilesInv'
  OBVIOUS
<1> USE DEF FilesInv, ImageHandleKnown, NameKnown, InfoKnown, FaultsNeedFailure,
            WithInfo, WithoutInfo, Infos
<1>0. /\ handle \in {"NULL", "image file"} /\ name \in {"unset", "name"}
      /\ failed \in BOOLEAN
  BY DEF RestOK
<1>1. CASE BlInitFileSystem
  BY <1>1 DEF BlInitFileSystem, files, loading, Done, Refused
<1>2. CASE GetRoot("root", "first root", "find")
  BY <1>2 DEF GetRoot, BlGetRootDirectory, files, loading, Done, Refused
<1>3. CASE FindWithoutRoot
  BY <1>3 DEF FindWithoutRoot, BlGetRootDirectory, files, loading, Done, Refused
<1>4. CASE BlFindFile("find", "file", "name")
  <2>1. ImageHandleKnown'
    BY <1>0, <1>4 DEF BlFindFile, files, loading, Done, Refused
  <2>2. NameKnown'
    BY <1>0, <1>4 DEF BlFindFile, files, loading, Done, Refused
  <2>3. InfoKnown'
    BY <1>0, <1>4 DEF BlFindFile, files, loading, Done, Refused
  <2>4. FaultsNeedFailure'
    <3>1. faults' = faults
      BY <1>4 DEF BlFindFile
    <3>2. failed => failed'
      BY <1>4 DEF BlFindFile, files, loading, Done, Refused
    <3> QED
      BY <3>1, <3>2
  <2> QED
    BY <2>1, <2>2, <2>3, <2>4
<1>5. CASE BlGetFileName
  BY <1>0, <1>5 DEF BlGetFileName, files, loading, Done, Refused
<1>6. CASE FreeName
  <2>1. ImageHandleKnown'
    BY <1>0, <1>6 DEF FreeName, Free, files, loading
  <2>2. NameKnown'
    BY <1>0, <1>6 DEF FreeName, Free, files, loading
  <2>3. InfoKnown'
    BY <1>0, <1>6 DEF FreeName, Free, files, loading
  <2>4. FaultsNeedFailure'
    <3>1. CASE name = "unset"
      <4>1. faults' = faults \cup {"free unset"} /\ failed /\ failed' = failed
        BY <1>6, <3>1 DEF FreeName
      <4> QED
        BY <4>1
    <3>2. CASE name # "unset"
      <4>1. faults' = faults /\ failed' = failed
        BY <1>0, <1>6, <3>2 DEF FreeName, Free
      <4> QED
        BY <4>1
    <3> QED
      BY <3>1, <3>2
  <2> QED
    BY <2>1, <2>2, <2>3, <2>4
<1>7. CASE GetRoot("root again", "second root", "open")
  BY <1>7 DEF GetRoot, BlGetRootDirectory, files, loading, Done, Refused
<1>8. CASE BlFindFile("open", "image file", "info")
  <2>1. ImageHandleKnown'
    BY <1>0, <1>8 DEF BlFindFile, files, loading, Done, Refused
  <2>2. NameKnown'
    BY <1>0, <1>8 DEF BlFindFile, files, loading, Done, Refused
  <2>3. InfoKnown'
    BY <1>0, <1>8 DEF BlFindFile, files, loading, Done, Refused
  <2>4. FaultsNeedFailure'
    <3>1. faults' = faults
      BY <1>8 DEF BlFindFile
    <3>2. failed => failed'
      BY <1>8 DEF BlFindFile, files, loading, Done, Refused
    <3> QED
      BY <3>1, <3>2
  <2> QED
    BY <2>1, <2>2, <2>3, <2>4
<1>9. CASE InfoStep
  BY <1>9, InfoStepKept
<1>10. CASE CloseNull
  BY <1>10 DEF CloseNull, files, loading
<1>11. CASE AllocateFileImage
  BY <1>0, <1>11 DEF AllocateFileImage, Fail, files, loading, Done, Refused
<1>12. CASE ReadFile
  BY <1>0, <1>12 DEF ReadFile, Fail, files, loading, Done, Refused
<1>13. CASE CheckFile
  BY <1>13 DEF CheckFile, files, loading
<1>14. CASE AllocateImagePages
  BY <1>14 DEF AllocateImagePages, files, Done, Refused
<1>15. CASE BlLdrAlignFileImage
  BY <1>15 DEF BlLdrAlignFileImage, Rest, files
<1>16. CASE BlLdrImageRelocation
  BY <1>16 DEF BlLdrImageRelocation, Rest, files
<1>17. CASE SetInfo
  BY <1>17 DEF SetInfo, Rest, files
<1>18. CASE ReturnSuccess
  BY <1>18 DEF ReturnSuccess, Rest, files, loading
<1>19. CASE UNCHANGED vars
  BY <1>19 DEF vars, files
<1> QED
  BY <1>1, <1>2, <1>3, <1>4, <1>5, <1>6, <1>7, <1>8, <1>9, <1>10, <1>11, <1>12,
     <1>13, <1>14, <1>15, <1>16, <1>17, <1>18, <1>19 DEF Next, InfoStep

LEMMA SpecFiles == Spec => []FilesInv
<1>1. Init => FilesInv
  BY DEF Init, FilesInv, ImageHandleKnown, NameKnown, InfoKnown, FaultsNeedFailure,
         WithInfo, Infos
<1>2. TypeOK /\ FilesInv /\ [Next]_vars => FilesInv'
  BY FilesInvKept, TypeParts
<1> QED
  BY <1>1, <1>2, TypeCorrect, PTL DEF Spec

\* BlLdrLoadPEImageFile (image.c 20-58) leaves no handle behind, on any path.
THEOREM HandleIsClosed == Spec => []ImageHandleClosed
<1>1. FilesInv => ImageHandleClosed
  BY DEF FilesInv, ImageHandleKnown, ImageHandleClosed
<1> QED
  BY <1>1, SpecFiles, PTL

\* On every way through BlGetFileInfo and its caller (filesystem.c 444-481, image.c
\* 28-45) file information is freed only while it is live, and no pointer that was never
\* set is used unless the firmware refused a call (UefiMain.c:66, image.c:31).
THEOREM FaultsFollowRefusals == Spec => []FaultsNeedFailure
<1>1. FilesInv => FaultsNeedFailure
  BY DEF FilesInv
<1> QED
  BY <1>1, SpecFiles, PTL

LEMMA KeepingStep ==
    ASSUME RestOK, FilesInv, [Next]_vars, at \notin InfoOver, at' \in InfoOver,
           Infos \cap pool' # {}
    PROVE  at = "get info"
<1> USE DEF InfoOver, Infos, FilesInv, InfoKnown, WithInfo, WithoutInfo
<1>1. \/ InfoStep \/ AllocateFileImage \/ BlFindFile("open", "image file", "info")
      \/ BlFindFile("find", "file", "name")
  BY DEF Next, InfoStep, vars, BlInitFileSystem, GetRoot, FindWithoutRoot, BlGetFileName,
         FreeName, CloseNull, ReadFile, CheckFile, AllocateImagePages,
         BlLdrAlignFileImage, BlLdrImageRelocation, SetInfo, ReturnSuccess
<1>2. CASE BlFindFile("open", "image file", "info") \/ BlFindFile("find", "file", "name")
  BY <1>2 DEF BlFindFile
<1>3. CASE AllocateFileImage
  BY <1>3 DEF AllocateFileImage
<1>4. CASE InfoStep
  BY <1>4 DEF InfoStep, AllocateInfo, GetInfo, FreeShortInfo, GetInfoAgain, Free
<1> QED
  BY <1>1, <1>2, <1>3, <1>4

\* Of all exits of BlGetFileInfo (filesystem.c 444-483), first and second attempt, and
\* of its caller (image.c 28-58) only the refusal of the first GetInfo (479) leaves file
\* information behind.
THEOREM OneExitKeeps == Spec => OnlyFirstKeeps
<1>1. TypeOK /\ FilesInv /\ [Next]_vars =>
         [at \notin InfoOver /\ at' \in InfoOver /\ Infos \cap pool' # {}
             => at = "get info"]_vars
  BY KeepingStep, TypeParts
<1> QED
  BY <1>1, TypeCorrect, SpecFiles, PTL DEF Spec, OnlyFirstKeeps

-----------------------------------------------------------------------------
(* The sections, one after the other. *)

\* What Laid finds in the section that lies uppermost among those of a set.
LaidBy(f, c, over) ==
    IF c = 0 THEN f.base
    ELSE IF over = {} THEN Junk
    ELSE LET s == f.sections[CHOOSE n \in over : \A m \in over : m <= n]
             o == c - s.va + 1
         IN  IF o <= Len(s.data) THEN s.data[o] ELSE 0

\* The sections over a word among the first n - 1.
OverBefore(f, c, n) == {m \in SectionsOver(f, c) : m < n}

LEMMA SectionsOverTypes ==
    ASSUME NEW f \in Files, NEW c
    PROVE  /\ SectionsOver(f, c) \subseteq 1..Len(f.sections)
           /\ \A m \in 1..Len(f.sections) :
                 m \in SectionsOver(f, c) <=>
                    c \in f.sections[m].va
                       ..(f.sections[m].va
                            + Larger(Len(f.sections[m].data), f.sections[m].size) - 1)
<1>1. DOMAIN f.sections = 1..Len(f.sections)
  BY FileTypes
<1> QED
  BY <1>1 DEF SectionsOver

\* A word laid out is a word.
LEMMA LaidIsWord ==
    ASSUME NEW f \in Files, NEW c \in 0..(Cells - 1)
    PROVE  Laid(f, c) \in Words
<1> DEFINE over == SectionsOver(f, c)
<1> DEFINE top == CHOOSE n \in over : \A m \in over : m <= n
<1>1. CASE c = 0
  BY <1>1, FileTypes DEF Laid
<1>2. CASE c # 0 /\ over = {}
  BY <1>2, WordTypes DEF Laid
<1>3. CASE c # 0 /\ over # {}
  <2>1. over \in SUBSET Nat /\ Len(f.sections) \in Nat /\ \A x \in over : x <= Len(f.sections)
    BY SectionsOverTypes, FileTypes
  <2>2. \E x \in over : \A y \in over : y <= x
    <3> HIDE DEF over
    <3> QED
      BY <1>3, <2>1, GreatestElement
  <2>3. top \in over
    BY <2>2
  <2> DEFINE s == f.sections[top]
  <2> DEFINE o == c - s.va + 1
  <2>4. /\ s.va \in 1..(Cells - 1) /\ s.data \in Seq(Words) /\ Len(s.data) \in Nat
        /\ c >= s.va
    <3>1. top \in 1..Len(f.sections)
      BY <2>3, SectionsOverTypes
    <3> HIDE DEF top
    <3>2. /\ s.va \in 1..(Cells - 1) /\ s.size \in 0..Cells
          /\ s.data \in Seq(Words) /\ Len(s.data) \in Nat
      BY <3>1, SectionTypes
    <3>3. c \in s.va..(s.va + Larger(Len(s.data), s.size) - 1)
      BY <2>3, <3>1, SectionsOverTypes
    <3> QED
      BY <3>2, <3>3 DEF Larger
  <2>5. Laid(f, c) = IF o <= Len(s.data) THEN s.data[o] ELSE 0
    BY <1>3 DEF Laid
  <2> HIDE DEF top, s
  <2>6. o <= Len(s.data) => s.data[o] \in Words
    <3>1. o \in Int /\ o >= 1
      BY <2>4
    <3> HIDE DEF o
    <3> QED
      BY <2>4, <3>1
  <2> QED
    BY <2>5, <2>6, WordTypes
<1> QED
  BY <1>1, <1>2, <1>3

\* Copying one more section lays it over those before it.
LEMMA SectionIsLaid ==
    ASSUME PeTypeOK, CopySection,
           \A c \in 0..(Cells - 1) : img[c] = LaidBy(file, c, OverBefore(file, c, sec))
    PROVE  \A c \in 0..(Cells - 1) : img'[c] = LaidBy(file, c, OverBefore(file, c, sec + 1))
<1> SUFFICES ASSUME NEW c \in 0..(Cells - 1)
             PROVE  img'[c] = LaidBy(file, c, OverBefore(file, c, sec + 1))
  OBVIOUS
<1>1. file \in Files /\ sec \in 1..Len(file.sections) /\ Len(file.sections) \in Nat
  BY FileTypes DEF PeTypeOK, CopySection
<1> DEFINE s == file.sections[sec]
<1>2. img'[c] = IF c \in s.va..(s.va + Len(s.data) - 1) THEN s.data[c - s.va + 1]
                ELSE IF c \in (s.va + Len(s.data))..(s.va + s.size - 1) THEN 0
                ELSE img[c]
  BY DEF CopySection, PeTypeOK
<1>3. /\ s.va \in 1..(Cells - 1) /\ s.size \in 0..Cells
      /\ s.data \in Seq(Words) /\ Len(s.data) \in Nat
  BY <1>1, SectionTypes
<1>4. sec \in SectionsOver(file, c) <=>
         c \in s.va..(s.va + Larger(Len(s.data), s.size) - 1)
  BY <1>1, SectionsOverTypes
<1>5. SectionsOver(file, c) \subseteq Nat
  BY <1>1, SectionsOverTypes
<1> DEFINE old == OverBefore(file, c, sec)
<1> DEFINE new == OverBefore(file, c, sec + 1)
<1>6. CASE sec \in SectionsOver(file, c)
  <2>1. sec \in new /\ \A m \in new : m <= sec
    BY <1>1, <1>5, <1>6 DEF OverBefore
  <2>2. new \subseteq Nat
    BY <1>5 DEF OverBefore
  <2>3. (CHOOSE n \in new : \A m \in new : m <= n) = sec
    <3> HIDE DEF new
    <3>1. \A n \in new : (\A m \in new : m <= n) => n = sec
      BY <1>1, <2>1, <2>2
    <3> QED
      BY <2>1, <3>1
  <2>4. c # 0 /\ new # {}
    BY <1>3, <1>4, <1>6, <2>1
  <2>5. LaidBy(file, c, new) =
          IF c - s.va + 1 <= Len(s.data) THEN s.data[c - s.va + 1] ELSE 0
    <3>1. LaidBy(file, c, new) =
            LET t == file.sections[CHOOSE n \in new : \A m \in new : m <= n]
                o == c - t.va + 1
            IN  IF o <= Len(t.data) THEN t.data[o] ELSE 0
      BY <2>4 DEF LaidBy
    <3> HIDE DEF new
    <3> QED
      BY <2>3, <3>1
  <2>6. /\ c - s.va + 1 <= Len(s.data) <=> c \in s.va..(s.va + Len(s.data) - 1)
        /\ ~(c - s.va + 1 <= Len(s.data)) =>
              c \in (s.va + Len(s.data))..(s.va + s.size - 1)
    <3>1. c \in s.va..(s.va + Larger(Len(s.data), s.size) - 1)
      BY <1>4, <1>6
    <3> HIDE DEF s
    <3> QED
      BY <1>3, <3>1 DEF Larger
  <2> HIDE DEF s, new
  <2>7. img'[c] = LaidBy(file, c, new)
    BY <1>2, <2>5, <2>6
  <2> QED
    BY <2>7 DEF new
<1>7. CASE sec \notin SectionsOver(file, c)
  <2>1. new = old
    BY <1>1, <1>5, <1>7 DEF OverBefore
  <2>2. /\ c \notin s.va..(s.va + Len(s.data) - 1)
        /\ c \notin (s.va + Len(s.data))..(s.va + s.size - 1)
    <3>1. c \notin s.va..(s.va + Larger(Len(s.data), s.size) - 1)
      BY <1>4, <1>7
    <3> HIDE DEF s
    <3> QED
      BY <1>3, <3>1 DEF Larger
  <2>3. img'[c] = img[c]
    <3> HIDE DEF s
    <3> QED
      BY <1>2, <2>2
  <2> QED
    BY <2>1, <2>3
<1> QED
  BY <1>6, <1>7

LEMMA AllSectionsAreLaid ==
    ASSUME PeTypeOK, SectionsDone, NEW c
    PROVE  LaidBy(file, c, OverBefore(file, c, sec)) = Laid(file, c)
<1>1. file \in Files /\ sec \in Nat /\ sec > Len(file.sections)
      /\ Len(file.sections) \in Nat
  BY FileTypes DEF PeTypeOK, SectionsDone
<1>2. OverBefore(file, c, sec) = SectionsOver(file, c)
  BY <1>1, SectionsOverTypes DEF OverBefore
<1> QED
  BY <1>2 DEF LaidBy, Laid

-----------------------------------------------------------------------------
(* The relocations, one after the other. *)

\* The entries before entry e of block b.
Passed(x, b, e) == x[1] < b \/ (x[1] = b /\ x[2] < e)

\* Entry x adds the distance to word c.
Moves(f, x, c) ==
    /\ EntryAt(f, x).type = "DIR64"
    /\ f.blocks[x[1]].page + EntryAt(f, x).offset = c

Fixed(f, b, e, c) == {x \in Listed(f) : Passed(x, b, e) /\ Moves(f, x, c)}

LEMMA ListedIs ==
    ASSUME NEW f \in Files
    PROVE  /\ ListedBlocks(f) \subseteq 1..Len(f.blocks)
           /\ \A x \in Listed(f) : \E b \in ListedBlocks(f) :
                 \E e \in 1..Len(f.blocks[b].entries) : x = <<b, e>>
           /\ \A b \in ListedBlocks(f) : \A e \in 1..Len(f.blocks[b].entries) :
                 <<b, e>> \in Listed(f)
<1>1. ListedBlocks(f) \subseteq 1..Len(f.blocks)
  BY FileTypes DEF ListedBlocks
<1>2. \A b \in ListedBlocks(f) :
         DOMAIN f.blocks[b].entries = 1..Len(f.blocks[b].entries)
  <2> TAKE b \in ListedBlocks(f)
  <2>1. f.blocks[b].entries \in Seq(EntryType)
    BY <1>1, BlockTypes
  <2> QED
    BY <2>1
<1>3. \A x : x \in Listed(f) <=>
         \E b \in ListedBlocks(f) : x \in {b} \X DOMAIN f.blocks[b].entries
  BY DEF Listed
<1> QED
  BY <1>1, <1>2, <1>3

LEMMA ListedIsFinite ==
    ASSUME NEW f \in Files
    PROVE  IsFiniteSet(Listed(f))
<1> DEFINE row == [b \in ListedBlocks(f) |-> {b} \X DOMAIN f.blocks[b].entries]
<1> DEFINE rows == {row[b] : b \in ListedBlocks(f)}
<1>1. IsFiniteSet(ListedBlocks(f))
  <2>1. IsFiniteSet(1..Len(f.blocks))
    BY FileTypes, FS_Interval
  <2> QED
    BY <2>1, ListedIs, FS_Subset
<1>2. ASSUME NEW b \in ListedBlocks(f) PROVE IsFiniteSet(row[b])
  <2> DEFINE es == DOMAIN f.blocks[b].entries
  <2>1. b \in 1..Len(f.blocks)
    BY ListedIs
  <2>2. f.blocks[b].entries \in Seq(EntryType) /\ Len(f.blocks[b].entries) \in Nat
    BY <2>1, BlockTypes
  <2>3. es = 1..Len(f.blocks[b].entries)
    BY <2>2
  <2>4. IsFiniteSet(es)
    BY <2>2, <2>3, FS_Interval
  <2>5. IsFiniteSet({b}) /\ row[b] = {b} \X es
    BY FS_Singleton
  <2>6. IsFiniteSet({b} \X es)
    <3> HIDE DEF es
    <3> QED
      BY <2>4, <2>5, FS_Product
  <2> QED
    BY <2>5, <2>6
<1>3. IsFiniteSet(rows)
  <2>1. row \in Surjection(ListedBlocks(f), rows)
    BY DEF Surjection
  <2> HIDE DEF row, rows
  <2> QED
    BY <1>1, <2>1, FS_Surjection
<1>4. \A r \in rows : IsFiniteSet(r)
  <2> HIDE DEF row
  <2> QED
    BY <1>2
<1>5. IsFiniteSet(UNION rows)
  <2> HIDE DEF rows
  <2> QED
    BY <1>3, <1>4, FS_UNION
<1>6. rows = {{b} \X DOMAIN f.blocks[b].entries : b \in ListedBlocks(f)}
  OBVIOUS
<1> QED
  BY <1>5, <1>6 DEF Listed

LEMMA FixedIsFinite ==
    ASSUME NEW f \in Files, NEW b, NEW e, NEW c
    PROVE  IsFiniteSet(Fixed(f, b, e, c)) /\ Cardinality(Fixed(f, b, e, c)) \in Nat
<1>1. Fixed(f, b, e, c) \subseteq Listed(f)
  BY DEF Fixed
<1>2. IsFiniteSet(Fixed(f, b, e, c))
  BY <1>1, ListedIsFinite, FS_Subset
<1> QED
  BY <1>2, FS_CardinalityType

\* Before the first entry nothing has been moved.
LEMMA FixedFirst ==
    ASSUME NEW f \in Files, NEW c
    PROVE  /\ \A x \in Listed(f) : ~Passed(x, 1, 1)
           /\ Cardinality(Fixed(f, 1, 1, c)) = 0
<1>1. \A x \in Listed(f) : ~Passed(x, 1, 1)
  <2> SUFFICES ASSUME NEW x \in Listed(f) PROVE ~Passed(x, 1, 1)
    OBVIOUS
  <2>1. PICK b \in ListedBlocks(f) : \E e \in 1..Len(f.blocks[b].entries) : x = <<b, e>>
    BY ListedIs
  <2>2. PICK e \in 1..Len(f.blocks[b].entries) : x = <<b, e>>
    BY <2>1
  <2>3. b >= 1 /\ e >= 1 /\ b \in Nat /\ e \in Nat
    BY ListedIs
  <2> QED
    BY <2>2, <2>3 DEF Passed
<1>2. Fixed(f, 1, 1, c) = {}
  BY <1>1 DEF Fixed
<1> QED
  BY <1>1, <1>2, FS_EmptySet

\* One more entry has been passed.
LEMMA PassedNext ==
    ASSUME NEW f \in Files, NEW b \in ListedBlocks(f),
           NEW e \in 1..Len(f.blocks[b].entries)
    PROVE  \A x \in Listed(f) : Passed(x, b, e + 1) <=> Passed(x, b, e) \/ x = <<b, e>>
<1> SUFFICES ASSUME NEW x \in Listed(f)
             PROVE  Passed(x, b, e + 1) <=> Passed(x, b, e) \/ x = <<b, e>>
  OBVIOUS
<1>0. PICK a \in ListedBlocks(f) : \E d \in 1..Len(f.blocks[a].entries) : x = <<a, d>>
  BY ListedIs
<1>1. PICK d \in 1..Len(f.blocks[a].entries) : x = <<a, d>>
  BY <1>0
<1>2. a \in Nat /\ b \in Nat /\ d \in Nat /\ e \in Nat
  BY ListedIs
<1> QED
  BY <1>1, <1>2 DEF Passed

LEMMA FixedNext ==
    ASSUME NEW f \in Files, NEW b \in ListedBlocks(f),
           NEW e \in 1..Len(f.blocks[b].entries), NEW c
    PROVE  Cardinality(Fixed(f, b, e + 1, c)) =
              IF Moves(f, <<b, e>>, c) THEN Cardinality(Fixed(f, b, e, c)) + 1
                                       ELSE Cardinality(Fixed(f, b, e, c))
<1>1. <<b, e>> \in Listed(f) /\ ~Passed(<<b, e>>, b, e)
  <2>1. <<b, e>> \in Listed(f) /\ b \in Nat /\ e \in Nat
    BY ListedIs
  <2> QED
    BY <2>1 DEF Passed
<1>2. \A x \in Listed(f) : Passed(x, b, e + 1) <=> Passed(x, b, e) \/ x = <<b, e>>
  BY PassedNext
<1>3. <<b, e>> \notin Fixed(f, b, e, c)
  BY <1>1 DEF Fixed
<1>4. CASE Moves(f, <<b, e>>, c)
  <2>1. Fixed(f, b, e + 1, c) = Fixed(f, b, e, c) \cup {<<b, e>>}
    BY <1>1, <1>2, <1>4 DEF Fixed
  <2> QED
    BY <1>3, <1>4, <2>1, FixedIsFinite, FS_AddElement
<1>5. CASE ~Moves(f, <<b, e>>, c)
  <2>1. Fixed(f, b, e + 1, c) = Fixed(f, b, e, c)
    BY <1>2, <1>5 DEF Fixed
  <2> QED
    BY <1>5, <2>1
<1> QED
  BY <1>4, <1>5

\* Passing from the end of a block to the start of the next passes no entry.
LEMMA PassedBlock ==
    ASSUME NEW f \in Files, NEW b \in 1..Len(f.blocks), NEW e \in Nat \ {0},
           e > Len(f.blocks[b].entries)
    PROVE  /\ \A x \in Listed(f) : Passed(x, b + 1, 1) <=> Passed(x, b, e)
           /\ \A c : Fixed(f, b + 1, 1, c) = Fixed(f, b, e, c)
<1>1. ASSUME NEW x \in Listed(f) PROVE Passed(x, b + 1, 1) <=> Passed(x, b, e)
  <2>0. PICK a \in ListedBlocks(f) : \E d \in 1..Len(f.blocks[a].entries) : x = <<a, d>>
    BY ListedIs
  <2>1. PICK d \in 1..Len(f.blocks[a].entries) : x = <<a, d>>
    BY <2>0
  <2>2. a \in Nat /\ b \in Nat /\ d \in Nat /\ d >= 1
        /\ (a = b => d <= Len(f.blocks[b].entries))
    BY ListedIs
  <2>3. Len(f.blocks[b].entries) \in Nat
    BY BlockTypes
  <2> QED
    BY <2>1, <2>2, <2>3 DEF Passed
<1> QED
  BY <1>1 DEF Fixed

-----------------------------------------------------------------------------
(* The image, statement by statement. *)

Early == {"init", "root", "find", "name", "free name", "root again", "open", "info",
          "get info", "free info", "info again", "get info again", "buffer", "read",
          "check", "pages"}

\* Nothing is copied before there are pages to copy to.
NothingCopied ==
    at \in Early =>
        sec = 1 /\ blk = 1 /\ ent = 1 /\ \A c \in 0..(Cells - 1) : img[c] = Junk

\* The sections before the current one are in place, the headers too.
SectionsCopied ==
    at = "sections" =>
        /\ ~file.cut /\ blk = 1 /\ ent = 1
        /\ \A c \in 0..(Cells - 1) : img[c] = LaidBy(file, c, OverBefore(file, c, sec))

\* Word c has been moved once for every entry for it that has been passed.
Moved(b, e, c) ==
    (Laid(file, c) + Cardinality(Fixed(file, b, e, c)) * (base - file.base)) % Word

\* All entries passed are known and applied; no end of the relocations was passed.
EntriesApplied ==
    at = "relocate" =>
        /\ \A a \in 1..(blk - 1) : ~file.blocks[a].ends
        /\ ~(base # file.base /\ file.directory) => blk = 1 /\ ent = 1
        /\ \A x \in Listed(file) : Passed(x, blk, ent) =>
              EntryAt(file, x).type \in {"ABSOLUTE", "DIR64"}
        /\ \A c \in 0..(Cells - 1) : img[c] = Moved(blk, ent, c)

IsWhole == img = WholeImage(file, base) /\ KnownTypes(file, base)

\* KernelImage is set when the image is whole, which it then stays.
SetWhenWhole ==
    /\ at = "set" => IsWhole
    /\ info = "set" => at \in {"loaded", "success"} /\ IsWhole

\* An image that is not handed on was refused by the firmware or cannot be loaded.
NotSetForReason ==
    at \in {"loaded", "success"} /\ info = "zero" => failed \/ ~Loadable(file, base)

ImageInv ==
    /\ NothingCopied /\ SectionsCopied /\ EntriesApplied
    /\ SetWhenWhole /\ NotSetForReason

LEMMA InitImage == Init => ImageInv
  BY WordTypes
  DEF Init, PeInit, ImageInv, NothingCopied, SectionsCopied, EntriesApplied, SetWhenWhole,
      NotSetForReason, Early

\* A step on the way to the pages, or off it for a reason.
LEMMA StaysEarly ==
    ASSUME TypeOK, ImageInv, UNCHANGED loading, at \in Early,
           at' \in Early \cup {"load error", "crash", "loaded"},
           at' = "loaded" => failed' \/ ~Loadable(file, base)
    PROVE  ImageInv'
<1>1. info = "zero"
  BY DEF TypeOK, ImageInv, SetWhenWhole, Early
<1>2. /\ file' = file /\ base' = base /\ img' = img /\ sec' = sec /\ blk' = blk
      /\ ent' = ent /\ info' = "zero"
  BY <1>1 DEF loading, image
<1>3. NothingCopied'
  BY <1>2 DEF ImageInv, NothingCopied
<1>4. SectionsCopied' /\ EntriesApplied'
  BY DEF SectionsCopied, EntriesApplied, Early
<1>5. SetWhenWhole'
  BY <1>2 DEF SetWhenWhole, Early
<1>6. NotSetForReason'
  <2>1. CASE at' = "loaded"
    BY <1>2, <2>1 DEF NotSetForReason
  <2>2. CASE at' # "loaded"
    BY <2>2 DEF NotSetForReason, Early
  <2> QED
    BY <2>1, <2>2
<1> QED
  BY <1>3, <1>4, <1>5, <1>6 DEF ImageInv

\* The statements that come to an end without the image.
LEMMA EndsWithReason ==
    ASSUME TypeOK, ImageInv, at' = "loaded", info = "zero", info' = "zero",
           ~Loadable(file', base')
    PROVE  ImageInv'
<1>1. NothingCopied' /\ SectionsCopied' /\ EntriesApplied' /\ SetWhenWhole'
  BY DEF NothingCopied, SectionsCopied, EntriesApplied, SetWhenWhole, Early
<1>2. NotSetForReason'
  BY DEF NotSetForReason
<1> QED
  BY <1>1, <1>2 DEF ImageInv

LEMMA PagesStep == TypeOK /\ ImageInv /\ AllocateImagePages => ImageInv'
<1> SUFFICES ASSUME TypeOK, ImageInv, AllocateImagePages PROVE ImageInv'
  OBVIOUS
<1>1. at = "pages" /\ at \in Early /\ info' = info
  BY DEF AllocateImagePages, Early
<1>2. info = "zero"
  BY <1>1 DEF TypeOK, ImageInv, SetWhenWhole
<1>3. CASE at' = "loaded" /\ Refused /\ UNCHANGED <<file, image>>
  <2>1. UNCHANGED loading /\ failed'
    BY <1>1, <1>3 DEF loading, Refused
  <2> QED
    BY <1>1, <1>3, <2>1, StaysEarly
<1>4. ASSUME NEW b \in Places \cup {file.base}, CopyHeaders(b),
             at' = IF file.cut THEN "loaded" ELSE "sections"
      PROVE  ImageInv'
  <2>1. /\ file' = file /\ sec' = sec /\ blk' = blk /\ ent' = ent
        /\ img' = IF file.cut THEN img ELSE [img EXCEPT ![0] = file.base]
    BY <1>4 DEF CopyHeaders
  <2>2. CASE file.cut
    <3>1. ~Loadable(file', base')
      BY <2>1, <2>2 DEF Loadable
    <3> QED
      BY <1>1, <1>2, <1>4, <2>2, <3>1, EndsWithReason
  <2>3. CASE ~file.cut
    <3>1. at' = "sections" /\ sec' = 1 /\ blk' = 1 /\ ent' = 1
      BY <1>1, <1>4, <2>1, <2>3 DEF ImageInv, NothingCopied
    <3>2. \A c \in 0..(Cells - 1) :
             img'[c] = LaidBy(file', c, OverBefore(file', c, sec'))
      <4> SUFFICES ASSUME NEW c \in 0..(Cells - 1)
                   PROVE  img'[c] = LaidBy(file, c, OverBefore(file, c, 1))
        BY <2>1, <3>1
      <4>1. OverBefore(file, c, 1) = {}
        <5>1. SectionsOver(file, c) \subseteq 1..Len(file.sections)
          BY SectionsOverTypes DEF TypeOK, PeTypeOK
        <5> QED
          BY <5>1 DEF OverBefore
      <4>2. img[c] = Junk /\ DOMAIN img = 0..(Cells - 1)
        BY <1>1 DEF ImageInv, NothingCopied, TypeOK, PeTypeOK
      <4>3. img'[c] = IF c = 0 THEN file.base ELSE Junk
        BY <2>1, <2>3, <4>2
      <4> QED
        BY <4>1, <4>3 DEF LaidBy
    <3>3. SectionsCopied'
      BY <2>1, <2>3, <3>1, <3>2 DEF SectionsCopied
    <3>4. NothingCopied' /\ EntriesApplied' /\ NotSetForReason' /\ SetWhenWhole'
      BY <1>1, <1>2, <3>1
      DEF NothingCopied, EntriesApplied, NotSetForReason, SetWhenWhole, Early
    <3> QED
      BY <3>3, <3>4 DEF ImageInv
  <2> QED
    BY <2>2, <2>3
<1> QED
  BY <1>3, <1>4 DEF AllocateImagePages

\* After the last section every word is what the sections lay there.
LEMMA SectionsStep == TypeOK /\ ImageInv /\ BlLdrAlignFileImage => ImageInv'
<1> SUFFICES ASSUME TypeOK, ImageInv, BlLdrAlignFileImage PROVE ImageInv'
  OBVIOUS
<1>1. PeTypeOK /\ at = "sections" /\ info' = info
  BY DEF TypeOK, BlLdrAlignFileImage
<1>2. info = "zero"
  BY <1>1 DEF TypeOK, ImageInv, SetWhenWhole
<1>3. /\ ~file.cut /\ blk = 1 /\ ent = 1
      /\ \A c \in 0..(Cells - 1) : img[c] = LaidBy(file, c, OverBefore(file, c, sec))
  BY <1>1 DEF ImageInv, SectionsCopied
<1>4. CASE CopySection /\ UNCHANGED at
  <2>1. file' = file /\ blk' = blk /\ ent' = ent /\ sec' = sec + 1 /\ at' = "sections"
    BY <1>1, <1>4 DEF CopySection
  <2>2. \A c \in 0..(Cells - 1) :
           img'[c] = LaidBy(file', c, OverBefore(file', c, sec'))
    BY <1>1, <1>3, <1>4, <2>1, SectionIsLaid
  <2>3. SectionsCopied'
    BY <1>3, <2>1, <2>2 DEF SectionsCopied
  <2>4. NothingCopied' /\ EntriesApplied' /\ NotSetForReason' /\ SetWhenWhole'
    BY <1>1, <1>2, <2>1
    DEF NothingCopied, EntriesApplied, NotSetForReason, SetWhenWhole, Early
  <2> QED
    BY <2>3, <2>4 DEF ImageInv
<1>5. CASE SectionsDone /\ at' = "relocate" /\ UNCHANGED <<file, image>>
  <2>1. /\ file' = file /\ base' = base /\ img' = img /\ blk' = 1 /\ ent' = 1
        /\ file \in Files /\ base \in Words
    BY <1>1, <1>3, <1>5 DEF image, PeTypeOK
  <2>2. \A c \in 0..(Cells - 1) :
           img'[c] = (Laid(file', c) + Cardinality(Fixed(file', 1, 1, c))
                         * (base' - file'.base)) % Word
    <3> SUFFICES ASSUME NEW c \in 0..(Cells - 1)
                 PROVE  img[c] = (Laid(file, c) + Cardinality(Fixed(file, 1, 1, c))
                                     * (base - file.base)) % Word
      BY <2>1
    <3>1. img[c] = Laid(file, c)
      BY <1>1, <1>3, <1>5, AllSectionsAreLaid
    <3>2. Cardinality(Fixed(file, 1, 1, c)) = 0
      BY <2>1, FixedFirst
    <3>3. base - file.base \in Int
      <4>1. file.base \in Words
        BY <2>1, FileTypes
      <4> QED
        BY <2>1, <4>1, WordTypes DEF Words
    <3>4. Laid(file, c) \in Words
      BY <2>1, LaidIsWord
    <3>5. 0 * (base - file.base) = 0
      BY <3>3
    <3>6. Laid(file, c) % Word = Laid(file, c)
      BY <3>4, WordTypes DEF Words
    <3>7. Laid(file, c) + 0 = Laid(file, c)
      BY <3>4 DEF Words
    <3> QED
      BY <3>1, <3>2, <3>5, <3>6, <3>7
  <2>3. \A x \in Listed(file) : ~Passed(x, 1, 1)
    BY <2>1, FixedFirst
  <2>4. EntriesApplied'
    <3>1. \A a \in 1..(blk' - 1) : ~file'.blocks[a].ends
      BY <2>1
    <3>2. \A x \in Listed(file') : Passed(x, blk', ent') =>
              EntryAt(file', x).type \in {"ABSOLUTE", "DIR64"}
      BY <2>1, <2>3
    <3>3. \A c \in 0..(Cells - 1) :
             img'[c] = (Laid(file', c) + Cardinality(Fixed(file', blk', ent', c))
                           * (base' - file'.base)) % Word
      BY <2>1, <2>2
    <3> QED
      BY <2>1, <3>1, <3>2, <3>3 DEF EntriesApplied, Moved
  <2>5. NothingCopied' /\ SectionsCopied' /\ NotSetForReason' /\ SetWhenWhole'
    BY <1>1, <1>2, <1>5
    DEF NothingCopied, SectionsCopied, NotSetForReason, SetWhenWhole, Early
  <2> QED
    BY <2>4, <2>5 DEF ImageInv
<1> QED
  BY <1>4, <1>5 DEF BlLdrAlignFileImage

\* No relocation is for the headers: ImageBase is read there as it was copied.
LEMMA HeadersKeepBase ==
    ASSUME PeTypeOK, NEW b, NEW e, \A c \in 0..(Cells - 1) : img[c] = Moved(b, e, c)
    PROVE  ImageBase = file.base
<1>1. file \in Files /\ 0 \in 0..(Cells - 1) /\ base \in Int
  BY WordTypes DEF PeTypeOK, Words
<1>2. Fixed(file, b, e, 0) = {}
  <2> SUFFICES ASSUME NEW x \in Listed(file), Moves(file, x, 0) PROVE FALSE
    BY DEF Fixed
  <2>1. PICK a \in ListedBlocks(file) : \E d \in 1..Len(file.blocks[a].entries) : x = <<a, d>>
    BY <1>1, ListedIs
  <2>2. PICK d \in 1..Len(file.blocks[a].entries) : x = <<a, d>>
    BY <2>1
  <2>3. a \in 1..Len(file.blocks)
    BY <1>1, ListedIs
  <2>4. file.blocks[a].page + file.blocks[a].entries[d].offset \in 1..(Cells - 1)
    BY <1>1, <2>2, <2>3, BlockTypes
  <2>5. file.blocks[a].page + file.blocks[a].entries[d].offset = 0
    BY <2>2 DEF Moves, EntryAt
  <2> QED
    BY <2>4, <2>5
<1>3. Cardinality(Fixed(file, b, e, 0)) = 0
  BY <1>2, FS_EmptySet
<1>4. Laid(file, 0) = file.base /\ file.base \in Words
  BY <1>1, FileTypes DEF Laid
<1>5. base - file.base \in Int /\ file.base \in Nat /\ file.base < Word
  BY <1>1, <1>4, WordTypes DEF Words
<1>6. img[0] = (file.base + 0 * (base - file.base)) % Word
  BY <1>1, <1>3, <1>4 DEF Moved
<1>7. 0 * (base - file.base) = 0
  BY <1>5
<1>8. img[0] = file.base % Word
  BY <1>5, <1>6, <1>7
<1> QED
  BY <1>5, <1>8, WordTypes DEF ImageBase

\* In either direction, what is added is the distance, modulo the values of a word.
LEMMA RelocatedIs ==
    ASSUME PeTypeOK, ImageBase = file.base, NEW w \in Words
    PROVE  Relocated(w) = (w + (base - file.base)) % Word
<1>1. base \in Int /\ file.base \in Int /\ w \in Int
  BY FileTypes, WordTypes DEF PeTypeOK, Words
<1>2. w - (file.base - base) = w + (base - file.base)
  BY <1>1
<1> QED
  BY <1>2 DEF Relocated, RelativeOffset

\* Once more the distance.
LEMMA OnceMore ==
    ASSUME NEW l \in Int, NEW n \in Nat, NEW d \in Int
    PROVE  (((l + n * d) % Word) + d) % Word = (l + (n + 1) * d) % Word
<1>1. n * d \in Int /\ (n + 1) * d = n * d + d
  OBVIOUS
<1> DEFINE a == l + n * d
<1>2. a \in Int /\ a + d = l + (n + 1) * d
  BY <1>1
<1> HIDE DEF a
<1>3. ((a % Word) + d) % Word = (a + d) % Word
  BY <1>2, WordTypes, AddToRemainder
<1>4. ((a % Word) + d) % Word = (l + (n + 1) * d) % Word
  BY <1>2, <1>3
<1> QED
  BY <1>4 DEF a

\* The block the relocation is at is one of those listed.
LEMMA AtListedBlock ==
    ASSUME PeTypeOK, Relocates, MoreBlocks, \A a \in 1..(blk - 1) : ~file.blocks[a].ends
    PROVE  blk \in ListedBlocks(file) /\ blk \in 1..Len(file.blocks)
<1>1. blk \in 1..Len(file.blocks) /\ DOMAIN file.blocks = 1..Len(file.blocks)
  BY FileTypes DEF PeTypeOK, MoreBlocks
<1>2. \A a \in 1..blk : ~file.blocks[a].ends
  BY <1>1 DEF MoreBlocks
<1> QED
  BY <1>1, <1>2 DEF ListedBlocks, Relocates, MoreBlocks

\* An entry passed is an entry applied.
LEMMA EntryIsApplied ==
    ASSUME PeTypeOK, RelocateEntry, \A a \in 1..(blk - 1) : ~file.blocks[a].ends,
           \A c \in 0..(Cells - 1) : img[c] = Moved(blk, ent, c)
    PROVE  \A c \in 0..(Cells - 1) : img'[c] = Moved(blk, ent + 1, c)
<1>1. /\ file \in Files /\ blk \in ListedBlocks(file) /\ blk \in 1..Len(file.blocks)
      /\ Len(file.blocks[blk].entries) \in Nat
  BY AtListedBlock, BlockTypes DEF PeTypeOK, RelocateEntry
<1>2. ent \in 1..Len(file.blocks[blk].entries)
  BY <1>1 DEF PeTypeOK, RelocateEntry
<1>3. ImageBase = file.base
  BY HeadersKeepBase
<1> SUFFICES ASSUME NEW c \in 0..(Cells - 1) PROVE img'[c] = Moved(blk, ent + 1, c)
  OBVIOUS
<1> DEFINE n == Cardinality(Fixed(file, blk, ent, c))
<1> DEFINE d == base - file.base
<1> DEFINE l == Laid(file, c)
<1>4. n \in Nat
  BY <1>1, FixedIsFinite
<1>5. d \in Int
  BY <1>1, FileTypes, WordTypes DEF PeTypeOK, Words
<1>6. l \in Int
  <2>1. l \in Words
    BY <1>1, LaidIsWord
  <2> QED
    BY <2>1 DEF Words
<1>7. img[c] = (l + n * d) % Word /\ img[c] \in Words
  BY DEF Moved, PeTypeOK
<1>8. Cardinality(Fixed(file, blk, ent + 1, c)) =
         IF Moves(file, <<blk, ent>>, c) THEN n + 1 ELSE n
  BY <1>1, <1>2, FixedNext
<1>9. Moved(blk, ent + 1, c) =
         (l + (IF Moves(file, <<blk, ent>>, c) THEN n + 1 ELSE n) * d) % Word
  BY <1>8 DEF Moved
<1>10. EntryAt(file, <<blk, ent>>) = Relocation
  BY DEF EntryAt, Relocation
<1>11. CASE Relocation.type = "ABSOLUTE" /\ UNCHANGED img
  <2>1. ~Moves(file, <<blk, ent>>, c)
    BY <1>10, <1>11 DEF Moves
  <2> QED
    BY <1>7, <1>9, <1>11, <2>1
<1> DEFINE t == file.blocks[blk].page + Relocation.offset
<1>12. CASE Relocation.type = "DIR64" /\ img' = [img EXCEPT ![t] = Relocated(@)]
  <2>1. Moves(file, <<blk, ent>>, c) <=> t = c
    BY <1>10, <1>12 DEF Moves
  <2>2. img'[c] = IF c = t THEN Relocated(img[c]) ELSE img[c]
    BY <1>12 DEF PeTypeOK
  <2> HIDE DEF t
  <2>3. CASE t = c
    <3>1. Relocated(img[c]) = (img[c] + d) % Word
      BY <1>3, <1>7, RelocatedIs
    <3> HIDE DEF n, d, l
    <3>2. (((l + n * d) % Word) + d) % Word = (l + (n + 1) * d) % Word
      BY <1>4, <1>5, <1>6, OnceMore
    <3>3. img'[c] = (((l + n * d) % Word) + d) % Word
      BY <1>7, <2>2, <2>3, <3>1
    <3> QED
      BY <1>9, <2>1, <2>3, <3>2, <3>3
  <2>4. CASE t # c
    BY <1>7, <1>9, <2>1, <2>2, <2>4
  <2> QED
    BY <2>3, <2>4
<1> QED
  BY <1>11, <1>12 DEF RelocateEntry

\* At the end of the relocations the image is whole.
LEMMA DoneIsWhole ==
    ASSUME PeTypeOK, RelocationDone, EntriesApplied, at = "relocate"
    PROVE  IsWhole
<1>1. /\ file \in Files /\ base \in Words /\ blk \in 1..(Len(file.blocks) + 1)
      /\ Len(file.blocks) \in Nat /\ DOMAIN img = 0..(Cells - 1)
  BY FileTypes DEF PeTypeOK
<1>2. /\ \A a \in 1..(blk - 1) : ~file.blocks[a].ends
      /\ \A x \in Listed(file) : Passed(x, blk, ent) =>
            EntryAt(file, x).type \in {"ABSOLUTE", "DIR64"}
      /\ \A c \in 0..(Cells - 1) : img[c] = Moved(blk, ent, c)
      /\ ~(base # file.base /\ file.directory) => blk = 1 /\ ent = 1
  BY DEF EntriesApplied
<1>3. ImageBase = file.base
  BY <1>2, HeadersKeepBase
<1>4. base = file.base \/ \A x \in Listed(file) : Passed(x, blk, ent)
  <2> SUFFICES ASSUME base # file.base, NEW x \in Listed(file) PROVE Passed(x, blk, ent)
    OBVIOUS
  <2>1. PICK b \in ListedBlocks(file) : \E e \in 1..Len(file.blocks[b].entries) : x = <<b, e>>
    BY <1>1, ListedIs
  <2>2. /\ b \in 1..Len(file.blocks) /\ file.directory /\ b <= file.covered
        /\ \A a \in 1..b : ~file.blocks[a].ends
    BY <1>1, ListedIs DEF ListedBlocks
  <2>3. ~MoreBlocks
    BY <1>3, <2>2 DEF RelocationDone, Relocates
  <2>4. file.covered \in Nat
    BY <1>1, FileTypes
  <2>5. b < blk
    <3> SUFFICES ASSUME ~(b < blk) PROVE FALSE
      OBVIOUS
    <3>1. blk \in 1..b /\ blk <= Len(file.blocks) /\ blk <= file.covered
      BY <1>1, <2>2, <2>4
    <3>2. ~file.blocks[blk].ends
      BY <2>2, <3>1
    <3> QED
      BY <2>3, <3>1, <3>2 DEF MoreBlocks
  <2> QED
    BY <2>1, <2>5 DEF Passed
<1>5. KnownTypes(file, base)
  BY <1>2, <1>4 DEF KnownTypes
<1>6. ASSUME NEW c \in 0..(Cells - 1) PROVE img[c] = WholeImage(file, base)[c]
  <2> DEFINE all == {x \in Listed(file) : Moves(file, x, c)}
  <2>1. WholeImage(file, base)[c] =
           (Laid(file, c) + Cardinality(all) * (base - file.base)) % Word
    BY DEF WholeImage, Moves
  <2>2. img[c] = (Laid(file, c) + Cardinality(Fixed(file, blk, ent, c))
                     * (base - file.base)) % Word
    BY <1>2 DEF Moved
  <2>3. CASE \A x \in Listed(file) : Passed(x, blk, ent)
    <3>1. Fixed(file, blk, ent, c) = all
      BY <2>3 DEF Fixed
    <3> QED
      BY <2>1, <2>2, <3>1
  <2>4. CASE base = file.base
    <3>1. IsFiniteSet(all)
      BY <1>1, ListedIsFinite, FS_Subset
    <3>2. Cardinality(all) \in Nat
      BY <3>1, FS_CardinalityType
    <3>3. Cardinality(Fixed(file, blk, ent, c)) \in Nat
      BY <1>1, FixedIsFinite
    <3>4. base \in Int /\ base - file.base = 0
      BY <1>1, <2>4 DEF Words
    <3>5. \A n \in Nat : n * (base - file.base) = 0
      BY <3>4
    <3> HIDE DEF all
    <3> QED
      BY <2>1, <2>2, <3>2, <3>3, <3>5
  <2> QED
    BY <1>4, <2>3, <2>4
<1>7. img = WholeImage(file, base)
  <2>1. WholeImage(file, base) = [c \in 0..(Cells - 1) |-> WholeImage(file, base)[c]]
    BY DEF WholeImage
  <2>2. img = [c \in 0..(Cells - 1) |-> img[c]]
    BY DEF PeTypeOK
  <2> QED
    BY <1>6, <2>1, <2>2
<1> QED
  BY <1>5, <1>7 DEF IsWhole

LEMMA RelocationStep == TypeOK /\ ImageInv /\ BlLdrImageRelocation => ImageInv'
<1> SUFFICES ASSUME TypeOK, ImageInv, BlLdrImageRelocation PROVE ImageInv'
  OBVIOUS
<1>1. PeTypeOK /\ at = "relocate" /\ info' = info
  BY DEF TypeOK, BlLdrImageRelocation
<1>2. info = "zero"
  BY <1>1 DEF TypeOK, ImageInv, SetWhenWhole
<1>3. EntriesApplied
  BY DEF ImageInv
<1>4. /\ \A a \in 1..(blk - 1) : ~file.blocks[a].ends
      /\ \A x \in Listed(file) : Passed(x, blk, ent) =>
            EntryAt(file, x).type \in {"ABSOLUTE", "DIR64"}
      /\ \A c \in 0..(Cells - 1) : img[c] = Moved(blk, ent, c)
  BY <1>1, <1>3 DEF EntriesApplied
<1>5. ImageBase = file.base
  BY <1>1, <1>4, HeadersKeepBase
<1>6. file \in Files /\ blk \in Nat \ {0} /\ ent \in Nat \ {0}
  <2>1. Len(file.blocks) \in Nat
    BY <1>1, FileTypes DEF PeTypeOK
  <2> QED
    BY <1>1, <2>1 DEF PeTypeOK
<1>7. CASE RelocateEntry /\ UNCHANGED at
  <2>1. /\ file' = file /\ base' = base /\ blk' = blk /\ ent' = ent + 1 /\ at' = "relocate"
        /\ Relocates /\ MoreBlocks
    BY <1>1, <1>7 DEF RelocateEntry
  <2>2. blk \in ListedBlocks(file) /\ blk \in 1..Len(file.blocks)
    BY <1>1, <1>4, <2>1, AtListedBlock
  <2>3. ent \in 1..Len(file.blocks[blk].entries)
    <3>1. Len(file.blocks[blk].entries) \in Nat
      BY <1>6, <2>2, BlockTypes
    <3> QED
      BY <1>6, <1>7, <3>1 DEF RelocateEntry
  <2>4. \A c \in 0..(Cells - 1) : img'[c] = Moved(blk, ent + 1, c)
    BY <1>1, <1>4, <1>7, EntryIsApplied
  <2>5. \A x \in Listed(file) : Passed(x, blk, ent + 1) =>
           EntryAt(file, x).type \in {"ABSOLUTE", "DIR64"}
    <3>1. \A x \in Listed(file) :
             Passed(x, blk, ent + 1) <=> Passed(x, blk, ent) \/ x = <<blk, ent>>
      BY <1>6, <2>2, <2>3, PassedNext
    <3>2. EntryAt(file, <<blk, ent>>).type \in {"ABSOLUTE", "DIR64"}
      BY <1>7 DEF RelocateEntry, EntryAt, Relocation
    <3> QED
      BY <1>4, <3>1, <3>2
  <2>6. base # file.base /\ file.directory
    BY <1>5, <2>1 DEF Relocates
  <2>7. EntriesApplied'
    <3>1. \A c \in 0..(Cells - 1) :
             img'[c] = (Laid(file', c) + Cardinality(Fixed(file', blk', ent', c))
                           * (base' - file'.base)) % Word
      BY <2>1, <2>4 DEF Moved
    <3>2. \A x \in Listed(file') : Passed(x, blk', ent') =>
             EntryAt(file', x).type \in {"ABSOLUTE", "DIR64"}
      BY <2>1, <2>5
    <3>3. \A a \in 1..(blk' - 1) : ~file'.blocks[a].ends
      BY <1>4, <2>1
    <3>4. base' # file'.base /\ file'.directory
      BY <2>1, <2>6
    <3> QED
      BY <3>1, <3>2, <3>3, <3>4 DEF EntriesApplied, Moved
  <2>8. NothingCopied' /\ SectionsCopied' /\ NotSetForReason' /\ SetWhenWhole'
    BY <1>1, <1>2, <2>1
    DEF NothingCopied, SectionsCopied, NotSetForReason, SetWhenWhole, Early
  <2> QED
    BY <2>7, <2>8 DEF ImageInv
<1>8. CASE NextBlock /\ UNCHANGED at
  <2>1. /\ file' = file /\ base' = base /\ img' = img /\ blk' = blk + 1 /\ ent' = 1
        /\ at' = "relocate" /\ Relocates /\ MoreBlocks
        /\ ent > Len(file.blocks[blk].entries)
    BY <1>1, <1>8 DEF NextBlock
  <2>2. blk \in 1..Len(file.blocks)
    BY <1>1, <1>4, <2>1, AtListedBlock
  <2>3. /\ \A x \in Listed(file) : Passed(x, blk + 1, 1) <=> Passed(x, blk, ent)
        /\ \A c : Fixed(file, blk + 1, 1, c) = Fixed(file, blk, ent, c)
    BY <1>6, <2>1, <2>2, PassedBlock
  <2>4. EntriesApplied'
    <3>1. \A c \in 0..(Cells - 1) :
             img'[c] = (Laid(file', c) + Cardinality(Fixed(file', blk', ent', c))
                           * (base' - file'.base)) % Word
      BY <1>4, <2>1, <2>3 DEF Moved
    <3>2. \A x \in Listed(file') : Passed(x, blk', ent') =>
             EntryAt(file', x).type \in {"ABSOLUTE", "DIR64"}
      BY <1>4, <2>1, <2>3
    <3>3. \A a \in 1..(blk' - 1) : ~file'.blocks[a].ends
      <4>1. ~file.blocks[blk].ends
        BY <2>1 DEF MoreBlocks
      <4>2. \A a \in 1..(blk' - 1) : a \in 1..(blk - 1) \/ a = blk
        BY <1>6, <2>1
      <4> QED
        BY <1>4, <2>1, <4>1, <4>2
    <3>4. base' # file'.base /\ file'.directory
      BY <1>5, <2>1 DEF Relocates
    <3> QED
      BY <3>1, <3>2, <3>3, <3>4 DEF EntriesApplied, Moved
  <2>5. NothingCopied' /\ SectionsCopied' /\ NotSetForReason' /\ SetWhenWhole'
    BY <1>1, <1>2, <2>1
    DEF NothingCopied, SectionsCopied, NotSetForReason, SetWhenWhole, Early
  <2> QED
    BY <2>4, <2>5 DEF ImageInv
<1>9. CASE UnknownType /\ at' = "loaded" /\ UNCHANGED <<file, image>>
  <2>1. blk \in ListedBlocks(file) /\ blk \in 1..Len(file.blocks)
    BY <1>1, <1>4, <1>9, AtListedBlock DEF UnknownType
  <2>2. ent \in 1..Len(file.blocks[blk].entries)
    <3>1. Len(file.blocks[blk].entries) \in Nat
      BY <1>6, <2>1, BlockTypes
    <3> QED
      BY <1>6, <1>9, <3>1 DEF UnknownType
  <2>3. <<blk, ent>> \in Listed(file)
    BY <1>6, <2>1, <2>2, ListedIs
  <2>4. EntryAt(file, <<blk, ent>>).type \notin {"ABSOLUTE", "DIR64"} /\ base # file.base
    BY <1>5, <1>9 DEF UnknownType, EntryAt, Relocation, Relocates
  <2>5. ~Loadable(file, base)
    BY <2>3, <2>4 DEF Loadable, KnownTypes
  <2>6. file' = file /\ base' = base
    BY <1>9 DEF image
  <2> QED
    BY <1>1, <1>2, <1>9, <2>5, <2>6, EndsWithReason
<1>10. CASE RelocationDone /\ at' = "set" /\ UNCHANGED <<file, image>>
  <2>1. IsWhole
    BY <1>1, <1>3, <1>10, DoneIsWhole
  <2>2. file' = file /\ base' = base /\ img' = img
    BY <1>10 DEF image
  <2>3. IsWhole'
    BY <2>1, <2>2 DEF IsWhole
  <2>4. NothingCopied' /\ SectionsCopied' /\ EntriesApplied' /\ NotSetForReason'
        /\ SetWhenWhole'
    BY <1>1, <1>2, <1>10, <2>3
    DEF NothingCopied, SectionsCopied, EntriesApplied, NotSetForReason, SetWhenWhole, Early
  <2> QED
    BY <2>4 DEF ImageInv
<1> QED
  BY <1>7, <1>8, <1>9, <1>10 DEF BlLdrImageRelocation

LEMMA ImageInvKept == TypeOK /\ ImageInv /\ [Next]_vars => ImageInv'
<1> SUFFICES ASSUME TypeOK, ImageInv, [Next]_vars PROVE ImageInv'
  OBVIOUS
<1> USE DEF Early
<1>1. CASE BlInitFileSystem
  BY <1>1, StaysEarly DEF BlInitFileSystem
<1>2. CASE GetRoot("root", "first root", "find")
  BY <1>2, StaysEarly DEF GetRoot
<1>3. CASE FindWithoutRoot
  BY <1>3, StaysEarly DEF FindWithoutRoot
<1>4. CASE BlFindFile("find", "file", "name")
  BY <1>4, StaysEarly DEF BlFindFile
<1>5. CASE BlGetFileName
  BY <1>5, StaysEarly DEF BlGetFileName
<1>6. CASE FreeName
  BY <1>6, StaysEarly DEF FreeName
<1>7. CASE GetRoot("root again", "second root", "open")
  BY <1>7, StaysEarly DEF GetRoot
<1>8. CASE BlFindFile("open", "image file", "info")
  BY <1>8, StaysEarly DEF BlFindFile
<1>9. CASE InfoStep
  BY <1>9, StaysEarly
  DEF InfoStep, AllocateInfo, GetInfo, FreeShortInfo, GetInfoAgain, Fail, Refused
<1>10. CASE CloseNull
  BY <1>10, StaysEarly DEF CloseNull
<1>11. CASE AllocateFileImage
  BY <1>11, StaysEarly DEF AllocateFileImage, Fail, Refused
<1>12. CASE ReadFile
  BY <1>12, StaysEarly DEF ReadFile, Fail, Refused
<1>13. CASE CheckFile
  <2>1. ~PeIsValidImage(file) => ~Loadable(file, base)
    BY DEF PeIsValidImage, Loadable
  <2> QED
    BY <1>13, <2>1, StaysEarly DEF CheckFile
<1>14. CASE AllocateImagePages
  BY <1>14, PagesStep
<1>15. CASE BlLdrAlignFileImage
  BY <1>15, SectionsStep
<1>16. CASE BlLdrImageRelocation
  BY <1>16, RelocationStep
<1>17. CASE SetInfo
  <2>1. IsWhole'
    BY <1>17 DEF SetInfo, ImageInv, SetWhenWhole, IsWhole, image
  <2> QED
    BY <1>17, <2>1
    DEF SetInfo, ImageInv, NothingCopied, SectionsCopied, EntriesApplied, SetWhenWhole,
        NotSetForReason
<1>18. CASE ReturnSuccess
  <2>1. /\ file' = file /\ base' = base /\ img' = img /\ info' = info
        /\ at = "loaded" /\ at' = "success" /\ failed' = failed
    BY <1>18 DEF ReturnSuccess, loading, image, Rest
  <2>2. SetWhenWhole'
    BY <2>1 DEF ImageInv, SetWhenWhole, IsWhole
  <2>3. NotSetForReason'
    <3>1. info = "zero" => failed \/ ~Loadable(file, base)
      BY <2>1 DEF ImageInv, NotSetForReason
    <3> QED
      BY <2>1, <3>1 DEF NotSetForReason
  <2>4. NothingCopied' /\ SectionsCopied' /\ EntriesApplied'
    BY <2>1 DEF NothingCopied, SectionsCopied, EntriesApplied
  <2> QED
    BY <2>2, <2>3, <2>4 DEF ImageInv
<1>19. CASE UNCHANGED vars
  <2>1. /\ file' = file /\ base' = base /\ img' = img /\ sec' = sec /\ blk' = blk
        /\ ent' = ent /\ info' = info /\ at' = at /\ failed' = failed
    BY <1>19 DEF vars, image
  <2>2. NothingCopied'
    BY <2>1 DEF ImageInv, NothingCopied
  <2>3. SectionsCopied'
    BY <2>1 DEF ImageInv, SectionsCopied
  <2>4. EntriesApplied'
    BY <2>1 DEF ImageInv, EntriesApplied, Moved
  <2>5. SetWhenWhole'
    BY <2>1 DEF ImageInv, SetWhenWhole, IsWhole
  <2>6. NotSetForReason'
    BY <2>1 DEF ImageInv, NotSetForReason
  <2> QED
    BY <2>2, <2>3, <2>4, <2>5, <2>6 DEF ImageInv
<1> QED
  BY <1>1, <1>2, <1>3, <1>4, <1>5, <1>6, <1>7, <1>8, <1>9, <1>10, <1>11, <1>12,
     <1>13, <1>14, <1>15, <1>16, <1>17, <1>18, <1>19 DEF Next, InfoStep

LEMMA SpecImage == Spec => []ImageInv
  BY InitImage, ImageInvKept, TypeCorrect, PTL DEF Spec

\* What the loader goes on with (image.c 80-336, UefiMain.c 426-434) is the whole
\* image of the file for the place it is at, for all files and places assumed.
THEOREM ImageIsWhole == Spec => []InfoIsWhole
<1>1. ImageInv => InfoIsWhole
  BY DEF ImageInv, SetWhenWhole, IsWhole, InfoIsWhole
<1> QED
  BY <1>1, SpecImage, PTL

\* FindExeFile (UefiMain.c 76-78) returns without an image only when the firmware has
\* refused a call or there is something wrong with the file.
THEOREM UnsetNeedsReason == Spec => []UnsetOnlyOnFailure
<1>1. ImageInv => UnsetOnlyOnFailure
  BY DEF ImageInv, NotSetForReason, UnsetOnlyOnFailure
<1> QED
  BY <1>1, SpecImage, PTL
=============================================================================
