------------------------------- MODULE PeImage -------------------------------
(* The PE image inside the loader: PeIsValidImage, the copy of the headers,   *)
(* BlLdrAlignFileImage section by section and BlLdrImageRelocation entry by   *)
(* entry, in memory that holds whatever was there before. A cell of an image  *)
(* is one 64-bit word; cell 0 is the headers and shows their ImageBase.       *)
EXTENDS Integers, Sequences, FiniteSets

CONSTANTS
    Files,      \* the files kernel.exe may be
    Places,     \* where AllocatePages may put the image
    Cells,      \* SizeOfImage, in words
    Word,       \* values of a word, 2^64 in the code
    Junk        \* what the pages held before

Words == 0..(Word - 1)

\* dos, nt, x64 and magic: whether each of the fields PeIsValidImage reads is right;
\* cut: SizeOfHeaders ends before the headers do. The blocks of relocations lie one
\* after the other from the start of the directory, which covers the first of them.
FileType == [dos : BOOLEAN, nt : BOOLEAN, x64 : BOOLEAN, magic : BOOLEAN,
             cut : BOOLEAN, base : Words,
             sections : Seq([va : 1..(Cells - 1), data : Seq(Words), size : 0..Cells]),
             directory : BOOLEAN,
             blocks : Seq([ends : BOOLEAN, page : 0..(Cells - 1),
                           entries : Seq([type : {"ABSOLUTE", "DIR64", "HIGHLOW"},
                                          offset : 0..(Cells - 1)])]),
             covered : Nat]

Larger(a, b) == IF a < b THEN b ELSE a

\* Sections and relocations stay inside the image and off its headers, and the
\* relocated words off the relocations themselves.
ASSUME FilesAssumption ==
    /\ Cells \in Nat \ {0} /\ Word \in Nat \ {0} /\ Junk \in Words
    /\ Places \subseteq Words
    /\ \A f \in Files :
        /\ f \in FileType
        /\ \A n \in DOMAIN f.sections :
              f.sections[n].va + Larger(Len(f.sections[n].data), f.sections[n].size) <= Cells
        /\ \A b \in DOMAIN f.blocks : \A e \in DOMAIN f.blocks[b].entries :
              f.blocks[b].page + f.blocks[b].entries[e].offset \in 1..(Cells - 1)

VARIABLES
    file,       \* the file that is loaded
    base,       \* Image, as a number; its pages hold img
    img,        \* the words of the image
    sec,        \* section BlLdrAlignFileImage is at
    blk, ent    \* relocation block and entry BlLdrImageRelocation is at

image == <<base, img, sec, blk, ent>>

PeTypeOK ==
    /\ file \in Files
    /\ base \in Words
    /\ img \in [0..(Cells - 1) -> Words]
    /\ sec \in 1..(Len(file.sections) + 1)
    /\ blk \in 1..(Len(file.blocks) + 1)
    /\ ent \in Nat \ {0}

PeInit ==
    /\ file \in Files
    /\ base = 0
    /\ img = [c \in 0..(Cells - 1) |-> Junk]
    /\ sec = 1 /\ blk = 1 /\ ent = 1

-----------------------------------------------------------------------------
\* PeIsValidImage refuses machine and magic only when both are wrong.
PeIsValidImage(f) == f.dos /\ f.nt /\ (f.x64 \/ f.magic)

\* OptionalHeader.ImageBase, read where the headers were copied to.
ImageBase == img[0]

\* CopyMem of SizeOfHeaders bytes to the new pages.
CopyHeaders(b) ==
    /\ base' = b
    /\ img' = IF file.cut THEN img ELSE [img EXCEPT ![0] = file.base]
    /\ UNCHANGED <<file, sec, blk, ent>>

\* Mutant of CopySection: the zeroes go first, and over the data.
BugZeroWholeSection ==
    /\ sec <= Len(file.sections)
    /\ LET s == file.sections[sec] IN
       img' = [c \in DOMAIN img |->
                 IF s.size > Len(s.data) /\ c \in s.va..(s.va + s.size - 1) THEN 0
                 ELSE IF c \in s.va..(s.va + Len(s.data) - 1) THEN s.data[c - s.va + 1]
                 ELSE img[c]]
    /\ sec' = sec + 1
    /\ UNCHANGED <<file, base, blk, ent>>

\* CopyMem of SizeOfRawData, and SetMem up to VirtualSize when that is larger.
CopySection ==
    /\ sec <= Len(file.sections)
    /\ LET s == file.sections[sec] IN
       img' = [c \in DOMAIN img |->
                 IF c \in s.va..(s.va + Len(s.data) - 1) THEN s.data[c - s.va + 1]
                 ELSE IF c \in (s.va + Len(s.data))..(s.va + s.size - 1) THEN 0
                 ELSE img[c]]
    /\ sec' = sec + 1
    /\ UNCHANGED <<file, base, blk, ent>>

SectionsDone == sec > Len(file.sections)

-----------------------------------------------------------------------------
\* Relocation is skipped for an image at its base, and for one without the directory.
Relocates == base # ImageBase /\ file.directory

\* The distance is taken in the direction in which it is not negative.
RelativeOffset == IF base > ImageBase THEN base - ImageBase ELSE ImageBase - base

\* Mutant of Relocated: always in the direction of a higher image.
BugRelocatedUp(w) == (w + RelativeOffset) % Word

Relocated(w) ==
    IF base > ImageBase THEN (w + RelativeOffset) % Word
                        ELSE (w - RelativeOffset) % Word

\* Mutant of MoreBlocks: only a block of size 0 ends the relocations.
BugDirectoryEndIgnored == blk <= Len(file.blocks) /\ ~file.blocks[blk].ends

\* A block of size 0 or the end of the directory ends the relocations.
MoreBlocks ==
    /\ blk <= Len(file.blocks)
    /\ ~file.blocks[blk].ends
    /\ blk <= file.covered

Relocation == file.blocks[blk].entries[ent]

\* ABSOLUTE entries are padding, DIR64 entries add the distance to a word.
RelocateEntry ==
    /\ Relocates /\ MoreBlocks
    /\ ent <= Len(file.blocks[blk].entries)
    /\ \/ Relocation.type = "ABSOLUTE" /\ UNCHANGED img
       \/ /\ Relocation.type = "DIR64"
          /\ LET c == file.blocks[blk].page + Relocation.offset IN
             img' = [img EXCEPT ![c] = Relocated(@)]
    /\ ent' = ent + 1
    /\ UNCHANGED <<file, base, sec, blk>>

\* Mutant of NextBlock: the loop does not go on to the next block.
BugSameBlock ==
    /\ Relocates /\ MoreBlocks
    /\ ent > Len(file.blocks[blk].entries)
    /\ ent' = 1
    /\ UNCHANGED <<file, base, img, sec, blk>>

NextBlock ==
    /\ Relocates /\ MoreBlocks
    /\ ent > Len(file.blocks[blk].entries)
    /\ blk' = blk + 1 /\ ent' = 1
    /\ UNCHANGED <<file, base, img, sec>>

\* Mutant of UnknownType: padding is not known either.
BugPaddingUnknown ==
    /\ Relocates /\ MoreBlocks
    /\ ent <= Len(file.blocks[blk].entries)
    /\ Relocation.type # "DIR64"

\* Any other type ends the load, with the entries before it applied.
UnknownType ==
    /\ Relocates /\ MoreBlocks
    /\ ent <= Len(file.blocks[blk].entries)
    /\ Relocation.type \notin {"ABSOLUTE", "DIR64"}

RelocationDone == ~Relocates \/ ~MoreBlocks

-----------------------------------------------------------------------------
\* What a loaded image is, as the format defines it, with no order of steps: each
\* word is that of the section over it (0 past the section's data), plus the
\* distance to the preferred base, modulo 2^64, for each relocation listed for it.
SectionsOver(f, c) ==
    {n \in DOMAIN f.sections :
        LET s == f.sections[n]
        IN  c \in s.va..(s.va + Larger(Len(s.data), s.size) - 1)}

Laid(f, c) ==
    LET over == SectionsOver(f, c) IN
    IF c = 0 THEN f.base
    ELSE IF over = {} THEN Junk
    ELSE LET s == f.sections[CHOOSE n \in over : \A m \in over : m <= n]
             o == c - s.va + 1
         IN  IF o <= Len(s.data) THEN s.data[o] ELSE 0

ListedBlocks(f) ==
    {b \in DOMAIN f.blocks :
        f.directory /\ b <= f.covered /\ \A a \in 1..b : ~f.blocks[a].ends}

Listed(f) == UNION {{b} \X DOMAIN f.blocks[b].entries : b \in ListedBlocks(f)}

EntryAt(f, x) == f.blocks[x[1]].entries[x[2]]

WholeImage(f, b) ==
    [c \in 0..(Cells - 1) |->
        LET fixups == {x \in Listed(f) : /\ EntryAt(f, x).type = "DIR64"
                                         /\ f.blocks[x[1]].page + EntryAt(f, x).offset = c}
        IN  (Laid(f, c) + Cardinality(fixups) * (b - f.base)) % Word]

\* The loader knows every relocation that b calls for.
KnownTypes(f, b) ==
    b # f.base => \A x \in Listed(f) : EntryAt(f, x).type \in {"ABSOLUTE", "DIR64"}

\* The files that can be loaded at b: images for x64 with nothing wrong in them.
Loadable(f, b) == f.dos /\ f.nt /\ f.x64 /\ f.magic /\ ~f.cut /\ KnownTypes(f, b)
=============================================================================
