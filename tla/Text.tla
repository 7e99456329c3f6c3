-------------------------------- MODULE Text --------------------------------
(* The memory and string functions of the runtime library and the loader, the *)
(* loader's strfmt and AsciiToUnicode and the kernel's decimal output. A      *)
(* behaviour is one call; mem is what the caller's pointers reach, one cell   *)
(* per character or byte, and each loop is a recursive function.              *)
EXTENDS Integers, Sequences

CONSTANTS
    Calls,      \* what may be called: memory, function, dst, src, n
    Long,       \* sizeof( long ), 4 in the code
    Guess,      \* BufferSize of strfmt, 256 in the code
    Column      \* cells of the kernel's decimal buffer, 32 in the code

NULL == -1
Functions == {"memcpy", "memset", "memcmp", "strchr", "strrchr", "strcmp", "strlcpy",
              "strlen", "strcopy", "strcompare", "AsciiToUnicode", "strfmt",
              "ConOutPrintDecimal"}

Smaller(a, b) == IF a < b THEN a ELSE b

\* A string of memory m starts at s and has its terminator at z.
StringAt(m, s, z) ==
    /\ z >= s /\ s..z \subseteq DOMAIN m
    /\ m[z] = 0 /\ \A a \in s..(z - 1) : m[a] # 0

\* Characters that a call which copies a string of this length keeps, and the cells
\* it writes them and their terminator to.
Kept(c, length) ==
    IF c.n = 0 \/ c.fn = "strcopy" THEN length ELSE Smaller(c.n - 1, length)
Written(c, length) ==
    IF c.fn = "strlcpy" /\ c.n = 0 THEN {} ELSE c.dst..(c.dst + Kept(c, length))

\* Nothing is left of v when its last k digits are cut off.
HasDigits(v, k) ==
    LET cut[j \in 0..k] == IF j = 0 THEN v ELSE cut[j - 1] \div 10 IN cut[k] = 0

\* Pointers are inside the memory, and so is what the call may reach from them;
\* strings end, and are not copied onto themselves; a number fits its buffer.
ASSUME TextAssumption ==
    /\ {Long, Guess, Column} \subseteq Nat \ {0, 1}
    /\ \A c \in Calls :
        /\ c.fn \in Functions
        /\ DOMAIN c.memory \subseteq Nat
        /\ c.memory \in [DOMAIN c.memory -> 0..255]
        /\ {c.dst, c.src} \subseteq DOMAIN c.memory
        /\ c.n \in Nat /\ c.value \in Int
        /\ c.fn \in {"memcpy", "memset", "memcmp"} =>
              c.dst..(c.dst + c.n - 1) \subseteq DOMAIN c.memory
        /\ c.fn \in {"memcpy", "memcmp"} =>
              c.src..(c.src + c.n - 1) \subseteq DOMAIN c.memory
        /\ c.fn \in {"strcmp", "strcompare"} =>
              \E z \in DOMAIN c.memory : StringAt(c.memory, c.dst, z)
        /\ c.fn \in {"strlen", "strchr", "strrchr", "strcmp", "strcompare", "strlcpy",
                     "strcopy", "AsciiToUnicode"} =>
              \E z \in DOMAIN c.memory : StringAt(c.memory, c.src, z)
        /\ c.fn \in {"strlcpy", "strcopy", "AsciiToUnicode"} =>
              \A z \in DOMAIN c.memory : StringAt(c.memory, c.src, z) =>
                  /\ Written(c, z - c.src) \subseteq DOMAIN c.memory
                  /\ Written(c, z - c.src) \cap (c.src..z) = {}
        /\ c.fn = "ConOutPrintDecimal" => HasDigits(c.n, Column - 1)

VARIABLES
    call,       \* the call; its memory is the one before it
    mem,        \* the memory
    out         \* what was returned, and the text that was made; or no answer yet

vars == <<call, mem, out>>

Pending == [ret |-> NULL, text |-> <<"pending">>]
Returns(r) == out' = [ret |-> r, text |-> <<>>]

Init ==
    /\ call \in Calls
    /\ mem = call.memory
    /\ out = Pending

Calling(f) == out = Pending /\ call.fn = f /\ UNCHANGED call
dst == call.dst
src == call.src
n == call.n

-----------------------------------------------------------------------------
\* Memory. A loop that copies k units of w cells, each read before it is written.
Copy(m, d, s, k, w) ==
    LET copied[j \in 0..k] ==
            IF j = 0 THEN m
            ELSE [a \in DOMAIN m |->
                    IF a \in (d + (j - 1) * w)..(d + j * w - 1)
                    THEN copied[j - 1][s + (a - d)] ELSE copied[j - 1][a]]
    IN  copied[k]

\* Bytes up to the first aligned destination, then longs, then the bytes left.
CopyInLongs(m, d, s, k) ==
    LET head  == Smaller(k, (Long - (d % Long)) % Long)
        longs == (k - head) \div Long
        done  == head + longs * Long
    IN  Copy(Copy(Copy(m, d, s, head, 1), d + head, s + head, longs, Long),
             d + done, s + done, k - done, 1)

\* Mutant of Refuses: only a source that starts inside the destination is seen.
BugRefuses(d, s, k) == d < s /\ d + k > s

Refuses(d, s, k) == (d < s /\ d + k > s) \/ (s < d /\ s + k > d)

MemCpy ==
    /\ Calling("memcpy")
    /\ IF n = 0 \/ dst = src THEN UNCHANGED mem /\ Returns(dst)
       ELSE IF Refuses(dst, src, n) THEN UNCHANGED mem /\ Returns(NULL)
       ELSE mem' = CopyInLongs(mem, dst, src, n) /\ Returns(dst)

\* Mutant of MemSet: the value is not cut to a byte.
BugMemSetWide ==
    /\ Calling("memset")
    /\ mem' = [a \in DOMAIN mem |-> IF a \in dst..(dst + n - 1) THEN call.value ELSE mem[a]]
    /\ Returns(dst)

MemSet ==
    /\ Calling("memset")
    /\ mem' = [a \in DOMAIN mem |->
                 IF a \in dst..(dst + n - 1) THEN call.value % 256 ELSE mem[a]]
    /\ Returns(dst)

\* Buffers that are equal run off the end of the function: it returns anything.
MemCmp ==
    /\ Calling("memcmp")
    /\ LET from[k \in Nat] ==
               IF k = n THEN (IF n = 0 THEN {0} ELSE {-1, 0, 1})
               ELSE IF mem[dst + k] # mem[src + k] THEN {mem[dst + k] - mem[src + k]}
               ELSE from[k + 1]
       IN  \E r \in from[0] : Returns(r)
    /\ UNCHANGED mem

-----------------------------------------------------------------------------
\* Strings. strlen and strlength.
Length(m, s) ==
    LET from[k \in Nat] == IF m[s + k] = 0 THEN k ELSE from[k + 1] IN from[0]

StrLen == Calling("strlen") /\ Returns(Length(mem, src)) /\ UNCHANGED mem

\* Both strchr: the terminator can be found too, and c is cut to a char.
StrChr ==
    /\ Calling("strchr")
    /\ LET from[a \in Nat] == IF mem[a] = call.value % 256 THEN a
                              ELSE IF mem[a] = 0 THEN NULL
                              ELSE from[a + 1]
       IN  Returns(from[src])
    /\ UNCHANGED mem

\* The last place of c among the first k characters.
LastIn(m, s, c, k) ==
    LET last[j \in 0..k] == IF j = 0 THEN NULL
                            ELSE IF m[s + j - 1] = c THEN s + j - 1
                            ELSE last[j - 1]
    IN  last[k]

\* Mutant of StrRChr: the loop ends before it looks at the terminator.
BugStrRChrNoEnd ==
    /\ Calling("strrchr")
    /\ Returns(LastIn(mem, src, call.value % 256, Length(mem, src)))
    /\ UNCHANGED mem

\* The terminator is looked at before the loop ends.
StrRChr ==
    /\ Calling("strrchr")
    /\ Returns(LastIn(mem, src, call.value % 256, Length(mem, src) + 1))
    /\ UNCHANGED mem

Signed(b) == IF b < 128 THEN b ELSE b - 256

\* Mutant of StrCmp: characters are subtracted as they are, which is signed.
BugStrCmpSigned ==
    /\ Calling("strcmp")
    /\ LET from[k \in Nat] ==
               IF mem[dst + k] # mem[src + k] THEN Signed(mem[dst + k]) - Signed(mem[src + k])
               ELSE IF mem[dst + k] = 0 THEN 0 ELSE from[k + 1]
       IN  Returns(from[0])
    /\ UNCHANGED mem

StrCmp ==
    /\ Calling("strcmp")
    /\ LET from[k \in Nat] ==
               IF mem[dst + k] # mem[src + k] THEN mem[dst + k] - mem[src + k]
               ELSE IF mem[dst + k] = 0 THEN 0 ELSE from[k + 1]
       IN  Returns(from[0])
    /\ UNCHANGED mem

\* The loop ends at the end of the first string or at a difference.
StrCompare ==
    /\ Calling("strcompare")
    /\ LET from[k \in Nat] ==
               IF mem[dst + k] # 0 /\ mem[dst + k] = mem[src + k] THEN from[k + 1]
               ELSE mem[dst + k] - mem[src + k]
       IN  Returns(from[0])
    /\ UNCHANGED mem

\* Mutant of StrLCpy: a string that is cut gets no terminator.
BugStrLCpyOpen ==
    /\ Calling("strlcpy")
    /\ mem' = IF n = 0 THEN mem
              ELSE Copy(mem, dst, src, Smaller(n - 1, Length(mem, src) + 1), 1)
    /\ Returns(Length(mem, src))

\* The terminator is copied when it fits, and written when it did not. The length
\* returned is that of the source, to whose end the second loop runs.
StrLCpy ==
    /\ Calling("strlcpy")
    /\ LET length == Length(mem, src)
           copied == Copy(mem, dst, src, Smaller(n - 1, length + 1), 1)
       IN  /\ mem' = IF n = 0 THEN mem
                     ELSE IF length >= n - 1 THEN [copied EXCEPT ![dst + n - 1] = 0]
                     ELSE copied
           /\ Returns(length)

StrCopy ==
    /\ Calling("strcopy")
    /\ LET length == Length(mem, src) IN
       mem' = [Copy(mem, dst, src, length, 1) EXCEPT ![dst + length] = 0]
    /\ Returns(0)

-----------------------------------------------------------------------------
\* A char is signed: one above 127 widens to 0xFF80 and more.
Widened(b) == IF b < 128 THEN b ELSE b + 65280

\* UnicodeBufferSize - 1 is unsigned: a size of 0 is no limit.
AsciiToUnicode ==
    /\ Calling("AsciiToUnicode")
    /\ LET length == Length(mem, src)
           i      == IF n = 0 THEN length ELSE Smaller(n - 1, length)
       IN  mem' = [a \in DOMAIN mem |->
                     IF a \in dst..(dst + i - 1) THEN Widened(mem[src + (a - dst)])
                     ELSE IF a = dst + i THEN 0 ELSE mem[a]]
    /\ Returns(0)

\* UnicodeVSPrint of a text of k characters: what fits, without the terminator.
UnicodeVSPrint(k, size) == Smaller(k, size - 1)

\* The text is made again when it filled the first buffer, in one of the size of
\* what was printed. Each allocation may fail.
StrFmt ==
    /\ Calling("strfmt")
    /\ LET first == UnicodeVSPrint(n, Guess)
           made  == IF first >= Guess - 1 THEN UnicodeVSPrint(n, first + 1) ELSE first
       IN  \/ Returns(0)
           \/ out' = [ret |-> 1, text |-> [k \in 1..made |-> k]]
    /\ UNCHANGED mem

\* From the last digit to the first, in the cells below the terminator; pos of them
\* are left.
DigitsOf(v) ==
    LET digits[pos \in 0..(Column - 1)] ==
            [x \in Nat |->
                IF x > 0 /\ pos > 0
                THEN Append(digits[pos - 1][x \div 10], x - (x \div 10) * 10) ELSE <<>>]
    IN  digits[Column - 1][v]

\* Mutant of Digits: no case for 0.
BugDigits(v) == DigitsOf(v)

Digits(v) == IF v = 0 THEN <<0>> ELSE DigitsOf(v)

ConOutPrintDecimal ==
    /\ Calling("ConOutPrintDecimal")
    /\ out' = [ret |-> 0, text |-> Digits(n)]
    /\ UNCHANGED mem

Next ==
    \/ MemCpy \/ MemSet \/ MemCmp
    \/ StrLen \/ StrChr \/ StrRChr \/ StrCmp \/ StrCompare \/ StrLCpy \/ StrCopy
    \/ AsciiToUnicode \/ StrFmt \/ ConOutPrintDecimal

Spec == Init /\ [][Next]_vars

-----------------------------------------------------------------------------
WideChars == 0..65535
Unit == IF call.fn = "AsciiToUnicode" THEN WideChars ELSE 0..255

TypeOK ==
    /\ call.fn \in Functions
    /\ mem \in [DOMAIN call.memory -> Unit]
    /\ out.ret \in Int
    /\ out # Pending => \A k \in DOMAIN out.text : out.text[k] \in Nat

Answered(f) == out # Pending /\ call.fn = f
was == call.memory

\* Memory outside k cells at d is what it was.
OnlyAt(d, k) == \A a \in DOMAIN was \ (d..(d + k - 1)) : mem[a] = was[a]

\* memcpy (string.c 3-59) copies every byte and no other one for any alignment of
\* destination, source and size, and refuses exactly the ranges that overlap
\* without being the same; memset (61-80) fills exactly its range.
CopiesExactly ==
    /\ Answered("memcpy") =>
        /\ out.ret \in {dst, NULL}
        /\ out.ret = NULL <=> dst # src /\ (dst..(dst + n - 1)) \cap (src..(src + n - 1)) # {}
        /\ OnlyAt(dst, IF out.ret = NULL THEN 0 ELSE n)
        /\ (out.ret = dst) => \A k \in 0..(n - 1) : mem[dst + k] = was[src + k]
    /\ Answered("memset") =>
        OnlyAt(dst, n) /\ \A k \in 0..(n - 1) : mem[dst + k] = call.value % 256

\* Where c stands in the string at src, its terminator included.
Places == {a \in DOMAIN was : /\ a >= src /\ was[a] = call.value % 256
                              /\ \A b \in src..(a - 1) : was[b] # 0}

\* strchr and strrchr (string.c 106-123, util.c 199-227) find the first and the last
\* place of a character, also a negative one or the terminator; strlen the terminator.
FindsFirstAndLast ==
    /\ Answered("strchr") =>
        IF Places = {} THEN out.ret = NULL
        ELSE out.ret \in Places /\ \A a \in Places : out.ret <= a
    /\ Answered("strrchr") =>
        IF Places = {} THEN out.ret = NULL
        ELSE out.ret \in Places /\ \A a \in Places : a <= out.ret
    /\ Answered("strlen") =>
        was[src + out.ret] = 0 /\ \A k \in 0..(out.ret - 1) : was[src + k] # 0

\* The two differ first at k, as unsigned characters, with nothing ended before.
DifferAt(k, ended) ==
    /\ was[dst + k] # was[src + k]
    /\ \A j \in 0..(k - 1) : /\ was[dst + j] = was[src + j]
                             /\ was[dst + j] # ended

\* Where the strings differ: at one place, or nowhere.
Differences ==
    {k \in {a - dst : a \in DOMAIN was} : k >= 0 /\ src + k \in DOMAIN was /\ DifferAt(k, 0)}

\* The sign of strcmp, strcompare and memcmp (string.c 82-104, 125-139; util.c 93-112)
\* is that of the first difference between unsigned characters, and 0 is returned
\* for equal strings only. For equal buffers memcmp promises nothing.
ComparesLikeDictionary ==
    /\ (Answered("strcmp") \/ Answered("strcompare")) =>
        /\ out.ret = 0 <=> Differences = {}
        /\ \A k \in Differences : out.ret > 0 <=> was[dst + k] > was[src + k]
    /\ Answered("memcmp") =>
        \A k \in 0..(n - 1) :
            DifferAt(k, NULL) =>
                /\ out.ret # 0
                /\ out.ret > 0 <=> was[dst + k] > was[src + k]

\* What strlcpy, strcopy and AsciiToUnicode (string.c 141-172, util.c 78-91, 184-197)
\* leave is the longest prefix that fits with its terminator, and nothing is written
\* past n cells; a size of 0, which strlcpy takes to write nothing, has AsciiToUnicode
\* write everything. strfmt (util.c 114-181) gives up or keeps the longest prefix that
\* fits its guess: its second attempt has no more room than the first.
TextFits ==
    LET length == Length(was, src)
        kept   == Kept(call, length)
    IN  /\ (call.fn \in {"strlcpy", "strcopy", "AsciiToUnicode"} /\ out # Pending) =>
            IF call.fn = "strlcpy" /\ n = 0 THEN mem = was
            ELSE /\ OnlyAt(dst, kept + 1)
                 /\ mem[dst + kept] = 0
                 /\ \A k \in 0..(kept - 1) :
                        mem[dst + k] % 256 = was[src + k] /\ mem[dst + k] # 0
        /\ Answered("strlcpy") => out.ret = length
        /\ (Answered("strfmt") /\ out.ret = 1) => Len(out.text) = Smaller(n, Guess - 1)

\* The number whose digits, the highest one first, are t.
ValueOf(t) ==
    LET value[k \in 0..Len(t)] == IF k = 0 THEN 0 ELSE value[k - 1] * 10 + t[k]
    IN  value[Len(t)]

\* The digits the kernel prints (entry.c 100-127) are those of the value, none lost
\* and none added.
DecimalExact ==
    Answered("ConOutPrintDecimal") =>
        /\ out.text # <<>>
        /\ ValueOf(out.text) = n
        /\ out.text[1] = 0 => n = 0
=============================================================================
