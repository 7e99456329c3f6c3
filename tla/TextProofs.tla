----------------------------- MODULE TextProofs -----------------------------
(* Every memory, string and formatting function of Text returns and writes    *)
(* what its definition says, for every memory, argument and width of a long:  *)
(* each loop is a recursive function, and the proofs are inductions over it.  *)
EXTENDS Text, Numbers, TLAPS

-----------------------------------------------------------------------------
(* Loops over strings. *)

LEMMA LengthIs ==
    ASSUME NEW m, NEW s \in Nat, NEW z \in Nat, StringAt(m, s, z)
    PROVE  Length(m, s) = z - s
<1> DEFINE from == CHOOSE f : f = [k \in Nat |-> IF m[s + k] = 0 THEN k ELSE f[k + 1]]
<1> DEFINE Stop == {k \in Nat : m[s + k] = 0}
<1> DEFINE val == [k \in Nat |-> k]
<1>1. \A f : IsSearch(f, Stop, val)
             <=> f = [k \in Nat |-> IF m[s + k] = 0 THEN k ELSE f[k + 1]]
  BY DEF IsSearch
<1>2. Stop \in SUBSET Nat /\ z - s \in Stop /\ val[z - s] = z - s
  BY DEF StringAt
<1>3. \A j \in 0..((z - s) - 1) : j \notin Stop
  BY DEF StringAt
<1>4. 0 \in 0..(z - s)
  BY DEF StringAt
<1>5. \E f : IsSearch(f, Stop, val)
  <2> HIDE DEF Stop, val
  <2> QED
    BY <1>2, SearchExists
<1>6. \E f : f = [k \in Nat |-> IF m[s + k] = 0 THEN k ELSE f[k + 1]]
  BY <1>1, <1>5
<1>7. from = [k \in Nat |-> IF m[s + k] = 0 THEN k ELSE from[k + 1]]
  BY <1>6
<1>8. Length(m, s) = from[0]
  BY DEF Length
<1> HIDE DEF from
<1>9. IsSearch(from, Stop, val)
  BY <1>1, <1>7
<1> HIDE DEF Stop, val
<1>10. from[0] = val[z - s]
  BY <1>2, <1>3, <1>4, <1>9, SearchFinds
<1> QED
  BY <1>2, <1>8, <1>10

-----------------------------------------------------------------------------
(* A call, before it is answered. *)

Waiting == call \in Calls /\ out = Pending /\ mem = was

StringFunctions == {"strlen", "strchr", "strrchr", "strcmp", "strcompare", "strlcpy",
                    "strcopy", "AsciiToUnicode"}

LEMMA CallTypes ==
    ASSUME call \in Calls
    PROVE  /\ DOMAIN was \subseteq Nat /\ was \in [DOMAIN was -> 0..255]
           /\ dst \in DOMAIN was /\ src \in DOMAIN was /\ n \in Nat
           /\ call.value % 256 \in 0..255
           /\ call.fn \in Functions
<1>1. call.value \in Int
  BY TextAssumption
<1>2. call.value % 256 \in 0..255
  BY <1>1
<1> QED
  BY <1>2, TextAssumption DEF was, dst, src, n

\* Where the string at src ends.
LEMMA SourceEnds ==
    ASSUME call \in Calls, call.fn \in StringFunctions
    PROVE  \E z \in DOMAIN was : z \in Nat /\ StringAt(was, src, z)
  BY TextAssumption DEF StringFunctions, was, src

\* An answer is not the one that stands for no answer.
LEMMA AnswersDiffer ==
    /\ \A r : [ret |-> r, text |-> <<>>] # Pending
    /\ \A r, t : r # NULL => [ret |-> r, text |-> t] # Pending
<1>1. <<>> # <<"pending">>
  OBVIOUS
<1> QED
  BY <1>1 DEF Pending

-----------------------------------------------------------------------------
(* strlen, strchr and strrchr. *)

LEMMA PlacesInString ==
    ASSUME call \in Calls, NEW z \in DOMAIN was, StringAt(was, src, z)
    PROVE  Places = {a \in src..z : was[a] = call.value % 256}
<1>0. DOMAIN was \subseteq Nat /\ src \in Nat /\ z \in Nat
  BY CallTypes
<1>1. ASSUME NEW a \in Places PROVE a \in src..z
  <2>1. a \in Nat /\ a >= src /\ \A b \in src..(a - 1) : was[b] # 0
    BY <1>0 DEF Places
  <2>2. ~(a > z)
    BY <1>0, <2>1 DEF StringAt
  <2> QED
    BY <1>0, <2>1, <2>2
<1>2. ASSUME NEW a \in src..z, was[a] = call.value % 256 PROVE a \in Places
  <2>1. \A b \in src..(a - 1) : b \in src..(z - 1)
    BY <1>0
  <2> QED
    BY <1>0, <1>2, <2>1 DEF StringAt, Places
<1> QED
  BY <1>1, <1>2 DEF Places

LEMMA StrLenAnswer ==
    ASSUME Waiting, StrLen
    PROVE  was[src + out'.ret] = 0 /\ \A k \in 0..(out'.ret - 1) : was[src + k] # 0
<1>1. PICK z \in DOMAIN was : z \in Nat /\ StringAt(was, src, z)
  BY SourceEnds DEF Waiting, StrLen, Calling, StringFunctions
<1>2. src \in Nat
  BY CallTypes DEF Waiting
<1>3. out'.ret = z - src
  BY <1>1, <1>2, LengthIs DEF Waiting, StrLen, Returns
<1>4. src + (z - src) = z
  BY <1>1, <1>2
<1>5. \A k \in 0..((z - src) - 1) : src + k \in src..(z - 1)
  BY <1>1, <1>2
<1> QED
  BY <1>1, <1>3, <1>4, <1>5 DEF StringAt

LEMMA StrChrAnswer ==
    ASSUME Waiting, StrChr
    PROVE  IF Places = {} THEN out'.ret = NULL
           ELSE out'.ret \in Places /\ \A a \in Places : out'.ret <= a
<1> DEFINE c == call.value % 256
<1> DEFINE from == CHOOSE f : f = [a \in Nat |-> IF mem[a] = c THEN a
                                                 ELSE IF mem[a] = 0 THEN NULL
                                                 ELSE f[a + 1]]
<1> DEFINE Stop == {a \in Nat : mem[a] = c \/ mem[a] = 0}
<1> DEFINE val == [a \in Nat |-> IF mem[a] = c THEN a ELSE NULL]
<1>1. PICK z \in DOMAIN was : z \in Nat /\ StringAt(was, src, z)
  BY SourceEnds DEF Waiting, StrChr, Calling, StringFunctions
<1>2. src \in Nat /\ z >= src /\ Stop \in SUBSET Nat /\ mem = was
  BY <1>1, CallTypes DEF Waiting, StringAt
<1>3. \A f : IsSearch(f, Stop, val)
             <=> f = [a \in Nat |-> IF mem[a] = c THEN a
                                    ELSE IF mem[a] = 0 THEN NULL ELSE f[a + 1]]
  BY DEF IsSearch
<1>4. \E f : IsSearch(f, Stop, val)
  <2> HIDE DEF Stop, val
  <2> QED
    BY <1>2, SearchExists
<1>5. \E f : f = [a \in Nat |-> IF mem[a] = c THEN a
                                ELSE IF mem[a] = 0 THEN NULL ELSE f[a + 1]]
  BY <1>3, <1>4
<1>6. from = [a \in Nat |-> IF mem[a] = c THEN a
                            ELSE IF mem[a] = 0 THEN NULL ELSE from[a + 1]]
  BY <1>5
<1>7. out'.ret = from[src]
  BY DEF StrChr, Returns
<1>8. Places = {a \in src..z : was[a] = c}
  BY <1>1, PlacesInString DEF Waiting
<1> HIDE DEF from
<1>9. IsSearch(from, Stop, val)
  BY <1>3, <1>6
<1>10. CASE Places = {}
  <2>1. z \in Stop /\ val[z] = NULL /\ src \in 0..z
    BY <1>1, <1>2, <1>8, <1>10 DEF StringAt
  <2>2. \A j \in src..(z - 1) : j \notin Stop
    BY <1>1, <1>2, <1>8, <1>10 DEF StringAt
  <2> HIDE DEF Stop, val
  <2>3. from[src] = val[z]
    BY <1>2, <1>9, <2>1, <2>2, SearchFinds
  <2> QED
    BY <1>7, <1>10, <2>1, <2>3
<1>11. CASE Places # {}
  <2>1. PICK p \in Places : \A a \in Places : p <= a
    <3>1. Places \in SUBSET Nat
      BY <1>1, <1>2, <1>8
    <3> QED
      BY <1>11, <3>1, LeastElement
  <2>2. p \in src..z /\ was[p] = c
    BY <1>8, <2>1
  <2>3. p \in Nat /\ p \in Stop /\ val[p] = p /\ src \in 0..p
    BY <1>1, <1>2, <2>2
  <2>4. ASSUME NEW j \in src..(p - 1) PROVE j \notin Stop
    <3>1. j \in Nat /\ j \in src..z /\ j \in src..(z - 1) /\ ~(p <= j)
      BY <1>1, <1>2, <2>2, <2>3
    <3>2. j \notin Places
      BY <2>1, <3>1
    <3> QED
      BY <1>1, <1>2, <1>8, <3>1, <3>2 DEF StringAt
  <2> HIDE DEF Stop, val
  <2>5. from[src] = val[p]
    BY <1>2, <1>9, <2>3, <2>4, SearchFinds
  <2> QED
    BY <1>7, <1>11, <2>1, <2>3, <2>5
<1> QED
  BY <1>10, <1>11

IsLast(r, m, s, c, k) ==
    \/ r = NULL /\ \A i \in 0..(k - 1) : m[s + i] # c
    \/ \E i \in 0..(k - 1) : /\ r = s + i /\ m[s + i] = c
                             /\ \A l \in (i + 1)..(k - 1) : m[s + l] # c

LEMMA LastInIs ==
    ASSUME NEW m, NEW s \in Nat, NEW c, NEW k \in Nat
    PROVE  IsLast(LastIn(m, s, c, k), m, s, c, k)
<1> DEFINE step == [x \in (Nat \ {0}) \X Int |->
                      IF m[s + x[1] - 1] = c THEN s + x[1] - 1 ELSE x[2]]
<1> DEFINE last == CHOOSE f : f = [j \in 0..k |->
                      IF j = 0 THEN NULL
                      ELSE IF m[s + j - 1] = c THEN s + j - 1 ELSE f[j - 1]]
<1>1. \E f : f = [j \in 0..k |-> IF j = 0 THEN NULL
                                ELSE IF m[s + j - 1] = c THEN s + j - 1 ELSE f[j - 1]]
  <2>1. step \in [(Nat \ {0}) \X Int -> Int] /\ NULL \in Int
    BY DEF NULL
  <2>2. PICK f \in [0..k -> Int] : IsLoop(f, k, NULL, step)
    <3> HIDE DEF step
    <3> QED
      BY <2>1, LoopExists
  <2>3. ASSUME NEW j \in 0..k, j # 0
        PROVE  step[<<j, f[j - 1]>>] = IF m[s + j - 1] = c THEN s + j - 1 ELSE f[j - 1]
    <3>1. j - 1 \in 0..k /\ j \in Nat \ {0}
      BY <2>3
    <3>2. <<j, f[j - 1]>> \in (Nat \ {0}) \X Int
      BY <3>1
    <3> QED
      BY <3>2
  <2> HIDE DEF step
  <2>4. f = [j \in 0..k |-> IF j = 0 THEN NULL
                            ELSE IF m[s + j - 1] = c THEN s + j - 1 ELSE f[j - 1]]
    BY <2>2, <2>3 DEF IsLoop
  <2> QED
    BY <2>4
<1>2. last = [j \in 0..k |-> IF j = 0 THEN NULL
                             ELSE IF m[s + j - 1] = c THEN s + j - 1 ELSE last[j - 1]]
  BY <1>1
<1>3. LastIn(m, s, c, k) = last[k]
  BY DEF LastIn
<1> HIDE DEF last
<1> DEFINE Right(j) ==
      \/ last[j] = NULL /\ \A i \in 0..(j - 1) : m[s + i] # c
      \/ \E i \in 0..(j - 1) : /\ last[j] = s + i /\ m[s + i] = c
                               /\ \A l \in (i + 1)..(j - 1) : m[s + l] # c
<1> DEFINE S == {j \in Nat : j <= k => Right(j)}
<1>4. 0 \in S
  BY <1>2
<1>5. ASSUME NEW j \in S PROVE j + 1 \in S
  <2> SUFFICES ASSUME j + 1 <= k PROVE Right(j + 1)
    OBVIOUS
  <2>1. /\ j + 1 \in 0..k /\ j + 1 # 0 /\ (j + 1) - 1 = j /\ s + (j + 1) - 1 = s + j
        /\ j \in 0..k /\ j \in 0..j
    OBVIOUS
  <2>2. last[j + 1] = IF m[s + j] = c THEN s + j ELSE last[j]
    BY <1>2, <2>1
  <2>3. CASE m[s + j] = c
    <3>1. last[j + 1] = s + j /\ \A l \in (j + 1)..j : m[s + l] # c
      BY <2>2, <2>3
    <3> QED
      BY <2>1, <2>3, <3>1
  <2>4. CASE m[s + j] # c
    <3>1. last[j + 1] = last[j] /\ Right(j)
      BY <2>1, <2>2, <2>4
    <3>2. \A i \in 0..j : i \in 0..(j - 1) \/ i = j
      OBVIOUS
    <3>3. \A i \in 0..(j - 1) : \A l \in (i + 1)..j : l \in (i + 1)..(j - 1) \/ l = j
      OBVIOUS
    <3>4. CASE last[j] = NULL /\ \A i \in 0..(j - 1) : m[s + i] # c
      BY <2>1, <2>4, <3>1, <3>2, <3>4
    <3>5. CASE \E i \in 0..(j - 1) : /\ last[j] = s + i /\ m[s + i] = c
                                     /\ \A l \in (i + 1)..(j - 1) : m[s + l] # c
      <4>1. PICK i \in 0..(j - 1) : /\ last[j] = s + i /\ m[s + i] = c
                                    /\ \A l \in (i + 1)..(j - 1) : m[s + l] # c
        BY <3>5
      <4>2. i \in 0..j /\ \A l \in (i + 1)..j : m[s + l] # c
        BY <2>4, <3>3, <4>1
      <4> QED
        BY <2>1, <3>1, <4>1, <4>2
    <3> QED
      BY <3>1, <3>4, <3>5
  <2> QED
    BY <2>3, <2>4
<1>6. S = Nat
  <2>1. S \in SUBSET Nat
    OBVIOUS
  <2> HIDE DEF S
  <2> QED
    BY <1>4, <1>5, <2>1, AllNaturals
<1>7. \A j \in S : j <= k => Right(j)
  OBVIOUS
<1>8. Right(k)
  <2> HIDE DEF Right, S
  <2> QED
    BY <1>6, <1>7
<1> QED
  BY <1>3, <1>8 DEF IsLast

LEMMA StrRChrAnswer ==
    ASSUME Waiting, StrRChr
    PROVE  IF Places = {} THEN out'.ret = NULL
           ELSE out'.ret \in Places /\ \A a \in Places : a <= out'.ret
<1> DEFINE c == call.value % 256
<1>1. PICK z \in DOMAIN was : z \in Nat /\ StringAt(was, src, z)
  BY SourceEnds DEF Waiting, StrRChr, Calling, StringFunctions
<1>2. src \in Nat /\ z >= src /\ mem = was
  BY <1>1, CallTypes DEF Waiting, StringAt
<1>3. Length(was, src) + 1 = z - src + 1 /\ z - src + 1 \in Nat
  BY <1>1, <1>2, LengthIs
<1> DEFINE r == LastIn(was, src, c, z - src + 1)
<1>4. out'.ret = r
  BY <1>2, <1>3 DEF StrRChr, Returns
<1>5. \/ r = NULL /\ \A i \in 0..(z - src) : was[src + i] # c
      \/ \E i \in 0..(z - src) : /\ r = src + i /\ was[src + i] = c
                                 /\ \A l \in (i + 1)..(z - src) : was[src + l] # c
  <2>1. (z - src + 1) - 1 = z - src
    BY <1>1, <1>2
  <2> HIDE DEF c
  <2>2. IsLast(r, was, src, c, z - src + 1)
    BY <1>2, <1>3, LastInIs
  <2> HIDE DEF r
  <2> QED
    BY <2>1, <2>2 DEF IsLast
<1>6. Places = {a \in src..z : was[a] = c}
  BY <1>1, PlacesInString DEF Waiting
<1> HIDE DEF r, c
<1>7. \A a \in src..z : a - src \in 0..(z - src) /\ src + (a - src) = a
  BY <1>1, <1>2
<1>8. CASE r = NULL /\ \A i \in 0..(z - src) : was[src + i] # c
  <2>1. Places = {}
    BY <1>6, <1>7, <1>8
  <2> QED
    BY <1>4, <1>8, <2>1
<1>9. CASE \E i \in 0..(z - src) : /\ r = src + i /\ was[src + i] = c
                                   /\ \A l \in (i + 1)..(z - src) : was[src + l] # c
  <2>1. PICK i \in 0..(z - src) : /\ r = src + i /\ was[src + i] = c
                                  /\ \A l \in (i + 1)..(z - src) : was[src + l] # c
    BY <1>9
  <2>2. r \in src..z
    BY <1>1, <1>2, <2>1
  <2>3. r \in Places
    BY <1>6, <2>1, <2>2
  <2>4. ASSUME NEW a \in Places PROVE a <= r
    <3>1. a \in src..z /\ was[src + (a - src)] = c
      BY <1>6, <1>7
    <3>2. a - src \notin (i + 1)..(z - src)
      BY <2>1, <3>1
    <3> QED
      BY <1>1, <1>2, <2>1, <3>1, <3>2
  <2> QED
    BY <1>4, <2>3, <2>4
<1> QED
  BY <1>5, <1>8, <1>9

-----------------------------------------------------------------------------
(* strcmp, strcompare and memcmp. *)

Same(k) == was[dst + k] = was[src + k] /\ was[dst + k] # 0

\* Where the loops over two strings stop: inside both of them.
LEMMA FirstStop ==
    ASSUME call \in Calls, call.fn \in {"strcmp", "strcompare"}
    PROVE  \E p \in Nat : /\ dst + p \in DOMAIN was /\ src + p \in DOMAIN was
                          /\ ~Same(p) /\ \A j \in 0..(p - 1) : Same(j)
<1>1. PICK z \in DOMAIN was : z \in Nat /\ StringAt(was, src, z)
  BY SourceEnds DEF StringFunctions
<1>2. PICK y \in DOMAIN was : y \in Nat /\ StringAt(was, dst, y)
  BY TextAssumption DEF was, dst
<1>3. src \in Nat /\ dst \in Nat
  BY CallTypes
<1> DEFINE Stop == {k \in Nat : ~Same(k)}
<1>4. y - dst \in Stop
  BY <1>2, <1>3 DEF StringAt, Same
<1>5. z - src \in Stop
  BY <1>1, <1>3 DEF StringAt, Same
<1>6. PICK p \in Stop : \A k \in Stop : p <= k
  <2>1. Stop \in SUBSET Nat
    OBVIOUS
  <2> HIDE DEF Stop
  <2> QED
    BY <1>4, <2>1, LeastElement
<1>7. p \in Nat /\ ~Same(p) /\ p <= y - dst /\ p <= z - src
  BY <1>4, <1>5, <1>6
<1>8. dst + p \in dst..y /\ src + p \in src..z
  BY <1>1, <1>2, <1>3, <1>7
<1>9. ASSUME NEW j \in 0..(p - 1) PROVE Same(j)
  <2>1. j \in Nat /\ ~(p <= j)
    BY <1>7
  <2> QED
    BY <1>6, <2>1
<1> QED
  BY <1>1, <1>2, <1>7, <1>8, <1>9 DEF StringAt

\* The difference there is the answer.
LEMMA StopAnswers ==
    ASSUME call \in Calls, NEW p \in Nat,
           dst + p \in DOMAIN was, src + p \in DOMAIN was,
           ~Same(p), \A j \in 0..(p - 1) : Same(j),
           NEW r, r = was[dst + p] - was[src + p]
    PROVE  /\ r \in Int
           /\ r = 0 <=> Differences = {}
           /\ \A k \in Differences : r > 0 <=> was[dst + k] > was[src + k]
<1>1. src \in Nat /\ dst \in Nat /\ was[dst + p] \in 0..255 /\ was[src + p] \in 0..255
  BY CallTypes
<1>2. ASSUME NEW k \in Differences PROVE k = p /\ was[dst + p] # was[src + p]
  <2>1. k \in Nat /\ DifferAt(k, 0)
    <3>1. \A a \in DOMAIN was : a - dst \in Int
      BY <1>1, CallTypes
    <3> QED
      BY <3>1 DEF Differences
  <2>2. ~(k < p)
    BY <2>1 DEF DifferAt, Same
  <2>3. ~(p < k)
    <3> SUFFICES ASSUME p < k PROVE FALSE
      OBVIOUS
    <3>1. p \in 0..(k - 1)
      BY <2>1
    <3> QED
      BY <2>1, <3>1 DEF DifferAt, Same
  <2>4. k = p
    BY <2>1, <2>2, <2>3
  <2> QED
    BY <2>1, <2>4 DEF DifferAt
<1>3. ASSUME was[dst + p] # was[src + p] PROVE p \in Differences
  <2>1. DifferAt(p, 0)
    BY <1>3 DEF DifferAt, Same
  <2>2. p = (dst + p) - dst
    BY <1>1
  <2>3. p \in {a - dst : a \in DOMAIN was}
    BY <2>2
  <2> QED
    BY <2>1, <2>3 DEF Differences
<1>4. PICK x \in 0..255, y \in 0..255 : x = was[dst + p] /\ y = was[src + p]
  BY <1>1
<1>5. r = x - y
  BY <1>4
<1>6. r \in Int /\ (r = 0 <=> x = y) /\ (r > 0 <=> x > y)
  BY <1>5
<1>7. Differences = {} <=> x = y
  BY <1>2, <1>3, <1>4
<1>8. \A k \in Differences : r > 0 <=> was[dst + k] > was[src + k]
  BY <1>2, <1>4, <1>6
<1> QED
  BY <1>6, <1>7, <1>8

LEMMA StrCmpAnswer ==
    ASSUME Waiting, StrCmp
    PROVE  /\ out'.ret \in Int
           /\ out'.ret = 0 <=> Differences = {}
           /\ \A k \in Differences : out'.ret > 0 <=> was[dst + k] > was[src + k]
<1> DEFINE from == CHOOSE f : f = [k \in Nat |->
               IF mem[dst + k] # mem[src + k] THEN mem[dst + k] - mem[src + k]
               ELSE IF mem[dst + k] = 0 THEN 0 ELSE f[k + 1]]
<1> DEFINE Stop == {k \in Nat : ~Same(k)}
<1> DEFINE val == [k \in Nat |->
               IF mem[dst + k] # mem[src + k] THEN mem[dst + k] - mem[src + k] ELSE 0]
<1>0. call \in Calls /\ call.fn = "strcmp" /\ mem = was
  BY DEF Waiting, StrCmp, Calling
<1>1. PICK p \in Nat : /\ dst + p \in DOMAIN was /\ src + p \in DOMAIN was
                       /\ ~Same(p) /\ \A j \in 0..(p - 1) : Same(j)
  BY <1>0, FirstStop
<1>2. Stop \in SUBSET Nat /\ p \in Stop /\ 0 \in 0..p /\ \A j \in 0..(p - 1) : j \notin Stop
  BY <1>1
<1>3. \A f : IsSearch(f, Stop, val) <=> f = [k \in Nat |->
               IF mem[dst + k] # mem[src + k] THEN mem[dst + k] - mem[src + k]
               ELSE IF mem[dst + k] = 0 THEN 0 ELSE f[k + 1]]
  BY <1>0 DEF IsSearch, Same
<1>4. \E f : IsSearch(f, Stop, val)
  <2> HIDE DEF Stop, val
  <2> QED
    BY <1>2, SearchExists
<1>5. \E f : f = [k \in Nat |->
               IF mem[dst + k] # mem[src + k] THEN mem[dst + k] - mem[src + k]
               ELSE IF mem[dst + k] = 0 THEN 0 ELSE f[k + 1]]
  BY <1>3, <1>4
<1>6. from = [k \in Nat |->
               IF mem[dst + k] # mem[src + k] THEN mem[dst + k] - mem[src + k]
               ELSE IF mem[dst + k] = 0 THEN 0 ELSE from[k + 1]]
  BY <1>5
<1>7. out'.ret = from[0]
  BY DEF StrCmp, Returns
<1> HIDE DEF from
<1>8. IsSearch(from, Stop, val)
  BY <1>3, <1>6
<1>9. val[p] = was[dst + p] - was[src + p]
  <2>1. was[dst + p] \in Int /\ was[src + p] \in Int
    BY <1>0, <1>1, CallTypes
  <2> QED
    BY <1>0, <2>1
<1> HIDE DEF Stop, val
<1>10. from[0] = val[p]
  BY <1>2, <1>8, SearchFinds
<1>11. out'.ret = was[dst + p] - was[src + p]
  BY <1>7, <1>9, <1>10
<1> QED
  BY <1>0, <1>1, <1>11, StopAnswers

LEMMA StrCompareAnswer ==
    ASSUME Waiting, StrCompare
    PROVE  /\ out'.ret \in Int
           /\ out'.ret = 0 <=> Differences = {}
           /\ \A k \in Differences : out'.ret > 0 <=> was[dst + k] > was[src + k]
<1> DEFINE from == CHOOSE f : f = [k \in Nat |->
               IF mem[dst + k] # 0 /\ mem[dst + k] = mem[src + k] THEN f[k + 1]
               ELSE mem[dst + k] - mem[src + k]]
<1> DEFINE Stop == {k \in Nat : ~Same(k)}
<1> DEFINE val == [k \in Nat |-> mem[dst + k] - mem[src + k]]
<1>0. call \in Calls /\ call.fn = "strcompare" /\ mem = was
  BY DEF Waiting, StrCompare, Calling
<1>1. PICK p \in Nat : /\ dst + p \in DOMAIN was /\ src + p \in DOMAIN was
                       /\ ~Same(p) /\ \A j \in 0..(p - 1) : Same(j)
  BY <1>0, FirstStop
<1>2. Stop \in SUBSET Nat /\ p \in Stop /\ 0 \in 0..p /\ \A j \in 0..(p - 1) : j \notin Stop
  BY <1>1
<1>3. \A f : IsSearch(f, Stop, val) <=> f = [k \in Nat |->
               IF mem[dst + k] # 0 /\ mem[dst + k] = mem[src + k] THEN f[k + 1]
               ELSE mem[dst + k] - mem[src + k]]
  BY <1>0 DEF IsSearch, Same
<1>4. \E f : IsSearch(f, Stop, val)
  <2> HIDE DEF Stop, val
  <2> QED
    BY <1>2, SearchExists
<1>5. \E f : f = [k \in Nat |->
               IF mem[dst + k] # 0 /\ mem[dst + k] = mem[src + k] THEN f[k + 1]
               ELSE mem[dst + k] - mem[src + k]]
  BY <1>3, <1>4
<1>6. from = [k \in Nat |->
               IF mem[dst + k] # 0 /\ mem[dst + k] = mem[src + k] THEN from[k + 1]
               ELSE mem[dst + k] - mem[src + k]]
  BY <1>5
<1>7. out'.ret = from[0]
  BY DEF StrCompare, Returns
<1> HIDE DEF from
<1>8. IsSearch(from, Stop, val)
  BY <1>3, <1>6
<1>9. val[p] = was[dst + p] - was[src + p]
  BY <1>0
<1> HIDE DEF Stop, val
<1>10. from[0] = val[p]
  BY <1>2, <1>8, SearchFinds
<1>11. out'.ret = was[dst + p] - was[src + p]
  BY <1>7, <1>9, <1>10
<1> QED
  BY <1>0, <1>1, <1>11, StopAnswers

LEMMA MemCmpAnswer ==
    ASSUME Waiting, MemCmp
    PROVE  /\ out'.ret \in Int
           /\ \A k \in 0..(n - 1) : DifferAt(k, NULL) =>
                 out'.ret # 0 /\ (out'.ret > 0 <=> was[dst + k] > was[src + k])
<1> DEFINE End == IF n = 0 THEN {0} ELSE {-1, 0, 1}
<1> DEFINE from == CHOOSE f : f = [k \in Nat |->
               IF k = n THEN (IF n = 0 THEN {0} ELSE {-1, 0, 1})
               ELSE IF mem[dst + k] # mem[src + k] THEN {mem[dst + k] - mem[src + k]}
               ELSE f[k + 1]]
<1> DEFINE Stop == {k \in Nat : k = n \/ mem[dst + k] # mem[src + k]}
<1> DEFINE val == [k \in Nat |-> IF k = n THEN End ELSE {mem[dst + k] - mem[src + k]}]
<1>0. call \in Calls /\ call.fn = "memcmp" /\ mem = was /\ n \in Nat
  BY CallTypes DEF Waiting, MemCmp, Calling
<1>1. \A k \in 0..(n - 1) : was[dst + k] \in 0..255 /\ was[src + k] \in 0..255
  <2>1. dst..(dst + n - 1) \subseteq DOMAIN was /\ src..(src + n - 1) \subseteq DOMAIN was
    BY <1>0, TextAssumption DEF was, dst, src, n
  <2>2. dst \in Nat /\ src \in Nat
    BY <1>0, CallTypes
  <2>3. \A k \in 0..(n - 1) : dst + k \in dst..(dst + n - 1) /\ src + k \in src..(src + n - 1)
    BY <1>0, <2>2
  <2> QED
    BY <1>0, <2>1, <2>3, CallTypes
<1>2. Stop \in SUBSET Nat /\ n \in Stop
  BY <1>0
<1>3. \A f : IsSearch(f, Stop, val) <=> f = [k \in Nat |->
               IF k = n THEN (IF n = 0 THEN {0} ELSE {-1, 0, 1})
               ELSE IF mem[dst + k] # mem[src + k] THEN {mem[dst + k] - mem[src + k]}
               ELSE f[k + 1]]
  BY DEF IsSearch
<1>4. \E f : IsSearch(f, Stop, val)
  <2> HIDE DEF Stop, val
  <2> QED
    BY <1>2, SearchExists
<1>5. \E f : f = [k \in Nat |->
               IF k = n THEN (IF n = 0 THEN {0} ELSE {-1, 0, 1})
               ELSE IF mem[dst + k] # mem[src + k] THEN {mem[dst + k] - mem[src + k]}
               ELSE f[k + 1]]
  BY <1>3, <1>4
<1>6. from = [k \in Nat |->
               IF k = n THEN (IF n = 0 THEN {0} ELSE {-1, 0, 1})
               ELSE IF mem[dst + k] # mem[src + k] THEN {mem[dst + k] - mem[src + k]}
               ELSE from[k + 1]]
  BY <1>5
<1>7. out'.ret \in from[0]
  BY DEF MemCmp, Returns
<1> HIDE DEF from
<1>8. IsSearch(from, Stop, val)
  BY <1>3, <1>6
<1>9. \A j \in 0..(n - 1) : val[j] = {was[dst + j] - was[src + j]}
  BY <1>0
<1>10. val[n] \subseteq {-1, 0, 1}
  BY <1>0
<1>11. \A k \in 0..(n - 1) : was[dst + k] # was[src + k] => k \in Stop
  BY <1>0
<1>12. \A k \in 0..(n - 1) : was[dst + k] = was[src + k] => k \notin Stop
  BY <1>0
<1>13. ASSUME NEW k \in Stop, k <= n, \A j \in 0..(k - 1) : was[dst + j] = was[src + j]
       PROVE  out'.ret \in val[k]
  <2>1. k \in Nat
    BY <1>2
  <2>2. \A j \in 0..(k - 1) : j \notin Stop
    BY <1>0, <1>12, <1>13, <2>1
  <2>3. 0 \in 0..k
    BY <2>1
  <2> HIDE DEF Stop, val
  <2>4. from[0] = val[k]
    BY <1>2, <1>8, <2>2, <2>3, SearchFinds
  <2> QED
    BY <1>7, <2>4
<1> HIDE DEF Stop, val
<1>14. PICK p \in Stop : \A k \in Stop : p <= k
  BY <1>2, LeastElement
<1>15. p \in Nat /\ p <= n /\ \A j \in 0..(p - 1) : was[dst + j] = was[src + j]
  <2>1. p \in Nat /\ p <= n
    BY <1>2, <1>14
  <2>2. ASSUME NEW j \in 0..(p - 1) PROVE was[dst + j] = was[src + j]
    <3>1. j \in 0..(n - 1) /\ ~(p <= j)
      BY <1>0, <2>1
    <3> QED
      BY <1>11, <1>14, <3>1
  <2> QED
    BY <2>1, <2>2
<1>16. out'.ret \in Int
  <2>1. out'.ret \in val[p]
    BY <1>13, <1>15
  <2>2. CASE p = n
    BY <1>10, <2>1, <2>2
  <2>3. CASE p # n
    <3>1. p \in 0..(n - 1)
      BY <1>0, <1>15, <2>3
    <3>2. out'.ret = was[dst + p] - was[src + p]
      BY <1>9, <2>1, <3>1
    <3>3. PICK x \in 0..255, y \in 0..255 : x = was[dst + p] /\ y = was[src + p]
      BY <1>1, <3>1
    <3>4. x - y \in Int
      OBVIOUS
    <3> QED
      BY <3>2, <3>3, <3>4
  <2> QED
    BY <2>2, <2>3
<1>17. ASSUME NEW k \in 0..(n - 1), DifferAt(k, NULL)
       PROVE  out'.ret # 0 /\ (out'.ret > 0 <=> was[dst + k] > was[src + k])
  <2>1. k \in Stop /\ k <= n /\ \A j \in 0..(k - 1) : was[dst + j] = was[src + j]
    BY <1>0, <1>11, <1>17 DEF DifferAt
  <2>2. out'.ret \in val[k]
    BY <1>13, <2>1
  <2>3. out'.ret = was[dst + k] - was[src + k]
    BY <1>9, <2>2
  <2>4. was[dst + k] # was[src + k]
    BY <1>17 DEF DifferAt
  <2>5. PICK x \in 0..255, y \in 0..255 : x = was[dst + k] /\ y = was[src + k]
    BY <1>1
  <2>6. x # y /\ out'.ret = x - y
    BY <2>3, <2>4, <2>5
  <2>7. out'.ret # 0 /\ (out'.ret > 0 <=> x > y)
    BY <2>6
  <2> QED
    BY <2>5, <2>7
<1> QED
  BY <1>16, <1>17

-----------------------------------------------------------------------------
(* memcpy and memset. *)

\* Memory m with the k cells at s copied to d at once.
Copied(m, d, s, k) ==
    [a \in DOMAIN m |-> IF a \in d..(d + k - 1) THEN m[s + (a - d)] ELSE m[a]]

\* k cells can be read at s, and none of them is written when they are copied to d.
MayCopy(m, d, s, k) ==
    /\ DOMAIN m \subseteq Nat
    /\ s..(s + k - 1) \subseteq DOMAIN m
    /\ (d..(d + k - 1)) \cap (s..(s + k - 1)) = {}

\* Cells that are copied in two parts are copied.
LEMMA CopiedInParts ==
    ASSUME NEW m, NEW d \in Nat, NEW s \in Nat, NEW k \in Nat, NEW l \in Nat,
           MayCopy(m, d, s, k + l)
    PROVE  Copied(Copied(m, d, s, k), d + k, s + k, l) = Copied(m, d, s, k + l)
<1> DEFINE c == Copied(m, d, s, k)
<1>1. DOMAIN c = DOMAIN m /\ DOMAIN m \subseteq Nat
  BY DEF Copied, MayCopy
<1>2. ASSUME NEW a \in DOMAIN m
      PROVE  (IF a \in (d + k)..(d + k + l - 1) THEN c[s + k + (a - (d + k))] ELSE c[a])
             = IF a \in d..(d + (k + l) - 1) THEN m[s + (a - d)] ELSE m[a]
  <2>0. a \in Nat
    BY <1>1
  <2>1. CASE a \in (d + k)..(d + k + l - 1)
    <3>1. s + k + (a - (d + k)) = s + (a - d) /\ a \in d..(d + (k + l) - 1)
      BY <2>0, <2>1
    <3>2. s + (a - d) \in s..(s + (k + l) - 1)
      BY <2>0, <2>1
    <3>3. s + (a - d) \in DOMAIN m /\ s + (a - d) \notin d..(d + (k + l) - 1)
      BY <3>2 DEF MayCopy
    <3>4. s + (a - d) \notin d..(d + k - 1)
      BY <3>2, <3>3
    <3>5. c[s + (a - d)] = m[s + (a - d)]
      BY <3>3, <3>4 DEF Copied
    <3> HIDE DEF c
    <3> QED
      BY <2>1, <3>1, <3>5
  <2>2. CASE a \notin (d + k)..(d + k + l - 1)
    <3>1. a \in d..(d + (k + l) - 1) <=> a \in d..(d + k - 1)
      BY <2>0, <2>2
    <3>2. c[a] = IF a \in d..(d + k - 1) THEN m[s + (a - d)] ELSE m[a]
      BY DEF Copied
    <3> HIDE DEF c
    <3> QED
      BY <2>2, <3>1, <3>2
  <2> QED
    BY <2>1, <2>2
<1>3. Copied(c, d + k, s + k, l)
      = [a \in DOMAIN m |-> IF a \in (d + k)..(d + k + l - 1)
                            THEN c[s + k + (a - (d + k))] ELSE c[a]]
  <2> HIDE DEF c
  <2> QED
    BY <1>1 DEF Copied
<1>4. Copied(m, d, s, k + l)
      = [a \in DOMAIN m |-> IF a \in d..(d + (k + l) - 1) THEN m[s + (a - d)] ELSE m[a]]
  BY DEF Copied
<1> HIDE DEF c
<1>5. Copied(c, d + k, s + k, l) = Copied(m, d, s, k + l)
  BY <1>2, <1>3, <1>4
<1> QED
  BY <1>5 DEF c

\* One unit more is copied, from c.
OneMore(c, m, d, s, p, q) ==
    [a \in DOMAIN m |-> IF a \in (d + p)..(d + q - 1) THEN c[s + (a - d)] ELSE c[a]]

LEMMA CopiedNext ==
    ASSUME NEW m, NEW d \in Nat, NEW s \in Nat, NEW p \in Nat, NEW w \in Nat,
           MayCopy(m, d, s, p + w)
    PROVE  Copied(m, d, s, p + w) = OneMore(Copied(m, d, s, p), m, d, s, p, p + w)
<1> DEFINE c == Copied(m, d, s, p)
<1>1. DOMAIN c = DOMAIN m /\ DOMAIN m \subseteq Nat
  BY DEF Copied, MayCopy
<1>2. Copied(c, d + p, s + p, w)
      = [a \in DOMAIN m |-> IF a \in (d + p)..(d + p + w - 1)
                            THEN c[s + p + (a - (d + p))] ELSE c[a]]
  <2> HIDE DEF c
  <2> QED
    BY <1>1 DEF Copied
<1>3. \A a \in DOMAIN m : /\ s + p + (a - (d + p)) = s + (a - d)
                          /\ d + p + w - 1 = d + (p + w) - 1
  BY <1>1
<1>4. Copied(c, d + p, s + p, w) = Copied(m, d, s, p + w)
  BY CopiedInParts
<1> HIDE DEF c
<1>5. Copied(m, d, s, p + w)
      = [a \in DOMAIN m |-> IF a \in (d + p)..(d + (p + w) - 1)
                            THEN c[s + (a - d)] ELSE c[a]]
  BY <1>2, <1>3, <1>4
<1> QED
  BY <1>5 DEF c, OneMore

LEMMA CopiedNone ==
    ASSUME NEW m, m = [a \in DOMAIN m |-> m[a]], DOMAIN m \subseteq Nat,
           NEW d \in Nat, NEW s \in Nat
    PROVE  Copied(m, d, s, 0) = m
<1>1. \A a \in DOMAIN m : a \notin d..(d + 0 - 1)
  OBVIOUS
<1> QED
  BY <1>1 DEF Copied

\* What the loop of Copy has done after k units, each read before it is written.
LEMMA CopyIs ==
    ASSUME NEW m, m = [a \in DOMAIN m |-> m[a]], NEW d \in Nat, NEW s \in Nat,
           NEW k \in Nat, NEW w \in Nat \ {0}, MayCopy(m, d, s, k * w)
    PROVE  Copy(m, d, s, k, w) = Copied(m, d, s, k * w)
<1> DEFINE copied == CHOOSE f : f = [j \in 0..k |->
               IF j = 0 THEN m
               ELSE [a \in DOMAIN m |->
                       IF a \in (d + (j - 1) * w)..(d + j * w - 1)
                       THEN f[j - 1][s + (a - d)] ELSE f[j - 1][a]]]
<1> DEFINE done == [j \in 0..k |-> Copied(m, d, s, j * w)]
<1>0. Copied(m, d, s, 0) = m
  BY CopiedNone DEF MayCopy
<1>1. ASSUME NEW j \in 1..k
      PROVE  Copied(m, d, s, j * w) =
                OneMore(Copied(m, d, s, (j - 1) * w), m, d, s, (j - 1) * w, j * w)
  <2>1. PICK p \in Nat : p = (j - 1) * w
    OBVIOUS
  <2>2. PICK q \in Nat : q = j * w
    OBVIOUS
  <2>3. q = p + w
    BY <2>1, <2>2
  <2>4. PICK all \in Nat : all = k * w
    OBVIOUS
  <2>5. q <= all
    <3>1. (k - j) * w >= 0
      OBVIOUS
    <3>2. (k - j) * w = k * w - j * w
      OBVIOUS
    <3> QED
      BY <2>2, <2>4, <3>1, <3>2
  <2>6. MayCopy(m, d, s, p + w)
    <3>1. d..(d + (p + w) - 1) \subseteq d..(d + all - 1)
          /\ s..(s + (p + w) - 1) \subseteq s..(s + all - 1)
      BY <2>3, <2>5
    <3>2. MayCopy(m, d, s, all)
      BY <2>4
    <3> QED
      BY <3>1, <3>2 DEF MayCopy
  <2>7. Copied(m, d, s, p + w) = OneMore(Copied(m, d, s, p), m, d, s, p, p + w)
    BY <2>6, CopiedNext
  <2> QED
    BY <2>1, <2>2, <2>3, <2>7
<1>2. done = [j \in 0..k |->
               IF j = 0 THEN m
               ELSE OneMore(done[j - 1], m, d, s, (j - 1) * w, j * w)]
  <2>1. \A j \in 1..k : j - 1 \in 0..k
    OBVIOUS
  <2>2. \A j \in 1..k : done[j - 1] = Copied(m, d, s, (j - 1) * w)
    BY <2>1
  <2>3. \A j \in 1..k : done[j] = OneMore(done[j - 1], m, d, s, (j - 1) * w, j * w)
    <3> SUFFICES ASSUME NEW j \in 1..k
                 PROVE  done[j] = OneMore(done[j - 1], m, d, s, (j - 1) * w, j * w)
      OBVIOUS
    <3>1. done[j] = Copied(m, d, s, j * w)
      OBVIOUS
    <3>2. done[j - 1] = Copied(m, d, s, (j - 1) * w)
      BY <2>2
    <3> HIDE DEF done
    <3> QED
      BY <1>1, <3>1, <3>2
  <2>4. done[0] = m
    <3>1. 0 * w = 0 /\ 0 \in 0..k
      OBVIOUS
    <3> QED
      BY <1>0, <3>1
  <2>5. done = [j \in 0..k |-> done[j]]
    OBVIOUS
  <2>6. \A j \in 0..k : j = 0 \/ j \in 1..k
    OBVIOUS
  <2> HIDE DEF done
  <2> QED
    BY <2>3, <2>4, <2>5, <2>6
<1>3. copied = [j \in 0..k |->
               IF j = 0 THEN m
               ELSE OneMore(copied[j - 1], m, d, s, (j - 1) * w, j * w)]
  <2> HIDE DEF done
  <2>1. \E f : f = [j \in 0..k |->
               IF j = 0 THEN m
               ELSE [a \in DOMAIN m |->
                       IF a \in (d + (j - 1) * w)..(d + j * w - 1)
                       THEN f[j - 1][s + (a - d)] ELSE f[j - 1][a]]]
    BY <1>2 DEF OneMore
  <2>2. copied = [j \in 0..k |->
               IF j = 0 THEN m
               ELSE [a \in DOMAIN m |->
                       IF a \in (d + (j - 1) * w)..(d + j * w - 1)
                       THEN copied[j - 1][s + (a - d)] ELSE copied[j - 1][a]]]
    BY <2>1
  <2> HIDE DEF copied
  <2> QED
    BY <2>2 DEF OneMore
<1>4. Copy(m, d, s, k, w) = copied[k]
  BY DEF Copy
<1> HIDE DEF copied
<1>5. done[k] = Copied(m, d, s, k * w)
  OBVIOUS
<1> HIDE DEF done
<1> DEFINE S == {j \in Nat : j <= k => copied[j] = done[j]}
<1>6. 0 \in S
  <2>1. copied[0] = m
    BY <1>3
  <2>2. done[0] = m
    BY <1>2
  <2> QED
    BY <2>1, <2>2
<1>7. ASSUME NEW j \in S PROVE j + 1 \in S
  <2> SUFFICES ASSUME j + 1 <= k PROVE copied[j + 1] = done[j + 1]
    OBVIOUS
  <2>1. j + 1 \in 0..k /\ j + 1 # 0 /\ (j + 1) - 1 = j /\ copied[j] = done[j]
    OBVIOUS
  <2>2. copied[j + 1] = OneMore(copied[j], m, d, s, j * w, (j + 1) * w)
    BY <1>3, <2>1
  <2>3. done[j + 1] = OneMore(done[j], m, d, s, j * w, (j + 1) * w)
    BY <1>2, <2>1
  <2> QED
    BY <2>1, <2>2, <2>3
<1>8. S = Nat
  <2>1. S \in SUBSET Nat
    OBVIOUS
  <2> HIDE DEF S
  <2> QED
    BY <1>6, <1>7, <2>1, AllNaturals
<1>9. \A j \in S : j <= k => copied[j] = done[j]
  OBVIOUS
<1> HIDE DEF S
<1> QED
  BY <1>4, <1>5, <1>8, <1>9

\* What may be copied may be copied in parts.
LEMMA MayCopyParts ==
    ASSUME NEW m, NEW d \in Nat, NEW s \in Nat, NEW k \in Nat, NEW p \in Nat, NEW l \in Nat,
           p + l <= k, MayCopy(m, d, s, k)
    PROVE  /\ MayCopy(m, d, s, p)
           /\ MayCopy(m, d, s, p + l)
           /\ MayCopy(Copied(m, d, s, p), d + p, s + p, l)
<1>1. /\ d..(d + p - 1) \subseteq d..(d + k - 1)
      /\ s..(s + p - 1) \subseteq s..(s + k - 1)
  OBVIOUS
<1>2. /\ d..(d + (p + l) - 1) \subseteq d..(d + k - 1)
      /\ s..(s + (p + l) - 1) \subseteq s..(s + k - 1)
  OBVIOUS
<1>3. /\ (d + p)..((d + p) + l - 1) \subseteq d..(d + k - 1)
      /\ (s + p)..((s + p) + l - 1) \subseteq s..(s + k - 1)
  OBVIOUS
<1>4. DOMAIN Copied(m, d, s, p) = DOMAIN m
  BY DEF Copied
<1>5. MayCopy(m, d, s, p)
  BY <1>1 DEF MayCopy
<1>6. MayCopy(m, d, s, p + l)
  BY <1>2 DEF MayCopy
<1>7. MayCopy(Copied(m, d, s, p), d + p, s + p, l)
  BY <1>3, <1>4 DEF MayCopy
<1> QED
  BY <1>5, <1>6, <1>7

\* The bytes before the first long, the longs, and the bytes after them are all.
LEMMA CopyInLongsIs ==
    ASSUME NEW m, m = [a \in DOMAIN m |-> m[a]], NEW d \in Nat, NEW s \in Nat, NEW k \in Nat,
           MayCopy(m, d, s, k)
    PROVE  CopyInLongs(m, d, s, k) = Copied(m, d, s, k)
<1> DEFINE head == Smaller(k, (Long - (d % Long)) % Long)
<1> DEFINE longs == (k - head) \div Long
<1> DEFINE done == head + longs * Long
<1>0. Long \in Nat \ {0, 1}
  BY TextAssumption
<1>1. head \in Nat /\ head <= k
  <2>1. (Long - (d % Long)) % Long \in Nat
    <3>1. Long - (d % Long) \in Int
      BY <1>0
    <3> QED
      BY <1>0, <3>1
  <2> QED
    BY <2>1 DEF Smaller
<1>2. longs \in Nat /\ longs * Long \in Nat /\ longs * Long <= k - head
  <2> HIDE DEF head
  <2>1. PICK r \in Nat : r = k - head
    BY <1>1
  <2>2. longs = r \div Long
    BY <2>1
  <2>3. longs \in Nat /\ longs * Long <= r
    BY <1>0, <2>2
  <2> HIDE DEF longs
  <2>4. longs * Long \in Nat
    BY <1>0, <2>3
  <2> QED
    BY <2>1, <2>3, <2>4
<1>3. CopyInLongs(m, d, s, k)
      = Copy(Copy(Copy(m, d, s, head, 1), d + head, s + head, longs, Long),
             d + done, s + done, k - done, 1)
  BY DEF CopyInLongs
<1> HIDE DEF head, longs
<1>4. PICK q \in Nat : q = longs * Long
  BY <1>2
<1>5. done = head + q /\ done \in Nat /\ k - done \in Nat /\ head + q <= k
      /\ head + q \in Nat /\ done + (k - done) = k
  BY <1>1, <1>2, <1>4
<1> HIDE DEF done
<1> DEFINE first == Copied(m, d, s, head)
<1>6. Copy(m, d, s, head, 1) = first
  <2>1. head * 1 = head /\ 1 \in Nat \ {0}
    BY <1>1
  <2>2. MayCopy(m, d, s, head)
    BY <1>1, <1>5, MayCopyParts
  <2> QED
    BY <1>1, <2>1, <2>2, CopyIs
<1> DEFINE second == Copied(m, d, s, done)
<1>7. Copy(first, d + head, s + head, longs, Long) = second
  <2>1. MayCopy(first, d + head, s + head, q) /\ MayCopy(m, d, s, head + q)
    BY <1>1, <1>5, MayCopyParts
  <2>2. first = [a \in DOMAIN first |-> first[a]]
    BY DEF Copied
  <2>3. d + head \in Nat /\ s + head \in Nat /\ Long \in Nat \ {0}
    BY <1>0, <1>1
  <2>4. Copied(first, d + head, s + head, q) = Copied(m, d, s, head + q)
    BY <1>1, <2>1, CopiedInParts
  <2> HIDE DEF first
  <2>5. MayCopy(first, d + head, s + head, longs * Long)
    BY <1>4, <2>1
  <2>6. Copy(first, d + head, s + head, longs, Long)
        = Copied(first, d + head, s + head, longs * Long)
    BY <1>2, <2>2, <2>3, <2>5, CopyIs
  <2> QED
    BY <1>4, <1>5, <2>4, <2>6
<1>8. Copy(second, d + done, s + done, k - done, 1) = Copied(m, d, s, k)
  <2> DEFINE l == k - done
  <2>0. l \in Nat /\ done + l <= k /\ done + l = k
    BY <1>5
  <2> HIDE DEF l
  <2>1. MayCopy(second, d + done, s + done, l) /\ MayCopy(m, d, s, done + l)
    BY <1>5, <2>0, MayCopyParts
  <2>2. second = [a \in DOMAIN second |-> second[a]]
    BY DEF Copied
  <2>3. d + done \in Nat /\ s + done \in Nat /\ 1 \in Nat \ {0} /\ l * 1 = l
    BY <1>5, <2>0
  <2>4. Copied(second, d + done, s + done, l) = Copied(m, d, s, done + l)
    BY <1>5, <2>0, <2>1, CopiedInParts
  <2> HIDE DEF second
  <2>5. Copy(second, d + done, s + done, l, 1) = Copied(second, d + done, s + done, l)
    <3>1. MayCopy(second, d + done, s + done, l * 1)
      BY <2>1, <2>3
    <3>2. Copy(second, d + done, s + done, l, 1) = Copied(second, d + done, s + done, l * 1)
      BY <2>0, <2>2, <2>3, <3>1, CopyIs
    <3> QED
      BY <2>3, <3>2
  <2> QED
    BY <2>0, <2>4, <2>5 DEF l
<1> HIDE DEF first, second
<1> QED
  BY <1>3, <1>6, <1>7, <1>8

LEMMA RefusesOverlap ==
    ASSUME NEW d \in Nat, NEW s \in Nat, NEW k \in Nat, k # 0, d # s
    PROVE  Refuses(d, s, k) <=> (d..(d + k - 1)) \cap (s..(s + k - 1)) # {}
<1>1. ASSUME Refuses(d, s, k) PROVE (d..(d + k - 1)) \cap (s..(s + k - 1)) # {}
  <2>1. d < s /\ d + k > s => s \in d..(d + k - 1) /\ s \in s..(s + k - 1)
    OBVIOUS
  <2>2. s < d /\ s + k > d => d \in d..(d + k - 1) /\ d \in s..(s + k - 1)
    OBVIOUS
  <2> QED
    BY <1>1, <2>1, <2>2 DEF Refuses
<1>2. ASSUME NEW x \in d..(d + k - 1), x \in s..(s + k - 1) PROVE Refuses(d, s, k)
  BY <1>2 DEF Refuses
<1> QED
  BY <1>1, <1>2

LEMMA MemCpyAnswer ==
    ASSUME Waiting, MemCpy
    PROVE  /\ out'.ret \in {dst, NULL}
           /\ out'.ret = NULL <=> dst # src /\ (dst..(dst + n - 1)) \cap (src..(src + n - 1)) # {}
           /\ \A a \in DOMAIN was \ (dst..(dst + (IF out'.ret = NULL THEN 0 ELSE n) - 1)) :
                 mem'[a] = was[a]
           /\ out'.ret = dst => \A k \in 0..(n - 1) : mem'[dst + k] = was[src + k]
           /\ mem' \in [DOMAIN was -> 0..255]
<1>0. call \in Calls /\ call.fn = "memcpy" /\ mem = was
  BY DEF Waiting, MemCpy, Calling
<1>1. /\ dst \in Nat /\ src \in Nat /\ n \in Nat /\ DOMAIN was \subseteq Nat
      /\ was \in [DOMAIN was -> 0..255] /\ dst # NULL
      /\ dst..(dst + n - 1) \subseteq DOMAIN was /\ src..(src + n - 1) \subseteq DOMAIN was
  <2>1. dst..(dst + n - 1) \subseteq DOMAIN was /\ src..(src + n - 1) \subseteq DOMAIN was
    BY <1>0, TextAssumption DEF was, dst, src, n
  <2> QED
    BY <1>0, <2>1, CallTypes DEF NULL
<1>2. CASE n = 0 \/ dst = src
  <2>1. mem' = was /\ out'.ret = dst
    BY <1>0, <1>2 DEF MemCpy, Returns
  <2>2. n = 0 => (dst..(dst + n - 1)) = {}
    BY <1>1
  <2>3. dst # src => \A k \in 0..(n - 1) : FALSE
    BY <1>1, <1>2
  <2> QED
    BY <1>1, <1>2, <2>1, <2>2, <2>3
<1>3. CASE ~(n = 0 \/ dst = src) /\ Refuses(dst, src, n)
  <2>1. mem' = was /\ out'.ret = NULL
    BY <1>0, <1>3 DEF MemCpy, Returns
  <2>2. (dst..(dst + n - 1)) \cap (src..(src + n - 1)) # {}
    BY <1>1, <1>3, RefusesOverlap
  <2> QED
    BY <1>1, <1>3, <2>1, <2>2
<1>4. CASE ~(n = 0 \/ dst = src) /\ ~Refuses(dst, src, n)
  <2>1. mem' = CopyInLongs(was, dst, src, n) /\ out'.ret = dst
    BY <1>0, <1>4 DEF MemCpy, Returns
  <2>2. (dst..(dst + n - 1)) \cap (src..(src + n - 1)) = {}
    BY <1>1, <1>4, RefusesOverlap
  <2>3. MayCopy(was, dst, src, n)
    BY <1>1, <2>2 DEF MayCopy
  <2>4. was = [a \in DOMAIN was |-> was[a]]
    BY <1>1
  <2>5. mem' = Copied(was, dst, src, n)
    BY <1>1, <2>1, <2>3, <2>4, CopyInLongsIs
  <2>6. ASSUME NEW a \in DOMAIN was, a \notin dst..(dst + n - 1) PROVE mem'[a] = was[a]
    BY <2>5, <2>6 DEF Copied
  <2>7. ASSUME NEW k \in 0..(n - 1) PROVE mem'[dst + k] = was[src + k]
    <3>1. dst + k \in dst..(dst + n - 1) /\ (dst + k) - dst = k
      BY <1>1
    <3> QED
      BY <1>1, <2>5, <3>1 DEF Copied
  <2>8. mem' \in [DOMAIN was -> 0..255]
    <3>1. ASSUME NEW a \in dst..(dst + n - 1) PROVE was[src + (a - dst)] \in 0..255
      <4>1. src + (a - dst) \in src..(src + n - 1)
        BY <1>1
      <4> QED
        BY <1>1, <4>1
    <3> QED
      BY <1>1, <2>5, <3>1 DEF Copied
  <2> QED
    BY <1>1, <2>1, <2>2, <2>6, <2>7, <2>8
<1> QED
  BY <1>2, <1>3, <1>4

LEMMA MemSetAnswer ==
    ASSUME Waiting, MemSet
    PROVE  /\ \A a \in DOMAIN was \ (dst..(dst + n - 1)) : mem'[a] = was[a]
           /\ \A k \in 0..(n - 1) : mem'[dst + k] = call.value % 256
           /\ mem' \in [DOMAIN was -> 0..255]
<1> DEFINE v == call.value % 256
<1>0. call \in Calls /\ call.fn = "memset" /\ mem = was
  BY DEF Waiting, MemSet, Calling
<1>1. /\ dst \in Nat /\ n \in Nat /\ was \in [DOMAIN was -> 0..255] /\ v \in 0..255
      /\ dst..(dst + n - 1) \subseteq DOMAIN was
  <2>1. dst..(dst + n - 1) \subseteq DOMAIN was
    BY <1>0, TextAssumption DEF was, dst, n
  <2> QED
    BY <1>0, <2>1, CallTypes
<1>2. mem' = [a \in DOMAIN was |-> IF a \in dst..(dst + n - 1) THEN v ELSE was[a]]
  BY <1>0 DEF MemSet
<1> HIDE DEF v
<1>3. \A k \in 0..(n - 1) : dst + k \in dst..(dst + n - 1)
  BY <1>1
<1>4. mem' \in [DOMAIN was -> 0..255]
  BY <1>1, <1>2
<1>5. \A k \in 0..(n - 1) : mem'[dst + k] = v
  BY <1>1, <1>2, <1>3
<1> QED
  BY <1>2, <1>4, <1>5 DEF v

-----------------------------------------------------------------------------
(* strlcpy, strcopy and AsciiToUnicode. *)

CopyFunctions == {"strlcpy", "strcopy", "AsciiToUnicode"}

\* The string that is copied, and the room for it.
Room(length) ==
    /\ length \in Nat /\ length = Length(was, src)
    /\ src..(src + length) \subseteq DOMAIN was
    /\ was[src + length] = 0
    /\ \A k \in 0..(length - 1) : was[src + k] # 0
    /\ Written(call, length) \subseteq DOMAIN was
    /\ Written(call, length) \cap (src..(src + length)) = {}

LEMMA HasRoom ==
    ASSUME call \in Calls, call.fn \in CopyFunctions
    PROVE  \E length : Room(length)
<1>1. PICK z \in DOMAIN was : z \in Nat /\ StringAt(was, src, z)
  BY SourceEnds DEF CopyFunctions, StringFunctions
<1>2. src \in Nat
  BY CallTypes
<1> DEFINE length == z - src
<1>3. length \in Nat /\ src + length = z
  BY <1>1, <1>2 DEF StringAt
<1>4. length = Length(was, src)
  BY <1>1, <1>2, LengthIs
<1>5. Written(call, z - src) \subseteq DOMAIN was /\ Written(call, z - src) \cap (src..z) = {}
  BY <1>1, TextAssumption DEF CopyFunctions, was, src
<1>6. \A k \in 0..(length - 1) : src + k \in src..(z - 1)
  BY <1>1, <1>2
<1>7. \A k \in 0..(length - 1) : was[src + k] # 0
  BY <1>1, <1>6 DEF StringAt
<1>8. src..z \subseteq DOMAIN was /\ was[z] = 0
  BY <1>1 DEF StringAt
<1>9. Room(z - src)
  <2> HIDE DEF length
  <2>1. length = z - src
    BY DEF length
  <2> QED
    BY <1>3, <1>4, <1>5, <1>7, <1>8, <2>1 DEF Room
<1> QED
  BY <1>9

\* The first k characters, each as w has it, and a terminator.
Prefix(w, k) ==
    [a \in DOMAIN was |-> IF a \in dst..(dst + k - 1) THEN w[was[src + (a - dst)]]
                          ELSE IF a = dst + k THEN 0 ELSE was[a]]

\* The memory that such a call may leave.
Fits(m, length) ==
    LET kept == Kept(call, length) IN
    /\ \A a \in DOMAIN was \ (dst..(dst + (kept + 1) - 1)) : m[a] = was[a]
    /\ m[dst + kept] = 0
    /\ \A k \in 0..(kept - 1) : m[dst + k] % 256 = was[src + k] /\ m[dst + k] # 0

LEMMA PrefixFits ==
    ASSUME call \in Calls, call.fn \in CopyFunctions, ~(call.fn = "strlcpy" /\ n = 0),
           NEW length, Room(length), NEW U \in SUBSET Nat, NEW w \in [0..255 -> U],
           0..255 \subseteq U, \A b \in 0..255 : w[b] % 256 = b /\ (w[b] = 0 <=> b = 0)
    PROVE  /\ Fits(Prefix(w, Kept(call, length)), length)
           /\ Prefix(w, Kept(call, length)) \in [DOMAIN was -> U]
<1> DEFINE kept == Kept(call, length)
<1> DEFINE new == Prefix(w, kept)
<1>1. /\ src \in Nat /\ dst \in Nat /\ n \in Nat /\ length \in Nat
      /\ DOMAIN was \subseteq Nat /\ was \in [DOMAIN was -> 0..255]
  BY CallTypes DEF Room
<1>2. kept \in Nat /\ kept <= length
  BY <1>1 DEF Kept, Smaller, CopyFunctions, n
<1>3. dst..(dst + kept) \subseteq DOMAIN was
  BY <1>1 DEF Room, Written, dst, n
<1>4. \A k \in 0..(kept - 1) : was[src + k] \in 0..255 /\ was[src + k] # 0
  <2>1. \A k \in 0..(kept - 1) : src + k \in src..(src + length) /\ k \in 0..(length - 1)
    BY <1>1, <1>2
  <2> QED
    BY <1>1, <2>1 DEF Room
<1> HIDE DEF kept
<1>5. \A a \in DOMAIN was : new[a] = IF a \in dst..(dst + kept - 1) THEN w[was[src + (a - dst)]]
                                     ELSE IF a = dst + kept THEN 0 ELSE was[a]
  BY DEF Prefix
<1>6. new = [a \in DOMAIN was |-> new[a]]
  BY DEF Prefix
<1> HIDE DEF new
<1>7. ASSUME NEW a \in DOMAIN was, a \notin dst..(dst + (kept + 1) - 1)
      PROVE  new[a] = was[a]
  <2>1. a \notin dst..(dst + kept - 1) /\ a # dst + kept
    BY <1>1, <1>2, <1>7
  <2> QED
    BY <1>5, <2>1
<1>8. new[dst + kept] = 0
  <2>1. dst + kept \in dst..(dst + kept) /\ dst + kept \notin dst..(dst + kept - 1)
    BY <1>1, <1>2
  <2> QED
    BY <1>3, <1>5, <2>1
<1>9. ASSUME NEW k \in 0..(kept - 1)
      PROVE  new[dst + k] % 256 = was[src + k] /\ new[dst + k] # 0
  <2>1. /\ dst + k \in dst..(dst + kept) /\ dst + k \in dst..(dst + kept - 1)
        /\ (dst + k) - dst = k
    BY <1>1, <1>2
  <2>2. new[dst + k] = w[was[src + k]]
    BY <1>3, <1>5, <2>1
  <2> QED
    BY <1>4, <2>2
<1>10. ASSUME NEW a \in DOMAIN was PROVE new[a] \in U
  <2>1. CASE a \in dst..(dst + kept - 1)
    <3>1. a - dst \in 0..(kept - 1)
      BY <1>1, <1>2, <2>1
    <3>2. w[was[src + (a - dst)]] \in U
      BY <1>4, <3>1
    <3> QED
      BY <1>5, <2>1, <3>2
  <2>2. CASE a \notin dst..(dst + kept - 1)
    <3>1. new[a] = 0 \/ new[a] = was[a]
      BY <1>5, <2>2
    <3> QED
      BY <1>1, <3>1
  <2> QED
    BY <2>1, <2>2
<1>11. Fits(new, length)
  BY <1>7, <1>8, <1>9 DEF Fits, kept
<1>12. new \in [DOMAIN was -> U]
  BY <1>6, <1>10
<1> QED
  BY <1>11, <1>12 DEF new, kept

LEMMA CopyOfString ==
    ASSUME call \in Calls, call.fn \in CopyFunctions, ~(call.fn = "strlcpy" /\ n = 0),
           NEW length, Room(length), NEW i \in Nat, i <= Kept(call, length) + 1
    PROVE  Copy(was, dst, src, i, 1) = Copied(was, dst, src, i)
<1> DEFINE kept == Kept(call, length)
<1>1. /\ src \in Nat /\ dst \in Nat /\ n \in Nat /\ length \in Nat
      /\ DOMAIN was \subseteq Nat /\ was = [a \in DOMAIN was |-> was[a]]
  BY CallTypes DEF Room
<1>2. kept \in Nat /\ kept <= length
  BY <1>1 DEF Kept, Smaller, CopyFunctions, n
<1>3. (dst..(dst + kept)) \cap (src..(src + length)) = {}
      /\ src..(src + length) \subseteq DOMAIN was
  BY <1>1 DEF Room, Written, dst, n
<1> HIDE DEF kept
<1>4. i <= kept + 1
  BY DEF kept
<1>5. /\ dst..(dst + i * 1 - 1) \subseteq dst..(dst + kept)
      /\ src..(src + i * 1 - 1) \subseteq src..(src + length)
      /\ i * 1 = i /\ 1 \in Nat \ {0}
  BY <1>1, <1>2, <1>4
<1>6. MayCopy(was, dst, src, i * 1)
  BY <1>1, <1>3, <1>5 DEF MayCopy
<1> QED
  BY <1>1, <1>5, <1>6, CopyIs

Same255 == [b \in 0..255 |-> b]

LEMMA StrLCpyAnswer ==
    ASSUME Waiting, StrLCpy
    PROVE  /\ n = 0 => mem' = was
           /\ n # 0 => Fits(mem', Length(was, src))
           /\ mem' \in [DOMAIN was -> 0..255]
           /\ out'.ret = Length(was, src) /\ out'.ret \in Nat
<1>0. call \in Calls /\ call.fn = "strlcpy" /\ mem = was
  BY DEF Waiting, StrLCpy, Calling
<1>1. PICK length : Room(length)
  BY <1>0, HasRoom DEF CopyFunctions
<1>2. /\ src \in Nat /\ dst \in Nat /\ n \in Nat /\ length \in Nat
      /\ length = Length(was, src)
      /\ DOMAIN was \subseteq Nat /\ was \in [DOMAIN was -> 0..255]
  BY <1>0, <1>1, CallTypes DEF Room
<1>3. out'.ret = length
  BY <1>0, <1>2 DEF StrLCpy, Returns
<1>4. CASE n = 0
  BY <1>0, <1>2, <1>3, <1>4 DEF StrLCpy
<1>5. CASE n # 0
  <2>1. Kept(call, length) = Smaller(n - 1, length)
    BY <1>0, <1>5 DEF Kept, n
  <2> DEFINE i == Smaller(n - 1, length + 1)
  <2>2. i \in Nat /\ i <= Smaller(n - 1, length) + 1
    BY <1>2, <1>5 DEF Smaller
  <2>3. mem' = IF length >= n - 1
               THEN [Copy(was, dst, src, i, 1) EXCEPT ![dst + n - 1] = 0]
               ELSE Copy(was, dst, src, i, 1)
    BY <1>0, <1>2, <1>5 DEF StrLCpy
  <2>4. Copy(was, dst, src, i, 1) = Copied(was, dst, src, i)
    <3> HIDE DEF i
    <3> QED
      BY <1>0, <1>1, <1>5, <2>1, <2>2, CopyOfString DEF CopyFunctions
  <2>5. mem' = Prefix(Same255, Smaller(n - 1, length))
    <3>1. \A a \in DOMAIN was : a \in Nat
      BY <1>2
    <3>2. CASE length >= n - 1
      <4>1. i = n - 1 /\ Smaller(n - 1, length) = n - 1 /\ dst + n - 1 = dst + (n - 1)
        BY <1>2, <1>5, <3>2 DEF Smaller
      <4>2. mem' = [Copied(was, dst, src, n - 1) EXCEPT ![dst + (n - 1)] = 0]
        BY <2>3, <2>4, <3>2, <4>1
      <4>3. ASSUME NEW a \in DOMAIN was, a \in dst..(dst + (n - 1) - 1)
            PROVE  a # dst + (n - 1) /\ was[src + (a - dst)] \in 0..255
        <5>1. a # dst + (n - 1) /\ src + (a - dst) \in src..(src + length)
          BY <1>2, <3>1, <3>2, <4>3
        <5> QED
          BY <1>1, <1>2, <5>1 DEF Room
      <4> QED
        BY <4>1, <4>2, <4>3 DEF Copied, Prefix, Same255
    <3>3. CASE ~(length >= n - 1)
      <4>1. i = length + 1 /\ Smaller(n - 1, length) = length
        BY <1>2, <1>5, <3>3 DEF Smaller
      <4>2. mem' = Copied(was, dst, src, length + 1)
        BY <2>3, <2>4, <3>3, <4>1
      <4>3. ASSUME NEW a \in DOMAIN was
            PROVE  /\ a \in dst..(dst + (length + 1) - 1)
                      <=> a \in dst..(dst + length - 1) \/ a = dst + length
                   /\ a = dst + length => was[src + (a - dst)] = 0
                                          /\ a \notin dst..(dst + length - 1)
                   /\ a \in dst..(dst + length - 1) => was[src + (a - dst)] \in 0..255
        <5>1. a = dst + length => src + (a - dst) = src + length
          BY <1>2
        <5>2. a \in dst..(dst + length - 1) => src + (a - dst) \in src..(src + length)
          BY <1>2, <3>1
        <5>3. /\ a \in dst..(dst + (length + 1) - 1)
                 <=> a \in dst..(dst + length - 1) \/ a = dst + length
              /\ a = dst + length => a \notin dst..(dst + length - 1)
          BY <1>2, <3>1
        <5> QED
          BY <1>1, <1>2, <5>1, <5>2, <5>3 DEF Room
      <4> QED
        BY <4>1, <4>2, <4>3 DEF Copied, Prefix, Same255
    <3> QED
      BY <3>2, <3>3
  <2>6. /\ Same255 \in [0..255 -> 0..255]
        /\ \A b \in 0..255 : Same255[b] % 256 = b /\ (Same255[b] = 0 <=> b = 0)
    BY DEF Same255
  <2>7. Fits(mem', length) /\ mem' \in [DOMAIN was -> 0..255]
    <3>1. Fits(Prefix(Same255, Kept(call, length)), length)
          /\ Prefix(Same255, Kept(call, length)) \in [DOMAIN was -> 0..255]
      <4>1. call.fn \in CopyFunctions /\ ~(call.fn = "strlcpy" /\ n = 0)
        BY <1>0, <1>5 DEF CopyFunctions
      <4>2. 0..255 \in SUBSET Nat /\ 0..255 \subseteq 0..255
        OBVIOUS
      <4> QED
        BY <1>0, <1>1, <2>6, <4>1, <4>2, PrefixFits
    <3> QED
      BY <2>1, <2>5, <3>1
  <2> QED
    BY <1>2, <1>3, <1>5, <2>7
<1> QED
  BY <1>4, <1>5

LEMMA StrCopyAnswer ==
    ASSUME Waiting, StrCopy
    PROVE  Fits(mem', Length(was, src)) /\ mem' \in [DOMAIN was -> 0..255]
<1>0. call \in Calls /\ call.fn = "strcopy" /\ mem = was
  BY DEF Waiting, StrCopy, Calling
<1>1. PICK length : Room(length)
  BY <1>0, HasRoom DEF CopyFunctions
<1>2. /\ src \in Nat /\ dst \in Nat /\ length \in Nat /\ length = Length(was, src)
      /\ DOMAIN was \subseteq Nat /\ was \in [DOMAIN was -> 0..255]
  BY <1>0, <1>1, CallTypes DEF Room
<1>3. Kept(call, length) = length
  BY <1>0 DEF Kept
<1>4. Copy(was, dst, src, length, 1) = Copied(was, dst, src, length)
  BY <1>0, <1>1, <1>2, <1>3, CopyOfString DEF CopyFunctions
<1>5. mem' = [Copied(was, dst, src, length) EXCEPT ![dst + length] = 0]
  BY <1>0, <1>2, <1>4 DEF StrCopy
<1>6. ASSUME NEW a \in DOMAIN was, a \in dst..(dst + length - 1)
      PROVE  a # dst + length /\ was[src + (a - dst)] \in 0..255
  <2>1. a # dst + length /\ src + (a - dst) \in src..(src + length)
    BY <1>2, <1>6
  <2> QED
    BY <1>1, <1>2, <2>1 DEF Room
<1>7. mem' = Prefix(Same255, length)
  BY <1>5, <1>6 DEF Copied, Prefix, Same255
<1>8. /\ Same255 \in [0..255 -> 0..255]
      /\ \A b \in 0..255 : Same255[b] % 256 = b /\ (Same255[b] = 0 <=> b = 0)
  BY DEF Same255
<1>9. Fits(Prefix(Same255, Kept(call, length)), length)
      /\ Prefix(Same255, Kept(call, length)) \in [DOMAIN was -> 0..255]
  <2>1. call.fn \in CopyFunctions /\ ~(call.fn = "strlcpy" /\ n = 0)
    BY <1>0 DEF CopyFunctions
  <2>2. 0..255 \in SUBSET Nat /\ 0..255 \subseteq 0..255
    OBVIOUS
  <2> QED
    BY <1>0, <1>1, <1>8, <2>1, <2>2, PrefixFits
<1> QED
  BY <1>2, <1>3, <1>7, <1>9

LEMMA WidenedIs ==
    /\ WideChars \in SUBSET Nat /\ 0..255 \subseteq WideChars
    /\ \A b \in 0..255 : /\ Widened(b) \in WideChars
                         /\ Widened(b) % 256 = b /\ (Widened(b) = 0 <=> b = 0)
<1>1. PICK k \in Nat, top \in Nat : k = 65280 /\ top = 65535
  BY SMT
<1>2. top = k + 255
  BY <1>1, SMT
<1>3. k = 256 * 255
  BY <1>1, SMT
<1>4. WideChars = 0..top
  BY <1>1, SMT DEF WideChars
<1>5. \A b \in Nat : Widened(b) = IF b < 128 THEN b ELSE b + k
  BY <1>1, SMT DEF Widened
<1>6. \A b \in 0..255 : b + k = 256 * 255 + b /\ b + k \in 0..top /\ b \in 0..top
  <2>1. \A b \in 0..255 : b + k \in 0..top /\ b \in 0..top
    BY <1>2
  <2>2. \A b \in 0..255 : b + k = k + b
    OBVIOUS
  <2> QED
    BY <1>3, <2>1, <2>2, Zenon
<1>7. \A b \in 0..255 : (256 * 255 + b) % 256 = b
  <2>1. 256 \in Nat \ {0} /\ 255 \in Int /\ \A b \in 0..255 : b \in 0..(256 - 1)
    OBVIOUS
  <2> QED
    BY <2>1, QuotientIs
<1>8. ASSUME NEW b \in 0..255
      PROVE  Widened(b) \in WideChars /\ Widened(b) % 256 = b /\ (Widened(b) = 0 <=> b = 0)
  <2>1. CASE b < 128
    <3>1. Widened(b) = b
      BY <1>5, <2>1
    <3> QED
      BY <1>4, <1>6, <3>1
  <2>2. CASE ~(b < 128)
    <3>1. PICK x \in 0..top : x = b + k
      BY <1>6
    <3>2. Widened(b) = x
      BY <1>5, <2>2, <3>1
    <3>3. x % 256 = b
      BY <1>6, <1>7, <3>1
    <3>4. x # 0 /\ b # 0
      BY <2>2, <3>1
    <3> QED
      BY <1>4, <3>2, <3>3, <3>4
  <2> QED
    BY <2>1, <2>2
<1>9. WideChars \in SUBSET Nat /\ 0..255 \subseteq WideChars
  BY <1>4, <1>6
<1> QED
  BY <1>8, <1>9

LEMMA AsciiToUnicodeAnswer ==
    ASSUME Waiting, AsciiToUnicode
    PROVE  Fits(mem', Length(was, src)) /\ mem' \in [DOMAIN was -> WideChars]
<1> DEFINE w == [b \in 0..255 |-> Widened(b)]
<1>0. call \in Calls /\ call.fn = "AsciiToUnicode" /\ mem = was
  BY DEF Waiting, AsciiToUnicode, Calling
<1>1. PICK length : Room(length)
  BY <1>0, HasRoom DEF CopyFunctions
<1>2. /\ src \in Nat /\ dst \in Nat /\ n \in Nat /\ length \in Nat
      /\ length = Length(was, src)
      /\ DOMAIN was \subseteq Nat /\ was \in [DOMAIN was -> 0..255]
  BY <1>0, <1>1, CallTypes DEF Room
<1> DEFINE kept == Kept(call, length)
<1>3. kept \in Nat /\ kept <= length
      /\ kept = IF n = 0 THEN length ELSE Smaller(n - 1, length)
  BY <1>0, <1>2 DEF Kept, Smaller, n
<1>4. mem' = [a \in DOMAIN was |->
                IF a \in dst..(dst + kept - 1) THEN Widened(was[src + (a - dst)])
                ELSE IF a = dst + kept THEN 0 ELSE was[a]]
  <2> HIDE DEF kept
  <2> QED
    BY <1>0, <1>2, <1>3 DEF AsciiToUnicode
<1> HIDE DEF kept
<1>5. ASSUME NEW a \in DOMAIN was, a \in dst..(dst + kept - 1)
      PROVE  was[src + (a - dst)] \in 0..255
  <2>1. src + (a - dst) \in src..(src + length)
    BY <1>2, <1>3, <1>5
  <2> QED
    BY <1>1, <1>2, <2>1 DEF Room
<1>6. mem' = Prefix(w, kept)
  <2>1. \A b \in 0..255 : w[b] = Widened(b)
    OBVIOUS
  <2> HIDE DEF w
  <2> QED
    BY <1>4, <1>5, <2>1 DEF Prefix
<1>7. /\ w \in [0..255 -> WideChars]
      /\ \A b \in 0..255 : w[b] % 256 = b /\ (w[b] = 0 <=> b = 0)
  <2>1. \A b \in 0..255 : w[b] = Widened(b)
    OBVIOUS
  <2>2. \A b \in 0..255 : /\ Widened(b) \in WideChars
                          /\ Widened(b) % 256 = b /\ (Widened(b) = 0 <=> b = 0)
    BY WidenedIs
  <2>3. w = [b \in 0..255 |-> w[b]]
    OBVIOUS
  <2> HIDE DEF w
  <2> QED
    BY <2>1, <2>2, <2>3
<1> HIDE DEF w
<1>8. Fits(Prefix(w, kept), length) /\ Prefix(w, kept) \in [DOMAIN was -> WideChars]
  <2>1. call.fn \in CopyFunctions /\ ~(call.fn = "strlcpy" /\ n = 0)
    BY <1>0 DEF CopyFunctions
  <2>2. WideChars \in SUBSET Nat /\ 0..255 \subseteq WideChars
    BY WidenedIs
  <2>3. Fits(Prefix(w, Kept(call, length)), length)
        /\ Prefix(w, Kept(call, length)) \in [DOMAIN was -> WideChars]
    BY <1>0, <1>1, <1>7, <2>1, <2>2, PrefixFits
  <2> QED
    BY <2>3 DEF kept
<1>9. Fits(mem', length) /\ mem' \in [DOMAIN was -> WideChars]
  BY <1>6, <1>8
<1> QED
  BY <1>2, <1>9

-----------------------------------------------------------------------------
(* strfmt and the kernel's decimal output. *)

LEMMA StrFmtAnswer ==
    ASSUME Waiting, StrFmt
    PROVE  /\ out'.ret \in {0, 1}
           /\ \A k \in DOMAIN out'.text : out'.text[k] \in Nat
           /\ out'.ret = 1 => Len(out'.text) = Smaller(n, Guess - 1)
<1> DEFINE first == UnicodeVSPrint(n, Guess)
<1> DEFINE made == IF first >= Guess - 1 THEN UnicodeVSPrint(n, first + 1) ELSE first
<1>1. n \in Nat /\ Guess \in Nat \ {0, 1}
  BY CallTypes, TextAssumption DEF Waiting
<1>2. made = Smaller(n, Guess - 1) /\ made \in Nat
  BY <1>1 DEF UnicodeVSPrint, Smaller
<1>3. \/ out' = [ret |-> 0, text |-> <<>>]
      \/ out' = [ret |-> 1, text |-> [k \in 1..made |-> k]]
  BY DEF StrFmt, Returns
<1> HIDE DEF made
<1>4. CASE out' = [ret |-> 0, text |-> <<>>]
  BY <1>4
<1>5. CASE out' = [ret |-> 1, text |-> [k \in 1..made |-> k]]
  <2> DEFINE t == [k \in 1..made |-> k]
  <2>1. t \in Seq(Nat) /\ Len(t) = made /\ \A k \in DOMAIN t : t[k] \in Nat
    BY <1>2
  <2>2. out'.ret = 1 /\ out'.text = t
    BY <1>5
  <2> HIDE DEF t
  <2> QED
    BY <1>2, <2>1, <2>2
<1> QED
  BY <1>3, <1>4, <1>5

\* The digits t are those of x: v says what the first of them are worth.
IsValue(t, x) ==
    \E v \in [0..Len(t) -> Nat] :
        /\ v[0] = 0 /\ v[Len(t)] = x
        /\ \A k \in 1..Len(t) : v[k] = v[k - 1] * 10 + t[k]

LEMMA NoDigits == IsValue(<<>>, 0)
<1> DEFINE v == [k \in 0..0 |-> 0]
<1>1. v \in [0..Len(<<>>) -> Nat] /\ v[0] = 0 /\ v[Len(<<>>)] = 0
      /\ \A k \in 1..Len(<<>>) : FALSE
  OBVIOUS
<1> HIDE DEF v
<1> QED
  BY <1>1 DEF IsValue

LEMMA OneMoreDigit ==
    ASSUME NEW t \in Seq(Nat), NEW q \in Nat, NEW r \in Nat, IsValue(t, q)
    PROVE  IsValue(Append(t, r), q * 10 + r)
<1> DEFINE l == Len(t)
<1> DEFINE u == Append(t, r)
<1>1. l \in Nat /\ Len(u) = l + 1 /\ u[l + 1] = r /\ \A k \in 1..l : u[k] = t[k]
  OBVIOUS
<1>2. PICK v \in [0..l -> Nat] : /\ v[0] = 0 /\ v[l] = q
                                 /\ \A k \in 1..l : v[k] = v[k - 1] * 10 + t[k]
  BY DEF IsValue
<1> HIDE DEF l, u
<1>3. PICK x \in Nat : x = q * 10 + r
  OBVIOUS
<1> DEFINE w == [k \in 0..(l + 1) |-> IF k = l + 1 THEN x ELSE v[k]]
<1>4. \A k \in 0..(l + 1) : k = l + 1 \/ k \in 0..l
  BY <1>1
<1>5. w \in [0..(l + 1) -> Nat] /\ w[0] = 0 /\ w[l + 1] = x /\ \A k \in 0..l : w[k] = v[k]
  BY <1>1, <1>2, <1>4
<1> HIDE DEF w
<1>6. ASSUME NEW k \in 1..(l + 1) PROVE w[k] = w[k - 1] * 10 + u[k]
  <2>1. CASE k = l + 1
    <3>1. w[k] = x /\ w[k - 1] = q /\ u[k] = r
      BY <1>1, <1>2, <1>5, <2>1
    <3> QED
      BY <1>3, <3>1
  <2>2. CASE k \in 1..l
    <3>1. k \in 0..l /\ k - 1 \in 0..l
      BY <1>1, <2>2
    <3> QED
      BY <1>1, <1>2, <1>5, <2>2, <3>1
  <2> QED
    BY <1>1, <2>1, <2>2
<1>7. IsValue(u, x)
  BY <1>1, <1>5, <1>6 DEF IsValue
<1> QED
  BY <1>3, <1>7 DEF u

LEMMA ValueIs ==
    ASSUME NEW t \in Seq(Nat), NEW x, IsValue(t, x)
    PROVE  ValueOf(t) = x
<1> DEFINE l == Len(t)
<1> DEFINE value == CHOOSE f : f = [k \in 0..l |-> IF k = 0 THEN 0 ELSE f[k - 1] * 10 + t[k]]
<1>1. l \in Nat
  OBVIOUS
<1>2. PICK v \in [0..l -> Nat] : /\ v[0] = 0 /\ v[l] = x
                                 /\ \A k \in 1..l : v[k] = v[k - 1] * 10 + t[k]
  BY DEF IsValue
<1>3. v = [k \in 0..l |-> IF k = 0 THEN 0 ELSE v[k - 1] * 10 + t[k]]
  <2>1. \A k \in 0..l : k = 0 \/ k \in 1..l
    BY <1>1
  <2>2. \A k \in 0..l : v[k] = IF k = 0 THEN 0 ELSE v[k - 1] * 10 + t[k]
    BY <1>2, <2>1
  <2>3. v = [k \in 0..l |-> v[k]]
    BY <1>2
  <2> HIDE DEF l
  <2> QED
    BY <2>2, <2>3
<1>4. value = [k \in 0..l |-> IF k = 0 THEN 0 ELSE value[k - 1] * 10 + t[k]]
  BY <1>3
<1>5. ValueOf(t) = value[l]
  BY DEF ValueOf
<1> HIDE DEF value, l
<1> DEFINE S == {k \in Nat : k <= l => value[k] = v[k]}
<1>6. 0 \in S
  BY <1>1, <1>2, <1>4
<1>7. ASSUME NEW k \in S PROVE k + 1 \in S
  <2> SUFFICES ASSUME k + 1 <= l PROVE value[k + 1] = v[k + 1]
    OBVIOUS
  <2>1. k + 1 \in 0..l /\ k + 1 \in 1..l /\ k + 1 # 0 /\ (k + 1) - 1 = k
        /\ value[k] = v[k]
    BY <1>1
  <2>2. value[k + 1] = value[k] * 10 + t[k + 1]
    BY <1>4, <2>1
  <2>3. v[k + 1] = v[k] * 10 + t[k + 1]
    BY <1>2, <2>1
  <2> QED
    BY <2>1, <2>2, <2>3
<1>8. S = Nat
  <2>1. S \in SUBSET Nat
    OBVIOUS
  <2> HIDE DEF S
  <2> QED
    BY <1>6, <1>7, <2>1, AllNaturals
<1>9. \A k \in S : k <= l => value[k] = v[k]
  OBVIOUS
<1>10. l \in S /\ l <= l
  BY <1>1, <1>8
<1> HIDE DEF S
<1>11. value[l] = v[l]
  BY <1>9, <1>10
<1> QED
  BY <1>2, <1>5, <1>11

\* One more digit of x in front of those that g has of the others.
Digit(g, x) == Append(g[x \div 10], x - (x \div 10) * 10)
Longer(g) == [x \in Nat |-> IF x > 0 THEN Digit(g, x) ELSE <<>>]

LEMMA LastDigit ==
    ASSUME NEW x \in Nat
    PROVE  /\ x \div 10 \in Nat /\ x - (x \div 10) * 10 \in 0..9
           /\ x = (x \div 10) * 10 + (x - (x \div 10) * 10)
<1>1. PICK q \in Nat : q = x \div 10
  OBVIOUS
<1>2. q * 10 <= x /\ x < q * 10 + 10
  BY <1>1
<1>3. x - q * 10 \in 0..9 /\ x = q * 10 + (x - q * 10)
  BY <1>2
<1> QED
  BY <1>1, <1>3

\* The loop of DigitsOf.
IsDigits(f) ==
    f = [pos \in 0..(Column - 1) |->
            [x \in Nat |->
                IF x > 0 /\ pos > 0
                THEN Append(f[pos - 1][x \div 10], x - (x \div 10) * 10) ELSE <<>>]]

LEMMA DigitsExist == \E f : IsDigits(f)
<1> DEFINE K == Column - 1
<1> DEFINE D == [Nat -> Seq(Nat)]
<1> DEFINE none == [x \in Nat |-> <<>>]
<1> DEFINE step == [y \in (Nat \ {0}) \X D |-> Longer(y[2])]
<1>1. K \in Nat
  BY TextAssumption
<1>2. ASSUME NEW g \in D PROVE Longer(g) \in D
  <2>1. ASSUME NEW x \in Nat PROVE Digit(g, x) \in Seq(Nat)
    <3>1. g[x \div 10] \in Seq(Nat) /\ x - (x \div 10) * 10 \in Nat
      BY LastDigit
    <3>2. \A s \in Seq(Nat), r \in Nat : Append(s, r) \in Seq(Nat)
      OBVIOUS
    <3> QED
      BY <3>1, <3>2 DEF Digit
  <2>2. <<>> \in Seq(Nat)
    OBVIOUS
  <2> QED
    BY <2>1, <2>2 DEF Longer
<1>3. none \in D
  OBVIOUS
<1>4. step \in [(Nat \ {0}) \X D -> D]
  <2> HIDE DEF D
  <2>1. \A y \in (Nat \ {0}) \X D : y[2] \in D
    OBVIOUS
  <2> QED
    BY <1>2, <2>1
<1>5. PICK f \in [0..K -> D] : IsLoop(f, K, none, step)
  <2> HIDE DEF D, none, step, K
  <2> QED
    BY <1>1, <1>3, <1>4, LoopExists
<1>6. ASSUME NEW pos \in 0..K
      PROVE  f[pos] = [x \in Nat |->
                IF x > 0 /\ pos > 0
                THEN Append(f[pos - 1][x \div 10], x - (x \div 10) * 10) ELSE <<>>]
  <2>1. f[pos] = IF pos = 0 THEN none ELSE step[<<pos, f[pos - 1]>>]
    <3> HIDE DEF none, step, K
    <3> QED
      BY <1>5 DEF IsLoop
  <2>2. CASE pos = 0
    <3>1. f[pos] = none
      BY <2>1, <2>2
    <3> QED
      BY <2>2, <3>1
  <2>3. CASE pos # 0
    <3>1. pos \in Nat \ {0} /\ pos > 0 /\ pos - 1 \in 0..K
      BY <1>1, <2>3
    <3>2. <<pos, f[pos - 1]>> \in (Nat \ {0}) \X D
      <4> HIDE DEF D, K
      <4> QED
        BY <1>5, <3>1
    <3>3. f[pos] = Longer(f[pos - 1])
      <4>1. step[<<pos, f[pos - 1]>>] = Longer(<<pos, f[pos - 1]>>[2])
        <5> HIDE DEF D
        <5> QED
          BY <3>2
      <4> QED
        BY <2>1, <2>3, <4>1
    <3> HIDE DEF D, none, step, K
    <3> QED
      BY <3>1, <3>3 DEF Longer, Digit
  <2> QED
    BY <2>2, <2>3
<1>7. f = [pos \in 0..K |-> f[pos]]
  <2> HIDE DEF D, K
  <2> QED
    BY <1>5
<1>8. IsDigits(f)
  <2> HIDE DEF D, none, step
  <2> QED
    BY <1>6, <1>7 DEF IsDigits
<1> QED
  BY <1>8

\* What is left of v when more and more of its last digits are cut off.
LEMMA CutExists ==
    ASSUME NEW v \in Nat, NEW k \in Nat, HasDigits(v, k)
    PROVE  \E c \in [0..k -> Nat] : /\ c[0] = v /\ c[k] = 0
                                    /\ \A j \in 1..k : c[j] = c[j - 1] \div 10
<1> DEFINE step == [y \in (Nat \ {0}) \X Nat |-> y[2] \div 10]
<1> DEFINE cut == CHOOSE f : f = [j \in 0..k |-> IF j = 0 THEN v ELSE f[j - 1] \div 10]
<1>1. step \in [(Nat \ {0}) \X Nat -> Nat]
  OBVIOUS
<1>2. PICK c \in [0..k -> Nat] : IsLoop(c, k, v, step)
  <2> HIDE DEF step
  <2> QED
    BY <1>1, LoopExists
<1>3. ASSUME NEW g \in [0..k -> Nat], NEW j \in 0..k, j # 0
      PROVE  step[<<j, g[j - 1]>>] = g[j - 1] \div 10
  <2>1. j \in Nat \ {0} /\ g[j - 1] \in Nat
    BY <1>3
  <2> QED
    BY <2>1
<1>4. c = [j \in 0..k |-> IF j = 0 THEN v ELSE c[j - 1] \div 10]
  <2> HIDE DEF step
  <2>1. \A j \in 0..k : c[j] = IF j = 0 THEN v ELSE c[j - 1] \div 10
    BY <1>2, <1>3 DEF IsLoop
  <2> QED
    BY <1>2, <2>1
<1>5. cut = [j \in 0..k |-> IF j = 0 THEN v ELSE cut[j - 1] \div 10]
  BY <1>4
<1>6. cut[k] = 0
  BY DEF HasDigits
<1> HIDE DEF cut, step
<1> DEFINE S == {j \in Nat : j <= k => cut[j] = c[j]}
<1>7. 0 \in S
  BY <1>4, <1>5
<1>8. ASSUME NEW j \in S PROVE j + 1 \in S
  <2> SUFFICES ASSUME j + 1 <= k PROVE cut[j + 1] = c[j + 1]
    OBVIOUS
  <2>1. j + 1 \in 0..k /\ j + 1 # 0 /\ (j + 1) - 1 = j /\ cut[j] = c[j]
    OBVIOUS
  <2>2. cut[j + 1] = cut[j] \div 10 /\ c[j + 1] = c[j] \div 10
    BY <1>4, <1>5, <2>1
  <2> QED
    BY <2>1, <2>2
<1>9. S = Nat
  <2>1. S \in SUBSET Nat
    OBVIOUS
  <2> HIDE DEF S
  <2> QED
    BY <1>7, <1>8, <2>1, AllNaturals
<1>10. \A j \in S : j <= k => cut[j] = c[j]
  OBVIOUS
<1>11. k \in S /\ k <= k
  BY <1>9
<1> HIDE DEF S
<1>12. c[k] = 0
  BY <1>6, <1>10, <1>11
<1>13. c[0] = v /\ \A j \in 1..k : c[j] = c[j - 1] \div 10
  <2>1. \A j \in 1..k : j \in 0..k /\ j # 0
    OBVIOUS
  <2> QED
    BY <1>4, <2>1
<1> QED
  BY <1>12, <1>13

\* The digits t are all those of x, and none of them is in vain.
Exact(t, x) ==
    /\ t \in Seq(Nat) /\ IsValue(t, x)
    /\ x > 0 => t # <<>> /\ t[1] # 0
    /\ x = 0 => t = <<>>

LEMMA LongerIsExact ==
    ASSUME NEW x \in Nat, x > 0, NEW t, Exact(t, x \div 10)
    PROVE  Exact(Append(t, x - (x \div 10) * 10), x)
<1>1. PICK q \in Nat : q = x \div 10
  BY LastDigit
<1>2. PICK r \in Nat : r = x - q * 10 /\ x = q * 10 + r
  BY <1>1, LastDigit
<1>3. t \in Seq(Nat) /\ IsValue(t, q)
  BY <1>1 DEF Exact
<1> DEFINE u == Append(t, r)
<1>4. u \in Seq(Nat) /\ u # <<>> /\ (t # <<>> => u[1] = t[1]) /\ (t = <<>> => u[1] = r)
  <2>1. u \in Seq(Nat) /\ Len(u) = Len(t) + 1 /\ Len(t) \in Nat
        /\ u[Len(t) + 1] = r /\ \A k \in 1..Len(t) : u[k] = t[k]
    BY <1>3
  <2> HIDE DEF u
  <2>2. u # <<>>
    BY <2>1
  <2>3. t # <<>> => 1 \in 1..Len(t)
    BY <1>3
  <2>4. t = <<>> => Len(t) = 0 /\ Len(t) + 1 = 1
    OBVIOUS
  <2> QED
    BY <2>1, <2>2, <2>3, <2>4
<1> HIDE DEF u
<1>5. IsValue(u, x)
  <2>1. IsValue(Append(t, r), q * 10 + r)
    BY <1>3, OneMoreDigit
  <2> QED
    BY <1>2, <2>1 DEF u
<1>6. u[1] # 0
  <2>1. CASE q > 0
    BY <1>1, <1>4, <2>1 DEF Exact
  <2>2. CASE q = 0
    <3>1. r > 0
      BY <1>2, <2>2
    <3> QED
      BY <1>1, <1>4, <2>2, <3>1 DEF Exact
  <2> QED
    BY <2>1, <2>2
<1>7. Exact(u, x)
  BY <1>4, <1>5, <1>6 DEF Exact
<1>8. u = Append(t, x - (x \div 10) * 10)
  BY <1>1, <1>2 DEF u
<1> QED
  BY <1>7, <1>8

LEMMA DigitsOfIs ==
    ASSUME NEW v \in Nat, HasDigits(v, Column - 1)
    PROVE  Exact(DigitsOf(v), v)
<1> DEFINE K == Column - 1
<1> DEFINE digits == CHOOSE f : f = [pos \in 0..(Column - 1) |->
                        [x \in Nat |->
                            IF x > 0 /\ pos > 0
                            THEN Append(f[pos - 1][x \div 10], x - (x \div 10) * 10)
                            ELSE <<>>]]
<1>1. K \in Nat
  BY TextAssumption
<1>2. IsDigits(digits)
  BY DigitsExist DEF IsDigits
<1>3. DigitsOf(v) = digits[K][v]
  BY DEF DigitsOf
<1>4. PICK c \in [0..K -> Nat] : /\ c[0] = v /\ c[K] = 0
                                 /\ \A j \in 1..K : c[j] = c[j - 1] \div 10
  <2> HIDE DEF digits
  <2> QED
    BY <1>1, CutExists
<1> HIDE DEF digits, K
<1>5. ASSUME NEW pos \in 0..K, NEW x \in Nat
      PROVE  digits[pos][x] = IF x > 0 /\ pos > 0
                              THEN Append(digits[pos - 1][x \div 10], x - (x \div 10) * 10)
                              ELSE <<>>
  <2>1. pos \in 0..(Column - 1)
    BY DEF K
  <2>2. digits[pos] = [y \in Nat |->
            IF y > 0 /\ pos > 0
            THEN Append(digits[pos - 1][y \div 10], y - (y \div 10) * 10) ELSE <<>>]
    BY <1>2, <2>1 DEF IsDigits
  <2> QED
    BY <2>2
<1>6. Exact(<<>>, 0)
  <2>1. <<>> \in Seq(Nat)
    OBVIOUS
  <2> QED
    BY <2>1, NoDigits DEF Exact
<1> DEFINE Right(p) == Exact(digits[p][c[K - p]], c[K - p])
<1> DEFINE S == {p \in Nat : p <= K => Right(p)}
<1>7. 0 \in S
  <2>1. c[K - 0] = 0 /\ 0 \in 0..K /\ ~(0 > 0)
    BY <1>1, <1>4
  <2>2. digits[0][0] = <<>>
    BY <1>5, <2>1
  <2> QED
    BY <1>6, <2>1, <2>2
<1>8. ASSUME NEW p \in S PROVE p + 1 \in S
  <2> SUFFICES ASSUME p + 1 <= K PROVE Right(p + 1)
    OBVIOUS
  <2>1. /\ p \in Nat /\ p + 1 \in 0..K /\ (p + 1) - 1 = p /\ p + 1 > 0
        /\ K - p \in 1..K /\ K - (p + 1) \in 0..K /\ (K - p) - 1 = K - (p + 1)
    BY <1>1
  <2>2. Exact(digits[p][c[K - p]], c[K - p])
    BY <1>1
  <2>3. PICK x \in Nat : x = c[K - (p + 1)]
    BY <1>4, <2>1
  <2>4. c[K - p] = x \div 10
    BY <1>4, <2>1, <2>3
  <2>5. digits[p + 1][x] = IF x > 0 THEN Append(digits[p][x \div 10], x - (x \div 10) * 10)
                           ELSE <<>>
    BY <1>5, <2>1
  <2>6. CASE x > 0
    <3>1. Exact(Append(digits[p][x \div 10], x - (x \div 10) * 10), x)
      BY <2>2, <2>4, <2>6, LongerIsExact
    <3> QED
      BY <2>3, <2>5, <2>6, <3>1
  <2>7. CASE ~(x > 0)
    <3>1. x = 0
      BY <2>7
    <3>2. digits[p + 1][x] = <<>>
      BY <2>5, <2>7
    <3> QED
      BY <1>6, <2>3, <3>1, <3>2
  <2> QED
    BY <2>6, <2>7
<1>9. S = Nat
  <2>1. S \in SUBSET Nat
    OBVIOUS
  <2> HIDE DEF S
  <2> QED
    BY <1>7, <1>8, <2>1, AllNaturals
<1>10. \A p \in S : p <= K => Right(p)
  OBVIOUS
<1>11. K \in S /\ K <= K /\ K - K = 0
  BY <1>1, <1>9
<1>12. Right(K)
  <2> HIDE DEF S, Right
  <2> QED
    BY <1>10, <1>11
<1> HIDE DEF S
<1> QED
  BY <1>3, <1>4, <1>11, <1>12

LEMMA ConOutPrintDecimalAnswer ==
    ASSUME Waiting, ConOutPrintDecimal
    PROVE  /\ out'.text \in Seq(Nat) /\ out'.text # <<>>
           /\ ValueOf(out'.text) = n
           /\ out'.text[1] = 0 => n = 0
<1>1. n \in Nat /\ HasDigits(n, Column - 1)
  BY CallTypes, TextAssumption DEF Waiting, ConOutPrintDecimal, Calling, n
<1>2. out'.text = Digits(n)
  BY DEF ConOutPrintDecimal
<1> DEFINE t == Digits(n)
<1>3. t \in Seq(Nat) /\ t # <<>> /\ IsValue(t, n) /\ (t[1] = 0 => n = 0)
  <2>1. CASE n = 0
    <3>1. t = Append(<<>>, 0)
      BY <2>1 DEF Digits
    <3>2. <<>> \in Seq(Nat) /\ 0 \in Nat /\ 0 * 10 + 0 = 0
      OBVIOUS
    <3>3. IsValue(Append(<<>>, 0), 0)
      BY <3>2, NoDigits, OneMoreDigit
    <3> HIDE DEF t
    <3> QED
      BY <2>1, <3>1, <3>3
  <2>2. CASE n # 0
    <3>1. t = DigitsOf(n)
      BY <2>2 DEF Digits
    <3>2. Exact(DigitsOf(n), n)
      BY <1>1, DigitsOfIs
    <3>3. n > 0
      BY <1>1, <2>2
    <3> HIDE DEF t
    <3> QED
      BY <3>1, <3>2, <3>3 DEF Exact
  <2> QED
    BY <2>1, <2>2
<1> HIDE DEF t
<1>4. ValueOf(t) = n
  BY <1>3, ValueIs
<1> QED
  BY <1>2, <1>3, <1>4 DEF t

-----------------------------------------------------------------------------
(* The calls together. *)

\* Nothing has happened to the memory before the answer, and the answer is right.
AnswerInv ==
    /\ call \in Calls
    /\ out = Pending => mem = was
    /\ TypeOK
    /\ CopiesExactly /\ FindsFirstAndLast /\ ComparesLikeDictionary
    /\ TextFits /\ DecimalExact

LEMMA NoAnswerYet ==
    ASSUME out = Pending
    PROVE  /\ CopiesExactly /\ FindsFirstAndLast /\ ComparesLikeDictionary
           /\ TextFits /\ DecimalExact
<1>1. \A f : ~Answered(f)
  BY DEF Answered
<1>2. CopiesExactly
  BY <1>1 DEF CopiesExactly
<1>3. FindsFirstAndLast
  BY <1>1 DEF FindsFirstAndLast
<1>4. ComparesLikeDictionary
  BY <1>1 DEF ComparesLikeDictionary
<1>5. TextFits
  BY <1>1 DEF TextFits
<1>6. DecimalExact
  BY <1>1 DEF DecimalExact
<1> QED
  BY <1>2, <1>3, <1>4, <1>5, <1>6

LEMMA AnswerInit == Init => AnswerInv
<1> SUFFICES ASSUME Init PROVE AnswerInv
  OBVIOUS
<1>1. call \in Calls /\ mem = was /\ out = Pending
  BY DEF Init, was
<1>2. TypeOK
  <2>1. mem \in [DOMAIN was -> Unit]
    BY <1>1, CallTypes, WidenedIs DEF Unit
  <2>2. out.ret \in Int
    BY <1>1 DEF Pending, NULL
  <2>3. call.fn \in Functions
    BY <1>1, CallTypes
  <2> QED
    BY <1>1, <2>1, <2>2, <2>3 DEF TypeOK, was
<1> QED
  BY <1>1, <1>2, NoAnswerYet DEF AnswerInv

\* What a property says of other calls than this one, it says of nothing.
LEMMA OtherCalls ==
    ASSUME call' = call
    PROVE  /\ call.fn \notin {"memcpy", "memset"} => CopiesExactly'
           /\ call.fn \notin {"strlen", "strchr", "strrchr"} => FindsFirstAndLast'
           /\ call.fn \notin {"strcmp", "strcompare", "memcmp"} => ComparesLikeDictionary'
           /\ call.fn \notin CopyFunctions \cup {"strfmt"} => TextFits'
           /\ call.fn # "ConOutPrintDecimal" => DecimalExact'
<1>1. \A f : call.fn # f => ~Answered(f)'
  BY DEF Answered
<1>2. call.fn \notin {"memcpy", "memset"} => CopiesExactly'
  BY <1>1 DEF CopiesExactly
<1>3. call.fn \notin {"strlen", "strchr", "strrchr"} => FindsFirstAndLast'
  BY <1>1 DEF FindsFirstAndLast
<1>4. call.fn \notin {"strcmp", "strcompare", "memcmp"} => ComparesLikeDictionary'
  BY <1>1 DEF ComparesLikeDictionary
<1>5. call.fn \notin CopyFunctions \cup {"strfmt"} => TextFits'
  BY <1>1 DEF TextFits, CopyFunctions
<1>6. call.fn # "ConOutPrintDecimal" => DecimalExact'
  BY <1>1 DEF DecimalExact
<1> QED
  BY <1>2, <1>3, <1>4, <1>5, <1>6

\* The answer of a call has the types of one.
LEMMA AnswerTypes ==
    ASSUME call \in Calls, call' = call, out'.ret \in Int,
           \A k \in DOMAIN out'.text : out'.text[k] \in Nat,
           \/ mem' \in [DOMAIN was -> 0..255]
           \/ call.fn = "AsciiToUnicode" /\ mem' \in [DOMAIN was -> WideChars]
    PROVE  TypeOK'
<1>1. call.fn \in Functions
  BY CallTypes
<1>2. mem' \in [DOMAIN was -> Unit]
  BY WidenedIs DEF Unit
<1>3. Unit' = Unit /\ was' = was
  BY DEF Unit, was
<1> QED
  BY <1>1, <1>2, <1>3 DEF TypeOK, was

\* A call without a text.
LEMMA NoText ==
    ASSUME NEW r, Returns(r)
    PROVE  /\ out'.ret = r /\ out' # Pending
           /\ \A k \in DOMAIN out'.text : out'.text[k] \in Nat
<1>1. out' = [ret |-> r, text |-> <<>>]
  BY DEF Returns
<1>2. out'.ret = r /\ out'.text = <<>> /\ DOMAIN <<>> = {}
  BY <1>1
<1>3. out' # Pending
  BY <1>1, AnswersDiffer
<1> QED
  BY <1>2, <1>3

LEMMA IsWaiting ==
    ASSUME AnswerInv, NEW f, Calling(f)
    PROVE  /\ Waiting /\ call.fn = f /\ call' = call
           /\ mem \in [DOMAIN was -> 0..255] /\ n \in Nat /\ dst \in Int
<1>1. Waiting /\ call.fn = f /\ call' = call
  BY DEF AnswerInv, Calling, Waiting
<1> QED
  BY <1>1, CallTypes DEF Waiting

LEMMA MemCpyRight == AnswerInv /\ MemCpy => AnswerInv'
<1> SUFFICES ASSUME AnswerInv, MemCpy PROVE AnswerInv'
  OBVIOUS
<1>1. Waiting /\ call.fn = "memcpy" /\ call' = call /\ n \in Nat /\ dst \in Int
  BY IsWaiting DEF MemCpy
<1>2. PICK r \in {dst, NULL} : Returns(r)
  BY DEF MemCpy
<1>3. out'.ret = r /\ out' # Pending /\ \A k \in DOMAIN out'.text : out'.text[k] \in Nat
  BY <1>2, NoText
<1>4. r \in Int
  BY <1>1 DEF NULL
<1>5. was' = was /\ dst' = dst /\ src' = src /\ n' = n
  BY <1>1 DEF was, dst, src, n
<1>6. CopiesExactly'
  <2>1. Answered("memcpy")' => CopiesExactly'
    BY <1>1, <1>5, MemCpyAnswer DEF CopiesExactly, OnlyAt, Answered
  <2> QED
    BY <1>1, <1>3, <2>1 DEF Answered
<1>7. TypeOK'
  BY <1>1, <1>3, <1>4, MemCpyAnswer, AnswerTypes DEF Waiting
<1>8. call' \in Calls
  BY <1>1 DEF Waiting
<1> QED
  BY <1>1, <1>3, <1>6, <1>7, <1>8, OtherCalls DEF AnswerInv, CopyFunctions

LEMMA MemSetRight == AnswerInv /\ MemSet => AnswerInv'
<1> SUFFICES ASSUME AnswerInv, MemSet PROVE AnswerInv'
  OBVIOUS
<1>1. Waiting /\ call.fn = "memset" /\ call' = call /\ n \in Nat /\ dst \in Int
  BY IsWaiting DEF MemSet
<1>2. Returns(dst)
  BY DEF MemSet
<1>3. out'.ret = dst /\ out' # Pending /\ \A k \in DOMAIN out'.text : out'.text[k] \in Nat
  BY <1>2, NoText
<1>4. was' = was /\ dst' = dst /\ src' = src /\ n' = n
  BY <1>1 DEF was, dst, src, n
<1>5. CopiesExactly'
  BY <1>1, <1>4, MemSetAnswer DEF CopiesExactly, OnlyAt, Answered
<1>6. TypeOK'
  BY <1>1, <1>3, MemSetAnswer, AnswerTypes DEF Waiting
<1>7. call' \in Calls
  BY <1>1 DEF Waiting
<1> QED
  BY <1>1, <1>3, <1>5, <1>6, <1>7, OtherCalls DEF AnswerInv, CopyFunctions

\* A call that leaves the memory alone.
LEMMA ReadTypes ==
    ASSUME AnswerInv, NEW f, Calling(f), NEW r \in Int, Returns(r), UNCHANGED mem
    PROVE  /\ Waiting /\ call.fn = f /\ call' = call /\ call' \in Calls
           /\ was' = was /\ dst' = dst /\ src' = src /\ n' = n
           /\ out'.ret = r /\ out' # Pending
           /\ TypeOK'
<1>1. /\ Waiting /\ call.fn = f /\ call' = call
      /\ mem \in [DOMAIN was -> 0..255]
  BY IsWaiting
<1>2. /\ out'.ret = r /\ out' # Pending
      /\ \A k \in DOMAIN out'.text : out'.text[k] \in Nat
  BY NoText
<1>3. call \in Calls
  BY <1>1 DEF Waiting
<1>4. TypeOK'
  BY <1>1, <1>2, <1>3, AnswerTypes
<1> QED
  BY <1>1, <1>2, <1>3, <1>4 DEF was, dst, src, n

\* A place of a character is a number.
LEMMA PlacesAreNumbers ==
    ASSUME Waiting, NEW r, IF Places = {} THEN r = NULL ELSE r \in Places
    PROVE  r \in Int
<1>1. DOMAIN was \subseteq Nat
  BY CallTypes DEF Waiting
<1> QED
  BY <1>1 DEF Places, NULL

LEMMA StrLenRight == AnswerInv /\ StrLen => AnswerInv'
<1> SUFFICES ASSUME AnswerInv, StrLen PROVE AnswerInv'
  OBVIOUS
<1>1. Waiting /\ call.fn = "strlen" /\ mem = was
  BY IsWaiting DEF StrLen, Waiting
<1>2. PICK r \in Int : r = Length(mem, src)
  <2>1. PICK z \in DOMAIN was : z \in Nat /\ StringAt(was, src, z)
    BY <1>1, SourceEnds DEF Waiting, StringFunctions
  <2>2. src \in Nat
    BY <1>1, CallTypes DEF Waiting
  <2>3. Length(mem, src) = z - src /\ z - src \in Int
    BY <1>1, <2>1, <2>2, LengthIs
  <2> QED
    BY <2>3
<1>3. Calling("strlen") /\ Returns(r) /\ UNCHANGED mem
  BY <1>2 DEF StrLen
<1>4. /\ call' = call /\ call' \in Calls /\ was' = was /\ src' = src
      /\ out' # Pending /\ TypeOK'
  BY <1>3, ReadTypes
<1>5. FindsFirstAndLast'
  BY <1>1, <1>4, StrLenAnswer DEF FindsFirstAndLast, Answered
<1> QED
  BY <1>1, <1>4, <1>5, OtherCalls DEF AnswerInv, CopyFunctions

LEMMA StrChrRight == AnswerInv /\ StrChr => AnswerInv'
<1> SUFFICES ASSUME AnswerInv, StrChr PROVE AnswerInv'
  OBVIOUS
<1>1. Waiting /\ call.fn = "strchr"
  BY IsWaiting DEF StrChr
<1>2. PICK r : Returns(r)
  BY DEF StrChr
<1>3. out'.ret = r
  BY <1>2, NoText
<1>4. r \in Int
  BY <1>1, <1>3, StrChrAnswer, PlacesAreNumbers
<1>5. Calling("strchr") /\ UNCHANGED mem
  BY DEF StrChr
<1>6. /\ call' = call /\ call' \in Calls /\ was' = was /\ src' = src
      /\ out' # Pending /\ TypeOK'
  BY <1>2, <1>4, <1>5, ReadTypes
<1>7. Places' = Places
  BY <1>6 DEF Places
<1>8. FindsFirstAndLast'
  BY <1>1, <1>6, <1>7, StrChrAnswer DEF FindsFirstAndLast, Answered
<1> QED
  BY <1>1, <1>6, <1>8, OtherCalls DEF AnswerInv, CopyFunctions

LEMMA StrRChrRight == AnswerInv /\ StrRChr => AnswerInv'
<1> SUFFICES ASSUME AnswerInv, StrRChr PROVE AnswerInv'
  OBVIOUS
<1>1. Waiting /\ call.fn = "strrchr"
  BY IsWaiting DEF StrRChr
<1>2. PICK r : Returns(r)
  BY DEF StrRChr
<1>3. out'.ret = r
  BY <1>2, NoText
<1>4. r \in Int
  BY <1>1, <1>3, StrRChrAnswer, PlacesAreNumbers
<1>5. Calling("strrchr") /\ UNCHANGED mem
  BY DEF StrRChr
<1>6. /\ call' = call /\ call' \in Calls /\ was' = was /\ src' = src
      /\ out' # Pending /\ TypeOK'
  BY <1>2, <1>4, <1>5, ReadTypes
<1>7. Places' = Places
  BY <1>6 DEF Places
<1>8. FindsFirstAndLast'
  BY <1>1, <1>6, <1>7, StrRChrAnswer DEF FindsFirstAndLast, Answered
<1> QED
  BY <1>1, <1>6, <1>8, OtherCalls DEF AnswerInv, CopyFunctions

LEMMA StrCmpRight == AnswerInv /\ StrCmp => AnswerInv'
<1> SUFFICES ASSUME AnswerInv, StrCmp PROVE AnswerInv'
  OBVIOUS
<1>1. Waiting /\ call.fn = "strcmp"
  BY IsWaiting DEF StrCmp
<1>2. PICK r : Returns(r)
  BY DEF StrCmp
<1>3. out'.ret = r
  BY <1>2, NoText
<1>4. r \in Int
  BY <1>1, <1>3, StrCmpAnswer
<1>5. Calling("strcmp") /\ UNCHANGED mem
  BY DEF StrCmp
<1>6. /\ call' = call /\ call' \in Calls /\ was' = was /\ src' = src
      /\ dst' = dst /\ n' = n /\ out' # Pending /\ TypeOK'
  BY <1>2, <1>4, <1>5, ReadTypes
<1>7. /\ Differences' = Differences
      /\ \A k : DifferAt(k, NULL)' <=> DifferAt(k, NULL)
  BY <1>6 DEF Differences, DifferAt
<1>8. ComparesLikeDictionary'
  BY <1>1, <1>6, <1>7, StrCmpAnswer DEF ComparesLikeDictionary, Answered
<1> QED
  BY <1>1, <1>6, <1>8, OtherCalls DEF AnswerInv, CopyFunctions

LEMMA StrCompareRight == AnswerInv /\ StrCompare => AnswerInv'
<1> SUFFICES ASSUME AnswerInv, StrCompare PROVE AnswerInv'
  OBVIOUS
<1>1. Waiting /\ call.fn = "strcompare"
  BY IsWaiting DEF StrCompare
<1>2. PICK r : Returns(r)
  BY DEF StrCompare
<1>3. out'.ret = r
  BY <1>2, NoText
<1>4. r \in Int
  BY <1>1, <1>3, StrCompareAnswer
<1>5. Calling("strcompare") /\ UNCHANGED mem
  BY DEF StrCompare
<1>6. /\ call' = call /\ call' \in Calls /\ was' = was /\ src' = src
      /\ dst' = dst /\ n' = n /\ out' # Pending /\ TypeOK'
  BY <1>2, <1>4, <1>5, ReadTypes
<1>7. /\ Differences' = Differences
      /\ \A k : DifferAt(k, NULL)' <=> DifferAt(k, NULL)
  BY <1>6 DEF Differences, DifferAt
<1>8. ComparesLikeDictionary'
  BY <1>1, <1>6, <1>7, StrCompareAnswer DEF ComparesLikeDictionary, Answered
<1> QED
  BY <1>1, <1>6, <1>8, OtherCalls DEF AnswerInv, CopyFunctions

LEMMA MemCmpRight == AnswerInv /\ MemCmp => AnswerInv'
<1> SUFFICES ASSUME AnswerInv, MemCmp PROVE AnswerInv'
  OBVIOUS
<1>1. Waiting /\ call.fn = "memcmp"
  BY IsWaiting DEF MemCmp
<1>2. PICK r : Returns(r)
  BY DEF MemCmp
<1>3. out'.ret = r
  BY <1>2, NoText
<1>4. r \in Int
  BY <1>1, <1>3, MemCmpAnswer
<1>5. Calling("memcmp") /\ UNCHANGED mem
  BY DEF MemCmp
<1>6. /\ call' = call /\ call' \in Calls /\ was' = was /\ src' = src
      /\ dst' = dst /\ n' = n /\ out' # Pending /\ TypeOK'
  BY <1>2, <1>4, <1>5, ReadTypes
<1>7. /\ Differences' = Differences
      /\ \A k : DifferAt(k, NULL)' <=> DifferAt(k, NULL)
  BY <1>6 DEF Differences, DifferAt
<1>8. ComparesLikeDictionary'
  BY <1>1, <1>6, <1>7, MemCmpAnswer DEF ComparesLikeDictionary, Answered
<1> QED
  BY <1>1, <1>6, <1>8, OtherCalls DEF AnswerInv, CopyFunctions

\* What is left of a string that was copied is what TextFits asks for.
LEMMA FitsIsRight ==
    ASSUME call' = call, call.fn \in CopyFunctions,
           n = 0 /\ call.fn = "strlcpy" => mem' = was,
           ~(n = 0 /\ call.fn = "strlcpy") => Fits(mem', Length(was, src)),
           call.fn = "strlcpy" => out'.ret = Length(was, src)
    PROVE  TextFits'
<1>1. was' = was /\ dst' = dst /\ src' = src /\ n' = n
  BY DEF was, dst, src, n
<1>2. call.fn # "strfmt"
  BY DEF CopyFunctions
<1> DEFINE length == Length(was, src)
<1> DEFINE kept == Kept(call, length)
<1>3. Length(was, src)' = length /\ Kept(call, Length(was, src))' = kept
  BY <1>1 DEF Length, Kept, n
<1>4. ~(n = 0 /\ call.fn = "strlcpy") =>
         /\ \A a \in DOMAIN was \ (dst..(dst + (kept + 1) - 1)) : mem'[a] = was[a]
         /\ mem'[dst + kept] = 0
         /\ \A k \in 0..(kept - 1) : mem'[dst + k] % 256 = was[src + k] /\ mem'[dst + k] # 0
  BY DEF Fits
<1> HIDE DEF length, kept
<1>5. ~(n = 0 /\ call.fn = "strlcpy") => OnlyAt(dst, kept + 1)'
  <2>1. kept' = kept
    BY <1>3 DEF kept, length
  <2> QED
    BY <1>1, <1>4, <2>1 DEF OnlyAt
<1> QED
  BY <1>1, <1>2, <1>3, <1>4, <1>5 DEF TextFits, Answered, length, kept

LEMMA StrLCpyRight == AnswerInv /\ StrLCpy => AnswerInv'
<1> SUFFICES ASSUME AnswerInv, StrLCpy PROVE AnswerInv'
  OBVIOUS
<1>1. Waiting /\ call.fn = "strlcpy" /\ call' = call
  BY IsWaiting DEF StrLCpy
<1>2. PICK r : Returns(r)
  BY DEF StrLCpy
<1>3. out'.ret = r /\ out' # Pending /\ \A k \in DOMAIN out'.text : out'.text[k] \in Nat
  BY <1>2, NoText
<1>4. out'.ret \in Int
  BY <1>1, StrLCpyAnswer
<1>5. TypeOK'
  BY <1>1, <1>3, <1>4, StrLCpyAnswer, AnswerTypes DEF Waiting
<1>6. TextFits'
  BY <1>1, StrLCpyAnswer, FitsIsRight DEF CopyFunctions
<1>7. call' \in Calls
  BY <1>1 DEF Waiting
<1> QED
  BY <1>1, <1>3, <1>5, <1>6, <1>7, OtherCalls DEF AnswerInv

LEMMA StrCopyRight == AnswerInv /\ StrCopy => AnswerInv'
<1> SUFFICES ASSUME AnswerInv, StrCopy PROVE AnswerInv'
  OBVIOUS
<1>1. Waiting /\ call.fn = "strcopy" /\ call' = call
  BY IsWaiting DEF StrCopy
<1>2. PICK r : Returns(r)
  BY DEF StrCopy
<1>3. out'.ret = r /\ out' # Pending /\ \A k \in DOMAIN out'.text : out'.text[k] \in Nat
  BY <1>2, NoText
<1>4. out'.ret \in Int
  BY DEF StrCopy, Returns
<1>5. TypeOK'
  BY <1>1, <1>3, <1>4, StrCopyAnswer, AnswerTypes DEF Waiting
<1>6. TextFits'
  BY <1>1, StrCopyAnswer, FitsIsRight DEF CopyFunctions
<1>7. call' \in Calls
  BY <1>1 DEF Waiting
<1> QED
  BY <1>1, <1>3, <1>5, <1>6, <1>7, OtherCalls DEF AnswerInv

LEMMA AsciiToUnicodeRight == AnswerInv /\ AsciiToUnicode => AnswerInv'
<1> SUFFICES ASSUME AnswerInv, AsciiToUnicode PROVE AnswerInv'
  OBVIOUS
<1>1. Waiting /\ call.fn = "AsciiToUnicode" /\ call' = call
  BY IsWaiting DEF AsciiToUnicode
<1>2. PICK r : Returns(r)
  BY DEF AsciiToUnicode
<1>3. out'.ret = r /\ out' # Pending /\ \A k \in DOMAIN out'.text : out'.text[k] \in Nat
  BY <1>2, NoText
<1>4. out'.ret \in Int
  BY DEF AsciiToUnicode, Returns
<1>5. TypeOK'
  BY <1>1, <1>3, <1>4, AsciiToUnicodeAnswer, AnswerTypes DEF Waiting
<1>6. TextFits'
  BY <1>1, AsciiToUnicodeAnswer, FitsIsRight DEF CopyFunctions
<1>7. call' \in Calls
  BY <1>1 DEF Waiting
<1> QED
  BY <1>1, <1>3, <1>5, <1>6, <1>7, OtherCalls DEF AnswerInv

LEMMA StrFmtRight == AnswerInv /\ StrFmt => AnswerInv'
<1> SUFFICES ASSUME AnswerInv, StrFmt PROVE AnswerInv'
  OBVIOUS
<1>1. /\ Waiting /\ call.fn = "strfmt" /\ call' = call
      /\ mem \in [DOMAIN was -> 0..255] /\ mem' = mem
  BY IsWaiting DEF StrFmt
<1>2. out' # Pending
  <2>1. \E t : out' = [ret |-> 0, text |-> <<>>] \/ out' = [ret |-> 1, text |-> t]
    BY DEF StrFmt, Returns
  <2>2. 1 # NULL
    BY DEF NULL
  <2> QED
    BY <2>1, <2>2, AnswersDiffer
<1>3. /\ out'.ret \in Int /\ \A k \in DOMAIN out'.text : out'.text[k] \in Nat
      /\ out'.ret = 1 => Len(out'.text) = Smaller(n, Guess - 1)
  BY <1>1, StrFmtAnswer
<1>4. TypeOK'
  BY <1>1, <1>3, AnswerTypes DEF Waiting
<1>5. TextFits'
  BY <1>1, <1>3 DEF TextFits, Answered, n
<1>6. call' \in Calls
  BY <1>1 DEF Waiting
<1> QED
  BY <1>1, <1>2, <1>4, <1>5, <1>6, OtherCalls DEF AnswerInv, CopyFunctions

LEMMA ConOutPrintDecimalRight == AnswerInv /\ ConOutPrintDecimal => AnswerInv'
<1> SUFFICES ASSUME AnswerInv, ConOutPrintDecimal PROVE AnswerInv'
  OBVIOUS
<1>1. /\ Waiting /\ call.fn = "ConOutPrintDecimal" /\ call' = call
      /\ mem \in [DOMAIN was -> 0..255] /\ mem' = mem
  BY IsWaiting DEF ConOutPrintDecimal
<1>2. out'.ret = 0 /\ out' # Pending
  <2>1. \E t : out' = [ret |-> 0, text |-> t]
    BY DEF ConOutPrintDecimal
  <2>2. 0 # NULL
    BY DEF NULL
  <2> QED
    BY <2>1, <2>2, AnswersDiffer
<1>3. /\ out'.text \in Seq(Nat) /\ out'.text # <<>>
      /\ ValueOf(out'.text) = n
      /\ out'.text[1] = 0 => n = 0
  BY <1>1, ConOutPrintDecimalAnswer
<1>4. \A k \in DOMAIN out'.text : out'.text[k] \in Nat
  <2>1. \A t \in Seq(Nat) : \A k \in DOMAIN t : t[k] \in Nat
    OBVIOUS
  <2> QED
    BY <1>3, <2>1
<1>5. TypeOK'
  BY <1>1, <1>2, <1>4, AnswerTypes DEF Waiting
<1>6. ValueOf(out.text)' = ValueOf(out'.text)
  BY DEF ValueOf
<1>7. DecimalExact'
  BY <1>1, <1>3, <1>6 DEF DecimalExact, n
<1>8. call' \in Calls
  BY <1>1 DEF Waiting
<1> QED
  BY <1>1, <1>2, <1>5, <1>7, <1>8, OtherCalls DEF AnswerInv, CopyFunctions

LEMMA AnswerStutters == AnswerInv /\ UNCHANGED vars => AnswerInv'
<1> SUFFICES ASSUME AnswerInv, UNCHANGED vars PROVE AnswerInv'
  OBVIOUS
<1>1. call' = call /\ mem' = mem /\ out' = out
  BY DEF vars
<1>2. was' = was /\ dst' = dst /\ src' = src /\ n' = n
  BY <1>1 DEF was, dst, src, n
<1>3. \A f : Answered(f)' <=> Answered(f)
  BY <1>1 DEF Answered
<1>4. TypeOK'
  BY <1>1 DEF AnswerInv, TypeOK, Unit
<1>5. CopiesExactly'
  BY <1>1, <1>2, <1>3 DEF AnswerInv, CopiesExactly, OnlyAt
<1>6. FindsFirstAndLast'
  <2>1. Places' = Places
    BY <1>1, <1>2 DEF Places
  <2> QED
    BY <1>1, <1>2, <1>3, <2>1 DEF AnswerInv, FindsFirstAndLast
<1>7. ComparesLikeDictionary'
  <2>1. Differences' = Differences /\ \A k : DifferAt(k, NULL)' <=> DifferAt(k, NULL)
    BY <1>2 DEF Differences, DifferAt
  <2> QED
    BY <1>1, <1>2, <1>3, <2>1 DEF AnswerInv, ComparesLikeDictionary
<1>8. TextFits'
  BY <1>1, <1>2 DEF AnswerInv, TextFits, OnlyAt, Answered
<1>9. DecimalExact'
  BY <1>1, <1>2 DEF AnswerInv, DecimalExact, Answered
<1> QED
  BY <1>1, <1>2, <1>4, <1>5, <1>6, <1>7, <1>8, <1>9 DEF AnswerInv

THEOREM AnswersAreRight == Spec => []AnswerInv
<1>1. AnswerInv /\ [Next]_vars => AnswerInv'
  BY MemCpyRight, MemSetRight, MemCmpRight, StrLenRight, StrChrRight, StrRChrRight,
     StrCmpRight, StrCompareRight, StrLCpyRight, StrCopyRight, AsciiToUnicodeRight,
     StrFmtRight, ConOutPrintDecimalRight, AnswerStutters DEF Next
<1> QED
  BY <1>1, AnswerInit, PTL DEF Spec

\* Types (string.c, util.c and entry.c): memory keeps its extent, bytes stay bytes and
\* an answer is a number and a text.
THEOREM TypeCorrect == Spec => []TypeOK
<1>1. AnswerInv => TypeOK
  BY DEF AnswerInv
<1> QED
  BY <1>1, AnswersAreRight, PTL

\* memcpy (string.c 3-59) copies all of its range and nothing else for every width of
\* a long, alignment and size, and refuses ranges that overlap; memset fills its range.
THEOREM CopiesAreExact == Spec => []CopiesExactly
<1>1. AnswerInv => CopiesExactly
  BY DEF AnswerInv
<1> QED
  BY <1>1, AnswersAreRight, PTL

\* strlen, strchr and strrchr (string.c 106-123, util.c 199-227) find the end, the
\* first and the last place, of every string and character.
THEOREM FirstAndLastAreFound == Spec => []FindsFirstAndLast
<1>1. AnswerInv => FindsFirstAndLast
  BY DEF AnswerInv
<1> QED
  BY <1>1, AnswersAreRight, PTL

\* strcmp, strcompare and memcmp (string.c 82-104, 125-139; util.c 93-112) order every
\* two strings and buffers as a dictionary does.
THEOREM OrderIsThatOfDictionary == Spec => []ComparesLikeDictionary
<1>1. AnswerInv => ComparesLikeDictionary
  BY DEF AnswerInv
<1> QED
  BY <1>1, AnswersAreRight, PTL

\* strlcpy, strcopy, AsciiToUnicode and strfmt (string.c 141-172, util.c 78-197) keep
\* the longest prefix that fits, for every size of the buffer and of the guess.
THEOREM TextsFit == Spec => []TextFits
<1>1. AnswerInv => TextFits
  BY DEF AnswerInv
<1> QED
  BY <1>1, AnswersAreRight, PTL

\* The kernel (entry.c 100-127) prints every number that fits its buffer, whatever
\* the size of that buffer, with exactly the digits it has.
THEOREM DecimalsAreExact == Spec => []DecimalExact
<1>1. AnswerInv => DecimalExact
  BY DEF AnswerInv
<1> QED
  BY <1>1, AnswersAreRight, PTL
=============================================================================
