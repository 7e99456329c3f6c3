------------------------------- MODULE MCText -------------------------------
(* Three longs of bytes that are all different for the memory functions, and  *)
(* two strings of up to three characters, of which 255 is negative as a char. *)
EXTENDS Text

Bytes == [a \in 0..11 |-> a]
Ranges == {r \in [dst : 0..11, src : 0..11, n : 0..12] :
              r.dst + r.n <= 12 /\ r.src + r.n <= 12}

MoveCalls ==
    {[memory |-> Bytes, fn |-> "memcpy", dst |-> r.dst, src |-> r.src, n |-> r.n,
      value |-> 0] : r \in Ranges}
    \cup {[memory |-> Bytes, fn |-> "memset", dst |-> d, src |-> 0, n |-> k, value |-> v] :
              d \in {0, 3}, k \in {0, 1, 5}, v \in {-1, 200, 511}}

Strings == {s \in [0..3 -> {0, 1, 255}] : s[3] = 0}
Pair(s, t) == [a \in 0..7 |-> IF a < 4 THEN s[a] ELSE t[a - 4]]
Used == [a \in 0..3 |-> 7]

\* One string at 0 to read, and one at 4 to compare it with or memory to copy it to.
Reads ==
    {[memory |-> Pair(s, Used), fn |-> f, dst |-> 4, src |-> 0, n |-> 0, value |-> v] :
        s \in Strings, f \in {"strlen", "strchr", "strrchr"}, v \in {0, 1, -1, 2, 257}}
Comparison(s, t, f, k) ==
    [memory |-> Pair(s, t), fn |-> f, dst |-> 0, src |-> 4, n |-> k, value |-> 0]
Comparisons ==
    {Comparison(s, t, f, 0) : s \in Strings, t \in Strings, f \in {"strcmp", "strcompare"}}
    \cup {Comparison(s, t, "memcmp", k) : s \in Strings, t \in Strings, k \in 0..4}
Writes ==
    {[memory |-> Pair(s, Used), fn |-> f, dst |-> 4, src |-> 0, n |-> k, value |-> 0] :
        s \in Strings, f \in {"strlcpy", "strcopy", "AsciiToUnicode"}, k \in 0..4}
Numbers ==
    {[memory |-> Used, fn |-> f, dst |-> 0, src |-> 0, n |-> v, value |-> 0] :
        f \in {"strfmt", "ConOutPrintDecimal"},
        v \in {0, 1, 3, 4, 5, 9, 10, 100, 909, 2147483647}}

MCCalls == MoveCalls \cup Reads \cup Comparisons \cup Writes \cup Numbers
=============================================================================
