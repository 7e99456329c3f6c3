----------------------------- MODULE Geometry ------------------------------
(* The shape of x64 paging as the macros of pagemanager.h cut it: a virtual   *)
(* page number has four digits in base Fan, one per table of the walk (0 PML4,*)
(* 1 PDPT, 2 PD, 3 PT), and an entry of table i covers Span(i) pages.         *)
EXTENDS Integers

CONSTANT Fan          \* entries of a table, 512 in the code

ASSUME FanAssumption == Fan \in Nat \ {0, 1}

\* Pages covered by one entry of a table of level i: HUGE_PAGE_SIZE,
\* LARGE_PAGE_SIZE and DEFAULT_PAGE_SIZE in pages, for i = 1, 2, 3.
Span(i) ==
    IF i = 3 THEN 1
    ELSE IF i = 2 THEN Fan
    ELSE IF i = 1 THEN Fan * Fan
    ELSE Fan * Fan * Fan

Pages == 0..(Fan * Span(0) - 1)

\* PML4_INDEX, PDPT_INDEX, PD_INDEX, PT_INDEX.
Index(v, i) == (v \div Span(i)) % Fan

\* The page's offset inside a mapping of level i, and whether w lies in the same
\* mapping as v.
Low(v, i) == v % Span(i)
Covers(v, i, w) == w \div Span(i) = v \div Span(i)
=============================================================================
