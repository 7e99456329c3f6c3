----------------------------- MODULE PageStore -----------------------------
(* What a client of the loader's page allocator may rely on, without the     *)
(* PFN array, the free list or the firmware behind it: a set of pages that    *)
(* can be asked for, a set of pages the loader owns, and the last answer.     *)
(* PfnAllocator implements this module.                                       *)
CONSTANTS Pages,      \* page frame numbers the machine has
          NoPage      \* the page whose address is the error value: never served

VARIABLES free,       \* pages the store would still hand out
          held,       \* pages the loader owns
          answer      \* what the last request was told

vars == <<free, held, answer>>

Answers == {"none", "page", "lost", "empty"}

TypeOK ==
    /\ free \subseteq Pages
    /\ held \subseteq Pages
    /\ answer \in Answers

Init ==
    /\ free = {}
    /\ held \in SUBSET Pages
    /\ answer = "none"

\* A page the firmware reported as unused enters the store.
Stock(p) ==
    /\ p \notin free \cup held
    /\ free' = free \cup {p}
    /\ UNCHANGED <<held, answer>>

\* A request takes a page out of the store and the loader owns it.
Serve(p) ==
    /\ p \in free \ held
    /\ p # NoPage
    /\ free' = free \ {p}
    /\ held' = held \cup {p}
    /\ answer' = "page"

\* A request takes a page out of the store and fails: nobody owns the page.
Lose(p) ==
    /\ p \in free \ held
    /\ free' = free \ {p}
    /\ held' = held
    /\ answer' = "lost"

\* Only an empty store may say that it is empty.
Exhaust ==
    /\ free = {}
    /\ UNCHANGED <<free, held>>
    /\ answer' = "empty"

\* The loader gives a page up; the store may or may not take it.
Return(p) ==
    /\ p \in held
    /\ held' = held \ {p}
    /\ free' \in {free, free \cup {p}}
    /\ answer' = "none"

Next ==
    \/ Exhaust
    \/ \E p \in Pages : Stock(p) \/ Serve(p) \/ Lose(p) \/ Return(p)

Spec == Init /\ [][Next]_vars
=============================================================================
