---------------------------- MODULE AddressSpace ----------------------------
(* What MapPage, MapLargePage and MapHugePage promise: a function from        *)
(* virtual pages to physical frames. A call that succeeds changes exactly the *)
(* region it was asked for, a call that fails changes nothing.                *)
EXTENDS Geometry

CONSTANT Requests     \* the mappings that may be asked for: va, pa, end, rw

VARIABLES space,      \* each virtual page's target, or Unmapped
          asked,      \* the request of the call under way, as a set
          status      \* what the last call returned

vars == <<space, asked, status>>

Unmapped == [mapped |-> FALSE, frame |-> 0, rw |-> FALSE]
Target(frame, rw) == [mapped |-> TRUE, frame |-> frame, rw |-> rw]

Init ==
    /\ space = [w \in Pages |-> Unmapped]
    /\ asked = {}
    /\ status = "SUCCESS"

Ask(r) ==
    /\ asked = {}
    /\ asked' = {r}
    /\ UNCHANGED <<space, status>>

\* The whole region of the request now shows the physical pages asked for.
Map(r) ==
    /\ r \in asked
    /\ asked' = {}
    /\ status' = "SUCCESS"
    /\ space' = [w \in Pages |->
                   IF Covers(r.va, r.end, w)
                   THEN Target(r.pa + Low(w, r.end), r.rw)
                   ELSE space[w]]

Fail ==
    /\ asked # {}
    /\ asked' = {}
    /\ status' = "OUT_OF_RESOURCES"
    /\ UNCHANGED space

\* There was no memory for the first table: nothing can ever be mapped.
NoTables ==
    /\ asked = {}
    /\ status' = "OUT_OF_RESOURCES"
    /\ UNCHANGED <<space, asked>>

Next == Fail \/ NoTables \/ \E r \in Requests : Ask(r) \/ Map(r)

Spec == Init /\ [][Next]_vars
=============================================================================
