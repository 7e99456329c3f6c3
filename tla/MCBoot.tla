------------------------------- MODULE MCBoot -------------------------------
(* Tables of three entries, 17 frames: one huge page of nine frames, two      *)
(* large pages of three and two pages, so that DirectMapRange uses all sizes. *)
EXTENDS Boot

MCRequests == {r \in [va : Pages, pa : Frames, end : 1..3, rw : BOOLEAN] :
                  Low(r.pa, r.end) = 0 /\ r.pa + Span(r.end) <= FrameCount}

MCZeroed == {ZeroPage}
MCCode == [ZeroPage EXCEPT ![1] = [p |-> TRUE, rw |-> TRUE, ps |-> FALSE, frame |-> 9]]
MCSections == <<[rva |-> 1, size |-> 1, raw |-> 0, writable |-> TRUE]>>

\* The machine is one of those the theorems about the boot sequence speak of.
ASSUME MCBootAssumption == SafeLayout /\ EnoughPages
=============================================================================
