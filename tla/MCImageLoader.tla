--------------------------- MODULE MCImageLoader ---------------------------
(* Images of five words of three bits: the headers, a section of two words    *)
(* and one with a word of data, or more data than size, or no data.           *)
EXTENDS ImageLoader

Text == [va |-> 1, data |-> <<6, 3>>, size |-> 2]
Data == [va |-> 3, data |-> <<7>>, size |-> 2]
Bss == [va |-> 3, data |-> <<>>, size |-> 1]
Padded == [va |-> 3, data |-> <<2, 5>>, size |-> 1]

Fix(o) == [type |-> "DIR64", offset |-> o]
Pad == [type |-> "ABSOLUTE", offset |-> 0]
Other == [type |-> "HIGHLOW", offset |-> 0]
Block(p, es) == [ends |-> FALSE, page |-> p, entries |-> es]
EndBlock == [ends |-> TRUE, page |-> 0, entries |-> <<>>]

\* A block follows the directory, which ends after the second one.
Plain == [dos |-> TRUE, nt |-> TRUE, x64 |-> TRUE, magic |-> TRUE, cut |-> FALSE,
          base |-> 3, sections |-> <<Text, Data>>, directory |-> TRUE,
          blocks |-> <<Block(1, <<Fix(0), Pad, Fix(1)>>), Block(3, <<Fix(0)>>),
                       Block(1, <<Fix(0)>>)>>,
          covered |-> 2]

MCFiles == {Plain,
    \* The directory is longer than the relocations, which a block of size 0 ends.
    [Plain EXCEPT !.sections = <<Text, Padded>>, !.covered = 3,
                  !.blocks = <<Block(3, <<Fix(1)>>), EndBlock, Block(1, <<Fix(1)>>)>>],
    [Plain EXCEPT !.sections = <<Text, Bss>>, !.covered = 1,
                  !.blocks = <<Block(1, <<Fix(1), Other, Fix(0)>>)>>],
    [Plain EXCEPT !.directory = FALSE],
    [Plain EXCEPT !.x64 = FALSE, !.blocks = <<>>, !.covered = 0],
    [Plain EXCEPT !.x64 = FALSE, !.magic = FALSE],
    [Plain EXCEPT !.nt = FALSE],
    [Plain EXCEPT !.cut = TRUE]}
=============================================================================
