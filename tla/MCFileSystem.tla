---------------------------- MODULE MCFileSystem ----------------------------
(* Two volumes. The first has a file and a directory, which has the entries   *)
(* "." and "..", a directory of its own and a file; the second is empty.      *)
EXTENDS FileSystem

File(n) == [kind |-> "file", node |-> n]
Dir(n) == [kind |-> "dir", node |-> n]
Dot(n) == [kind |-> "dot", node |-> n]

MCTree == [root |-> <<Dir("efi"), File("kernel.exe")>>,
           efi  |-> <<Dot("efi"), Dot("root"), Dir("boot"), File("log")>>,
           boot |-> <<Dot("boot"), Dot("efi")>>,
           data |-> <<>>]
MCVolumes == <<"root", "data">>
=============================================================================
