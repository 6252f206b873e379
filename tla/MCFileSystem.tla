---------------------------- MODULE MCFileSystem ----------------------------
(***************************************************************************)
(* The file system for TLC.  Names and contents share no state in the      *)
(* models, so a behaviour runs one of the two, which `part' says.  The     *)
(* names run with links, with working directories, or with "." and "..".   *)
(***************************************************************************)
EXTENDS Names, FileBlocks, TLC

CONSTANT Parts

VARIABLE part

Abs(elems) == [abs |-> TRUE, elems |-> elems]
Rel(elems) == [abs |-> FALSE, elems |-> elems]

\* Two processes make, fill, enter and remove a directory "a" with a file "b",
DirRequests ==
    {[op |-> "mkdir", path |-> Abs(<<"a">>)],
     [op |-> "create", path |-> Abs(<<"a", "b">>)],
     [op |-> "unlink", path |-> Abs(<<"a">>)],
     [op |-> "chdir", path |-> Abs(<<"a">>)],
     [op |-> "open", path |-> Rel(<<"b">>), mode |-> "rdonly"]}

\* or make, fill and remove it and link the file elsewhere,
LinkRequests ==
    {[op |-> "mkdir", path |-> Abs(<<"a">>)],
     [op |-> "create", path |-> Abs(<<"a", "b">>)],
     [op |-> "unlink", path |-> Abs(<<"a">>)],
     [op |-> "unlink", path |-> Abs(<<"a", "b">>)],
     [op |-> "link", path |-> Abs(<<"a", "b">>), new |-> Abs(<<"b">>)]}

\* or make "a" and a directory "b" in it, enter it, remove both, and go on from
\* there to "." and "..".
DotRequests ==
    {[op |-> "mkdir", path |-> Abs(<<"a">>)],
     [op |-> "mkdir", path |-> Abs(<<"a", "b">>)],
     [op |-> "chdir", path |-> Abs(<<"a", "b">>)],
     [op |-> "unlink", path |-> Abs(<<"a", ".", "b">>)],
     [op |-> "unlink", path |-> Abs(<<"a">>)],
     [op |-> "mkdir", path |-> Rel(<<"..", "a">>)]}

MCRequests == DirRequests \cup LinkRequests \cup DotRequests

Of(p) == [names |-> DirRequests, links |-> LinkRequests, dots |-> DotRequests][p]

MCDisks == {[size |-> 7, ninodes |-> 4], [size |-> 8, ninodes |-> 3]}

\* One of the disks is enough for the behaviours of the names.
Init ==
    /\ part \in Parts
    /\ NamesInit /\ BlocksInit
    /\ part # "blocks" => sb.ninodes = 3

NamesPart ==
    /\ part # "blocks" /\ NamesNext
    /\ \A u \in Users : call'[u].req \in Of(part) \cup {Outside.req}
    /\ UNCHANGED <<part, blocksVars>>

BlocksPart == part = "blocks" /\ BlocksNext /\ UNCHANGED <<part, namesVars>>

Next == NamesPart \/ BlocksPart

Spec == Init /\ [][Next]_<<part, namesVars, blocksVars>>

Symmetry == Permutations(Users) \cup Permutations(Writers)
=============================================================================
