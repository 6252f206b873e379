------------------------------ MODULE DiskImage ------------------------------
(***************************************************************************)
(* The file system of p6 (fs.cpp) on a disk that create_fs.cpp formatted.  *)
(* An operation writes the free block list and then the inode.  The second *)
(* write stays in the stream's buffer until the next operation seeks, so a *)
(* program that is killed there leaves half of an operation on the disk.   *)
(* No file is larger than the eight block pointers of an inode.            *)
(***************************************************************************)
EXTENDS Integers, Sequences, FiniteSets

CONSTANTS NBlocks,      \* blocks of the disk, 128 in the code; block 0 is the super block
          NInodes,      \* 16
          FileNames, Sizes, Values,
          LongNames     \* the names of eight characters, stored without a final NUL

ASSUME ImageAssumption == NBlocks \in Nat \ {0} /\ NInodes \in Nat /\ Sizes \subseteq Nat

DiskBlocks == 0 .. NBlocks - 1
Inodes == 1 .. NInodes
BlockNums == UNION {0 .. size : size \in Sizes}    \* the blocks of a file, and one too many
FreeInode == [used |-> FALSE, name |-> CHOOSE n \in FileNames : TRUE, blocks |-> <<>>]
NoWrite == [inode |-> 0]

VARIABLES blocklist,     \* the free block list on disk: TRUE for a block in use
          inodes,       \* the inodes on disk; size is Len(blocks)
          contents,     \* the contents of the blocks
          buffered,     \* the inode that waits in the stream's buffer
          last,         \* what was last written to each block of a file, by inode
          torn          \* a deletion was cut in half

imageVars == <<blocklist, inodes, contents, buffered, last, torn>>

\* create_fs: all blocks are zeroed, and the super block is in use.
ImageInit ==
    /\ blocklist = [b \in DiskBlocks |-> b = 0]
    /\ inodes = [i \in Inodes |-> FreeInode]
    /\ contents = [b \in DiskBlocks |-> 0]
    /\ buffered = NoWrite
    /\ last = [i \in Inodes |-> <<>>]
    /\ torn = FALSE

\* Every operation begins with a seek, which empties the stream's buffer.
Current ==
    IF buffered = NoWrite THEN inodes ELSE [inodes EXCEPT ![buffered.inode] = buffered.value]
Flushed == inodes' = Current /\ buffered' = NoWrite
Buffer(i, inode) == inodes' = Current /\ buffered' = [inode |-> i, value |-> inode]

\* The free inodes, and the ones in use that have a name, of which an operation
\* takes the first.  (The loops read on to byte 1024.  What they take for the
\* inodes 17 to 19 has no name there, so that none matches, and create_file
\* refuses an inode past the 16th.)
UnusedInodes == {i \in Inodes : ~Current[i].used}
Named(name) == {i \in Inodes : Current[i].used /\ Current[i].name = name}

\* delete_file compares eight characters, read and write up to the NUL: past a
\* name of eight they come to the size, which is 0 for a file without blocks.
Matches(name) == {i \in Named(name) : name \in LongNames => Current[i].blocks = <<>>}
FirstInode(is) == CHOOSE i \in is : \A j \in is : i <= j

FreeBlocks == {b \in DiskBlocks : ~blocklist[b]}

AnyBlocks(size) == [k \in 1 .. size |-> CHOOSE b \in DiskBlocks \ {0} : TRUE]     \* mutant

\* The `size' lowest free blocks, in order.
Allocated(size) ==
    [k \in 1 .. size |-> CHOOSE b \in FreeBlocks : Cardinality({c \in FreeBlocks : c < b}) = k - 1]

create_file(name, size) ==
    LET i == FirstInode(UnusedInodes)
        blocks == Allocated(size)
    IN  IF Cardinality(FreeBlocks) < size \/ UnusedInodes = {}
        THEN Flushed /\ UNCHANGED <<blocklist, contents, last, torn>>
        ELSE /\ blocklist' = [b \in DiskBlocks |-> blocklist[b] \/ \E k \in 1 .. size : blocks[k] = b]
             /\ Buffer(i, [used |-> TRUE, name |-> name, blocks |-> blocks])
             /\ last' = [last EXCEPT ![i] = [k \in 1 .. size |-> contents[blocks[k]]]]
             /\ UNCHANGED <<contents, torn>>

\* What is left in an inode that is not in use is never read.
delete_file(name) ==
    LET i == FirstInode(Named(name))
        blocks == Current[i].blocks
    IN  IF Named(name) = {} THEN Flushed /\ UNCHANGED <<blocklist, contents, last, torn>>
        ELSE /\ blocklist' = [b \in DiskBlocks |-> blocklist[b] /\ \A k \in DOMAIN blocks : blocks[k] # b]
             /\ Buffer(i, FreeInode)
             /\ last' = [last EXCEPT ![i] = <<>>]
             /\ UNCHANGED <<contents, torn>>

\* ls and read begin with a seek, and leave the disk as it is.
read ==
    /\ Flushed
    /\ UNCHANGED <<blocklist, contents, last, torn>>

\* A block is too large for the stream's buffer and goes to the disk at once.
write(name, blockNum, v) ==
    LET i == FirstInode(Matches(name))
        addr == Current[i].blocks[blockNum + 1]
    IN  /\ Flushed
        /\ IF Matches(name) = {} \/ blockNum >= Len(Current[i].blocks) THEN UNCHANGED <<contents, last>>
           ELSE /\ contents' = [contents EXCEPT ![addr] = v]
                /\ last' = [last EXCEPT ![i][blockNum + 1] = v]
        /\ UNCHANGED <<blocklist, torn>>

\* The program is killed, or the machine stops, before the buffer is written.
Killed ==
    /\ buffered # NoWrite
    /\ torn' = ~buffered.value.used
    /\ buffered' = NoWrite
    /\ UNCHANGED <<blocklist, inodes, contents, last>>

\* After a deletion cut in half nothing is said of the disk, and the model stops.
ImageNext ==
    /\ ~torn
    /\ \/ \E name \in FileNames, size \in Sizes : create_file(name, size)
       \/ \E name \in FileNames : delete_file(name)
       \/ \E name \in FileNames, k \in BlockNums, v \in Values : write(name, k, v)
       \/ read
       \/ Killed

ImageSpec == ImageInit /\ [][ImageNext]_imageVars
-----------------------------------------------------------------------------
\* Unless a deletion was cut in half, which leaves a file whose blocks count as
\* free: a block of a file is marked in use, belongs to no other file and is not
\* the super block, and holds what was last written to it through that file.
\* A creation cut in half only loses blocks.
ImageSound ==
    ~torn => \A i \in Inodes : Current[i].used =>
        LET blocks == Current[i].blocks
        IN  \A k \in DOMAIN blocks :
              /\ blocks[k] # 0 /\ blocklist[blocks[k]]
              /\ contents[blocks[k]] = last[i][k]
              /\ \A j \in Inodes : Current[j].used => \A m \in DOMAIN Current[j].blocks :
                    Current[j].blocks[m] = blocks[k] => j = i /\ m = k
=============================================================================
