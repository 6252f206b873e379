----------------------------- MODULE FileBlocks -----------------------------
(***************************************************************************)
(* The contents of files in xv6-public: the bitmap, bmap, itrunc, readi    *)
(* and writei (fs.c) under filewrite and fileread (file.c), on a disk that *)
(* mkfs makes first.  Every block that is allocated, copied or freed is a  *)
(* step, so that two processes on two inodes meet in the bitmap.  A block  *)
(* is BSIZE cells; an indirect block has block numbers in its cells.       *)
(* Names and links are in Names: an inode here has a name or has none.     *)
(***************************************************************************)
EXTENDS Integers, Sequences, FiniteSets

CONSTANTS Writers, Nobody,      \* processes
          BSIZE, NDIRECT, NINDIRECT,
          NMeta,                \* blocks before the first data block
          Disks,                \* the sizes of the disk and of its inode table
          OpenFiles,            \* entries of ftable
          MaxChunk,             \* max of filewrite
          Sizes,                \* counts given to read and write
          Images                \* lengths of the file given to mkfs

\* A block number 0 is none, and an indirect block has room for its entries.
ASSUME BlocksAssumption ==
    /\ Nobody \notin Writers /\ OpenFiles \subseteq Nat \ {0} /\ IsFiniteSet(OpenFiles)
    /\ BSIZE \in Nat \ {0} /\ NDIRECT \in Nat /\ NINDIRECT \in 0 .. BSIZE /\ NMeta \in Nat \ {0}
    /\ MaxChunk \in Nat \ {0} /\ Sizes \subseteq Nat /\ Images \subseteq Nat
    /\ Disks \subseteq [size : Nat, ninodes : Nat \ {0, 1, 2}]
    /\ \A d \in Disks : d.size > NMeta

MAXFILE == NDIRECT + NINDIRECT
Cells == 0 .. BSIZE - 1
ZeroBlock == [c \in Cells |-> 0]
NoAddrs == [k \in 0 .. NDIRECT |-> 0]
FreshInode == [used |-> TRUE, size |-> 0, addrs |-> NoAddrs]
FreeInode == [FreshInode EXCEPT !.used = FALSE]

VARIABLES sb,                   \* the super block, which mkfs wrote and readsb read
          mkfs,                 \* mkfs: the length of the file it is given, freeblock
          data, bitmap,         \* the disk's blocks, and the bits of those in use
          dip, ip,              \* the inodes on disk and in memory
          iowner,               \* who has ip->lock
          named,                \* the inodes with nlink > 0
          ftab,                 \* the open files: ip and off
          io,                   \* where a process is in filewrite or itrunc
          length,               \* reference: the bytes written to each inode
          blocksPanic           \* what balloc or bfree panicked with

blocksVars == <<sb, mkfs, data, bitmap, dip, ip, iowner, named, ftab, io, length, blocksPanic>>

Data == NMeta .. sb.size - 1
FileInums == 1 .. sb.ninodes - 1    \* 1 is the root directory

\* What is written at an offset of a file; a block number too, so that a block
\* which is not cleared makes a bad indirect block.
Byte(i, off) == NMeta + ((3 * i + off) % (sb.size - NMeta))
Written(i, n) == [k \in 1 .. n |-> Byte(i, k - 1)]

Idle == [pc |-> "idle", f |-> 0, i |-> 0, todo |-> 0, n |-> 0, off |-> 0, k |-> 0]
NoFile == [ip |-> 0, off |-> 0]
Min2(a, b) == IF a < b THEN a ELSE b
-----------------------------------------------------------------------------
\* mkfs clears the disk, allocates the root and one file, and appends to them
\* the root's entries ".", ".." and the file's, and the file's contents.
RootEntries == <<1, 1, 2>>

BlocksInit ==
    /\ sb \in Disks
    /\ \E n \in Images : mkfs = [n |-> n, freeblock |-> NMeta, done |-> FALSE]
    /\ data = [b \in Data |-> ZeroBlock]
    /\ bitmap = [b \in Data |-> FALSE]
    /\ dip = [i \in FileInums |-> IF i <= 2 THEN FreshInode ELSE FreeInode]
    /\ ip = dip
    /\ iowner = [i \in FileInums |-> Nobody]
    /\ named = {1, 2}
    /\ ftab = [f \in OpenFiles |-> NoFile]
    /\ io = [p \in Writers |-> Idle]
    /\ length = [i \in FileInums |-> 0]
    /\ blocksPanic = "no"

\* The address for block bn of an inode, or 0 if it has to be allocated.
Lookup(ino, bn) ==
    IF bn < NDIRECT THEN ino.addrs[bn]
    ELSE IF ino.addrs[NDIRECT] = 0 THEN 0 ELSE data[ino.addrs[NDIRECT]][bn - NDIRECT]

\* A new block b for block bn of an inode: the direct block or the indirect
\* block, or an entry of the indirect block, which is in blocks.
InInode(ino, bn) == bn < NDIRECT \/ ino.addrs[NDIRECT] = 0
InodeWith(ino, bn, b) ==
    IF InInode(ino, bn) THEN [ino EXCEPT !.addrs = [ino.addrs EXCEPT ![Min2(bn, NDIRECT)] = b]] ELSE ino
BlocksWith(blocks, ino, bn, b) ==
    IF InInode(ino, bn) THEN blocks
    ELSE [blocks EXCEPT ![ino.addrs[NDIRECT]] = [blocks[ino.addrs[NDIRECT]] EXCEPT ![bn - NDIRECT] = b]]

\* Where iappend is: the root first.
AppendsTo == IF dip[1].size < Len(RootEntries) THEN 1 ELSE 2
Appending == ~mkfs.done /\ dip[AppendsTo].size < (IF AppendsTo = 1 THEN Len(RootEntries) ELSE mkfs.n)

\* iappend takes the next block, of a disk that is large enough.
MkfsBmap ==
    LET i == AppendsTo
        bn == dip[i].size \div BSIZE
        b == mkfs.freeblock
    IN  /\ Appending /\ bn < MAXFILE /\ Lookup(dip[i], bn) = 0 /\ b < sb.size
        /\ mkfs' = [mkfs EXCEPT !.freeblock = b + 1]
        /\ dip' = [dip EXCEPT ![i] = InodeWith(dip[i], bn, b)] /\ ip' = dip'
        /\ data' = BlocksWith(data, dip[i], bn, b)
        /\ UNCHANGED <<sb, bitmap, iowner, named, ftab, io, length, blocksPanic>>

\* iappend of a cell.
MkfsCopy ==
    LET i == AppendsTo
        off == dip[i].size
        b == Lookup(dip[i], off \div BSIZE)
        x == IF i = 1 THEN RootEntries[off + 1] ELSE Byte(i, off)
    IN  /\ Appending /\ off \div BSIZE < MAXFILE /\ b # 0
        /\ data' = [data EXCEPT ![b] = [data[b] EXCEPT ![off % BSIZE] = x]]
        /\ dip' = [dip EXCEPT ![i] = [dip[i] EXCEPT !.size = off + 1]] /\ ip' = dip'
        /\ length' = [length EXCEPT ![i] = off + 1]
        /\ UNCHANGED <<sb, mkfs, bitmap, iowner, named, ftab, io, blocksPanic>>

\* The root's size is fixed and the bitmap written; the kernel can start.
RoundedUp(size) == (size \div BSIZE + 1) * BSIZE
BitsBelow(used) == [b \in Data |-> b < used]

MkfsEnd ==
    LET size == RoundedUp(dip[1].size)
    IN  /\ ~mkfs.done /\ ~Appending
        /\ mkfs' = [mkfs EXCEPT !.done = TRUE]
        /\ bitmap' = BitsBelow(mkfs.freeblock)
        /\ dip' = [dip EXCEPT ![1] = [dip[1] EXCEPT !.size = size]] /\ ip' = dip'
        /\ length' = [length EXCEPT ![1] = size]
        /\ UNCHANGED <<sb, data, iowner, named, ftab, io, blocksPanic>>
-----------------------------------------------------------------------------
In(p, label) == io[p].pc = label /\ blocksPanic = "no" /\ mkfs.done
Set(p, locals) == io' = [io EXCEPT ![p] = locals]

\* filewrite with a count above zero.
FileWrite(p, f, n) ==
    /\ In(p, "idle") /\ ftab[f] # NoFile /\ n > 0
    /\ Set(p, [Idle EXCEPT !.pc = "filewrite", !.f = f, !.i = ftab[f].ip, !.todo = n])
    /\ UNCHANGED <<sb, mkfs, data, bitmap, dip, ip, iowner, named, ftab, length, blocksPanic>>

\* One round of filewrite: ilock, and the tests of writei.
BeginChunk(p) ==
    LET w == io[p]
        n1 == Min2(w.todo, MaxChunk)
        off == ftab[w.f].off
    IN  /\ In(p, "filewrite") /\ iowner[w.i] = Nobody
        /\ \/ /\ off > ip[w.i].size \/ off + n1 > MAXFILE * BSIZE
              /\ Set(p, Idle)
              /\ UNCHANGED iowner
           \/ /\ off <= ip[w.i].size /\ off + n1 <= MAXFILE * BSIZE
              /\ Set(p, [w EXCEPT !.pc = "writei", !.n = n1, !.off = off])
              /\ iowner' = [iowner EXCEPT ![w.i] = p]
        /\ UNCHANGED <<sb, mkfs, data, bitmap, dip, ip, named, ftab, length, blocksPanic>>

FreeBlocks == {b \in Data : ~bitmap[b]}

\* balloc: the first block whose bit is clear.
FreeBlock == CHOOSE b \in FreeBlocks : \A c \in FreeBlocks : b <= c

NotCleared(b, where) == where                                                 \* mutant

\* balloc's bzero.
Cleared(b, where) == [where EXCEPT ![b] = ZeroBlock]

\* bmap allocates: the direct block, the indirect block, or an entry of it.
Bmap(p) ==
    LET w == io[p]
        bn == w.off \div BSIZE
        b == FreeBlock
    IN  /\ In(p, "writei") /\ w.n > 0 /\ Lookup(ip[w.i], bn) = 0
        /\ \/ /\ FreeBlocks = {}
              /\ blocksPanic' = "balloc: out of blocks"
              /\ UNCHANGED <<data, bitmap, ip>>
           \/ /\ FreeBlocks # {}
              /\ bitmap' = [bitmap EXCEPT ![b] = TRUE]
              /\ ip' = [ip EXCEPT ![w.i] = InodeWith(ip[w.i], bn, b)]
              /\ data' = BlocksWith(Cleared(b, data), ip[w.i], bn, b)
              /\ UNCHANGED blocksPanic
        /\ UNCHANGED <<sb, mkfs, dip, iowner, named, ftab, io, length>>

\* writei copies into one block.
CopyIn(p) ==
    LET w == io[p]
        b == Lookup(ip[w.i], w.off \div BSIZE)
        m == Min2(w.n, BSIZE - (w.off % BSIZE))
        to == (w.off % BSIZE) .. (w.off % BSIZE) + m - 1
    IN  /\ In(p, "writei") /\ w.n > 0 /\ b # 0
        /\ data' = [data EXCEPT ![b] =
                       [c \in Cells |-> IF c \in to THEN Byte(w.i, w.off + c - (w.off % BSIZE))
                                       ELSE @[c]]]
        /\ Set(p, [w EXCEPT !.off = @ + m, !.n = @ - m])
        /\ UNCHANGED <<sb, mkfs, bitmap, dip, ip, iowner, named, ftab, length, blocksPanic>>

GrownInMemory(i, off) == dip                                                  \* mutant

\* The end of writei: a file that has grown gets its inode written.
Iupdated(i, off) ==
    IF off > ip[i].size THEN [dip EXCEPT ![i] = [ip[i] EXCEPT !.size = off]] ELSE dip

\* writei returns, filewrite moves the file's offset and goes round.
EndChunk(p) ==
    LET w == io[p]
        from == ftab[w.f].off
        left == w.todo - (w.off - from)
    IN  /\ In(p, "writei") /\ w.n = 0
        /\ ip' = [ip EXCEPT ![w.i].size = IF w.off > @ THEN w.off ELSE @]
        /\ dip' = Iupdated(w.i, w.off)
        /\ ftab' = [ftab EXCEPT ![w.f].off = w.off]
        /\ iowner' = [iowner EXCEPT ![w.i] = Nobody]
        /\ length' = [length EXCEPT ![w.i] = IF w.off > @ THEN w.off ELSE @]
        /\ Set(p, IF left = 0 THEN Idle ELSE [w EXCEPT !.pc = "filewrite", !.todo = left])
        /\ UNCHANGED <<sb, mkfs, data, bitmap, named, blocksPanic>>

\* readi, for an offset within the file.
Readi(ino, off, n) ==
    [k \in 1 .. Min2(n, ino.size - off) |->
        data[Lookup(ino, (off + k - 1) \div BSIZE)][(off + k - 1) % BSIZE]]

\* fileread moves the offset by what it got.
FileRead(p, f, n) ==
    /\ In(p, "idle") /\ ftab[f] # NoFile /\ iowner[ftab[f].ip] = Nobody
    /\ ftab' = [ftab EXCEPT ![f].off = @ + Len(Readi(ip[ftab[f].ip], @, n))]
    /\ UNCHANGED <<sb, mkfs, data, bitmap, dip, ip, iowner, named, io, length, blocksPanic>>
-----------------------------------------------------------------------------
Refs(i, files) == {f \in OpenFiles : files[f].ip = i}
UnusedFiles == {f \in OpenFiles : ftab[f] = NoFile}

\* sys_open: filealloc takes the first free entry.
OpenAt(i) ==
    LET f == CHOOSE f \in UnusedFiles : \A g \in UnusedFiles : f <= g
    IN  UnusedFiles # {} /\ ftab' = [ftab EXCEPT ![f] = [ip |-> i, off |-> 0]]
FileTableFull == UnusedFiles = {} /\ UNCHANGED ftab

OpenFile(p, i) ==
    /\ In(p, "idle") /\ i \in named \ {1}
    /\ OpenAt(i)
    /\ UNCHANGED <<sb, mkfs, data, bitmap, dip, ip, iowner, named, io, length, blocksPanic>>

\* ialloc takes the first free inode and clears it.  If there is no struct file,
\* sys_open fails and leaves the file it has created.
CreateFile(p, i) ==
    /\ In(p, "idle") /\ ~dip[i].used
    /\ \A j \in FileInums : j < i => dip[j].used
    /\ OpenAt(i) \/ FileTableFull
    /\ dip' = [dip EXCEPT ![i] = FreshInode]
    /\ ip' = [ip EXCEPT ![i] = FreshInode]
    /\ named' = named \cup {i}
    /\ length' = [length EXCEPT ![i] = 0]
    /\ UNCHANGED <<sb, mkfs, data, bitmap, iowner, io, blocksPanic>>

\* iput: without name and file the inode is truncated.
Put(p, i, files, names) ==
    /\ ftab' = files /\ named' = names
    /\ IF i \notin names /\ Refs(i, files) = {}
       THEN /\ iowner' = [iowner EXCEPT ![i] = p]
            /\ Set(p, [Idle EXCEPT !.pc = "itrunc", !.i = i])
       ELSE UNCHANGED <<iowner, io>>

CloseFile(p, f) ==
    /\ In(p, "idle") /\ ftab[f] # NoFile /\ \A q \in Writers : io[q].f # f
    /\ Put(p, ftab[f].ip, [ftab EXCEPT ![f] = NoFile], named)
    /\ UNCHANGED <<sb, mkfs, data, bitmap, dip, ip, length, blocksPanic>>

UnlinkFile(p, i) ==
    /\ In(p, "idle") /\ i \in named \ {1} /\ iowner[i] = Nobody
    /\ Put(p, i, ftab, named \ {i})
    /\ UNCHANGED <<sb, mkfs, data, bitmap, dip, ip, length, blocksPanic>>

\* The k-th address itrunc comes to: direct ones, entries, the indirect block.
Addr(ino, k) ==
    IF k < NDIRECT THEN ino.addrs[k]
    ELSE IF ino.addrs[NDIRECT] = 0 THEN 0
    ELSE IF k < MAXFILE THEN data[ino.addrs[NDIRECT]][k - NDIRECT]
    ELSE ino.addrs[NDIRECT]

\* itrunc frees one block, which has to be in use.
Bfree(p) ==
    LET w == io[p]
        b == Addr(ip[w.i], w.k)
    IN  /\ In(p, "itrunc") /\ w.k <= MAXFILE
        /\ IF b # 0 /\ ~bitmap[b]
           THEN blocksPanic' = "freeing free block" /\ UNCHANGED <<bitmap, ip, io>>
           ELSE /\ bitmap' = IF b = 0 THEN bitmap ELSE [bitmap EXCEPT ![b] = FALSE]
                /\ ip' = IF w.k < NDIRECT THEN [ip EXCEPT ![w.i].addrs[w.k] = 0]
                         ELSE IF w.k = MAXFILE THEN [ip EXCEPT ![w.i].addrs[NDIRECT] = 0] ELSE ip
                /\ Set(p, [w EXCEPT !.k = @ + 1])
                /\ UNCHANGED blocksPanic
        /\ UNCHANGED <<sb, mkfs, data, dip, iowner, named, ftab, length>>

\* size = 0, type = 0, iupdate: the end of itrunc and of iput.
EndTrunc(p) ==
    LET w == io[p]
    IN  /\ In(p, "itrunc") /\ w.k > MAXFILE
        /\ ip' = [ip EXCEPT ![w.i] = [@ EXCEPT !.used = FALSE, !.size = 0]]
        /\ dip' = [dip EXCEPT ![w.i] = ip'[w.i]]
        /\ length' = [length EXCEPT ![w.i] = 0]
        /\ iowner' = [iowner EXCEPT ![w.i] = Nobody]
        /\ Set(p, Idle)
        /\ UNCHANGED <<sb, mkfs, data, bitmap, named, ftab, blocksPanic>>

BlocksNext ==
    \/ MkfsBmap \/ MkfsCopy \/ MkfsEnd
    \/ \E p \in Writers :
        \/ \E f \in OpenFiles, n \in Sizes : FileWrite(p, f, n) \/ FileRead(p, f, n)
        \/ BeginChunk(p) \/ Bmap(p) \/ CopyIn(p) \/ EndChunk(p)
        \/ \E i \in FileInums : OpenFile(p, i) \/ CreateFile(p, i) \/ UnlinkFile(p, i)
        \/ \E f \in OpenFiles : CloseFile(p, f)
        \/ Bfree(p) \/ EndTrunc(p)

BlocksSpec == BlocksInit /\ [][BlocksNext]_blocksVars
-----------------------------------------------------------------------------
\* The addresses an inode has, without those itrunc has come past.
Past(i) == IF \E p \in Writers : io[p].pc = "itrunc" /\ io[p].i = i
           THEN io[CHOOSE p \in Writers : io[p].pc = "itrunc" /\ io[p].i = i].k
           ELSE 0

Owned(i) == {k \in Past(i) .. MAXFILE : Addr(ip[i], k) # 0}

\* The blocks in use; mkfs writes the bitmap at its end.
Taken == {b \in Data : IF mkfs.done THEN bitmap[b] ELSE b < mkfs.freeblock}

\* A bit of the bitmap is set exactly while one inode has that block, once: no
\* block is in two files or twice in one, none is lost, and none that is free
\* is referred to, at every point of writes and truncations that run together;
\* so bfree never finds the block it is given free.
BlocksOwned ==
    LET owned == {o \in FileInums \X (0 .. MAXFILE) : o[2] \in Owned(o[1])}
        blocks == {Addr(ip[o[1]], o[2]) : o \in owned}
    IN  /\ blocks = Taken
        /\ Cardinality(owned) = Cardinality(blocks)
        /\ blocksPanic # "freeing free block"

\* An unlocked inode's copy on disk gives back the bytes that were written to
\* the file, in their places, whatever blocks were used before and for what.
ReadsBack ==
    \A i \in FileInums :
        iowner[i] = Nobody /\ dip[i].used =>
            /\ dip[i].size = length[i]
            /\ i # 1 => Readi(dip[i], 0, length[i]) = Written(i, length[i])
=============================================================================
