-------------------------- MODULE FileSystemProofs --------------------------
(***************************************************************************)
(* Names, inodes and the contents of files in xv6, for any number of       *)
(* processes, inodes, names, files and blocks and any calls: no name       *)
(* dangles, no inode in use is freed, every block has one owner, and what  *)
(* is read is what was written.                                            *)
(***************************************************************************)
EXTENDS Names, FileBlocks, FiniteSetTheorems, NaturalsInduction, SequenceTheorems, WellFoundedInduction, TLAPS

\* Where a process goes on: iput returns to ret.
InPut == {"put", "free", "drop"}
Resume(c) == IF c.pc \in InPut THEN c.ret ELSE c.pc

\* The labels at which w and ip are used, and those with an element of the path
\* left.
Looking == {"walk", "open", "create", "unlink", "link", "dirlink", "chdir"}
WithW == Looking \cup {"new", "erase", "refused", "exists"}
WithIp == {"existing", "new", "made", "erase", "unlinked", "dirlink", "exists", "linked", "linkbad",
           "newcwd"}
WithElem == {"walk", "create", "unlink", "dirlink", "new", "erase"}
Callers == {"user"} \cup WithW \cup WithIp
OkLabels == {"open", "create", "unlink", "link", "dirlink", "chdir"}

\* sys_link looks for the directory of the new name.
Linking(c) == Resume(c) = "walk" /\ c.ok = "dirlink"

Types == {"free", "dir", "file"}
Inode0 == Inums \cup {0}
DinodeType == [type : Types, nlink : Int, ents : [DirElems -> Inode0]]
InodeType == [ref : Int, valid : BOOLEAN, type : Types, nlink : Int, lock : Users \cup {NoUser}]
CallType == [pc : Callers \cup InPut, req : Requests \cup {[op |-> "none"]}, w : Inode0,
             rest : Seq(DirElems), par : BOOLEAN, ok : Callers, bad : Callers, ip : Inode0,
             put : Inode0, ret : Callers]

NamesTypes ==
    /\ dinode \in [Inums -> DinodeType] /\ inode \in [Inums -> InodeType]
    /\ cwd \in [Users -> Inode0] /\ ofile \in [Users -> Inode0] /\ call \in [Users -> CallType]

\* The locals of a call at each of its labels.
FrameRight(c) ==
    LET e == Resume(c)
    IN  /\ c.pc = "user" => c = Outside
        /\ c.w # 0 <=> e \in WithW
        /\ c.ip # 0 <=> e \in WithIp \/ Linking(c)
        /\ c.put # 0 <=> c.pc \in InPut
        /\ e \in WithElem => c.rest # <<>>
        /\ e \in {"new", "erase"} => Head(c.rest) \in Elems
        /\ e = "walk" => /\ c.ok \in OkLabels /\ (c.par <=> c.ok \in {"create", "unlink", "dirlink"})
                         /\ c.bad = IF c.ok = "dirlink" THEN "linkbad" ELSE "user"
        /\ e = "link" \/ (e = "walk" /\ c.ok = "link") => c.req \in Requests /\ c.req.op = "link"

\* The locks of a call: those of w or ip, and of the inode that iput frees.
Holds(c, i) ==
    \/ i = c.w /\ Resume(c) \in {"new", "erase", "refused", "exists"}
    \/ i = c.ip /\ Resume(c) \in {"made", "unlinked"}
    \/ i = c.put /\ c.pc = "free"

\* A pointer that keeps the inode: all but that of iput after its test.
Keeps(p, i) ==
    \/ i = cwd[p] \/ i = ofile[p] \/ i = call[p].w \/ i = call[p].ip
    \/ i = call[p].put /\ call[p].pc # "drop"

To(i) == {t \in Users \X (1 .. 5) : Pointers(t[1])[t[2]] = i}

RefsRight == \A i \in Inums : inode[i].ref = Cardinality(To(i))

\* The cache has what the disk has; a free inode is in no use.
CacheRight ==
    \A i \in Inums :
        /\ inode[i].valid => inode[i].type = dinode[i].type /\ inode[i].nlink = dinode[i].nlink
        /\ dinode[i].type = "free" => ~inode[i].valid /\ dinode[i].nlink = 0
        /\ dinode[i].type # "dir" => dinode[i].ents = NoEnts

\* What a process in a call relies on: its locals, its locks, the inodes it keeps,
\* that nobody else can come to the inode it frees, the types of what it has
\* looked up, and the entry and the new inode it is about to write.
CwdRight(p) == cwd[p] = 0 <=> Resume(call[p]) = "newcwd"
LocksRight(p) == \A i \in Inums : Holds(call[p], i) => inode[i].lock = p /\ inode[i].valid
KeepsRight(p) == \A i \in Inums : Keeps(p, i) => dinode[i].type # "free"
FreeRight(p) ==
    call[p].pc = "free" => inode[call[p].put].ref = 1 /\ dinode[call[p].put].nlink = 0
DirRight(p) ==
    Resume(call[p]) \in {"create", "unlink", "dirlink", "new", "erase"}
        => dinode[call[p].w].type = "dir"
FileRight(p) ==
    Resume(call[p]) = "dirlink" \/ Linking(call[p]) => dinode[call[p].ip].type = "file"
EraseRight(p) ==
    Resume(call[p]) = "erase" => dinode[call[p].w].ents[Head(call[p].rest)] = call[p].ip
NewRight(p) ==
    Resume(call[p]) = "new" =>
        /\ dinode[call[p].w].ents[Head(call[p].rest)] = 0
        /\ \A i \in Inums : i = call[p].ip =>
             /\ dinode[i] = [type |-> TypeOf(call[p].req.op), nlink |-> 0, ents |-> NoEnts]
             /\ ~inode[i].valid
             /\ \A q \in Users \ {p} : ~Keeps(q, i)
             /\ cwd[p] # i /\ ofile[p] # i /\ call[p].w # i

UserRight(p) ==
    /\ FrameRight(call[p]) /\ CwdRight(p) /\ LocksRight(p) /\ KeepsRight(p) /\ FreeRight(p)
    /\ DirRight(p) /\ FileRight(p) /\ EraseRight(p) /\ NewRight(p)

\* A link that is counted and has no name yet, or no longer.
Pends(c) == Resume(c) \in {"dirlink", "exists", "linkbad", "unlinked"} \/ Linking(c)
Pending(i) == {p \in Users : call[p].ip = i /\ Pends(call[p])}

LinksCounted ==
    \A i \in Inums :
        Cardinality(Named(i)) + Cardinality(Children(i)) + Cardinality(Pending(i))
            + (IF i = Root THEN 1 ELSE 0) <= dinode[i].nlink

RootRight == dinode[Root].type = "dir"

\* A directory has one name at most, in the directory its ".." says.
TreeRight ==
    /\ \A d \in Inums, n \in Elems : dinode[d].ents[n] # d /\ dinode[d].ents[n] # Root
    /\ \A d, i \in Inums, n \in Elems : dinode[i].type = "dir" /\ dinode[d].ents[n] = i =>
         /\ dinode[i].ents[".."] = d
         /\ \A m \in Elems : dinode[d].ents[m] = i => m = n

NamesInv ==
    /\ NamesTypes /\ RefsRight /\ CacheRight /\ (\A p \in Users : UserRight(p))
    /\ LinksCounted /\ RootRight /\ TreeRight
-----------------------------------------------------------------------------
\* Inode numbers, labels and empty things.
LEMMA Numbers == /\ Root \in Inums /\ 0 \notin Inums /\ Inums \subseteq Int /\ Root # 0
                 /\ Elems \subseteq DirElems /\ ".." \in DirElems /\ "." \in DirElems
                 /\ "." \notin Elems /\ ".." \notin Elems
                 /\ NoEnts \in [DirElems -> Inode0] /\ \A n \in DirElems : NoEnts[n] = 0
                 /\ NoUser \notin Users
  BY NamesAssumption DEF Root, Inums, DirElems, NoEnts, Inode0

LEMMA OutsideRight ==
    /\ Outside \in CallType /\ Outside.pc = "user" /\ Outside.w = 0 /\ Outside.ip = 0
    /\ Outside.put = 0 /\ Resume(Outside) = "user" /\ FrameRight(Outside)
    /\ \A i \in Inums : ~Holds(Outside, i)
    /\ ~Pends(Outside) /\ ~Linking(Outside)
<1>1. /\ Outside \in CallType /\ Outside.pc = "user" /\ Outside.w = 0 /\ Outside.ip = 0
      /\ Outside.put = 0 /\ Outside.ret = "user" /\ Outside.rest = <<>>
  BY DEF Outside, CallType, Callers, WithW, WithIp, Looking, InPut, Inode0
<1>2. Resume(Outside) = "user"
  BY <1>1 DEF Resume, InPut
<1>3. ~Pends(Outside) /\ ~Linking(Outside) /\ \A i \in Inums : ~Holds(Outside, i)
  BY <1>1, <1>2 DEF Pends, Linking, Holds
<1>4. FrameRight(Outside)
  BY <1>1, <1>2, <1>3 DEF FrameRight, WithW, WithIp, Looking, InPut, WithElem
<1> QED
  BY <1>1, <1>2, <1>3, <1>4

\* How often a process points to an inode.
One(b) == IF b THEN 1 ELSE 0
Count(t, i) == One(t[1] = i) + One(t[2] = i) + One(t[3] = i) + One(t[4] = i) + One(t[5] = i)

Mine(p, t, i) == {x \in {p} \X (1 .. 5) : t[x[2]] = i}

LEMMA CountMine ==
    ASSUME NEW p, NEW t, NEW i
    PROVE  /\ IsFiniteSet(Mine(p, t, i)) /\ Cardinality(Mine(p, t, i)) = Count(t, i)
           /\ Count(t, i) \in Nat
<1> DEFINE M(n) == {x \in {p} \X (1 .. n) : t[x[2]] = i}
<1>1. IsFiniteSet(M(0)) /\ Cardinality(M(0)) = 0
  <2>1. M(0) = {}
    OBVIOUS
  <2> QED
    BY <2>1, FS_EmptySet
<1>2. ASSUME NEW n \in 0 .. 4, IsFiniteSet(M(n))
      PROVE  /\ IsFiniteSet(M(n + 1))
             /\ Cardinality(M(n + 1)) = Cardinality(M(n)) + One(t[n + 1] = i)
             /\ Cardinality(M(n)) \in Nat
  <2>1. M(n + 1) = IF t[n + 1] = i THEN M(n) \cup {<<p, n + 1>>} ELSE M(n)
    <3>1. \A x : x \in M(n + 1) <=> x \in M(n) \/ (x = <<p, n + 1>> /\ t[n + 1] = i)
      OBVIOUS
    <3> QED
      BY <3>1
  <2>2. <<p, n + 1>> \notin M(n)
    OBVIOUS
  <2> HIDE DEF M
  <2> QED
    BY <1>2, <2>1, <2>2, FS_AddElement, FS_CardinalityType DEF One
<1> HIDE DEF M
<1>3. IsFiniteSet(M(1)) /\ Cardinality(M(1)) = One(t[1] = i)
  BY <1>1, <1>2 DEF One
<1>4. IsFiniteSet(M(2)) /\ Cardinality(M(2)) = One(t[1] = i) + One(t[2] = i)
  BY <1>2, <1>3
<1>5. IsFiniteSet(M(3)) /\ Cardinality(M(3)) = One(t[1] = i) + One(t[2] = i) + One(t[3] = i)
  BY <1>2, <1>4
<1>6. IsFiniteSet(M(4)) /\ Cardinality(M(4)) = One(t[1] = i) + One(t[2] = i) + One(t[3] = i) + One(t[4] = i)
  BY <1>2, <1>5
<1>7. IsFiniteSet(M(5)) /\ Cardinality(M(5)) = Count(t, i)
  BY <1>2, <1>6 DEF Count
<1>8. Count(t, i) \in Nat
  BY DEF Count, One
<1> QED
  BY <1>7, <1>8 DEF M, Mine

\* The pointers to an inode are those of one process and those of the others.
Pointing(P, i) == {x \in Users \X (1 .. 5) : P[x[1]][x[2]] = i}

SameBut(P, Q, p) == \A q \in Users \ {p} : P[q] = Q[q]

LEMMA CountStep ==
    ASSUME NEW P, NEW Q, NEW p \in Users, NEW i, SameBut(P, Q, p)
    PROVE  /\ IsFiniteSet(Pointing(P, i)) /\ Cardinality(Pointing(P, i)) \in Nat
           /\ Count(P[p], i) <= Cardinality(Pointing(P, i))
           /\ Cardinality(Pointing(Q, i)) =
                Cardinality(Pointing(P, i)) - Count(P[p], i) + Count(Q[p], i)
<1> DEFINE others == {x \in (Users \ {p}) \X (1 .. 5) : P[x[1]][x[2]] = i}
           before == Pointing(P, i)
           after == Pointing(Q, i)
<1>1. IsFiniteSet(others)
  <2>1. IsFiniteSet(Users \ {p}) /\ IsFiniteSet(1 .. 5)
    <3>1. Users \ {p} \subseteq Users
      OBVIOUS
    <3>2. IsFiniteSet(Users \ {p})
      BY <3>1, NamesAssumption, FS_Subset
    <3>3. 1 \in Int /\ 5 \in Int
      OBVIOUS
    <3>4. IsFiniteSet(1 .. 5)
      BY <3>3, FS_Interval, Zenon
    <3> QED
      BY <3>2, <3>4
  <2>2. IsFiniteSet((Users \ {p}) \X (1 .. 5))
    BY <2>1, FS_Product
  <2> QED
    BY <2>2, FS_Subset
<1>2. before = others \cup Mine(p, P[p], i) /\ others \cap Mine(p, P[p], i) = {}
  BY DEF Mine, Pointing
<1>3. after = others \cup Mine(p, Q[p], i) /\ others \cap Mine(p, Q[p], i) = {}
  BY DEF Mine, Pointing, SameBut
<1>4. /\ IsFiniteSet(Mine(p, P[p], i)) /\ Cardinality(Mine(p, P[p], i)) = Count(P[p], i) /\ Count(P[p], i) \in Nat
      /\ IsFiniteSet(Mine(p, Q[p], i)) /\ Cardinality(Mine(p, Q[p], i)) = Count(Q[p], i) /\ Count(Q[p], i) \in Nat
  <2>1. /\ IsFiniteSet(Mine(p, P[p], i)) /\ Cardinality(Mine(p, P[p], i)) = Count(P[p], i)
        /\ Count(P[p], i) \in Nat
    BY CountMine
  <2>2. /\ IsFiniteSet(Mine(p, Q[p], i)) /\ Cardinality(Mine(p, Q[p], i)) = Count(Q[p], i)
        /\ Count(Q[p], i) \in Nat
    BY CountMine
  <2> QED
    BY <2>1, <2>2
<1> HIDE DEF others, before, after
<1>5. IsFiniteSet(before) /\ Cardinality(before) = Cardinality(others) + Count(P[p], i)
  <2>1. Cardinality(others \cap Mine(p, P[p], i)) = 0
    BY <1>2, FS_EmptySet
  <2>2. /\ IsFiniteSet(others \cup Mine(p, P[p], i))
        /\ Cardinality(others \cup Mine(p, P[p], i)) =
             Cardinality(others) + Cardinality(Mine(p, P[p], i)) - Cardinality(others \cap Mine(p, P[p], i))
    BY <1>1, <1>4, FS_Union
  <2>3. Cardinality(others) \in Nat
    BY <1>1, FS_CardinalityType
  <2> QED
    BY <1>2, <1>4, <2>1, <2>2, <2>3
<1>6. IsFiniteSet(after) /\ Cardinality(after) = Cardinality(others) + Count(Q[p], i)
  <2>1. Cardinality(others \cap Mine(p, Q[p], i)) = 0
    BY <1>3, FS_EmptySet
  <2>2. /\ IsFiniteSet(others \cup Mine(p, Q[p], i))
        /\ Cardinality(others \cup Mine(p, Q[p], i)) =
             Cardinality(others) + Cardinality(Mine(p, Q[p], i)) - Cardinality(others \cap Mine(p, Q[p], i))
    BY <1>1, <1>4, FS_Union
  <2>3. Cardinality(others) \in Nat
    BY <1>1, FS_CardinalityType
  <2> QED
    BY <1>3, <1>4, <2>1, <2>2, <2>3
<1>7. Cardinality(others) \in Nat
  BY <1>1, FS_CardinalityType
<1> QED
  BY <1>4, <1>5, <1>6, <1>7 DEF before, after

\* The pointers of two processes to an inode are counted in its references.
LEMMA CountTwo ==
    ASSUME NEW P, NEW p \in Users, NEW q \in Users, p # q, NEW i
    PROVE  Count(P[p], i) + Count(P[q], i) <= Cardinality(Pointing(P, i))
<1> DEFINE all == Pointing(P, i)
           mp == Mine(p, P[p], i)
           mq == Mine(q, P[q], i)
<1>1. mp \cap mq = {} /\ mp \cup mq \subseteq all
  BY DEF Mine, Pointing
<1>2. IsFiniteSet(all)
  BY CountStep DEF SameBut
<1>3. /\ IsFiniteSet(mp) /\ Cardinality(mp) = Count(P[p], i) /\ Count(P[p], i) \in Nat
      /\ IsFiniteSet(mq) /\ Cardinality(mq) = Count(P[q], i) /\ Count(P[q], i) \in Nat
  BY CountMine
<1> HIDE DEF all, mp, mq
<1>4. Cardinality(mp \cap mq) = 0
  BY <1>1, FS_EmptySet
<1>5. Cardinality(mp \cup mq) = Cardinality(mp) + Cardinality(mq) - Cardinality(mp \cap mq)
  BY <1>3, FS_Union
<1>6. Cardinality(mp \cup mq) <= Cardinality(all)
  BY <1>1, <1>2, FS_Subset
<1> QED
  BY <1>3, <1>4, <1>5, <1>6 DEF all

\* A process points to an inode.
Points(p, i) ==
    i = cwd[p] \/ i = ofile[p] \/ i = call[p].w \/ i = call[p].ip \/ i = call[p].put

LEMMA CountPoints ==
    ASSUME NEW p, NEW i
    PROVE  /\ Count(Pointers(p), i) \in Nat
           /\ Points(p, i) <=> Count(Pointers(p), i) >= 1
           /\ Points(p, i) <=> Count(Pointers(p), i) # 0
  BY DEF Pointers, Points, Count, One

\* References are at least the pointers of one process, and of two.
LEMMA RefsCover ==
    ASSUME RefsRight, NEW i \in Inums, NEW p \in Users
    PROVE  /\ inode[i].ref \in Nat
           /\ Count(Pointers(p), i) <= inode[i].ref
           /\ \A q \in Users \ {p} : Count(Pointers(p), i) + Count(Pointers(q), i) <= inode[i].ref
<1> DEFINE P == [q \in Users |-> Pointers(q)]
           all == Pointing(P, i)
<1>1. all = To(i)
  BY DEF To, Pointing
<1>2. inode[i].ref = Cardinality(all)
  BY <1>1 DEF RefsRight
<1>3. P[p] = Pointers(p) /\ \A q \in Users \ {p} : P[q] = Pointers(q)
  OBVIOUS
<1> HIDE DEF P
<1>4. Cardinality(all) \in Nat /\ Count(P[p], i) <= Cardinality(all)
  BY CountStep DEF SameBut
<1>5. \A q \in Users \ {p} : Count(P[p], i) + Count(P[q], i) <= Cardinality(all)
  BY CountTwo
<1> QED
  BY <1>2, <1>3, <1>4, <1>5

\* The count stays right when a step of p changes it as p's pointers change.
LEMMA RefsKept ==
    ASSUME RefsRight, NEW p \in Users,
           \A q \in Users \ {p} : call'[q] = call[q] /\ cwd'[q] = cwd[q] /\ ofile'[q] = ofile[q],
           \A i \in Inums : inode'[i].ref = inode[i].ref - Count(Pointers(p), i) + Count(Pointers(p)', i)
    PROVE  RefsRight'
<1> SUFFICES ASSUME NEW i \in Inums
             PROVE  inode'[i].ref = Cardinality(To(i)')
  BY DEF RefsRight
<1>1. PICK P : P = [q \in Users |-> Pointers(q)]
  OBVIOUS
<1>2. PICK Q : Q = [q \in Users |-> Pointers(q)']
  OBVIOUS
<1>3. Pointing(P, i) = To(i) /\ Pointing(Q, i) = To(i)'
  BY <1>1, <1>2 DEF To, Pointing
<1>4. inode[i].ref = Cardinality(Pointing(P, i))
  BY <1>3 DEF RefsRight
<1>5. P[p] = Pointers(p) /\ Q[p] = Pointers(p)' /\ \A q \in Users \ {p} : P[q] = Q[q]
  BY <1>1, <1>2 DEF Pointers
<1>6. Cardinality(Pointing(Q, i)) = Cardinality(Pointing(P, i)) - Count(P[p], i) + Count(Q[p], i)
  <2>1. p \in Users /\ SameBut(P, Q, p)
    BY <1>5 DEF SameBut
  <2> QED
    BY ONLY <2>1, CountStep
<1>7. inode'[i].ref = inode[i].ref - Count(Pointers(p), i) + Count(Pointers(p)', i)
  OBVIOUS
<1> QED
  BY <1>3, <1>4, <1>5, <1>6, <1>7

\* What a step of p may do to the others: their locals stay; p comes to an inode
\* that has a link, is free or was p's already; it changes an inode only if it
\* was free or p keeps it and nobody else has it locked.
MovesEntry(p, i) ==
    /\ inode'[i].ref = inode[i].ref - Count(Pointers(p), i) + Count(Pointers(p)', i)
    /\ Points(p, i)' => Points(p, i) \/ dinode[i].nlink >= 1 \/ dinode[i].type = "free"
    /\ Keeps(p, i)' => Keeps(p, i) \/ dinode[i].nlink >= 1 \/ dinode[i].type = "free"
    /\ dinode'[i] # dinode[i] /\ dinode[i].type # "free"
         => Keeps(p, i) /\ inode[i].lock \in {NoUser, p}
    /\ dinode'[i].type # dinode[i].type /\ dinode[i].type # "free"
         => call[p].pc = "free" /\ i = call[p].put
    /\ inode'[i].valid => inode[i].valid \/ Keeps(p, i)
    /\ inode[i].valid /\ inode[i].ref > 0 /\ inode[i].lock \notin {NoUser, p} => inode'[i].valid
    /\ inode'[i].lock # inode[i].lock => inode[i].lock \in {NoUser, p}

Moves(p) ==
    /\ \A q \in Users \ {p} : call'[q] = call[q] /\ cwd'[q] = cwd[q] /\ ofile'[q] = ofile[q]
    /\ \A i \in Inums : MovesEntry(p, i)

LEMMA Others ==
    ASSUME NamesInv, NEW p \in Users, Moves(p), NEW q \in Users \ {p}
    PROVE  UserRight(q)'
<1> USE DEF NamesInv
<1> DEFINE c == call[q]
           e == Resume(c)
<1>1. call'[q] = c /\ cwd'[q] = cwd[q] /\ ofile'[q] = ofile[q]
  BY DEF Moves
<1>2. \A i \in Inums : MovesEntry(p, i)
  BY DEF Moves
<1>3. UserRight(q) /\ UserRight(p) /\ c \in CallType /\ q # p /\ q \in Users /\ q # NoUser
  BY Numbers DEF NamesTypes
<1>4. FrameRight(c) /\ (cwd[q] = 0 <=> e = "newcwd")
  BY <1>3 DEF UserRight, CwdRight
<1>5. ASSUME NEW i \in Inums, Points(q, i)
      PROVE  /\ inode[i].ref >= 1 /\ inode[i].ref \in Nat
             /\ Points(p, i) => inode[i].ref >= 2
  BY <1>3, <1>5, RefsCover, CountPoints
<1>6. ASSUME NEW i \in Inums, Keeps(q, i)
      PROVE  dinode[i].type # "free" /\ dinode'[i].type = dinode[i].type
  <2>1. dinode[i].type # "free"
    BY <1>3, <1>6 DEF UserRight, KeepsRight
  <2>2. ASSUME call[p].pc = "free", i = call[p].put PROVE FALSE
    <3>1. Points(p, i) /\ Points(q, i)
      BY <1>6, <2>2 DEF Points, Keeps
    <3>2. inode[i].ref = 1
      BY <1>3, <2>2 DEF UserRight, FreeRight
    <3> QED
      BY <1>5, <3>1, <3>2
  <2> QED
    BY <1>2, <2>1, <2>2 DEF MovesEntry
<1>7. \A i \in Inums : Keeps(q, i)' => Keeps(q, i)
  BY <1>1 DEF Keeps
<1>8. ASSUME NEW i \in Inums, Holds(c, i)
      PROVE  /\ inode'[i].lock = q /\ inode'[i].valid /\ Keeps(q, i) /\ Points(q, i)
             /\ dinode'[i] = dinode[i]
  <2>1. Keeps(q, i) /\ Points(q, i)
    BY <1>8 DEF Holds, Keeps, Points
  <2>2. inode[i].lock = q /\ inode[i].valid
    BY <1>3, <1>8 DEF UserRight, LocksRight
  <2>3. inode[i].lock \notin {NoUser, p} /\ inode[i].ref > 0
    BY <1>3, <1>5, <2>1, <2>2
  <2> QED
    BY <1>2, <1>6, <2>1, <2>2, <2>3 DEF MovesEntry
<1>9. c.pc = "free" => inode'[c.put].ref = 1 /\ dinode'[c.put].nlink = 0
  <2> SUFFICES ASSUME c.pc = "free" PROVE inode'[c.put].ref = 1 /\ dinode'[c.put].nlink = 0
    OBVIOUS
  <2>0. PICK i : i = c.put
    OBVIOUS
  <2>1. i \in Inums
    BY <2>0, <1>3, <1>4 DEF CallType, Inode0, FrameRight, InPut
  <2>2. Holds(c, i)
    BY <2>0 DEF Holds
  <2>3. inode[i].ref = 1 /\ dinode[i].nlink = 0
    BY <1>3, <2>0 DEF UserRight, FreeRight
  <2>4. Points(q, i) /\ Keeps(q, i) /\ dinode'[i] = dinode[i]
    BY <1>8, <2>1, <2>2
  <2>5. ~Points(p, i)
    BY <1>5, <2>1, <2>3, <2>4
  <2>6. ~Points(p, i)'
    BY <1>2, <1>6, <2>1, <2>3, <2>4, <2>5 DEF MovesEntry
  <2>7. Count(Pointers(p), i) = 0 /\ Count(Pointers(p)', i) = 0
    <3>1. Count(Pointers(p)', i) = 0
      BY <2>6 DEF Pointers, Points, Count, One
    <3> QED
      BY <2>5, <3>1, CountPoints
  <2>8. inode'[i].ref = inode[i].ref - Count(Pointers(p), i) + Count(Pointers(p)', i)
    BY <1>2, <2>1 DEF MovesEntry
  <2> QED
    BY <2>0, <2>3, <2>4, <2>7, <2>8
<1>10. c.w \in Inode0 /\ c.ip \in Inode0 /\ (c.w # 0 <=> e \in WithW)
       /\ (c.ip # 0 <=> e \in WithIp \/ Linking(c))
  BY <1>3, <1>4 DEF FrameRight, CallType
<1>11. e \in {"create", "unlink", "dirlink", "new", "erase"} => dinode'[c.w].type = "dir"
  <2> SUFFICES ASSUME e \in {"create", "unlink", "dirlink", "new", "erase"}
               PROVE  dinode'[c.w].type = "dir"
    OBVIOUS
  <2>1. c.w \in Inums
    BY <1>10 DEF WithW, Looking, Inode0
  <2>2. dinode[c.w].type = "dir"
    BY <1>3 DEF UserRight, DirRight
  <2> QED
    BY <1>6, <2>1, <2>2 DEF Keeps
<1>12. e = "dirlink" \/ Linking(c) => dinode'[c.ip].type = "file"
  <2> SUFFICES ASSUME e = "dirlink" \/ Linking(c) PROVE dinode'[c.ip].type = "file"
    OBVIOUS
  <2>1. c.ip \in Inums
    BY <1>10 DEF WithIp, Inode0
  <2>2. dinode[c.ip].type = "file"
    BY <1>3 DEF UserRight, FileRight
  <2> QED
    BY <1>6, <2>1, <2>2 DEF Keeps
<1>13. ASSUME e \in {"erase", "new"}
       PROVE  c.w \in Inums /\ c.ip \in Inums /\ dinode'[c.w] = dinode[c.w]
  <2>1. c.w \in Inums /\ c.ip \in Inums
    BY <1>10, <1>13 DEF WithW, WithIp, Inode0
  <2> QED
    BY <1>8, <1>13, <2>1 DEF Holds
<1>14. e = "erase" => dinode'[c.w].ents[Head(c.rest)] = c.ip
  BY <1>3, <1>13 DEF UserRight, EraseRight
<1>15. NewRight(q)'
  <2>1. call'[q].w = c.w /\ call'[q].ip = c.ip /\ call'[q].rest = c.rest /\ call'[q].req = c.req
        /\ Resume(call'[q]) = e
    BY <1>1
  <2> SUFFICES ASSUME e = "new"
               PROVE  /\ dinode'[c.w].ents[Head(c.rest)] = 0
                      /\ \A i \in Inums : i = c.ip =>
                           /\ dinode'[i] = [type |-> TypeOf(c.req.op), nlink |-> 0, ents |-> NoEnts]
                           /\ ~inode'[i].valid
                           /\ \A r \in Users \ {q} : ~Keeps(r, i)'
                           /\ cwd'[q] # i /\ ofile'[q] # i /\ c.w # i
    BY <2>1 DEF NewRight
  <2>2. dinode'[c.w].ents[Head(c.rest)] = 0
    BY <1>3, <1>13 DEF UserRight, NewRight
  <2> SUFFICES ASSUME NEW i \in Inums, i = c.ip
               PROVE  /\ dinode'[i] = [type |-> TypeOf(c.req.op), nlink |-> 0, ents |-> NoEnts]
                      /\ ~inode'[i].valid
                      /\ \A r \in Users \ {q} : ~Keeps(r, i)'
                      /\ cwd'[q] # i /\ ofile'[q] # i /\ c.w # i
    BY <2>2
  <2>3. /\ dinode[i] = [type |-> TypeOf(c.req.op), nlink |-> 0, ents |-> NoEnts]
        /\ ~inode[i].valid
        /\ \A r \in Users \ {q} : ~Keeps(r, i)
        /\ cwd[q] # i /\ ofile[q] # i /\ c.w # i
    BY <1>3 DEF UserRight, NewRight
  <2>4. dinode[i].type # "free" /\ dinode[i].nlink = 0 /\ ~Keeps(p, i)
    BY <1>3, <2>3 DEF TypeOf
  <2>5. dinode'[i] = dinode[i] /\ ~inode'[i].valid /\ ~Keeps(p, i)'
    BY <1>2, <2>3, <2>4 DEF MovesEntry
  <2>6. \A r \in Users \ {q} : ~Keeps(r, i)'
    <3> SUFFICES ASSUME NEW r \in Users \ {q}, r # p PROVE ~Keeps(r, i)'
      BY <2>5
    <3>1. call'[r] = call[r] /\ cwd'[r] = cwd[r] /\ ofile'[r] = ofile[r]
      BY DEF Moves
    <3> QED
      BY <1>1, <2>3, <3>1 DEF Keeps
  <2> QED
    BY <1>1, <2>3, <2>5, <2>6
<1>16. LocksRight(q)' /\ KeepsRight(q)'
  BY <1>1, <1>6, <1>7, <1>8 DEF LocksRight, KeepsRight
<1>17. FreeRight(q)' /\ DirRight(q)' /\ FileRight(q)' /\ EraseRight(q)'
  BY <1>1, <1>9, <1>11, <1>12, <1>14 DEF FreeRight, DirRight, FileRight, EraseRight
<1>18. FrameRight(call[q])' /\ CwdRight(q)'
  BY <1>1, <1>4 DEF CwdRight
<1> QED
  BY <1>15, <1>16, <1>17, <1>18 DEF UserRight
-----------------------------------------------------------------------------
\* What iget, ilock and iput leave in an entry and in the locals of a call.
LEMMA GotEntry ==
    ASSUME NEW e \in InodeType
    PROVE  /\ Got(e) \in InodeType /\ Got(e).ref = e.ref + 1 /\ Got(e).type = e.type
           /\ Got(e).nlink = e.nlink /\ Got(e).lock = e.lock
           /\ Got(e).valid <=> e.valid /\ e.ref > 0
<1>1. e.ref \in Int /\ e.valid \in BOOLEAN /\ (e.valid /\ e.ref > 0) \in BOOLEAN /\ e.ref + 1 \in Int
  BY DEF InodeType
<1>2. Got(e) = [e EXCEPT !.ref = e.ref + 1, !.valid = (e.valid /\ e.ref > 0)]
  BY DEF Got, InodeType
<1>3. PICK v \in BOOLEAN : v <=> e.valid /\ e.ref > 0
  BY <1>1
<1>4. Got(e) = [e EXCEPT !.ref = e.ref + 1, !.valid = v]
  BY <1>2, <1>3
<1> QED
  BY <1>1, <1>3, <1>4 DEF InodeType

LEMMA LoadedEntry ==
    ASSUME NamesTypes, CacheRight, NEW i \in Inums, dinode[i].type # "free"
    PROVE  /\ Loaded(i) \in InodeType /\ Loaded(i).ref = inode[i].ref
           /\ Loaded(i).lock = inode[i].lock /\ Loaded(i).valid
           /\ Loaded(i).type = dinode[i].type /\ Loaded(i).nlink = dinode[i].nlink
           /\ ~Typeless(i)
<1>1. inode[i] \in InodeType /\ dinode[i] \in DinodeType
  BY DEF NamesTypes
<1>2. CASE inode[i].valid
  BY <1>1, <1>2 DEF CacheRight, Loaded, Typeless, InodeType, DinodeType
<1>3. CASE ~inode[i].valid
  BY <1>1, <1>3 DEF Loaded, Typeless, InodeType, DinodeType
<1> QED
  BY <1>2, <1>3

Putting(c, i, ret) == [c EXCEPT !.pc = "put", !.put = i, !.ret = ret]
Walking(c, s, rest, par, ok, bad) ==
    [c EXCEPT !.pc = "walk", !.w = s, !.rest = rest, !.par = par, !.ok = ok, !.bad = bad]

LEMMA PutFrame ==
    ASSUME NEW c \in CallType, NEW i \in Inode0, NEW ret \in Callers
    PROVE  LET d == Putting(c, i, ret)
           IN  /\ d \in CallType /\ d.pc = "put" /\ d.put = i /\ d.ret = ret /\ d.req = c.req
               /\ d.w = c.w /\ d.rest = c.rest /\ d.par = c.par /\ d.ok = c.ok /\ d.bad = c.bad
               /\ d.ip = c.ip /\ Resume(d) = ret
<1> DEFINE d == Putting(c, i, ret)
<1>1. /\ d \in CallType /\ d.pc = "put" /\ d.put = i /\ d.ret = ret /\ d.req = c.req
      /\ d.w = c.w /\ d.rest = c.rest /\ d.par = c.par /\ d.ok = c.ok /\ d.bad = c.bad
      /\ d.ip = c.ip
  BY DEF CallType, InPut, Putting
<1> QED
  BY <1>1 DEF Resume, InPut

LEMMA WalkFrame ==
    ASSUME NEW c \in CallType, NEW s \in Inode0, NEW rest \in Seq(DirElems), NEW par \in BOOLEAN,
           NEW ok \in Callers, NEW bad \in Callers, NEW d, d = Walking(c, s, rest, par, ok, bad)
    PROVE  /\ d \in CallType /\ d.pc = "walk" /\ d.w = s /\ d.rest = rest /\ d.par = par
           /\ d.ok = ok /\ d.bad = bad /\ d.ip = c.ip /\ d.put = c.put /\ d.req = c.req
           /\ Resume(d) = "walk"
<1>1. /\ d \in CallType /\ d.pc = "walk" /\ d.w = s /\ d.rest = rest /\ d.par = par
      /\ d.ok = ok /\ d.bad = bad /\ d.ip = c.ip /\ d.put = c.put /\ d.req = c.req
  <2>1. "walk" \in Callers
    BY DEF Callers, WithW, Looking
  <2> QED
    BY <2>1 DEF CallType, Walking
<1> QED
  BY <1>1 DEF Resume, InPut

\* Where a step of p leads: into iput, or back to user mode.
Leads(p, d) ==
    /\ d \in CallType /\ call' = [call EXCEPT ![p] = d] /\ call'[p] = d
    /\ \A q \in Users \ {p} : call'[q] = call[q]

LEMMA PutGoes ==
    ASSUME NamesTypes, NEW p \in Users, NEW c \in CallType, NEW i \in Inums, NEW ret \in Callers,
           PutThen(p, c, i, ret)
    PROVE  \E d : /\ Leads(p, d) /\ d.pc = "put" /\ d.put = i /\ d.ret = ret /\ d.req = c.req
                  /\ d.w = c.w /\ d.rest = c.rest /\ d.par = c.par /\ d.ok = c.ok /\ d.bad = c.bad
                  /\ d.ip = c.ip /\ Resume(d) = ret
<1>1. PICK d : d = Putting(c, i, ret)
  OBVIOUS
<1>2. i \in Inode0
  BY DEF Inode0
<1>3. /\ d \in CallType /\ d.pc = "put" /\ d.put = i /\ d.ret = ret /\ d.req = c.req
      /\ d.w = c.w /\ d.rest = c.rest /\ d.par = c.par /\ d.ok = c.ok /\ d.bad = c.bad
      /\ d.ip = c.ip /\ Resume(d) = ret
  BY <1>1, <1>2, PutFrame
<1>4. call' = [call EXCEPT ![p] = d]
  BY <1>1 DEF PutThen, Go, Putting
<1>5. Leads(p, d)
  BY <1>3, <1>4 DEF Leads, NamesTypes
<1> QED
  BY <1>3, <1>5

LEMMA GoGoes ==
    ASSUME NamesTypes, NEW p \in Users, NEW c \in CallType, Go(p, c)
    PROVE  Leads(p, c)
  BY DEF Leads, Go, NamesTypes

LEMMA ReturnGoes ==
    ASSUME NamesTypes, NEW p \in Users, Return(p)
    PROVE  Leads(p, Outside)
  BY OutsideRight DEF Leads, Return, Go, NamesTypes

\* A step that leaves everything but fsPanic alone.
LEMMA Stutters ==
    ASSUME NamesInv, UNCHANGED <<dinode, inode, cwd, ofile, call>>
    PROVE  NamesInv'
<1> USE DEF NamesInv
<1>1. NamesTypes' /\ CacheRight'
  BY DEF NamesTypes, CacheRight
<1>2. RefsRight'
  BY DEF RefsRight, To, Pointers
<1>3. LinksCounted' /\ RootRight' /\ TreeRight'
  BY DEF LinksCounted, RootRight, TreeRight, Named, Children, Pending
<1>4. ASSUME NEW p \in Users PROVE UserRight(p)'
  <2>1. UserRight(p) /\ \A q \in Users, i \in Inums : Keeps(q, i)' <=> Keeps(q, i)
    BY DEF Keeps
  <2>2. FrameRight(call[p])' /\ CwdRight(p)' /\ LocksRight(p)' /\ KeepsRight(p)'
    BY <2>1 DEF UserRight, CwdRight, LocksRight, KeepsRight
  <2>3. FreeRight(p)' /\ DirRight(p)' /\ FileRight(p)' /\ EraseRight(p)'
    BY <2>1 DEF UserRight, FreeRight, DirRight, FileRight, EraseRight
  <2>4. NewRight(p)'
    BY <2>1 DEF UserRight, NewRight
  <2> QED
    BY <2>2, <2>3, <2>4 DEF UserRight
<1> QED
  BY <1>1, <1>2, <1>3, <1>4

LEMMA PendingFinite == \A i : IsFiniteSet(Pending(i)) /\ Cardinality(Pending(i)) \in Nat
<1> SUFFICES ASSUME NEW i PROVE IsFiniteSet(Pending(i)) /\ Cardinality(Pending(i)) \in Nat
  OBVIOUS
<1>1. Pending(i) \subseteq Users
  BY DEF Pending
<1>2. IsFiniteSet(Pending(i))
  BY <1>1, NamesAssumption, FS_Subset
<1> QED
  BY <1>2, FS_CardinalityType

LEMMA NamesFinite ==
    \A i : /\ IsFiniteSet(Named(i)) /\ Cardinality(Named(i)) \in Nat
           /\ IsFiniteSet(Children(i)) /\ Cardinality(Children(i)) \in Nat
<1> SUFFICES ASSUME NEW i
             PROVE  /\ IsFiniteSet(Named(i)) /\ Cardinality(Named(i)) \in Nat
                    /\ IsFiniteSet(Children(i)) /\ Cardinality(Children(i)) \in Nat
  OBVIOUS
<1>1. IsFiniteSet(Inums)
  <2>1. 1 \in Int /\ NInodes \in Int
    BY NamesAssumption
  <2> QED
    BY <2>1, FS_Interval DEF Inums
<1>2. IsFiniteSet(Inums \X Elems)
  BY <1>1, NamesAssumption, FS_Product
<1>3. Named(i) \subseteq Inums \X Elems /\ Children(i) \subseteq Inums
  BY DEF Named, Children
<1>4. IsFiniteSet(Named(i))
  BY <1>2, <1>3, FS_Subset
<1>5. IsFiniteSet(Children(i))
  BY <1>1, <1>3, FS_Subset
<1> QED
  BY <1>4, <1>5, FS_CardinalityType

\* The links of a step that writes no inode and begins no link.
LEMMA LinksQuiet ==
    ASSUME NamesInv, NEW p \in Users, dinode' = dinode,
           \A q \in Users \ {p} : call'[q] = call[q],
           Pends(call'[p]) => Pends(call[p]) /\ call'[p].ip = call[p].ip
    PROVE  LinksCounted' /\ TreeRight'
<1> USE DEF NamesInv
<1>1. TreeRight'
  BY DEF TreeRight
<1>2. ASSUME NEW i \in Inums
      PROVE  Cardinality(Named(i)') + Cardinality(Children(i)') + Cardinality(Pending(i)')
                 + (IF i = Root THEN 1 ELSE 0) <= dinode'[i].nlink
  <2>1. Named(i)' = Named(i)
    BY DEF Named
  <2>2. Children(i)' = Children(i)
    BY DEF Children, Named
  <2>3. Pending(i)' \subseteq Pending(i)
    BY DEF Pending
  <2>4. Cardinality(Pending(i)') <= Cardinality(Pending(i)) /\ Cardinality(Pending(i)') \in Nat
    BY <2>3, PendingFinite, FS_Subset, FS_CardinalityType
  <2>5. Cardinality(Named(i)) + Cardinality(Children(i)) + Cardinality(Pending(i))
            + (IF i = Root THEN 1 ELSE 0) <= dinode[i].nlink
    BY DEF LinksCounted
  <2>6. dinode[i].nlink \in Int
    BY DEF NamesTypes, DinodeType
  <2> QED
    BY <2>1, <2>2, <2>4, <2>5, <2>6, PendingFinite, NamesFinite
<1> QED
  BY <1>1, <1>2 DEF LinksCounted

\* A name, or the root, has a link.
LEMMA NamedLinked ==
    ASSUME NamesInv
    PROVE  /\ dinode[Root].nlink >= 1 /\ dinode[Root].type # "free"
           /\ \A d \in Inums, n \in Elems :
                 dinode[d].ents[n] # 0 =>
                   /\ dinode[d].ents[n] \in Inums /\ dinode[d].ents[n] # d
                   /\ dinode[dinode[d].ents[n]].nlink >= 1
                   /\ dinode[dinode[d].ents[n]].type # "free"
<1> USE DEF NamesInv
<1>1. ASSUME NEW i \in Inums, i = Root \/ Named(i) # {}
      PROVE  dinode[i].nlink >= 1 /\ dinode[i].type # "free"
  <2>1. Cardinality(Named(i)) + Cardinality(Children(i)) + Cardinality(Pending(i))
            + (IF i = Root THEN 1 ELSE 0) <= dinode[i].nlink
    BY DEF LinksCounted
  <2>2. Named(i) # {} => Cardinality(Named(i)) # 0
    BY NamesFinite, FS_EmptySet
  <2>3. dinode[i].nlink \in Int
    BY DEF NamesTypes, DinodeType
  <2>4. dinode[i].nlink >= 1
    BY <1>1, <2>1, <2>2, <2>3, PendingFinite, NamesFinite
  <2> QED
    BY <2>4 DEF CacheRight
<1>2. ASSUME NEW d \in Inums, NEW n \in Elems, dinode[d].ents[n] # 0
      PROVE  /\ dinode[d].ents[n] \in Inums /\ dinode[d].ents[n] # d
             /\ dinode[dinode[d].ents[n]].nlink >= 1
             /\ dinode[dinode[d].ents[n]].type # "free"
  <2>1. PICK i : i = dinode[d].ents[n]
    OBVIOUS
  <2>2. n \in DirElems /\ dinode[d] \in DinodeType
    BY Numbers DEF NamesTypes
  <2>3. i \in Inums
    BY <1>2, <2>1, <2>2 DEF DinodeType, Inode0
  <2>4. dinode[d].type = "dir"
    BY <1>2, <2>2, Numbers DEF CacheRight
  <2>5. <<d, n>> \in Named(i)
    BY <2>1, <2>4 DEF Named
  <2>6. dinode[i].nlink >= 1 /\ dinode[i].type # "free"
    BY <1>1, <2>3, <2>5
  <2>7. i # d
    BY <2>1 DEF TreeRight
  <2> QED
    BY <2>1, <2>3, <2>6, <2>7
<1> QED
  BY <1>1, <1>2, Numbers

\* A step of p that only reads inodes from disk: what it does to an entry.
QuietEntry(p, i) ==
    /\ inode'[i].ref = inode[i].ref - Count(Pointers(p), i) + Count(Pointers(p)', i)
    /\ Points(p, i)' => Points(p, i) \/ dinode[i].nlink >= 1
    /\ Keeps(p, i)' => Keeps(p, i) \/ (dinode[i].nlink >= 1 /\ dinode[i].type # "free")
    /\ inode'[i].valid => /\ inode[i].valid \/ Keeps(p, i)
                          /\ inode'[i].type = dinode[i].type /\ inode'[i].nlink = dinode[i].nlink
    /\ inode[i].valid /\ inode[i].ref > 0 => inode'[i].valid
    /\ inode'[i].lock # inode[i].lock => inode[i].lock \in {NoUser, p}

QuietStep(p, c, d, o) ==
    /\ dinode' = dinode /\ call' = [call EXCEPT ![p] = c]
    /\ cwd' = [cwd EXCEPT ![p] = d] /\ ofile' = [ofile EXCEPT ![p] = o]
    /\ c \in CallType /\ d \in Inode0 /\ o \in Inode0 /\ inode' \in [Inums -> InodeType]
    /\ FrameRight(c) /\ (d = 0 <=> Resume(c) = "newcwd")
    /\ Pends(c) => Pends(call[p]) /\ c.ip = call[p].ip

\* The parts of the invariant that such a step keeps.
LEMMA Quiet ==
    ASSUME NamesInv, NEW p \in Users, NEW c, NEW d, NEW o, QuietStep(p, c, d, o),
           \A i \in Inums : QuietEntry(p, i),
           LocksRight(p)', FreeRight(p)', DirRight(p)', FileRight(p)', EraseRight(p)', NewRight(p)'
    PROVE  NamesInv'
<1> USE DEF NamesInv
<1>1. /\ call'[p] = c /\ cwd'[p] = d /\ ofile'[p] = o /\ dinode' = dinode
      /\ \A q \in Users \ {p} : call'[q] = call[q] /\ cwd'[q] = cwd[q] /\ ofile'[q] = ofile[q]
  BY DEF QuietStep, NamesTypes
<1>2. NamesTypes'
  BY DEF NamesTypes, QuietStep
<1>3. Moves(p)
  <2>1. ASSUME NEW i \in Inums PROVE MovesEntry(p, i)
    BY <1>1 DEF QuietEntry, MovesEntry
  <2> QED
    BY <1>1, <2>1 DEF Moves
<1>4. RefsRight'
  BY <1>1, RefsKept DEF QuietEntry
<1>5. KeepsRight(p)' /\ UserRight(p)
  BY <1>1 DEF QuietEntry, UserRight, KeepsRight
<1>6. CacheRight'
  <2> SUFFICES ASSUME NEW i \in Inums
               PROVE  /\ inode'[i].valid => inode'[i].type = dinode[i].type /\ inode'[i].nlink = dinode[i].nlink
                      /\ dinode[i].type = "free" => ~inode'[i].valid
    BY <1>1 DEF CacheRight
  <2> QED
    BY <1>5 DEF QuietEntry, CacheRight, UserRight, KeepsRight
<1>7. FrameRight(call[p])' /\ CwdRight(p)'
  BY <1>1 DEF QuietStep, CwdRight
<1>8. UserRight(p)'
  BY <1>5, <1>7 DEF UserRight
<1>9. \A q \in Users : UserRight(q)'
  BY <1>3, <1>8, Others
<1>10. LinksCounted' /\ TreeRight'
  BY <1>1, LinksQuiet DEF QuietStep
<1>11. RootRight'
  BY <1>1 DEF RootRight
<1> QED
  BY <1>2, <1>4, <1>6, <1>9, <1>10, <1>11

\* A request begins: namex refers to the root or to the working directory.
LEMMA BeginKeeps ==
    ASSUME NamesInv, NEW p \in Users, NEW r \in Requests, Begin(p, r)
    PROVE  NamesInv'
<1> USE DEF NamesInv
<1>1. PICK s : s = IF r.path.abs THEN Root ELSE cwd[p]
  OBVIOUS
<1>2. PICK c : c = [[call[p] EXCEPT !.req = r] EXCEPT !.pc = "walk", !.w = s, !.rest = r.path.elems,
                      !.par = Parent(r.op), !.ok = IF r.op = "mkdir" THEN "create" ELSE r.op,
                      !.bad = "user"]
  OBVIOUS
<1>3. UserRight(p) /\ call[p].pc = "user" /\ call[p] = Outside /\ cwd[p] # 0
  BY OutsideRight DEF Begin, At, UserRight, FrameRight, CwdRight
<1>4. /\ call' = [call EXCEPT ![p] = c] /\ inode' = [inode EXCEPT ![s] = Got(inode[s])]
      /\ cwd' = cwd /\ ofile' = ofile /\ dinode' = dinode
  BY <1>1, <1>2 DEF Begin, NamexFrom, With, Go
<1>5. s \in Inums /\ (s = Root \/ s = cwd[p])
  BY <1>1, <1>3, Numbers DEF NamesTypes, Inode0
<1>6. /\ r.op \in Ops /\ r.path.abs \in BOOLEAN /\ r.path.elems \in Seq(DirElems) /\ r.path.elems # <<>>
  BY NamesAssumption DEF Paths
<1>7. /\ c \in CallType /\ c.pc = "walk" /\ c.w = s /\ c.rest # <<>> /\ c.ip = 0 /\ c.put = 0
      /\ c.req = r /\ (c.par <=> Parent(r.op)) /\ c.ok = (IF r.op = "mkdir" THEN "create" ELSE r.op)
      /\ c.bad = "user" /\ Resume(c) = "walk"
  <2>1. PICK b : b = [call[p] EXCEPT !.req = r]
    OBVIOUS
  <2>2. b \in CallType /\ b.ip = 0 /\ b.put = 0 /\ b.req = r
    BY <1>3, <2>1, OutsideRight DEF CallType
  <2>3. PICK ok : ok = IF r.op = "mkdir" THEN "create" ELSE r.op
    OBVIOUS
  <2>6. PICK par : par = Parent(r.op)
    OBVIOUS
  <2>9. par \in BOOLEAN
    <3>1. Parent(r.op) \in BOOLEAN
      BY DEF Parent
    <3> QED
      BY <2>6, <3>1, Zenon
  <2>7. PICK rest : rest = r.path.elems
    OBVIOUS
  <2>4. ok \in Callers /\ "user" \in Callers /\ s \in Inode0 /\ rest \in Seq(DirElems)
    BY <1>5, <1>6, <2>3, <2>7 DEF Callers, WithW, Looking, Ops, Parent, Inode0
  <2>5. c = Walking(b, s, rest, par, ok, "user")
    BY <1>2, <2>1, <2>3, <2>6, <2>7 DEF Walking
  <2>8. /\ c \in CallType /\ c.pc = "walk" /\ c.w = s /\ c.rest = rest /\ c.par = par
        /\ c.ok = ok /\ c.bad = "user" /\ c.ip = b.ip /\ c.put = b.put /\ c.req = b.req
        /\ Resume(c) = "walk"
    BY ONLY <2>9, <2>2, <2>4, <2>5, WalkFrame
  <2> QED
    BY <1>6, <2>2, <2>3, <2>6, <2>7, <2>8
<1>8. ~Linking(c) /\ ~Pends(c) /\ \A i : ~Holds(c, i)
  BY <1>5, <1>6, <1>7, Numbers DEF Linking, Pends, Ops, Holds
<1>9. FrameRight(c)
  BY <1>5, <1>6, <1>7, <1>8, Numbers DEF FrameRight, WithW, WithIp, Looking, OkLabels, InPut, Ops, Parent
<1>10. QuietStep(p, c, cwd[p], ofile[p])
  BY <1>3, <1>4, <1>5, <1>7, <1>8, <1>9, GotEntry DEF QuietStep, NamesTypes
<1>11. /\ call'[p] = c
  BY <1>4 DEF NamesTypes
<1>12. ASSUME NEW i \in Inums PROVE QuietEntry(p, i)
  <2>1. /\ inode'[s].ref = inode[s].ref + 1 /\ (inode'[s].valid <=> inode[s].valid /\ inode[s].ref > 0)
        /\ inode'[s].type = inode[s].type /\ inode'[s].nlink = inode[s].nlink
        /\ inode'[s].lock = inode[s].lock /\ (i # s => inode'[i] = inode[i])
    BY <1>4, <1>5, GotEntry DEF NamesTypes
  <2>2. Count(Pointers(p)', i) = Count(Pointers(p), i) + (IF i = s THEN 1 ELSE 0)
    BY <1>3, <1>4, <1>5, <1>7, <1>11, Numbers, OutsideRight DEF Count, One, Pointers
  <2>3. inode[i].ref \in Int /\ Count(Pointers(p), i) \in Nat
    BY CountPoints DEF NamesTypes, InodeType
  <2>4. /\ Points(p, i)' => Points(p, i) \/ dinode[i].nlink >= 1
        /\ Keeps(p, i)' => Keeps(p, i) \/ (dinode[i].nlink >= 1 /\ dinode[i].type # "free")
    BY <1>3, <1>4, <1>5, <1>7, <1>11, Numbers, NamedLinked DEF Points, Keeps
  <2>5. inode'[i].ref = inode[i].ref - Count(Pointers(p), i) + Count(Pointers(p)', i)
    BY <2>1, <2>2, <2>3
  <2> QED
    BY <2>1, <2>4, <2>5 DEF QuietEntry, CacheRight
<1>13. LocksRight(p)' /\ FreeRight(p)' /\ DirRight(p)' /\ FileRight(p)' /\ EraseRight(p)' /\ NewRight(p)'
  BY <1>7, <1>8, <1>11 DEF LocksRight, FreeRight, DirRight, FileRight, EraseRight, NewRight
<1> QED
  BY <1>10, <1>12, <1>13, Quiet

\* The locals of a call at a label of its own, that is not in iput.
LEMMA FrameAt ==
    ASSUME NamesInv, NEW p \in Users, call[p].pc \notin InPut
    PROVE  /\ UserRight(p) /\ call[p] \in CallType /\ Resume(call[p]) = call[p].pc /\ call[p].put = 0
           /\ call[p].pc \in WithW => call[p].w \in Inums
           /\ call[p].pc \notin WithW => call[p].w = 0
           /\ call[p].pc \in WithIp => call[p].ip \in Inums
           /\ call[p].pc \notin WithIp /\ ~Linking(call[p]) => call[p].ip = 0
           /\ call[p].pc \in WithElem => Elem(p) \in DirElems /\ call[p].rest # <<>>
           /\ call[p].pc \in {"new", "erase"} => Elem(p) \in Elems
           /\ call[p].pc # "newcwd" => cwd[p] # 0
           /\ \A i \in Inums : Keeps(p, i) => dinode[i].type # "free"
<1> USE DEF NamesInv
<1>1. PICK c : c = call[p]
  OBVIOUS
<1>2. UserRight(p) /\ c \in CallType /\ Resume(c) = c.pc /\ FrameRight(c) /\ CwdRight(p) /\ KeepsRight(p)
  BY <1>1 DEF NamesTypes, Resume, UserRight
<1>3. c.w \in Inode0 /\ c.ip \in Inode0 /\ c.rest \in Seq(DirElems)
  BY <1>2 DEF CallType
<1>4. c.rest # <<>> => Head(c.rest) \in DirElems
  BY <1>3
<1>5. /\ c.put = 0 /\ (c.w # 0 <=> c.pc \in WithW) /\ (c.ip # 0 <=> c.pc \in WithIp \/ Linking(c))
      /\ c.pc \in WithElem => c.rest # <<>>
      /\ c.pc \in {"new", "erase"} => Head(c.rest) \in Elems
  BY <1>1, <1>2 DEF FrameRight
<1> QED
  BY <1>1, <1>2, <1>3, <1>4, <1>5 DEF Elem, Inode0, CwdRight, KeepsRight

\* A process that is about to put back an inode relies on nothing but its locks.
LEMMA Relaxed ==
    ASSUME NEW p, call'[p].pc # "free", ~Linking(call'[p]),
           Resume(call'[p]) \notin {"create", "unlink", "dirlink", "new", "erase"}
    PROVE  FreeRight(p)' /\ DirRight(p)' /\ FileRight(p)' /\ EraseRight(p)' /\ NewRight(p)'
  BY DEF FreeRight, DirRight, FileRight, EraseRight, NewRight

\* The cache after a step of p: i is loaded, with its lock as p left it, and j,
\* which may be i, has one reference more.
Cached(i, e, j) ==
    inode' = [k \in Inums |-> IF k = i THEN IF j = i THEN Got(e) ELSE e
                              ELSE IF k = j THEN Got(inode[k]) ELSE inode[k]]

\* A lookup in d came to j: to d itself, or to an inode that has links.
Reached(d, j) == j \in Inums /\ (j = d \/ (dinode[j].nlink >= 1 /\ dinode[j].type # "free"))

\* p's pointers are the same but for one to j.
Gains(p, j) ==
    \A k \in Inums : /\ Count(Pointers(p)', k) = Count(Pointers(p), k) + One(k = j)
                     /\ Points(p, k)' => Points(p, k) \/ k = j
                     /\ Keeps(p, k)' => Keeps(p, k) \/ k = j

LEMMA LoadStep ==
    ASSUME NamesInv, NEW p \in Users, NEW i \in Inums, Keeps(p, i), inode[i].lock \in {NoUser, p},
           NEW e, NEW j, Cached(i, e, j), Gains(p, j),
           e = Loaded(i) \/ \E l \in {NoUser, p} : e = [Loaded(i) EXCEPT !.lock = l],
           j = 0 \/ Reached(i, j)
    PROVE  /\ inode' \in [Inums -> InodeType] /\ \A k \in Inums : QuietEntry(p, k)
           /\ inode'[i].lock = e.lock /\ inode'[i].valid
<1> USE DEF NamesInv
<1>1. dinode[i].type # "free"
  BY DEF UserRight, KeepsRight
<1>2. /\ e \in InodeType /\ e.ref = inode[i].ref /\ e.valid /\ e.type = dinode[i].type
      /\ e.nlink = dinode[i].nlink /\ e.lock \in {NoUser, p}
  BY <1>1, LoadedEntry DEF InodeType
<1>5. inode[i].ref > 0 /\ Points(p, i)
  <2>1. Points(p, i)
    BY DEF Points, Keeps
  <2> QED
    BY <2>1, RefsCover, CountPoints
<1>6. /\ Got(e) \in InodeType /\ Got(e).ref = e.ref + 1 /\ Got(e).type = e.type
      /\ Got(e).nlink = e.nlink /\ Got(e).lock = e.lock /\ Got(e).valid
  BY <1>2, <1>5, GotEntry
<1>3. ASSUME NEW k \in Inums
      PROVE  inode'[k] \in InodeType /\ QuietEntry(p, k)
  <2>1. inode[k] \in InodeType /\ inode[k].ref \in Int
    BY DEF NamesTypes, InodeType
  <2>2. Count(Pointers(p)', k) = Count(Pointers(p), k) + One(k = j) /\ Count(Pointers(p), k) \in Nat
    BY CountPoints DEF Gains
  <2>3. CASE k = i /\ j # i
    <3>1. inode'[k] = e /\ k # j
      BY <2>3 DEF Cached
    <3> QED
      BY <1>2, <2>1, <2>2, <2>3, <3>1, Numbers DEF QuietEntry, Gains, One
  <2>6. CASE k = i /\ j = i
    <3>1. inode'[k] = Got(e)
      BY <2>6 DEF Cached
    <3> QED
      BY <1>2, <1>5, <1>6, <2>1, <2>2, <2>6, <3>1 DEF QuietEntry, One
  <2>4. CASE k # i /\ k = j
    <3>1. inode'[k] = Got(inode[k]) /\ dinode[k].nlink >= 1 /\ dinode[k].type # "free"
      BY <2>4, Numbers DEF Cached, Reached
    <3> QED
      BY <2>1, <2>2, <2>4, <3>1, GotEntry DEF QuietEntry, Gains, One, CacheRight
  <2>5. CASE k # i /\ k # j
    <3>1. inode'[k] = inode[k]
      BY <2>5 DEF Cached
    <3> QED
      BY <2>1, <2>2, <2>5, <3>1 DEF QuietEntry, Gains, One, CacheRight
  <2> QED
    BY <2>3, <2>4, <2>5, <2>6
<1>4. inode' \in [Inums -> InodeType]
  BY <1>3 DEF Cached
<1>7. inode'[i] = IF j = i THEN Got(e) ELSE e
  BY DEF Cached
<1> QED
  BY <1>2, <1>3, <1>4, <1>6, <1>7

\* A step of p that locks and loads i, and may refer to j.
QuietTo(p, i, e, j, c, d, o) ==
    /\ i \in Inums /\ Keeps(p, i) /\ inode[i].lock \in {NoUser, p} /\ Cached(i, e, j) /\ Gains(p, j)
    /\ e = Loaded(i) \/ \E l \in {NoUser, p} : e = [Loaded(i) EXCEPT !.lock = l]
    /\ j = 0 \/ Reached(i, j)
    /\ Leads(p, c) /\ dinode' = dinode
    /\ cwd' = [cwd EXCEPT ![p] = d] /\ d \in Inode0 /\ ofile' = [ofile EXCEPT ![p] = o] /\ o \in Inode0
    /\ FrameRight(c) /\ (d = 0 <=> Resume(c) = "newcwd")
    /\ Pends(c) => Pends(call[p]) /\ c.ip = call[p].ip
    /\ \A k \in Inums : Holds(c, k) => (k = i /\ e.lock = p) \/ (k # i /\ Holds(call[p], k))
    /\ FreeRight(p)' /\ DirRight(p)' /\ FileRight(p)' /\ EraseRight(p)' /\ NewRight(p)'

LEMMA QuietLoad ==
    ASSUME NamesInv, NEW p \in Users, NEW i, NEW e, NEW j, NEW c, NEW d, NEW o,
           QuietTo(p, i, e, j, c, d, o)
    PROVE  NamesInv'
<1>0. /\ i \in Inums /\ Keeps(p, i) /\ inode[i].lock \in {NoUser, p} /\ Cached(i, e, j) /\ Gains(p, j)
      /\ e = Loaded(i) \/ \E l \in {NoUser, p} : e = [Loaded(i) EXCEPT !.lock = l]
      /\ j = 0 \/ Reached(i, j)
  BY DEF QuietTo
<1>1. /\ inode' \in [Inums -> InodeType] /\ (\A k \in Inums : QuietEntry(p, k))
      /\ inode'[i].lock = e.lock /\ inode'[i].valid
  BY <1>0, LoadStep
<1>2. QuietStep(p, c, d, o)
  BY <1>1 DEF QuietStep, Leads, QuietTo
<1>3. ASSUME NEW k \in Inums, Holds(c, k)
      PROVE  inode'[k].lock = p /\ inode'[k].valid
  <2>1. CASE k = i
    BY <1>1, <1>3, <2>1 DEF QuietTo
  <2>2. CASE k # i
    <3>1. Holds(call[p], k)
      BY <1>3, <2>2 DEF QuietTo
    <3>2. inode[k].lock = p /\ inode[k].valid /\ RefsRight
      BY <3>1 DEF NamesInv, UserRight, LocksRight
    <3>3. Points(p, k)
      BY <3>1 DEF Points, Holds
    <3>4. inode[k].ref > 0
      BY <3>2, <3>3, RefsCover, CountPoints
    <3>5. inode'[k].valid
      BY <1>1, <3>2, <3>4 DEF QuietEntry
    <3>6. inode[k] \in InodeType
      BY DEF NamesInv, NamesTypes
    <3>7. inode'[k].lock = inode[k].lock
      BY <1>0, <2>2, <3>6, GotEntry DEF Cached
    <3> QED
      BY <3>2, <3>5, <3>7
  <2> QED
    BY <2>1, <2>2
<1>4. LocksRight(p)'
  BY <1>3 DEF LocksRight, Leads, QuietTo
<1>5. FreeRight(p)' /\ DirRight(p)' /\ FileRight(p)' /\ EraseRight(p)' /\ NewRight(p)'
  BY DEF QuietTo
<1> QED
  BY ONLY NamesInv, p \in Users, <1>1, <1>2, <1>4, <1>5, Quiet

\* iput is the last thing a call does.
LEMMA PutUser ==
    ASSUME NamesTypes, NEW p \in Users, NEW c \in CallType, c.w = 0, c.ip = 0, NEW i \in Inums,
           PutThen(p, c, i, "user")
    PROVE  \E d : /\ Leads(p, d) /\ d.pc = "put" /\ d.put = i /\ d.w = 0 /\ d.ip = 0
                  /\ Resume(d) = "user" /\ FrameRight(d) /\ ~Pends(d) /\ ~Linking(d)
                  /\ \A k \in Inums : ~Holds(d, k)
<1>1. "user" \in Callers
  BY DEF Callers
<1>2. PICK d : Leads(p, d) /\ d.pc = "put" /\ d.put = i /\ d.w = 0 /\ d.ip = 0 /\ Resume(d) = "user"
  BY <1>1, PutGoes
<1>3. FrameRight(d)
  BY <1>2, Numbers DEF FrameRight, WithW, WithIp, Looking, InPut, WithElem, Linking
<1>4. ~Pends(d) /\ ~Linking(d) /\ \A k \in Inums : ~Holds(d, k)
  BY <1>2, Numbers DEF Pends, Linking, Holds
<1> QED
  BY <1>2, <1>3, <1>4

\* The call ends with the inode it has locked, which it puts back or, if it has a
\* descriptor for it, keeps open.
Ends(p, i, c) ==
    /\ c \in CallType /\ c.w = 0 /\ c.ip = 0
    /\ \/ ofile' = ofile /\ PutThen(p, c, i, "user")
       \/ ofile[p] = 0 /\ ofile' = [ofile EXCEPT ![p] = i] /\ Return(p)

LEMMA EndsGoes ==
    ASSUME NamesInv, NEW p \in Users, NEW i \in Inums, NEW c, Ends(p, i, c)
    PROVE  \E d, o :
              /\ Leads(p, d) /\ ofile' = [ofile EXCEPT ![p] = o] /\ o \in Inode0 /\ d.w = 0
              /\ d.ip = 0 /\ Resume(d) = "user" /\ FrameRight(d) /\ ~Pends(d) /\ ~Linking(d)
              /\ d.pc # "free" /\ \A k \in Inums : ~Holds(d, k)
              /\ \/ d.put = i /\ d.pc = "put" /\ o = ofile[p]
                 \/ d.put = 0 /\ d.pc = "user" /\ o = i /\ ofile[p] = 0
<1>1. NamesTypes
  BY DEF NamesInv
<1>2. CASE ofile' = ofile /\ PutThen(p, c, i, "user")
  <2>1. c \in CallType /\ c.w = 0 /\ c.ip = 0
    BY DEF Ends
  <2>2. PICK d : /\ Leads(p, d) /\ d.pc = "put" /\ d.put = i /\ d.w = 0 /\ d.ip = 0
                 /\ Resume(d) = "user" /\ FrameRight(d) /\ ~Pends(d) /\ ~Linking(d)
                 /\ \A k \in Inums : ~Holds(d, k)
    BY <1>1, <1>2, <2>1, PutUser
  <2>3. ofile' = [ofile EXCEPT ![p] = ofile[p]] /\ ofile[p] \in Inode0
    BY <1>1, <1>2 DEF NamesTypes
  <2> QED
    BY <2>2, <2>3
<1>3. CASE ofile[p] = 0 /\ ofile' = [ofile EXCEPT ![p] = i] /\ Return(p)
  <2>1. Leads(p, Outside) /\ i \in Inode0
    BY <1>1, <1>3, ReturnGoes DEF Inode0
  <2> QED
    BY <1>3, <2>1, OutsideRight
<1> QED
  BY <1>2, <1>3 DEF Ends

EndsWith(p, i, e, c) ==
    /\ i \in Inums /\ inode[i].lock \in {NoUser, p} /\ call[p].pc \notin InPut /\ call[p].pc # "newcwd"
    /\ (call[p].w = i /\ call[p].ip = 0) \/ (call[p].w = 0 /\ call[p].ip = i)
    /\ Cached(i, e, 0)
    /\ e = Loaded(i) \/ \E l \in {NoUser, p} : e = [Loaded(i) EXCEPT !.lock = l]
    /\ dinode' = dinode /\ cwd' = cwd /\ Ends(p, i, c)

LEMMA QuietEnds ==
    ASSUME NamesInv, NEW p \in Users, NEW i, NEW e, NEW c, EndsWith(p, i, e, c)
    PROVE  NamesInv'
<1> USE DEF EndsWith
<1>1. NamesTypes /\ Keeps(p, i)
  BY DEF NamesInv, Keeps
<1>2. cwd[p] # 0 /\ call[p].put = 0
  BY FrameAt
<1>3. PICK d, o :
              /\ Leads(p, d) /\ ofile' = [ofile EXCEPT ![p] = o] /\ o \in Inode0 /\ d.w = 0
              /\ d.ip = 0 /\ Resume(d) = "user" /\ FrameRight(d) /\ ~Pends(d) /\ ~Linking(d)
              /\ d.pc # "free" /\ \A k \in Inums : ~Holds(d, k)
              /\ \/ d.put = i /\ d.pc = "put" /\ o = ofile[p]
                 \/ d.put = 0 /\ d.pc = "user" /\ o = i /\ ofile[p] = 0
  BY EndsGoes
<1>4. call'[p] = d /\ ofile'[p] = o /\ cwd'[p] = cwd[p] /\ cwd' = [cwd EXCEPT ![p] = cwd[p]]
      /\ cwd[p] \in Inode0
  BY <1>1, <1>3 DEF NamesTypes, Leads
<1>5. Gains(p, 0)
  <2> SUFFICES ASSUME NEW k \in Inums
               PROVE  /\ Count(Pointers(p)', k) = Count(Pointers(p), k) + One(k = 0)
                      /\ Points(p, k)' => Points(p, k) \/ k = 0
                      /\ Keeps(p, k)' => Keeps(p, k) \/ k = 0
    BY DEF Gains
  <2>1. k # 0
    BY Numbers
  <2> QED
    BY <1>2, <1>3, <1>4, <2>1 DEF Count, One, Pointers, Points, Keeps
<1>6. FreeRight(p)' /\ DirRight(p)' /\ FileRight(p)' /\ EraseRight(p)' /\ NewRight(p)'
  BY <1>3, <1>4, Relaxed
<1>7. QuietTo(p, i, e, 0, d, cwd[p], o)
  BY <1>1, <1>2, <1>3, <1>4, <1>5, <1>6 DEF QuietTo
<1> QED
  BY ONLY NamesInv, p \in Users, <1>7, QuietLoad

\* What p has reached at a label where it locks w, or ip.
LEMMA AtW ==
    ASSUME NamesInv, NEW p \in Users, call[p].pc \in WithW
    PROVE  /\ call[p].w \in Inums /\ call[p] \in CallType /\ Resume(call[p]) = call[p].pc
           /\ call[p].put = 0 /\ call[p].pc \notin InPut /\ cwd[p] # 0 /\ Keeps(p, call[p].w)
           /\ dinode[call[p].w].type # "free" /\ ~Typeless(call[p].w) /\ UserRight(p)
           /\ call[p].pc \in {"open", "create", "unlink", "link", "chdir", "refused"}
                => call[p].ip = 0 /\ ~Linking(call[p])
<1>1. call[p].pc \notin InPut /\ call[p].pc # "newcwd" /\ Keeps(p, call[p].w)
  BY DEF WithW, Looking, InPut, Keeps
<1>2. /\ UserRight(p) /\ call[p] \in CallType /\ Resume(call[p]) = call[p].pc /\ call[p].put = 0
      /\ call[p].w \in Inums /\ cwd[p] # 0 /\ dinode[call[p].w].type # "free"
      /\ call[p].pc \notin WithIp /\ ~Linking(call[p]) => call[p].ip = 0
  BY <1>1, FrameAt
<1>3. ~Typeless(call[p].w)
  BY <1>2, LoadedEntry DEF NamesInv
<1>4. call[p].pc \in {"open", "create", "unlink", "link", "chdir", "refused"}
        => call[p].pc \notin WithIp /\ ~Linking(call[p])
  BY <1>2 DEF WithIp, Linking
<1> QED
  BY <1>1, <1>2, <1>3, <1>4

LEMMA AtIp ==
    ASSUME NamesInv, NEW p \in Users, call[p].pc \in WithIp
    PROVE  /\ call[p].ip \in Inums /\ call[p] \in CallType /\ Resume(call[p]) = call[p].pc
           /\ call[p].put = 0 /\ call[p].pc \notin InPut /\ Keeps(p, call[p].ip)
           /\ dinode[call[p].ip].type # "free" /\ ~Typeless(call[p].ip) /\ UserRight(p)
           /\ call[p].pc \in WithW <=> call[p].w # 0
<1>1. call[p].pc \notin InPut /\ Keeps(p, call[p].ip)
  BY DEF WithIp, InPut, Keeps
<1>2. /\ UserRight(p) /\ call[p] \in CallType /\ Resume(call[p]) = call[p].pc /\ call[p].put = 0
      /\ call[p].ip \in Inums /\ dinode[call[p].ip].type # "free"
      /\ call[p].pc \in WithW <=> call[p].w # 0
  BY <1>1, Numbers, FrameAt
<1>3. ~Typeless(call[p].ip)
  BY <1>2, LoadedEntry DEF NamesInv
<1> QED
  BY <1>1, <1>2, <1>3

\* sys_open takes the inode or puts it back.
LEMMA OpenKeeps ==
    ASSUME NamesInv, NEW p \in Users, Open(p)
    PROVE  NamesInv'
<1>1. PICK c, i, b : c = call[p] /\ i = c.w /\ b = [c EXCEPT !.w = 0]
  OBVIOUS
<1>2. c.pc = "open" /\ c.pc \in WithW /\ c.pc # "newcwd"
  BY <1>1 DEF Open, Locking, At, WithW, Looking
<1>3. /\ i \in Inums /\ c \in CallType /\ c.ip = 0 /\ c.pc \notin InPut /\ ~Typeless(i)
      /\ inode[i].lock = NoUser
  BY <1>1, <1>2, AtW DEF Open, Locking, CanLock
<1>4. /\ inode' = [inode EXCEPT ![i] = Loaded(i)] /\ dinode' = dinode /\ cwd' = cwd
      /\ \/ ofile' = ofile /\ PutThen(p, b, i, "user")
         \/ ofile[p] = 0 /\ ofile' = [ofile EXCEPT ![p] = i] /\ Return(p)
  BY <1>1, <1>3 DEF Open
<1>5. Cached(i, Loaded(i), 0)
  BY <1>3, <1>4, Numbers DEF Cached, NamesTypes, NamesInv
<1>6. Ends(p, i, b)
  BY <1>1, <1>3, <1>4 DEF Ends, CallType, Inode0
<1>8. EndsWith(p, i, Loaded(i), b)
  BY <1>1, <1>2, <1>3, <1>4, <1>5, <1>6 DEF EndsWith
<1> QED
  BY ONLY NamesInv, p \in Users, <1>8, QuietEnds

\* What sys_open and sys_mkdir do with what create returns.
LEMMA TakeFileEnds ==
    ASSUME NamesInv, NEW p \in Users, NEW i \in Inums, call[p].w = 0, call[p].ip = i,
           TakeFile(p, i) \/ (PutThen(p, [call[p] EXCEPT !.ip = 0], i, "user") /\ UNCHANGED ofile)
    PROVE  \E c : Ends(p, i, c)
<1>1. PICK b : b = [call[p] EXCEPT !.ip = 0]
  OBVIOUS
<1>2. b \in CallType /\ b.w = 0 /\ b.ip = 0
  <2>1. call[p] \in CallType
    BY DEF NamesInv, NamesTypes
  <2> QED
    BY <1>1, <2>1 DEF CallType, Inode0
<1>3. \/ ofile' = ofile /\ PutThen(p, b, i, "user")
      \/ ofile[p] = 0 /\ ofile' = [ofile EXCEPT ![p] = i] /\ Return(p)
  BY <1>1 DEF TakeFile
<1> QED
  BY <1>2, <1>3 DEF Ends

LEMMA ExistingKeeps ==
    ASSUME NamesInv, NEW p \in Users, Existing(p)
    PROVE  NamesInv'
<1>1. PICK c, i : c = call[p] /\ i = c.ip
  OBVIOUS
<1>2. c.pc = "existing" /\ c.pc \in WithIp /\ c.pc \notin WithW /\ c.pc # "newcwd"
  BY <1>1 DEF Existing, Locking, At, WithIp, WithW, Looking
<1>3. /\ i \in Inums /\ c \in CallType /\ c.w = 0 /\ c.pc \notin InPut /\ ~Typeless(i)
      /\ inode[i].lock = NoUser
  BY <1>1, <1>2, AtIp DEF Existing, Locking, CanLock
<1>4. /\ inode' = [inode EXCEPT ![i] = Loaded(i)] /\ dinode' = dinode /\ cwd' = cwd
      /\ TakeFile(p, i) \/ (PutThen(p, [call[p] EXCEPT !.ip = 0], i, "user") /\ UNCHANGED ofile)
  BY <1>1, <1>3 DEF Existing
<1>5. Cached(i, Loaded(i), 0)
  BY <1>3, <1>4, Numbers DEF Cached, NamesTypes, NamesInv
<1>6. PICK b : Ends(p, i, b)
  BY <1>1, <1>3, <1>4, TakeFileEnds
<1>8. EndsWith(p, i, Loaded(i), b)
  BY <1>1, <1>2, <1>3, <1>4, <1>5, <1>6 DEF EndsWith
<1> QED
  BY ONLY NamesInv, p \in Users, <1>8, QuietEnds

\* The lock p has on an inode, which is valid: unlocking it is all that changes.
LEMMA Unlocks ==
    ASSUME NamesInv, NEW p \in Users, NEW i \in Inums, Holds(call[p], i),
           inode' = [inode EXCEPT ![i].lock = NoUser]
    PROVE  /\ inode[i].lock = p /\ inode[i].valid /\ Loaded(i) = inode[i]
           /\ Cached(i, [Loaded(i) EXCEPT !.lock = NoUser], 0)
<1>1. inode[i].lock = p /\ inode[i].valid
  BY DEF NamesInv, UserRight, LocksRight
<1>2. Loaded(i) = inode[i]
  BY <1>1 DEF Loaded
<1>3. Cached(i, [inode[i] EXCEPT !.lock = NoUser], 0)
  BY Numbers DEF Cached, NamesInv, NamesTypes, InodeType
<1> QED
  BY <1>1, <1>2, <1>3

LEMMA MadeKeeps ==
    ASSUME NamesInv, NEW p \in Users, Made(p)
    PROVE  NamesInv'
<1>1. PICK c, i : c = call[p] /\ i = c.ip
  OBVIOUS
<1>2. c.pc = "made" /\ c.pc \in WithIp /\ c.pc \notin WithW /\ c.pc # "newcwd"
  BY <1>1 DEF Made, At, WithIp, WithW, Looking
<1>3. /\ i \in Inums /\ c \in CallType /\ c.w = 0 /\ c.pc \notin InPut /\ Resume(c) = c.pc
  BY <1>1, <1>2, AtIp
<1>4. /\ inode' = [inode EXCEPT ![i].lock = NoUser] /\ dinode' = dinode /\ cwd' = cwd
      /\ TakeFile(p, i)
  BY <1>1 DEF Made
<1>5. inode[i].lock = p /\ Cached(i, [Loaded(i) EXCEPT !.lock = NoUser], 0)
  BY ZenonT(60), <1>1, <1>2, <1>3, <1>4, Unlocks DEF Holds
<1>6. PICK b : Ends(p, i, b)
  BY <1>1, <1>3, <1>4, TakeFileEnds
<1>7. PICK e : e = [Loaded(i) EXCEPT !.lock = NoUser]
  OBVIOUS
<1>8. EndsWith(p, i, e, b)
  BY <1>1, <1>2, <1>3, <1>4, <1>5, <1>6, <1>7 DEF EndsWith
<1> QED
  BY ONLY NamesInv, p \in Users, <1>8, QuietEnds

LEMMA RefusedKeeps ==
    ASSUME NamesInv, NEW p \in Users, Refused(p)
    PROVE  NamesInv'
<1>1. PICK c, i, b : c = call[p] /\ i = c.w /\ b = [c EXCEPT !.w = 0]
  OBVIOUS
<1>2. c.pc = "refused" /\ c.pc \in WithW /\ c.pc # "newcwd"
  BY <1>1 DEF Refused, At, WithW
<1>3. i \in Inums /\ c \in CallType /\ c.ip = 0 /\ c.pc \notin InPut /\ Resume(c) = c.pc
  BY <1>1, <1>2, AtW
<1>4. /\ inode' = [inode EXCEPT ![i].lock = NoUser] /\ dinode' = dinode /\ cwd' = cwd
      /\ ofile' = ofile /\ PutThen(p, b, i, "user")
  BY <1>1 DEF Refused
<1>5. inode[i].lock = p /\ Cached(i, [Loaded(i) EXCEPT !.lock = NoUser], 0)
  BY ZenonT(60), <1>1, <1>2, <1>3, <1>4, Unlocks DEF Holds
<1>6. Ends(p, i, b)
  BY <1>1, <1>3, <1>4 DEF Ends, CallType, Inode0
<1>7. PICK e : e = [Loaded(i) EXCEPT !.lock = NoUser]
  OBVIOUS
<1>8. EndsWith(p, i, e, b)
  BY <1>1, <1>2, <1>3, <1>4, <1>5, <1>6, <1>7 DEF EndsWith
<1> QED
  BY ONLY NamesInv, p \in Users, <1>8, QuietEnds

\* A step of p that changes its own pointers only.
LEMMA QuietOwn ==
    ASSUME NamesInv, NEW p \in Users, Gains(p, 0), inode' = inode, dinode' = dinode,
           NEW c, Leads(p, c), NEW d \in Inode0, cwd' = [cwd EXCEPT ![p] = d],
           NEW o \in Inode0, ofile' = [ofile EXCEPT ![p] = o],
           FrameRight(c), d = 0 <=> Resume(c) = "newcwd",
           ~Pends(c), c.pc # "free", Resume(c) \notin {"create", "unlink", "dirlink", "new", "erase"},
           \A k \in Inums : ~Holds(c, k)
    PROVE  NamesInv'
<1> USE DEF NamesInv
<1>1. ~Linking(c) /\ call'[p] = c
  BY DEF Pends, Leads
<1>2. FreeRight(p)' /\ DirRight(p)' /\ FileRight(p)' /\ EraseRight(p)' /\ NewRight(p)' /\ LocksRight(p)'
  BY <1>1, Relaxed DEF LocksRight
<1>3. ASSUME NEW k \in Inums PROVE QuietEntry(p, k)
  <2>1. inode[k].ref \in Int /\ Count(Pointers(p), k) \in Nat /\ k # 0
    BY CountPoints, Numbers DEF NamesTypes, InodeType
  <2>2. Count(Pointers(p)', k) = Count(Pointers(p), k) + 0
    BY <2>1 DEF Gains, One
  <2> QED
    BY <2>1, <2>2 DEF QuietEntry, Gains, CacheRight
<1>4. QuietStep(p, c, d, o)
  BY DEF QuietStep, NamesTypes, Leads
<1> QED
  BY <1>2, <1>3, <1>4, Quiet

LEMMA LinkedKeeps ==
    ASSUME NamesInv, NEW p \in Users, Linked(p)
    PROVE  NamesInv'
<1>1. PICK c, i, b : c = call[p] /\ i = c.ip /\ b = [c EXCEPT !.ip = 0]
  OBVIOUS
<1>2. c.pc = "linked" /\ c.pc \in WithIp /\ c.pc \notin WithW /\ c.pc \notin InPut /\ c.pc # "newcwd"
  BY <1>1 DEF Linked, At, WithIp, WithW, Looking, InPut
<1>3. i \in Inums /\ c \in CallType /\ c.w = 0 /\ c.put = 0 /\ cwd[p] # 0 /\ NamesTypes
  BY <1>1, <1>2, AtIp, FrameAt DEF NamesInv
<1>4. b \in CallType /\ b.w = 0 /\ b.ip = 0
  BY <1>1, <1>3 DEF CallType, Inode0
<1>5. /\ inode' = inode /\ dinode' = dinode /\ cwd' = cwd /\ ofile' = ofile /\ PutThen(p, b, i, "user")
  BY <1>1 DEF Linked
<1>6. PICK d : /\ Leads(p, d) /\ d.pc = "put" /\ d.put = i /\ d.w = 0 /\ d.ip = 0
               /\ Resume(d) = "user" /\ FrameRight(d) /\ ~Pends(d) /\ ~Linking(d)
               /\ \A k \in Inums : ~Holds(d, k)
  BY <1>3, <1>4, <1>5, PutUser
<1>7. /\ call'[p] = d /\ cwd' = [cwd EXCEPT ![p] = cwd[p]] /\ ofile' = [ofile EXCEPT ![p] = ofile[p]]
      /\ cwd[p] \in Inode0 /\ ofile[p] \in Inode0
  BY <1>3, <1>5, <1>6 DEF NamesTypes, Leads
<1>8. Gains(p, 0)
  BY <1>1, <1>2, <1>3, <1>5, <1>6, <1>7, Numbers DEF Gains, Count, One, Pointers, Points, Keeps
<1>9. PICK w, o : w = cwd[p] /\ o = ofile[p]
  OBVIOUS
<1>10. /\ cwd' = [cwd EXCEPT ![p] = w] /\ ofile' = [ofile EXCEPT ![p] = o] /\ w \in Inode0 /\ o \in Inode0
       /\ w # 0
  BY <1>3, <1>7, <1>9
<1>11. inode' = inode /\ dinode' = dinode
  BY <1>5
<1> QED
  BY ONLY NamesInv, p \in Users, <1>6, <1>8, <1>10, <1>11, QuietOwn

\* fileclose puts the inode of the file.
LEMMA CloseKeeps ==
    ASSUME NamesInv, NEW p \in Users, Close(p)
    PROVE  NamesInv'
<1>1. PICK c, i : c = call[p] /\ i = ofile[p]
  OBVIOUS
<1>2. c.pc = "user" /\ c.pc \notin InPut /\ i # 0 /\ NamesTypes
  BY <1>1 DEF Close, At, InPut, NamesInv
<1>3. c = Outside /\ c \in CallType /\ c.w = 0 /\ c.ip = 0 /\ c.put = 0 /\ cwd[p] # 0 /\ i \in Inums
  <2>1. UserRight(p) /\ cwd[p] # 0
    BY <1>1, <1>2, FrameAt
  <2> QED
    BY <1>1, <1>2, <2>1, OutsideRight DEF UserRight, FrameRight, NamesTypes, Inode0
<1>4. /\ inode' = inode /\ dinode' = dinode /\ cwd' = cwd /\ ofile' = [ofile EXCEPT ![p] = 0]
      /\ PutThen(p, c, i, "user")
  BY <1>1 DEF Close
<1>5. PICK d : /\ Leads(p, d) /\ d.pc = "put" /\ d.put = i /\ d.w = 0 /\ d.ip = 0
               /\ Resume(d) = "user" /\ FrameRight(d) /\ ~Pends(d) /\ ~Linking(d)
               /\ \A k \in Inums : ~Holds(d, k)
  BY <1>2, <1>3, <1>4, PutUser
<1>6. /\ call'[p] = d /\ cwd' = [cwd EXCEPT ![p] = cwd[p]] /\ ofile'[p] = 0
      /\ cwd[p] \in Inode0 /\ 0 \in Inode0
  BY <1>2, <1>4, <1>5 DEF NamesTypes, Leads, Inode0
<1>7. Gains(p, 0)
  BY <1>1, <1>2, <1>3, <1>4, <1>5, <1>6, Numbers DEF Gains, Count, One, Pointers, Points, Keeps
<1> QED
  BY <1>3, <1>4, <1>5, <1>6, <1>7, QuietOwn

\* sys_chdir stores the new working directory.
LEMMA NewCwdKeeps ==
    ASSUME NamesInv, NEW p \in Users, NewCwd(p)
    PROVE  NamesInv'
<1>1. PICK c, i : c = call[p] /\ i = c.ip
  OBVIOUS
<1>2. c.pc = "newcwd" /\ c.pc \in WithIp /\ c.pc \notin WithW /\ c.pc \notin InPut /\ NamesTypes
  BY <1>1 DEF NewCwd, At, WithIp, WithW, Looking, InPut, NamesInv
<1>3. i \in Inums /\ c.w = 0 /\ c.put = 0 /\ cwd[p] = 0
  BY <1>1, <1>2, AtIp DEF UserRight, CwdRight
<1>4. /\ inode' = inode /\ dinode' = dinode /\ ofile' = ofile /\ cwd' = [cwd EXCEPT ![p] = i]
      /\ Return(p)
  BY <1>1 DEF NewCwd
<1>5. Leads(p, Outside)
  BY <1>2, <1>4, ReturnGoes
<1>6. /\ call'[p] = Outside /\ cwd'[p] = i /\ ofile' = [ofile EXCEPT ![p] = ofile[p]]
      /\ ofile[p] \in Inode0 /\ i \in Inode0 /\ i # 0
  BY <1>2, <1>3, <1>4, <1>5, Numbers DEF NamesTypes, Leads, Inode0
<1>7. Gains(p, 0)
  BY <1>1, <1>2, <1>3, <1>4, <1>6, OutsideRight, Numbers DEF Gains, Count, One, Pointers, Points, Keeps
<1> QED
  BY <1>4, <1>5, <1>6, <1>7, OutsideRight, QuietOwn

\* sys_chdir puts the old working directory, or what turned out to be no directory.
LEMMA ChdirKeeps ==
    ASSUME NamesInv, NEW p \in Users, Chdir(p)
    PROVE  NamesInv'
<1>1. PICK c, i, b, x : c = call[p] /\ i = c.w /\ b = [c EXCEPT !.w = 0] /\ x = [c EXCEPT !.w = 0, !.ip = i]
  OBVIOUS
<1>2. c.pc = "chdir" /\ c.pc \in WithW /\ c.pc # "newcwd"
  BY <1>1 DEF Chdir, Locking, At, WithW, Looking
<1>3. /\ i \in Inums /\ c \in CallType /\ c.ip = 0 /\ c.put = 0 /\ c.pc \notin InPut /\ ~Typeless(i)
      /\ inode[i].lock = NoUser /\ NamesTypes /\ cwd[p] # 0 /\ Keeps(p, i)
  BY <1>1, <1>2, AtW DEF Chdir, Locking, CanLock, NamesInv
<1>4. /\ inode' = [inode EXCEPT ![i] = Loaded(i)] /\ dinode' = dinode /\ ofile' = ofile
      /\ \/ cwd' = cwd /\ PutThen(p, b, i, "user")
         \/ cwd' = [cwd EXCEPT ![p] = 0] /\ PutThen(p, x, cwd[p], "newcwd")
  BY <1>1, <1>3 DEF Chdir
<1>5. Cached(i, Loaded(i), 0)
  BY <1>3, <1>4, Numbers DEF Cached, NamesTypes
<1>6. CASE cwd' = cwd /\ PutThen(p, b, i, "user")
  <2>1. Ends(p, i, b)
    BY <1>1, <1>3, <1>4, <1>6 DEF Ends, CallType, Inode0
  <2> QED
    <3>1. EndsWith(p, i, Loaded(i), b)
      BY <1>1, <1>2, <1>3, <1>4, <1>5, <1>6, <2>1 DEF EndsWith
    <3> QED
      BY ONLY NamesInv, p \in Users, <3>1, QuietEnds
<1>7. CASE cwd' = [cwd EXCEPT ![p] = 0] /\ PutThen(p, x, cwd[p], "newcwd")
  <2>1. x \in CallType /\ x.w = 0 /\ x.ip = i /\ "newcwd" \in Callers /\ cwd[p] \in Inums /\ i # 0
    BY <1>1, <1>3, Numbers DEF CallType, Inode0, Callers, WithIp, NamesTypes
  <2>2. PICK d : /\ Leads(p, d) /\ d.pc = "put" /\ d.put = cwd[p] /\ d.w = 0 /\ d.ip = i
                 /\ Resume(d) = "newcwd"
    BY <1>3, <1>7, <2>1, PutGoes
  <2>3. FrameRight(d)
    BY <1>3, <2>1, <2>2, Numbers DEF FrameRight, WithW, WithIp, Looking, InPut, WithElem, Linking
  <2>4. ~Pends(d) /\ ~Linking(d) /\ \A k \in Inums : ~Holds(d, k)
    BY <2>2 DEF Pends, Linking, Holds
  <2>5. /\ call'[p] = d /\ cwd'[p] = 0 /\ ofile' = [ofile EXCEPT ![p] = ofile[p]] /\ ofile'[p] = ofile[p]
        /\ ofile[p] \in Inode0 /\ 0 \in Inode0
    BY <1>3, <1>4, <1>7, <2>2 DEF NamesTypes, Leads, Inode0
  <2>6. Gains(p, 0)
    BY <1>1, <1>2, <1>3, <2>1, <2>2, <2>5, Numbers DEF Gains, Count, One, Pointers, Points, Keeps
  <2>7. FreeRight(p)' /\ DirRight(p)' /\ FileRight(p)' /\ EraseRight(p)' /\ NewRight(p)'
    BY <2>2, <2>4, <2>5, Relaxed
  <2> QED
    <3>1. QuietTo(p, i, Loaded(i), 0, d, 0, ofile[p])
      BY <1>3, <1>4, <1>5, <1>7, <2>2, <2>3, <2>4, <2>5, <2>6, <2>7 DEF QuietTo
    <3> QED
      BY ONLY NamesInv, p \in Users, <3>1, QuietLoad
<1> QED
  BY <1>4, <1>6, <1>7

\* sys_unlink finds no such name, or refers to what has it.
LEMMA UnlinkKeeps ==
    ASSUME NamesInv, NEW p \in Users, Unlink(p)
    PROVE  NamesInv'
<1>1. PICK c, d, i, b, x :
         /\ c = call[p] /\ d = c.w /\ i = dirlookup(d, Elem(p))
         /\ b = [c EXCEPT !.w = 0] /\ x = [c EXCEPT !.pc = "erase", !.ip = i]
  OBVIOUS
<1>2. c.pc = "unlink" /\ c.pc \in WithW /\ c.pc # "newcwd" /\ c.pc \in WithElem
  BY <1>1 DEF Unlink, Locking, At, WithW, Looking, WithElem
<1>3. /\ d \in Inums /\ c \in CallType /\ c.ip = 0 /\ c.put = 0 /\ c.pc \notin InPut
      /\ inode[d].lock = NoUser /\ NamesTypes /\ cwd[p] # 0 /\ Keeps(p, d) /\ UserRight(p)
      /\ Resume(c) = "unlink"
  BY <1>1, <1>2, AtW DEF Unlink, Locking, CanLock, NamesInv
<1>4. Elem(p) \in DirElems /\ c.rest # <<>>
  BY <1>1, <1>2, <1>3, FrameAt
<1>5. /\ dinode' = dinode /\ cwd' = cwd /\ ofile' = ofile
      /\ \/ inode' = [inode EXCEPT ![d] = Loaded(d)] /\ PutThen(p, b, d, "user")
         \/ /\ i # 0 /\ Go(p, x) /\ Elem(p) \notin {".", ".."}
            /\ inode' = [inode EXCEPT ![d] = [Loaded(d) EXCEPT !.lock = p], ![i] = Got(inode[i])]
  BY <1>1 DEF Unlink
<1>6. CASE inode' = [inode EXCEPT ![d] = Loaded(d)] /\ PutThen(p, b, d, "user")
  <2>1. Cached(d, Loaded(d), 0)
    BY <1>3, <1>6, Numbers DEF Cached, NamesTypes
  <2>2. Ends(p, d, b)
    BY <1>1, <1>3, <1>5, <1>6 DEF Ends, CallType, Inode0
  <2> QED
    <3>1. EndsWith(p, d, Loaded(d), b)
      BY <1>1, <1>2, <1>3, <1>5, <2>1, <2>2 DEF EndsWith
    <3> QED
      BY ONLY NamesInv, p \in Users, <3>1, QuietEnds
<1>7. CASE i # 0 /\ Go(p, x) /\ Elem(p) \notin {".", ".."}
            /\ inode' = [inode EXCEPT ![d] = [Loaded(d) EXCEPT !.lock = p], ![i] = Got(inode[i])]
  <2>1. PICK e : e = [Loaded(d) EXCEPT !.lock = p]
    OBVIOUS
  <2>0. Elem(p) \in Elems
    BY <1>4, <1>7 DEF DirElems
  <2>2. i \in Inums /\ i # d /\ dinode[i].nlink >= 1 /\ dinode[i].type # "free" /\ Reached(d, i)
    BY <1>1, <1>3, <1>7, <2>0, NamedLinked DEF dirlookup, Reached
  <2>3. Cached(d, e, i)
    BY <1>3, <1>7, <2>1, <2>2 DEF Cached, NamesTypes
  <2>4. e.lock = p /\ dinode[d].type = "dir"
    <3>1. dinode[d].type = "dir"
      BY <1>1, <1>2, <1>3 DEF UserRight, DirRight
    <3> QED
      BY <1>3, <2>1, <3>1, LoadedEntry DEF InodeType, NamesInv
  <2>5. /\ x \in CallType /\ x.pc = "erase" /\ x.ip = i /\ x.w = d /\ x.put = 0 /\ x.rest = c.rest
        /\ Resume(x) = "erase"
    <3>1. "erase" \in Callers \cup InPut
      BY DEF Callers, WithW
    <3>2. /\ x \in CallType /\ x.pc = "erase" /\ x.ip = i /\ x.w = d /\ x.put = 0 /\ x.rest = c.rest
      BY <1>1, <1>3, <2>2, <3>1 DEF CallType, Inode0
    <3> QED
      BY <3>2 DEF Resume, InPut
  <2>6. Leads(p, x)
    BY <1>3, <1>7, <2>5, GoGoes
  <2>7. FrameRight(x) /\ ~Pends(x) /\ ~Linking(x)
    <3>1. Head(x.rest) \in Elems
      BY <1>1, <2>0, <2>5 DEF Elem
    <3> QED
      BY <1>3, <1>4, <2>2, <2>5, <3>1, Numbers DEF FrameRight, WithW, WithIp, Looking, InPut, Linking, Pends
  <2>8. \A k \in Inums : Holds(x, k) => k = d
    BY <2>5, Numbers DEF Holds
  <2>9. /\ call'[p] = x /\ cwd' = [cwd EXCEPT ![p] = cwd[p]] /\ ofile' = [ofile EXCEPT ![p] = ofile[p]]
        /\ cwd[p] \in Inode0 /\ ofile[p] \in Inode0 /\ cwd'[p] = cwd[p] /\ ofile'[p] = ofile[p]
    BY <1>3, <1>5, <2>6 DEF NamesTypes, Leads
  <2>10. Gains(p, i)
    BY <1>1, <1>2, <1>3, <2>2, <2>5, <2>9, Numbers DEF Gains, Count, One, Pointers, Points, Keeps
  <2>11. FreeRight(p)' /\ FileRight(p)' /\ NewRight(p)'
    BY <2>5, <2>7, <2>9 DEF FreeRight, FileRight, NewRight
  <2>12. DirRight(p)'
    BY <1>5, <2>4, <2>5, <2>9 DEF DirRight
  <2>13. EraseRight(p)'
    <3>1. dinode[d].ents[Head(c.rest)] = i
      BY <1>1 DEF dirlookup, Elem
    <3> QED
      BY <1>5, <2>5, <2>9, <3>1 DEF EraseRight
  <2>14. QuietTo(p, d, e, i, x, cwd[p], ofile[p])
    BY <1>3, <1>5, <2>1, <2>2, <2>3, <2>4, <2>5, <2>6, <2>7, <2>8, <2>9, <2>10, <2>11, <2>12, <2>13 DEF QuietTo
  <2> QED
    BY ONLY NamesInv, p \in Users, <2>14, QuietLoad
<1> QED
  BY <1>5, <1>6, <1>7

\* "." and ".." are in every directory but one that create is about to fill.
Fresh(i) == \E p \in Users : call[p].pc = "new" /\ call[p].ip = i
Dotted(i) == dinode[i].ents["."] = i /\ dinode[i].ents[".."] # 0
DotsRight ==
    /\ \A i \in Inums : dinode[i].type = "dir" => Dotted(i) \/ Fresh(i)
    /\ dinode[Root].ents[".."] = Root

\* Nobody else has come to a directory that is about to be filled.
LEMMA FreshAlone ==
    ASSUME NamesInv, NEW p \in Users, NEW i \in Inums, Keeps(p, i), call[p].pc # "new"
    PROVE  ~Fresh(i)
<1> SUFFICES ASSUME NEW q \in Users, call[q].pc = "new", call[q].ip = i PROVE FALSE
  BY DEF Fresh
<1>1. Resume(call[q]) = "new" /\ NewRight(q) /\ p # q
  BY DEF Resume, InPut, NamesInv, UserRight
<1> QED
  BY <1>1 DEF NewRight

\* A lookup: what it finds, and that a name it does not find is not "." or "..".
LEMMA Found ==
    ASSUME NamesInv, DotsRight, NEW p \in Users, call[p].pc \in {"walk", "create", "dirlink"},
           ~Strays(p), ~(call[p].pc = "walk" /\ call[p].par /\ Len(call[p].rest) = 1),
           dirlookup(call[p].w, Elem(p)) # 0
    PROVE  Reached(call[p].w, dirlookup(call[p].w, Elem(p)))
<1>1. PICK d, n, j : d = call[p].w /\ n = Elem(p) /\ j = dinode[d].ents[n]
  OBVIOUS
<1>2. call[p].pc \in WithW /\ call[p].pc \in WithElem /\ call[p].pc \notin InPut
  BY DEF WithW, Looking, WithElem, InPut
<1>3. d \in Inums /\ Keeps(p, d) /\ n \in DirElems /\ j # 0
  BY <1>1, <1>2, AtW, FrameAt DEF dirlookup
<1>4. dinode[d] \in DinodeType
  BY <1>3 DEF NamesInv, NamesTypes
<1>5. j \in Inums
  BY <1>1, <1>3, <1>4 DEF DinodeType, Inode0
<1>6. CASE n \in Elems
  BY <1>1, <1>3, <1>6, NamedLinked DEF Reached, dirlookup
<1>7. CASE n = "."
  <2>1. ~Fresh(d)
    BY <1>3, FreshAlone
  <2>2. dinode[d].type = "dir"
    BY <1>1, <1>3, Numbers DEF NamesInv, CacheRight
  <2>3. j = d
    BY <1>1, <1>3, <1>7, <2>1, <2>2 DEF DotsRight, Dotted
  <2> QED
    BY <1>1, <1>5, <2>3 DEF Reached, dirlookup
<1>8. CASE n = ".."
  <2>1. dinode[j].nlink # 0
    BY <1>1, <1>3, <1>8 DEF Strays, dirlookup
  <2>2. dinode[j].nlink \in Nat
    <3>1. Cardinality(Named(j)) + Cardinality(Children(j)) + Cardinality(Pending(j))
            + (IF j = Root THEN 1 ELSE 0) <= dinode[j].nlink
      BY <1>5 DEF NamesInv, LinksCounted
    <3>2. dinode[j].nlink \in Int
      BY <1>5 DEF NamesInv, NamesTypes, DinodeType
    <3> QED
      BY <3>1, <3>2, PendingFinite, NamesFinite
  <2>3. dinode[j].type # "free"
    BY <1>5, <2>1 DEF NamesInv, CacheRight
  <2> QED
    BY <1>1, <1>5, <2>1, <2>2, <2>3 DEF Reached, dirlookup
<1> QED
  BY <1>3, <1>6, <1>7, <1>8 DEF DirElems

LEMMA NotFound ==
    ASSUME NamesInv, DotsRight, NEW p \in Users, call[p].pc \in {"create", "dirlink"},
           dirlookup(call[p].w, Elem(p)) = 0
    PROVE  Elem(p) \in Elems
<1>1. PICK d, n : d = call[p].w /\ n = Elem(p)
  OBVIOUS
<1>2. call[p].pc \in WithW /\ call[p].pc \in WithElem /\ call[p].pc \notin InPut
  BY DEF WithW, Looking, WithElem, InPut
<1>3. d \in Inums /\ Keeps(p, d) /\ n \in DirElems /\ UserRight(p) /\ Resume(call[p]) = call[p].pc
  BY <1>1, <1>2, AtW, FrameAt
<1>4. dinode[d].type = "dir"
  BY <1>1, <1>3 DEF UserRight, DirRight
<1>5. ~Fresh(d)
  BY <1>3, FreshAlone
<1>6. Dotted(d) /\ d # 0
  BY <1>3, <1>4, <1>5, Numbers DEF DotsRight
<1> QED
  BY <1>1, <1>3, <1>6 DEF Dotted, dirlookup, DirElems

LEMMA WithCached ==
    ASSUME NamesTypes, NEW i \in Inums, NEW e, NEW j \in Inums, inode' = With([inode EXCEPT ![i] = e], j)
    PROVE  Cached(i, e, j)
<1>1. PICK c : c = [inode EXCEPT ![i] = e]
  OBVIOUS
<1>2. c[i] = e /\ DOMAIN c = Inums /\ \A k \in Inums : k # i => c[k] = inode[k]
  BY <1>1 DEF NamesTypes
<1>3. inode' = [c EXCEPT ![j] = Got(c[j])]
  BY <1>1 DEF With
<1>4. inode' = [k \in Inums |-> IF k = j THEN Got(c[j]) ELSE c[k]]
  BY <1>1, <1>2, <1>3 DEF NamesTypes
<1> QED
  BY <1>2, <1>4 DEF Cached

\* create finds the name, and puts the directory before it locks what has it.
LEMMA CreateThereKeeps ==
    ASSUME NamesInv, DotsRight, NEW p \in Users, ~Strays(p), Create(p), dirlookup(call[p].w, Elem(p)) # 0
    PROVE  NamesInv'
<1>1. PICK c, d, i, b :
         /\ c = call[p] /\ d = c.w /\ i = dirlookup(d, Elem(p)) /\ b = [c EXCEPT !.w = 0, !.ip = i]
  OBVIOUS
<1>2. c.pc = "create" /\ c.pc \in WithW /\ c.pc \in WithElem
  BY <1>1 DEF Create, Locking, At, WithW, Looking, WithElem
<1>3. /\ d \in Inums /\ c \in CallType /\ c.ip = 0 /\ c.put = 0 /\ c.pc \notin InPut
      /\ inode[d].lock = NoUser /\ NamesTypes /\ cwd[p] # 0 /\ Keeps(p, d)
  BY <1>1, <1>2, AtW DEF Create, Locking, CanLock, NamesInv
<1>5. /\ dinode' = dinode /\ cwd' = cwd /\ ofile' = ofile /\ i # 0
      /\ PutThen(p, b, d, "existing")
      /\ inode' = With([inode EXCEPT ![d] = Loaded(d)], i)
  BY <1>1 DEF Create
<1>6. Reached(d, i) /\ i \in Inums
  BY <1>1, <1>2, <1>5, Found DEF Reached
<1>7. Cached(d, Loaded(d), i)
  BY <1>3, <1>5, <1>6, WithCached
<1>8. b \in CallType /\ b.w = 0 /\ b.ip = i /\ "existing" \in Callers
  BY <1>1, <1>3, <1>6 DEF CallType, Inode0, Callers, WithIp
<1>9. PICK x : Leads(p, x) /\ x.pc = "put" /\ x.put = d /\ x.w = 0 /\ x.ip = i /\ Resume(x) = "existing"
  BY <1>3, <1>5, <1>8, PutGoes
<1>10. FrameRight(x) /\ ~Pends(x) /\ ~Linking(x) /\ \A k \in Inums : ~Holds(x, k)
  BY <1>3, <1>6, <1>9, Numbers DEF FrameRight, WithW, WithIp, Looking, InPut, WithElem, Linking, Pends, Holds
<1>11. /\ call'[p] = x /\ cwd' = [cwd EXCEPT ![p] = cwd[p]] /\ ofile' = [ofile EXCEPT ![p] = ofile[p]]
       /\ cwd[p] \in Inode0 /\ ofile[p] \in Inode0 /\ cwd'[p] = cwd[p] /\ ofile'[p] = ofile[p]
  BY <1>3, <1>5, <1>9 DEF NamesTypes, Leads
<1>12. Gains(p, i)
  BY <1>1, <1>2, <1>3, <1>6, <1>9, <1>11, Numbers DEF Gains, Count, One, Pointers, Points, Keeps
<1>13. FreeRight(p)' /\ DirRight(p)' /\ FileRight(p)' /\ EraseRight(p)' /\ NewRight(p)'
  BY <1>9, <1>10, <1>11, Relaxed
<1>14. QuietTo(p, d, Loaded(d), i, x, cwd[p], ofile[p])
  BY <1>3, <1>5, <1>6, <1>7, <1>9, <1>10, <1>11, <1>12, <1>13 DEF QuietTo
<1> QED
  BY ONLY NamesInv, p \in Users, <1>14, QuietLoad

\* sys_unlink refuses a directory that is not empty; it still has dp locked.
LEMMA EraseRefusedKeeps ==
    ASSUME NamesInv, NEW p \in Users, Erase(p), Refuses(call[p].ip), fsPanic' = fsPanic
    PROVE  NamesInv'
<1>1. PICK c, d, i, b : c = call[p] /\ d = c.w /\ i = c.ip /\ b = [c EXCEPT !.ip = 0]
  OBVIOUS
<1>2. c.pc = "erase" /\ c.pc \in WithW /\ c.pc \in WithIp /\ c.pc \in WithElem /\ fsPanic = "no"
  BY <1>1 DEF Erase, Locking, At, WithW, WithIp, Looking, WithElem
<1>3. /\ d \in Inums /\ i \in Inums /\ c \in CallType /\ c.put = 0 /\ c.pc \notin InPut
      /\ inode[i].lock = NoUser /\ NamesTypes /\ cwd[p] # 0 /\ Keeps(p, i) /\ UserRight(p)
      /\ Resume(c) = "erase"
  BY <1>1, <1>2, AtW, AtIp DEF Erase, Locking, CanLock, NamesInv
<1>4. Elem(p) \in Elems
  BY <1>1, <1>2, <1>3, FrameAt
<1>5. i # d
  <2>1. dinode[d].ents[Elem(p)] = i
    BY <1>1, <1>3 DEF UserRight, EraseRight, Elem
  <2> QED
    BY <1>3, <1>4, <2>1 DEF NamesInv, TreeRight
<1>6. /\ dinode' = dinode /\ cwd' = cwd /\ ofile' = ofile /\ PutThen(p, b, i, "refused")
      /\ inode' = [inode EXCEPT ![i] = Loaded(i)]
  BY <1>1, <1>2 DEF Erase, FsPanic
<1>7. Cached(i, Loaded(i), 0)
  BY <1>3, <1>6, Numbers DEF Cached, NamesTypes
<1>8. b \in CallType /\ b.w = d /\ b.ip = 0 /\ "refused" \in Callers
  BY <1>1, <1>3 DEF CallType, Inode0, Callers, WithW
<1>9. PICK x : Leads(p, x) /\ x.pc = "put" /\ x.put = i /\ x.w = d /\ x.ip = 0 /\ Resume(x) = "refused"
  BY <1>3, <1>6, <1>8, PutGoes
<1>10. FrameRight(x) /\ ~Pends(x) /\ ~Linking(x)
  BY <1>3, <1>9, Numbers DEF FrameRight, WithW, WithIp, Looking, InPut, WithElem, Linking, Pends
<1>11. \A k \in Inums : Holds(x, k) => k # i /\ Holds(c, k)
  BY <1>1, <1>3, <1>5, <1>9, Numbers DEF Holds
<1>12. /\ call'[p] = x /\ cwd' = [cwd EXCEPT ![p] = cwd[p]] /\ ofile' = [ofile EXCEPT ![p] = ofile[p]]
       /\ cwd[p] \in Inode0 /\ ofile[p] \in Inode0 /\ cwd'[p] = cwd[p] /\ ofile'[p] = ofile[p]
  BY <1>3, <1>6, <1>9 DEF NamesTypes, Leads
<1>13. Gains(p, 0)
  BY <1>1, <1>2, <1>3, <1>9, <1>12, Numbers DEF Gains, Count, One, Pointers, Points, Keeps
<1>14. FreeRight(p)' /\ DirRight(p)' /\ FileRight(p)' /\ EraseRight(p)' /\ NewRight(p)'
  BY <1>9, <1>10, <1>12, Relaxed
<1>15. QuietTo(p, i, Loaded(i), 0, x, cwd[p], ofile[p])
  BY <1>1, <1>3, <1>6, <1>7, <1>9, <1>10, <1>11, <1>12, <1>13, <1>14 DEF QuietTo
<1> QED
  BY ONLY NamesInv, p \in Users, <1>15, QuietLoad

\* sys_link refuses a directory.
LEMMA LinkDirKeeps ==
    ASSUME NamesInv, NEW p \in Users, Link(p), Loaded(call[p].w).type = "dir"
    PROVE  NamesInv'
<1>1. PICK c, i, b : c = call[p] /\ i = c.w /\ b = [c EXCEPT !.w = 0]
  OBVIOUS
<1>2. c.pc = "link" /\ c.pc \in WithW /\ c.pc # "newcwd"
  BY <1>1 DEF Link, Locking, At, WithW, Looking
<1>3. /\ i \in Inums /\ c \in CallType /\ c.ip = 0 /\ c.pc \notin InPut /\ ~Typeless(i)
      /\ inode[i].lock = NoUser /\ NamesTypes
  BY <1>1, <1>2, AtW DEF Link, Locking, CanLock, NamesInv
<1>4. /\ inode' = [inode EXCEPT ![i] = Loaded(i)] /\ dinode' = dinode /\ cwd' = cwd /\ ofile' = ofile
      /\ PutThen(p, b, i, "user")
  BY <1>1, <1>3 DEF Link
<1>5. Cached(i, Loaded(i), 0)
  BY <1>3, <1>4, Numbers DEF Cached, NamesTypes
<1>6. Ends(p, i, b)
  BY <1>1, <1>3, <1>4 DEF Ends, CallType, Inode0
<1>7. EndsWith(p, i, Loaded(i), b)
  BY <1>1, <1>2, <1>3, <1>4, <1>5, <1>6 DEF EndsWith
<1> QED
  BY ONLY NamesInv, p \in Users, <1>7, QuietEnds

\* dirlink finds the name, and puts what has it with dp locked.
LEMMA DirlinkThereKeeps ==
    ASSUME NamesInv, DotsRight, NEW p \in Users, ~Strays(p), Dirlink(p), dirlookup(call[p].w, Elem(p)) # 0
    PROVE  NamesInv'
<1>1. PICK c, d, i : c = call[p] /\ d = c.w /\ i = dirlookup(d, Elem(p))
  OBVIOUS
<1>2. c.pc = "dirlink" /\ c.pc \in WithW /\ c.pc \in WithIp /\ c.pc \in WithElem
  BY <1>1 DEF Dirlink, Locking, At, WithW, WithIp, Looking, WithElem
<1>3. /\ d \in Inums /\ c \in CallType /\ c.ip \in Inums /\ c.put = 0 /\ c.pc \notin InPut
      /\ inode[d].lock = NoUser /\ NamesTypes /\ cwd[p] # 0 /\ Keeps(p, d) /\ Resume(c) = "dirlink"
  BY <1>1, <1>2, AtW, AtIp DEF Dirlink, Locking, CanLock, NamesInv
<1>5. PICK e : e = [Loaded(d) EXCEPT !.lock = p]
  OBVIOUS
<1>6. /\ dinode' = dinode /\ cwd' = cwd /\ ofile' = ofile /\ i # 0
      /\ PutThen(p, c, i, "exists")
      /\ inode' = With([inode EXCEPT ![d] = e], i)
  BY <1>1, <1>5 DEF Dirlink
<1>7. Reached(d, i) /\ i \in Inums
  BY <1>1, <1>2, <1>6, Found DEF Reached
<1>8. Cached(d, e, i)
  BY <1>3, <1>6, <1>7, WithCached
<1>9. e.lock = p
  <2>1. dinode[d].type # "free"
    BY <1>3 DEF NamesInv, UserRight, KeepsRight
  <2> QED
    BY <1>3, <1>5, <2>1, LoadedEntry DEF InodeType, NamesInv
<1>10. PICK x : Leads(p, x) /\ x.pc = "put" /\ x.put = i /\ x.w = d /\ x.ip = c.ip /\ Resume(x) = "exists"
  <2>1. "exists" \in Callers
    BY DEF Callers, WithW
  <2> QED
    BY <1>1, <1>3, <1>6, <1>7, <2>1, PutGoes
<1>11. FrameRight(x) /\ ~Linking(x) /\ Pends(c)
  BY <1>3, <1>7, <1>10, Numbers DEF FrameRight, WithW, WithIp, Looking, InPut, WithElem, Linking, Pends
<1>12. \A k \in Inums : Holds(x, k) => k = d
  BY <1>10, Numbers DEF Holds
<1>13. /\ call'[p] = x /\ cwd' = [cwd EXCEPT ![p] = cwd[p]] /\ ofile' = [ofile EXCEPT ![p] = ofile[p]]
       /\ cwd[p] \in Inode0 /\ ofile[p] \in Inode0 /\ cwd'[p] = cwd[p] /\ ofile'[p] = ofile[p]
  BY <1>3, <1>6, <1>10 DEF NamesTypes, Leads
<1>14. Gains(p, i)
  BY <1>1, <1>2, <1>3, <1>7, <1>10, <1>13, Numbers DEF Gains, Count, One, Pointers, Points, Keeps
<1>15. FreeRight(p)' /\ DirRight(p)' /\ FileRight(p)' /\ EraseRight(p)' /\ NewRight(p)'
  BY <1>10, <1>11, <1>13, Relaxed
<1>16. QuietTo(p, d, e, i, x, cwd[p], ofile[p])
  BY <1>1, <1>3, <1>5, <1>6, <1>7, <1>8, <1>9, <1>10, <1>11, <1>12, <1>13, <1>14, <1>15 DEF QuietTo
<1> QED
  BY ONLY NamesInv, p \in Users, <1>16, QuietLoad

\* ... and dp, on the way to the label bad.
LEMMA ExistsKeeps ==
    ASSUME NamesInv, NEW p \in Users, Exists(p)
    PROVE  NamesInv'
<1>1. PICK c, d, b : c = call[p] /\ d = c.w /\ b = [c EXCEPT !.w = 0]
  OBVIOUS
<1>2. c.pc = "exists" /\ c.pc \in WithW /\ c.pc \in WithIp
  BY <1>1 DEF Exists, At, WithW, WithIp
<1>3. /\ d \in Inums /\ c \in CallType /\ c.ip \in Inums /\ c.put = 0 /\ c.pc \notin InPut
      /\ NamesTypes /\ cwd[p] # 0 /\ Keeps(p, d) /\ Resume(c) = "exists"
  BY <1>1, <1>2, AtW, AtIp DEF NamesInv
<1>4. /\ inode' = [inode EXCEPT ![d].lock = NoUser] /\ dinode' = dinode /\ cwd' = cwd /\ ofile' = ofile
      /\ PutThen(p, b, d, "linkbad")
  BY <1>1 DEF Exists
<1>5. PICK e : e = [Loaded(d) EXCEPT !.lock = NoUser]
  OBVIOUS
<1>6. inode[d].lock = p /\ Cached(d, e, 0)
  BY <1>1, <1>2, <1>3, <1>4, <1>5, Unlocks DEF Holds
<1>7. b \in CallType /\ b.w = 0 /\ b.ip = c.ip /\ "linkbad" \in Callers
  BY <1>1, <1>3 DEF CallType, Inode0, Callers, WithIp
<1>8. PICK x : Leads(p, x) /\ x.pc = "put" /\ x.put = d /\ x.w = 0 /\ x.ip = c.ip /\ Resume(x) = "linkbad"
  BY <1>3, <1>4, <1>7, PutGoes
<1>9. FrameRight(x) /\ ~Linking(x) /\ Pends(c) /\ \A k \in Inums : ~Holds(x, k)
  BY <1>3, <1>8, Numbers DEF FrameRight, WithW, WithIp, Looking, InPut, WithElem, Linking, Pends, Holds
<1>10. /\ call'[p] = x /\ cwd' = [cwd EXCEPT ![p] = cwd[p]] /\ ofile' = [ofile EXCEPT ![p] = ofile[p]]
       /\ cwd[p] \in Inode0 /\ ofile[p] \in Inode0 /\ cwd'[p] = cwd[p] /\ ofile'[p] = ofile[p]
  BY <1>3, <1>4, <1>8 DEF NamesTypes, Leads
<1>11. Gains(p, 0)
  BY <1>1, <1>2, <1>3, <1>8, <1>10, Numbers DEF Gains, Count, One, Pointers, Points, Keeps
<1>12. FreeRight(p)' /\ DirRight(p)' /\ FileRight(p)' /\ EraseRight(p)' /\ NewRight(p)'
  BY <1>8, <1>9, <1>10, Relaxed
<1>13. QuietTo(p, d, e, 0, x, cwd[p], ofile[p])
  BY <1>1, <1>3, <1>4, <1>5, <1>6, <1>8, <1>9, <1>10, <1>11, <1>12 DEF QuietTo
<1> QED
  BY ONLY NamesInv, p \in Users, <1>13, QuietLoad

\* One round of namex.
LEMMA WalkKeeps ==
    ASSUME NamesInv, DotsRight, NEW p \in Users, ~Strays(p), Walk(p), fsPanic' = fsPanic
    PROVE  NamesInv'
<1>1. PICK c, i, j, b, y :
         /\ c = call[p] /\ i = c.w /\ j = dirlookup(i, Elem(p)) /\ b = [c EXCEPT !.w = 0]
         /\ y = [c EXCEPT !.w = j, !.rest = Tail(c.rest)]
  OBVIOUS
<1>2. c.pc = "walk" /\ c.pc \in WithW /\ c.pc \in WithElem /\ c.pc # "newcwd" /\ fsPanic = "no"
  BY <1>1 DEF Walk, Locking, At, WithW, Looking, WithElem
<1>3. /\ i \in Inums /\ c \in CallType /\ c.put = 0 /\ c.pc \notin InPut /\ ~Typeless(i)
      /\ inode[i].lock = NoUser /\ NamesTypes /\ cwd[p] # 0 /\ Keeps(p, i) /\ UserRight(p)
      /\ Resume(c) = "walk" /\ dinode[i].type # "free" /\ FrameRight(c)
  BY <1>1, <1>2, AtW DEF Walk, Locking, CanLock, NamesInv, UserRight
<1>4. Elem(p) \in DirElems /\ c.rest # <<>>
  BY <1>1, <1>2, <1>3, FrameAt
<1>5. /\ c.ok \in OkLabels /\ (c.par <=> c.ok \in {"create", "unlink", "dirlink"})
      /\ c.bad = (IF c.ok = "dirlink" THEN "linkbad" ELSE "user")
      /\ c.ok = "link" => c.req \in Requests /\ c.req.op = "link"
      /\ (c.ip # 0 <=> c.ok = "dirlink") /\ c.ip \in Inode0 /\ c.rest \in Seq(DirElems)
      /\ (Linking(c) <=> c.ok = "dirlink") /\ (Pends(c) <=> c.ok = "dirlink")
      /\ c.ok = "dirlink" => dinode[c.ip].type = "file"
  <2>1. (Linking(c) <=> c.ok = "dirlink") /\ (Pends(c) <=> c.ok = "dirlink")
    BY <1>3 DEF Linking, Pends
  <2>2. c.ip \in Inode0 /\ c.rest \in Seq(DirElems) /\ "walk" \notin WithIp
    BY <1>3 DEF CallType, WithIp
  <2>3. c.ok = "dirlink" => dinode[c.ip].type = "file"
    BY <1>1, <1>3, <2>1 DEF UserRight, FileRight
  <2> QED
    BY <1>3, <2>1, <2>2, <2>3 DEF FrameRight
<1>6. /\ cwd' = [cwd EXCEPT ![p] = cwd[p]] /\ ofile' = [ofile EXCEPT ![p] = ofile[p]]
      /\ cwd[p] \in Inode0 /\ ofile[p] \in Inode0 /\ cwd'[p] = cwd[p] /\ ofile'[p] = ofile[p]
      /\ dinode' = dinode /\ cwd' = cwd /\ ofile' = ofile
  BY <1>1, <1>2, <1>3 DEF Walk, FsPanic, NamesTypes
<1>7. \/ inode' = [inode EXCEPT ![i] = Loaded(i)] /\ PutThen(p, b, i, c.bad)
      \/ /\ inode' = [inode EXCEPT ![i] = Loaded(i)] /\ Go(p, [c EXCEPT !.pc = c.ok])
         /\ Loaded(i).type = "dir" /\ c.par
      \/ /\ inode' = With([inode EXCEPT ![i] = Loaded(i)], j) /\ j # 0
         /\ ~(c.par /\ Len(c.rest) = 1)
         /\ PutThen(p, y, i, IF Len(c.rest) = 1 THEN c.ok ELSE "walk")
  BY <1>1, <1>3 DEF Walk, GoTo
<1>8. CASE inode' = [inode EXCEPT ![i] = Loaded(i)] /\ PutThen(p, b, i, c.bad)
  <2>1. Cached(i, Loaded(i), 0)
    BY <1>3, <1>8, Numbers DEF Cached, NamesTypes
  <2>2. b \in CallType /\ b.w = 0 /\ b.ip = c.ip /\ c.bad \in Callers
    BY <1>1, <1>3, <1>5 DEF CallType, Inode0, Callers, WithIp
  <2>3. PICK x : Leads(p, x) /\ x.pc = "put" /\ x.put = i /\ x.w = 0 /\ x.ip = c.ip /\ Resume(x) = c.bad
    BY <1>3, <1>8, <2>2, PutGoes
  <2>4. FrameRight(x) /\ ~Linking(x) /\ \A k \in Inums : ~Holds(x, k)
    BY <1>3, <1>5, <2>3, Numbers DEF FrameRight, WithW, WithIp, Looking, InPut, WithElem, Linking, Holds
  <2>5. Pends(x) => Pends(c)
    BY <1>5, <2>3, <2>4 DEF Pends
  <2>6. call'[p] = x
    BY <2>3 DEF Leads
  <2>7. Gains(p, 0)
    BY <1>1, <1>2, <1>3, <1>6, <2>3, <2>6, Numbers DEF Gains, Count, One, Pointers, Points, Keeps
  <2>8. FreeRight(p)' /\ DirRight(p)' /\ FileRight(p)' /\ EraseRight(p)' /\ NewRight(p)'
    BY <1>5, <2>3, <2>4, <2>6, Relaxed
  <2>9. QuietTo(p, i, Loaded(i), 0, x, cwd[p], ofile[p])
    BY <1>1, <1>3, <1>5, <1>6, <2>1, <2>3, <2>4, <2>5, <2>7, <2>8 DEF QuietTo
  <2> QED
    BY ONLY NamesInv, p \in Users, <2>9, QuietLoad
<1>9. CASE /\ inode' = [inode EXCEPT ![i] = Loaded(i)] /\ Go(p, [c EXCEPT !.pc = c.ok])
           /\ Loaded(i).type = "dir" /\ c.par
  <2>1. Cached(i, Loaded(i), 0)
    BY <1>3, <1>9, Numbers DEF Cached, NamesTypes
  <2>2. PICK x : x = [c EXCEPT !.pc = c.ok]
    OBVIOUS
  <2>3. c.ok \in {"create", "unlink", "dirlink"} /\ dinode[i].type = "dir"
    BY <1>3, <1>5, <1>9, LoadedEntry DEF NamesInv
  <2>4. /\ x \in CallType /\ x.pc = c.ok /\ x.w = i /\ x.ip = c.ip /\ x.put = 0 /\ x.rest = c.rest
        /\ Resume(x) = c.ok
    <3>1. c.ok \in Callers \cup InPut
      BY <2>3 DEF Callers, WithW, Looking
    <3>2. /\ x \in CallType /\ x.pc = c.ok /\ x.w = i /\ x.ip = c.ip /\ x.put = 0 /\ x.rest = c.rest
      BY <1>1, <1>3, <2>2, <3>1 DEF CallType
    <3> QED
      BY <2>3, <3>2 DEF Resume, InPut
  <2>5. Leads(p, x)
    BY <1>3, <1>9, <2>2, <2>4, GoGoes
  <2>6. ~Linking(x) /\ (\A k \in Inums : ~Holds(x, k)) /\ (Pends(x) => Pends(c))
    BY <1>5, <2>3, <2>4, Numbers DEF Linking, Holds, Pends
  <2>7. FrameRight(x)
    BY <1>3, <1>4, <1>5, <2>3, <2>4, <2>6, Numbers DEF FrameRight, WithW, WithIp, Looking, InPut
  <2>8. call'[p] = x
    BY <2>5 DEF Leads
  <2>9. Gains(p, 0)
    BY <1>1, <1>2, <1>3, <1>6, <2>4, <2>8, Numbers DEF Gains, Count, One, Pointers, Points, Keeps
  <2>10. DirRight(p)' /\ FileRight(p)'
    BY <1>5, <1>6, <2>3, <2>4, <2>6, <2>8 DEF DirRight, FileRight
  <2>11. FreeRight(p)' /\ EraseRight(p)' /\ NewRight(p)'
    BY <2>3, <2>4, <2>8 DEF FreeRight, EraseRight, NewRight
  <2>12. QuietTo(p, i, Loaded(i), 0, x, cwd[p], ofile[p])
    BY <1>1, <1>3, <1>5, <1>6, <2>1, <2>3, <2>4, <2>5, <2>6, <2>7, <2>9, <2>10, <2>11 DEF QuietTo
  <2> QED
    BY ONLY NamesInv, p \in Users, <2>12, QuietLoad
<1>10. CASE /\ inode' = With([inode EXCEPT ![i] = Loaded(i)], j) /\ j # 0
            /\ ~(c.par /\ Len(c.rest) = 1)
            /\ PutThen(p, y, i, IF Len(c.rest) = 1 THEN c.ok ELSE "walk")
  <2>1. j \in Inums /\ Reached(i, j)
    BY <1>1, <1>2, <1>10, Found DEF Reached
  <2>2. Cached(i, Loaded(i), j)
    BY <1>3, <1>10, <2>1, WithCached
  <2>3. PICK ret : ret = IF Len(c.rest) = 1 THEN c.ok ELSE "walk"
    OBVIOUS
  <2>4. /\ Tail(c.rest) \in Seq(DirElems) /\ (Len(c.rest) # 1 => Tail(c.rest) # <<>>)
    <3>1. PICK t : t = c.rest
      OBVIOUS
    <3>2. t \in Seq(DirElems) /\ t # <<>>
      BY <1>4, <1>5, <3>1
    <3>3. Tail(t) \in Seq(DirElems) /\ Len(Tail(t)) = Len(t) - 1 /\ Len(t) \in Nat
      BY <3>2, HeadTailProperties, LenProperties
    <3>4. Tail(t) = <<>> => Len(Tail(t)) = 0
      BY EmptySeq
    <3> QED
      BY <3>1, <3>3, <3>4
  <2>5. /\ ret \in {"open", "link", "chdir", "walk"} /\ (ret = "walk" => Tail(c.rest) # <<>>)
        /\ (ret # "walk" => ret = c.ok /\ c.ip = 0)
    BY <1>5, <1>10, <2>3, <2>4 DEF OkLabels
  <2>6. /\ y \in CallType /\ y.w = j /\ y.ip = c.ip /\ y.rest = Tail(c.rest) /\ ret \in Callers
        /\ y.ok = c.ok /\ y.bad = c.bad /\ y.par = c.par /\ y.req = c.req
    <3>1. ret \in Callers
      BY <2>5 DEF Callers, WithW, Looking
    <3>2. PICK t : t = Tail(c.rest)
      OBVIOUS
    <3>3. t \in Seq(DirElems) /\ j \in Inode0 /\ y = [c EXCEPT !.w = j, !.rest = t]
      BY <1>1, <2>1, <2>4, <3>2 DEF Inode0
    <3> QED
      BY <1>3, <3>1, <3>2, <3>3 DEF CallType
  <2>7. PutThen(p, y, i, ret)
    BY <1>10, <2>3
  <2>8. PICK x : /\ Leads(p, x) /\ x.pc = "put" /\ x.put = i /\ x.w = j /\ x.ip = c.ip /\ Resume(x) = ret
                 /\ x.rest = Tail(c.rest) /\ x.ok = c.ok /\ x.bad = c.bad /\ x.par = c.par /\ x.req = c.req
    BY <1>3, <2>6, <2>7, PutGoes
  <2>9. /\ (Linking(x) => Linking(c)) /\ (Pends(x) => Pends(c)) /\ \A k \in Inums : ~Holds(x, k)
    BY <1>5, <2>5, <2>8, Numbers DEF Linking, Pends, Holds
  <2>10. FrameRight(x)
    <3>1. j # 0 /\ i # 0
      BY <1>3, <2>1, Numbers
    <3>2. ret \in WithW /\ ret \notin WithIp /\ (ret \in WithElem => ret = "walk")
      BY <2>5 DEF WithW, WithIp, Looking, WithElem
    <3>3. x.ip # 0 <=> Linking(x)
      BY <1>5, <2>5, <2>8 DEF Linking
    <3> QED
      BY <1>5, <2>5, <2>8, <3>1, <3>2, <3>3 DEF FrameRight, InPut
  <2>11. call'[p] = x
    BY <2>8 DEF Leads
  <2>12. Gains(p, j)
    BY <1>1, <1>2, <1>3, <1>6, <2>1, <2>8, <2>11, Numbers DEF Gains, Count, One, Pointers, Points, Keeps
  <2>13. FileRight(p)'
    BY <1>5, <1>6, <2>5, <2>8, <2>9, <2>11 DEF FileRight
  <2>14. FreeRight(p)' /\ EraseRight(p)' /\ NewRight(p)' /\ DirRight(p)'
    BY <2>5, <2>8, <2>11 DEF FreeRight, EraseRight, NewRight, DirRight
  <2>15. QuietTo(p, i, Loaded(i), j, x, cwd[p], ofile[p])
    BY <1>1, <1>3, <1>6, <2>1, <2>2, <2>5, <2>8, <2>9, <2>10, <2>12, <2>13, <2>14 DEF QuietTo
  <2> QED
    BY ONLY NamesInv, p \in Users, <2>15, QuietLoad
<1> QED
  BY <1>7, <1>8, <1>9, <1>10

\* What p relies on at the label it returns to from iput stays.
LEMMA SameRights ==
    ASSUME NamesInv, NEW p \in Users, dinode' = dinode, NEW c, Leads(p, c),
           c.w = call[p].w, c.ip = call[p].ip, c.rest = call[p].rest, c.req = call[p].req,
           c.ok = call[p].ok, Resume(c) = Resume(call[p]), cwd' = cwd, ofile' = ofile,
           \A i \in Inums : inode'[i].valid => inode[i].valid
    PROVE  /\ DirRight(p)' /\ FileRight(p)' /\ EraseRight(p)' /\ NewRight(p)'
           /\ Linking(c) <=> Linking(call[p])
           /\ Pends(c) <=> Pends(call[p])
<1>1. UserRight(p) /\ call'[p] = c /\ (Linking(c) <=> Linking(call[p])) /\ (Pends(c) <=> Pends(call[p]))
  BY DEF NamesInv, Leads, Linking, Pends
<1>2. DirRight(p)' /\ FileRight(p)' /\ EraseRight(p)'
  BY <1>1 DEF UserRight, DirRight, FileRight, EraseRight
<1>3. \A q \in Users \ {p}, i \in Inums : Keeps(q, i)' => Keeps(q, i)
  BY DEF Keeps, Leads
<1>4. NewRight(p)'
  <2>1. NewRight(p)
    BY <1>1 DEF UserRight
  <2> QED
    BY <1>1, <1>3, <2>1 DEF NewRight
<1> QED
  BY <1>1, <1>2, <1>4

\* iput decides whether this is the last reference.
LEMMA IputKeeps ==
    ASSUME NamesInv, NEW p \in Users, Iput(p)
    PROVE  NamesInv'
<1> USE DEF NamesInv
<1>1. PICK c, i, l, x :
         /\ c = call[p] /\ i = c.put /\ l = (IF LastReference(i) THEN "free" ELSE "drop")
         /\ x = [c EXCEPT !.pc = l]
  OBVIOUS
<1>2. c.pc = "put" /\ UserRight(p) /\ c \in CallType /\ FrameRight(c) /\ Resume(c) = c.ret
  BY <1>1 DEF Iput, Locking, At, NamesTypes, UserRight, Resume, InPut
<1>3. i \in Inums /\ inode[i].lock = NoUser /\ NoUser \notin Users
  BY <1>1, <1>2, Numbers DEF FrameRight, InPut, CallType, Inode0, Iput, Locking, CanLock
<1>4. /\ inode' = [inode EXCEPT ![i].lock = IF LastReference(i) THEN p ELSE @]
      /\ Go(p, x) /\ dinode' = dinode /\ cwd' = cwd /\ ofile' = ofile
  BY <1>1 DEF Iput, GoTo
<1>5. /\ x \in CallType /\ x.pc = l /\ x.w = c.w /\ x.ip = c.ip /\ x.put = i /\ x.rest = c.rest
      /\ x.req = c.req /\ x.ok = c.ok /\ x.bad = c.bad /\ x.par = c.par /\ x.ret = c.ret
      /\ l \in {"free", "drop"}
  <2>1. l \in {"free", "drop"} /\ l \in Callers \cup InPut
    BY <1>1 DEF InPut
  <2> QED
    BY <1>1, <1>2, <2>1 DEF CallType
<1>6. Resume(x) = c.ret /\ Leads(p, x)
  BY <1>4, <1>5, GoGoes DEF Resume, InPut
<1>7. FrameRight(x) /\ (Linking(x) <=> Linking(c)) /\ (Pends(x) <=> Pends(c))
  <2>1. (Linking(x) <=> Linking(c)) /\ (Pends(x) <=> Pends(c))
    BY <1>2, <1>5, <1>6 DEF Linking, Pends
  <2> QED
    BY <1>2, <1>3, <1>5, <1>6, <2>1, Numbers DEF FrameRight, InPut
<1>8. /\ call'[p] = x /\ inode' \in [Inums -> InodeType]
      /\ inode'[i] = [inode[i] EXCEPT !.lock = IF LastReference(i) THEN p ELSE @]
      /\ \A k \in Inums : k # i => inode'[k] = inode[k]
  BY <1>3, <1>4, <1>6 DEF NamesTypes, InodeType, Leads
<1>9. /\ inode'[i].ref = inode[i].ref /\ inode'[i].valid = inode[i].valid /\ inode'[i].type = inode[i].type
      /\ inode'[i].nlink = inode[i].nlink /\ inode'[i].lock = (IF LastReference(i) THEN p ELSE NoUser)
  BY <1>3, <1>8 DEF NamesTypes, InodeType
<1>10. ASSUME NEW k \in Inums PROVE QuietEntry(p, k)
  <2>1. Count(Pointers(p)', k) = Count(Pointers(p), k)
    BY <1>1, <1>4, <1>5, <1>8 DEF Count, Pointers
  <2>2. (Points(p, k)' => Points(p, k)) /\ (Keeps(p, k)' => Keeps(p, k))
    BY <1>1, <1>2, <1>4, <1>5, <1>8 DEF Points, Keeps
  <2>3. /\ inode'[k].ref = inode[k].ref /\ inode'[k].valid = inode[k].valid
        /\ inode'[k].type = inode[k].type /\ inode'[k].nlink = inode[k].nlink
        /\ inode'[k].lock # inode[k].lock => inode[k].lock = NoUser
    BY <1>3, <1>8, <1>9
  <2>4. inode[k].ref \in Int /\ Count(Pointers(p), k) \in Nat
    BY CountPoints DEF NamesTypes, InodeType
  <2> QED
    BY <2>1, <2>2, <2>3, <2>4 DEF QuietEntry, CacheRight
<1>11. DirRight(p)' /\ FileRight(p)' /\ EraseRight(p)' /\ NewRight(p)'
  <2>1. \A k \in Inums : inode'[k].valid => inode[k].valid
    BY <1>8, <1>9
  <2> QED
    BY ZenonT(60), <1>1, <1>2, <1>4, <1>5, <1>6, <2>1, SameRights
<1>12. FreeRight(p)'
  BY <1>1, <1>3, <1>4, <1>5, <1>8, <1>9 DEF FreeRight, LastReference, CacheRight
<1>13. LocksRight(p)'
  <2> SUFFICES ASSUME NEW k \in Inums, Holds(x, k) PROVE inode'[k].lock = p /\ inode'[k].valid
    BY <1>8 DEF LocksRight
  <2>1. CASE Holds(c, k)
    <3>1. inode[k].lock = p /\ inode[k].valid /\ k # i
      BY <1>1, <1>2, <1>3, <2>1 DEF UserRight, LocksRight
    <3> QED
      BY <1>8, <3>1
  <2>2. CASE ~Holds(c, k)
    <3>1. k = i /\ l = "free"
      BY <1>2, <1>5, <1>6, <2>2 DEF Holds
    <3> QED
      BY <1>1, <1>9, <3>1 DEF LastReference
  <2> QED
    BY <2>1, <2>2
<1>14. QuietStep(p, x, cwd[p], ofile[p])
  BY <1>1, <1>2, <1>4, <1>5, <1>6, <1>7, <1>8 DEF QuietStep, NamesTypes, Leads, UserRight, CwdRight
<1> QED
  BY ONLY NamesInv, p \in Users, <1>10, <1>11, <1>12, <1>13, <1>14, Quiet

\* iput drops the reference and returns.
LEMMA IdropKeeps ==
    ASSUME NamesInv, NEW p \in Users, Idrop(p)
    PROVE  NamesInv'
<1> USE DEF NamesInv
<1>1. PICK c, i, x :
         /\ c = call[p] /\ i = c.put
         /\ x = IF c.ret = "user" THEN Outside ELSE [c EXCEPT !.pc = c.ret, !.put = 0]
  OBVIOUS
<1>2. c.pc = "drop" /\ UserRight(p) /\ c \in CallType /\ FrameRight(c) /\ Resume(c) = c.ret
  BY <1>1 DEF Idrop, At, NamesTypes, UserRight, Resume, InPut
<1>3. i \in Inums /\ c.ret \in Callers /\ c.ret \notin InPut
  BY <1>1, <1>2 DEF FrameRight, InPut, CallType, Inode0, Callers, WithW, WithIp, Looking
<1>4. /\ inode' = [inode EXCEPT ![i].ref = @ - 1]
      /\ Go(p, x) /\ dinode' = dinode /\ cwd' = cwd /\ ofile' = ofile
  BY <1>1 DEF Idrop, Return, Go
<1>5. x \in CallType /\ x.pc = c.ret /\ x.w = c.w /\ x.ip = c.ip /\ x.put = 0
  <2>1. CASE c.ret = "user"
    <3>1. c.w = 0 /\ c.ip = 0
      BY <1>2, <2>1 DEF FrameRight, WithW, WithIp, Looking, Linking
    <3> QED
      BY <1>1, <2>1, <3>1, OutsideRight
  <2>2. CASE c.ret # "user"
    BY <1>1, <1>2, <1>3, <2>2 DEF CallType, Inode0
  <2> QED
    BY <2>1, <2>2
<1>6. c.ret # "user" => /\ x.rest = c.rest /\ x.req = c.req /\ x.ok = c.ok /\ x.bad = c.bad
                        /\ x.par = c.par
  BY <1>1, <1>2 DEF CallType
<1>7. Resume(x) = c.ret /\ Leads(p, x)
  BY <1>3, <1>4, <1>5, GoGoes DEF Resume
<1>8. FrameRight(x)
  <2>1. CASE c.ret = "user"
    BY <1>1, <2>1, OutsideRight
  <2>2. CASE c.ret # "user"
    <3>1. Linking(x) <=> Linking(c)
      BY <1>2, <1>6, <1>7, <2>2 DEF Linking
    <3> QED
      BY <1>2, <1>3, <1>5, <1>6, <1>7, <2>2, <3>1 DEF FrameRight
  <2> QED
    BY <2>1, <2>2
<1>9. /\ call'[p] = x /\ inode' \in [Inums -> InodeType]
      /\ inode'[i] = [inode[i] EXCEPT !.ref = @ - 1]
      /\ \A k \in Inums : k # i => inode'[k] = inode[k]
  BY <1>3, <1>4, <1>7 DEF NamesTypes, InodeType, Leads
<1>10. /\ inode'[i].ref = inode[i].ref - 1 /\ inode'[i].valid = inode[i].valid /\ inode'[i].type = inode[i].type
       /\ inode'[i].nlink = inode[i].nlink /\ inode'[i].lock = inode[i].lock
  BY <1>3, <1>9 DEF NamesTypes, InodeType
<1>11. ASSUME NEW k \in Inums PROVE QuietEntry(p, k)
  <2>1. Count(Pointers(p)', k) = Count(Pointers(p), k) - One(k = i)
    BY <1>1, <1>3, <1>4, <1>5, <1>9, Numbers DEF Count, Pointers, One
  <2>2. (Points(p, k)' => Points(p, k)) /\ (Keeps(p, k)' => Keeps(p, k))
    BY <1>1, <1>2, <1>4, <1>5, <1>9, Numbers DEF Points, Keeps
  <2>3. /\ inode'[k].ref = inode[k].ref - One(k = i) /\ inode'[k].valid = inode[k].valid
        /\ inode'[k].type = inode[k].type /\ inode'[k].nlink = inode[k].nlink
        /\ inode'[k].lock = inode[k].lock
    BY <1>3, <1>9, <1>10 DEF One, NamesTypes, InodeType
  <2>4. inode[k].ref \in Int /\ Count(Pointers(p), k) \in Nat
    BY CountPoints DEF NamesTypes, InodeType
  <2> QED
    BY <2>1, <2>2, <2>3, <2>4 DEF QuietEntry, CacheRight, One
<1>12. DirRight(p)' /\ FileRight(p)' /\ EraseRight(p)' /\ NewRight(p)' /\ (Pends(x) => Pends(c))
  <2>1. \A k \in Inums : inode'[k].valid => inode[k].valid
    BY <1>9, <1>10
  <2>2. CASE c.ret # "user"
    <3>1. /\ dinode' = dinode /\ Leads(p, x) /\ cwd' = cwd /\ ofile' = ofile /\ c = call[p]
          /\ x.w = c.w /\ x.ip = c.ip /\ x.rest = c.rest /\ x.req = c.req /\ x.ok = c.ok
      BY <1>1, <1>4, <1>5, <1>6, <1>7, <2>2
    <3>2. Resume(x) = Resume(c)
      BY <1>2, <1>7
    <3> QED
      BY ONLY NamesInv, p \in Users, <2>1, <3>1, <3>2, SameRights
  <2>3. CASE c.ret = "user"
    <3>1. ~Pends(x) /\ ~Linking(x)
      BY <1>7, <2>3 DEF Pends, Linking
    <3> QED
      BY <1>5, <1>7, <1>9, <2>3, <3>1, Relaxed
  <2> QED
    BY <2>2, <2>3
<1>13. FreeRight(p)'
  BY <1>3, <1>5, <1>9 DEF FreeRight, InPut
<1>14. LocksRight(p)'
  <2> SUFFICES ASSUME NEW k \in Inums, Holds(x, k) PROVE inode'[k].lock = p /\ inode'[k].valid
    BY <1>9 DEF LocksRight
  <2>1. Holds(c, k)
    BY <1>2, <1>3, <1>5, <1>7, Numbers DEF Holds, InPut
  <2>2. inode[k].lock = p /\ inode[k].valid
    BY <1>1, <1>2, <2>1 DEF UserRight, LocksRight
  <2> QED
    BY <1>9, <1>10, <2>2
<1>15. QuietStep(p, x, cwd[p], ofile[p])
  BY <1>1, <1>2, <1>4, <1>5, <1>7, <1>8, <1>9, <1>12 DEF QuietStep, NamesTypes, Leads, UserRight, CwdRight
<1> QED
  BY ONLY NamesInv, p \in Users, <1>11, <1>12, <1>13, <1>14, <1>15, Quiet
-----------------------------------------------------------------------------
\* A set has at most one element more, the same or fewer, and at least one fewer.
Grows(S, T) == \E x : S \subseteq T \cup {x}
Shrinks(S, T) == \E x \in T : S \subseteq T \ {x}
Change(S, T, a) == \/ a = 1 /\ Grows(S, T)
                   \/ a = 0 /\ S \subseteq T
                   \/ a = -1 /\ Shrinks(S, T)

\* Their sizes.
LEMMA CardSub ==
    ASSUME NEW S, NEW T, IsFiniteSet(T), S \subseteq T
    PROVE  Cardinality(S) \in Nat /\ Cardinality(T) \in Nat /\ Cardinality(S) <= Cardinality(T)
  BY FS_Subset, FS_CardinalityType

LEMMA CardAdd ==
    ASSUME NEW S, NEW T, IsFiniteSet(T), Grows(S, T)
    PROVE  Cardinality(S) \in Nat /\ Cardinality(T) \in Nat /\ Cardinality(S) <= Cardinality(T) + 1
<1>0. PICK x : S \subseteq T \cup {x}
  BY DEF Grows
<1>1. PICK U : U = T \cup {x}
  OBVIOUS
<1>2. /\ IsFiniteSet(U)
      /\ Cardinality(U) = Cardinality(T) \/ Cardinality(U) = Cardinality(T) + 1
  BY <1>1, FS_AddElement
<1>3. Cardinality(S) \in Nat /\ Cardinality(U) \in Nat /\ Cardinality(S) <= Cardinality(U)
  BY <1>0, <1>1, <1>2, CardSub
<1>4. Cardinality(T) \in Nat
  BY FS_CardinalityType
<1> QED
  BY <1>2, <1>3, <1>4

LEMMA CardLess ==
    ASSUME NEW S, NEW T, IsFiniteSet(T), NEW x \in T, S \subseteq T \ {x}
    PROVE  Cardinality(S) \in Nat /\ Cardinality(T) \in Nat /\ Cardinality(S) <= Cardinality(T) - 1
<1>1. PICK U : U = T \ {x}
  OBVIOUS
<1>2. IsFiniteSet(U) /\ Cardinality(U) = Cardinality(T) - 1
  BY <1>1, FS_RemoveElement
<1>3. Cardinality(S) \in Nat /\ Cardinality(U) \in Nat /\ Cardinality(S) <= Cardinality(U)
  BY <1>1, <1>2, CardSub
<1>4. Cardinality(T) \in Nat
  BY FS_CardinalityType
<1> QED
  BY <1>2, <1>3, <1>4

\* The links of an inode, when its names, its subdirectories, the pending links and
\* its count change by so much.
Counted(k) ==
    Cardinality(Named(k)) + Cardinality(Children(k)) + Cardinality(Pending(k))
        + (IF k = Root THEN 1 ELSE 0) <= dinode[k].nlink

LEMMA CardChange ==
    ASSUME NEW S, NEW T, IsFiniteSet(T), NEW a, Change(S, T, a)
    PROVE  /\ Cardinality(S) \in Nat /\ Cardinality(T) \in Nat /\ a \in Int
           /\ Cardinality(S) <= Cardinality(T) + a
<1>1. CASE a = 1 /\ Grows(S, T)
  BY <1>1, CardAdd
<1>2. CASE a = 0 /\ S \subseteq T
  BY <1>2, CardSub
<1>3. CASE a = -1 /\ Shrinks(S, T)
  <2>1. PICK x \in T : S \subseteq T \ {x}
    BY <1>3 DEF Shrinks
  <2>2. Cardinality(S) \in Nat /\ Cardinality(T) \in Nat /\ Cardinality(S) <= Cardinality(T) - 1
    BY ONLY IsFiniteSet(T), <2>1, CardLess
  <2> QED
    BY <1>3, <2>2
<1> QED
  BY <1>1, <1>2, <1>3 DEF Change

Linked3(k, a, b, c) ==
    /\ Change(Named(k)', Named(k), a) /\ Change(Children(k)', Children(k), b)
    /\ Change(Pending(k)', Pending(k), c)
    /\ dinode'[k].nlink = dinode[k].nlink + a + b + c

LEMMA CountedKept ==
    ASSUME NamesInv, NEW k \in Inums, NEW a, NEW b, NEW c, Linked3(k, a, b, c)
    PROVE  Counted(k)'
<1>1. Counted(k) /\ dinode[k].nlink \in Int
  BY DEF NamesInv, LinksCounted, Counted, NamesTypes, DinodeType
<1>2. PICK n, s, d : n = Named(k)' /\ s = Children(k)' /\ d = Pending(k)'
  OBVIOUS
<1>3. /\ Cardinality(n) \in Nat /\ Cardinality(Named(k)) \in Nat /\ a \in Int
      /\ Cardinality(n) <= Cardinality(Named(k)) + a
  BY <1>2, NamesFinite, CardChange DEF Linked3
<1>4. /\ Cardinality(s) \in Nat /\ Cardinality(Children(k)) \in Nat /\ b \in Int
      /\ Cardinality(s) <= Cardinality(Children(k)) + b
  BY <1>2, NamesFinite, CardChange DEF Linked3
<1>5. /\ Cardinality(d) \in Nat /\ Cardinality(Pending(k)) \in Nat /\ c \in Int
      /\ Cardinality(d) <= Cardinality(Pending(k)) + c
  BY <1>2, PendingFinite, CardChange DEF Linked3
<1>6. Cardinality(n) + Cardinality(s) + Cardinality(d) + (IF k = Root THEN 1 ELSE 0) <= dinode'[k].nlink
  BY <1>1, <1>3, <1>4, <1>5 DEF Counted, Linked3
<1> QED
  BY <1>2, <1>6 DEF Counted

\* A step of p that writes inodes, put together.
LEMMA Combine ==
    ASSUME NamesInv, NEW p \in Users, NamesTypes', Moves(p), CacheRight', UserRight(p)',
           \A k \in Inums : Counted(k)', TreeRight'
    PROVE  NamesInv'
<1> USE DEF NamesInv
<1>1. RefsRight'
  BY RefsKept DEF Moves, MovesEntry
<1>2. \A q \in Users : UserRight(q)'
  BY Others
<1>3. LinksCounted'
  BY DEF LinksCounted, Counted
<1>4. RootRight'
  <2>1. dinode[Root].nlink >= 1 /\ dinode[Root].type = "dir" /\ Root \in Inums /\ UserRight(p)
    BY NamedLinked, Numbers DEF RootRight
  <2>2. dinode'[Root].type = dinode[Root].type
    BY <2>1 DEF Moves, MovesEntry, UserRight, FreeRight
  <2> QED
    BY <2>1, <2>2 DEF RootRight
<1> QED
  BY <1>1, <1>2, <1>3, <1>4

\* Who has a name: the directory it is in, as it says.
LEMMA NamedIs ==
    ASSUME NamesInv, NEW k \in Inums
    PROVE  /\ \A d \in Inums, n \in Elems : dinode[d].ents[n] = k => <<d, n>> \in Named(k)
           /\ dinode[k].nlink <= 0 => Named(k) = {} /\ Children(k) = {} /\ Pending(k) = {} /\ k # Root
<1> USE DEF NamesInv
<1>1. ASSUME NEW d \in Inums, NEW n \in Elems, dinode[d].ents[n] = k
      PROVE  <<d, n>> \in Named(k)
  <2>1. dinode[d].type = "dir"
    BY <1>1, Numbers DEF CacheRight
  <2> QED
    BY <1>1, <2>1 DEF Named
<1>2. ASSUME dinode[k].nlink <= 0
      PROVE  Named(k) = {} /\ Children(k) = {} /\ Pending(k) = {} /\ k # Root
  <2>1. Counted(k) /\ dinode[k].nlink \in Int
    BY DEF LinksCounted, Counted, NamesTypes, DinodeType
  <2>2. /\ Cardinality(Named(k)) \in Nat /\ Cardinality(Children(k)) \in Nat
        /\ Cardinality(Pending(k)) \in Nat
    BY NamesFinite, PendingFinite
  <2>3. /\ Cardinality(Named(k)) = 0 /\ Cardinality(Children(k)) = 0 /\ Cardinality(Pending(k)) = 0
        /\ k # Root
    BY <1>2, <2>1, <2>2 DEF Counted
  <2> QED
    BY <2>3, NamesFinite, PendingFinite, FS_EmptySet
<1> QED
  BY <1>1, <1>2

\* A step that changes neither types nor entries.
LEMMA SameShape ==
    ASSUME NamesInv, \A x \in Inums : dinode'[x].type = dinode[x].type /\ dinode'[x].ents = dinode[x].ents
    PROVE  TreeRight' /\ \A k \in Inums : Named(k)' = Named(k) /\ Children(k)' = Children(k)
<1>1. TreeRight'
  BY DEF NamesInv, TreeRight
<1>2. ASSUME NEW k \in Inums PROVE Named(k)' = Named(k)
  BY DEF Named
<1>3. ASSUME NEW k \in Inums PROVE Children(k)' = Children(k)
  BY <1>2 DEF Children
<1> QED
  BY <1>1, <1>2, <1>3

\* The pending links, when only p's call changes.
LEMMA PendingStep ==
    ASSUME NamesInv, NEW p \in Users, NEW c, Leads(p, c), NEW k \in Inums
    PROVE  /\ Pending(k)' \subseteq Pending(k) \cup {p}
           /\ ~(Pends(c) /\ c.ip = k) => Pending(k)' \subseteq Pending(k) \ {p}
           /\ Pends(call[p]) /\ call[p].ip = k => p \in Pending(k)
  BY DEF Pending, Leads

\* sys_unlink and the label bad of sys_link take a link back.
LEMMA LinksToKeeps ==
    ASSUME NamesInv, NEW p \in Users, NEW i, i = call[p].ip, call[p].pc \in {"unlinked", "linkbad"},
           inode[i].lock \in {NoUser, p}, LinksTo(i, Loaded(i).nlink - 1),
           PutThen(p, [call[p] EXCEPT !.ip = 0], i, "user"), UNCHANGED <<cwd, ofile, fsPanic>>
    PROVE  NamesInv'
<1>1. PICK c, b, e, n :
         /\ c = call[p] /\ b = [c EXCEPT !.ip = 0] /\ n = dinode[i].nlink - 1
         /\ e = [Loaded(i) EXCEPT !.nlink = n, !.lock = NoUser]
  OBVIOUS
<1>2. c.pc \in WithIp /\ c.pc \notin WithW /\ c.pc # "newcwd"
  BY <1>1 DEF WithIp, WithW, Looking
<1>3. /\ i \in Inums /\ c \in CallType /\ c.w = 0 /\ c.put = 0 /\ c.pc \notin InPut /\ Keeps(p, i)
      /\ NamesTypes /\ dinode[i].type # "free" /\ UserRight(p) /\ cwd[p] # 0 /\ Resume(c) = c.pc
      /\ CacheRight
  BY <1>1, <1>2, AtIp, FrameAt DEF NamesInv
<1>4. /\ Loaded(i) \in InodeType /\ Loaded(i).ref = inode[i].ref /\ Loaded(i).valid
      /\ Loaded(i).type = dinode[i].type /\ Loaded(i).nlink = dinode[i].nlink /\ dinode[i] \in DinodeType
      /\ dinode[i].nlink \in Int
  BY <1>3, LoadedEntry DEF NamesTypes, DinodeType
<1>5. n \in Int /\ e \in InodeType /\ e.ref = inode[i].ref /\ e.valid /\ e.type = dinode[i].type /\ e.nlink = n
  <2>1. PICK l \in InodeType : l = Loaded(i)
    BY <1>4
  <2>2. n \in Int /\ e = [l EXCEPT !.nlink = n, !.lock = NoUser]
    BY <1>1, <1>4, <2>1
  <2>3. e \in InodeType /\ e.ref = l.ref /\ e.valid = l.valid /\ e.type = l.type /\ e.nlink = n
    BY <2>2 DEF InodeType
  <2> QED
    BY <1>4, <2>1, <2>2, <2>3
<1>6. /\ dinode' = [dinode EXCEPT ![i].nlink = n] /\ inode' = [inode EXCEPT ![i] = e]
      /\ PutThen(p, b, i, "user") /\ cwd' = cwd /\ ofile' = ofile
  BY <1>1, <1>4 DEF LinksTo
<1>7. /\ dinode' \in [Inums -> DinodeType] /\ dinode'[i].nlink = n
      /\ \A x \in Inums : dinode'[x].type = dinode[x].type /\ dinode'[x].ents = dinode[x].ents
      /\ \A x \in Inums : x # i => dinode'[x] = dinode[x]
  <2>1. PICK r : r = [dinode[i] EXCEPT !.nlink = n]
    OBVIOUS
  <2>2. r \in DinodeType /\ r.nlink = n /\ r.type = dinode[i].type /\ r.ents = dinode[i].ents
    BY <1>4, <1>5, <2>1 DEF DinodeType
  <2>3. dinode' = [dinode EXCEPT ![i] = r] /\ dinode \in [Inums -> DinodeType]
    BY <1>3, <1>6, <2>1 DEF NamesTypes
  <2> QED
    BY <1>3, <2>2, <2>3
<1>8. inode' \in [Inums -> InodeType] /\ inode'[i] = e /\ \A x \in Inums : x # i => inode'[x] = inode[x]
  BY <1>3, <1>5, <1>6 DEF NamesTypes
<1>9. b \in CallType /\ b.w = 0 /\ b.ip = 0
  BY <1>1, <1>3 DEF CallType, Inode0
<1>10. PICK d : /\ Leads(p, d) /\ d.pc = "put" /\ d.put = i /\ d.w = 0 /\ d.ip = 0
                /\ Resume(d) = "user" /\ FrameRight(d) /\ ~Pends(d) /\ ~Linking(d)
                /\ \A k \in Inums : ~Holds(d, k)
  BY <1>3, <1>6, <1>9, PutUser
<1>11. call'[p] = d /\ cwd'[p] = cwd[p] /\ ofile'[p] = ofile[p]
  BY <1>6, <1>10 DEF Leads
<1>12. Gains(p, 0)
  BY <1>1, <1>3, <1>10, <1>11, Numbers DEF Gains, Count, One, Pointers, Points, Keeps, InPut
<1>13. NamesTypes'
  BY <1>3, <1>6, <1>7, <1>8, <1>10 DEF NamesTypes, Leads
<1>14. ASSUME NEW k \in Inums PROVE MovesEntry(p, k)
  <2>1. /\ inode[k].ref \in Int /\ Count(Pointers(p), k) \in Nat
        /\ Count(Pointers(p)', k) = Count(Pointers(p), k)
        /\ (Points(p, k)' => Points(p, k)) /\ (Keeps(p, k)' => Keeps(p, k))
    BY <1>3, <1>12, CountPoints, Numbers DEF NamesTypes, InodeType, Gains, One
  <2>2. CASE k = i
    BY <1>3, <1>5, <1>7, <1>8, <2>1, <2>2 DEF MovesEntry
  <2>3. CASE k # i
    BY <1>7, <1>8, <2>1, <2>3 DEF MovesEntry
  <2> QED
    BY <2>2, <2>3
<1>15. Moves(p)
  BY <1>6, <1>10, <1>14 DEF Moves, Leads
<1>16. CacheRight'
  <2> SUFFICES ASSUME NEW k \in Inums
               PROVE  /\ inode'[k].valid => inode'[k].type = dinode'[k].type /\ inode'[k].nlink = dinode'[k].nlink
                      /\ dinode'[k].type = "free" => ~inode'[k].valid /\ dinode'[k].nlink = 0
                      /\ dinode'[k].type # "dir" => dinode'[k].ents = NoEnts
    BY DEF CacheRight
  <2> QED
    BY <1>3, <1>5, <1>7, <1>8 DEF CacheRight
<1>17. UserRight(p)'
  <2>1. KeepsRight(p)'
    BY <1>3, <1>7, <1>12, Numbers DEF UserRight, KeepsRight, Gains
  <2>2. LocksRight(p)' /\ FrameRight(call[p])' /\ CwdRight(p)'
    BY <1>3, <1>10, <1>11 DEF LocksRight, CwdRight
  <2>3. FreeRight(p)' /\ DirRight(p)' /\ FileRight(p)' /\ EraseRight(p)' /\ NewRight(p)'
    BY <1>10, <1>11, Relaxed
  <2> QED
    BY <2>1, <2>2, <2>3 DEF UserRight
<1>18. TreeRight' /\ \A k \in Inums : Named(k)' = Named(k) /\ Children(k)' = Children(k)
  BY <1>7, SameShape
<1>19. ASSUME NEW k \in Inums PROVE Counted(k)'
  <2>1. Pending(k)' \subseteq Pending(k) \ {p}
    BY <1>10, PendingStep
  <2>2. CASE k = i
    <3>1. p \in Pending(k)
      BY <1>1, <1>3, <1>10, <2>2, PendingStep DEF Pends
    <3>2. Linked3(k, 0, 0, -1)
      BY <1>1, <1>4, <1>7, <1>18, <2>1, <2>2, <3>1 DEF Linked3, Change, Shrinks
    <3> QED
      BY <3>2, CountedKept
  <2>3. CASE k # i
    <3>1. Linked3(k, 0, 0, 0)
      <4>1. dinode[k].nlink \in Int
        BY <1>3 DEF NamesTypes, DinodeType
      <4> QED
        BY <1>7, <1>18, <2>1, <2>3, <4>1 DEF Linked3, Change
    <3> QED
      BY <3>1, CountedKept
  <2> QED
    BY <2>2, <2>3
<1> QED
  BY ONLY NamesInv, p \in Users, <1>13, <1>15, <1>16, <1>17, <1>18, <1>19, Combine

LEMMA UnlinkedKeeps ==
    ASSUME NamesInv, NEW p \in Users, Unlinked(p)
    PROVE  NamesInv'
<1>1. PICK i : i = call[p].ip
  OBVIOUS
<1>2. call[p].pc = "unlinked" /\ call[p].pc \in WithIp
  BY DEF Unlinked, At, WithIp
<1>3. i \in Inums /\ UserRight(p) /\ Resume(call[p]) = "unlinked"
  BY <1>1, <1>2, AtIp
<1>4. inode[i].lock = p /\ inode[i].valid
  BY <1>1, <1>3 DEF UserRight, LocksRight, Holds
<1>5. Loaded(i) = inode[i]
  BY <1>4 DEF Loaded
<1>6. /\ LinksTo(i, Loaded(i).nlink - 1) /\ PutThen(p, [call[p] EXCEPT !.ip = 0], i, "user")
      /\ UNCHANGED <<cwd, ofile, fsPanic>>
  BY <1>1, <1>5 DEF Unlinked
<1> QED
  BY <1>1, <1>2, <1>4, <1>6, LinksToKeeps

LEMMA LinkBadKeeps ==
    ASSUME NamesInv, NEW p \in Users, LinkBad(p)
    PROVE  NamesInv'
<1>1. PICK i : i = call[p].ip
  OBVIOUS
<1>2. /\ call[p].pc = "linkbad" /\ inode[i].lock = NoUser
      /\ LinksTo(i, Loaded(i).nlink - 1) /\ PutThen(p, [call[p] EXCEPT !.ip = 0], i, "user")
      /\ UNCHANGED <<cwd, ofile, fsPanic>>
  BY <1>1 DEF LinkBad, Locking, At, CanLock
<1> QED
  BY <1>1, <1>2, LinksToKeeps

\* iput frees the inode: nothing names it and nobody else refers to it.
LEMMA IfreeKeeps ==
    ASSUME NamesInv, NEW p \in Users, Ifree(p)
    PROVE  NamesInv'
<1>1. PICK c, i, x : c = call[p] /\ i = c.put /\ x = [c EXCEPT !.pc = "drop"]
  OBVIOUS
<1>2. /\ c.pc = "free" /\ UserRight(p) /\ c \in CallType /\ FrameRight(c) /\ Resume(c) = c.ret
      /\ NamesTypes /\ CacheRight
  BY <1>1 DEF Ifree, At, NamesInv, NamesTypes, UserRight, Resume, InPut
<1>3. i \in Inums /\ inode[i].lock = p /\ inode[i].ref = 1 /\ dinode[i].nlink = 0 /\ Keeps(p, i)
  <2>1. i \in Inums
    BY <1>1, <1>2 DEF FrameRight, InPut, CallType, Inode0
  <2> QED
    BY <1>1, <1>2, <2>1 DEF UserRight, FreeRight, LocksRight, Holds, Keeps
<1>4. PICK e, f : /\ e = [inode[i] EXCEPT !.type = "free", !.valid = FALSE, !.lock = NoUser]
                  /\ f = [dinode[i] EXCEPT !.type = "free", !.ents = NoEnts]
  OBVIOUS
<1>5. /\ dinode' = [dinode EXCEPT ![i] = f] /\ inode' = [inode EXCEPT ![i] = e]
      /\ Go(p, x) /\ cwd' = cwd /\ ofile' = ofile
  BY <1>1, <1>4 DEF Ifree, GoTo
<1>6. e \in InodeType /\ ~e.valid /\ e.ref = inode[i].ref /\ e.lock = NoUser
  BY <1>2, <1>3, <1>4 DEF NamesTypes, InodeType, Types
<1>7. f \in DinodeType /\ f.type = "free" /\ f.ents = NoEnts /\ f.nlink = 0
  BY ZenonT(60), <1>2, <1>3, <1>4, Numbers DEF NamesTypes, DinodeType, Types
<1>8. /\ dinode' \in [Inums -> DinodeType] /\ dinode'[i] = f /\ \A k \in Inums : k # i => dinode'[k] = dinode[k]
      /\ inode' \in [Inums -> InodeType] /\ inode'[i] = e /\ \A k \in Inums : k # i => inode'[k] = inode[k]
  BY <1>2, <1>3, <1>5, <1>6, <1>7 DEF NamesTypes
<1>9. /\ x \in CallType /\ x.pc = "drop" /\ x.w = c.w /\ x.ip = c.ip /\ x.put = i /\ x.rest = c.rest
      /\ x.req = c.req /\ x.ok = c.ok /\ x.bad = c.bad /\ x.par = c.par /\ x.ret = c.ret
  BY <1>1, <1>2 DEF CallType, InPut
<1>10. Resume(x) = c.ret /\ Leads(p, x)
  BY <1>2, <1>5, <1>9, GoGoes DEF Resume, InPut
<1>11. FrameRight(x) /\ (Linking(x) <=> Linking(c)) /\ (Pends(x) <=> Pends(c))
  <2>1. (Linking(x) <=> Linking(c)) /\ (Pends(x) <=> Pends(c))
    BY <1>2, <1>9, <1>10 DEF Linking, Pends
  <2> QED
    BY <1>2, <1>3, <1>9, <1>10, <2>1, Numbers DEF FrameRight, InPut
<1>12. call'[p] = x /\ cwd'[p] = cwd[p] /\ ofile'[p] = ofile[p]
  BY <1>5, <1>10 DEF Leads
<1>13. cwd[p] # i /\ ofile[p] # i /\ c.w # i /\ c.ip # i
  <2>1. Count(Pointers(p), i) <= 1
    BY <1>3, RefsCover DEF NamesInv
  <2> QED
    BY <1>1, <2>1 DEF Count, One, Pointers
<1>14. NamesTypes'
  BY <1>2, <1>5, <1>8, <1>10 DEF NamesTypes, Leads
<1>15. ASSUME NEW k \in Inums PROVE MovesEntry(p, k)
  <2>1. /\ inode[k].ref \in Int /\ Count(Pointers(p), k) \in Nat
        /\ Count(Pointers(p)', k) = Count(Pointers(p), k)
        /\ (Points(p, k)' => Points(p, k)) /\ (Keeps(p, k)' => Keeps(p, k))
    <3>1. inode[k].ref \in Int /\ Count(Pointers(p), k) \in Nat
      BY <1>2, CountPoints DEF NamesTypes, InodeType
    <3>2. Count(Pointers(p)', k) = Count(Pointers(p), k)
      BY <1>1, <1>9, <1>12 DEF Pointers
    <3> QED
      BY <1>1, <1>2, <1>9, <1>12, <3>1, <3>2 DEF Points, Keeps
  <2>2. CASE k = i
    BY <1>1, <1>2, <1>3, <1>6, <1>8, <2>1, <2>2 DEF MovesEntry
  <2>3. CASE k # i
    BY <1>8, <2>1, <2>3 DEF MovesEntry
  <2> QED
    BY <2>2, <2>3
<1>16. Moves(p)
  BY <1>5, <1>10, <1>15 DEF Moves, Leads
<1>17. CacheRight'
  <2> SUFFICES ASSUME NEW k \in Inums
               PROVE  /\ inode'[k].valid => inode'[k].type = dinode'[k].type /\ inode'[k].nlink = dinode'[k].nlink
                      /\ dinode'[k].type = "free" => ~inode'[k].valid /\ dinode'[k].nlink = 0
                      /\ dinode'[k].type # "dir" => dinode'[k].ents = NoEnts
    BY DEF CacheRight
  <2> QED
    BY <1>2, <1>6, <1>7, <1>8 DEF CacheRight
<1>18. UserRight(p)'
  <2>1. KeepsRight(p)'
    <3> SUFFICES ASSUME NEW k \in Inums, Keeps(p, k)' PROVE dinode'[k].type # "free"
      BY DEF KeepsRight
    <3>1. k # i /\ Keeps(p, k)
      BY <1>1, <1>2, <1>9, <1>12, <1>13 DEF Keeps
    <3> QED
      BY <1>2, <1>8, <3>1 DEF UserRight, KeepsRight
  <2>2. LocksRight(p)'
    <3> SUFFICES ASSUME NEW k \in Inums, Holds(x, k) PROVE inode'[k].lock = p /\ inode'[k].valid
      BY <1>12 DEF LocksRight
    <3>1. k # i /\ Holds(c, k)
      BY <1>2, <1>9, <1>10, <1>13 DEF Holds
    <3> QED
      BY <1>1, <1>2, <1>8, <3>1 DEF UserRight, LocksRight
  <2>3. FrameRight(call[p])' /\ CwdRight(p)' /\ FreeRight(p)'
    BY <1>1, <1>2, <1>9, <1>10, <1>11, <1>12 DEF CwdRight, UserRight, FreeRight
  <2>4. c.w \in Inode0 /\ c.ip \in Inode0 /\ (c.w # 0 <=> c.ret \in WithW)
        /\ (c.ip # 0 <=> c.ret \in WithIp \/ Linking(c))
    BY <1>2 DEF FrameRight, CallType
  <2>5. DirRight(p)'
    <3>1. c.ret \in {"create", "unlink", "dirlink", "new", "erase"} => c.w \in Inums /\ dinode[c.w].type = "dir"
      BY <1>1, <1>2, <2>4 DEF UserRight, DirRight, WithW, Looking, Inode0
    <3> QED
      BY <1>8, <1>9, <1>10, <1>12, <1>13, <3>1 DEF DirRight
  <2>6. FileRight(p)'
    <3>1. c.ret = "dirlink" \/ Linking(c) => c.ip \in Inums /\ dinode[c.ip].type = "file"
      BY <1>1, <1>2, <2>4 DEF UserRight, FileRight, WithIp, Inode0
    <3> QED
      BY <1>8, <1>9, <1>10, <1>11, <1>12, <1>13, <3>1 DEF FileRight
  <2>7. EraseRight(p)'
    <3>1. c.ret = "erase" => c.w \in Inums /\ dinode[c.w].ents[Head(c.rest)] = c.ip
      BY <1>1, <1>2, <2>4 DEF UserRight, EraseRight, WithW, Inode0
    <3> QED
      BY <1>8, <1>9, <1>10, <1>12, <1>13, <3>1 DEF EraseRight
  <2>8. NewRight(p)'
    <3> SUFFICES ASSUME c.ret = "new"
                 PROVE  /\ dinode'[c.w].ents[Head(c.rest)] = 0
                        /\ \A k \in Inums : k = c.ip =>
                             /\ dinode'[k] = [type |-> TypeOf(c.req.op), nlink |-> 0, ents |-> NoEnts]
                             /\ ~inode'[k].valid
                             /\ \A q \in Users \ {p} : ~Keeps(q, k)'
                             /\ cwd[p] # k /\ ofile[p] # k /\ c.w # k
      BY <1>9, <1>10, <1>12 DEF NewRight
    <3>1. /\ dinode[c.w].ents[Head(c.rest)] = 0 /\ c.w \in Inums
          /\ \A k \in Inums : k = c.ip =>
               /\ dinode[k] = [type |-> TypeOf(c.req.op), nlink |-> 0, ents |-> NoEnts]
               /\ ~inode[k].valid
               /\ \A q \in Users \ {p} : ~Keeps(q, k)
               /\ cwd[p] # k /\ ofile[p] # k /\ c.w # k
      BY <1>1, <1>2, <2>4 DEF UserRight, NewRight, WithW, Inode0
    <3>2. \A q \in Users \ {p}, k \in Inums : Keeps(q, k)' => Keeps(q, k)
      BY <1>5, <1>10 DEF Keeps, Leads
    <3> QED
      BY <1>8, <1>13, <3>1, <3>2
  <2> QED
    BY <2>1, <2>2, <2>3, <2>5, <2>6, <2>7, <2>8 DEF UserRight
<1>19. Named(i) = {} /\ Children(i) = {} /\ i # Root
  BY <1>3, NamedIs
<1>20. ASSUME NEW k \in Inums PROVE Named(k)' \subseteq Named(k)
  <2> SUFFICES ASSUME NEW t \in Named(k)' PROVE t \in Named(k)
    OBVIOUS
  <2>1. t \in Inums \X Elems /\ dinode'[t[1]].type = "dir" /\ dinode'[t[1]].ents[t[2]] = k
    BY DEF Named
  <2>2. t[1] # i /\ t[1] \in Inums
    BY <1>7, <1>8, <2>1
  <2> QED
    BY <1>8, <2>1, <2>2 DEF Named
<1>21. ASSUME NEW k \in Inums PROVE Children(k)' \subseteq Children(k)
  <2> SUFFICES ASSUME NEW d \in Children(k)' PROVE d \in Children(k)
    OBVIOUS
  <2>1. d \in Inums /\ d # Root /\ dinode'[d].ents[".."] = k /\ Named(d)' # {}
    BY DEF Children
  <2>2. d # i
    BY <1>7, <1>8, <2>1, Numbers
  <2> QED
    BY <1>8, <1>20, <2>1, <2>2 DEF Children
<1>22. ASSUME NEW k \in Inums PROVE Counted(k)'
  <2>1. Pending(k)' \subseteq Pending(k)
    BY <1>1, <1>9, <1>10, <1>11 DEF Pending, Leads
  <2>2. dinode[k].nlink \in Int /\ dinode'[k].nlink = dinode[k].nlink
    BY <1>2, <1>3, <1>7, <1>8 DEF NamesTypes, DinodeType
  <2>3. Linked3(k, 0, 0, 0)
    BY <1>20, <1>21, <2>1, <2>2 DEF Linked3, Change
  <2> QED
    BY <2>3, CountedKept
<1>23. TreeRight'
  <2>1. TreeRight
    BY DEF NamesInv
  <2>2. \A d \in Inums, n \in Elems : dinode'[d].ents[n] # d /\ dinode'[d].ents[n] # Root
    BY <1>7, <1>8, <2>1, Numbers DEF TreeRight
  <2>3. ASSUME NEW d \in Inums, NEW j \in Inums, NEW n \in Elems,
               dinode'[j].type = "dir" /\ dinode'[d].ents[n] = j
        PROVE  /\ dinode'[j].ents[".."] = d
               /\ \A m \in Elems : dinode'[d].ents[m] = j => m = n
    <3>1. d # i /\ j # i
      BY <1>7, <1>8, <2>3, Numbers
    <3> QED
      BY <1>8, <2>1, <2>3, <3>1 DEF TreeRight
  <2> QED
    BY <2>2, <2>3 DEF TreeRight
<1> QED
  BY ONLY NamesInv, p \in Users, <1>14, <1>16, <1>17, <1>18, <1>22, <1>23, Combine

\* sys_link counts the link, which is pending from then on, and looks for the
\* directory of the new name.
LEMMA LinkCountsKeeps ==
    ASSUME NamesInv, NEW p \in Users, Link(p), Loaded(call[p].w).type # "dir"
    PROVE  NamesInv'
<1>1. PICK c, i, n, e, cached, path, s, b, x :
         /\ c = call[p] /\ i = c.w /\ n = LinkCounted(i) /\ e = [Loaded(i) EXCEPT !.nlink = n]
         /\ cached = [inode EXCEPT ![i] = e] /\ path = c.req.new
         /\ s = (IF path.abs THEN Root ELSE cwd[p]) /\ b = [c EXCEPT !.ip = i]
         /\ x = Walking(b, s, path.elems, TRUE, "dirlink", "linkbad")
  OBVIOUS
<1>2. c.pc = "link" /\ c.pc \in WithW
  BY <1>1 DEF Link, Locking, At, WithW, Looking
<1>3. /\ i \in Inums /\ c \in CallType /\ c.put = 0 /\ c.ip = 0 /\ c.pc \notin InPut /\ Keeps(p, i)
      /\ NamesTypes /\ dinode[i].type # "free" /\ UserRight(p) /\ cwd[p] # 0 /\ Resume(c) = "link"
      /\ CacheRight /\ inode[i].lock = NoUser /\ ~Typeless(i)
  BY <1>1, <1>2, AtW DEF NamesInv, Link, Locking, CanLock
<1>4. /\ Loaded(i) \in InodeType /\ Loaded(i).ref = inode[i].ref /\ Loaded(i).valid
      /\ Loaded(i).type = dinode[i].type /\ Loaded(i).nlink = dinode[i].nlink /\ dinode[i] \in DinodeType
      /\ dinode[i].nlink \in Int /\ Loaded(i).lock = NoUser
  BY <1>3, LoadedEntry DEF NamesTypes, DinodeType
<1>5. dinode[i].type = "file" /\ n = dinode[i].nlink + 1 /\ n \in Int
  BY <1>1, <1>3, <1>4 DEF DinodeType, Types, LinkCounted
<1>6. /\ e \in InodeType /\ e.ref = inode[i].ref /\ e.valid /\ e.type = "file" /\ e.nlink = n /\ e.lock = NoUser
  <2>1. PICK l \in InodeType : l = Loaded(i)
    BY <1>4
  <2>2. e = [l EXCEPT !.nlink = n]
    BY <1>1, <2>1
  <2>3. e \in InodeType /\ e.ref = l.ref /\ e.valid = l.valid /\ e.type = l.type /\ e.nlink = n /\ e.lock = l.lock
    BY <1>5, <2>2 DEF InodeType
  <2> QED
    BY <1>4, <1>5, <2>1, <2>3
<1>7. path.elems \in Seq(DirElems) /\ path.elems # <<>> /\ c.req \in Requests /\ s \in Inums
      /\ (s = Root \/ s = cwd[p])
  <2>1. c.req \in Requests /\ c.req.op = "link"
    BY <1>1, <1>3 DEF UserRight, FrameRight
  <2>2. path \in Paths
    BY <1>1, <2>1, NamesAssumption
  <2>3. s \in Inums /\ (s = Root \/ s = cwd[p])
    BY <1>1, <1>3, Numbers DEF NamesTypes, Inode0
  <2> QED
    BY <2>1, <2>2, <2>3 DEF Paths
<1>8. /\ dinode' = [dinode EXCEPT ![i].nlink = n] /\ cwd' = cwd /\ ofile' = ofile
      /\ NamexFrom(p, cached, path, TRUE, "dirlink", "linkbad", b)
  BY <1>1, <1>3 DEF Link
<1>9. inode' = [cached EXCEPT ![s] = Got(cached[s])] /\ Go(p, x)
  BY <1>1, <1>8 DEF NamexFrom, With, Walking
<1>10. b \in CallType /\ b.ip = i /\ b.put = 0 /\ b.req = c.req
  BY <1>1, <1>3 DEF CallType, Inode0
<1>11. /\ x \in CallType /\ x.pc = "walk" /\ x.w = s /\ x.rest = path.elems /\ x.par = TRUE
       /\ x.ok = "dirlink" /\ x.bad = "linkbad" /\ x.ip = i /\ x.put = 0 /\ x.req = c.req
       /\ Resume(x) = "walk"
  <2>1. PICK rest, par : rest = path.elems /\ par = TRUE
    OBVIOUS
  <2>2. /\ "dirlink" \in Callers /\ "linkbad" \in Callers /\ s \in Inode0 /\ rest \in Seq(DirElems)
        /\ par \in BOOLEAN /\ x = Walking(b, s, rest, par, "dirlink", "linkbad")
    BY <1>1, <1>7, <2>1 DEF Callers, WithIp, Inode0
  <2>3. /\ x \in CallType /\ x.pc = "walk" /\ x.w = s /\ x.rest = rest /\ x.par = par
        /\ x.ok = "dirlink" /\ x.bad = "linkbad" /\ x.ip = b.ip /\ x.put = b.put /\ x.req = b.req
        /\ Resume(x) = "walk"
    BY ONLY <1>10, <2>2, WalkFrame
  <2> QED
    BY <1>10, <2>1, <2>3
<1>12. Leads(p, x)
  BY <1>3, <1>9, <1>11, GoGoes
<1>13. call'[p] = x /\ cwd'[p] = cwd[p] /\ ofile'[p] = ofile[p]
  BY <1>8, <1>12 DEF Leads
<1>14. /\ dinode' \in [Inums -> DinodeType] /\ dinode'[i].nlink = n
       /\ \A k \in Inums : dinode'[k].type = dinode[k].type /\ dinode'[k].ents = dinode[k].ents
       /\ \A k \in Inums : k # i => dinode'[k] = dinode[k]
  BY <1>3, <1>5, <1>8 DEF NamesTypes, DinodeType
<1>15. \A k \in Inums : k # i => inode[k] \in InodeType /\ cached[k] = inode[k]
  BY <1>1, <1>3 DEF NamesTypes
<1>16. cached \in [Inums -> InodeType] /\ cached[i] = e
  BY <1>1, <1>3, <1>6 DEF NamesTypes
<1>17. /\ inode' \in [Inums -> InodeType] /\ inode'[s] = Got(cached[s])
       /\ \A k \in Inums : k # s => inode'[k] = cached[k]
  BY <1>7, <1>9, <1>16, GotEntry
<1>18. \A k \in Inums : Count(Pointers(p), k) \in Nat /\ Count(Pointers(p)', k) = Count(Pointers(p), k) + One(k = s)
  <2> SUFFICES ASSUME NEW k \in Inums
               PROVE  /\ Count(Pointers(p), k) \in Nat
                      /\ Count(Pointers(p)', k) = Count(Pointers(p), k) + One(k = s)
    OBVIOUS
  <2>1. k # 0
    BY Numbers
  <2>2. Pointers(p) = <<cwd[p], ofile[p], i, 0, 0>> /\ Pointers(p)' = <<cwd[p], ofile[p], s, i, 0>>
    BY <1>1, <1>3, <1>11, <1>13 DEF Pointers
  <2> QED
    BY <2>1, <2>2 DEF Count, One
<1>19. \A k \in Inums : (Points(p, k)' => Points(p, k) \/ k = Root) /\ (Keeps(p, k)' => Keeps(p, k) \/ k = Root)
  <2> SUFFICES ASSUME NEW k \in Inums
               PROVE  (Points(p, k)' => Points(p, k) \/ k = Root) /\ (Keeps(p, k)' => Keeps(p, k) \/ k = Root)
    OBVIOUS
  <2>1. k # 0
    BY Numbers
  <2> QED
    BY ZenonT(60), <1>1, <1>2, <1>3, <1>7, <1>11, <1>13, <2>1 DEF Points, Keeps
<1>20. inode[i].ref > 0 /\ inode[i].ref \in Nat
  <2>1. Points(p, i) /\ RefsRight
    BY <1>1 DEF Points, NamesInv
  <2> QED
    BY <1>3, <2>1, RefsCover, CountPoints
<1>21. inode'[i].valid /\ inode'[i].type = "file" /\ inode'[i].nlink = n /\ inode'[i].lock = NoUser
       /\ inode'[i].ref = inode[i].ref + One(i = s)
  <2>1. CASE i = s
    BY <1>6, <1>16, <1>17, <1>20, <2>1, GotEntry DEF One
  <2>2. CASE i # s
    BY <1>3, <1>6, <1>16, <1>17, <1>20, <2>2 DEF One
  <2> QED
    BY <2>1, <2>2
<1>22. ASSUME NEW k \in Inums, k # i
       PROVE  /\ inode'[k].type = inode[k].type /\ inode'[k].nlink = inode[k].nlink
              /\ inode'[k].lock = inode[k].lock /\ (inode'[k].valid => inode[k].valid)
              /\ inode[k].valid /\ inode[k].ref > 0 => inode'[k].valid
              /\ inode'[k].ref = inode[k].ref + One(k = s)
  <2>1. inode[k] \in InodeType /\ cached[k] = inode[k] /\ inode[k].ref \in Int
    BY <1>15, <1>22 DEF InodeType
  <2>2. CASE k = s
    BY <1>17, <2>1, <2>2, GotEntry DEF One
  <2>3. CASE k # s
    BY <1>17, <2>1, <2>3 DEF One
  <2> QED
    BY <2>2, <2>3
<1>23. NamesTypes'
  BY <1>3, <1>8, <1>12, <1>14, <1>17 DEF NamesTypes, Leads
<1>24. ASSUME NEW k \in Inums PROVE MovesEntry(p, k)
  <2>1. inode[k].ref \in Int /\ One(k = s) \in Int
    BY <1>3 DEF NamesTypes, InodeType, One
  <2>2. inode'[k].ref = inode[k].ref - Count(Pointers(p), k) + Count(Pointers(p)', k)
    BY <1>18, <1>21, <1>22, <2>1
  <2>3. k = Root => dinode[k].nlink >= 1
    BY NamedLinked
  <2>4. CASE k = i
    BY <1>3, <1>14, <1>19, <1>21, <2>2, <2>3, <2>4 DEF MovesEntry
  <2>5. CASE k # i
    BY <1>14, <1>19, <1>22, <2>2, <2>3, <2>5 DEF MovesEntry
  <2> QED
    BY <2>4, <2>5
<1>25. Moves(p)
  BY <1>8, <1>12, <1>24 DEF Moves, Leads
<1>26. CacheRight'
  <2> SUFFICES ASSUME NEW k \in Inums
               PROVE  /\ inode'[k].valid => inode'[k].type = dinode'[k].type /\ inode'[k].nlink = dinode'[k].nlink
                      /\ dinode'[k].type = "free" => ~inode'[k].valid /\ dinode'[k].nlink = 0
                      /\ dinode'[k].type # "dir" => dinode'[k].ents = NoEnts
    BY DEF CacheRight
  <2>1. CASE k = i
    BY <1>3, <1>5, <1>14, <1>21, <2>1 DEF CacheRight
  <2>2. CASE k # i
    BY <1>3, <1>14, <1>22, <2>2 DEF CacheRight
  <2> QED
    BY <2>1, <2>2
<1>27. UserRight(p)'
  <2>1. KeepsRight(p)'
    <3> SUFFICES ASSUME NEW k \in Inums, Keeps(p, k)' PROVE dinode'[k].type # "free"
      BY DEF KeepsRight
    <3> QED
      BY <1>3, <1>14, <1>19, NamedLinked DEF UserRight, KeepsRight
  <2>2. (\A k \in Inums : ~Holds(x, k)) /\ Linking(x)
    BY <1>11, Numbers DEF Holds, Linking
  <2>3. FrameRight(x)
    BY <1>3, <1>7, <1>11, <2>2, Numbers DEF FrameRight, WithW, WithIp, Looking, OkLabels, InPut
  <2>4. LocksRight(p)' /\ FrameRight(call[p])' /\ CwdRight(p)'
    BY <1>3, <1>11, <1>13, <2>2, <2>3 DEF LocksRight, CwdRight
  <2>5. FreeRight(p)' /\ DirRight(p)' /\ FileRight(p)' /\ EraseRight(p)' /\ NewRight(p)'
    BY <1>3, <1>5, <1>11, <1>13, <1>14 DEF FreeRight, DirRight, FileRight, EraseRight, NewRight
  <2> QED
    BY <2>1, <2>4, <2>5 DEF UserRight
<1>28. TreeRight' /\ \A k \in Inums : Named(k)' = Named(k) /\ Children(k)' = Children(k)
  BY <1>14, SameShape
<1>29. ASSUME NEW k \in Inums PROVE Counted(k)'
  <2>1. CASE k = i
    <3>1. Pending(k)' \subseteq Pending(k) \cup {p}
      BY <1>12, PendingStep
    <3>2. Linked3(k, 0, 0, 1)
      BY <1>4, <1>5, <1>14, <1>28, <2>1, <3>1 DEF Linked3, Change, Grows
    <3> QED
      BY <3>2, CountedKept
  <2>2. CASE k # i
    <3>1. Pending(k)' \subseteq Pending(k) \ {p}
      BY <1>11, <1>12, <2>2, PendingStep
    <3>2. dinode[k].nlink \in Int
      BY <1>3 DEF NamesTypes, DinodeType
    <3>3. Linked3(k, 0, 0, 0)
      BY <1>14, <1>28, <2>2, <3>1, <3>2 DEF Linked3, Change
    <3> QED
      BY <3>3, CountedKept
  <2> QED
    BY <2>1, <2>2
<1> QED
  BY ONLY NamesInv, p \in Users, <1>23, <1>25, <1>26, <1>27, <1>28, <1>29, Combine

\* ialloc takes the first free inode.
LEMMA LeastNatural ==
    ASSUME NEW T \in SUBSET Nat, T # {}
    PROVE  \E x \in T : \A y \in T : x <= y
<1>1. IsWellFoundedOn(OpToRel(<, Nat), Nat)
  BY NatLessThanWellFounded
<1>2. PICK x \in T : \A y \in T : ~ (<<y, x>> \in OpToRel(<, Nat))
  BY <1>1, WFMin
<1>3. \A y \in T : ~ (<<y, x>> \in {ss \in Nat \X Nat : ss[1] < ss[2]})
  BY <1>2, Zenon DEF OpToRel
<1>4. \A y \in T : ~ (y < x)
  BY <1>3
<1> QED
  BY <1>4

LEMMA FirstFree ==
    ASSUME FreeInums # {}
    PROVE  (CHOOSE i \in FreeInums : \A j \in FreeInums : i <= j) \in FreeInums
<1>1. FreeInums \in SUBSET Nat
  BY NamesAssumption DEF FreeInums, Inums
<1>2. \E i \in FreeInums : \A j \in FreeInums : i <= j
  BY <1>1, LeastNatural
<1> QED
  BY <1>2

\* create allocates: the inode it finds is named by nothing and kept by nobody.
LEMMA CreateNewKeeps ==
    ASSUME NamesInv, DotsRight, NEW p \in Users, Create(p), dirlookup(call[p].w, Elem(p)) = 0, fsPanic' = fsPanic
    PROVE  NamesInv'
<1>1. PICK c, d, i, e, f, x :
         /\ c = call[p] /\ d = c.w /\ i = CHOOSE k \in FreeInums : \A j \in FreeInums : k <= j
         /\ e = [Loaded(d) EXCEPT !.lock = p]
         /\ f = [type |-> TypeOf(c.req.op), nlink |-> 0, ents |-> NoEnts]
         /\ x = [c EXCEPT !.pc = "new", !.ip = i]
  OBVIOUS
<1>2. c.pc = "create" /\ c.pc \in WithW /\ c.pc \in WithElem /\ fsPanic = "no"
  BY <1>1 DEF Create, Locking, At, WithW, Looking, WithElem
<1>3. /\ d \in Inums /\ c \in CallType /\ c.ip = 0 /\ c.put = 0 /\ c.pc \notin InPut
      /\ inode[d].lock = NoUser /\ NamesTypes /\ cwd[p] # 0 /\ Keeps(p, d) /\ UserRight(p)
      /\ Resume(c) = "create" /\ dinode[d].type # "free" /\ CacheRight
  BY <1>1, <1>2, AtW DEF Create, Locking, CanLock, NamesInv
<1>4. Elem(p) \in Elems /\ c.rest # <<>>
  BY <1>1, <1>2, <1>3, FrameAt, NotFound
<1>5. dinode[d].type = "dir" /\ dinode[d].ents[Head(c.rest)] = 0
  BY <1>1, <1>3 DEF UserRight, DirRight, dirlookup, Elem
<1>6. /\ FreeInums # {} /\ cwd' = cwd /\ ofile' = ofile
      /\ dinode' = [dinode EXCEPT ![i] = f]
      /\ inode' = [inode EXCEPT ![d] = e, ![i] = Got(inode[i])] /\ Go(p, x)
  BY <1>1, <1>2 DEF Create, FsPanic
<1>7. i \in Inums /\ dinode[i].type = "free" /\ i # d /\ ~inode[i].valid /\ dinode[i].nlink = 0
      /\ dinode[i].ents = NoEnts
  <2>1. i \in FreeInums
    BY <1>1, <1>6, FirstFree
  <2> QED
    BY <1>3, <2>1 DEF FreeInums, CacheRight
<1>8. f \in DinodeType /\ f.type \in {"dir", "file"} /\ f.nlink = 0 /\ f.ents = NoEnts
  BY <1>1, Numbers DEF DinodeType, TypeOf, Types
<1>9. /\ e \in InodeType /\ e.ref = inode[d].ref /\ e.valid /\ e.type = dinode[d].type
      /\ e.nlink = dinode[d].nlink /\ e.lock = p
  <2>1. /\ Loaded(d) \in InodeType /\ Loaded(d).ref = inode[d].ref /\ Loaded(d).valid
        /\ Loaded(d).type = dinode[d].type /\ Loaded(d).nlink = dinode[d].nlink
    BY <1>3, LoadedEntry
  <2>2. PICK l \in InodeType : l = Loaded(d)
    BY <2>1
  <2>3. e = [l EXCEPT !.lock = p]
    BY <1>1, <2>2
  <2>4. e \in InodeType /\ e.ref = l.ref /\ e.valid = l.valid /\ e.type = l.type /\ e.nlink = l.nlink /\ e.lock = p
    BY <2>3 DEF InodeType
  <2> QED
    BY <2>1, <2>2, <2>4
<1>10. /\ dinode' \in [Inums -> DinodeType] /\ dinode'[i] = f /\ \A k \in Inums : k # i => dinode'[k] = dinode[k]
  BY <1>3, <1>6, <1>7, <1>8 DEF NamesTypes
<1>11. /\ inode' \in [Inums -> InodeType] /\ inode'[d] = e
       /\ inode'[i].ref = inode[i].ref + 1 /\ ~inode'[i].valid /\ inode'[i].lock = inode[i].lock
       /\ \A k \in Inums : k # i /\ k # d => inode'[k] = inode[k]
  <2>1. inode \in [Inums -> InodeType] /\ inode[i] \in InodeType
    BY <1>3, <1>7 DEF NamesTypes
  <2>2. PICK g \in InodeType : g = Got(inode[i]) /\ g.ref = inode[i].ref + 1 /\ ~g.valid /\ g.lock = inode[i].lock
    BY <1>7, <2>1, GotEntry
  <2>3. inode' = [inode EXCEPT ![d] = e, ![i] = g]
    BY <1>6, <2>2
  <2> QED
    BY <1>3, <1>7, <1>9, <2>1, <2>2, <2>3
<1>12. /\ x \in CallType /\ x.pc = "new" /\ x.ip = i /\ x.w = d /\ x.put = 0 /\ x.rest = c.rest
       /\ x.req = c.req /\ Resume(x) = "new"
  <2>1. "new" \in Callers \cup InPut
    BY DEF Callers, WithW
  <2>2. /\ x \in CallType /\ x.pc = "new" /\ x.ip = i /\ x.w = d /\ x.put = 0 /\ x.rest = c.rest
        /\ x.req = c.req
    BY <1>1, <1>3, <1>7, <2>1 DEF CallType, Inode0
  <2> QED
    BY <2>2 DEF Resume, InPut
<1>13. Leads(p, x)
  BY <1>3, <1>6, <1>12, GoGoes
<1>14. call'[p] = x /\ cwd'[p] = cwd[p] /\ ofile'[p] = ofile[p]
  BY <1>6, <1>13 DEF Leads
<1>15. FrameRight(x) /\ ~Pends(x) /\ ~Linking(x) /\ \A k \in Inums : Holds(x, k) => k = d
  <2>1. Head(x.rest) \in Elems
    BY <1>1, <1>4, <1>12 DEF Elem
  <2> QED
    BY <1>3, <1>4, <1>7, <1>12, <2>1, Numbers
       DEF FrameRight, WithW, WithIp, Looking, InPut, Linking, Pends, Holds
<1>16. ASSUME NEW k \in Inums
       PROVE  /\ Count(Pointers(p), k) \in Nat /\ Count(Pointers(p)', k) = Count(Pointers(p), k) + One(k = i)
              /\ (Points(p, k)' => Points(p, k) \/ k = i) /\ (Keeps(p, k)' => Keeps(p, k) \/ k = i)
  <2>1. k # 0
    BY Numbers
  <2>2. Pointers(p) = <<cwd[p], ofile[p], d, 0, 0>> /\ Pointers(p)' = <<cwd[p], ofile[p], d, i, 0>>
    BY <1>1, <1>3, <1>12, <1>14 DEF Pointers
  <2>3. /\ Count(Pointers(p), k) \in Nat /\ Count(Pointers(p)', k) = Count(Pointers(p), k) + One(k = i)
    BY <2>1, <2>2 DEF Count, One
  <2> QED
    BY <1>1, <1>2, <1>3, <1>12, <1>14, <2>1, <2>3 DEF Points, Keeps
<1>17. NamesTypes'
  BY <1>3, <1>6, <1>10, <1>11, <1>13 DEF NamesTypes, Leads
<1>18. ASSUME NEW k \in Inums PROVE MovesEntry(p, k)
  <2>1. inode[k].ref \in Int
    BY <1>3 DEF NamesTypes, InodeType
  <2>2. CASE k = i
    BY <1>7, <1>10, <1>11, <1>16, <2>1, <2>2 DEF MovesEntry, One
  <2>3. CASE k = d
    BY <1>3, <1>7, <1>9, <1>10, <1>11, <1>16, <2>1, <2>3 DEF MovesEntry, One
  <2>4. CASE k # i /\ k # d
    BY <1>10, <1>11, <1>16, <2>1, <2>4 DEF MovesEntry, One
  <2> QED
    BY <2>2, <2>3, <2>4
<1>19. Moves(p)
  BY <1>6, <1>13, <1>18 DEF Moves, Leads
<1>20. CacheRight'
  <2> SUFFICES ASSUME NEW k \in Inums
               PROVE  /\ inode'[k].valid => inode'[k].type = dinode'[k].type /\ inode'[k].nlink = dinode'[k].nlink
                      /\ dinode'[k].type = "free" => ~inode'[k].valid /\ dinode'[k].nlink = 0
                      /\ dinode'[k].type # "dir" => dinode'[k].ents = NoEnts
    BY DEF CacheRight
  <2> QED
    BY <1>3, <1>7, <1>8, <1>9, <1>10, <1>11 DEF CacheRight
<1>21. \A q \in Users : ~Keeps(q, i)
  BY <1>7 DEF NamesInv, UserRight, KeepsRight
<1>22. UserRight(p)'
  <2>1. KeepsRight(p)'
    <3> SUFFICES ASSUME NEW k \in Inums, Keeps(p, k)' PROVE dinode'[k].type # "free"
      BY DEF KeepsRight
    <3> QED
      BY <1>3, <1>8, <1>10, <1>16 DEF UserRight, KeepsRight
  <2>2. LocksRight(p)'
    BY <1>9, <1>11, <1>14, <1>15 DEF LocksRight
  <2>3. FrameRight(call[p])' /\ CwdRight(p)'
    BY <1>3, <1>12, <1>14, <1>15 DEF CwdRight
  <2>4. FreeRight(p)' /\ DirRight(p)' /\ FileRight(p)' /\ EraseRight(p)'
    BY <1>3, <1>5, <1>7, <1>10, <1>12, <1>14, <1>15 DEF FreeRight, DirRight, FileRight, EraseRight
  <2>6. cwd[p] # i /\ ofile[p] # i
    BY <1>21 DEF Keeps
  <2>7. dinode'[d].ents[Head(c.rest)] = 0
    BY <1>3, <1>5, <1>7, <1>10
  <2>8. NewRight(p)'
    <3> SUFFICES /\ dinode'[d].ents[Head(c.rest)] = 0
                 /\ \A k \in Inums : k = i =>
                      /\ dinode'[k] = [type |-> TypeOf(c.req.op), nlink |-> 0, ents |-> NoEnts]
                      /\ ~inode'[k].valid
                      /\ \A q \in Users \ {p} : ~Keeps(q, k)'
                      /\ cwd[p] # k /\ ofile[p] # k /\ d # k
      BY <1>12, <1>14 DEF NewRight
    <3> SUFFICES ASSUME NEW k \in Inums, k = i
                 PROVE  \A q \in Users \ {p} : ~Keeps(q, k)'
      BY <1>1, <1>7, <1>10, <1>11, <2>6, <2>7
    <3> SUFFICES ASSUME NEW q \in Users \ {p} PROVE ~Keeps(q, k)'
      OBVIOUS
    <3>1. ~Keeps(q, k)
      BY <1>21
    <3> QED
      BY <1>6, <1>13, <3>1 DEF Keeps, Leads
  <2> QED
    BY <2>1, <2>2, <2>3, <2>4, <2>8 DEF UserRight
<1>23. \A k \in Inums : dinode'[k].ents = dinode[k].ents
  BY <1>7, <1>8, <1>10
<1>24. ASSUME NEW k \in Inums PROVE Named(k)' \subseteq Named(k)
  <2> SUFFICES ASSUME NEW t \in Named(k)' PROVE t \in Named(k)
    OBVIOUS
  <2>1. PICK a \in Inums, n \in Elems : t = <<a, n>> /\ dinode'[a].ents[n] = k
    BY DEF Named
  <2>2. dinode[a].ents[n] = k
    BY <1>23, <2>1
  <2> QED
    BY <2>1, <2>2, NamedIs
<1>25. ASSUME NEW k \in Inums PROVE Children(k)' \subseteq Children(k)
  BY <1>23, <1>24 DEF Children
<1>26. ASSUME NEW k \in Inums PROVE Counted(k)'
  <2>1. Pending(k)' \subseteq Pending(k) \ {p}
    BY <1>13, <1>15, PendingStep
  <2>2. dinode[k].nlink \in Int /\ dinode'[k].nlink = dinode[k].nlink
    BY <1>3, <1>7, <1>8, <1>10 DEF NamesTypes, DinodeType
  <2>3. Linked3(k, 0, 0, 0)
    BY <1>24, <1>25, <2>1, <2>2 DEF Linked3, Change
  <2> QED
    BY <2>3, CountedKept
<1>27. TreeRight'
  <2>1. TreeRight
    BY DEF NamesInv
  <2>2. \A a \in Inums, n \in Elems : dinode'[a].ents[n] # a /\ dinode'[a].ents[n] # Root
    BY <1>23, <2>1 DEF TreeRight
  <2>3. ASSUME NEW a \in Inums, NEW j \in Inums, NEW n \in Elems,
               dinode'[j].type = "dir" /\ dinode'[a].ents[n] = j
        PROVE  /\ dinode'[j].ents[".."] = a
               /\ \A m \in Elems : dinode'[a].ents[m] = j => m = n
    <3>1. dinode[a].ents[n] = j
      BY <1>23, <2>3
    <3>2. j # i
      BY <1>7, <3>1, NamedLinked, Numbers
    <3>3. dinode[j].type = "dir"
      BY <1>10, <2>3, <3>2
    <3> QED
      BY <1>23, <2>1, <3>1, <3>3 DEF TreeRight
  <2> QED
    BY <2>2, <2>3 DEF TreeRight
<1> QED
  BY ONLY NamesInv, p \in Users, <1>17, <1>19, <1>20, <1>22, <1>26, <1>27, Combine
\* dirlink: the pending link gets its name.  A file has no entries, so the name
\* makes no subdirectory.
LEMMA DirlinkKeeps ==
    ASSUME NamesInv, DotsRight, NEW p \in Users, Dirlink(p), dirlookup(call[p].w, Elem(p)) = 0
    PROVE  NamesInv'
<1>1. PICK c, d, i, n, e, f :
         /\ c = call[p] /\ d = c.w /\ i = c.ip /\ n = Head(c.rest) /\ e = Loaded(d)
         /\ f = Entered(d, n, i, dinode[d].nlink)
  OBVIOUS
<1>2. c.pc = "dirlink" /\ c.pc \in WithW /\ c.pc \in WithIp /\ c.pc \in WithElem
  BY <1>1 DEF Dirlink, Locking, At, WithW, WithIp, Looking, WithElem
<1>3. /\ d \in Inums /\ c \in CallType /\ i \in Inums /\ c.put = 0 /\ c.pc \notin InPut
      /\ inode[d].lock = NoUser /\ NamesTypes /\ cwd[p] # 0 /\ Keeps(p, d) /\ UserRight(p)
      /\ Resume(c) = "dirlink" /\ dinode[d].type # "free" /\ CacheRight
  BY <1>1, <1>2, AtW, AtIp DEF Dirlink, Locking, CanLock, NamesInv
<1>4. n \in Elems /\ n # ".." /\ n \in DirElems
  BY <1>1, <1>2, <1>3, NotFound, Numbers DEF Elem
<1>5. /\ dinode[d].type = "dir" /\ dinode[i].type = "file" /\ dinode[d].ents[n] = 0 /\ i # d
      /\ dinode[i].ents = NoEnts /\ i # Root
  BY <1>1, <1>3 DEF UserRight, DirRight, FileRight, dirlookup, Elem, CacheRight, NamesInv, RootRight
<1>6. /\ cwd' = cwd /\ ofile' = ofile /\ dinode' = [dinode EXCEPT ![d] = f]
      /\ inode' = [inode EXCEPT ![d] = e] /\ PutThen(p, [c EXCEPT !.w = 0], d, "linked")
  BY <1>1 DEF Dirlink, Elem
<1>7. /\ f \in DinodeType /\ f.type = "dir" /\ f.nlink = dinode[d].nlink /\ f.ents[n] = i
      /\ \A m \in DirElems : m # n => f.ents[m] = dinode[d].ents[m]
  <2>1. PICK g \in [DirElems -> Inode0] : g = dinode[d].ents
    BY <1>3 DEF NamesTypes, DinodeType
  <2>2. PICK h : h = [g EXCEPT ![n] = i]
    OBVIOUS
  <2>3. h \in [DirElems -> Inode0] /\ h[n] = i /\ \A m \in DirElems : m # n => h[m] = g[m]
    BY <1>3, <1>4, <2>2 DEF Inode0
  <2>4. PICK b \in DinodeType : b = dinode[d]
    BY <1>3 DEF NamesTypes
  <2>5. f = [b EXCEPT !.nlink = b.nlink, !.ents = h]
    BY <1>1, <2>1, <2>2, <2>4 DEF Entered
  <2>6. f \in DinodeType /\ f.type = b.type /\ f.nlink = b.nlink /\ f.ents = h
    BY <2>3, <2>5 DEF DinodeType
  <2> QED
    BY <1>5, <2>1, <2>3, <2>4, <2>6
<1>8. /\ e \in InodeType /\ e.ref = inode[d].ref /\ e.valid /\ e.type = dinode[d].type
      /\ e.nlink = dinode[d].nlink /\ e.lock = NoUser
  BY <1>1, <1>3, LoadedEntry
<1>9. /\ dinode' \in [Inums -> DinodeType] /\ dinode'[d] = f /\ \A k \in Inums : k # d => dinode'[k] = dinode[k]
  BY <1>3, <1>6, <1>7 DEF NamesTypes
<1>10. /\ inode' \in [Inums -> InodeType] /\ inode'[d] = e /\ \A k \in Inums : k # d => inode'[k] = inode[k]
  BY <1>3, <1>6, <1>8 DEF NamesTypes
<1>11. PICK x : Leads(p, x) /\ x.pc = "put" /\ x.put = d /\ x.w = 0 /\ x.ip = i /\ Resume(x) = "linked"
  <2>1. "linked" \in Callers
    BY DEF Callers, WithIp
  <2>2. PICK b : b = [c EXCEPT !.w = 0]
    OBVIOUS
  <2>3. b \in CallType /\ b.w = 0 /\ b.ip = i
    BY <1>1, <1>3, <2>2 DEF CallType, Inode0
  <2>4. PutThen(p, b, d, "linked")
    BY <1>6, <2>2
  <2> QED
    BY <1>3, <2>1, <2>3, <2>4, PutGoes
<1>12. call'[p] = x /\ cwd'[p] = cwd[p] /\ ofile'[p] = ofile[p]
  BY <1>6, <1>11 DEF Leads
<1>13. FrameRight(x) /\ ~Pends(x) /\ ~Linking(x) /\ Pends(c) /\ \A k \in Inums : ~Holds(x, k)
  BY <1>3, <1>11, Numbers DEF FrameRight, WithW, WithIp, Looking, InPut, WithElem, Linking, Pends, Holds
<1>14. Gains(p, 0)
  BY <1>1, <1>2, <1>3, <1>11, <1>12, Numbers DEF Gains, Count, One, Pointers, Points, Keeps
<1>15. NamesTypes'
  BY <1>3, <1>6, <1>9, <1>10, <1>11 DEF NamesTypes, Leads
<1>16. ASSUME NEW k \in Inums PROVE MovesEntry(p, k)
  <2>1. /\ inode[k].ref \in Int /\ Count(Pointers(p), k) \in Nat
        /\ Count(Pointers(p)', k) = Count(Pointers(p), k)
        /\ (Points(p, k)' => Points(p, k)) /\ (Keeps(p, k)' => Keeps(p, k))
    BY <1>3, <1>14, CountPoints, Numbers DEF NamesTypes, InodeType, Gains, One
  <2>2. CASE k = d
    BY <1>3, <1>5, <1>7, <1>8, <1>9, <1>10, <2>1, <2>2 DEF MovesEntry
  <2>3. CASE k # d
    BY <1>9, <1>10, <2>1, <2>3 DEF MovesEntry
  <2> QED
    BY <2>2, <2>3
<1>17. Moves(p)
  BY <1>6, <1>11, <1>16 DEF Moves, Leads
<1>18. CacheRight'
  <2> SUFFICES ASSUME NEW k \in Inums
               PROVE  /\ inode'[k].valid => inode'[k].type = dinode'[k].type /\ inode'[k].nlink = dinode'[k].nlink
                      /\ dinode'[k].type = "free" => ~inode'[k].valid /\ dinode'[k].nlink = 0
                      /\ dinode'[k].type # "dir" => dinode'[k].ents = NoEnts
    BY DEF CacheRight
  <2> QED
    BY <1>3, <1>5, <1>7, <1>8, <1>9, <1>10 DEF CacheRight
<1>19. UserRight(p)'
  <2>1. KeepsRight(p)'
    BY <1>3, <1>5, <1>7, <1>9, <1>14, Numbers DEF UserRight, KeepsRight, Gains
  <2>2. LocksRight(p)' /\ FrameRight(call[p])' /\ CwdRight(p)'
    BY <1>3, <1>11, <1>12, <1>13 DEF LocksRight, CwdRight
  <2>3. FreeRight(p)' /\ DirRight(p)' /\ FileRight(p)' /\ EraseRight(p)' /\ NewRight(p)'
    BY <1>11, <1>12, <1>13, Relaxed
  <2> QED
    BY <2>1, <2>2, <2>3 DEF UserRight
<1>20. /\ dinode'[d].ents[n] = i
       /\ \A a \in Inums, m \in DirElems : a # d \/ m # n => dinode'[a].ents[m] = dinode[a].ents[m]
       /\ \A a \in Inums : dinode'[a].type = dinode[a].type
  BY <1>5, <1>7, <1>9
<1>21. ASSUME NEW k \in Inums, NEW t \in Named(k)' PROVE t \in Named(k) \/ (k = i /\ t = <<d, n>>)
  <2>1. PICK a \in Inums, m \in Elems : t = <<a, m>> /\ dinode'[a].ents[m] = k
    BY <1>21 DEF Named
  <2>2. CASE a = d /\ m = n
    BY <1>20, <2>1, <2>2
  <2>3. CASE a # d \/ m # n
    BY <1>20, <2>1, <2>3, NamedIs, Numbers
  <2> QED
    BY <2>2, <2>3
<1>22. ASSUME NEW k \in Inums PROVE Children(k)' \subseteq Children(k)
  <2> SUFFICES ASSUME NEW j \in Children(k)' PROVE j \in Children(k)
    OBVIOUS
  <2>1. j \in Inums /\ j # Root /\ dinode'[j].ents[".."] = k /\ Named(j)' # {}
    BY DEF Children
  <2>2. dinode[j].ents[".."] = k
    BY <1>4, <1>20, <2>1, Numbers
  <2>3. j # i
    BY <1>5, <2>2, Numbers
  <2>4. Named(j) # {}
    BY <1>21, <2>1, <2>3
  <2> QED
    BY <2>1, <2>2, <2>4 DEF Children
<1>23. ASSUME NEW k \in Inums PROVE Counted(k)'
  <2>1. Pending(k)' \subseteq Pending(k) \ {p}
    BY <1>11, <1>13, PendingStep
  <2>2. dinode[k].nlink \in Int /\ dinode'[k].nlink = dinode[k].nlink
    BY <1>3, <1>7, <1>9 DEF NamesTypes, DinodeType
  <2>3. CASE k = i
    <3>1. p \in Pending(k)
      BY <1>1, <1>11, <1>13, <2>3, PendingStep
    <3>2. Grows(Named(k)', Named(k))
      <4>1. Named(k)' \subseteq Named(k) \cup {<<d, n>>}
        BY <1>21
      <4> QED
        BY <4>1 DEF Grows
    <3>3. Linked3(k, 1, 0, -1)
      BY <1>22, <2>1, <2>2, <3>1, <3>2 DEF Linked3, Change, Shrinks
    <3> QED
      BY <3>3, CountedKept
  <2>4. CASE k # i
    <3>1. Named(k)' \subseteq Named(k)
      BY <1>21, <2>4
    <3>2. Linked3(k, 0, 0, 0)
      BY <1>22, <2>1, <2>2, <3>1 DEF Linked3, Change
    <3> QED
      BY <3>2, CountedKept
  <2> QED
    BY <2>3, <2>4
<1>24. TreeRight'
  <2>1. TreeRight
    BY DEF NamesInv
  <2>2. ASSUME NEW a \in Inums, NEW m \in Elems
        PROVE  dinode'[a].ents[m] # a /\ dinode'[a].ents[m] # Root
    BY <1>5, <1>20, <2>1, Numbers DEF TreeRight
  <2>3. ASSUME NEW a \in Inums, NEW j \in Inums, NEW m \in Elems,
               dinode'[j].type = "dir" /\ dinode'[a].ents[m] = j
        PROVE  /\ dinode'[j].ents[".."] = a
               /\ \A l \in Elems : dinode'[a].ents[l] = j => l = m
    <3>1. j # i /\ dinode[j].type = "dir"
      BY <1>5, <1>20, <2>3
    <3>2. \A l \in Elems : dinode'[a].ents[l] = j => dinode[a].ents[l] = j
      BY <1>20, <3>1, Numbers
    <3>3. dinode'[j].ents[".."] = dinode[j].ents[".."]
      BY <1>4, <1>20, Numbers
    <3> QED
      BY <2>1, <2>3, <3>1, <3>2, <3>3 DEF TreeRight
  <2> QED
    BY <2>2, <2>3 DEF TreeRight
<1> QED
  BY ONLY NamesInv, p \in Users, <1>15, <1>17, <1>18, <1>19, <1>23, <1>24, Combine

\* create enters the new inode, and a new directory has its ".." where its name is.
LEMMA EnterNewKeeps ==
    ASSUME NamesInv, NEW p \in Users, EnterNew(p), fsPanic' = fsPanic
    PROVE  NamesInv'
<1>1. PICK c, d, i, n, up, dots, f, g, e, h :
         /\ c = call[p] /\ d = c.w /\ i = c.ip /\ n = Head(c.rest)
         /\ up = (IF c.req.op = "mkdir" THEN 1 ELSE 0)
         /\ dots = (IF c.req.op = "mkdir" THEN [dinode[i].ents EXCEPT !["."] = i, ![".."] = d] ELSE dinode[i].ents)
         /\ f = Entered(d, n, i, inode[d].nlink + up)
         /\ g = [dinode[i] EXCEPT !.nlink = 1, !.ents = dots]
         /\ e = Unlocked(d, inode[d].nlink + up)
         /\ h = [Loaded(i) EXCEPT !.nlink = 1, !.lock = p]
  OBVIOUS
<1>2. c.pc = "new" /\ c.pc \in WithW /\ c.pc \in WithIp /\ c.pc \in WithElem
  BY <1>1 DEF EnterNew, Locking, At, WithW, WithIp, WithElem
<1>3. /\ d \in Inums /\ c \in CallType /\ i \in Inums /\ c.put = 0 /\ c.pc \notin InPut
      /\ inode[i].lock = NoUser /\ NamesTypes /\ cwd[p] # 0 /\ Keeps(p, d) /\ Keeps(p, i) /\ UserRight(p)
      /\ Resume(c) = "new" /\ dinode[d].type # "free" /\ dinode[i].type # "free" /\ CacheRight
  BY <1>1, <1>2, AtW, AtIp DEF EnterNew, Locking, CanLock, NamesInv
<1>4. n \in Elems /\ n # ".." /\ n \in DirElems
  BY <1>1, <1>2, <1>3, FrameAt, Numbers DEF Elem
<1>5. /\ dinode[d].type = "dir" /\ dinode[d].ents[n] = 0 /\ inode[d].lock = p /\ inode[d].valid
      /\ i # d /\ dinode[i].nlink = 0 /\ dinode[i].ents = NoEnts /\ dinode[i].type = TypeOf(c.req.op)
      /\ ~inode[i].valid
  BY SMTT(60), <1>1, <1>3 DEF UserRight, DirRight, NewRight, LocksRight, Holds
<1>6. /\ cwd' = cwd /\ ofile' = ofile /\ dinode' = [dinode EXCEPT ![i] = g, ![d] = f]
      /\ inode' = [inode EXCEPT ![i] = h, ![d] = e] /\ PutThen(p, [c EXCEPT !.w = 0], d, "made")
  BY <1>1, <1>2, AtIp DEF EnterNew, Elem
<1>7. up \in {0, 1} /\ (up = 1 <=> c.req.op = "mkdir") /\ (c.req.op = "mkdir" <=> dinode[i].type = "dir")
      /\ inode[d].nlink = dinode[d].nlink /\ dinode[d].nlink \in Int
  BY <1>1, <1>3, <1>5 DEF TypeOf, CacheRight, NamesTypes, DinodeType
<1>8. /\ f \in DinodeType /\ f.type = "dir" /\ f.nlink = dinode[d].nlink + up /\ f.ents[n] = i
      /\ \A m \in DirElems : m # n => f.ents[m] = dinode[d].ents[m]
  <2>1. PICK t \in [DirElems -> Inode0] : t = dinode[d].ents
    BY <1>3 DEF NamesTypes, DinodeType
  <2>2. PICK s : s = [t EXCEPT ![n] = i]
    OBVIOUS
  <2>3. s \in [DirElems -> Inode0] /\ s[n] = i /\ \A m \in DirElems : m # n => s[m] = t[m]
    BY <1>3, <1>4, <2>2 DEF Inode0
  <2>4. PICK b \in DinodeType : b = dinode[d]
    BY <1>3 DEF NamesTypes
  <2>5. PICK l \in Int : l = inode[d].nlink + up
    BY <1>7
  <2>6. f = [b EXCEPT !.nlink = l, !.ents = s]
    BY <1>1, <2>1, <2>2, <2>4, <2>5 DEF Entered
  <2>7. f \in DinodeType /\ f.type = b.type /\ f.nlink = l /\ f.ents = s
    BY <2>3, <2>6 DEF DinodeType
  <2> QED
    BY <1>5, <1>7, <2>1, <2>3, <2>4, <2>5, <2>7
<1>9. /\ dots \in [DirElems -> Inode0] /\ \A m \in Elems : dots[m] = 0
      /\ dots[".."] = IF c.req.op = "mkdir" THEN d ELSE 0
  BY <1>1, <1>3, <1>5, <1>7, Numbers DEF Inode0
<1>10. g \in DinodeType /\ g.type = dinode[i].type /\ g.nlink = 1 /\ g.ents = dots
  <2>1. PICK b \in DinodeType : b = dinode[i]
    BY <1>3 DEF NamesTypes
  <2>2. PICK l \in Int : l = 1
    OBVIOUS
  <2>3. g = [b EXCEPT !.nlink = l, !.ents = dots]
    BY <1>1, <2>1, <2>2
  <2>4. g \in DinodeType /\ g.type = b.type /\ g.nlink = l /\ g.ents = dots
    BY <1>9, <2>3 DEF DinodeType
  <2> QED
    BY <2>1, <2>2, <2>4
<1>11. c.req.op # "mkdir" => g.ents = NoEnts
  BY <1>1, <1>5, <1>7, <1>10
<1>12. /\ e \in InodeType /\ e.ref = inode[d].ref /\ e.valid /\ e.type = "dir" /\ e.nlink = f.nlink
       /\ e.lock = NoUser
  <2>1. PICK b \in InodeType : b = inode[d]
    BY <1>3 DEF NamesTypes
  <2>2. PICK l \in Int : l = inode[d].nlink + up
    BY <1>7
  <2>3. e = [b EXCEPT !.nlink = l, !.lock = NoUser]
    BY <1>1, <2>1, <2>2 DEF Unlocked
  <2>4. e \in InodeType /\ e.ref = b.ref /\ e.valid = b.valid /\ e.type = b.type /\ e.nlink = l /\ e.lock = NoUser
    BY <2>3 DEF InodeType
  <2> QED
    BY <1>3, <1>5, <1>7, <1>8, <2>1, <2>2, <2>4 DEF CacheRight
<1>13. /\ h \in InodeType /\ h.ref = inode[i].ref /\ h.valid /\ h.type = dinode[i].type /\ h.nlink = 1
       /\ h.lock = p
  <2>1. /\ Loaded(i) \in InodeType /\ Loaded(i).ref = inode[i].ref /\ Loaded(i).valid
        /\ Loaded(i).type = dinode[i].type
    BY <1>3, LoadedEntry
  <2>2. PICK l \in InodeType : l = Loaded(i)
    BY <2>1
  <2>3. PICK b \in Int : b = 1
    OBVIOUS
  <2>4. h = [l EXCEPT !.nlink = b, !.lock = p]
    BY <1>1, <2>2, <2>3
  <2>5. h \in InodeType /\ h.ref = l.ref /\ h.valid = l.valid /\ h.type = l.type /\ h.nlink = b /\ h.lock = p
    BY <2>4 DEF InodeType
  <2> QED
    BY <2>1, <2>2, <2>3, <2>5
<1>14. /\ dinode' \in [Inums -> DinodeType] /\ dinode'[d] = f /\ dinode'[i] = g
       /\ \A k \in Inums : k # d /\ k # i => dinode'[k] = dinode[k]
  BY <1>3, <1>5, <1>6, <1>8, <1>10 DEF NamesTypes
<1>15. /\ inode' \in [Inums -> InodeType] /\ inode'[d] = e /\ inode'[i] = h
       /\ \A k \in Inums : k # d /\ k # i => inode'[k] = inode[k]
  BY <1>3, <1>5, <1>6, <1>12, <1>13 DEF NamesTypes
<1>16. PICK x : Leads(p, x) /\ x.pc = "put" /\ x.put = d /\ x.w = 0 /\ x.ip = i /\ Resume(x) = "made"
  <2>1. "made" \in Callers
    BY DEF Callers, WithIp
  <2>2. PICK b : b = [c EXCEPT !.w = 0]
    OBVIOUS
  <2>3. b \in CallType /\ b.w = 0 /\ b.ip = i
    BY <1>1, <1>3, <2>2 DEF CallType, Inode0
  <2>4. PutThen(p, b, d, "made")
    BY <1>6, <2>2
  <2> QED
    BY <1>3, <2>1, <2>3, <2>4, PutGoes
<1>17. call'[p] = x /\ cwd'[p] = cwd[p] /\ ofile'[p] = ofile[p]
  BY <1>6, <1>16 DEF Leads
<1>18. FrameRight(x) /\ ~Pends(x) /\ ~Linking(x) /\ \A k \in Inums : Holds(x, k) => k = i
  BY <1>3, <1>16, Numbers DEF FrameRight, WithW, WithIp, Looking, InPut, WithElem, Linking, Pends, Holds
<1>19. Gains(p, 0)
  BY <1>1, <1>2, <1>3, <1>16, <1>17, Numbers DEF Gains, Count, One, Pointers, Points, Keeps
<1>20. NamesTypes'
  BY <1>3, <1>6, <1>14, <1>15, <1>16 DEF NamesTypes, Leads
<1>21. ASSUME NEW k \in Inums PROVE MovesEntry(p, k)
  <2>1. /\ inode[k].ref \in Int /\ Count(Pointers(p), k) \in Nat
        /\ Count(Pointers(p)', k) = Count(Pointers(p), k)
        /\ (Points(p, k)' => Points(p, k)) /\ (Keeps(p, k)' => Keeps(p, k))
    BY <1>3, <1>19, CountPoints, Numbers DEF NamesTypes, InodeType, Gains, One
  <2>2. CASE k = d
    BY <1>3, <1>5, <1>8, <1>12, <1>14, <1>15, <2>1, <2>2 DEF MovesEntry
  <2>3. CASE k = i
    BY <1>3, <1>5, <1>10, <1>13, <1>14, <1>15, <2>1, <2>3 DEF MovesEntry
  <2>4. CASE k # d /\ k # i
    BY <1>14, <1>15, <2>1, <2>4 DEF MovesEntry
  <2> QED
    BY <2>2, <2>3, <2>4
<1>22. Moves(p)
  BY <1>6, <1>16, <1>21 DEF Moves, Leads
<1>23. CacheRight'
  <2> SUFFICES ASSUME NEW k \in Inums
               PROVE  /\ inode'[k].valid => inode'[k].type = dinode'[k].type /\ inode'[k].nlink = dinode'[k].nlink
                      /\ dinode'[k].type = "free" => ~inode'[k].valid /\ dinode'[k].nlink = 0
                      /\ dinode'[k].type # "dir" => dinode'[k].ents = NoEnts
    BY DEF CacheRight
  <2>1. CASE k = d
    BY <1>8, <1>12, <1>14, <1>15, <2>1
  <2>2. CASE k = i
    BY <1>3, <1>7, <1>10, <1>11, <1>13, <1>14, <1>15, <2>2
  <2>3. CASE k # d /\ k # i
    BY <1>3, <1>14, <1>15, <2>3 DEF CacheRight
  <2> QED
    BY <2>1, <2>2, <2>3
<1>24. UserRight(p)'
  <2>1. KeepsRight(p)'
    BY <1>3, <1>8, <1>10, <1>14, <1>19, Numbers DEF UserRight, KeepsRight, Gains
  <2>2. LocksRight(p)' /\ FrameRight(call[p])' /\ CwdRight(p)'
    BY <1>3, <1>13, <1>15, <1>16, <1>17, <1>18 DEF LocksRight, CwdRight
  <2>3. FreeRight(p)' /\ DirRight(p)' /\ FileRight(p)' /\ EraseRight(p)' /\ NewRight(p)'
    BY <1>16, <1>17, <1>18, Relaxed
  <2> QED
    BY <2>1, <2>2, <2>3 DEF UserRight
<1>25. /\ dinode'[d].ents[n] = i /\ \A a \in Inums : dinode'[a].type = dinode[a].type
       /\ \A a \in Inums, m \in Elems : a # d \/ m # n => dinode'[a].ents[m] = dinode[a].ents[m]
       /\ \A a \in Inums : a # i => dinode'[a].ents[".."] = dinode[a].ents[".."]
       /\ dinode'[i].ents[".."] = IF c.req.op = "mkdir" THEN d ELSE 0
  BY <1>4, <1>5, <1>8, <1>9, <1>10, <1>14, Numbers
<1>26. Named(i) = {} /\ i # Root
  BY <1>3, <1>5, NamedIs
<1>27. ASSUME NEW k \in Inums, NEW t \in Named(k)' PROVE t \in Named(k) \/ (k = i /\ t = <<d, n>>)
  <2>1. PICK a \in Inums, m \in Elems : t = <<a, m>> /\ dinode'[a].ents[m] = k
    BY <1>27 DEF Named
  <2>2. CASE a = d /\ m = n
    BY <1>25, <2>1, <2>2
  <2>3. CASE a # d \/ m # n
    BY <1>25, <2>1, <2>3, NamedIs, Numbers
  <2> QED
    BY <2>2, <2>3
<1>28. ASSUME NEW k \in Inums, NEW j \in Children(k)' PROVE j \in Children(k) \/ (j = i /\ k = d /\ c.req.op = "mkdir")
  <2>1. j \in Inums /\ j # Root /\ dinode'[j].ents[".."] = k /\ Named(j)' # {}
    BY <1>28 DEF Children
  <2>2. CASE j = i
    BY <1>25, <2>1, <2>2, Numbers
  <2>3. CASE j # i
    <3>1. Named(j) # {}
      BY <1>27, <2>1, <2>3
    <3> QED
      BY <1>25, <2>1, <2>3, <3>1 DEF Children
  <2> QED
    BY <2>2, <2>3
<1>29. ASSUME NEW k \in Inums PROVE Counted(k)'
  <2>1. Pending(k)' \subseteq Pending(k)
    BY <1>16, <1>18, PendingStep
  <2>2. dinode[k].nlink \in Int
    BY <1>3 DEF NamesTypes, DinodeType
  <2>3. CASE k = i
    <3>1. Grows(Named(k)', Named(k))
      <4>1. Named(k)' \subseteq Named(k) \cup {<<d, n>>}
        BY <1>27
      <4> QED
        BY <4>1 DEF Grows
    <3>2. Children(k)' \subseteq Children(k)
      BY <1>5, <1>28, <2>3
    <3>3. Linked3(k, 1, 0, 0)
      BY <1>5, <1>10, <1>14, <2>1, <2>3, <3>1, <3>2 DEF Linked3, Change
    <3> QED
      BY <3>3, CountedKept
  <2>4. CASE k = d
    <3>1. Named(k)' \subseteq Named(k)
      BY <1>5, <1>27, <2>4
    <3>2. Change(Children(k)', Children(k), up)
      <4>1. CASE c.req.op = "mkdir"
        <5>1. Children(k)' \subseteq Children(k) \cup {i}
          BY <1>28
        <5> QED
          BY <1>7, <4>1, <5>1 DEF Change, Grows
      <4>2. CASE c.req.op # "mkdir"
        <5>1. Children(k)' \subseteq Children(k)
          BY <1>28, <4>2
        <5> QED
          BY <1>7, <4>2, <5>1 DEF Change
      <4> QED
        BY <1>7, <4>1, <4>2
    <3>3. dinode'[k].nlink = dinode[k].nlink + 0 + up + 0
      BY <1>7, <1>8, <1>14, <2>2, <2>4
    <3>4. Linked3(k, 0, up, 0)
      BY <2>1, <3>1, <3>2, <3>3 DEF Linked3, Change
    <3> QED
      BY <3>4, CountedKept
  <2>5. CASE k # i /\ k # d
    <3>1. Named(k)' \subseteq Named(k) /\ Children(k)' \subseteq Children(k)
      BY <1>27, <1>28, <2>5
    <3>2. Linked3(k, 0, 0, 0)
      BY <1>14, <2>1, <2>2, <2>5, <3>1 DEF Linked3, Change
    <3> QED
      BY <3>2, CountedKept
  <2> QED
    BY <2>3, <2>4, <2>5
<1>30. TreeRight'
  <2>1. TreeRight
    BY DEF NamesInv
  <2>2. ASSUME NEW a \in Inums, NEW m \in Elems
        PROVE  dinode'[a].ents[m] # a /\ dinode'[a].ents[m] # Root
    BY <1>5, <1>25, <1>26, <2>1 DEF TreeRight
  <2>3. ASSUME NEW a \in Inums, NEW j \in Inums, NEW m \in Elems,
               dinode'[j].type = "dir" /\ dinode'[a].ents[m] = j
        PROVE  /\ dinode'[j].ents[".."] = a
               /\ \A l \in Elems : dinode'[a].ents[l] = j => l = m
    <3>1. dinode[j].type = "dir"
      BY <1>25, <2>3
    <3>2. CASE j = i
      <4>1. ASSUME NEW l \in Elems, dinode'[a].ents[l] = i PROVE a = d /\ l = n
        <5>1. dinode[a].ents[l] # i
          BY <1>3, <1>26, NamedIs
        <5> QED
          BY <1>25, <4>1, <5>1
      <4> QED
        BY <1>7, <1>25, <2>3, <3>1, <3>2, <4>1
    <3>3. CASE j # i
      <4>1. \A l \in Elems : dinode'[a].ents[l] = j => dinode[a].ents[l] = j
        BY <1>25, <3>3
      <4>2. dinode'[j].ents[".."] = dinode[j].ents[".."]
        BY <1>25, <3>3
      <4> QED
        BY <2>1, <2>3, <3>1, <4>1, <4>2 DEF TreeRight
    <3> QED
      BY <3>2, <3>3
  <2> QED
    BY <2>2, <2>3 DEF TreeRight
<1> QED
  BY ONLY NamesInv, p \in Users, <1>20, <1>22, <1>23, <1>24, <1>29, <1>30, Combine

\* sys_unlink erases the entry; the link is pending until it is taken back.  A
\* directory had no other name, so it is no subdirectory any more.
LEMMA EraseKeeps ==
    ASSUME NamesInv, NEW p \in Users, Erase(p), ~Refuses(call[p].ip), fsPanic' = fsPanic
    PROVE  NamesInv'
<1>1. PICK c, d, i, n, up, f, e, h :
         /\ c = call[p] /\ d = c.w /\ i = c.ip /\ n = Head(c.rest)
         /\ up = (IF Loaded(i).type = "dir" THEN 1 ELSE 0)
         /\ f = Entered(d, n, 0, inode[d].nlink - up)
         /\ e = Unlocked(d, inode[d].nlink - up)
         /\ h = [Loaded(i) EXCEPT !.lock = p]
  OBVIOUS
<1>2. c.pc = "erase" /\ c.pc \in WithW /\ c.pc \in WithIp /\ c.pc \in WithElem /\ fsPanic = "no"
  BY <1>1 DEF Erase, Locking, At, WithW, WithIp, WithElem
<1>3. /\ d \in Inums /\ c \in CallType /\ i \in Inums /\ c.put = 0 /\ c.pc \notin InPut
      /\ inode[i].lock = NoUser /\ NamesTypes /\ cwd[p] # 0 /\ Keeps(p, d) /\ Keeps(p, i) /\ UserRight(p)
      /\ Resume(c) = "erase" /\ dinode[d].type # "free" /\ dinode[i].type # "free" /\ CacheRight
  BY <1>1, <1>2, AtW, AtIp DEF Erase, Locking, CanLock, NamesInv
<1>4. n \in Elems /\ n # ".." /\ n \in DirElems
  BY <1>1, <1>2, <1>3, FrameAt, Numbers DEF Elem
<1>5. /\ dinode[d].type = "dir" /\ dinode[d].ents[n] = i /\ inode[d].lock = p /\ inode[d].valid
  BY <1>1, <1>3 DEF UserRight, DirRight, EraseRight, LocksRight, Holds
<1>6. i # d /\ i # Root
  BY <1>3, <1>4, <1>5 DEF NamesInv, TreeRight
<1>7. /\ cwd' = cwd /\ ofile' = ofile /\ dinode' = [dinode EXCEPT ![d] = f]
      /\ inode' = [inode EXCEPT ![i] = h, ![d] = e] /\ PutThen(p, [c EXCEPT !.w = 0], d, "unlinked")
  BY <1>1, <1>2 DEF Erase, Elem, FsPanic
<1>8. /\ Loaded(i) \in InodeType /\ Loaded(i).ref = inode[i].ref /\ Loaded(i).valid
      /\ Loaded(i).type = dinode[i].type /\ Loaded(i).nlink = dinode[i].nlink
  BY <1>3, LoadedEntry
<1>9. up \in {0, 1} /\ (up = 1 <=> dinode[i].type = "dir")
      /\ inode[d].nlink = dinode[d].nlink /\ dinode[d].nlink \in Int
  BY <1>1, <1>3, <1>5, <1>8 DEF CacheRight, NamesTypes, DinodeType
<1>10. /\ f \in DinodeType /\ f.type = "dir" /\ f.nlink = dinode[d].nlink - up /\ f.ents[n] = 0
       /\ \A m \in DirElems : m # n => f.ents[m] = dinode[d].ents[m]
  <2>1. PICK t \in [DirElems -> Inode0] : t = dinode[d].ents
    BY <1>3 DEF NamesTypes, DinodeType
  <2>2. PICK s : s = [t EXCEPT ![n] = 0]
    OBVIOUS
  <2>3. s \in [DirElems -> Inode0] /\ s[n] = 0 /\ \A m \in DirElems : m # n => s[m] = t[m]
    BY <1>4, <2>2 DEF Inode0
  <2>4. PICK b \in DinodeType : b = dinode[d]
    BY <1>3 DEF NamesTypes
  <2>5. PICK l \in Int : l = inode[d].nlink - up
    BY <1>9
  <2>6. f = [b EXCEPT !.nlink = l, !.ents = s]
    BY <1>1, <2>1, <2>2, <2>4, <2>5 DEF Entered
  <2>7. f \in DinodeType /\ f.type = b.type /\ f.nlink = l /\ f.ents = s
    BY <2>3, <2>6 DEF DinodeType
  <2> QED
    BY <1>5, <1>9, <2>1, <2>3, <2>4, <2>5, <2>7
<1>11. /\ e \in InodeType /\ e.ref = inode[d].ref /\ e.valid /\ e.type = "dir" /\ e.nlink = f.nlink
       /\ e.lock = NoUser
  <2>1. PICK b \in InodeType : b = inode[d]
    BY <1>3 DEF NamesTypes
  <2>2. PICK l \in Int : l = inode[d].nlink - up
    BY <1>9
  <2>3. e = [b EXCEPT !.nlink = l, !.lock = NoUser]
    BY <1>1, <2>1, <2>2 DEF Unlocked
  <2>4. e \in InodeType /\ e.ref = b.ref /\ e.valid = b.valid /\ e.type = b.type /\ e.nlink = l /\ e.lock = NoUser
    BY <2>3 DEF InodeType
  <2> QED
    BY <1>3, <1>5, <1>9, <1>10, <2>1, <2>2, <2>4 DEF CacheRight
<1>12. /\ h \in InodeType /\ h.ref = inode[i].ref /\ h.valid /\ h.type = dinode[i].type
       /\ h.nlink = dinode[i].nlink /\ h.lock = p
  <2>1. PICK l \in InodeType : l = Loaded(i)
    BY <1>8
  <2>2. h = [l EXCEPT !.lock = p]
    BY <1>1, <2>1
  <2>3. h \in InodeType /\ h.ref = l.ref /\ h.valid = l.valid /\ h.type = l.type /\ h.nlink = l.nlink /\ h.lock = p
    BY <2>2 DEF InodeType
  <2> QED
    BY <1>8, <2>1, <2>3
<1>13. /\ dinode' \in [Inums -> DinodeType] /\ dinode'[d] = f
       /\ \A k \in Inums : k # d => dinode'[k] = dinode[k]
  BY <1>3, <1>7, <1>10 DEF NamesTypes
<1>14. /\ inode' \in [Inums -> InodeType] /\ inode'[d] = e /\ inode'[i] = h
       /\ \A k \in Inums : k # d /\ k # i => inode'[k] = inode[k]
  BY <1>3, <1>6, <1>7, <1>11, <1>12 DEF NamesTypes
<1>15. PICK x : Leads(p, x) /\ x.pc = "put" /\ x.put = d /\ x.w = 0 /\ x.ip = i /\ Resume(x) = "unlinked"
  <2>1. "unlinked" \in Callers
    BY DEF Callers, WithIp
  <2>2. PICK b : b = [c EXCEPT !.w = 0]
    OBVIOUS
  <2>3. b \in CallType /\ b.w = 0 /\ b.ip = i
    BY <1>1, <1>3, <2>2 DEF CallType, Inode0
  <2>4. PutThen(p, b, d, "unlinked")
    BY <1>7, <2>2
  <2> QED
    BY <1>3, <2>1, <2>3, <2>4, PutGoes
<1>16. call'[p] = x /\ cwd'[p] = cwd[p] /\ ofile'[p] = ofile[p]
  BY <1>7, <1>15 DEF Leads
<1>17. FrameRight(x) /\ ~Linking(x) /\ \A k \in Inums : Holds(x, k) => k = i
  BY <1>3, <1>15, Numbers DEF FrameRight, WithW, WithIp, Looking, InPut, WithElem, Linking, Holds
<1>18. Gains(p, 0)
  BY <1>1, <1>2, <1>3, <1>15, <1>16, Numbers DEF Gains, Count, One, Pointers, Points, Keeps
<1>19. NamesTypes'
  BY <1>3, <1>7, <1>13, <1>14, <1>15 DEF NamesTypes, Leads
<1>20. ASSUME NEW k \in Inums PROVE MovesEntry(p, k)
  <2>1. /\ inode[k].ref \in Int /\ Count(Pointers(p), k) \in Nat
        /\ Count(Pointers(p)', k) = Count(Pointers(p), k)
        /\ (Points(p, k)' => Points(p, k)) /\ (Keeps(p, k)' => Keeps(p, k))
    BY <1>3, <1>18, CountPoints, Numbers DEF NamesTypes, InodeType, Gains, One
  <2>2. CASE k = d
    BY <1>3, <1>5, <1>10, <1>11, <1>13, <1>14, <2>1, <2>2 DEF MovesEntry
  <2>3. CASE k = i
    BY <1>3, <1>6, <1>12, <1>13, <1>14, <2>1, <2>3 DEF MovesEntry
  <2>4. CASE k # d /\ k # i
    BY <1>13, <1>14, <2>1, <2>4 DEF MovesEntry
  <2> QED
    BY <2>2, <2>3, <2>4
<1>21. Moves(p)
  BY <1>7, <1>15, <1>20 DEF Moves, Leads
<1>22. CacheRight'
  <2> SUFFICES ASSUME NEW k \in Inums
               PROVE  /\ inode'[k].valid => inode'[k].type = dinode'[k].type /\ inode'[k].nlink = dinode'[k].nlink
                      /\ dinode'[k].type = "free" => ~inode'[k].valid /\ dinode'[k].nlink = 0
                      /\ dinode'[k].type # "dir" => dinode'[k].ents = NoEnts
    BY DEF CacheRight
  <2>1. CASE k = d
    BY <1>10, <1>11, <1>13, <1>14, <2>1
  <2>2. CASE k = i
    BY <1>3, <1>6, <1>12, <1>13, <1>14, <2>2 DEF CacheRight
  <2>3. CASE k # d /\ k # i
    BY <1>3, <1>13, <1>14, <2>3 DEF CacheRight
  <2> QED
    BY <2>1, <2>2, <2>3
<1>23. UserRight(p)'
  <2>1. KeepsRight(p)'
    BY <1>3, <1>10, <1>13, <1>18, Numbers DEF UserRight, KeepsRight, Gains
  <2>2. LocksRight(p)' /\ FrameRight(call[p])' /\ CwdRight(p)'
    BY <1>3, <1>12, <1>14, <1>15, <1>16, <1>17 DEF LocksRight, CwdRight
  <2>3. FreeRight(p)' /\ DirRight(p)' /\ FileRight(p)' /\ EraseRight(p)' /\ NewRight(p)'
    BY <1>15, <1>16, <1>17, Relaxed
  <2> QED
    BY <2>1, <2>2, <2>3 DEF UserRight
<1>24. /\ dinode'[d].ents[n] = 0 /\ \A a \in Inums : dinode'[a].type = dinode[a].type
       /\ \A a \in Inums, m \in DirElems : a # d \/ m # n => dinode'[a].ents[m] = dinode[a].ents[m]
       /\ \A a \in Inums : dinode'[a].ents[".."] = dinode[a].ents[".."]
  BY <1>4, <1>5, <1>10, <1>13, Numbers
<1>25. ASSUME NEW k \in Inums, NEW t \in Named(k)' PROVE t \in Named(k) /\ t # <<d, n>>
  <2>1. PICK a \in Inums, m \in Elems : t = <<a, m>> /\ dinode'[a].ents[m] = k
    BY <1>25 DEF Named
  <2>2. a # d \/ m # n
    BY <1>24, <2>1, Numbers
  <2>3. dinode[a].ents[m] = k
    BY <1>24, <2>1, <2>2, Numbers
  <2>4. t \in Named(k)
    BY <2>1, <2>3, NamedIs
  <2> QED
    BY <2>1, <2>2, <2>4
<1>26. <<d, n>> \in Named(i)
  BY <1>3, <1>4, <1>5, NamedIs
<1>27. ASSUME NEW k \in Inums, NEW j \in Children(k)' PROVE j \in Children(k) /\ Named(j)' # {}
  <2>1. j \in Inums /\ j # Root /\ dinode'[j].ents[".."] = k /\ Named(j)' # {}
    BY <1>27 DEF Children
  <2>2. Named(j) # {}
    BY <1>25, <2>1
  <2> QED
    BY <1>24, <2>1, <2>2 DEF Children
<1>28. ASSUME dinode[i].type = "dir" PROVE i \in Children(d) /\ Named(i)' = {}
  <2>1. ASSUME NEW a \in Inums, NEW m \in Elems, dinode[a].ents[m] = i PROVE a = d /\ m = n
    <3>1. dinode[i].ents[".."] = d /\ dinode[i].ents[".."] = a
      BY <1>3, <1>4, <1>5, <1>28, <2>1 DEF NamesInv, TreeRight
    <3> QED
      BY <1>3, <1>4, <1>5, <1>28, <2>1, <3>1 DEF NamesInv, TreeRight
  <2>2. dinode[i].ents[".."] = d
    BY <1>3, <1>4, <1>5, <1>28 DEF NamesInv, TreeRight
  <2>3. ASSUME NEW t \in Named(i)' PROVE FALSE
    <3>1. t \in Named(i) /\ t # <<d, n>>
      BY <1>3, <1>25, <2>3
    <3>2. PICK a \in Inums, m \in Elems : t = <<a, m>> /\ dinode[a].ents[m] = i
      BY <3>1 DEF Named
    <3> QED
      BY <2>1, <3>1, <3>2
  <2> QED
    BY <1>3, <1>6, <1>26, <2>2, <2>3 DEF Children
<1>29. ASSUME NEW k \in Inums PROVE Counted(k)'
  <2>1. dinode[k].nlink \in Int
    BY <1>3 DEF NamesTypes, DinodeType
  <2>2. Named(k)' \subseteq Named(k) /\ Children(k)' \subseteq Children(k)
    BY <1>25, <1>27
  <2>3. Pending(k)' \subseteq Pending(k) \cup {p} /\ (k # i => Pending(k)' \subseteq Pending(k))
    BY <1>15, PendingStep
  <2>4. CASE k = i
    <3>1. Shrinks(Named(k)', Named(k))
      <4>1. Named(k)' \subseteq Named(k) \ {<<d, n>>}
        BY <1>25
      <4> QED
        BY <1>26, <2>4, <4>1 DEF Shrinks
    <3>2. dinode'[k].nlink = dinode[k].nlink + (-1) + 0 + 1
      BY <1>3, <1>6, <1>13, <2>1, <2>4
    <3>3. Linked3(k, -1, 0, 1)
      BY <2>2, <2>3, <3>1, <3>2 DEF Linked3, Change, Grows
    <3> QED
      BY <3>3, CountedKept
  <2>5. CASE k = d
    <3>1. PICK l : l = 0 - up
      OBVIOUS
    <3>2. Change(Children(k)', Children(k), l)
      <4>1. CASE dinode[i].type = "dir"
        <5>1. Children(k)' \subseteq Children(k) \ {i}
          BY <1>27, <1>28, <4>1
        <5>2. Shrinks(Children(k)', Children(k))
          BY <1>28, <2>5, <4>1, <5>1 DEF Shrinks
        <5> QED
          BY <1>9, <3>1, <4>1, <5>2 DEF Change
      <4>2. CASE dinode[i].type # "dir"
        BY <1>9, <2>2, <3>1, <4>2 DEF Change
      <4> QED
        BY <4>1, <4>2
    <3>3. dinode'[k].nlink = dinode[k].nlink + 0 + l + 0
      BY <1>9, <1>10, <1>13, <2>1, <2>5, <3>1
    <3>4. Linked3(k, 0, l, 0)
      BY <1>6, <2>2, <2>3, <2>5, <3>2, <3>3 DEF Linked3, Change
    <3> QED
      BY <3>4, CountedKept
  <2>6. CASE k # i /\ k # d
    <3>1. Linked3(k, 0, 0, 0)
      BY <1>13, <2>1, <2>2, <2>3, <2>6 DEF Linked3, Change
    <3> QED
      BY <3>1, CountedKept
  <2> QED
    BY <2>4, <2>5, <2>6
<1>30. TreeRight'
  <2>1. TreeRight
    BY DEF NamesInv
  <2>2. ASSUME NEW a \in Inums, NEW m \in Elems
        PROVE  dinode'[a].ents[m] # a /\ dinode'[a].ents[m] # Root
    BY <1>24, <2>1, Numbers DEF TreeRight
  <2>3. ASSUME NEW a \in Inums, NEW j \in Inums, NEW m \in Elems,
               dinode'[j].type = "dir" /\ dinode'[a].ents[m] = j
        PROVE  /\ dinode'[j].ents[".."] = a
               /\ \A l \in Elems : dinode'[a].ents[l] = j => l = m
    <3>1. \A l \in Elems : dinode'[a].ents[l] = j => dinode[a].ents[l] = j
      BY <1>24, Numbers
    <3>2. dinode'[j].ents[".."] = dinode[j].ents[".."] /\ dinode[j].type = "dir"
      BY <1>24, <2>3
    <3> QED
      BY <2>1, <2>3, <3>1, <3>2 DEF TreeRight
  <2> QED
    BY <2>2, <2>3 DEF TreeRight
<1> QED
  BY ONLY NamesInv, p \in Users, <1>19, <1>21, <1>22, <1>23, <1>29, <1>30, Combine

-----------------------------------------------------------------------------
\* The panics of these calls: ilock and sys_unlink never come to theirs, ialloc
\* may find the disk full.
PanicRight == fsPanic \in {"no", "ialloc: no inodes"}

\* A call that panics leaves everything else alone, and only ialloc panics.
LEMMA PanicStep ==
    ASSUME NamesInv, NEW p \in Users,
           (\E r \in Requests : Begin(p, r)) \/ Close(p) \/ InCall(p), fsPanic' # fsPanic
    PROVE  fsPanic' = "ialloc: no inodes" /\ UNCHANGED <<dinode, inode, cwd, ofile, call>>
<1>1. ASSUME call[p].pc \in WithW PROVE ~Typeless(call[p].w)
  BY <1>1, AtW
<1>2. ASSUME call[p].pc \in WithIp PROVE ~Typeless(call[p].ip)
  BY <1>2, AtIp
<1>3. (\A r \in Requests : ~Begin(p, r)) /\ ~Close(p)
  BY DEF Begin, Close
<1>4. ~Iput(p) /\ ~Ifree(p) /\ ~Idrop(p) /\ ~Made(p) /\ ~Unlink(p) /\ ~Refused(p)
  BY DEF Iput, Ifree, Idrop, Made, Unlink, Refused
<1>5. ~Unlinked(p) /\ ~Dirlink(p) /\ ~Exists(p) /\ ~Linked(p) /\ ~LinkBad(p) /\ ~NewCwd(p)
  BY DEF Unlinked, Dirlink, Exists, Linked, LinkBad, NewCwd
<1>6. ~Walk(p)
  <2> SUFFICES ASSUME Walk(p) PROVE FALSE
    OBVIOUS
  <2>1. ~Typeless(call[p].w)
    BY <1>1 DEF Walk, Locking, At, WithW, Looking
  <2> QED
    BY <2>1 DEF Walk
<1>7. ~Open(p)
  <2> SUFFICES ASSUME Open(p) PROVE FALSE
    OBVIOUS
  <2>1. ~Typeless(call[p].w)
    BY <1>1 DEF Open, Locking, At, WithW, Looking
  <2> QED
    BY <2>1 DEF Open
<1>8. ~Link(p)
  <2> SUFFICES ASSUME Link(p) PROVE FALSE
    OBVIOUS
  <2>1. ~Typeless(call[p].w)
    BY <1>1 DEF Link, Locking, At, WithW, Looking
  <2> QED
    BY <2>1 DEF Link
<1>9. ~Chdir(p)
  <2> SUFFICES ASSUME Chdir(p) PROVE FALSE
    OBVIOUS
  <2>1. ~Typeless(call[p].w)
    BY <1>1 DEF Chdir, Locking, At, WithW, Looking
  <2> QED
    BY <2>1 DEF Chdir
<1>10. ~Existing(p)
  <2> SUFFICES ASSUME Existing(p) PROVE FALSE
    OBVIOUS
  <2>1. ~Typeless(call[p].ip)
    BY <1>2 DEF Existing, Locking, At, WithIp
  <2> QED
    BY <2>1 DEF Existing
<1>11. ~Erase(p)
  <2> SUFFICES ASSUME Erase(p) PROVE FALSE
    OBVIOUS
  <2>1. call[p].pc = "erase" /\ call[p].pc \in WithW /\ call[p].pc \in WithIp /\ call[p].pc \in WithElem
    BY DEF Erase, Locking, At, WithW, WithIp, WithElem
  <2>2. PICK c, d, i, n : c = call[p] /\ d = c.w /\ i = c.ip /\ n = Head(c.rest)
    OBVIOUS
  <2>3. /\ d \in Inums /\ i \in Inums /\ ~Typeless(i) /\ UserRight(p) /\ Resume(c) = "erase"
        /\ dinode[i].type # "free" /\ c.pc \notin InPut
    BY <2>1, <2>2, AtW, AtIp
  <2>4. n \in Elems
    BY <2>1, <2>2, <2>3, FrameAt DEF Elem
  <2>5. dinode[d].ents[n] = i
    BY <2>2, <2>3 DEF UserRight, EraseRight
  <2>6. dinode[i].nlink >= 1
    BY <2>3, <2>4, <2>5, NamedLinked, Numbers
  <2>7. Loaded(i).nlink = dinode[i].nlink /\ dinode[i].nlink \in Int
    BY <2>3, LoadedEntry DEF NamesInv, NamesTypes, DinodeType
  <2>8. ~(Loaded(i).nlink < 1)
    BY <2>6, <2>7
  <2> QED
    BY <2>2, <2>3, <2>8 DEF Erase
<1>12. ~EnterNew(p)
  <2> SUFFICES ASSUME EnterNew(p) PROVE FALSE
    OBVIOUS
  <2>1. ~Typeless(call[p].ip)
    BY <1>2 DEF EnterNew, Locking, At, WithIp
  <2> QED
    BY <2>1 DEF EnterNew
<1>13. Create(p)
  BY <1>3, <1>4, <1>5, <1>6, <1>7, <1>8, <1>9, <1>10, <1>11, <1>12 DEF InCall
<1> QED
  BY <1>13 DEF Create, FsPanic

\* Every step of every call keeps the invariant.
LEMMA StepKeeps ==
    ASSUME NamesInv, DotsRight, NEW p \in Users, ~Strays(p),
           (\E r \in Requests : Begin(p, r)) \/ Close(p) \/ InCall(p)
    PROVE  NamesInv'
<1>1. CASE fsPanic' # fsPanic
  BY <1>1, PanicStep, Stutters
<1>2. CASE fsPanic' = fsPanic
  <2>1. CASE \E r \in Requests : Begin(p, r)
    BY <2>1, BeginKeeps
  <2>2. CASE Close(p)
    BY <2>2, CloseKeeps
  <2>3. CASE Walk(p)
    BY <1>2, <2>3, WalkKeeps
  <2>4. CASE Iput(p)
    BY <2>4, IputKeeps
  <2>5. CASE Ifree(p)
    BY <2>5, IfreeKeeps
  <2>6. CASE Idrop(p)
    BY <2>6, IdropKeeps
  <2>7. CASE Open(p)
    BY <2>7, OpenKeeps
  <2>8. CASE Create(p)
    BY <1>2, <2>8, CreateThereKeeps, CreateNewKeeps
  <2>9. CASE Existing(p)
    BY <2>9, ExistingKeeps
  <2>10. CASE EnterNew(p)
    BY <1>2, <2>10, EnterNewKeeps
  <2>11. CASE Made(p)
    BY <2>11, MadeKeeps
  <2>12. CASE Unlink(p)
    BY <2>12, UnlinkKeeps
  <2>13. CASE Erase(p)
    BY <1>2, <2>13, EraseKeeps, EraseRefusedKeeps
  <2>14. CASE Refused(p)
    BY <2>14, RefusedKeeps
  <2>15. CASE Unlinked(p)
    BY <2>15, UnlinkedKeeps
  <2>16. CASE Link(p)
    BY <2>16, LinkDirKeeps, LinkCountsKeeps
  <2>17. CASE Dirlink(p)
    BY <2>17, DirlinkThereKeeps, DirlinkKeeps
  <2>18. CASE Exists(p)
    BY <2>18, ExistsKeeps
  <2>19. CASE Linked(p)
    BY <2>19, LinkedKeeps
  <2>20. CASE LinkBad(p)
    BY <2>20, LinkBadKeeps
  <2>21. CASE Chdir(p)
    BY <2>21, ChdirKeeps
  <2>22. CASE NewCwd(p)
    BY <2>22, NewCwdKeeps
  <2> QED
    BY <2>1, <2>2, <2>3, <2>4, <2>5, <2>6, <2>7, <2>8, <2>9, <2>10, <2>11, <2>12, <2>13, <2>14,
       <2>15, <2>16, <2>17, <2>18, <2>19, <2>20, <2>21, <2>22 DEF InCall
<1> QED
  BY <1>1, <1>2

\* "." and ".." stay where they are: no step writes an entry of that name, but
\* create into the directory it makes.
SameDots(i) ==
    /\ dinode'[i].type = dinode[i].type
    /\ dinode'[i].ents["."] = dinode[i].ents["."] /\ dinode'[i].ents[".."] = dinode[i].ents[".."]

LEMMA DotsSame ==
    ASSUME DotsRight, NEW p \in Users, call[p].pc # "new",
           \A q \in Users \ {p} : call'[q] = call[q],
           \A i \in Inums : SameDots(i)
    PROVE  DotsRight'
<1>1. ASSUME NEW i \in Inums, dinode'[i].type = "dir" PROVE Dotted(i)' \/ Fresh(i)'
  <2>1. Dotted(i) \/ Fresh(i)
    BY <1>1 DEF DotsRight, SameDots
  <2>2. Dotted(i) => Dotted(i)'
    BY <1>1 DEF Dotted, SameDots
  <2>3. Fresh(i) => Fresh(i)'
    BY DEF Fresh
  <2> QED
    BY <2>1, <2>2, <2>3
<1>2. dinode'[Root].ents[".."] = Root
  BY Numbers DEF DotsRight, SameDots
<1> QED
  BY <1>1, <1>2 DEF DotsRight

\* What a step does to the locals of the others: nothing.
LEMMA OthersStay ==
    ASSUME NamesTypes, NEW p \in Users, (\E r \in Requests : Begin(p, r)) \/ Close(p) \/ InCall(p)
    PROVE  \A q \in Users \ {p} : call'[q] = call[q]
<1>1. ASSUME NEW c, Go(p, c) PROVE \A q \in Users \ {p} : call'[q] = call[q]
  BY <1>1 DEF Go, NamesTypes
<1>2. ASSUME UNCHANGED call PROVE \A q \in Users \ {p} : call'[q] = call[q]
  BY <1>2
<1>3. CASE UNCHANGED call
  BY <1>2, <1>3
<1>4. CASE \E c : Go(p, c)
  BY <1>1, <1>4
<1>5. (\E c : Go(p, c)) \/ UNCHANGED call
  <2>1. CASE (\E r \in Requests : Begin(p, r)) \/ Close(p) \/ Walk(p) \/ Iput(p) \/ Ifree(p) \/ Idrop(p)
    BY <2>1 DEF Begin, NamexFrom, Close, Walk, Iput, Ifree, Idrop, PutThen, GoTo, Return, FsPanic
  <2>2. CASE Open(p) \/ Create(p) \/ Existing(p) \/ EnterNew(p) \/ Made(p) \/ Unlink(p) \/ Erase(p)
    BY <2>2 DEF Open, Create, Existing, EnterNew, Made, Unlink, Erase, TakeFile, PutThen, Return, FsPanic
  <2>3. CASE \/ Refused(p) \/ Unlinked(p) \/ Link(p) \/ Dirlink(p) \/ Exists(p) \/ Linked(p) \/ LinkBad(p)
             \/ Chdir(p) \/ NewCwd(p)
    BY <2>3 DEF Refused, Unlinked, Link, NamexFrom, Dirlink, Exists, Linked, LinkBad, Chdir, NewCwd,
                PutThen, Return, FsPanic
  <2> QED
    BY <2>1, <2>2, <2>3 DEF InCall
<1> QED
  BY <1>3, <1>4, <1>5

LEMMA EnteredDots ==
    ASSUME NamesTypes, NEW d \in Inums, NEW n \in Elems, NEW i, NEW l, NEW f, f = Entered(d, n, i, l)
    PROVE  /\ f.type = dinode[d].type
           /\ f.ents["."] = dinode[d].ents["."] /\ f.ents[".."] = dinode[d].ents[".."]
<1>1. PICK b, t, u : b = dinode[d] /\ t = b.ents /\ u = [t EXCEPT ![n] = i]
  OBVIOUS
<1>2. b \in DinodeType /\ t \in [DirElems -> Inode0]
  BY <1>1 DEF NamesTypes, DinodeType
<1>3. u["."] = t["."] /\ u[".."] = t[".."]
  BY <1>1, <1>2, Numbers
<1>4. f = [b EXCEPT !.nlink = l, !.ents = u]
  BY <1>1 DEF Entered
<1>5. f.type = b.type /\ f.ents = u
  BY <1>2, <1>4 DEF DinodeType
<1> QED
  BY <1>1, <1>3, <1>5

\* Only the link count of i changes, or only an entry of d.
LEMMA CountDots ==
    ASSUME NamesTypes, NEW i \in Inums, NEW l, dinode' = [dinode EXCEPT ![i].nlink = l]
    PROVE  \A k \in Inums : SameDots(k)
<1>1. PICK b, f : b = dinode[i] /\ f = [b EXCEPT !.nlink = l]
  OBVIOUS
<1>2. b \in DinodeType
  BY <1>1 DEF NamesTypes
<1>3. f.type = b.type /\ f.ents = b.ents
  BY <1>1, <1>2 DEF DinodeType
<1>4. dinode'[i] = f /\ \A k \in Inums : k # i => dinode'[k] = dinode[k]
  BY <1>1 DEF NamesTypes
<1> QED
  BY <1>1, <1>3, <1>4 DEF SameDots

LEMMA EntryDots ==
    ASSUME NamesTypes, NEW d \in Inums, NEW n \in Elems, NEW i, NEW l,
           dinode' = [dinode EXCEPT ![d] = Entered(d, n, i, l)]
    PROVE  \A k \in Inums : SameDots(k)
<1>1. PICK f : f = Entered(d, n, i, l)
  OBVIOUS
<1>2. dinode'[d] = f /\ \A k \in Inums : k # d => dinode'[k] = dinode[k]
  BY <1>1 DEF NamesTypes
<1>3. /\ f.type = dinode[d].type
      /\ f.ents["."] = dinode[d].ents["."] /\ f.ents[".."] = dinode[d].ents[".."]
  BY <1>1, EnteredDots
<1> QED
  BY <1>2, <1>3 DEF SameDots

LEMMA DotsKept ==
    ASSUME NamesInv, DotsRight, NEW p \in Users,
           (\E r \in Requests : Begin(p, r)) \/ Close(p) \/ InCall(p)
    PROVE  DotsRight'
<1>1. NamesTypes /\ \A q \in Users \ {p} : call'[q] = call[q]
  BY OthersStay DEF NamesInv
<1>2. CASE dinode' = dinode /\ call[p].pc # "new"
  BY <1>1, <1>2, DotsSame DEF SameDots
<1>3. ASSUME call[p].pc # "new", \A i \in Inums : SameDots(i) PROVE DotsRight'
  BY <1>1, <1>3, DotsSame
<1>4. CASE (\E r \in Requests : Begin(p, r)) \/ Close(p) \/ Walk(p) \/ Iput(p) \/ Idrop(p) \/ Open(p)
           \/ Existing(p) \/ Made(p) \/ Unlink(p)
  <2>1. dinode' = dinode /\ call[p].pc # "new"
    BY <1>4 DEF Begin, Close, Walk, Iput, Idrop, Open, Existing, Made, Unlink, Locking, At, FsPanic
  <2> QED
    BY <1>2, <2>1
<1>5. CASE Refused(p) \/ Exists(p) \/ Linked(p) \/ Chdir(p) \/ NewCwd(p)
  <2>1. dinode' = dinode /\ call[p].pc # "new"
    BY <1>5 DEF Refused, Exists, Linked, Chdir, NewCwd, Locking, At, FsPanic
  <2> QED
    BY <1>2, <2>1
<1>6. CASE Unlinked(p) \/ LinkBad(p)
  <2>1. PICK i, l : i = call[p].ip /\ dinode' = [dinode EXCEPT ![i].nlink = l] /\ call[p].pc \in {"unlinked", "linkbad"}
    BY <1>6 DEF Unlinked, LinkBad, LinksTo, Locking, At
  <2>2. i \in Inums
    BY <2>1, AtIp DEF WithIp
  <2> QED
    BY <1>1, <1>3, <2>1, <2>2, CountDots
<1>7. CASE Link(p)
  <2>1. PICK i : i = call[p].w
    OBVIOUS
  <2>2. call[p].pc = "link"
    BY <1>7 DEF Link, Locking, At
  <2>3. i \in Inums /\ call[p].pc # "new"
    BY <2>1, <2>2, AtW DEF WithW, Looking
  <2>4. dinode' = dinode \/ \E l : dinode' = [dinode EXCEPT ![i].nlink = l]
    BY <1>7, <2>1 DEF Link, FsPanic
  <2> QED
    BY <1>1, <1>2, <1>3, <2>3, <2>4, CountDots
<1>8. CASE Dirlink(p)
  <2>1. PICK c, d, n : c = call[p] /\ d = c.w /\ n = Elem(p)
    OBVIOUS
  <2>2. c.pc = "dirlink"
    BY <1>8, <2>1 DEF Dirlink, Locking, At
  <2>3. d \in Inums /\ call[p].pc # "new"
    BY <2>1, <2>2, AtW DEF WithW, Looking
  <2>4. dinode' = dinode \/ (/\ dirlookup(d, n) = 0
                            /\ dinode' = [dinode EXCEPT ![d] = Entered(d, n, c.ip, dinode[d].nlink)])
    BY <1>8, <2>1 DEF Dirlink
  <2>5. dirlookup(d, n) = 0 => n \in Elems
    BY <2>1, <2>2, NotFound
  <2> QED
    BY <1>1, <1>2, <1>3, <2>3, <2>4, <2>5, EntryDots
<1>9. CASE Erase(p)
  <2>1. PICK c, d, n : c = call[p] /\ d = c.w /\ n = Elem(p)
    OBVIOUS
  <2>2. c.pc = "erase" /\ c.pc \notin InPut
    BY <1>9, <2>1 DEF Erase, Locking, At, InPut
  <2>3. d \in Inums /\ call[p].pc # "new" /\ n \in Elems
    BY <2>1, <2>2, FrameAt DEF WithW, Looking
  <2>4. dinode' = dinode \/ \E l : dinode' = [dinode EXCEPT ![d] = Entered(d, n, 0, l)]
    BY <1>9, <2>1 DEF Erase, FsPanic
  <2> QED
    BY <1>1, <1>2, <1>3, <2>3, <2>4, EntryDots
<1>10. CASE Ifree(p)
  <2>1. PICK c, i, b, f : c = call[p] /\ i = c.put /\ b = dinode[i] /\ f = [b EXCEPT !.type = "free", !.ents = NoEnts]
    OBVIOUS
  <2>2. c.pc = "free" /\ UserRight(p) /\ c \in CallType /\ FrameRight(c)
    BY <1>10, <2>1 DEF Ifree, At, NamesInv, NamesTypes, UserRight
  <2>3. i \in Inums
    BY <2>1, <2>2 DEF FrameRight, InPut, CallType, Inode0
  <2>4. i # Root
    BY <2>1, <2>2, NamedLinked DEF UserRight, FreeRight
  <2>5. b \in DinodeType
    BY <2>1, <2>3 DEF NamesInv, NamesTypes
  <2>6. f.type = "free"
    BY <2>1, <2>5 DEF DinodeType
  <2>7. dinode'[i] = f /\ \A k \in Inums : k # i => dinode'[k] = dinode[k]
    BY <1>1, <1>10, <2>1, <2>3 DEF Ifree, NamesTypes
  <2>8. ASSUME NEW k \in Inums, dinode'[k].type = "dir" PROVE Dotted(k)' \/ Fresh(k)'
    <3>1. k # i /\ dinode'[k] = dinode[k]
      BY <2>6, <2>7, <2>8
    <3>2. Dotted(k) \/ Fresh(k)
      BY <2>8, <3>1 DEF DotsRight
    <3>3. Dotted(k) => Dotted(k)'
      BY <3>1 DEF Dotted
    <3>4. Fresh(k) => Fresh(k)'
      BY <1>1, <2>1, <2>2 DEF Fresh
    <3> QED
      BY <3>2, <3>3, <3>4
  <2> QED
    BY <2>4, <2>7, <2>8, Numbers DEF DotsRight
<1>11. CASE Create(p)
  <2>1. PICK c, i, f : /\ c = call[p] /\ i = CHOOSE k \in FreeInums : \A j \in FreeInums : k <= j
                       /\ f = [type |-> TypeOf(c.req.op), nlink |-> 0, ents |-> NoEnts]
    OBVIOUS
  <2>2. c.pc = "create"
    BY <1>11, <2>1 DEF Create, Locking, At
  <2>3. CASE dinode' = dinode
    BY <1>2, <2>1, <2>2, <2>3
  <2>4. CASE /\ FreeInums # {} /\ dinode' = [dinode EXCEPT ![i] = f]
             /\ Go(p, [c EXCEPT !.pc = "new", !.ip = i])
    <3>1. i \in FreeInums
      BY <2>1, <2>4, FirstFree
    <3>2. i \in Inums /\ dinode[i].type = "free" /\ i # Root
      BY <3>1, NamedLinked DEF FreeInums
    <3>3. \A k \in Inums : k # i => dinode'[k] = dinode[k]
      BY <1>1, <2>4, <3>2 DEF NamesTypes
    <3>4. call'[p].pc = "new" /\ call'[p].ip = i
      <4>1. PICK x : x = [c EXCEPT !.pc = "new", !.ip = i]
        OBVIOUS
      <4>2. c \in CallType /\ call'[p] = x
        BY <1>1, <2>1, <2>4, <4>1 DEF NamesTypes, Go
      <4> QED
        BY <4>1, <4>2 DEF CallType
    <3>5. ASSUME NEW k \in Inums, dinode'[k].type = "dir" PROVE Dotted(k)' \/ Fresh(k)'
      <4>1. CASE k = i
        BY <3>4, <4>1 DEF Fresh
      <4>2. CASE k # i
        <5>1. dinode'[k] = dinode[k]
          BY <3>3, <4>2
        <5>2. Dotted(k) \/ Fresh(k)
          BY <3>5, <5>1 DEF DotsRight
        <5>3. Dotted(k) => Dotted(k)'
          BY <5>1 DEF Dotted
        <5>4. Fresh(k) => Fresh(k)'
          BY <1>1, <2>1, <2>2 DEF Fresh
        <5> QED
          BY <5>2, <5>3, <5>4
      <4> QED
        BY <4>1, <4>2
    <3> QED
      BY <3>2, <3>3, <3>5, Numbers DEF DotsRight
  <2> QED
    BY <1>11, <2>1, <2>3, <2>4 DEF Create, FsPanic
<1>12. CASE EnterNew(p)
  <2>1. PICK c, d, i, n, l, dots, f, g :
         /\ c = call[p] /\ d = c.w /\ i = c.ip /\ n = Elem(p)
         /\ l = inode[d].nlink + (IF c.req.op = "mkdir" THEN 1 ELSE 0)
         /\ dots = (IF c.req.op = "mkdir" THEN [dinode[i].ents EXCEPT !["."] = i, ![".."] = d] ELSE dinode[i].ents)
         /\ f = Entered(d, n, i, l)
         /\ g = [dinode[i] EXCEPT !.nlink = 1, !.ents = dots]
    OBVIOUS
  <2>2. c.pc = "new" /\ c.pc \in WithW /\ c.pc \in WithIp /\ c.pc \in WithElem
    BY <1>12, <2>1 DEF EnterNew, Locking, At, WithW, WithIp, WithElem
  <2>3. /\ d \in Inums /\ c \in CallType /\ i \in Inums /\ c.pc \notin InPut /\ UserRight(p)
        /\ Resume(c) = "new" /\ ~Typeless(i)
    BY <2>1, <2>2, AtW, AtIp
  <2>4. n \in Elems
    BY <2>1, <2>2, <2>3, FrameAt
  <2>5. i # d /\ dinode[i].ents = NoEnts /\ dinode[i].type = TypeOf(c.req.op) /\ dinode[d].type = "dir"
    BY SMTT(60), <2>1, <2>3 DEF UserRight, NewRight, DirRight
  <2>6. dinode' = [dinode EXCEPT ![i] = g, ![d] = f]
    BY <1>12, <2>1, <2>3 DEF EnterNew
  <2>7. dinode'[i] = g /\ dinode'[d] = f /\ \A k \in Inums : k # i /\ k # d => dinode'[k] = dinode[k]
    BY <1>1, <2>3, <2>5, <2>6 DEF NamesTypes
  <2>8. /\ f.type = dinode[d].type
        /\ f.ents["."] = dinode[d].ents["."] /\ f.ents[".."] = dinode[d].ents[".."]
    BY <1>1, <2>1, <2>3, <2>4, EnteredDots
  <2>9. g.type = dinode[i].type /\ g.ents = dots
    <3>1. dinode[i] \in DinodeType
      BY <1>1, <2>3 DEF NamesTypes
    <3> QED
      BY <2>1, <3>1 DEF DinodeType
  <2>10. g.type = "dir" => g.ents["."] = i /\ g.ents[".."] = d /\ d # 0
    <3>1. g.type = "dir" => dots = [NoEnts EXCEPT !["."] = i, ![".."] = d]
      BY <2>1, <2>5, <2>9 DEF TypeOf
    <3> QED
      BY <2>3, <2>9, <3>1, Numbers
  <2>11. ASSUME NEW k \in Inums, dinode'[k].type = "dir" PROVE Dotted(k)' \/ Fresh(k)'
    <3>1. CASE k = i
      BY <2>7, <2>10, <2>11, <3>1 DEF Dotted
    <3>2. CASE k # i
      <4>1. SameDots(k)
        BY <2>7, <2>8, <3>2 DEF SameDots
      <4>2. Dotted(k) \/ Fresh(k)
        BY <2>11, <4>1 DEF DotsRight, SameDots
      <4>3. Dotted(k) => Dotted(k)'
        BY <4>1 DEF Dotted, SameDots
      <4>4. Fresh(k) => Fresh(k)'
        BY <1>1, <2>1, <3>2 DEF Fresh
      <4> QED
        BY <4>2, <4>3, <4>4
    <3> QED
      BY <3>1, <3>2
  <2>12. i # Root
    <3>1. dinode[Root].ents[".."] = Root /\ NoEnts[".."] = 0 /\ Root # 0
      BY Numbers DEF DotsRight
    <3> QED
      BY <2>5, <3>1
  <2>13. SameDots(Root)
    BY <2>7, <2>8, <2>12, Numbers DEF SameDots
  <2> QED
    BY <2>11, <2>13 DEF DotsRight, SameDots
<1> QED
  BY <1>4, <1>5, <1>6, <1>7, <1>8, <1>9, <1>10, <1>11, <1>12 DEF InCall

\* At the start the root is the only inode, and every process is in it.
LEMMA InitRight ==
    ASSUME NamesInit
    PROVE  NamesInv /\ DotsRight /\ PanicRight
<1> USE DEF NamesInit
<1>1. NamesTypes
  <2>1. dinode \in [Inums -> DinodeType]
    <3>1. PICK g : g = [NoEnts EXCEPT !["."] = Root, ![".."] = Root]
      OBVIOUS
    <3>2. g \in [DirElems -> Inode0]
      BY <3>1, Numbers DEF Inode0
    <3>3. [type |-> "dir", nlink |-> 1, ents |-> g] \in DinodeType
      BY <3>2 DEF DinodeType, Types
    <3>4. [type |-> "free", nlink |-> 0, ents |-> NoEnts] \in DinodeType
      BY Numbers DEF DinodeType, Types
    <3> QED
      BY <3>1, <3>3, <3>4
  <2>2. inode \in [Inums -> InodeType]
    <3>1. Cardinality(Users) \in Int
      BY NamesAssumption, FS_CardinalityType
    <3> QED
      BY <3>1 DEF InodeType, Types
  <2>3. cwd \in [Users -> Inode0] /\ ofile \in [Users -> Inode0]
    BY Numbers DEF Inode0
  <2>4. call \in [Users -> CallType]
    BY OutsideRight
  <2> QED
    BY <2>1, <2>2, <2>3, <2>4 DEF NamesTypes
<1>2. \A p \in Users : Pointers(p) = <<Root, 0, 0, 0, 0>>
  BY OutsideRight DEF Pointers
<1>3. RefsRight
  <2> SUFFICES ASSUME NEW i \in Inums PROVE inode[i].ref = Cardinality(To(i))
    BY DEF RefsRight
  <2>1. i # 0
    BY Numbers
  <2>2. CASE i = Root
    <3>1. To(i) = Users \X {1}
      BY <1>2, <2>1, <2>2 DEF To
    <3>2. IsFiniteSet({1}) /\ Cardinality({1}) = 1
      BY FS_Singleton
    <3>3. Cardinality(Users \X {1}) = Cardinality(Users) * 1 /\ Cardinality(Users) \in Nat
      BY <3>2, NamesAssumption, FS_Product, FS_CardinalityType
    <3> QED
      BY <2>2, <3>1, <3>3
  <2>3. CASE i # Root
    <3>1. To(i) = {}
      BY <1>2, <2>1, <2>3 DEF To
    <3> QED
      BY <2>3, <3>1, FS_EmptySet
  <2> QED
    BY <2>2, <2>3
<1>4. /\ dinode[Root].type = "dir" /\ dinode[Root].nlink = 1
      /\ \A n \in Elems : dinode[Root].ents[n] = 0
      /\ \A i \in Inums : i # Root =>
           dinode[i].type = "free" /\ dinode[i].nlink = 0 /\ dinode[i].ents = NoEnts
      /\ \A i \in Inums : ~inode[i].valid
      /\ dinode[Root].ents["."] = Root /\ dinode[Root].ents[".."] = Root
  BY Numbers
<1>5. CacheRight /\ RootRight
  BY <1>4 DEF CacheRight, RootRight
<1>10. DotsRight
  BY <1>4, Numbers DEF DotsRight, Dotted
<1>6. \A d \in Inums, n \in Elems : dinode[d].ents[n] = 0
  BY <1>4, Numbers
<1>7. TreeRight
  BY <1>6, Numbers DEF TreeRight
<1>8. ASSUME NEW i \in Inums
      PROVE  Cardinality(Named(i)) + Cardinality(Children(i)) + Cardinality(Pending(i))
                 + (IF i = Root THEN 1 ELSE 0) <= dinode[i].nlink
  <2>1. \A k \in Inums : Named(k) = {}
    BY <1>6, Numbers DEF Named
  <2>2. Children(i) = {}
    BY <2>1 DEF Children
  <2>3. Pending(i) = {}
    BY OutsideRight DEF Pending
  <2>4. Cardinality(Named(i)) = 0 /\ Cardinality(Children(i)) = 0 /\ Cardinality(Pending(i)) = 0
    BY <2>1, <2>2, <2>3, FS_EmptySet
  <2> QED
    BY <1>4, <2>4
<1>9. ASSUME NEW p \in Users PROVE UserRight(p)
  <2>1. call[p] = Outside /\ cwd[p] = Root /\ ofile[p] = 0
    OBVIOUS
  <2>2. FrameRight(call[p]) /\ CwdRight(p) /\ LocksRight(p)
    BY <2>1, OutsideRight, Numbers DEF CwdRight, LocksRight
  <2>3. KeepsRight(p)
    BY <1>4, <2>1, OutsideRight, Numbers DEF KeepsRight, Keeps
  <2>4. FreeRight(p) /\ DirRight(p) /\ FileRight(p) /\ EraseRight(p) /\ NewRight(p)
    BY <2>1, OutsideRight DEF FreeRight, DirRight, FileRight, EraseRight, NewRight
  <2> QED
    BY <2>2, <2>3, <2>4 DEF UserRight
<1> QED
  BY <1>1, <1>3, <1>5, <1>7, <1>8, <1>9, <1>10 DEF NamesInv, LinksCounted, PanicRight

\* All that holds until a lookup of ".." comes to an inode of no link.
NamesRight == strayed \/ (NamesInv /\ DotsRight /\ PanicRight)

LEMMA NextRight ==
    ASSUME NamesRight, [NamesNext]_namesVars
    PROVE  NamesRight'
<1>1. CASE strayed
  <2>1. strayed'
    BY <1>1 DEF NamesNext, namesVars
  <2> QED
    BY <2>1 DEF NamesRight
<1>2. CASE ~strayed /\ UNCHANGED namesVars
  <2>1. NamesInv /\ DotsRight /\ PanicRight /\ UNCHANGED <<dinode, inode, cwd, ofile, call, fsPanic>>
    BY <1>2 DEF NamesRight, namesVars
  <2>2. NamesInv' /\ PanicRight'
    BY <2>1, Stutters DEF PanicRight
  <2>3. DotsRight'
    BY <2>1 DEF DotsRight, Dotted, Fresh
  <2> QED
    BY <2>2, <2>3 DEF NamesRight
<1>3. CASE ~strayed /\ NamesNext
  <2>1. NamesInv /\ DotsRight /\ PanicRight
    BY <1>3 DEF NamesRight
  <2>2. PICK p \in Users : /\ (\E r \in Requests : Begin(p, r)) \/ Close(p) \/ InCall(p)
                           /\ strayed' = (strayed \/ Strays(p))
    BY <1>3 DEF NamesNext
  <2>3. CASE Strays(p)
    BY <2>2, <2>3 DEF NamesRight
  <2>4. CASE ~Strays(p)
    <3>1. NamesInv'
      BY <2>1, <2>2, <2>4, StepKeeps
    <3>2. PanicRight'
      BY <2>1, <2>2, PanicStep DEF PanicRight
    <3>3. DotsRight'
      BY <2>1, <2>2, DotsKept
    <3> QED
      BY <3>1, <3>2, <3>3 DEF NamesRight
  <2> QED
    BY <2>3, <2>4
<1> QED
  BY <1>1, <1>2, <1>3

\* What the invariant says of the properties the runs check.
\* ".." of a directory that has a name, and that of the root, has a link.
LEMMA StraysFrom ==
    ASSUME NamesInv, DotsRight, NEW p \in Users, Strays(p)
    PROVE  call[p].w # Root /\ Named(call[p].w) = {}
<1>1. PICK d, u : d = call[p].w /\ u = dinode[d].ents[".."]
  OBVIOUS
<1>2. /\ u # 0 /\ dinode[u].nlink = 0 /\ call[p].pc \in WithW
  BY <1>1 DEF Strays, dirlookup, WithW, Looking
<1>3. d \in Inums
  BY <1>1, <1>2, AtW
<1>4. dinode[d] \in DinodeType /\ ".." \in DirElems
  BY <1>3, Numbers DEF NamesInv, NamesTypes
<1>5. u \in Inums
  BY <1>1, <1>2, <1>4 DEF DinodeType, Inode0
<1>6. d # Root
  <2>1. d = Root => u = Root
    BY <1>1 DEF DotsRight
  <2> QED
    BY <1>2, <2>1, NamedLinked
<1>7. ASSUME Named(d) # {} PROVE FALSE
  <2>1. d \in Children(u)
    BY <1>1, <1>3, <1>6, <1>7 DEF Children
  <2>2. Cardinality(Children(u)) # 0
    BY <2>1, NamesFinite, FS_EmptySet
  <2>3. Counted(u)
    BY <1>5 DEF NamesInv, LinksCounted, Counted
  <2> QED
    BY <1>2, <2>2, <2>3, NamesFinite, PendingFinite DEF Counted
<1> QED
  BY <1>1, <1>6, <1>7

LEMMA LinksFollow ==
    ASSUME NamesRight
    PROVE  LinksHold
<1> SUFFICES ASSUME NamesInv, DotsRight, PanicRight, NEW i \in Inums
             PROVE  /\ Named(i) # {} => dinode[i].type # "free"
                    /\ Cardinality(Named(i)) + Cardinality(Children(i)) <= dinode[i].nlink
  BY StraysFrom DEF NamesRight, LinksHold, PanicRight
<1>1. Counted(i) /\ dinode[i].nlink \in Int
  BY DEF NamesInv, LinksCounted, Counted, NamesTypes, DinodeType
<1>2. /\ Cardinality(Named(i)) \in Nat /\ Cardinality(Children(i)) \in Nat
      /\ Cardinality(Pending(i)) \in Nat
  BY NamesFinite, PendingFinite
<1>3. Cardinality(Named(i)) + Cardinality(Children(i)) <= dinode[i].nlink
  BY <1>1, <1>2 DEF Counted
<1>4. ASSUME NEW t \in Named(i) PROVE dinode[i].type # "free"
  <2>1. PICK d \in Inums, n \in Elems : dinode[d].ents[n] = i
    BY <1>4 DEF Named
  <2> QED
    BY <2>1, NamedLinked, Numbers
<1> QED
  BY <1>3, <1>4

LEMMA UseFollows ==
    ASSUME NamesRight
    PROVE  InUseKept
<1> SUFFICES ASSUME NamesInv, NEW i \in Inums
             PROVE  /\ inode[i].ref = Cardinality(To(i))
                    /\ \A t \in To(i) : dinode[i].type # "free" \/ call[t[1]].pc = "drop"
  BY DEF NamesRight, InUseKept, To
<1>1. inode[i].ref = Cardinality(To(i))
  BY DEF NamesInv, RefsRight
<1>2. ASSUME NEW t \in To(i) PROVE dinode[i].type # "free" \/ call[t[1]].pc = "drop"
  <2>1. PICK p \in Users, k \in 1 .. 5 : t = <<p, k>> /\ Pointers(p)[k] = i
    BY <1>2 DEF To
  <2>2. k = 1 \/ k = 2 \/ k = 3 \/ k = 4 \/ k = 5
    OBVIOUS
  <2>3. i = cwd[p] \/ i = ofile[p] \/ i = call[p].w \/ i = call[p].ip \/ i = call[p].put
    BY <2>1, <2>2 DEF Pointers
  <2>4. Keeps(p, i) \/ call[p].pc = "drop"
    BY <2>3 DEF Keeps
  <2>5. t[1] = p
    BY <2>1
  <2> QED
    BY <2>4, <2>5 DEF NamesInv, UserRight, KeepsRight
<1> QED
  BY <1>1, <1>2

\* No name dangles: whatever calls race, at every yield point of create, unlink,
\* link and iput, an inode with a name is allocated and its link count covers its
\* names and subdirectories; ilock and sys_unlink never panic (fs.c, sysfile.c).
\* Paths may go through "." and "..": only a ".." of a removed directory can come
\* to an inode of no link, and it holds until one does.
THEOREM NamesNeverDangle == NamesSpec => []LinksHold
<1>1. NamesInit => NamesRight
  BY InitRight DEF NamesRight
<1>2. NamesRight /\ [NamesNext]_namesVars => NamesRight'
  BY NextRight
<1>3. NamesRight => LinksHold
  BY LinksFollow
<1> QED
  BY <1>1, <1>2, <1>3, PTL DEF NamesSpec

\* ip->ref counts exactly the pointers to a cache entry, and an inode in use is
\* not freed but by the last iput itself (iget, idup, iput and their callers),
\* until a ".." of a removed directory comes to an inode of no link.
THEOREM InodesKeptInUse == NamesSpec => []InUseKept
<1>1. NamesInit => NamesRight
  BY InitRight DEF NamesRight
<1>2. NamesRight /\ [NamesNext]_namesVars => NamesRight'
  BY NextRight
<1>3. NamesRight => InUseKept
  BY UseFollows
<1> QED
  BY <1>1, <1>2, <1>3, PTL DEF NamesSpec

\* The inode cache, directories and calls agree at every step: the cache has what
\* the disk has, each call's locals, locks and pointers are what it relies on, and
\* every directory has its "." and ".."; until a ".." of a removed directory comes
\* to an inode of no link.
THEOREM NamesStayRight == NamesSpec => []NamesRight
<1>1. NamesInit => NamesRight
  BY InitRight DEF NamesRight
<1>2. NamesRight /\ [NamesNext]_namesVars => NamesRight'
  BY NextRight
<1> QED
  BY <1>1, <1>2, PTL DEF NamesSpec

(***************************************************************************)
(* The contents of files.                                                  *)
(***************************************************************************)
InoType == [used : BOOLEAN, size : Nat, addrs : [0 .. NDIRECT -> Nat]]
IoType == [pc : {"idle", "filewrite", "writei", "itrunc"}, f : OpenFiles \cup {0},
           i : FileInums \cup {0}, todo : Nat, n : Nat, off : Nat, k : Nat]

BlocksTypes ==
    /\ sb \in Disks /\ mkfs \in [n : Nat, freeblock : Nat, done : BOOLEAN]
    /\ data \in [Data -> [Cells -> Nat]] /\ bitmap \in [Data -> BOOLEAN]
    /\ dip \in [FileInums -> InoType] /\ ip \in [FileInums -> InoType]
    /\ iowner \in [FileInums -> Writers \cup {Nobody}] /\ named \subseteq FileInums
    /\ ftab \in [OpenFiles -> [ip : FileInums \cup {0}, off : Nat]]
    /\ io \in [Writers -> IoType] /\ length \in [FileInums -> Nat] /\ blocksPanic \in {"no", "balloc: out of blocks"}

\* While mkfs runs nothing else does, and the blocks from freeblock on are clear.
MkfsRight ==
    ~mkfs.done =>
        /\ mkfs.freeblock \in NMeta .. sb.size /\ 2 \in named
        /\ \A b \in Data : b >= mkfs.freeblock => data[b] = ZeroBlock
        /\ \A p \in Writers : io[p] = Idle
        /\ \A f \in OpenFiles : ftab[f] = NoFile

\* ip->lock is held by who writes or truncates the inode.
InLocked == {"writei", "itrunc"}
Owners(I, own, w) == \A i \in I, p \in Writers : own[i] = p <=> w[p].pc \in InLocked /\ w[p].i = i
OwnersRight == Owners(FileInums, iowner, io)

\* An inode that is not in use has nothing; one that is not locked is on disk as
\* it is in memory.
InodeRight(i) ==
    /\ dip[i].used = ip[i].used /\ dip[i].size = ip[i].size /\ length[i] = ip[i].size
    /\ iowner[i] = Nobody => ip[i] = dip[i]
    /\ ~ip[i].used => /\ i \notin named /\ iowner[i] = Nobody /\ ip[i] = FreeInode
                      /\ \A f \in OpenFiles : ftab[f].ip # i
    /\ i # 1 => ip[i].size <= MAXFILE * BSIZE

OpenRight(f) == ftab[f] # NoFile => ftab[f].ip \in FileInums \ {1} /\ ftab[f].off <= ip[ftab[f].ip].size

\* filewrite has an open file; writei is within the chunk, and if it has changed
\* the addresses of the inode, the file will have grown at its end.
WriteRight(w) ==
    w.pc \in {"filewrite", "writei"} => w.f \in OpenFiles /\ w.i \in FileInums \ {1} /\ ftab[w.f].ip = w.i
ChunkRight(w) ==
    w.pc = "writei" =>
        /\ ftab[w.f].off <= w.off /\ w.off - ftab[w.f].off + w.n <= w.todo
        /\ w.off + w.n <= MAXFILE * BSIZE
        /\ ip[w.i].addrs # dip[w.i].addrs => w.off + w.n > ip[w.i].size

\* itrunc has an inode nobody can come to, and has cleared the addresses it has
\* come past.
TruncRight(w) ==
    w.pc = "itrunc" =>
        /\ w.i \in FileInums \ {1} /\ w.i \notin named /\ ip[w.i].used /\ w.k <= MAXFILE + 1
        /\ \A f \in OpenFiles : ftab[f].ip # w.i
        /\ \A k \in 0 .. NDIRECT : k < w.k /\ (k < NDIRECT \/ w.k > MAXFILE) => ip[w.i].addrs[k] = 0
IoRight(w) == (w.pc = "idle" => w = Idle) /\ WriteRight(w) /\ ChunkRight(w) /\ TruncRight(w)

\* The place a block is in: a block number of an inode, as itrunc comes to them.
\* These are the operators of FileBlocks with the state as parameters: the blocks
\* d, the addresses a of an inode, the inodes ins, and the processes w.
Lk(d, a, bn) == IF bn < NDIRECT THEN a[bn] ELSE IF a[NDIRECT] = 0 THEN 0 ELSE d[a[NDIRECT]][bn - NDIRECT]
Ad(d, a, k) == IF k < MAXFILE THEN Lk(d, a, k) ELSE a[NDIRECT]
PastIn(w, i) ==
    IF \E p \in Writers : w[p].pc = "itrunc" /\ w[p].i = i
    THEN w[CHOOSE p \in Writers : w[p].pc = "itrunc" /\ w[p].i = i].k
    ELSE 0
SlotsOf(inums) == inums \X (0 .. MAXFILE)
ValuesOf(inums, d, ins, w) ==
    [x \in SlotsOf(inums) |-> IF x[2] < PastIn(w, x[1]) THEN 0 ELSE Ad(d, ins[x[1]].addrs, x[2])]

\* A block in use is in one place of one inode; one that is not, is in none.
OwnedOnce(slots, v, taken) ==
    /\ \A x \in slots : v[x] # 0 => v[x] \in taken
    /\ \A x, y \in slots : v[x] # 0 /\ v[x] = v[y] => x = y
    /\ \A b \in taken : \E x \in slots : v[x] = b
\* The places of a disk with blocks D, of which T are in use.
Placed(I, D, d, ins, w, T) ==
    /\ d \in [D -> [Cells -> Nat]] /\ ins \in [I -> InoType] /\ T \subseteq D /\ 0 \notin D
    /\ \A i \in I : PastIn(w, i) \in Nat /\ (PastIn(w, i) > MAXFILE => ins[i].addrs[NDIRECT] = 0)
    /\ OwnedOnce(SlotsOf(I), ValuesOf(I, d, ins, w), T)
PlacesRight == Placed(FileInums, Data, data, ip, io, Taken)

\* The byte at an offset is where readi looks for it: up to the size of a file,
\* and up to where writei has come.
ByteAt(d, ins, i, x, y) ==
    Lk(d, ins[i].addrs, x \div BSIZE) # 0 /\ d[Lk(d, ins[i].addrs, x \div BSIZE)][x % BSIZE] = y
BytesRight ==
    /\ \A i \in FileInums \ {1} :
         (\A p \in Writers : ~(io[p].pc = "itrunc" /\ io[p].i = i))
             => \A x \in 0 .. ip[i].size - 1 : ByteAt(data, ip, i, x, Byte(i, x))
    /\ \A p \in Writers :
         io[p].pc = "writei" => \A x \in 0 .. io[p].off - 1 : ByteAt(data, ip, io[p].i, x, Byte(io[p].i, x))

BlocksInv ==
    /\ BlocksTypes /\ MkfsRight /\ OwnersRight /\ 1 \in named
    /\ (\A i \in FileInums : InodeRight(i)) /\ (\A f \in OpenFiles : OpenRight(f))
    /\ (\A p \in Writers : IoRight(io[p])) /\ BytesRight /\ PlacesRight
-----------------------------------------------------------------------------
\* What is known of the constants.
LEMMA BlockConstants ==
    /\ BSIZE \in Nat \ {0} /\ NDIRECT \in Nat /\ NINDIRECT \in Nat /\ NINDIRECT <= BSIZE
    /\ NMeta \in Nat \ {0} /\ MAXFILE \in Nat /\ NDIRECT <= MAXFILE /\ MAXFILE = NDIRECT + NINDIRECT
  BY BlocksAssumption DEF MAXFILE

LEMMA Division ==
    ASSUME NEW d \in Nat \ {0}, NEW a \in Nat
    PROVE  \E q \in Nat, r \in 0 .. d - 1 : a = q * d + r /\ a % d = r /\ a \div d = q
<1>1. a = (a \div d) * d + (a % d) /\ a \div d \in Nat /\ a % d \in 0 .. d - 1
  OBVIOUS
<1> QED
  BY <1>1

LEMMA Quotient ==
    ASSUME NEW d \in Nat \ {0}, NEW q \in Nat, NEW r \in 0 .. d - 1
    PROVE  (q * d + r) \div d = q /\ (q * d + r) % d = r
  OBVIOUS

\* The block and the cell of an offset.
LEMMA Offsets ==
    /\ \A x \in Nat : x \div BSIZE \in Nat /\ x % BSIZE \in Cells
    /\ \A x \in Nat : x < MAXFILE * BSIZE => x \div BSIZE < MAXFILE
    /\ \A x, y \in Nat : x \div BSIZE = y \div BSIZE => x - (x % BSIZE) = y - (y % BSIZE)
<1>0. PICK B \in Nat \ {0}, M \in Nat : B = BSIZE /\ M = MAXFILE
  BY BlockConstants
<1>1. ASSUME NEW x \in Nat
      PROVE  x \div B \in Nat /\ x % B \in 0 .. B - 1 /\ (x < M * B => x \div B < M)
  <2>1. PICK q \in Nat, r \in 0 .. B - 1 : x = q * B + r /\ x % B = r /\ x \div B = q
    BY Division
  <2>2. ASSUME x < M * B, ~(q < M) PROVE FALSE
    <3>1. PICK e \in Nat : q = M + e
      BY <2>2
    <3>2. q * B = M * B + e * B /\ e * B \in Nat
      BY <3>1
    <3> QED
      BY <2>1, <2>2, <3>2
  <2> QED
    BY <2>1, <2>2
<1>2. ASSUME NEW x \in Nat, NEW y \in Nat, x \div B = y \div B
      PROVE  x - (x % B) = y - (y % B)
  <2>1. PICK q \in Nat, r \in 0 .. B - 1 : x = q * B + r /\ x % B = r /\ x \div B = q
    BY Division
  <2>2. PICK t \in Nat, s \in 0 .. B - 1 : y = t * B + s /\ y % B = s /\ y \div B = t
    BY Division
  <2> QED
    BY <1>2, <2>1, <2>2
<1> QED
  BY <1>0, <1>1, <1>2 DEF Cells

LEMMA BlockOf ==
    ASSUME NEW x \in Nat
    PROVE  /\ x \div BSIZE \in Nat /\ x % BSIZE \in Cells /\ x % BSIZE \in 0 .. BSIZE - 1 /\ x % BSIZE <= x
           /\ x < MAXFILE * BSIZE <=> x \div BSIZE \in 0 .. MAXFILE - 1
<1>0. PICK B \in Nat \ {0}, M \in Nat : B = BSIZE /\ M = MAXFILE
  BY BlockConstants
<1>1. PICK q \in Nat, r \in 0 .. B - 1 : x = q * B + r /\ x % B = r /\ x \div B = q
  BY Division
<1>2. PICK N \in Nat : N = q * B
  OBVIOUS
<1>3. x = N + r
  BY <1>1, <1>2
<1>4. x % B \in 0 .. B - 1 /\ x % B <= x /\ x \div B = q
  BY <1>1, <1>3
<1>5. ASSUME q < M PROVE x < M * B
  <2>1. PICK e \in Nat : M = q + 1 + e
    BY <1>5
  <2>2. M * B = q * B + B + e * B /\ e * B \in Nat
    BY <2>1
  <2> QED
    BY <1>2, <1>3, <2>2
<1>6. x < M * B => q < M
  BY <1>0, <1>1, Offsets
<1>7. x < M * B <=> q \in 0 .. M - 1
  BY <1>5, <1>6
<1> QED
  BY <1>0, <1>4, <1>7 DEF Cells

\* Offsets of the same block are those from its first cell on.
LEMMA SameBlock ==
    ASSUME NEW x \in Nat, NEW y \in Nat, y >= x - (x % BSIZE), y < x - (x % BSIZE) + BSIZE
    PROVE  y \div BSIZE = x \div BSIZE /\ y % BSIZE = y - (x - (x % BSIZE))
<1>0. PICK B \in Nat \ {0} : B = BSIZE
  BY BlockConstants
<1>1. PICK q \in Nat, r \in 0 .. B - 1 : x = q * B + r /\ x % B = r /\ x \div B = q
  BY Division
<1>2. PICK N \in Nat : N = q * B
  OBVIOUS
<1>3. x = N + r /\ x % B = r
  BY <1>1, <1>2
<1>4. PICK s \in 0 .. B - 1 : y = N + s
  <2>1. y >= N /\ y < N + B
    BY <1>0, <1>3
  <2>2. y - N \in 0 .. B - 1
    BY <2>1
  <2> QED
    BY <2>2
<1>5. y = q * B + s
  BY <1>2, <1>4
<1>6. y \div B = q /\ y % B = s
  BY <1>5, Quotient
<1>7. y - (x - (x % B)) = s
  BY <1>3, <1>4
<1> QED
  BY <1>0, <1>1, <1>6, <1>7
-----------------------------------------------------------------------------
\* Places and the blocks in them: a block is taken, given back, or nothing moves.
LEMMA PlaceTaken ==
    ASSUME NEW S, NEW v, NEW w, NEW T, OwnedOnce(S, v, T), NEW b, b \notin T, b # 0,
           NEW x \in S, v[x] = 0, w[x] = b, \A y \in S : y # x => w[y] = v[y],
           0 \notin T
    PROVE  OwnedOnce(S, w, T \cup {b})
<1>1. \A y \in S : w[y] # 0 => w[y] \in T \cup {b}
  BY DEF OwnedOnce
<1>2. \A y, z \in S : w[y] # 0 /\ w[y] = w[z] => y = z
  BY DEF OwnedOnce
<1>3. \A c \in T \cup {b} : \E y \in S : w[y] = c
  BY DEF OwnedOnce
<1> QED
  BY <1>1, <1>2, <1>3 DEF OwnedOnce

LEMMA PlaceFreed ==
    ASSUME NEW S, NEW v, NEW w, NEW T, OwnedOnce(S, v, T), 0 \notin T,
           NEW x \in S, w[x] = 0, \A y \in S : y # x => w[y] = v[y]
    PROVE  OwnedOnce(S, w, T \ {v[x]})
<1>1. \A y \in S : w[y] # 0 => w[y] \in T \ {v[x]}
  BY DEF OwnedOnce
<1>2. \A y, z \in S : w[y] # 0 /\ w[y] = w[z] => y = z
  BY DEF OwnedOnce
<1>3. \A c \in T \ {v[x]} : \E y \in S : w[y] = c
  BY DEF OwnedOnce
<1> QED
  BY <1>1, <1>2, <1>3 DEF OwnedOnce

LEMMA PlacesSame ==
    ASSUME NEW S, NEW v, NEW w, NEW T, OwnedOnce(S, v, T), \A y \in S : w[y] = v[y]
    PROVE  OwnedOnce(S, w, T)
  BY DEF OwnedOnce
-----------------------------------------------------------------------------
LEMMA ValueAt ==
    ASSUME NEW I, NEW d, NEW ins, NEW w, NEW i \in I, NEW k \in 0 .. MAXFILE
    PROVE  /\ <<i, k>> \in SlotsOf(I)
           /\ ValuesOf(I, d, ins, w)[<<i, k>>]
                = IF k < PastIn(w, i) THEN 0 ELSE Ad(d, ins[i].addrs, k)
<1>1. <<i, k>> \in SlotsOf(I)
  BY DEF SlotsOf
<1> QED
  BY <1>1 DEF ValuesOf

LEMMA SlotPair ==
    ASSUME NEW I, NEW x \in SlotsOf(I)
    PROVE  x[1] \in I /\ x[2] \in 0 .. MAXFILE /\ x = <<x[1], x[2]>>
  BY DEF SlotsOf

\* An indirect block is in its place, and a block of data in its own.
LEMMA IndirectPlace ==
    ASSUME NEW I, NEW D, NEW d, NEW ins, NEW w, NEW T, Placed(I, D, d, ins, w, T),
           NEW i \in I, ins[i].addrs[NDIRECT] # 0
    PROVE  /\ ValuesOf(I, d, ins, w)[<<i, MAXFILE>>] = ins[i].addrs[NDIRECT]
           /\ ins[i].addrs[NDIRECT] \in T /\ <<i, MAXFILE>> \in SlotsOf(I)
<1>1. MAXFILE \in 0 .. MAXFILE /\ MAXFILE \in Nat /\ ~(MAXFILE < MAXFILE)
  BY BlockConstants
<1>2. PastIn(w, i) \in Nat /\ ~(MAXFILE < PastIn(w, i))
  BY <1>1 DEF Placed
<1>3. Ad(d, ins[i].addrs, MAXFILE) = ins[i].addrs[NDIRECT]
  BY <1>1 DEF Ad
<1>4. /\ <<i, MAXFILE>> \in SlotsOf(I)
      /\ ValuesOf(I, d, ins, w)[<<i, MAXFILE>>] = ins[i].addrs[NDIRECT]
  BY <1>1, <1>2, <1>3, ValueAt
<1> QED
  BY <1>4 DEF Placed, OwnedOnce

LEMMA DataPlace ==
    ASSUME NEW I, NEW D, NEW d, NEW ins, NEW w, NEW T, Placed(I, D, d, ins, w, T),
           NEW i \in I, PastIn(w, i) = 0, NEW m \in 0 .. MAXFILE - 1, Lk(d, ins[i].addrs, m) # 0
    PROVE  /\ ValuesOf(I, d, ins, w)[<<i, m>>] = Lk(d, ins[i].addrs, m)
           /\ Lk(d, ins[i].addrs, m) \in T /\ <<i, m>> \in SlotsOf(I)
<1>1. m \in 0 .. MAXFILE /\ m < MAXFILE /\ ~(m < 0)
  BY BlockConstants
<1>2. Ad(d, ins[i].addrs, m) = Lk(d, ins[i].addrs, m)
  BY <1>1 DEF Ad
<1>3. <<i, m>> \in SlotsOf(I) /\ ValuesOf(I, d, ins, w)[<<i, m>>] = Lk(d, ins[i].addrs, m)
  BY <1>1, <1>2, ValueAt
<1> QED
  BY <1>3 DEF Placed, OwnedOnce

\* They are apart.
LEMMA DataApart ==
    ASSUME NEW I, NEW D, NEW d, NEW ins, NEW w, NEW T, Placed(I, D, d, ins, w, T),
           NEW i \in I, PastIn(w, i) = 0, NEW m \in 0 .. MAXFILE - 1, Lk(d, ins[i].addrs, m) # 0
    PROVE  /\ \A j \in I : ins[j].addrs[NDIRECT] # Lk(d, ins[i].addrs, m)
           /\ \A j \in I, n \in 0 .. MAXFILE - 1 :
                PastIn(w, j) = 0 /\ Lk(d, ins[j].addrs, n) = Lk(d, ins[i].addrs, m) => j = i /\ n = m
<1> DEFINE v == ValuesOf(I, d, ins, w)
<1>1. v[<<i, m>>] = Lk(d, ins[i].addrs, m) /\ <<i, m>> \in SlotsOf(I)
  BY DataPlace
<1>2. \A x, y \in SlotsOf(I) : v[x] # 0 /\ v[x] = v[y] => x = y
  BY DEF Placed, OwnedOnce
<1> HIDE DEF v
<1>3. ASSUME NEW j \in I, ins[j].addrs[NDIRECT] = Lk(d, ins[i].addrs, m) PROVE FALSE
  <2>1. v[<<j, MAXFILE>>] = ins[j].addrs[NDIRECT] /\ <<j, MAXFILE>> \in SlotsOf(I)
    BY <1>3, IndirectPlace DEF v
  <2>2. <<j, MAXFILE>> = <<i, m>>
    BY <1>1, <1>2, <1>3, <2>1
  <2> QED
    BY <2>2, BlockConstants
<1>4. ASSUME NEW j \in I, NEW n \in 0 .. MAXFILE - 1, PastIn(w, j) = 0,
             Lk(d, ins[j].addrs, n) = Lk(d, ins[i].addrs, m)
      PROVE  j = i /\ n = m
  <2>1. v[<<j, n>>] = Lk(d, ins[j].addrs, n) /\ <<j, n>> \in SlotsOf(I)
    BY <1>4, DataPlace DEF v
  <2>2. <<j, n>> = <<i, m>>
    BY <1>1, <1>2, <1>4, <2>1
  <2> QED
    BY <2>2
<1> QED
  BY <1>3, <1>4

LEMMA IndirectsApart ==
    ASSUME NEW I, NEW D, NEW d, NEW ins, NEW w, NEW T, Placed(I, D, d, ins, w, T),
           NEW i \in I, NEW j \in I, ins[i].addrs[NDIRECT] # 0,
           ins[j].addrs[NDIRECT] = ins[i].addrs[NDIRECT]
    PROVE  i = j
<1>1. /\ ValuesOf(I, d, ins, w)[<<i, MAXFILE>>] = ins[i].addrs[NDIRECT] /\ <<i, MAXFILE>> \in SlotsOf(I)
      /\ ValuesOf(I, d, ins, w)[<<j, MAXFILE>>] = ins[j].addrs[NDIRECT] /\ <<j, MAXFILE>> \in SlotsOf(I)
  BY IndirectPlace
<1>2. <<i, MAXFILE>> = <<j, MAXFILE>>
  BY <1>1 DEF Placed, OwnedOnce
<1> QED
  BY <1>2

\* A block that is no indirect block changes: no place does.
LEMMA BlockChanged ==
    ASSUME NEW I, NEW D, NEW d, NEW ins, NEW w, NEW T, Placed(I, D, d, ins, w, T),
           NEW b \in D, NEW e \in [D -> [Cells -> Nat]], \A c \in D : c # b => e[c] = d[c],
           \A i \in I : ins[i].addrs[NDIRECT] # b
    PROVE  /\ Placed(I, D, e, ins, w, T)
           /\ \A i \in I, m \in Nat : Lk(e, ins[i].addrs, m) = Lk(d, ins[i].addrs, m)
<1>1. ASSUME NEW i \in I, ins[i].addrs[NDIRECT] # 0
      PROVE  ins[i].addrs[NDIRECT] \in D /\ ins[i].addrs[NDIRECT] # b
  <2>1. ins[i].addrs[NDIRECT] \in T
    BY <1>1, IndirectPlace
  <2> QED
    BY <2>1 DEF Placed
<1>2. \A i \in I, m \in Nat : Lk(e, ins[i].addrs, m) = Lk(d, ins[i].addrs, m)
  BY <1>1 DEF Lk
<1>3. ASSUME NEW x \in SlotsOf(I)
      PROVE  ValuesOf(I, e, ins, w)[x] = ValuesOf(I, d, ins, w)[x]
  <2>1. x[1] \in I /\ x[2] \in Nat
    BY SlotPair, BlockConstants
  <2>2. Ad(e, ins[x[1]].addrs, x[2]) = Ad(d, ins[x[1]].addrs, x[2])
    BY <1>2, <2>1 DEF Ad
  <2> QED
    BY <2>2 DEF ValuesOf
<1>4. OwnedOnce(SlotsOf(I), ValuesOf(I, e, ins, w), T)
  BY <1>3, PlacesSame DEF Placed
<1> QED
  BY <1>2, <1>4 DEF Placed
-----------------------------------------------------------------------------
\* bmap enters a free block, cleared, for a block that an inode has not.
LEMMA InodeWithIs ==
    ASSUME NEW ino \in InoType, NEW bn \in 0 .. MAXFILE - 1, NEW b \in Nat
    PROVE  /\ InodeWith(ino, bn, b) \in InoType
           /\ InodeWith(ino, bn, b).used = ino.used /\ InodeWith(ino, bn, b).size = ino.size
           /\ \A k \in 0 .. NDIRECT :
                InodeWith(ino, bn, b).addrs[k]
                  = IF InInode(ino, bn) /\ k = Min2(bn, NDIRECT) THEN b ELSE ino.addrs[k]
<1>1. PICK a : a = ino.addrs /\ a \in [0 .. NDIRECT -> Nat]
  BY DEF InoType
<1>2. PICK c : c = [a EXCEPT ![Min2(bn, NDIRECT)] = b]
  OBVIOUS
<1>3. Min2(bn, NDIRECT) \in 0 .. NDIRECT
  BY BlockConstants DEF Min2
<1>4. c \in [0 .. NDIRECT -> Nat] /\ \A k \in 0 .. NDIRECT : c[k] = IF k = Min2(bn, NDIRECT) THEN b ELSE a[k]
  BY <1>1, <1>2, <1>3
<1>5. [ino EXCEPT !.addrs = c] = [used |-> ino.used, size |-> ino.size, addrs |-> c]
  BY DEF InoType
<1>6. CASE InInode(ino, bn)
  <2>1. InodeWith(ino, bn, b) = [used |-> ino.used, size |-> ino.size, addrs |-> c]
    BY <1>1, <1>2, <1>5, <1>6 DEF InodeWith
  <2>2. [used |-> ino.used, size |-> ino.size, addrs |-> c] \in InoType
    BY <1>4 DEF InoType
  <2> QED
    BY <1>1, <1>4, <1>6, <2>1, <2>2
<1>7. CASE ~InInode(ino, bn)
  BY <1>7 DEF InodeWith
<1> QED
  BY <1>6, <1>7

\* The disk d with the inodes ins becomes e with the inodes new.
Enters(I, D, d, ins, w, T, i, bn, b, e, new) ==
    /\ Placed(I, D, d, ins, w, T) /\ d[b] = ZeroBlock /\ b \in D /\ b \notin T /\ b \in Nat
    /\ i \in I /\ PastIn(w, i) = 0 /\ bn \in 0 .. MAXFILE - 1 /\ Lk(d, ins[i].addrs, bn) = 0
    /\ new = [ins EXCEPT ![i] = InodeWith(ins[i], bn, b)] /\ e = BlocksWith(d, ins[i], bn, b)

\* It is entered in one place, and the disk keeps its shape.
OnePlace(I, D, d, ins, w, b, e, new) ==
    /\ e \in [D -> [Cells -> Nat]] /\ new \in [I -> InoType]
    /\ \E x \in SlotsOf(I) :
         /\ ValuesOf(I, d, ins, w)[x] = 0 /\ ValuesOf(I, e, new, w)[x] = b
         /\ \A y \in SlotsOf(I) : y # x => ValuesOf(I, e, new, w)[y] = ValuesOf(I, d, ins, w)[y]

\* What was found before is found again.
Kept(I, D, d, ins, w, e, new) ==
    \A j \in I, m \in 0 .. MAXFILE - 1 :
        PastIn(w, j) = 0 /\ Lk(d, ins[j].addrs, m) # 0 =>
            /\ Lk(e, new[j].addrs, m) = Lk(d, ins[j].addrs, m)
            /\ e[Lk(d, ins[j].addrs, m)] = d[Lk(d, ins[j].addrs, m)]

LEMMA EnterInInode ==
    ASSUME NEW I, NEW D, NEW d, NEW ins, NEW w, NEW T, NEW i, NEW bn, NEW b, NEW e, NEW new,
           Enters(I, D, d, ins, w, T, i, bn, b, e, new), InInode(ins[i], bn)
    PROVE  OnePlace(I, D, d, ins, w, b, e, new) /\ Kept(I, D, d, ins, w, e, new)
<1>1. PICK k0 : k0 = Min2(bn, NDIRECT)
  OBVIOUS
<1>2. /\ ins \in [I -> InoType] /\ i \in I /\ bn \in 0 .. MAXFILE - 1 /\ b \in Nat /\ b # 0
      /\ d \in [D -> [Cells -> Nat]] /\ e = d /\ PastIn(w, i) = 0
  BY DEF Enters, Placed, BlocksWith
<1>3. ins[i] \in InoType /\ k0 \in 0 .. NDIRECT
  BY <1>1, <1>2, BlockConstants DEF Min2
<1>4. /\ new \in [I -> InoType] /\ \A j \in I : j # i => new[j] = ins[j]
      /\ \A k \in 0 .. NDIRECT : new[i].addrs[k] = IF k = k0 THEN b ELSE ins[i].addrs[k]
  <2>1. new = [ins EXCEPT ![i] = InodeWith(ins[i], bn, b)]
    BY DEF Enters
  <2>2. PICK r : r = InodeWith(ins[i], bn, b)
    OBVIOUS
  <2>3. r \in InoType /\ \A k \in 0 .. NDIRECT : r.addrs[k] = IF k = k0 THEN b ELSE ins[i].addrs[k]
    BY ZenonT(60), <1>1, <1>2, <1>3, <2>2, InodeWithIs
  <2>4. new = [ins EXCEPT ![i] = r]
    BY <2>1, <2>2
  <2> QED
    BY <1>2, <2>3, <2>4
\* The place: the direct block's, or the indirect block's.
<1>5. PICK kk \in 0 .. MAXFILE : kk = IF bn < NDIRECT THEN bn ELSE MAXFILE
  BY <1>2, BlockConstants
<1>6. Lk(d, ins[i].addrs, bn) = 0 /\ (bn < NDIRECT \/ ins[i].addrs[NDIRECT] = 0) /\ d[b] = ZeroBlock
  BY DEF Enters, InInode
<1>7. \A k \in 0 .. MAXFILE : Ad(d, new[i].addrs, k) = IF k = kk THEN b ELSE Ad(d, ins[i].addrs, k)
  <2>1. CASE bn < NDIRECT
    <3>1. k0 = bn /\ kk = bn
      BY <1>1, <1>2, <1>5, <2>1, BlockConstants DEF Min2
    <3>2. new[i].addrs[NDIRECT] = ins[i].addrs[NDIRECT] /\ new[i].addrs[bn] = b
      BY <1>2, <1>4, <2>1, <3>1, BlockConstants
    <3>3. \A k \in 0 .. MAXFILE : k < NDIRECT /\ k # bn => new[i].addrs[k] = ins[i].addrs[k]
      BY <1>4, <3>1, BlockConstants
    <3>4. ASSUME NEW k \in 0 .. MAXFILE
          PROVE  Ad(d, new[i].addrs, k) = IF k = kk THEN b ELSE Ad(d, ins[i].addrs, k)
      BY <1>2, <2>1, <3>1, <3>2, <3>3, BlockConstants DEF Ad, Lk
    <3> QED
      BY <3>4
  <2>2. CASE ~(bn < NDIRECT)
    <3>1. k0 = NDIRECT /\ kk = MAXFILE
      BY <1>1, <1>2, <1>5, <2>2, BlockConstants DEF Min2
    <3>2. new[i].addrs[NDIRECT] = b /\ ins[i].addrs[NDIRECT] = 0
      BY <1>4, <1>6, <2>2, <3>1, BlockConstants
    <3>3. \A k \in 0 .. MAXFILE : k < NDIRECT => new[i].addrs[k] = ins[i].addrs[k]
      BY <1>4, <3>1, BlockConstants
    <3>4. \A k \in 0 .. MAXFILE : ~(k < NDIRECT) /\ k < MAXFILE => d[b][k - NDIRECT] = 0
      BY <1>6, BlockConstants DEF ZeroBlock, Cells
    <3>5. ASSUME NEW k \in 0 .. MAXFILE
          PROVE  Ad(d, new[i].addrs, k) = IF k = kk THEN b ELSE Ad(d, ins[i].addrs, k)
      BY <1>2, <2>2, <3>1, <3>2, <3>3, <3>4, BlockConstants DEF Ad, Lk
    <3> QED
      BY <3>5
  <2> QED
    BY <2>1, <2>2
<1>8. Ad(d, ins[i].addrs, kk) = 0
  BY <1>2, <1>5, <1>6, BlockConstants DEF Ad, Lk
<1>9. ASSUME NEW y \in SlotsOf(I)
      PROVE  /\ y # <<i, kk>> => ValuesOf(I, e, new, w)[y] = ValuesOf(I, d, ins, w)[y]
             /\ y = <<i, kk>> => ValuesOf(I, e, new, w)[y] = b /\ ValuesOf(I, d, ins, w)[y] = 0
  <2>1. y[1] \in I /\ y[2] \in 0 .. MAXFILE /\ y = <<y[1], y[2]>> /\ ~(y[2] < 0)
    BY SlotPair, BlockConstants
  <2>2. /\ ValuesOf(I, e, new, w)[y] = IF y[2] < PastIn(w, y[1]) THEN 0 ELSE Ad(d, new[y[1]].addrs, y[2])
        /\ ValuesOf(I, d, ins, w)[y] = IF y[2] < PastIn(w, y[1]) THEN 0 ELSE Ad(d, ins[y[1]].addrs, y[2])
    BY <1>2 DEF ValuesOf
  <2>3. CASE y[1] = i
    BY <1>2, <1>7, <1>8, <2>1, <2>2, <2>3
  <2>4. CASE y[1] # i
    BY <1>4, <2>1, <2>2, <2>4
  <2> QED
    BY <2>3, <2>4
<1>10. <<i, kk>> \in SlotsOf(I)
  BY <1>2, <1>5 DEF SlotsOf
<1>11. OnePlace(I, D, d, ins, w, b, e, new)
  BY <1>2, <1>4, <1>9, <1>10 DEF OnePlace
<1>12. ASSUME NEW j \in I, NEW m \in 0 .. MAXFILE - 1, Lk(d, ins[j].addrs, m) # 0
       PROVE  Lk(d, new[j].addrs, m) = Lk(d, ins[j].addrs, m)
  <2>1. CASE j = i
    <3>1. m \in 0 .. MAXFILE /\ m # kk /\ m < MAXFILE
      BY <1>5, <1>6, <1>12, <2>1, BlockConstants
    <3> QED
      BY <1>7, <2>1, <3>1 DEF Ad
  <2>2. CASE j # i
    BY <1>4, <2>2
  <2> QED
    BY <2>1, <2>2
<1> QED
  BY <1>2, <1>11, <1>12 DEF Kept

LEMMA EnterInIndirect ==
    ASSUME NEW I, NEW D, NEW d, NEW ins, NEW w, NEW T, NEW i, NEW bn, NEW b, NEW e, NEW new,
           Enters(I, D, d, ins, w, T, i, bn, b, e, new), ~InInode(ins[i], bn)
    PROVE  OnePlace(I, D, d, ins, w, b, e, new) /\ Kept(I, D, d, ins, w, e, new)
<1>1. PICK c : c = ins[i].addrs[NDIRECT]
  OBVIOUS
<1>2. /\ ins \in [I -> InoType] /\ i \in I /\ bn \in 0 .. MAXFILE - 1 /\ b \in Nat /\ b # 0
      /\ d \in [D -> [Cells -> Nat]] /\ PastIn(w, i) = 0 /\ ~(bn < NDIRECT) /\ c # 0
      /\ Placed(I, D, d, ins, w, T) /\ T \subseteq D
  BY <1>1 DEF Enters, Placed, InInode
<1>3. new = ins
  <2>1. InodeWith(ins[i], bn, b) = ins[i] /\ new = [ins EXCEPT ![i] = InodeWith(ins[i], bn, b)]
    BY DEF InodeWith, Enters
  <2> QED
    BY <1>2, <2>1
<1>4. c \in T /\ c \in D /\ \A j \in I : ins[j].addrs[NDIRECT] = c => j = i
  <2>1. c \in T
    BY <1>1, <1>2, IndirectPlace
  <2>2. ASSUME NEW j \in I, ins[j].addrs[NDIRECT] = c PROVE j = i
    <3>1. ins[i].addrs[NDIRECT] # 0 /\ ins[j].addrs[NDIRECT] = ins[i].addrs[NDIRECT]
      BY <1>1, <1>2, <2>2
    <3> QED
      BY <1>2, <3>1, IndirectsApart
  <2> QED
    BY <1>2, <2>1, <2>2
<1>5. PICK z \in Cells : z = bn - NDIRECT
  BY <1>2, BlockConstants DEF Cells
<1>6. PICK r : r = [d[c] EXCEPT ![z] = b]
  OBVIOUS
<1>7. r \in [Cells -> Nat] /\ \A k \in Cells : r[k] = IF k = z THEN b ELSE d[c][k]
  BY <1>2, <1>4, <1>5, <1>6
<1>8. e = [d EXCEPT ![c] = r]
  BY <1>1, <1>5, <1>6 DEF Enters, BlocksWith
<1>9. e \in [D -> [Cells -> Nat]] /\ e[c] = r /\ \A k \in D : k # c => e[k] = d[k]
  BY <1>2, <1>4, <1>7, <1>8
<1>10. ASSUME NEW j \in I, NEW m \in 0 .. MAXFILE - 1
       PROVE  Lk(e, ins[j].addrs, m) = IF j = i /\ m = bn THEN b ELSE Lk(d, ins[j].addrs, m)
  <2>1. CASE m < NDIRECT
    BY <1>2, <2>1 DEF Lk
  <2>2. CASE ~(m < NDIRECT) /\ j = i
    <3>1. m - NDIRECT \in Cells /\ (m - NDIRECT = z <=> m = bn)
      BY <1>2, <1>5, <2>2, BlockConstants DEF Cells
    <3>2. Lk(e, ins[j].addrs, m) = r[m - NDIRECT] /\ Lk(d, ins[j].addrs, m) = d[c][m - NDIRECT]
      BY <1>1, <1>2, <1>9, <2>2 DEF Lk
    <3> QED
      BY <1>7, <2>2, <3>1, <3>2
  <2>3. CASE ~(m < NDIRECT) /\ j # i
    <3>1. ins[j].addrs[NDIRECT] # 0 => ins[j].addrs[NDIRECT] \in D /\ ins[j].addrs[NDIRECT] # c
      BY <1>2, <1>4, <2>3, IndirectPlace
    <3> QED
      BY <1>9, <2>3, <3>1 DEF Lk
  <2> QED
    BY <2>1, <2>2, <2>3
<1>11. Lk(d, ins[i].addrs, bn) = 0
  BY DEF Enters
<1>12. bn \in 0 .. MAXFILE /\ bn < MAXFILE
  BY <1>2, BlockConstants
<1>13. ASSUME NEW y \in SlotsOf(I)
      PROVE  /\ y # <<i, bn>> => ValuesOf(I, e, ins, w)[y] = ValuesOf(I, d, ins, w)[y]
             /\ y = <<i, bn>> => ValuesOf(I, e, ins, w)[y] = b /\ ValuesOf(I, d, ins, w)[y] = 0
  <2>1. y[1] \in I /\ y[2] \in 0 .. MAXFILE /\ y = <<y[1], y[2]>> /\ ~(y[2] < 0)
    BY SlotPair, BlockConstants
  <2>2. /\ ValuesOf(I, e, ins, w)[y] = IF y[2] < PastIn(w, y[1]) THEN 0 ELSE Ad(e, ins[y[1]].addrs, y[2])
        /\ ValuesOf(I, d, ins, w)[y] = IF y[2] < PastIn(w, y[1]) THEN 0 ELSE Ad(d, ins[y[1]].addrs, y[2])
    BY DEF ValuesOf
  <2>3. CASE y[2] < MAXFILE
    <3>1. y[2] \in 0 .. MAXFILE - 1
      BY <2>1, <2>3, BlockConstants
    <3>2. /\ Ad(e, ins[y[1]].addrs, y[2]) = Lk(e, ins[y[1]].addrs, y[2])
          /\ Ad(d, ins[y[1]].addrs, y[2]) = Lk(d, ins[y[1]].addrs, y[2])
      BY <2>3 DEF Ad
    <3>3. Lk(e, ins[y[1]].addrs, y[2])
            = IF y[1] = i /\ y[2] = bn THEN b ELSE Lk(d, ins[y[1]].addrs, y[2])
      BY <1>10, <2>1, <3>1
    <3> QED
      BY <1>2, <1>11, <2>1, <2>2, <3>2, <3>3
  <2>4. CASE ~(y[2] < MAXFILE)
    <3>1. Ad(e, ins[y[1]].addrs, y[2]) = Ad(d, ins[y[1]].addrs, y[2])
      BY <2>4 DEF Ad
    <3>2. y # <<i, bn>>
      BY <1>12, <2>4
    <3> QED
      BY <2>2, <3>1, <3>2
  <2> QED
    BY <2>3, <2>4
<1>14. <<i, bn>> \in SlotsOf(I)
  BY <1>2, <1>12 DEF SlotsOf
<1>15. OnePlace(I, D, d, ins, w, b, e, new)
  BY <1>2, <1>3, <1>9, <1>13, <1>14 DEF OnePlace
<1>16. ASSUME NEW j \in I, NEW m \in 0 .. MAXFILE - 1, PastIn(w, j) = 0, Lk(d, ins[j].addrs, m) # 0
       PROVE  /\ Lk(e, ins[j].addrs, m) = Lk(d, ins[j].addrs, m)
              /\ e[Lk(d, ins[j].addrs, m)] = d[Lk(d, ins[j].addrs, m)]
  <2>1. Lk(d, ins[j].addrs, m) \in T
    <3>1. Placed(I, D, d, ins, w, T)
      BY <1>2
    <3> QED
      BY ONLY <1>16, <3>1, DataPlace
  <2>2. Lk(d, ins[j].addrs, m) # c
    BY <1>1, <1>2, <1>16, DataApart
  <2> QED
    BY <1>2, <1>9, <1>10, <1>11, <1>16, <2>1, <2>2
<1> QED
  BY <1>3, <1>15, <1>16 DEF Kept

\* Both ways the block is in one place more.
LEMMA BlockEntered ==
    ASSUME NEW I, NEW D, NEW d, NEW ins, NEW w, NEW T, NEW i, NEW bn, NEW b, NEW e, NEW new,
           Enters(I, D, d, ins, w, T, i, bn, b, e, new)
    PROVE  Placed(I, D, e, new, w, T \cup {b}) /\ Kept(I, D, d, ins, w, e, new)
<1>1. OnePlace(I, D, d, ins, w, b, e, new) /\ Kept(I, D, d, ins, w, e, new)
  BY EnterInInode, EnterInIndirect
<1>2. /\ Placed(I, D, d, ins, w, T) /\ b \in D /\ b \notin T /\ b # 0 /\ i \in I /\ PastIn(w, i) = 0
      /\ ins \in [I -> InoType] /\ new = [ins EXCEPT ![i] = InodeWith(ins[i], bn, b)] /\ 0 \notin T
  BY DEF Enters, Placed
<1>3. PICK x \in SlotsOf(I) :
         /\ ValuesOf(I, d, ins, w)[x] = 0 /\ ValuesOf(I, e, new, w)[x] = b
         /\ \A y \in SlotsOf(I) : y # x => ValuesOf(I, e, new, w)[y] = ValuesOf(I, d, ins, w)[y]
  BY <1>1 DEF OnePlace
<1>4. OwnedOnce(SlotsOf(I), ValuesOf(I, e, new, w), T \cup {b})
  <2>1. OwnedOnce(SlotsOf(I), ValuesOf(I, d, ins, w), T)
    BY <1>2 DEF Placed
  <2> QED
    BY ONLY <1>2, <1>3, <2>1, PlaceTaken
<1>5. \A j \in I : PastIn(w, j) \in Nat /\ (PastIn(w, j) > MAXFILE => new[j].addrs[NDIRECT] = 0)
  <2>1. \A j \in I : PastIn(w, j) \in Nat /\ (PastIn(w, j) > MAXFILE => ins[j].addrs[NDIRECT] = 0)
    BY <1>2 DEF Placed
  <2>2. \A j \in I : j # i => new[j] = ins[j]
    BY <1>2
  <2>3. ~(PastIn(w, i) > MAXFILE)
    BY <1>2, BlockConstants
  <2> QED
    BY <2>1, <2>2, <2>3
<1>6. T \cup {b} \subseteq D
  BY <1>2 DEF Placed
<1> QED
  BY <1>1, <1>2, <1>4, <1>5, <1>6 DEF Placed, OnePlace
-----------------------------------------------------------------------------
\* Nothing moves while the addresses stay, and an inode without addresses can
\* begin or end to be truncated.
AddrsKept(I, ins, w, new, u) ==
    /\ new \in [I -> InoType]
    /\ \A j \in I : /\ new[j].addrs = ins[j].addrs /\ PastIn(u, j) \in Nat
                    /\ PastIn(u, j) = PastIn(w, j) \/ new[j].addrs = NoAddrs

LEMMA PlacesKept ==
    ASSUME NEW I, NEW D, NEW d, NEW ins, NEW w, NEW T, Placed(I, D, d, ins, w, T), NEW u, NEW new,
           AddrsKept(I, ins, w, new, u)
    PROVE  Placed(I, D, d, new, u, T)
<1>0. /\ new \in [I -> InoType]
      /\ \A j \in I : /\ new[j].addrs = ins[j].addrs /\ PastIn(u, j) \in Nat
                      /\ PastIn(u, j) = PastIn(w, j) \/ new[j].addrs = NoAddrs
  BY DEF AddrsKept
<1>1. ASSUME NEW a, a = NoAddrs, NEW k \in 0 .. MAXFILE PROVE Ad(d, a, k) = 0
  BY <1>1, BlockConstants DEF NoAddrs, Ad, Lk
<1>2. ASSUME NEW x \in SlotsOf(I)
      PROVE  ValuesOf(I, d, new, u)[x] = ValuesOf(I, d, ins, w)[x]
  <2>1. x[1] \in I /\ x[2] \in 0 .. MAXFILE
    BY SlotPair
  <2>2. CASE PastIn(u, x[1]) = PastIn(w, x[1])
    BY <1>0, <2>1, <2>2 DEF ValuesOf
  <2>3. CASE new[x[1]].addrs = NoAddrs
    <3>1. Ad(d, new[x[1]].addrs, x[2]) = 0 /\ Ad(d, ins[x[1]].addrs, x[2]) = 0
      BY <1>0, <1>1, <2>1, <2>3
    <3> QED
      BY <3>1 DEF ValuesOf
  <2> QED
    BY <1>0, <2>1, <2>2, <2>3
<1>3. OwnedOnce(SlotsOf(I), ValuesOf(I, d, new, u), T)
  BY <1>2, PlacesSame DEF Placed
<1>4. ASSUME NEW j \in I, PastIn(u, j) > MAXFILE PROVE new[j].addrs[NDIRECT] = 0
  <2>1. NoAddrs[NDIRECT] = 0
    BY BlockConstants DEF NoAddrs
  <2>2. PastIn(w, j) > MAXFILE => ins[j].addrs[NDIRECT] = 0
    BY DEF Placed
  <2>3. CASE PastIn(u, j) = PastIn(w, j)
    BY <1>0, <1>4, <2>2, <2>3
  <2>4. CASE new[j].addrs = NoAddrs
    BY <2>1, <2>4
  <2> QED
    BY <1>0, <2>3, <2>4
<1> QED
  BY <1>0, <1>3, <1>4 DEF Placed

\* itrunc frees a block: it is in no place.
LEMMA BlockFreed ==
    ASSUME NEW I, NEW D, NEW d, NEW ins, NEW w, NEW T, Placed(I, D, d, ins, w, T), NEW u,
           NEW i \in I, NEW k \in 0 .. MAXFILE, PastIn(w, i) = k, PastIn(u, i) = k + 1,
           \A j \in I : j # i => PastIn(u, j) = PastIn(w, j),
           NEW new \in [I -> InoType], \A j \in I : j # i => new[j] = ins[j],
           \A m \in 0 .. NDIRECT :
             new[i].addrs[m] = IF (m = k /\ k < NDIRECT) \/ (m = NDIRECT /\ k = MAXFILE) THEN 0
                               ELSE ins[i].addrs[m]
    PROVE  Placed(I, D, d, new, u, T \ {Ad(d, ins[i].addrs, k)})
<1>1. ASSUME NEW m \in 0 .. MAXFILE, m > k PROVE Ad(d, new[i].addrs, m) = Ad(d, ins[i].addrs, m)
  <2>1. k < MAXFILE
    BY <1>1, BlockConstants
  <2>2. new[i].addrs[NDIRECT] = ins[i].addrs[NDIRECT]
    BY <2>1, BlockConstants
  <2>3. m < NDIRECT => new[i].addrs[m] = ins[i].addrs[m]
    BY <1>1, BlockConstants
  <2> QED
    BY <2>2, <2>3 DEF Ad, Lk
<1>2. ASSUME NEW x \in SlotsOf(I)
      PROVE  /\ x # <<i, k>> => ValuesOf(I, d, new, u)[x] = ValuesOf(I, d, ins, w)[x]
             /\ x = <<i, k>> => /\ ValuesOf(I, d, new, u)[x] = 0
                                /\ ValuesOf(I, d, ins, w)[x] = Ad(d, ins[i].addrs, k)
  <2>1. x[1] \in I /\ x[2] \in 0 .. MAXFILE /\ x = <<x[1], x[2]>>
    BY SlotPair
  <2>2. /\ ValuesOf(I, d, new, u)[x] = IF x[2] < PastIn(u, x[1]) THEN 0 ELSE Ad(d, new[x[1]].addrs, x[2])
        /\ ValuesOf(I, d, ins, w)[x] = IF x[2] < PastIn(w, x[1]) THEN 0 ELSE Ad(d, ins[x[1]].addrs, x[2])
    BY DEF ValuesOf
  <2>3. CASE x[1] = i
    <3>1. x = <<i, k>> <=> x[2] = k
      BY <2>1, <2>3
    <3>2. /\ x[2] < PastIn(u, x[1]) <=> x[2] <= k
          /\ x[2] < PastIn(w, x[1]) <=> x[2] < k
      BY <2>1, <2>3, BlockConstants
    <3>3. x[2] > k => Ad(d, new[x[1]].addrs, x[2]) = Ad(d, ins[x[1]].addrs, x[2])
      BY <1>1, <2>1, <2>3
    <3> QED
      BY <2>1, <2>2, <2>3, <3>1, <3>2, <3>3, BlockConstants
  <2>4. CASE x[1] # i
    BY <2>1, <2>2, <2>4
  <2> QED
    BY <2>3, <2>4
<1>3. <<i, k>> \in SlotsOf(I)
  BY DEF SlotsOf
<1>4. PICK v, v2 : v = ValuesOf(I, d, ins, w) /\ v2 = ValuesOf(I, d, new, u)
  OBVIOUS
<1>5. OwnedOnce(SlotsOf(I), v, T) /\ 0 \notin T
  BY <1>4 DEF Placed
<1>6. OwnedOnce(SlotsOf(I), v2, T \ {v[<<i, k>>]})
  <2>1. v2[<<i, k>>] = 0 /\ \A y \in SlotsOf(I) : y # <<i, k>> => v2[y] = v[y]
    BY <1>2, <1>3, <1>4
  <2> QED
    BY ONLY <1>3, <1>5, <2>1, PlaceFreed
<1>7. OwnedOnce(SlotsOf(I), ValuesOf(I, d, new, u), T \ {Ad(d, ins[i].addrs, k)})
  BY <1>2, <1>3, <1>4, <1>6
<1>8. ASSUME NEW j \in I
      PROVE  PastIn(u, j) \in Nat /\ (PastIn(u, j) > MAXFILE => new[j].addrs[NDIRECT] = 0)
  <2>1. CASE j = i
    <3>1. k + 1 \in Nat /\ (k + 1 > MAXFILE => k = MAXFILE)
      BY BlockConstants
    <3>2. k = MAXFILE => new[i].addrs[NDIRECT] = 0
      BY BlockConstants
    <3> QED
      BY <2>1, <3>1, <3>2
  <2>2. CASE j # i
    BY <2>2 DEF Placed
  <2> QED
    BY <2>1, <2>2
<1> QED
  BY <1>7, <1>8 DEF Placed
-----------------------------------------------------------------------------
\* One process truncates an inode.
OneTrunc(w) ==
    \A p, q \in Writers : w[p].pc = "itrunc" /\ w[q].pc = "itrunc" /\ w[p].i = w[q].i => p = q
Truncates(w, p, i) == w[p].pc = "itrunc" /\ w[p].i = i

LEMMA PastIs ==
    ASSUME NEW w, OneTrunc(w), NEW p \in Writers, NEW i, Truncates(w, p, i)
    PROVE  PastIn(w, i) = w[p].k
<1>1. PICK q : q = CHOOSE r \in Writers : w[r].pc = "itrunc" /\ w[r].i = i
  OBVIOUS
<1>2. q \in Writers /\ w[q].pc = "itrunc" /\ w[q].i = i
  BY <1>1 DEF Truncates
<1>3. q = p
  BY <1>2 DEF OneTrunc, Truncates
<1> QED
  BY <1>1, <1>3 DEF PastIn, Truncates

LEMMA PastNone ==
    ASSUME NEW w, NEW i, \A p \in Writers : ~Truncates(w, p, i)
    PROVE  PastIn(w, i) = 0
  BY DEF PastIn, Truncates

\* The steps of other processes leave it where it is.
LEMMA PastSame ==
    ASSUME NEW w, OneTrunc(w), NEW u, OneTrunc(u), NEW i,
           \A p \in Writers : Truncates(w, p, i) <=> Truncates(u, p, i),
           \A p \in Writers : Truncates(w, p, i) => w[p].k = u[p].k
    PROVE  PastIn(u, i) = PastIn(w, i)
<1>1. CASE \A p \in Writers : ~Truncates(w, p, i)
  BY <1>1, PastNone
<1>2. ASSUME NEW p \in Writers, Truncates(w, p, i) PROVE PastIn(u, i) = PastIn(w, i)
  BY <1>2, PastIs
<1> QED
  BY <1>1, <1>2
-----------------------------------------------------------------------------
\* The bytes that were in their places before bmap are there after it.
LEMMA BytesKept ==
    ASSUME NEW I, NEW D, NEW d, NEW ins, NEW w, NEW e, NEW new, Kept(I, D, d, ins, w, e, new),
           NEW j \in I, PastIn(w, j) = 0, NEW x \in Nat, x < MAXFILE * BSIZE, NEW y,
           ByteAt(d, ins, j, x, y)
    PROVE  ByteAt(e, new, j, x, y)
<1>1. x \div BSIZE \in 0 .. MAXFILE - 1
  BY BlockOf
<1> QED
  BY <1>1 DEF Kept, ByteAt

\* writei, and iappend, copy m bytes of v into the block of the offset off.
Copied(d, b, off, m, v) ==
    [d EXCEPT ![b] = [c \in Cells |-> IF c \in (off % BSIZE) .. (off % BSIZE) + m - 1
                                      THEN v[off + c - (off % BSIZE)] ELSE d[b][c]]]

LEMMA BytesCopied ==
    ASSUME NEW I, NEW D, NEW d, NEW ins, NEW w, NEW T, Placed(I, D, d, ins, w, T),
           NEW i \in I, PastIn(w, i) = 0, NEW off \in Nat, off \div BSIZE < MAXFILE,
           NEW b, b = Lk(d, ins[i].addrs, off \div BSIZE), b # 0,
           NEW m \in Nat, (off % BSIZE) + m <= BSIZE, NEW v \in [Nat -> Nat],
           NEW e, e = Copied(d, b, off, m, v)
    PROVE  /\ Placed(I, D, e, ins, w, T)
           /\ \A j \in I, x \in Nat : \A y :
                PastIn(w, j) = 0 /\ x < MAXFILE * BSIZE /\ ByteAt(d, ins, j, x, y)
                  /\ (j = i => x \notin off .. off + m - 1) => ByteAt(e, ins, j, x, y)
           /\ \A x \in off .. off + m - 1 : ByteAt(e, ins, i, x, v[x])
<1>0. PICK B \in Nat \ {0}, r \in Nat, bn \in 0 .. MAXFILE - 1 :
         B = BSIZE /\ r = off % BSIZE /\ r \in 0 .. B - 1 /\ bn = off \div BSIZE /\ r <= off /\ r + m <= B
  <2>1. off % BSIZE \in 0 .. BSIZE - 1 /\ off % BSIZE <= off /\ off \div BSIZE \in Nat
    BY BlockOf
  <2>2. PICK B \in Nat \ {0}, r, bn, M \in Nat :
           B = BSIZE /\ r = off % BSIZE /\ bn = off \div BSIZE /\ M = MAXFILE
    BY BlockConstants
  <2>3. r \in 0 .. B - 1 /\ r <= off /\ r + m <= B /\ bn \in Nat /\ bn < M
    BY <2>1, <2>2
  <2>4. bn \in 0 .. MAXFILE - 1 /\ r \in Nat
    BY <2>2, <2>3
  <2> QED
    BY <2>2, <2>3, <2>4
<1>1. b \in T /\ b \in D /\ d \in [D -> [Cells -> Nat]]
  <2>1. Lk(d, ins[i].addrs, bn) # 0
    BY <1>0
  <2>2. Lk(d, ins[i].addrs, bn) \in T
    BY ONLY Placed(I, D, d, ins, w, T), i \in I, PastIn(w, i) = 0, <1>0, <2>1, DataPlace
  <2> QED
    BY <1>0, <2>2 DEF Placed
<1>2. /\ \A j \in I : ins[j].addrs[NDIRECT] # b
      /\ \A j \in I, n \in 0 .. MAXFILE - 1 :
           PastIn(w, j) = 0 /\ Lk(d, ins[j].addrs, n) = b => j = i /\ n = bn
  <2>1. Lk(d, ins[i].addrs, bn) # 0
    BY <1>0
  <2>2. /\ \A j \in I : ins[j].addrs[NDIRECT] # Lk(d, ins[i].addrs, bn)
        /\ \A j \in I, n \in 0 .. MAXFILE - 1 :
             PastIn(w, j) = 0 /\ Lk(d, ins[j].addrs, n) = Lk(d, ins[i].addrs, bn) => j = i /\ n = bn
    BY ONLY Placed(I, D, d, ins, w, T), i \in I, PastIn(w, i) = 0, <1>0, <2>1, DataApart
  <2> QED
    BY <1>0, <2>2
<1>3. PICK z \in [Cells -> Nat] :
         /\ e = [d EXCEPT ![b] = z]
         /\ \A c \in Cells : z[c] = IF c \in r .. r + m - 1 THEN v[off + c - r] ELSE d[b][c]
  <2>1. PICK z : z = [c \in Cells |-> IF c \in r .. r + m - 1 THEN v[off + c - r] ELSE d[b][c]]
    OBVIOUS
  <2>2. ASSUME NEW c \in Cells PROVE z[c] \in Nat
    <3>1. c \in r .. r + m - 1 => off + c - r \in Nat
      BY <1>0
    <3>2. d[b][c] \in Nat
      BY <1>1
    <3> QED
      BY <2>1, <3>1, <3>2
  <2>3. z \in [Cells -> Nat]
    BY <2>1, <2>2
  <2> QED
    BY <1>0, <2>1, <2>3 DEF Copied
<1>4. e \in [D -> [Cells -> Nat]] /\ e[b] = z /\ \A c \in D : c # b => e[c] = d[c]
  BY <1>1, <1>3
<1>5. /\ Placed(I, D, e, ins, w, T)
      /\ \A j \in I, n \in Nat : Lk(e, ins[j].addrs, n) = Lk(d, ins[j].addrs, n)
  <2>1. Placed(I, D, d, ins, w, T)
    OBVIOUS
  <2> QED
    BY ONLY <1>1, <1>2, <1>4, <2>1, BlockChanged
<1>6. ASSUME NEW j \in I, NEW x \in Nat, NEW y, PastIn(w, j) = 0, x < MAXFILE * BSIZE,
             ByteAt(d, ins, j, x, y), j = i => x \notin off .. off + m - 1
      PROVE  ByteAt(e, ins, j, x, y)
  <2>1. PICK n \in 0 .. MAXFILE - 1, c \in Cells : n = x \div BSIZE /\ c = x % BSIZE
    BY <1>6, BlockOf
  <2>2. PICK a : a = Lk(d, ins[j].addrs, n) /\ a # 0 /\ d[a][c] = y
    BY <1>6, <2>1 DEF ByteAt
  <2>3. a \in D
    <3>1. a \in T
      BY ONLY Placed(I, D, d, ins, w, T), <1>6, <2>1, <2>2, DataPlace
    <3> QED
      BY <3>1 DEF Placed
  <2>4. e[a][c] = y
    <3>1. CASE a # b
      BY <1>4, <2>2, <2>3, <3>1
    <3>2. CASE a = b
      <4>1. j = i /\ n = bn
        BY <1>2, <1>6, <2>2, <3>2
      <4>2. x - c = off - r /\ c \in Nat
        <5>1. x \div BSIZE = off \div BSIZE
          BY <1>0, <2>1, <4>1
        <5>2. x - (x % BSIZE) = off - (off % BSIZE)
          BY <5>1, Offsets
        <5>3. x % BSIZE \in Nat
          BY BlockOf, BlockConstants
        <5> QED
          BY <1>0, <2>1, <5>2, <5>3
      <4>3. c \notin r .. r + m - 1
        BY <1>0, <1>6, <4>1, <4>2
      <4> QED
        BY <1>3, <1>4, <2>2, <3>2, <4>3
    <3> QED
      BY <3>1, <3>2
  <2>5. Lk(e, ins[j].addrs, n) = a
    <3>1. n \in Nat
      BY <2>1, BlockConstants
    <3> QED
      BY <1>5, <2>2, <3>1
  <2> QED
    BY <2>1, <2>2, <2>4, <2>5 DEF ByteAt
<1>7. ASSUME NEW x \in off .. off + m - 1 PROVE ByteAt(e, ins, i, x, v[x])
  <2>1. x \in Nat /\ x >= off - (off % BSIZE) /\ x < off - (off % BSIZE) + BSIZE
    BY <1>0
  <2>2. x \div BSIZE = bn /\ x % BSIZE = x - (off - r)
    BY <1>0, <2>1, SameBlock
  <2>3. PICK c \in Cells : c = x % BSIZE /\ c = x - (off - r)
    BY <2>1, <2>2, Offsets
  <2>4. c \in r .. r + m - 1 /\ off + c - r = x
    BY <1>0, <2>1, <2>3
  <2>5. e[b][c] = v[x]
    BY <1>3, <1>4, <2>4
  <2>6. Lk(e, ins[i].addrs, bn) = b
    <3>1. bn \in Nat /\ Lk(d, ins[i].addrs, bn) = b
      BY <1>0, BlockConstants
    <3> QED
      BY <1>5, <3>1
  <2> QED
    BY <2>2, <2>3, <2>5, <2>6 DEF ByteAt
<1> QED
  BY <1>5, <1>6, <1>7
-----------------------------------------------------------------------------
\* Who has the lock of an inode, when a process goes on, takes one or gives one up.
LEMMA OwnersStay ==
    ASSUME NEW I, NEW own, NEW w, NEW S, w \in [Writers -> S], Owners(I, own, w),
           NEW p \in Writers, NEW l, NEW u, u = [w EXCEPT ![p] = l],
           l.pc \in InLocked <=> w[p].pc \in InLocked, l.pc \in InLocked => l.i = w[p].i
    PROVE  Owners(I, own, u)
<1>1. u[p] = l /\ \A q \in Writers : q # p => u[q] = w[q]
  OBVIOUS
<1> QED
  BY <1>1 DEF Owners

LEMMA OwnersTake ==
    ASSUME NEW I, NEW own, NEW w, NEW S, w \in [Writers -> S], Owners(I, own, w), NEW R, own \in [I -> R],
           NEW p \in Writers, NEW l, NEW u, u = [w EXCEPT ![p] = l], NEW i \in I, own[i] = Nobody,
           NEW new, new = [own EXCEPT ![i] = p], w[p].pc \notin InLocked, l.pc \in InLocked, l.i = i
    PROVE  Owners(I, new, u)
<1>1. u[p] = l /\ \A q \in Writers : q # p => u[q] = w[q]
  OBVIOUS
<1>2. new[i] = p /\ \A j \in I : j # i => new[j] = own[j]
  OBVIOUS
<1>3. Nobody \notin Writers
  BY BlocksAssumption
<1> QED
  BY <1>1, <1>2, <1>3 DEF Owners

LEMMA OwnersDrop ==
    ASSUME NEW I, NEW own, NEW w, NEW S, w \in [Writers -> S], Owners(I, own, w), NEW R, own \in [I -> R],
           NEW p \in Writers, NEW l, NEW u, u = [w EXCEPT ![p] = l], NEW i \in I, w[p].pc \in InLocked,
           w[p].i = i, NEW new, new = [own EXCEPT ![i] = Nobody], l.pc \notin InLocked
    PROVE  Owners(I, new, u)
<1>1. u[p] = l /\ \A q \in Writers : q # p => u[q] = w[q]
  OBVIOUS
<1>2. new[i] = Nobody /\ \A j \in I : j # i => new[j] = own[j]
  OBVIOUS
<1>3. Nobody \notin Writers
  BY BlocksAssumption
<1> QED
  BY <1>1, <1>2, <1>3 DEF Owners

LEMMA OwnersTruncate ==
    ASSUME NEW I, NEW own, NEW w, Owners(I, own, w), \A p \in Writers : w[p].pc = "itrunc" => w[p].i \in I
    PROVE  OneTrunc(w)
  BY DEF Owners, OneTrunc, InLocked

\* The disk of an invariant state.
LEMMA DiskFacts ==
    ASSUME BlocksTypes
    PROVE  /\ sb.size \in Nat /\ sb.size > NMeta /\ sb.ninodes \in Nat /\ sb.ninodes >= 3
           /\ 1 \in FileInums /\ 2 \in FileInums /\ FileInums \subseteq Nat \ {0}
           /\ Data \subseteq Nat \ {0} /\ NMeta \in Data
<1>1. sb \in [size : Nat, ninodes : Nat \ {0, 1, 2}] /\ sb.size > NMeta
  BY BlocksAssumption DEF BlocksTypes
<1> QED
  BY <1>1, BlockConstants DEF FileInums, Data

LEMMA ByteIs ==
    ASSUME BlocksTypes, NEW i \in FileInums, NEW x \in Nat
    PROVE  Byte(i, x) \in Nat
<1>1. PICK n \in Nat \ {0} : n = sb.size - NMeta
  BY DiskFacts, BlockConstants
<1>2. PICK a \in Nat : a = 3 * i + x
  BY DiskFacts
<1>3. a % n \in Nat
  OBVIOUS
<1> QED
  BY <1>1, <1>2, <1>3, BlockConstants DEF Byte

\* A process that writes or truncates is alone with the inode.
LEMMA Alone ==
    ASSUME BlocksInv, NEW p \in Writers, io[p].pc \in InLocked
    PROVE  /\ io[p].i \in FileInums \ {1} /\ iowner[io[p].i] = p
           /\ \A q \in Writers : io[q].pc \in InLocked /\ io[q].i = io[p].i => q = p
<1>1. io[p].i \in FileInums \ {1}
  BY DEF BlocksInv, IoRight, WriteRight, TruncRight, InLocked
<1> QED
  BY <1>1 DEF BlocksInv, OwnersRight, Owners

LEMMA Truncators ==
    ASSUME BlocksInv
    PROVE  OneTrunc(io)
<1>1. \A p \in Writers : io[p].pc = "itrunc" => io[p].i \in FileInums
  BY DEF BlocksInv, IoRight, TruncRight
<1> QED
  BY <1>1, OwnersTruncate DEF BlocksInv, OwnersRight
-----------------------------------------------------------------------------
\* A step that only moves a process, and takes a lock with it.
LEMMA LocalStep ==
    ASSUME BlocksInv, mkfs.done, NEW p \in Writers, NEW l \in IoType, io' = [io EXCEPT ![p] = l],
           UNCHANGED <<sb, mkfs, data, bitmap, dip, ip, named, ftab, length, blocksPanic>>,
           iowner' \in [FileInums -> Writers \cup {Nobody}], OwnersRight',
           \A i \in FileInums : iowner'[i] = Nobody => iowner[i] = Nobody,
           \A i \in FileInums : iowner'[i] # iowner[i] => ip[i].used,
           io[p].pc # "itrunc", l.pc # "itrunc", IoRight(l),
           l.pc = "writei" => \A x \in 0 .. l.off - 1 : ByteAt(data, ip, l.i, x, Byte(l.i, x))
    PROVE  BlocksInv'
<1>1. io \in [Writers -> IoType] /\ io'[p] = l /\ \A q \in Writers : q # p => io'[q] = io[q]
  BY DEF BlocksInv, BlocksTypes
<1>2. BlocksTypes'
  BY DEF BlocksInv, BlocksTypes, IoType, Data, FileInums
<1>3. MkfsRight' /\ 1 \in named'
  BY DEF BlocksInv, MkfsRight
<1>4. ASSUME NEW i \in FileInums' PROVE InodeRight(i)'
  <2>1. i \in FileInums /\ InodeRight(i)
    BY <1>4 DEF BlocksInv, FileInums
  <2> QED
    BY <2>1 DEF InodeRight
<1>5. \A f \in OpenFiles : OpenRight(f)'
  BY DEF BlocksInv, OpenRight, FileInums
<1>6. \A v : IoRight(v)' <=> IoRight(v)
  BY DEF IoRight, WriteRight, ChunkRight, TruncRight, FileInums
<1>7. ASSUME NEW q \in Writers PROVE IoRight(io[q])'
  BY <1>1, <1>6 DEF BlocksInv
<1>8. BytesRight'
  BY <1>1 DEF BlocksInv, BytesRight, ByteAt, Byte, FileInums
<1>9. PlacesRight'
  <2>1. \A q \in Writers : \A j : Truncates(io', q, j) <=> Truncates(io, q, j)
    BY <1>1 DEF Truncates
  <2>2. \A q \in Writers : \A j : Truncates(io, q, j) => io'[q] = io[q]
    BY <1>1 DEF Truncates
  <2>3. OneTrunc(io) /\ OneTrunc(io')
    BY <2>1, Truncators DEF OneTrunc, Truncates
  <2>4. PICK u, a : u = io' /\ a = ip
    OBVIOUS
  <2>5. ASSUME NEW j \in FileInums PROVE PastIn(u, j) = PastIn(io, j)
    <3>1. \A q \in Writers : Truncates(io, q, j) <=> Truncates(u, q, j)
      BY <2>1, <2>4
    <3>2. \A q \in Writers : Truncates(io, q, j) => io[q].k = u[q].k
      BY <2>2, <2>4
    <3> QED
      BY ONLY <2>3, <2>4, <3>1, <3>2, PastSame
  <2>6. Placed(FileInums, Data, data, a, io, Taken)
    BY <2>4 DEF BlocksInv, PlacesRight
  <2>7. AddrsKept(FileInums, a, io, a, u)
    BY <2>5, <2>6 DEF Placed, AddrsKept
  <2>8. Placed(FileInums, Data, data, a, u, Taken)
    BY ONLY <2>6, <2>7, PlacesKept
  <2> QED
    BY <2>4, <2>8 DEF PlacesRight, FileInums, Data, Taken
<1> QED
  BY <1>2, <1>3, <1>4, <1>5, <1>7, <1>8, <1>9 DEF BlocksInv
-----------------------------------------------------------------------------
LEMMA FileWriteKeeps ==
    ASSUME BlocksInv, NEW p \in Writers, NEW f \in OpenFiles, NEW n \in Sizes, FileWrite(p, f, n)
    PROVE  BlocksInv'
<1>1. PICK l : l = [Idle EXCEPT !.pc = "filewrite", !.f = f, !.i = ftab[f].ip, !.todo = n]
  OBVIOUS
<1>2. /\ io' = [io EXCEPT ![p] = l] /\ io[p].pc = "idle" /\ mkfs.done /\ ftab[f] # NoFile
      /\ UNCHANGED <<sb, mkfs, data, bitmap, dip, ip, iowner, named, ftab, length, blocksPanic>>
  BY <1>1 DEF FileWrite, In, Set
<1>3. ftab[f].ip \in FileInums \ {1} /\ n \in Nat
  BY <1>2, BlocksAssumption DEF BlocksInv, OpenRight
<1>4. l.pc = "filewrite" /\ l.f = f /\ l.i = ftab[f].ip /\ l \in IoType
  BY <1>1, <1>3 DEF Idle, IoType
<1>5. IoRight(l)
  BY <1>3, <1>4 DEF IoRight, WriteRight, ChunkRight, TruncRight
<1>6. OwnersRight'
  <2>1. io \in [Writers -> IoType] /\ Owners(FileInums, iowner, io)
    BY DEF BlocksInv, BlocksTypes, OwnersRight
  <2>2. Owners(FileInums, iowner, io')
    BY <1>2, <1>4, <2>1, OwnersStay DEF InLocked
  <2> QED
    BY <1>2, <2>2 DEF OwnersRight, FileInums
<1>7. iowner' \in [FileInums -> Writers \cup {Nobody}]
  BY <1>2 DEF BlocksInv, BlocksTypes
<1> QED
  BY <1>2, <1>4, <1>5, <1>6, <1>7, LocalStep

LEMMA BeginChunkKeeps ==
    ASSUME BlocksInv, NEW p \in Writers, BeginChunk(p)
    PROVE  BlocksInv'
<1>1. PICK w, n1, off : w = io[p] /\ n1 = Min2(w.todo, MaxChunk) /\ off = ftab[w.f].off
  OBVIOUS
<1>2. /\ w.pc = "filewrite" /\ iowner[w.i] = Nobody /\ mkfs.done
      /\ UNCHANGED <<sb, mkfs, data, bitmap, dip, ip, named, ftab, length, blocksPanic>>
  BY <1>1 DEF BeginChunk, In
<1>3. w \in IoType /\ IoRight(w) /\ WriteRight(w)
  BY <1>1 DEF BlocksInv, BlocksTypes, IoRight
<1>4. w.f \in OpenFiles /\ w.i \in FileInums \ {1} /\ ftab[w.f].ip = w.i /\ off \in Nat
  BY <1>1, <1>2, <1>3 DEF WriteRight, BlocksInv, BlocksTypes
<1>5. n1 \in Nat /\ n1 <= w.todo /\ w.todo \in Nat
  BY <1>1, <1>3, BlocksAssumption DEF Min2, IoType
<1>6. io \in [Writers -> IoType] /\ Owners(FileInums, iowner, io) /\ iowner \in [FileInums -> Writers \cup {Nobody}]
  BY DEF BlocksInv, BlocksTypes, OwnersRight
<1>7. CASE io' = [io EXCEPT ![p] = Idle] /\ UNCHANGED iowner
  <2>1. Idle \in IoType /\ Idle.pc = "idle"
    BY DEF Idle, IoType
  <2>2. IoRight(Idle)
    BY <2>1 DEF IoRight, WriteRight, ChunkRight, TruncRight
  <2>3. OwnersRight'
    <3>1. Owners(FileInums, iowner, io')
      BY <1>1, <1>2, <1>6, <1>7, <2>1, OwnersStay DEF InLocked
    <3> QED
      BY <1>2, <1>7, <3>1 DEF OwnersRight, FileInums
  <2> QED
    BY <1>1, <1>2, <1>6, <1>7, <2>1, <2>2, <2>3, LocalStep
<1>8. ASSUME off <= ip[w.i].size, off + n1 <= MAXFILE * BSIZE, NEW l,
             l = [w EXCEPT !.pc = "writei", !.n = n1, !.off = off], io' = [io EXCEPT ![p] = l],
             iowner' = [iowner EXCEPT ![w.i] = p]
      PROVE  BlocksInv'
  <2>1. /\ l.pc = "writei" /\ l.f = w.f /\ l.i = w.i /\ l.todo = w.todo /\ l.n = n1 /\ l.off = off
        /\ l \in IoType
    BY <1>3, <1>4, <1>5, <1>8 DEF IoType
  <2>2. ip[w.i] = dip[w.i] /\ ip[w.i].used /\ ip[w.i].size \in Nat
    <3>1. InodeRight(w.i) /\ ip[w.i] \in InoType
      BY <1>4 DEF BlocksInv, BlocksTypes
    <3> QED
      BY <1>2, <1>4, <3>1 DEF InodeRight, InoType
  <2>3. IoRight(l)
    BY <1>1, <1>4, <1>5, <1>8, <2>1, <2>2 DEF IoRight, WriteRight, ChunkRight, TruncRight
  <2>4. OwnersRight'
    <3>1. l.pc \in InLocked /\ w.pc \notin InLocked
      BY <1>2, <2>1 DEF InLocked
    <3>2. Owners(FileInums, iowner', io')
      BY ONLY p \in Writers, <1>1, <1>2, <1>4, <1>6, <1>8, <2>1, <3>1, OwnersTake
    <3> QED
      BY <1>2, <3>2 DEF OwnersRight, FileInums
  <2>5. iowner' \in [FileInums -> Writers \cup {Nobody}] /\ \A i \in FileInums : i # w.i => iowner'[i] = iowner[i]
    BY <1>6, <1>8
  <2>6. ASSUME NEW x \in 0 .. l.off - 1 PROVE ByteAt(data, ip, l.i, x, Byte(l.i, x))
    <3>1. x \in 0 .. ip[w.i].size - 1
      BY <1>4, <1>8, <2>1, <2>2
    <3>2. \A q \in Writers : ~(io[q].pc = "itrunc" /\ io[q].i = w.i)
      BY <1>2, <1>4, <1>6, BlocksAssumption DEF Owners, InLocked
    <3> QED
      BY <1>4, <2>1, <3>1, <3>2 DEF BlocksInv, BytesRight
  <2>7. \A i \in FileInums : (iowner'[i] = Nobody => iowner[i] = Nobody) /\ (iowner'[i] # iowner[i] => ip[i].used)
    BY <1>2, <2>2, <2>5
  <2> QED
    BY <1>1, <1>2, <1>8, <2>1, <2>3, <2>4, <2>5, <2>6, <2>7, LocalStep
<1> QED
  BY <1>1, <1>7, <1>8 DEF BeginChunk, Set
-----------------------------------------------------------------------------
\* A step that only changes an entry of the file table, to that of a file in use.
LEMMA FileStep ==
    ASSUME BlocksInv, mkfs.done, ftab' \in [OpenFiles -> [ip : FileInums \cup {0}, off : Nat]],
           UNCHANGED <<sb, mkfs, data, bitmap, dip, ip, iowner, named, io, length, blocksPanic>>,
           NEW f \in OpenFiles, \A g \in OpenFiles : g # f => ftab'[g] = ftab[g],
           NEW i \in FileInums \ {1}, ftab'[f].ip = i, ftab'[f].off <= ip[i].size, ip[i].used,
           \A q \in Writers : ~(io[q].pc = "itrunc" /\ io[q].i = i),
           \A q \in Writers : io[q].pc \in {"filewrite", "writei"} /\ io[q].f = f
                                => io[q].pc = "filewrite" /\ io[q].i = i
    PROVE  BlocksInv'
<1>1. BlocksTypes' /\ OwnersRight' /\ 1 \in named' /\ BytesRight' /\ PlacesRight'
  <2>1. BlocksTypes'
    BY DEF BlocksInv, BlocksTypes, IoType, Data, FileInums
  <2>2. OwnersRight' /\ 1 \in named'
    BY DEF BlocksInv, OwnersRight, FileInums
  <2>3. BytesRight'
    BY DEF BlocksInv, BytesRight, ByteAt, Byte, FileInums
  <2>4. PlacesRight'
    BY DEF BlocksInv, PlacesRight, FileInums, Data, Taken
  <2> QED
    BY <2>1, <2>2, <2>3, <2>4
<1>2. MkfsRight'
  BY DEF MkfsRight
<1>3. ASSUME NEW j \in FileInums' PROVE InodeRight(j)'
  <2>1. j \in FileInums /\ InodeRight(j)
    BY <1>3 DEF BlocksInv, FileInums
  <2>2. ~ip[j].used => \A g \in OpenFiles : ftab'[g].ip # j
    BY <2>1 DEF InodeRight
  <2> QED
    BY <2>1, <2>2 DEF InodeRight
<1>4. \A g \in OpenFiles : OpenRight(g)'
  BY DEF BlocksInv, OpenRight, FileInums
<1>5. ASSUME NEW q \in Writers PROVE IoRight(io[q])'
  <2>1. IoRight(io[q])
    BY DEF BlocksInv
  <2>2. WriteRight(io[q])'
    BY <2>1 DEF IoRight, WriteRight, FileInums
  <2>3. ChunkRight(io[q])'
    BY <2>1 DEF IoRight, WriteRight, ChunkRight
  <2>4. TruncRight(io[q])'
    BY <2>1 DEF IoRight, TruncRight, FileInums
  <2> QED
    BY <2>1, <2>2, <2>3, <2>4 DEF IoRight
<1> QED
  BY <1>1, <1>2, <1>3, <1>4, <1>5 DEF BlocksInv

LEMMA FileReadKeeps ==
    ASSUME BlocksInv, NEW p \in Writers, NEW f \in OpenFiles, NEW n \in Sizes, FileRead(p, f, n)
    PROVE  BlocksInv'
<1>1. PICK i, off, m : i = ftab[f].ip /\ off = ftab[f].off /\ m = Len(Readi(ip[i], off, n))
  OBVIOUS
<1>2. /\ mkfs.done /\ ftab[f] # NoFile /\ iowner[i] = Nobody
      /\ UNCHANGED <<sb, mkfs, data, bitmap, dip, ip, iowner, named, io, length, blocksPanic>>
      /\ ftab' = [ftab EXCEPT ![f] = [ftab[f] EXCEPT !.off = off + m]]
  BY <1>1 DEF FileRead, In
<1>3. i \in FileInums \ {1} /\ off <= ip[i].size /\ ftab \in [OpenFiles -> [ip : FileInums \cup {0}, off : Nat]]
  BY <1>1, <1>2 DEF BlocksInv, OpenRight, BlocksTypes
<1>4. ip[i] \in InoType /\ ip[i].size \in Nat /\ off \in Nat /\ n \in Nat
  BY <1>1, <1>3, BlocksAssumption DEF BlocksInv, BlocksTypes, InoType
<1>5. m \in Nat /\ off + m <= ip[i].size
  <2>1. PICK c \in Nat : c = Min2(n, ip[i].size - off) /\ off + c <= ip[i].size
    BY <1>3, <1>4 DEF Min2
  <2>2. Len(Readi(ip[i], off, n)) = c
    BY <2>1 DEF Readi
  <2> QED
    BY <1>1, <1>4, <2>1, <2>2
<1>6. /\ ftab' \in [OpenFiles -> [ip : FileInums \cup {0}, off : Nat]]
      /\ ftab'[f].ip = i /\ ftab'[f].off = off + m /\ \A g \in OpenFiles : g # f => ftab'[g] = ftab[g]
  BY <1>1, <1>2, <1>3, <1>4, <1>5
<1>7. ip[i].used
  <2>1. InodeRight(i)
    BY <1>3 DEF BlocksInv
  <2> QED
    BY <1>1, <2>1 DEF InodeRight
<1>8. \A q \in Writers : ~(io[q].pc \in InLocked /\ io[q].i = i)
  BY <1>2, <1>3, BlocksAssumption DEF BlocksInv, OwnersRight, Owners
<1>9. ASSUME NEW q \in Writers, io[q].pc \in {"filewrite", "writei"}, io[q].f = f
      PROVE  io[q].pc = "filewrite" /\ io[q].i = i
  <2>1. io[q].i = i
    BY <1>1, <1>9 DEF BlocksInv, IoRight, WriteRight
  <2> QED
    BY <1>8, <1>9, <2>1 DEF InLocked
<1>10. \A q \in Writers : ~(io[q].pc = "itrunc" /\ io[q].i = i)
  BY <1>8 DEF InLocked
<1> QED
  BY <1>2, <1>3, <1>5, <1>6, <1>7, <1>9, <1>10, FileStep

\* filealloc gives an entry that is not used.
LEMMA Opened ==
    ASSUME NEW i, OpenAt(i)
    PROVE  \E f \in OpenFiles : ftab[f] = NoFile /\ ftab' = [ftab EXCEPT ![f] = [ip |-> i, off |-> 0]]
<1>1. UnusedFiles # {} /\ UnusedFiles \in SUBSET Nat
  BY BlocksAssumption DEF OpenAt, UnusedFiles
<1>2. PICK f : f = CHOOSE h \in UnusedFiles : \A g \in UnusedFiles : h <= g
  OBVIOUS
<1>3. \E h \in UnusedFiles : \A g \in UnusedFiles : h <= g
  BY <1>1, LeastNatural
<1>4. f \in UnusedFiles
  BY <1>2, <1>3
<1> QED
  BY <1>2, <1>4 DEF OpenAt, UnusedFiles

\* An entry that is not used is nobody's.
LEMMA UnusedIs ==
    ASSUME BlocksInv, NEW f \in OpenFiles, ftab[f] = NoFile
    PROVE  \A q \in Writers : ~(io[q].pc \in {"filewrite", "writei"} /\ io[q].f = f)
<1>1. ftab[f].ip = 0 /\ 0 \notin FileInums
  BY DEF NoFile, FileInums
<1> QED
  BY <1>1 DEF BlocksInv, IoRight, WriteRight

LEMMA OpenFileKeeps ==
    ASSUME BlocksInv, NEW p \in Writers, NEW i \in FileInums, OpenFile(p, i)
    PROVE  BlocksInv'
<1>1. /\ mkfs.done /\ i \in named \ {1} /\ OpenAt(i)
      /\ UNCHANGED <<sb, mkfs, data, bitmap, dip, ip, iowner, named, io, length, blocksPanic>>
  BY DEF OpenFile, In
<1>2. PICK f \in OpenFiles : ftab[f] = NoFile /\ ftab' = [ftab EXCEPT ![f] = [ip |-> i, off |-> 0]]
  BY <1>1, Opened
<1>3. ftab \in [OpenFiles -> [ip : FileInums \cup {0}, off : Nat]] /\ ip[i] \in InoType /\ ip[i].size \in Nat
  BY DEF BlocksInv, BlocksTypes, InoType
<1>4. /\ ftab' \in [OpenFiles -> [ip : FileInums \cup {0}, off : Nat]]
      /\ ftab'[f].ip = i /\ ftab'[f].off = 0 /\ \A g \in OpenFiles : g # f => ftab'[g] = ftab[g]
  BY <1>2, <1>3
<1>5. ip[i].used
  BY <1>1 DEF BlocksInv, InodeRight
<1>6. \A q \in Writers : ~(io[q].pc = "itrunc" /\ io[q].i = i)
  BY <1>1 DEF BlocksInv, IoRight, TruncRight
<1>7. \A q \in Writers : ~(io[q].pc \in {"filewrite", "writei"} /\ io[q].f = f)
  BY <1>2, UnusedIs
<1>8. ftab'[f].off <= ip[i].size
  BY <1>3, <1>4
<1> QED
  BY <1>1, <1>4, <1>5, <1>6, <1>7, <1>8, FileStep
-----------------------------------------------------------------------------
LEMMA CreateFileKeeps ==
    ASSUME BlocksInv, NEW p \in Writers, NEW i \in FileInums, CreateFile(p, i)
    PROVE  BlocksInv'
<1>1. /\ mkfs.done /\ ~dip[i].used /\ (OpenAt(i) \/ FileTableFull) /\ named' = named \cup {i}
      /\ dip' = [dip EXCEPT ![i] = FreshInode] /\ ip' = [ip EXCEPT ![i] = FreshInode]
      /\ length' = [length EXCEPT ![i] = 0]
      /\ UNCHANGED <<sb, mkfs, data, bitmap, iowner, io, blocksPanic>>
  BY DEF CreateFile, In
<1>2. PICK f : \/ f \in OpenFiles /\ ftab[f] = NoFile /\ ftab' = [ftab EXCEPT ![f] = [ip |-> i, off |-> 0]]
               \/ f \notin OpenFiles /\ ftab' = ftab
  <2>1. CASE OpenAt(i)
    BY <2>1, Opened
  <2>2. CASE FileTableFull
    <3>1. 0 \notin OpenFiles
      BY BlocksAssumption
    <3> QED
      BY <2>2, <3>1 DEF FileTableFull
  <2> QED
    BY <1>1, <2>1, <2>2
<1>3. BlocksTypes
  BY DEF BlocksInv
<1>4. /\ FreshInode \in InoType /\ FreshInode.used /\ FreshInode.size = 0 /\ FreshInode.addrs = NoAddrs
      /\ FreeInode.addrs = NoAddrs
  BY BlockConstants DEF FreshInode, FreeInode, InoType, NoAddrs
<1>5. /\ i \notin named /\ iowner[i] = Nobody /\ ip[i].addrs = NoAddrs /\ ~ip[i].used
      /\ \A g \in OpenFiles : ftab[g].ip # i
  <2>1. InodeRight(i)
    BY DEF BlocksInv
  <2> QED
    BY <1>1, <1>4, <2>1 DEF InodeRight
<1>6. /\ ip'[i] = FreshInode /\ dip'[i] = FreshInode /\ length'[i] = 0
      /\ \A j \in FileInums : j # i => ip'[j] = ip[j] /\ dip'[j] = dip[j] /\ length'[j] = length[j]
      /\ (f \in OpenFiles => ftab'[f].ip = i /\ ftab'[f].off = 0)
      /\ \A g \in OpenFiles : g # f => ftab'[g] = ftab[g]
      /\ ftab' \in [OpenFiles -> [ip : FileInums \cup {0}, off : Nat]]
  <2>1. ftab \in [OpenFiles -> [ip : FileInums \cup {0}, off : Nat]]
    BY <1>3 DEF BlocksTypes
  <2>2. dip \in [FileInums -> InoType] /\ ip \in [FileInums -> InoType] /\ length \in [FileInums -> Nat]
    BY <1>3 DEF BlocksTypes
  <2>3. CASE f \in OpenFiles
    <3>1. ftab' = [ftab EXCEPT ![f] = [ip |-> i, off |-> 0]]
      BY <1>2, <2>3
    <3> QED
      BY <1>1, <2>1, <2>2, <2>3, <3>1
  <2>4. CASE f \notin OpenFiles
    <3>1. ftab' = ftab
      BY <1>2, <2>4
    <3> QED
      BY <1>1, <2>1, <2>2, <2>4, <3>1
  <2> QED
    BY <2>3, <2>4
<1>7. BlocksTypes'
  <2>1. FileInums' = FileInums /\ Data' = Data
    BY <1>1 DEF FileInums, Data
  <2>2. dip' \in [FileInums -> InoType] /\ ip' \in [FileInums -> InoType] /\ length' \in [FileInums -> Nat]
    BY <1>1, <1>3, <1>4 DEF BlocksTypes
  <2>3. named' \subseteq FileInums
    BY <1>1, <1>3 DEF BlocksTypes
  <2> QED
    BY <1>1, <1>3, <1>6, <2>1, <2>2, <2>3 DEF BlocksTypes, IoType
<1>8. MkfsRight' /\ OwnersRight' /\ 1 \in named' /\ i # 1
  BY <1>1, <1>5 DEF BlocksInv, MkfsRight, OwnersRight, FileInums
<1>9. ASSUME NEW j \in FileInums' PROVE InodeRight(j)'
  <2>1. j \in FileInums /\ InodeRight(j)
    BY <1>1, <1>9 DEF BlocksInv, FileInums
  <2>2. CASE j = i
    <3>1. FreshInode.size <= MAXFILE * BSIZE
      BY <1>4, BlockConstants
    <3> QED
      BY <1>4, <1>6, <2>2, <3>1 DEF InodeRight
  <2>3. CASE j # i
    BY <1>1, <1>6, <2>1, <2>3 DEF InodeRight
  <2> QED
    BY <2>2, <2>3
<1>10. ASSUME NEW g \in OpenFiles PROVE OpenRight(g)'
  <2>1. CASE g = f
    BY <1>1, <1>4, <1>6, <1>8, <2>1 DEF OpenRight, FileInums
  <2>2. CASE g # f
    <3>1. OpenRight(g) /\ ftab'[g] = ftab[g] /\ ftab[g].ip # i
      BY <1>5, <1>6, <2>2 DEF BlocksInv
    <3> QED
      BY <1>1, <1>6, <3>1 DEF OpenRight, FileInums
  <2> QED
    BY <2>1, <2>2
<1>11. ASSUME NEW q \in Writers PROVE IoRight(io[q])'
  <2>1. IoRight(io[q]) /\ io'[q] = io[q]
    BY <1>1 DEF BlocksInv
  <2>2. io[q].pc \in {"filewrite", "writei"} => io[q].f # f /\ io[q].i # i
    <3>1. f \in OpenFiles => ftab[f] = NoFile
      BY <1>2
    <3> QED
      BY <1>5, <2>1, <3>1, UnusedIs DEF IoRight, WriteRight
  <2>3. WriteRight(io[q])'
    BY <1>1, <1>6, <2>1, <2>2 DEF IoRight, WriteRight, FileInums
  <2>4. ChunkRight(io[q])'
    BY <1>1, <1>6, <2>1, <2>2 DEF IoRight, WriteRight, ChunkRight
  <2>5. TruncRight(io[q])'
    BY <1>1, <1>5, <1>6, <2>1 DEF IoRight, TruncRight, FileInums
  <2> QED
    BY <2>1, <2>3, <2>4, <2>5 DEF IoRight
<1>12. BytesRight'
  <2>1. ASSUME NEW j \in FileInums, j # i, NEW x PROVE ByteAt(data, ip, j, x, Byte(j, x)) <=> ByteAt(data, ip, j, x, Byte(j, x))'
    BY <1>1, <1>6, <2>1 DEF ByteAt, Byte
  <2>2. \A q \in Writers : io[q].pc = "writei" => io[q].i \in FileInums /\ io[q].i # i
    BY <1>5 DEF BlocksInv, IoRight, WriteRight
  <2>3. \A q \in Writers : io[q].pc = "writei"
          => \A x \in 0 .. io[q].off - 1 : ByteAt(data, ip, io[q].i, x, Byte(io[q].i, x))'
    BY <1>1, <2>1, <2>2 DEF BlocksInv, BytesRight
  <2>4. ASSUME NEW j \in FileInums \ {1}, \A q \in Writers : ~(io[q].pc = "itrunc" /\ io[q].i = j)
        PROVE  \A x \in 0 .. ip'[j].size - 1 : ByteAt(data, ip, j, x, Byte(j, x))'
    <3>1. CASE j = i
      BY <1>4, <1>6, <3>1
    <3>2. CASE j # i
      BY <1>6, <2>1, <2>4, <3>2 DEF BlocksInv, BytesRight
    <3> QED
      BY <3>1, <3>2
  <2> QED
    BY <1>1, <2>3, <2>4 DEF BytesRight, FileInums
<1>13. PlacesRight'
  <2>1. PICK a, b : a = ip /\ b = ip'
    OBVIOUS
  <2>2. Placed(FileInums, Data, data, a, io, Taken)
    BY <2>1 DEF BlocksInv, PlacesRight
  <2>3. b \in [FileInums -> InoType] /\ \A j \in FileInums : b[j].addrs = a[j].addrs
    BY <1>1, <1>3, <1>4, <1>5, <1>6, <2>1 DEF BlocksTypes
  <2>4. AddrsKept(FileInums, a, io, b, io)
    BY <2>2, <2>3 DEF AddrsKept, Placed
  <2>5. Placed(FileInums, Data, data, b, io, Taken)
    BY ONLY <2>2, <2>4, PlacesKept
  <2> QED
    BY <1>1, <2>1, <2>5 DEF PlacesRight, FileInums, Data, Taken
<1> QED
  BY <1>7, <1>8, <1>9, <1>10, <1>11, <1>12, <1>13 DEF BlocksInv

\* iput, of a file that is closed or an inode without its name.
LEMMA PutKeeps ==
    ASSUME BlocksInv, mkfs.done, NEW p \in Writers, io[p].pc = "idle", NEW i \in FileInums \ {1}, ip[i].used,
           NEW files \in [OpenFiles -> [ip : FileInums \cup {0}, off : Nat]],
           NEW names, names \subseteq named, 1 \in names,
           \A g \in OpenFiles : files[g] = ftab[g] \/ (files[g] = NoFile /\ \A q \in Writers : io[q].f # g),
           i \notin names /\ Refs(i, files) = {} => iowner[i] = Nobody,
           Put(p, i, files, names), UNCHANGED <<sb, mkfs, data, bitmap, dip, ip, length, blocksPanic>>
    PROVE  BlocksInv'
<1>1. ftab' = files /\ named' = names
  BY DEF Put
<1>2. BlocksTypes /\ OwnersRight /\ io \in [Writers -> IoType]
  BY DEF BlocksInv, BlocksTypes
<1>3. MkfsRight' /\ 1 \in named'
  BY <1>1 DEF MkfsRight
<1>4. NoFile.ip = 0 /\ 0 \notin FileInums /\ NoFile.off = 0
  BY DEF NoFile, FileInums
<1>5. ASSUME NEW g \in OpenFiles PROVE OpenRight(g)'
  <2>1. OpenRight(g)
    BY DEF BlocksInv
  <2> QED
    BY <1>1, <2>1 DEF OpenRight, FileInums
<1>6. ASSUME NEW q \in Writers, NEW w, w = io[q] PROVE IoRight(w)'
  <2>1. IoRight(w) /\ w.f = io[q].f
    BY <1>6 DEF BlocksInv
  <2>2. WriteRight(w)'
    BY <1>1, <1>4, <2>1 DEF IoRight, WriteRight, FileInums
  <2>3. ChunkRight(w)'
    BY <1>1, <2>1 DEF IoRight, WriteRight, ChunkRight
  <2>4. TruncRight(w)'
    <3>1. ASSUME w.pc = "itrunc", NEW g \in OpenFiles PROVE files[g].ip # w.i
      BY <1>4, <2>1, <3>1 DEF IoRight, TruncRight
    <3> QED
      BY <1>1, <2>1, <3>1 DEF IoRight, TruncRight, FileInums
  <2> QED
    BY <2>1, <2>2, <2>3, <2>4 DEF IoRight
<1>7. ASSUME NEW j \in FileInums, iowner'[j] = Nobody => iowner[j] = Nobody, ~ip[j].used => iowner'[j] = iowner[j]
      PROVE  InodeRight(j)'
  <2>1. InodeRight(j)
    BY DEF BlocksInv
  <2>2. ~ip[j].used => \A g \in OpenFiles : files[g].ip # j
    BY <1>4, <2>1 DEF InodeRight
  <2> QED
    BY <1>1, <1>7, <2>1, <2>2 DEF InodeRight
<1>8. CASE ~(i \notin names /\ Refs(i, files) = {})
  <2>1. UNCHANGED <<iowner, io>>
    BY <1>8 DEF Put
  <2>2. BlocksTypes'
    BY <1>1, <1>2, <2>1 DEF BlocksTypes, IoType, Data, FileInums
  <2>3. OwnersRight'
    BY <1>2, <2>1 DEF OwnersRight, FileInums
  <2>4. BytesRight'
    BY <2>1 DEF BlocksInv, BytesRight, ByteAt, Byte, FileInums
  <2>5. PlacesRight'
    BY <2>1 DEF BlocksInv, PlacesRight, FileInums, Data, Taken
  <2>6. \A j \in FileInums' : InodeRight(j)'
    BY <1>7, <2>1 DEF FileInums
  <2>7. \A q \in Writers : IoRight(io[q])'
    BY <1>6, <2>1
  <2> QED
    BY <1>3, <1>5, <2>2, <2>3, <2>4, <2>5, <2>6, <2>7 DEF BlocksInv
<1>9. CASE i \notin names /\ Refs(i, files) = {}
  <2>1. PICK l : l = [Idle EXCEPT !.pc = "itrunc", !.i = i]
    OBVIOUS
  <2>2. iowner[i] = Nobody /\ iowner' = [iowner EXCEPT ![i] = p] /\ io' = [io EXCEPT ![p] = l]
    BY <1>9, <2>1 DEF Put, Set
  <2>3. l \in IoType /\ l.pc = "itrunc" /\ l.i = i /\ l.k = 0
    BY <2>1 DEF Idle, IoType
  <2>4. io'[p] = l /\ \A q \in Writers : q # p => io'[q] = io[q]
    BY <1>2, <2>2
  <2>5. iowner'[i] = p /\ \A j \in FileInums : j # i => iowner'[j] = iowner[j]
    BY <1>2, <2>2 DEF BlocksTypes
  <2>6. BlocksTypes'
    BY <1>1, <1>2, <2>2, <2>3 DEF BlocksTypes, IoType, Data, FileInums
  <2>7. Owners(FileInums, iowner', io')
    <3>1. l.pc \in InLocked /\ io[p].pc \notin InLocked
      BY <2>3 DEF InLocked
    <3>2. iowner \in [FileInums -> Writers \cup {Nobody}] /\ Owners(FileInums, iowner, io) /\ i \in FileInums
      BY <1>2 DEF BlocksTypes, OwnersRight
    <3> QED
      BY ONLY p \in Writers, <1>2, <2>2, <2>3, <3>1, <3>2, OwnersTake
  <2>8. OwnersRight'
    BY <2>7 DEF OwnersRight, FileInums
  <2>9. ASSUME NEW j \in FileInums' PROVE InodeRight(j)'
    <3>1. j \in FileInums /\ p # Nobody
      BY <2>9, BlocksAssumption DEF FileInums
    <3>2. (iowner'[j] = Nobody => iowner[j] = Nobody) /\ (~ip[j].used => iowner'[j] = iowner[j])
      BY <2>5, <3>1
    <3> QED
      BY <1>7, <3>1, <3>2
  <2>10. IoRight(l)'
    <3>1. WriteRight(l)' /\ ChunkRight(l)' /\ l.pc # "idle"
      BY <2>3 DEF WriteRight, ChunkRight
    <3>2. \A g \in OpenFiles : files[g].ip # i
      BY <1>9 DEF Refs
    <3>3. TruncRight(l)'
      BY <1>1, <1>9, <2>3, <3>2, BlockConstants DEF TruncRight, FileInums
    <3> QED
      BY <3>1, <3>3 DEF IoRight
  <2>11. \A q \in Writers : IoRight(io[q])'
    BY <1>6, <2>4, <2>10
  <2>12. BytesRight'
    BY <2>3, <2>4 DEF BlocksInv, BytesRight, ByteAt, Byte, FileInums
  <2>13. PlacesRight'
    <3>1. PICK u, a : u = io' /\ a = ip
      OBVIOUS
    <3>2. OneTrunc(io) /\ \A q \in Writers : ~Truncates(io, q, i)
      BY <1>2, <2>2, Truncators, BlocksAssumption DEF OwnersRight, Owners, Truncates, InLocked
    <3>3. \A q \in Writers : \A j : j # i => (Truncates(io, q, j) <=> Truncates(u, q, j))
      BY <2>3, <2>4, <3>1 DEF Truncates
    <3>4. \A q \in Writers : Truncates(u, q, i) <=> q = p
      BY <2>3, <2>4, <3>1, <3>2 DEF Truncates
    <3>5. OneTrunc(u)
      BY <3>2, <3>3, <3>4 DEF OneTrunc, Truncates
    <3>6. ASSUME NEW j \in FileInums PROVE PastIn(u, j) = PastIn(io, j)
      <4>1. CASE j = i
        <5>1. PastIn(u, i) = u[p].k
          BY <3>4, <3>5, PastIs
        <5>2. PastIn(io, i) = 0
          BY <3>2, PastNone
        <5> QED
          BY <2>3, <2>4, <3>1, <4>1, <5>1, <5>2
      <4>2. CASE j # i
        <5>1. \A q \in Writers : Truncates(io, q, j) <=> Truncates(u, q, j)
          BY <3>3, <4>2
        <5>2. \A q \in Writers : Truncates(io, q, j) => io[q].k = u[q].k
          BY <2>4, <3>1 DEF Truncates
        <5> QED
          BY ONLY <3>2, <3>5, <5>1, <5>2, PastSame
      <4> QED
        BY <4>1, <4>2
    <3>7. Placed(FileInums, Data, data, a, io, Taken)
      BY <3>1 DEF BlocksInv, PlacesRight
    <3>8. AddrsKept(FileInums, a, io, a, u)
      BY <3>6, <3>7 DEF Placed, AddrsKept
    <3>9. Placed(FileInums, Data, data, a, u, Taken)
      BY ONLY <3>7, <3>8, PlacesKept
    <3> QED
      BY <3>1, <3>9 DEF PlacesRight, FileInums, Data, Taken
  <2> QED
    BY <1>3, <1>5, <2>6, <2>8, <2>9, <2>11, <2>12, <2>13 DEF BlocksInv
<1> QED
  BY <1>8, <1>9

LEMMA CloseFileKeeps ==
    ASSUME BlocksInv, NEW p \in Writers, NEW f \in OpenFiles, CloseFile(p, f)
    PROVE  BlocksInv'
<1>1. PICK i, files : i = ftab[f].ip /\ files = [ftab EXCEPT ![f] = NoFile]
  OBVIOUS
<1>2. /\ mkfs.done /\ io[p].pc = "idle" /\ ftab[f] # NoFile /\ \A q \in Writers : io[q].f # f
      /\ Put(p, i, files, named) /\ UNCHANGED <<sb, mkfs, data, bitmap, dip, ip, length, blocksPanic>>
  BY <1>1 DEF CloseFile, In
<1>3. ftab \in [OpenFiles -> [ip : FileInums \cup {0}, off : Nat]] /\ NoFile \in [ip : FileInums \cup {0}, off : Nat]
  BY DEF BlocksInv, BlocksTypes, NoFile
<1>4. /\ files \in [OpenFiles -> [ip : FileInums \cup {0}, off : Nat]]
      /\ files[f] = NoFile /\ \A g \in OpenFiles : g # f => files[g] = ftab[g]
  BY <1>1, <1>3
<1>5. i \in FileInums \ {1} /\ 1 \in named
  BY <1>1, <1>2 DEF BlocksInv, OpenRight
<1>6. ip[i].used
  <2>1. InodeRight(i)
    BY <1>5 DEF BlocksInv
  <2> QED
    BY <1>1, <2>1 DEF InodeRight
<1>7. ASSUME Refs(i, files) = {} PROVE iowner[i] = Nobody
  <2>1. ASSUME NEW q \in Writers, iowner[i] = q PROVE FALSE
    <3>1. io[q].pc \in InLocked /\ io[q].i = i /\ IoRight(io[q])
      BY <1>5, <2>1 DEF BlocksInv, OwnersRight, Owners
    <3>2. CASE io[q].pc = "writei"
      <4>1. io[q].f \in OpenFiles /\ ftab[io[q].f].ip = i
        BY <3>1, <3>2 DEF IoRight, WriteRight
      <4>2. io[q].f # f
        BY <1>2
      <4>3. files[io[q].f].ip = i
        BY <1>4, <4>1, <4>2
      <4> QED
        BY <1>7, <4>1, <4>3 DEF Refs
    <3>3. CASE io[q].pc = "itrunc"
      BY <1>1, <3>1, <3>3 DEF IoRight, TruncRight
    <3> QED
      BY <3>1, <3>2, <3>3 DEF InLocked
  <2>2. iowner[i] \in Writers \cup {Nobody}
    BY <1>5 DEF BlocksInv, BlocksTypes
  <2> QED
    BY <2>1, <2>2
<1> QED
  BY <1>2, <1>4, <1>5, <1>6, <1>7, PutKeeps

LEMMA UnlinkFileKeeps ==
    ASSUME BlocksInv, NEW p \in Writers, NEW i \in FileInums, UnlinkFile(p, i)
    PROVE  BlocksInv'
<1>1. PICK files, names : files = ftab /\ names = named \ {i}
  OBVIOUS
<1>2. /\ mkfs.done /\ io[p].pc = "idle" /\ i \in named \ {1} /\ iowner[i] = Nobody
      /\ Put(p, i, files, names) /\ UNCHANGED <<sb, mkfs, data, bitmap, dip, ip, length, blocksPanic>>
  BY <1>1 DEF UnlinkFile, In
<1>3. files \in [OpenFiles -> [ip : FileInums \cup {0}, off : Nat]]
  BY <1>1 DEF BlocksInv, BlocksTypes
<1>4. ip[i].used /\ i \in FileInums \ {1} /\ 1 \in names
  BY <1>1, <1>2 DEF BlocksInv, InodeRight
<1>5. \A g \in OpenFiles : files[g] = ftab[g]
  BY <1>1
<1>6. names \subseteq named
  BY <1>1
<1> QED
  BY <1>2, <1>3, <1>4, <1>5, <1>6, PutKeeps
-----------------------------------------------------------------------------
\* What a process that has an inode's lock does to the inode, others do not see.
LEMMA OthersIo ==
    ASSUME BlocksInv, NEW p \in Writers, io[p].pc \in InLocked, NEW i, i = io[p].i,
           UNCHANGED <<sb, named>>,
           \A j \in FileInums : j # i => ip'[j] = ip[j] /\ dip'[j] = dip[j],
           \A g \in OpenFiles : ftab'[g].ip = ftab[g].ip,
           \A g \in OpenFiles : ftab[g].ip # i => ftab'[g] = ftab[g],
           NEW q \in Writers, q # p, NEW w, w = io[q]
    PROVE  IoRight(w)'
<1>1. IoRight(w) /\ (w.pc \in InLocked => w.i # i)
  BY Alone DEF BlocksInv
<1>2. WriteRight(w)'
  BY <1>1 DEF IoRight, WriteRight, FileInums
<1>3. ChunkRight(w)'
  BY <1>1 DEF IoRight, WriteRight, ChunkRight, InLocked
<1>4. TruncRight(w)'
  <2>1. ASSUME w.pc = "itrunc"
        PROVE  /\ w.i \in FileInums /\ ip'[w.i] = ip[w.i]
               /\ \A g \in OpenFiles : ftab'[g].ip # w.i
    BY <1>1, <2>1 DEF IoRight, TruncRight, InLocked
  <2> QED
    BY <1>1, <2>1 DEF IoRight, TruncRight, FileInums
<1> QED
  BY <1>1, <1>2, <1>3, <1>4 DEF IoRight

LEMMA OthersInodes ==
    ASSUME BlocksInv, NEW i, UNCHANGED <<sb, named>>,
           \A j \in FileInums : j # i => ip'[j] = ip[j] /\ dip'[j] = dip[j] /\ length'[j] = length[j],
           \A j \in FileInums : j # i => iowner'[j] = iowner[j],
           \A g \in OpenFiles : ftab'[g].ip = ftab[g].ip,
           NEW j \in FileInums, j # i
    PROVE  InodeRight(j)'
<1>1. InodeRight(j)
  BY DEF BlocksInv
<1> QED
  BY <1>1 DEF InodeRight

LEMMA OthersFiles ==
    ASSUME BlocksInv, NEW i, UNCHANGED sb, \A j \in FileInums : j # i => ip'[j] = ip[j],
           NEW g \in OpenFiles, ftab'[g] = ftab[g], ftab[g].ip # i
    PROVE  OpenRight(g)'
<1>1. OpenRight(g)
  BY DEF BlocksInv
<1> QED
  BY <1>1 DEF OpenRight, FileInums

\* itrunc leaves the bytes of the other inodes, and all of its own are gone.
LEMMA OthersBytes ==
    ASSUME BlocksInv, NEW p \in Writers, io[p].pc = "itrunc", NEW i, i = io[p].i, UNCHANGED <<sb, data>>,
           \A j \in FileInums : j # i => ip'[j] = ip[j],
           (io'[p].pc = "itrunc" /\ io'[p].i = i) \/ (ip'[i].size = 0 /\ io'[p].pc = "idle"),
           \A q \in Writers : q # p => io'[q] = io[q]
    PROVE  BytesRight'
<1>1. ASSUME NEW j \in FileInums, j # i, NEW x
      PROVE  ByteAt(data, ip, j, x, Byte(j, x)) <=> ByteAt(data, ip, j, x, Byte(j, x))'
  BY <1>1 DEF ByteAt, Byte
<1>2. ASSUME NEW q \in Writers, io'[q].pc = "writei"
      PROVE  \A x \in 0 .. io'[q].off - 1 : ByteAt(data, ip, io[q].i, x, Byte(io[q].i, x))'
  <2>1. q # p /\ io'[q] = io[q]
    BY <1>2
  <2>2. io[q].i # i /\ io[q].i \in FileInums
    BY <1>2, <2>1, Alone DEF InLocked
  <2>3. \A x \in 0 .. io[q].off - 1 : ByteAt(data, ip, io[q].i, x, Byte(io[q].i, x))
    BY <1>2, <2>1 DEF BlocksInv, BytesRight
  <2>4. PICK j \in FileInums : j = io[q].i /\ j = io'[q].i /\ j # i
    BY <2>1, <2>2
  <2> QED
    BY <1>1, <2>1, <2>3, <2>4
<1>3. ASSUME NEW j \in FileInums \ {1}, \A q \in Writers : ~(io'[q].pc = "itrunc" /\ io'[q].i = j)
      PROVE  \A x \in 0 .. ip'[j].size - 1 : ByteAt(data, ip, j, x, Byte(j, x))'
  <2>1. CASE j = i
    BY <1>3, <2>1
  <2>2. CASE j # i
    <3>1. \A q \in Writers : ~(io[q].pc = "itrunc" /\ io[q].i = j)
      BY <1>3, <2>2
    <3>2. \A x \in 0 .. ip[j].size - 1 : ByteAt(data, ip, j, x, Byte(j, x))
      BY <3>1 DEF BlocksInv, BytesRight
    <3> QED
      BY <1>1, <2>2, <3>2
  <2> QED
    BY <2>1, <2>2
<1> QED
  BY <1>2, <1>3 DEF BytesRight, FileInums

LEMMA BfreeKeeps ==
    ASSUME BlocksInv, NEW p \in Writers, Bfree(p)
    PROVE  BlocksInv'
<1>1. PICK w, i, k, b, l : /\ w = io[p] /\ i = w.i /\ k = w.k /\ b = Addr(ip[i], k)
                           /\ l = [w EXCEPT !.k = k + 1]
  OBVIOUS
<1>0. w.pc = "itrunc" /\ k <= MAXFILE /\ mkfs.done
  BY <1>1 DEF Bfree, In
<1>2. /\ w.pc = "itrunc" /\ k <= MAXFILE /\ mkfs.done
      /\ bitmap' = IF b = 0 THEN bitmap ELSE [bitmap EXCEPT ![b] = FALSE]
      /\ ip' = IF k < NDIRECT THEN [ip EXCEPT ![i].addrs[k] = 0]
               ELSE IF k = MAXFILE THEN [ip EXCEPT ![i].addrs[NDIRECT] = 0] ELSE ip
      /\ io' = [io EXCEPT ![p] = l]
      /\ UNCHANGED <<sb, mkfs, data, dip, iowner, named, ftab, length, blocksPanic>>
  <2>1. w.pc \in InLocked /\ BlocksTypes /\ w \in IoType
    BY <1>0, <1>1 DEF InLocked, BlocksInv, BlocksTypes
  <2>2. i \in FileInums /\ OneTrunc(io) /\ Truncates(io, p, i) /\ io[p].k = k
    BY <1>0, <1>1, <2>1, Alone, Truncators DEF Truncates
  <2>3. PastIn(io, i) = k
    BY ONLY p \in Writers, <2>2, PastIs
  <2>4. k \in 0 .. MAXFILE
    BY <1>0, <1>1, <2>1, BlockConstants DEF IoType
  <2>5. b = Ad(data, ip[i].addrs, k)
    BY SMTT(60), <1>1, <2>4, BlockConstants DEF Addr, Ad, Lk
  <2>6. b # 0 => bitmap[b]
    <3>1. Placed(FileInums, Data, data, ip, io, Taken)
      BY DEF BlocksInv, PlacesRight
    <3>2. <<i, k>> \in SlotsOf(FileInums) /\ ValuesOf(FileInums, data, ip, io)[<<i, k>>] = b
      BY <2>2, <2>3, <2>4, <2>5, ValueAt
    <3>3. b # 0 => b \in Taken
      BY <3>1, <3>2 DEF Placed, OwnedOnce
    <3> QED
      BY <1>0, <3>3 DEF Taken
  <2> QED
    BY <1>0, <1>1, <2>6 DEF Bfree, In, Set
<1>3. BlocksTypes /\ io \in [Writers -> IoType] /\ w \in IoType /\ IoRight(w) /\ w.pc \in InLocked
  BY <1>1, <1>2 DEF BlocksInv, BlocksTypes, InLocked
<1>4. /\ i \in FileInums \ {1} /\ iowner[i] = p
      /\ \A q \in Writers : io[q].pc \in InLocked /\ io[q].i = i => q = p
  BY <1>1, <1>3, Alone
<1>5. k \in 0 .. MAXFILE /\ k + 1 \in Nat /\ l.pc = "itrunc" /\ l.i = i /\ l.k = k + 1 /\ l \in IoType
  BY <1>1, <1>2, <1>3, BlockConstants DEF IoType
<1>6. io'[p] = l /\ \A q \in Writers : q # p => io'[q] = io[q]
  BY <1>2, <1>3
<1>7. PICK c \in [0 .. NDIRECT -> Nat] : c = ip[i].addrs
  BY <1>3, <1>4 DEF BlocksTypes, InoType
<1>8. PICK a \in [0 .. NDIRECT -> Nat] :
         /\ ip' = [ip EXCEPT ![i] = [ip[i] EXCEPT !.addrs = a]]
         /\ \A m \in 0 .. NDIRECT :
              a[m] = IF (m = k /\ k < NDIRECT) \/ (m = NDIRECT /\ k = MAXFILE) THEN 0 ELSE c[m]
  <2>1. ip \in [FileInums -> InoType] /\ ip[i] \in InoType
    BY <1>3, <1>4 DEF BlocksTypes
  <2>2. CASE k < NDIRECT
    <3>1. PICK a : a = [c EXCEPT ![k] = 0]
      OBVIOUS
    <3>2. a \in [0 .. NDIRECT -> Nat] /\ \A m \in 0 .. NDIRECT : a[m] = IF m = k THEN 0 ELSE c[m]
      BY <1>5, <2>2, <3>1, BlockConstants
    <3>3. k # MAXFILE
      BY <1>5, <2>2, BlockConstants
    <3>4. ip' = [ip EXCEPT ![i] = [ip[i] EXCEPT !.addrs = a]]
      BY <1>2, <1>7, <2>2, <3>1
    <3> QED
      BY <2>2, <3>2, <3>3, <3>4
  <2>3. CASE ~(k < NDIRECT) /\ k = MAXFILE
    <3>1. PICK a : a = [c EXCEPT ![NDIRECT] = 0]
      OBVIOUS
    <3>2. a \in [0 .. NDIRECT -> Nat] /\ \A m \in 0 .. NDIRECT : a[m] = IF m = NDIRECT THEN 0 ELSE c[m]
      BY <3>1, BlockConstants
    <3>3. ip' = [ip EXCEPT ![i] = [ip[i] EXCEPT !.addrs = a]]
      BY <1>2, <1>7, <2>3, <3>1
    <3> QED
      BY <2>3, <3>2, <3>3
  <2>4. CASE ~(k < NDIRECT) /\ k # MAXFILE
    <3>1. ip' = [ip EXCEPT ![i] = [ip[i] EXCEPT !.addrs = c]]
      BY <1>2, <1>4, <1>7, <2>1, <2>4 DEF InoType
    <3> QED
      BY <2>4, <3>1
  <2> QED
    BY <2>2, <2>3, <2>4
<1>9. /\ ip' \in [FileInums -> InoType] /\ ip'[i].addrs = a /\ ip'[i].used = ip[i].used /\ ip'[i].size = ip[i].size
      /\ \A j \in FileInums : j # i => ip'[j] = ip[j]
  BY <1>3, <1>4, <1>8 DEF BlocksTypes, InoType
<1>10. BlocksTypes'
  <2>1. bitmap' \in [Data -> BOOLEAN]
    BY <1>2, <1>3 DEF BlocksTypes
  <2> QED
    BY <1>2, <1>3, <1>5, <1>9, <2>1 DEF BlocksTypes, IoType, Data, FileInums
<1>11. MkfsRight' /\ 1 \in named'
  BY <1>2 DEF BlocksInv, MkfsRight
<1>12. Owners(FileInums, iowner, io')
  <2>1. Owners(FileInums, iowner, io) /\ l.pc \in InLocked
    BY <1>5 DEF BlocksInv, OwnersRight, InLocked
  <2> QED
    BY ONLY p \in Writers, <1>1, <1>2, <1>3, <1>5, <2>1, OwnersStay
<1>13. OwnersRight'
  BY <1>2, <1>12 DEF OwnersRight, FileInums
<1>14. ASSUME NEW j \in FileInums' PROVE InodeRight(j)'
  <2>1. j \in FileInums
    BY <1>2, <1>14 DEF FileInums
  <2>2. CASE j = i
    <3>1. InodeRight(i) /\ iowner[i] # Nobody /\ ip[i].used
      BY <1>1, <1>2, <1>3, <1>4, BlocksAssumption DEF BlocksInv, IoRight, TruncRight
    <3> QED
      BY <1>2, <1>9, <2>2, <3>1 DEF InodeRight
  <2>3. CASE j # i
    BY <1>2, <1>9, <2>1, <2>3, OthersInodes
  <2> QED
    BY <2>2, <2>3
<1>15. TruncRight(w)
  BY <1>3 DEF IoRight
<1>16. ASSUME NEW g \in OpenFiles PROVE OpenRight(g)'
  <2>1. ftab[g].ip # i /\ ftab'[g] = ftab[g]
    BY <1>1, <1>2, <1>15 DEF TruncRight
  <2> QED
    BY <1>2, <1>9, <2>1, OthersFiles
<1>17. IoRight(l)'
  <2>1. ASSUME NEW m \in 0 .. NDIRECT, m < k + 1, m < NDIRECT \/ k + 1 > MAXFILE PROVE a[m] = 0
    <3>1. CASE m < k /\ m < NDIRECT
      <4>1. c[m] = 0
        BY <1>1, <1>2, <1>7, <1>15, <3>1 DEF TruncRight
      <4> QED
        BY <1>8, <4>1
    <3>2. CASE m = k /\ m < NDIRECT
      BY <1>8, <3>2
    <3>3. CASE ~(m < NDIRECT)
      <4>1. m = NDIRECT /\ k = MAXFILE
        BY <1>5, <2>1, <3>3, BlockConstants
      <4> QED
        BY <1>8, <4>1
    <3> QED
      BY <1>5, <2>1, <3>1, <3>2, <3>3, BlockConstants
  <2>2. k + 1 <= MAXFILE + 1
    BY <1>5, BlockConstants
  <2>3. TruncRight(l)'
    <3>1. i \in FileInums' \ {1} /\ i \notin named' /\ ip'[i].used /\ \A g \in OpenFiles : ftab'[g].ip # i
      BY <1>1, <1>2, <1>4, <1>9, <1>15 DEF TruncRight, FileInums
    <3>2. \A m \in 0 .. NDIRECT : m < k + 1 /\ (m < NDIRECT \/ k + 1 > MAXFILE) => ip'[i].addrs[m] = 0
      BY <1>9, <2>1
    <3> QED
      BY <1>5, <2>2, <3>1, <3>2 DEF TruncRight
  <2> QED
    BY <1>5, <2>3 DEF IoRight, WriteRight, ChunkRight
<1>18. ASSUME NEW q \in Writers PROVE IoRight(io[q])'
  <2>1. CASE q = p
    BY <1>6, <1>17, <2>1
  <2>2. CASE q # p
    <3>1. PICK v : v = io[q] /\ v = io'[q]
      BY <1>6, <2>2
    <3>2. IoRight(v)'
      BY <1>1, <1>2, <1>3, <1>9, <2>2, <3>1, OthersIo
    <3> QED
      BY <3>1, <3>2
  <2> QED
    BY <2>1, <2>2
<1>19. BytesRight'
  <2>1. io[p].pc = "itrunc" /\ i = io[p].i /\ io'[p].pc = "itrunc" /\ io'[p].i = i
    BY <1>1, <1>2, <1>5, <1>6
  <2> QED
    BY <1>2, <1>6, <1>9, <2>1, OthersBytes
<1>20. PlacesRight'
  <2>1. PICK u, ins, new, v : u = io' /\ ins = ip /\ new = ip' /\ v = io
    OBVIOUS
  <2>2. OneTrunc(v) /\ Truncates(v, p, i) /\ Truncates(u, p, i) /\ u[p].k = k + 1 /\ v[p].k = k
    BY <1>1, <1>2, <1>5, <1>6, <2>1, Truncators DEF Truncates
  <2>3. \A q \in Writers : \A j : Truncates(v, q, j) <=> Truncates(u, q, j)
    BY <1>1, <1>2, <1>5, <1>6, <2>1 DEF Truncates
  <2>4. OneTrunc(u)
    BY <2>2, <2>3 DEF OneTrunc, Truncates
  <2>5. PastIn(v, i) = k
    BY ONLY p \in Writers, <2>2, PastIs
  <2>6. PastIn(u, i) = k + 1
    BY ONLY p \in Writers, <2>2, <2>4, PastIs
  <2>7. ASSUME NEW j \in FileInums, j # i PROVE PastIn(u, j) = PastIn(v, j)
    <3>1. \A q \in Writers : Truncates(v, q, j) <=> Truncates(u, q, j)
      BY <2>3
    <3>2. \A q \in Writers : Truncates(v, q, j) => v[q].k = u[q].k
      BY <1>1, <1>6, <2>1, <2>7 DEF Truncates
    <3> QED
      BY ONLY <2>2, <2>4, <3>1, <3>2, PastSame
  <2>8. Placed(FileInums, Data, data, ins, v, Taken)
    BY <2>1 DEF BlocksInv, PlacesRight
  <2>9. b = Ad(data, ins[i].addrs, k)
    BY SMTT(60), <1>1, <1>5, <2>1, BlockConstants DEF Addr, Ad, Lk
  <2>10. /\ new \in [FileInums -> InoType] /\ \A j \in FileInums : j # i => new[j] = ins[j]
         /\ \A m \in 0 .. NDIRECT :
              new[i].addrs[m] = IF (m = k /\ k < NDIRECT) \/ (m = NDIRECT /\ k = MAXFILE) THEN 0
                                ELSE ins[i].addrs[m]
    BY <1>7, <1>8, <1>9, <2>1
  <2>11. Placed(FileInums, Data, data, new, u, Taken \ {Ad(data, ins[i].addrs, k)})
    <3>1. i \in FileInums
      BY <1>4
    <3> QED
      BY ONLY <1>5, <2>5, <2>6, <2>7, <2>8, <2>10, <3>1, BlockFreed
  <2>12. Taken' = Taken \ {b}
    <3>1. Data' = Data /\ 0 \notin Data
      BY <1>2, <2>8 DEF Data, Placed
    <3>2. bitmap \in [Data -> BOOLEAN]
      BY <1>3 DEF BlocksTypes
    <3>3. Taken = {x \in Data : bitmap[x]} /\ Taken' = {x \in Data : bitmap'[x]}
      BY <1>2, <3>1 DEF Taken
    <3>4. ASSUME NEW x \in Data PROVE bitmap'[x] <=> bitmap[x] /\ x # b
      BY <1>2, <3>1, <3>2
    <3> QED
      BY <3>3, <3>4
  <2> QED
    BY <1>2, <2>1, <2>9, <2>11, <2>12 DEF PlacesRight, FileInums, Data
<1> QED
  BY <1>10, <1>11, <1>13, <1>14, <1>16, <1>18, <1>19, <1>20 DEF BlocksInv

LEMMA EndTruncKeeps ==
    ASSUME BlocksInv, NEW p \in Writers, EndTrunc(p)
    PROVE  BlocksInv'
<1>1. PICK w, i : w = io[p] /\ i = w.i
  OBVIOUS
<1>2. /\ w.pc = "itrunc" /\ w.k > MAXFILE /\ mkfs.done
      /\ ip' = [ip EXCEPT ![i] = [ip[i] EXCEPT !.used = FALSE, !.size = 0]]
      /\ dip' = [dip EXCEPT ![i] = ip'[i]] /\ length' = [length EXCEPT ![i] = 0]
      /\ iowner' = [iowner EXCEPT ![i] = Nobody] /\ io' = [io EXCEPT ![p] = Idle]
      /\ UNCHANGED <<sb, mkfs, data, bitmap, named, ftab, blocksPanic>>
  BY <1>1 DEF EndTrunc, In, Set
<1>3. BlocksTypes /\ io \in [Writers -> IoType] /\ w \in IoType /\ IoRight(w) /\ w.pc \in InLocked /\ TruncRight(w)
  BY <1>1, <1>2 DEF BlocksInv, BlocksTypes, InLocked, IoRight
<1>4. /\ i \in FileInums \ {1} /\ iowner[i] = p
      /\ \A q \in Writers : io[q].pc \in InLocked /\ io[q].i = i => q = p
  BY <1>1, <1>3, Alone
<1>5. ip[i].addrs = NoAddrs
  <2>1. ip[i].addrs \in [0 .. NDIRECT -> Nat]
    BY <1>3, <1>4 DEF BlocksTypes, InoType
  <2>2. ASSUME NEW k \in 0 .. NDIRECT PROVE ip[i].addrs[k] = 0
    <3>1. k < w.k /\ (k < NDIRECT \/ w.k > MAXFILE)
      BY <1>2, <1>3, BlockConstants DEF IoType
    <3> QED
      BY <1>1, <1>2, <1>3, <3>1 DEF TruncRight
  <2> QED
    BY <2>1, <2>2 DEF NoAddrs
<1>6. FreeInode \in InoType /\ FreeInode = [used |-> FALSE, size |-> 0, addrs |-> NoAddrs]
  <2>1. NoAddrs \in [0 .. NDIRECT -> Nat]
    BY DEF NoAddrs
  <2>2. \A no, yes, a : [[used |-> yes, size |-> 0, addrs |-> a] EXCEPT !.used = no]
                          = [used |-> no, size |-> 0, addrs |-> a]
    OBVIOUS
  <2>3. FreeInode = [used |-> FALSE, size |-> 0, addrs |-> NoAddrs]
    BY <2>2 DEF FreshInode, FreeInode
  <2> QED
    BY <2>1, <2>3 DEF InoType
<1>7. /\ ip'[i] = FreeInode /\ dip'[i] = FreeInode /\ length'[i] = 0 /\ iowner'[i] = Nobody
      /\ \A j \in FileInums : j # i => /\ ip'[j] = ip[j] /\ dip'[j] = dip[j] /\ length'[j] = length[j]
                                       /\ iowner'[j] = iowner[j]
  <2>1. ip[i] \in InoType /\ ip \in [FileInums -> InoType] /\ dip \in [FileInums -> InoType]
    BY <1>3, <1>4 DEF BlocksTypes
  <2>2. [ip[i] EXCEPT !.used = FALSE, !.size = 0] = FreeInode
    <3>1. PICK r \in InoType : r = ip[i] /\ r.addrs = NoAddrs
      BY <1>5, <2>1
    <3>2. PICK s : s = [r EXCEPT !.used = FALSE, !.size = 0]
      OBVIOUS
    <3>3. s \in InoType /\ s.used = FALSE /\ s.size = 0 /\ s.addrs = NoAddrs
      BY <3>1, <3>2 DEF InoType
    <3>4. FreeInode.used = FALSE /\ FreeInode.size = 0 /\ FreeInode.addrs = NoAddrs
      BY <1>6
    <3>5. s = FreeInode
      BY <1>6, <3>3, <3>4 DEF InoType
    <3> QED
      BY <3>1, <3>2, <3>5
  <2>3. ip' = [ip EXCEPT ![i] = FreeInode]
    BY <1>2, <2>2
  <2>4. ip'[i] = FreeInode
    BY <1>4, <2>1, <2>3
  <2>5. dip' = [dip EXCEPT ![i] = FreeInode]
    BY <1>2, <2>4
  <2> QED
    BY <1>2, <1>3, <1>4, <2>1, <2>3, <2>5 DEF BlocksTypes
<1>8. io'[p] = Idle /\ \A q \in Writers : q # p => io'[q] = io[q]
  BY <1>2, <1>3
<1>9. Idle \in IoType /\ Idle.pc = "idle"
  BY DEF Idle, IoType
<1>10. BlocksTypes'
  <2>1. ip' \in [FileInums -> InoType] /\ dip' \in [FileInums -> InoType]
    BY <1>2, <1>3, <1>6, <1>7 DEF BlocksTypes
  <2> QED
    BY <1>2, <1>3, <1>9, <2>1 DEF BlocksTypes, IoType, Data, FileInums
<1>11. MkfsRight' /\ 1 \in named'
  BY <1>2 DEF BlocksInv, MkfsRight
<1>12. OwnersRight'
  <2>1. /\ Owners(FileInums, iowner, io) /\ Idle.pc \notin InLocked
        /\ iowner \in [FileInums -> Writers \cup {Nobody}] /\ i \in FileInums
    BY <1>3, <1>4, <1>9 DEF BlocksInv, OwnersRight, BlocksTypes, InLocked
  <2>2. Owners(FileInums, iowner', io')
    BY ONLY p \in Writers, <1>1, <1>2, <1>3, <2>1, OwnersDrop
  <2> QED
    BY <1>2, <2>2 DEF OwnersRight, FileInums
<1>13. ASSUME NEW j \in FileInums' PROVE InodeRight(j)'
  <2>1. j \in FileInums
    BY <1>2, <1>13 DEF FileInums
  <2>2. CASE j = i
    <3>1. i \notin named' /\ \A g \in OpenFiles : ftab'[g].ip # i
      BY <1>1, <1>2, <1>3 DEF TruncRight
    <3>2. FreeInode.size <= MAXFILE * BSIZE
      BY <1>6, BlockConstants
    <3> QED
      BY <1>6, <1>7, <2>2, <3>1, <3>2 DEF InodeRight
  <2>3. CASE j # i
    BY <1>2, <1>7, <2>1, <2>3, OthersInodes
  <2> QED
    BY <2>2, <2>3
<1>14. ASSUME NEW g \in OpenFiles PROVE OpenRight(g)'
  <2>1. ftab[g].ip # i /\ ftab'[g] = ftab[g]
    BY <1>1, <1>2, <1>3 DEF TruncRight
  <2> QED
    BY <1>2, <1>7, <2>1, OthersFiles
<1>15. IoRight(Idle)'
  BY <1>9 DEF IoRight, WriteRight, ChunkRight, TruncRight, Idle
<1>16. ASSUME NEW q \in Writers PROVE IoRight(io[q])'
  <2>1. CASE q = p
    BY <1>8, <1>15, <2>1
  <2>2. CASE q # p
    <3>1. PICK v : v = io[q] /\ v = io'[q]
      BY <1>8, <2>2
    <3>2. IoRight(v)'
      BY <1>1, <1>2, <1>3, <1>7, <2>2, <3>1, OthersIo
    <3> QED
      BY <3>1, <3>2
  <2> QED
    BY <2>1, <2>2
<1>17. BytesRight'
  <2>1. ip'[i].size = 0 /\ io'[p].pc = "idle"
    BY <1>6, <1>7, <1>8, <1>9
  <2> QED
    BY <1>1, <1>2, <1>7, <1>8, <2>1, OthersBytes
<1>18. PlacesRight'
  <2>1. PICK u, ins, new, v : u = io' /\ ins = ip /\ new = ip' /\ v = io
    OBVIOUS
  <2>2. OneTrunc(v) /\ \A q \in Writers : ~Truncates(u, q, i)
    BY <1>4, <1>8, <1>9, <2>1, Truncators DEF Truncates, InLocked
  <2>3. \A q \in Writers : \A j : j # i => (Truncates(v, q, j) <=> Truncates(u, q, j))
    BY <1>1, <1>8, <1>9, <2>1 DEF Truncates
  <2>4. OneTrunc(u)
    BY <2>2, <2>3 DEF OneTrunc, Truncates
  <2>5. PastIn(u, i) = 0
    BY <2>2, PastNone
  <2>6. ASSUME NEW j \in FileInums, j # i PROVE PastIn(u, j) = PastIn(v, j)
    <3>1. \A q \in Writers : Truncates(v, q, j) <=> Truncates(u, q, j)
      BY <2>3, <2>6
    <3>2. \A q \in Writers : Truncates(v, q, j) => v[q].k = u[q].k
      BY <1>1, <1>8, <2>1, <2>6 DEF Truncates
    <3> QED
      BY ONLY <2>2, <2>4, <3>1, <3>2, PastSame
  <2>7. Placed(FileInums, Data, data, ins, v, Taken)
    BY <2>1 DEF BlocksInv, PlacesRight
  <2>8. new \in [FileInums -> InoType] /\ (\A j \in FileInums : new[j].addrs = ins[j].addrs) /\ new[i].addrs = NoAddrs
    <3>1. FileInums' = FileInums
      BY <1>2 DEF FileInums
    <3>2. ip' \in [FileInums -> InoType]
      BY <1>10, <3>1 DEF BlocksTypes
    <3> QED
      BY <1>2, <1>4, <1>5, <1>6, <1>7, <2>1, <3>2
  <2>9. AddrsKept(FileInums, ins, v, new, u)
    BY <2>5, <2>6, <2>7, <2>8 DEF AddrsKept, Placed
  <2>10. Placed(FileInums, Data, data, new, u, Taken)
    BY ONLY <2>7, <2>9, PlacesKept
  <2> QED
    BY <1>2, <2>1, <2>10 DEF PlacesRight, FileInums, Data, Taken
<1> QED
  BY <1>10, <1>11, <1>12, <1>13, <1>14, <1>16, <1>17, <1>18 DEF BlocksInv
-----------------------------------------------------------------------------
\* A process that does not truncate moves.
LEMMA PastMoves ==
    ASSUME NEW w, OneTrunc(w), NEW u, NEW p \in Writers, w[p].pc # "itrunc", u[p].pc # "itrunc",
           \A q \in Writers : q # p => u[q] = w[q], NEW i
    PROVE  PastIn(u, i) = PastIn(w, i)
<1>1. \A q \in Writers : \A j : Truncates(w, q, j) <=> Truncates(u, q, j)
  BY DEF Truncates
<1>2. OneTrunc(u)
  BY <1>1 DEF OneTrunc, Truncates
<1>3. \A q \in Writers : Truncates(w, q, i) => w[q].k = u[q].k
  BY DEF Truncates
<1>4. \A q \in Writers : Truncates(w, q, i) <=> Truncates(u, q, i)
  BY <1>1
<1> QED
  BY ONLY OneTrunc(w), <1>2, <1>3, <1>4, PastSame

\* The inodes nobody truncates, and the one of a process that writes.
LEMMA NotPast ==
    ASSUME BlocksInv, NEW j, \A q \in Writers : ~(io[q].pc = "itrunc" /\ io[q].i = j)
    PROVE  PastIn(io, j) = 0
  BY PastNone DEF Truncates

LEMMA WriterNotPast ==
    ASSUME BlocksInv, NEW p \in Writers, io[p].pc = "writei"
    PROVE  \A q \in Writers : ~(io[q].pc = "itrunc" /\ io[q].i = io[p].i)
  BY Alone DEF InLocked

\* What is known of a writer.
LEMMA Writer ==
    ASSUME BlocksInv, NEW p \in Writers, NEW w, w = io[p], w.pc = "writei"
    PROVE  /\ w \in IoType /\ w.f \in OpenFiles /\ w.i \in FileInums \ {1} /\ ftab[w.f].ip = w.i
           /\ w.off \in Nat /\ w.n \in Nat /\ w.todo \in Nat /\ ftab[w.f].off \in Nat /\ ftab[w.f].off <= w.off
           /\ w.off - ftab[w.f].off + w.n <= w.todo /\ w.off + w.n <= MAXFILE * BSIZE
           /\ ip[w.i].addrs # dip[w.i].addrs => w.off + w.n > ip[w.i].size
           /\ ip[w.i].size \in Nat /\ ip[w.i].size <= MAXFILE * BSIZE /\ ip[w.i].used /\ MAXFILE * BSIZE \in Nat
<1>1. w \in IoType /\ IoRight(w) /\ BlocksTypes
  BY DEF BlocksInv, BlocksTypes
<1>2. w.f \in OpenFiles /\ w.i \in FileInums \ {1} /\ ftab[w.f].ip = w.i
  BY <1>1 DEF IoRight, WriteRight
<1>3. w.off \in Nat /\ w.n \in Nat /\ w.todo \in Nat /\ ftab[w.f].off \in Nat /\ ip[w.i].size \in Nat
  BY <1>1, <1>2 DEF IoType, BlocksTypes, InoType
<1>4. InodeRight(w.i) /\ MAXFILE * BSIZE \in Nat
  BY <1>2, BlockConstants DEF BlocksInv
<1>5. ip[w.i].size <= MAXFILE * BSIZE /\ ip[w.i].used
  BY <1>2, <1>4 DEF InodeRight
<1> QED
  BY <1>1, <1>2, <1>3, <1>4, <1>5 DEF IoRight, ChunkRight

\* The bytes after new blocks d with the inodes ins: those that were there are
\* there, and the writer has come to its offset.
LEMMA BytesAfter ==
    ASSUME BlocksInv, NEW p \in Writers, io[p].pc = "writei", NEW l, l.pc = "writei", l.i = io[p].i,
           io' = [io EXCEPT ![p] = l], sb' = sb, NEW d, d = data', NEW ins, ins = ip',
           \A j \in FileInums : ins[j].size = ip[j].size,
           \A j \in FileInums, x \in Nat :
             PastIn(io, j) = 0 /\ x < MAXFILE * BSIZE /\ ByteAt(data, ip, j, x, Byte(j, x)) => ByteAt(d, ins, j, x, Byte(j, x)),
           \A x \in 0 .. l.off - 1 : ByteAt(d, ins, l.i, x, Byte(l.i, x))
    PROVE  BytesRight'
<1>1. io \in [Writers -> IoType] /\ ip \in [FileInums -> InoType]
  BY DEF BlocksInv, BlocksTypes
<1>2. io'[p] = l /\ \A q \in Writers : q # p => io'[q] = io[q]
  BY <1>1
<1>3. ASSUME NEW j \in FileInums \ {1}, \A q \in Writers : ~(io'[q].pc = "itrunc" /\ io'[q].i = j),
             NEW x \in 0 .. ins[j].size - 1
      PROVE  ByteAt(d, ins, j, x, Byte(j, x))
  <2>1. \A q \in Writers : ~(io[q].pc = "itrunc" /\ io[q].i = j)
    BY <1>2, <1>3
  <2>2. ip[j].size \in Nat /\ ip[j].size <= MAXFILE * BSIZE /\ MAXFILE * BSIZE \in Nat
    <3>1. InodeRight(j) /\ ip[j] \in InoType
      BY <1>1 DEF BlocksInv
    <3> QED
      BY <3>1, BlockConstants DEF InodeRight, InoType
  <2>3. x \in Nat /\ x \in 0 .. ip[j].size - 1 /\ x < MAXFILE * BSIZE
    BY <1>3, <2>2
  <2>4. ByteAt(data, ip, j, x, Byte(j, x))
    BY <2>1, <2>3 DEF BlocksInv, BytesRight
  <2>5. PastIn(io, j) = 0
    BY <2>1, NotPast
  <2> QED
    BY <2>3, <2>4, <2>5
<1>4. ASSUME NEW q \in Writers, io'[q].pc = "writei", NEW x \in 0 .. io'[q].off - 1
      PROVE  ByteAt(d, ins, io'[q].i, x, Byte(io'[q].i, x))
  <2>1. CASE q = p
    BY <1>2, <1>4, <2>1
  <2>2. CASE q # p
    <3>1. PICK w : w = io[q] /\ w = io'[q] /\ w.pc = "writei"
      BY <1>2, <1>4, <2>2
    <3>2. /\ w.i \in FileInums /\ w.off \in Nat /\ w.n \in Nat /\ w.off + w.n <= MAXFILE * BSIZE
          /\ MAXFILE * BSIZE \in Nat
      BY <3>1, Writer
    <3>3. x \in Nat /\ x \in 0 .. w.off - 1 /\ x < MAXFILE * BSIZE
      BY <1>4, <3>1, <3>2
    <3>4. ByteAt(data, ip, w.i, x, Byte(w.i, x))
      BY <3>1, <3>3 DEF BlocksInv, BytesRight
    <3>5. PastIn(io, w.i) = 0
      BY <3>1, WriterNotPast, NotPast
    <3> QED
      BY <3>1, <3>2, <3>3, <3>4, <3>5
  <2> QED
    BY <2>1, <2>2
<1>5. \A i, x : Byte(i, x)' = Byte(i, x)
  BY DEF Byte
<1> QED
  BY <1>3, <1>4, <1>5 DEF BytesRight, FileInums

LEMMA CopyInKeeps ==
    ASSUME BlocksInv, NEW p \in Writers, CopyIn(p)
    PROVE  BlocksInv'
<1>1. PICK w, i, off, r, b, m :
         /\ w = io[p] /\ i = w.i /\ off = w.off /\ r = off % BSIZE
         /\ b = Lookup(ip[i], off \div BSIZE) /\ m = Min2(w.n, BSIZE - r)
  OBVIOUS
<1>2. PICK l : l = [w EXCEPT !.off = off + m, !.n = w.n - m]
  OBVIOUS
<1>3. /\ w.pc = "writei" /\ w.n > 0 /\ b # 0 /\ mkfs.done /\ io' = [io EXCEPT ![p] = l]
      /\ data' = [data EXCEPT ![b] =
                     [c \in Cells |-> IF c \in r .. r + m - 1 THEN Byte(i, off + c - r) ELSE data[b][c]]]
      /\ UNCHANGED <<sb, mkfs, bitmap, dip, ip, iowner, named, ftab, length, blocksPanic>>
  BY <1>1, <1>2 DEF CopyIn, In, Set
<1>4. /\ w \in IoType /\ w.f \in OpenFiles /\ i \in FileInums \ {1} /\ ftab[w.f].ip = i
      /\ off \in Nat /\ w.n \in Nat /\ w.todo \in Nat /\ ftab[w.f].off \in Nat /\ ftab[w.f].off <= off
      /\ off - ftab[w.f].off + w.n <= w.todo /\ off + w.n <= MAXFILE * BSIZE
      /\ ip[i].addrs # dip[i].addrs => off + w.n > ip[i].size
      /\ MAXFILE * BSIZE \in Nat /\ ip[i].size \in Nat
  BY <1>1, <1>3, Writer
<1>5. off < MAXFILE * BSIZE /\ r \in 0 .. BSIZE - 1 /\ off \div BSIZE < MAXFILE /\ r <= off /\ off \div BSIZE \in Nat
  <2>1. off < MAXFILE * BSIZE
    BY <1>3, <1>4
  <2>2. off \div BSIZE \in 0 .. MAXFILE - 1
    BY <1>4, <2>1, BlockOf
  <2>3. r \in 0 .. BSIZE - 1 /\ r <= off
    BY <1>1, <1>4, BlockOf
  <2> QED
    BY <2>1, <2>2, <2>3, BlockConstants
<1>6. m \in Nat /\ m <= w.n /\ r + m <= BSIZE
  BY SMTT(60), <1>1, <1>3, <1>4, <1>5, BlockConstants DEF Min2
<1>7. /\ l.pc = "writei" /\ l.f = w.f /\ l.i = i /\ l.todo = w.todo /\ l.off = off + m /\ l.n = w.n - m
      /\ l \in IoType /\ l.n \in Nat
  <2>1. w.n - m \in Nat /\ off + m \in Nat
    BY <1>4, <1>6
  <2>2. l \in IoType /\ l.off = off + m /\ l.n = w.n - m
    BY <1>2, <1>4, <2>1 DEF IoType
  <2>3. l.pc = w.pc /\ l.f = w.f /\ l.i = w.i /\ l.todo = w.todo
    BY <1>2, <1>4 DEF IoType
  <2> QED
    BY <1>1, <1>3, <2>1, <2>2, <2>3
<1>8. BlocksTypes /\ io \in [Writers -> IoType]
  BY DEF BlocksInv, BlocksTypes
<1>9. io'[p] = l /\ \A q \in Writers : q # p => io'[q] = io[q]
  BY <1>3, <1>8
<1>10. \A q \in Writers : ~(io[q].pc = "itrunc" /\ io[q].i = i)
  BY <1>1, <1>3, WriterNotPast
<1>11. PastIn(io, i) = 0
  BY <1>10, NotPast
<1>12. PICK v \in [Nat -> Nat] : \A x \in Nat : v[x] = Byte(i, x)
  <2>1. PICK v : v = [x \in Nat |-> Byte(i, x)]
    OBVIOUS
  <2>2. \A x \in Nat : Byte(i, x) \in Nat
    BY <1>4, <1>8, ByteIs
  <2> QED
    BY <2>1, <2>2
<1>13. PICK ins, e, u : ins = ip /\ e = data' /\ u = io
  OBVIOUS
<1>14. e = Copied(data, b, off, m, v)
  <2>1. \A c \in r .. r + m - 1 : Byte(i, off + c - r) = v[off + c - r]
    BY <1>4, <1>5, <1>6, <1>12
  <2>2. [c \in Cells |-> IF c \in r .. r + m - 1 THEN Byte(i, off + c - r) ELSE data[b][c]]
          = [c \in Cells |-> IF c \in r .. r + m - 1 THEN v[off + c - r] ELSE data[b][c]]
    BY <2>1
  <2> QED
    BY <1>1, <1>3, <1>13, <2>2 DEF Copied
<1>15. Placed(FileInums, Data, data, ins, u, Taken)
  BY <1>13 DEF BlocksInv, PlacesRight
<1>16. /\ Placed(FileInums, Data, e, ins, u, Taken)
       /\ \A j \in FileInums, x \in Nat : \A y :
            PastIn(u, j) = 0 /\ x < MAXFILE * BSIZE /\ ByteAt(data, ins, j, x, y)
              /\ (j = i => x \notin off .. off + m - 1) => ByteAt(e, ins, j, x, y)
       /\ \A x \in off .. off + m - 1 : ByteAt(e, ins, i, x, v[x])
  <2>1. b = Lk(data, ins[i].addrs, off \div BSIZE)
    BY <1>1, <1>13 DEF Lookup, Lk
  <2>2. i \in FileInums /\ PastIn(u, i) = 0 /\ off \in Nat /\ off \div BSIZE < MAXFILE /\ b # 0
        /\ m \in Nat /\ (off % BSIZE) + m <= BSIZE /\ v \in [Nat -> Nat]
    BY <1>1, <1>3, <1>4, <1>5, <1>6, <1>11, <1>12, <1>13
  <2> QED
    BY ONLY <1>14, <1>15, <2>1, <2>2, BytesCopied
<1>17. ASSUME NEW j \in FileInums, NEW x \in Nat, PastIn(io, j) = 0, x < MAXFILE * BSIZE,
              ByteAt(data, ip, j, x, Byte(j, x))
       PROVE  ByteAt(e, ins, j, x, Byte(j, x))
  <2>1. CASE j = i /\ x \in off .. off + m - 1
    BY <1>12, <1>16, <2>1
  <2>2. CASE ~(j = i /\ x \in off .. off + m - 1)
    BY <1>13, <1>16, <1>17, <2>2
  <2> QED
    BY <2>1, <2>2
<1>18. ASSUME NEW x \in 0 .. l.off - 1 PROVE ByteAt(e, ins, l.i, x, Byte(l.i, x))
  <2>1. x \in Nat /\ x < MAXFILE * BSIZE
    BY <1>4, <1>6, <1>7
  <2>2. CASE x < off
    <3>1. ByteAt(data, ip, i, x, Byte(i, x))
      <4>1. x \in 0 .. io[p].off - 1
        BY <1>1, <1>4, <2>1, <2>2
      <4> QED
        BY <1>1, <1>3, <4>1 DEF BlocksInv, BytesRight
    <3> QED
      BY <1>4, <1>7, <1>11, <1>17, <2>1, <3>1
  <2>3. CASE ~(x < off)
    <3>1. x \in off .. off + m - 1
      BY <1>4, <1>6, <1>7, <2>1, <2>3
    <3> QED
      BY <1>7, <1>12, <1>16, <2>1, <3>1
  <2> QED
    BY <2>2, <2>3
<1>19. BytesRight'
  BY <1>1, <1>3, <1>7, <1>13, <1>17, <1>18, BytesAfter
<1>20. PlacesRight'
  <2>1. PICK z : z = io'
    OBVIOUS
  <2>2. ASSUME NEW j \in FileInums PROVE PastIn(z, j) = PastIn(u, j)
    <3>1. /\ OneTrunc(u) /\ u[p].pc # "itrunc" /\ z[p].pc # "itrunc"
          /\ \A q \in Writers : q # p => z[q] = u[q]
      BY <1>1, <1>3, <1>7, <1>9, <1>13, <2>1, Truncators
    <3> QED
      BY ONLY p \in Writers, <3>1, PastMoves
  <2>3. AddrsKept(FileInums, ins, u, ins, z)
    BY <1>16, <2>2 DEF AddrsKept, Placed
  <2>4. Placed(FileInums, Data, e, ins, z, Taken)
    BY ONLY <1>16, <2>3, PlacesKept
  <2> QED
    BY <1>3, <1>13, <2>1, <2>4 DEF PlacesRight, FileInums, Data, Taken
<1>21. BlocksTypes'
  <2>1. data' \in [Data -> [Cells -> Nat]]
    BY <1>13, <1>16 DEF Placed
  <2> QED
    BY <1>3, <1>7, <1>8, <2>1 DEF BlocksTypes, IoType, Data, FileInums
<1>22. MkfsRight' /\ 1 \in named'
  BY <1>3 DEF BlocksInv, MkfsRight
<1>23. OwnersRight'
  <2>1. Owners(FileInums, iowner, io) /\ l.pc \in InLocked /\ w.pc \in InLocked
    BY <1>3, <1>7 DEF BlocksInv, OwnersRight, InLocked
  <2>2. Owners(FileInums, iowner, io')
    BY ONLY p \in Writers, <1>1, <1>3, <1>7, <1>8, <2>1, OwnersStay
  <2> QED
    BY <1>3, <2>2 DEF OwnersRight, FileInums
<1>24. ASSUME NEW j \in FileInums' PROVE InodeRight(j)'
  <2>1. j \in FileInums /\ InodeRight(j)
    BY <1>3, <1>24 DEF BlocksInv, FileInums
  <2> QED
    BY <1>3, <2>1 DEF InodeRight
<1>25. \A g \in OpenFiles : OpenRight(g)'
  BY <1>3 DEF BlocksInv, OpenRight, FileInums
<1>26. \A z : IoRight(z)' <=> IoRight(z)
  BY <1>3 DEF IoRight, WriteRight, ChunkRight, TruncRight, FileInums
<1>27. IoRight(l)
  <2>1. l.off + l.n = off + w.n /\ ftab[w.f].off <= l.off
    BY <1>4, <1>6, <1>7
  <2>2. l.off - ftab[w.f].off + l.n <= l.todo
    BY <1>4, <1>6, <1>7
  <2> QED
    BY <1>4, <1>7, <2>1, <2>2 DEF IoRight, WriteRight, ChunkRight, TruncRight
<1>28. \A q \in Writers : IoRight(io[q])'
  BY <1>9, <1>26, <1>27 DEF BlocksInv
<1> QED
  BY <1>19, <1>20, <1>21, <1>22, <1>23, <1>24, <1>25, <1>28 DEF BlocksInv

LEMMA EndChunkKeeps ==
    ASSUME BlocksInv, NEW p \in Writers, EndChunk(p)
    PROVE  BlocksInv'
<1>1. PICK w, i, off, left, s, l :
         /\ w = io[p] /\ i = w.i /\ off = w.off /\ left = w.todo - (off - ftab[w.f].off)
         /\ s = (IF off > ip[i].size THEN off ELSE ip[i].size)
         /\ l = (IF left = 0 THEN Idle ELSE [w EXCEPT !.pc = "filewrite", !.todo = left])
  OBVIOUS
<1>2. /\ w.pc = "writei" /\ w.n = 0 /\ mkfs.done /\ io' = [io EXCEPT ![p] = l]
      /\ ip' = [ip EXCEPT ![i] = [ip[i] EXCEPT !.size = s]]
      /\ dip' = IF off > ip[i].size THEN [dip EXCEPT ![i] = [ip[i] EXCEPT !.size = off]] ELSE dip
      /\ ftab' = [ftab EXCEPT ![w.f] = [ftab[w.f] EXCEPT !.off = off]]
      /\ iowner' = [iowner EXCEPT ![i] = Nobody]
      /\ length' = [length EXCEPT ![i] = IF off > length[i] THEN off ELSE length[i]]
      /\ UNCHANGED <<sb, mkfs, data, bitmap, named, blocksPanic>>
  BY <1>1 DEF EndChunk, In, Set, Iupdated
<1>3. /\ w \in IoType /\ w.f \in OpenFiles /\ i \in FileInums \ {1} /\ ftab[w.f].ip = i
      /\ off \in Nat /\ w.n \in Nat /\ w.todo \in Nat /\ ftab[w.f].off \in Nat /\ ftab[w.f].off <= off
      /\ off - ftab[w.f].off + w.n <= w.todo /\ off + w.n <= MAXFILE * BSIZE
      /\ ip[i].addrs # dip[i].addrs => off + w.n > ip[i].size
      /\ MAXFILE * BSIZE \in Nat /\ ip[i].size \in Nat /\ ip[i].size <= MAXFILE * BSIZE /\ ip[i].used
  BY <1>1, <1>2, Writer
<1>4. s \in Nat /\ s >= off /\ s >= ip[i].size /\ s <= MAXFILE * BSIZE
  BY <1>1, <1>2, <1>3
<1>5. BlocksTypes /\ io \in [Writers -> IoType] /\ ip \in [FileInums -> InoType] /\ dip \in [FileInums -> InoType]
  BY DEF BlocksInv, BlocksTypes
<1>6. l \in IoType /\ l.pc \in {"idle", "filewrite"} /\ (l.pc = "filewrite" => l.f = w.f /\ l.i = i) /\ (l.pc = "idle" => l = Idle)
  <2>1. CASE left = 0
    BY <1>1, <2>1 DEF Idle, IoType
  <2>2. CASE left # 0
    <3>1. left \in Nat
      BY <1>1, <1>2, <1>3
    <3>2. l \in IoType /\ l.pc = "filewrite"
      BY <1>1, <1>3, <2>2, <3>1 DEF IoType
    <3>3. l.f = w.f /\ l.i = w.i
      BY <1>1, <1>3, <2>2 DEF IoType
    <3> QED
      BY <1>1, <3>2, <3>3
  <2> QED
    BY <2>1, <2>2
<1>7. io'[p] = l /\ \A q \in Writers : q # p => io'[q] = io[q]
  BY <1>2, <1>5
<1>8. /\ ip'[i].size = s /\ ip'[i].addrs = ip[i].addrs /\ ip'[i].used = ip[i].used /\ ip' \in [FileInums -> InoType]
      /\ \A j \in FileInums : j # i => ip'[j] = ip[j]
  BY ZenonT(60), <1>2, <1>3, <1>4, <1>5 DEF InoType
<1>9. InodeRight(i)
  BY <1>3 DEF BlocksInv
<1>10. dip'[i] = ip'[i] /\ \A j \in FileInums : j # i => dip'[j] = dip[j]
  <2>1. CASE off > ip[i].size
    BY <1>1, <1>2, <1>3, <1>5, <2>1
  <2>2. CASE ~(off > ip[i].size)
    <3>1. dip[i] = ip[i]
      <4>1. dip[i].addrs = ip[i].addrs
        BY <1>2, <1>3, <2>2
      <4>2. dip[i].used = ip[i].used /\ dip[i].size = ip[i].size
        BY <1>9 DEF InodeRight
      <4>3. dip[i] \in InoType /\ ip[i] \in InoType
        BY <1>3, <1>5
      <4> QED
        BY <4>1, <4>2, <4>3 DEF InoType
    <3>2. s = ip[i].size
      BY <1>1, <2>2
    <3>3. ip'[i] = ip[i]
      <4>1. ip[i] \in InoType /\ ip'[i] \in InoType
        BY <1>3, <1>5, <1>8
      <4> QED
        BY <1>8, <3>2, <4>1 DEF InoType
    <3> QED
      BY <1>2, <2>2, <3>1, <3>3
  <2> QED
    BY <2>1, <2>2
<1>11. length'[i] = s /\ length' \in [FileInums -> Nat] /\ \A j \in FileInums : j # i => length'[j] = length[j]
  <2>1. length[i] = ip[i].size /\ length \in [FileInums -> Nat]
    BY <1>5, <1>9 DEF InodeRight, BlocksTypes
  <2> QED
    BY <1>1, <1>2, <1>3, <2>1
<1>12. /\ ftab'[w.f].ip = i /\ ftab'[w.f].off = off /\ \A g \in OpenFiles : g # w.f => ftab'[g] = ftab[g]
       /\ ftab' \in [OpenFiles -> [ip : FileInums \cup {0}, off : Nat]]
  <2>1. ftab \in [OpenFiles -> [ip : FileInums \cup {0}, off : Nat]]
    BY <1>5 DEF BlocksTypes
  <2> QED
    BY <1>2, <1>3, <2>1
<1>13. /\ iowner'[i] = Nobody /\ iowner' \in [FileInums -> Writers \cup {Nobody}]
       /\ \A j \in FileInums : j # i => iowner'[j] = iowner[j]
  BY <1>2, <1>3, <1>5 DEF BlocksTypes
<1>14. BlocksTypes'
  <2>1. dip' \in [FileInums -> InoType]
    <3>1. [ip[i] EXCEPT !.size = off] \in InoType
      BY <1>3, <1>5 DEF InoType
    <3> QED
      BY <1>2, <1>5, <3>1
  <2> QED
    BY <1>2, <1>5, <1>6, <1>8, <1>11, <1>12, <1>13, <2>1 DEF BlocksTypes, IoType, Data, FileInums
<1>15. MkfsRight' /\ 1 \in named'
  BY <1>2 DEF BlocksInv, MkfsRight
<1>16. OwnersRight'
  <2>1. /\ Owners(FileInums, iowner, io) /\ l.pc \notin InLocked /\ w.pc \in InLocked
        /\ iowner \in [FileInums -> Writers \cup {Nobody}] /\ i \in FileInums
    BY <1>2, <1>3, <1>5, <1>6 DEF BlocksInv, OwnersRight, BlocksTypes, InLocked
  <2>2. Owners(FileInums, iowner', io')
    BY ONLY p \in Writers, <1>1, <1>2, <1>5, <2>1, OwnersDrop
  <2> QED
    BY <1>2, <2>2 DEF OwnersRight, FileInums
<1>17. \A g \in OpenFiles : ftab'[g].ip = ftab[g].ip
  BY <1>3, <1>12
<1>18. ASSUME NEW j \in FileInums' PROVE InodeRight(j)'
  <2>1. j \in FileInums
    BY <1>2, <1>18 DEF FileInums
  <2>2. CASE j = i
    BY <1>3, <1>4, <1>8, <1>10, <1>11, <2>2 DEF InodeRight
  <2>3. CASE j # i
    <3>1. \A k \in FileInums : k # i => ip'[k] = ip[k] /\ dip'[k] = dip[k] /\ length'[k] = length[k]
      BY <1>8, <1>10, <1>11
    <3>2. UNCHANGED <<sb, named>> /\ \A k \in FileInums : k # i => iowner'[k] = iowner[k]
      BY <1>2, <1>13
    <3> QED
      BY ONLY BlocksInv, <1>17, <2>1, <2>3, <3>1, <3>2, OthersInodes
  <2> QED
    BY <2>2, <2>3
<1>19. ASSUME NEW g \in OpenFiles PROVE OpenRight(g)'
  <2>1. CASE g = w.f
    BY <1>2, <1>3, <1>4, <1>8, <1>12, <2>1 DEF OpenRight, FileInums
  <2>2. CASE g # w.f /\ ftab[g].ip = i
    <3>1. OpenRight(g) /\ ftab'[g] = ftab[g] /\ ftab[g].off \in Nat
      BY <1>5, <1>12, <2>2 DEF BlocksInv, BlocksTypes
    <3>2. ftab[g].off <= ip[i].size
      BY <1>3, <2>2, <3>1 DEF OpenRight, NoFile, FileInums
    <3>3. ftab'[g].off <= ip'[i].size
      BY <1>3, <1>4, <1>8, <3>1, <3>2
    <3> QED
      BY <1>2, <1>3, <2>2, <3>1, <3>3 DEF OpenRight, FileInums
  <2>3. CASE g # w.f /\ ftab[g].ip # i
    BY <1>2, <1>8, <1>12, <2>3, OthersFiles
  <2> QED
    BY <2>1, <2>2, <2>3
<1>20. IoRight(l)'
  BY <1>2, <1>3, <1>6, <1>12 DEF IoRight, WriteRight, ChunkRight, TruncRight, FileInums
<1>21. ASSUME NEW q \in Writers PROVE IoRight(io[q])'
  <2>1. CASE q = p
    BY <1>7, <1>20, <2>1
  <2>2. CASE q # p
    <3>1. PICK v : v = io[q] /\ v = io'[q]
      BY <1>7, <2>2
    <3>2. io[p].pc \in InLocked /\ i = io[p].i
      BY <1>1, <1>2 DEF InLocked
    <3>3. \A g \in OpenFiles : ftab[g].ip # i => ftab'[g] = ftab[g]
      BY <1>3, <1>12
    <3>4. IoRight(v)'
      BY <1>2, <1>8, <1>10, <1>17, <2>2, <3>1, <3>2, <3>3, OthersIo
    <3> QED
      BY <3>1, <3>4
  <2> QED
    BY <2>1, <2>2
<1>22. \A j \in FileInums : ip'[j].addrs = ip[j].addrs
  BY <1>8
<1>23. BytesRight'
  <2>1. ASSUME NEW j \in FileInums, NEW x PROVE ByteAt(data, ip, j, x, Byte(j, x)) <=> ByteAt(data, ip, j, x, Byte(j, x))'
    BY <1>2, <1>22 DEF ByteAt, Byte
  <2>2. ASSUME NEW q \in Writers, io'[q].pc = "writei"
        PROVE  \A x \in 0 .. io'[q].off - 1 : ByteAt(data, ip, io[q].i, x, Byte(io[q].i, x))'
    <3>1. PICK v : v = io[q] /\ v = io'[q] /\ v.pc = "writei"
      BY <1>6, <1>7, <2>2
    <3>2. v.i \in FileInums /\ \A x \in 0 .. v.off - 1 : ByteAt(data, ip, v.i, x, Byte(v.i, x))
      BY <3>1 DEF BlocksInv, BytesRight, IoRight, WriteRight
    <3>3. \A x \in 0 .. v.off - 1 : ByteAt(data, ip, v.i, x, Byte(v.i, x))'
      BY <2>1, <3>2
    <3> QED
      BY <3>1, <3>3
  <2>3. ASSUME NEW j \in FileInums \ {1}, \A q \in Writers : ~(io'[q].pc = "itrunc" /\ io'[q].i = j),
               NEW x \in 0 .. ip'[j].size - 1
        PROVE  ByteAt(data, ip, j, x, Byte(j, x))'
    <3>1. \A q \in Writers : ~(io[q].pc = "itrunc" /\ io[q].i = j)
      BY <1>1, <1>2, <1>7, <2>3
    <3>2. x \in 0 .. ip[j].size - 1 \/ (j = i /\ x \in 0 .. off - 1)
      BY <1>1, <1>3, <1>8, <2>3
    <3>3. ByteAt(data, ip, j, x, Byte(j, x))
      BY <1>1, <1>2, <3>1, <3>2 DEF BlocksInv, BytesRight
    <3> QED
      BY <2>1, <3>3
  <2> QED
    BY <1>2, <2>2, <2>3 DEF BytesRight, FileInums
<1>24. PlacesRight'
  <2>1. PICK u, z, ins, new : u = io /\ z = io' /\ ins = ip /\ new = ip'
    OBVIOUS
  <2>2. ASSUME NEW j \in FileInums PROVE PastIn(z, j) = PastIn(u, j)
    <3>1. /\ OneTrunc(u) /\ u[p].pc # "itrunc" /\ z[p].pc # "itrunc"
          /\ \A q \in Writers : q # p => z[q] = u[q]
      BY <1>1, <1>2, <1>6, <1>7, <2>1, Truncators
    <3> QED
      BY ONLY p \in Writers, <3>1, PastMoves
  <2>3. Placed(FileInums, Data, data, ins, u, Taken)
    BY <2>1 DEF BlocksInv, PlacesRight
  <2>4. AddrsKept(FileInums, ins, u, new, z)
    BY <1>8, <1>22, <2>1, <2>2, <2>3 DEF AddrsKept, Placed
  <2>5. Placed(FileInums, Data, data, new, z, Taken)
    BY ONLY <2>3, <2>4, PlacesKept
  <2> QED
    BY <1>2, <2>1, <2>5 DEF PlacesRight, FileInums, Data, Taken
<1> QED
  BY <1>14, <1>15, <1>16, <1>18, <1>19, <1>21, <1>23, <1>24 DEF BlocksInv

\* balloc gives a block that is free.
LEMMA FreeBlockIs ==
    ASSUME BlocksTypes, FreeBlocks # {}
    PROVE  FreeBlock \in Data /\ ~bitmap[FreeBlock]
<1>1. FreeBlocks \in SUBSET Nat
  BY DiskFacts DEF FreeBlocks
<1>2. \E b \in FreeBlocks : \A c \in FreeBlocks : b <= c
  BY <1>1, LeastNatural
<1>3. FreeBlock \in FreeBlocks
  BY <1>2 DEF FreeBlock
<1> QED
  BY <1>3 DEF FreeBlocks

\* A free block is cleared: what was found is found, and what was not is not.
LEMMA BlockCleared ==
    ASSUME NEW I, NEW D, NEW d, NEW ins, NEW w, NEW T, Placed(I, D, d, ins, w, T), NEW b \in D, b \notin T,
           NEW e, e = Cleared(b, d)
    PROVE  /\ Placed(I, D, e, ins, w, T) /\ e[b] = ZeroBlock
           /\ \A i \in I, m \in Nat : Lk(e, ins[i].addrs, m) = Lk(d, ins[i].addrs, m)
           /\ \A j \in I, x \in Nat : \A y :
                PastIn(w, j) = 0 /\ x < MAXFILE * BSIZE /\ ByteAt(d, ins, j, x, y) => ByteAt(e, ins, j, x, y)
<1>1. ZeroBlock \in [Cells -> Nat]
  BY DEF ZeroBlock
<1>2. e \in [D -> [Cells -> Nat]] /\ e[b] = ZeroBlock /\ \A c \in D : c # b => e[c] = d[c]
  BY <1>1 DEF Placed, Cleared
<1>3. ASSUME NEW i \in I PROVE ins[i].addrs[NDIRECT] # b
  <2>1. ins[i].addrs[NDIRECT] # 0 => ins[i].addrs[NDIRECT] \in T
    BY IndirectPlace
  <2> QED
    BY <2>1 DEF Placed
<1>4. /\ Placed(I, D, e, ins, w, T)
      /\ \A i \in I, m \in Nat : Lk(e, ins[i].addrs, m) = Lk(d, ins[i].addrs, m)
  <2>1. Placed(I, D, d, ins, w, T) /\ b \in D
    OBVIOUS
  <2> QED
    BY ONLY <1>2, <1>3, <2>1, BlockChanged
<1>5. ASSUME NEW j \in I, NEW x \in Nat, NEW y, PastIn(w, j) = 0, x < MAXFILE * BSIZE, ByteAt(d, ins, j, x, y)
      PROVE  ByteAt(e, ins, j, x, y)
  <2>1. PICK n \in 0 .. MAXFILE - 1 : n = x \div BSIZE
    BY <1>5, BlockOf
  <2>2. PICK a : a = Lk(d, ins[j].addrs, n) /\ a # 0 /\ d[a][x % BSIZE] = y
    BY <1>5, <2>1 DEF ByteAt
  <2>3. a \in T
    <3>1. Placed(I, D, d, ins, w, T) /\ j \in I /\ PastIn(w, j) = 0
      BY <1>5
    <3> QED
      BY ONLY <2>1, <2>2, <3>1, DataPlace
  <2>4. e[a] = d[a]
    BY <1>2, <2>3 DEF Placed
  <2>5. Lk(e, ins[j].addrs, n) = a
    <3>1. n \in Nat
      BY <2>1, BlockConstants
    <3> QED
      BY <1>4, <2>2, <3>1
  <2> QED
    BY <2>1, <2>2, <2>4, <2>5 DEF ByteAt
<1> QED
  BY <1>2, <1>4, <1>5

LEMMA BmapKeeps ==
    ASSUME BlocksInv, NEW p \in Writers, Bmap(p)
    PROVE  BlocksInv'
<1>1. PICK w, i, off, bn, b : w = io[p] /\ i = w.i /\ off = w.off /\ bn = off \div BSIZE /\ b = FreeBlock
  OBVIOUS
<1>2. /\ w.pc = "writei" /\ w.n > 0 /\ mkfs.done /\ Lookup(ip[i], bn) = 0
      /\ UNCHANGED <<sb, mkfs, dip, iowner, named, ftab, io, length>>
  BY <1>1 DEF Bmap, In
<1>3. CASE FreeBlocks = {}
  <2>1. UNCHANGED <<data, bitmap, ip>> /\ blocksPanic' = "balloc: out of blocks"
    BY <1>3 DEF Bmap
  <2>2. BlocksTypes'
    BY <1>2, <2>1 DEF BlocksInv, BlocksTypes, IoType, Data, FileInums
  <2>3. MkfsRight' /\ 1 \in named' /\ OwnersRight'
    BY <1>2 DEF BlocksInv, MkfsRight, OwnersRight, FileInums
  <2>4. ASSUME NEW j \in FileInums' PROVE InodeRight(j)'
    BY <1>2, <2>1 DEF BlocksInv, InodeRight, FileInums
  <2>5. \A g \in OpenFiles : OpenRight(g)'
    BY <1>2, <2>1 DEF BlocksInv, OpenRight, FileInums
  <2>6. \A v : IoRight(v)' <=> IoRight(v)
    <3>1. FileInums' = FileInums
      BY <1>2 DEF FileInums
    <3>2. \A v : WriteRight(v)' <=> WriteRight(v)
      BY <1>2, <3>1 DEF WriteRight
    <3>3. \A v : ChunkRight(v)' <=> ChunkRight(v)
      BY <1>2, <2>1 DEF ChunkRight
    <3>4. \A v : TruncRight(v)' <=> TruncRight(v)
      BY <1>2, <2>1, <3>1 DEF TruncRight
    <3> QED
      BY <3>2, <3>3, <3>4 DEF IoRight
  <2>7. \A q \in Writers : IoRight(io[q])'
    BY <1>2, <2>6 DEF BlocksInv
  <2>8. BytesRight'
    <3>1. FileInums' = FileInums
      BY <1>2 DEF FileInums
    <3>2. BytesRight
      BY DEF BlocksInv
    <3>3. \A j, x : Byte(j, x)' = Byte(j, x)
      BY <1>2 DEF Byte
    <3>4. data' = data /\ ip' = ip /\ io' = io
      BY <1>2, <2>1
    <3>5. ASSUME NEW j \in FileInums \ {1}, \A q \in Writers : ~(io[q].pc = "itrunc" /\ io[q].i = j),
                 NEW x \in 0 .. ip[j].size - 1
          PROVE  ByteAt(data, ip, j, x, Byte(j, x)')
      BY <3>2, <3>3, <3>5 DEF BytesRight
    <3>6. ASSUME NEW q \in Writers, io[q].pc = "writei", NEW x \in 0 .. io[q].off - 1
          PROVE  ByteAt(data, ip, io[q].i, x, Byte(io[q].i, x)')
      BY <3>2, <3>3, <3>4, <3>6 DEF BytesRight
    <3> QED
      BY <3>1, <3>4, <3>5, <3>6 DEF BytesRight
  <2>9. PlacesRight'
    BY <1>2, <2>1 DEF BlocksInv, PlacesRight, FileInums, Data, Taken
  <2> QED
    BY <2>2, <2>3, <2>4, <2>5, <2>7, <2>8, <2>9 DEF BlocksInv
<1>4. CASE FreeBlocks # {}
  <2>1. PICK d : d = Cleared(b, data)
    OBVIOUS
  <2>2. /\ bitmap' = [bitmap EXCEPT ![b] = TRUE] /\ ip' = [ip EXCEPT ![i] = InodeWith(ip[i], bn, b)]
        /\ data' = BlocksWith(d, ip[i], bn, b) /\ UNCHANGED blocksPanic
    BY <1>1, <1>4, <2>1 DEF Bmap
  <2>3. BlocksTypes /\ io \in [Writers -> IoType] /\ ip \in [FileInums -> InoType]
    BY DEF BlocksInv, BlocksTypes
  <2>4. b \in Data /\ ~bitmap[b] /\ b \in Nat /\ b \notin Taken
    BY <1>1, <1>2, <1>4, <2>3, FreeBlockIs, DiskFacts DEF Taken
  <2>5. /\ w.f \in OpenFiles /\ i \in FileInums \ {1} /\ ftab[w.f].ip = i
        /\ off \in Nat /\ w.n \in Nat /\ off + w.n <= MAXFILE * BSIZE
        /\ MAXFILE * BSIZE \in Nat /\ ip[i].size \in Nat /\ ip[i].size <= MAXFILE * BSIZE /\ ip[i].used
    BY <1>1, <1>2, Writer
  <2>6. bn \in 0 .. MAXFILE - 1 /\ bn \in Nat
    <3>1. off < MAXFILE * BSIZE
      BY <1>2, <2>5
    <3> QED
      BY <1>1, <2>5, <3>1, BlockOf
  <2>7. \A q \in Writers : ~(io[q].pc = "itrunc" /\ io[q].i = i)
    BY <1>1, <1>2, WriterNotPast
  <2>8. PICK ins, new, e, u : ins = ip /\ new = ip' /\ e = data' /\ u = io
    OBVIOUS
  <2>9. PastIn(u, i) = 0
    BY <2>7, <2>8, NotPast
  <2>10. Placed(FileInums, Data, data, ins, u, Taken)
    BY <2>8 DEF BlocksInv, PlacesRight
  <2>11. /\ Placed(FileInums, Data, d, ins, u, Taken) /\ d[b] = ZeroBlock
         /\ \A j \in FileInums, m \in Nat : Lk(d, ins[j].addrs, m) = Lk(data, ins[j].addrs, m)
         /\ \A j \in FileInums, x \in Nat : \A y :
              PastIn(u, j) = 0 /\ x < MAXFILE * BSIZE /\ ByteAt(data, ins, j, x, y) => ByteAt(d, ins, j, x, y)
    BY ONLY <2>1, <2>4, <2>10, BlockCleared
  <2>12. Lk(data, ins[i].addrs, bn) = 0
    BY <1>2, <2>8 DEF Lookup, Lk
  <2>13. Enters(FileInums, Data, d, ins, u, Taken, i, bn, b, e, new)
    BY <2>2, <2>4, <2>5, <2>6, <2>8, <2>9, <2>11, <2>12 DEF Enters
  <2>14. Placed(FileInums, Data, e, new, u, Taken \cup {b}) /\ Kept(FileInums, Data, d, ins, u, e, new)
    BY ONLY <2>13, BlockEntered
  <2>15. /\ new \in [FileInums -> InoType] /\ new[i].used = ip[i].used /\ new[i].size = ip[i].size
         /\ \A j \in FileInums : j # i => new[j] = ip[j]
    <3>1. PICK r : r = InodeWith(ip[i], bn, b)
      OBVIOUS
    <3>2. ip[i] \in InoType
      BY <2>3, <2>5
    <3>3. r \in InoType /\ r.used = ip[i].used /\ r.size = ip[i].size
      BY <2>4, <2>6, <3>1, <3>2, InodeWithIs
    <3>4. new = [ip EXCEPT ![i] = r]
      BY <2>2, <2>8, <3>1
    <3> QED
      BY <2>3, <2>5, <3>3, <3>4
  <2>16. PlacesRight'
    <3>1. Taken' = Taken \cup {b}
      <4>1. bitmap \in [Data -> BOOLEAN] /\ Data' = Data
        BY <1>2, <2>3 DEF BlocksTypes, Data
      <4>2. Taken = {x \in Data : bitmap[x]} /\ Taken' = {x \in Data : bitmap'[x]}
        BY <1>2, <4>1 DEF Taken
      <4>3. \A x \in Data : bitmap'[x] <=> bitmap[x] \/ x = b
        BY <2>2, <4>1
      <4> QED
        BY <2>4, <4>2, <4>3
    <3> QED
      BY <1>2, <2>8, <2>14, <3>1 DEF PlacesRight, FileInums, Data
  <2>17. ASSUME NEW j \in FileInums, NEW x \in Nat, PastIn(io, j) = 0, x < MAXFILE * BSIZE,
                ByteAt(data, ip, j, x, Byte(j, x))
         PROVE  ByteAt(e, new, j, x, Byte(j, x))
    <3>1. ByteAt(d, ins, j, x, Byte(j, x))
      BY <2>8, <2>11, <2>17
    <3>2. PastIn(u, j) = 0
      BY <2>8, <2>17
    <3> QED
      BY ONLY j \in FileInums, x \in Nat, <2>14, <2>17, <3>1, <3>2, BytesKept
  <2>18. BytesRight'
    <3>1. w.pc = "writei" /\ io' = [io EXCEPT ![p] = w]
      BY <1>1, <1>2, <2>3
    <3>2. \A j \in FileInums : new[j].size = ip[j].size
      BY <2>15
    <3>3. ASSUME NEW x \in 0 .. w.off - 1 PROVE ByteAt(e, new, w.i, x, Byte(w.i, x))
      <4>1. x \in Nat /\ x < MAXFILE * BSIZE
        BY <1>1, <2>5
      <4>2. ByteAt(data, ip, i, x, Byte(i, x))
        BY <1>1, <1>2 DEF BlocksInv, BytesRight
      <4> QED
        BY <1>1, <2>5, <2>8, <2>9, <2>17, <4>1, <4>2
    <3>4. io[p].pc = "writei" /\ w.i = io[p].i /\ sb' = sb /\ e = data' /\ new = ip'
      BY <1>1, <1>2, <2>8
    <3> QED
      BY ONLY BlocksInv, p \in Writers, <2>17, <3>1, <3>2, <3>3, <3>4, BytesAfter
  <2>19. BlocksTypes'
    <3>1. data' \in [Data -> [Cells -> Nat]]
      BY <2>8, <2>14 DEF Placed
    <3>2. bitmap' \in [Data -> BOOLEAN]
      BY <2>2, <2>3 DEF BlocksTypes
    <3> QED
      BY <1>2, <2>2, <2>3, <2>8, <2>15, <3>1, <3>2 DEF BlocksTypes, IoType, Data, FileInums
  <2>20. MkfsRight' /\ 1 \in named' /\ OwnersRight'
    BY <1>2 DEF BlocksInv, MkfsRight, OwnersRight, FileInums
  <2>21. iowner[i] = p /\ p # Nobody
    <3>1. io[p].pc \in InLocked
      BY <1>1, <1>2 DEF InLocked
    <3> QED
      BY <1>1, <3>1, Alone, BlocksAssumption
  <2>22. ASSUME NEW j \in FileInums' PROVE InodeRight(j)'
    <3>1. j \in FileInums
      BY <1>2, <2>22 DEF FileInums
    <3>2. CASE j = i
      <4>1. InodeRight(i)
        BY <2>5 DEF BlocksInv
      <4> QED
        BY <1>2, <2>5, <2>8, <2>15, <2>21, <3>2, <4>1 DEF InodeRight
    <3>3. CASE j # i
      <4>1. \A k \in FileInums : k # i => ip'[k] = ip[k] /\ dip'[k] = dip[k] /\ length'[k] = length[k]
        BY <1>2, <2>8, <2>15
      <4>2. UNCHANGED <<sb, named>> /\ (\A k \in FileInums : k # i => iowner'[k] = iowner[k])
            /\ \A g \in OpenFiles : ftab'[g].ip = ftab[g].ip
        BY <1>2
      <4> QED
        BY ONLY BlocksInv, <3>1, <3>3, <4>1, <4>2, OthersInodes
    <3> QED
      BY <3>2, <3>3
  <2>23. ASSUME NEW g \in OpenFiles PROVE OpenRight(g)'
    <3>1. OpenRight(g) /\ ftab'[g] = ftab[g]
      BY <1>2 DEF BlocksInv
    <3>2. \A j \in FileInums : ip'[j].size = ip[j].size
      BY <2>8, <2>15
    <3> QED
      BY <1>2, <3>1, <3>2 DEF OpenRight, FileInums
  <2>24. off >= ip[i].size
    <3>1. ASSUME off < ip[i].size PROVE FALSE
      <4>1. off \in 0 .. ip[i].size - 1
        BY <2>5, <3>1
      <4>2. ByteAt(data, ip, i, off, Byte(i, off))
        BY <2>5, <2>7, <4>1 DEF BlocksInv, BytesRight
      <4> QED
        BY <1>1, <2>8, <2>12, <4>2 DEF ByteAt
    <3> QED
      BY <2>5, <3>1
  <2>25. IoRight(w)'
    <3>1. IoRight(w) /\ off + w.n > ip[i].size
      BY <1>1, <1>2, <2>5, <2>24 DEF BlocksInv
    <3> QED
      BY <1>1, <1>2, <2>8, <2>15, <3>1 DEF IoRight, WriteRight, ChunkRight, TruncRight, FileInums
  <2>26. ASSUME NEW q \in Writers PROVE IoRight(io[q])'
    <3>1. CASE q = p
      BY <1>1, <1>2, <2>25, <3>1
    <3>2. CASE q # p
      <4>1. PICK v : v = io[q] /\ v = io'[q]
        BY <1>2
      <4>2. io[p].pc \in InLocked /\ i = io[p].i
        BY <1>1, <1>2 DEF InLocked
      <4>3. \A j \in FileInums : j # i => ip'[j] = ip[j] /\ dip'[j] = dip[j]
        BY <1>2, <2>8, <2>15
      <4>4. IoRight(v)'
        BY <1>2, <3>2, <4>1, <4>2, <4>3, OthersIo
      <4> QED
        BY <4>1, <4>4
    <3> QED
      BY <3>1, <3>2
  <2> QED
    BY <2>16, <2>18, <2>19, <2>20, <2>22, <2>23, <2>26 DEF BlocksInv
<1> QED
  BY <1>3, <1>4
-----------------------------------------------------------------------------
\* While mkfs runs, the inodes are on disk as they are in memory, and no process
\* has come to anything.
LEMMA MkfsAlone ==
    ASSUME BlocksInv, ~mkfs.done
    PROVE  /\ ip = dip /\ \A q \in Writers : io[q] = Idle /\ io[q].pc = "idle"
           /\ \A i \in FileInums : iowner[i] = Nobody /\ PastIn(io, i) = 0
           /\ mkfs.freeblock \in NMeta .. sb.size /\ 2 \in named
           /\ \A b \in Data : b >= mkfs.freeblock => data[b] = ZeroBlock
           /\ \A f \in OpenFiles : ftab[f] = NoFile /\ ftab[f].ip = 0
<1>1. /\ mkfs.freeblock \in NMeta .. sb.size /\ 2 \in named
      /\ \A b \in Data : b >= mkfs.freeblock => data[b] = ZeroBlock
      /\ (\A q \in Writers : io[q] = Idle) /\ \A f \in OpenFiles : ftab[f] = NoFile
  BY DEF BlocksInv, MkfsRight
<1>2. Idle.pc = "idle" /\ NoFile.ip = 0
  BY DEF Idle, NoFile
<1>3. \A q \in Writers : io[q].pc = "idle" /\ io[q].pc \notin InLocked
  BY <1>1, <1>2 DEF InLocked
<1>4. ASSUME NEW i \in FileInums PROVE iowner[i] = Nobody /\ PastIn(io, i) = 0 /\ ip[i] = dip[i]
  <2>1. iowner[i] \in Writers \cup {Nobody} /\ \A q \in Writers : iowner[i] # q
    BY <1>3 DEF BlocksInv, BlocksTypes, OwnersRight, Owners
  <2>2. iowner[i] = Nobody
    BY <2>1
  <2>3. ip[i] = dip[i]
    BY <2>2 DEF BlocksInv, InodeRight
  <2>4. PastIn(io, i) = 0
    BY <1>3, NotPast
  <2> QED
    BY <2>2, <2>3, <2>4
<1>5. ip = dip
  <2>1. ip \in [FileInums -> InoType] /\ dip \in [FileInums -> InoType]
    BY DEF BlocksInv, BlocksTypes
  <2> QED
    BY <1>4, <2>1
<1> QED
  BY <1>1, <1>2, <1>3, <1>4, <1>5

\* What a step of mkfs has to keep: it writes inode i, 1 or 2.
LEMMA MkfsStep ==
    ASSUME BlocksInv, ~mkfs.done, NEW i \in {1, 2},
           UNCHANGED <<sb, iowner, named, ftab, io, blocksPanic>>,
           mkfs' \in [n : Nat, freeblock : Nat, done : BOOLEAN],
           ~mkfs'.done => /\ mkfs'.freeblock \in NMeta .. sb.size
                          /\ \A b \in Data : b >= mkfs'.freeblock => data'[b] = ZeroBlock,
           bitmap' \in [Data -> BOOLEAN], ip' = dip', length' \in [FileInums -> Nat],
           \A j \in FileInums : j # i => ip'[j] = ip[j] /\ length'[j] = length[j],
           ip'[i].used, length'[i] = ip'[i].size, i # 1 => ip'[i].size <= MAXFILE * BSIZE,
           \A j \in FileInums \ {1} : \A x \in 0 .. ip'[j].size - 1 : ByteAt(data', ip', j, x, Byte(j, x)),
           Placed(FileInums, Data, data', ip', io, Taken')
    PROVE  BlocksInv'
<1>1. BlocksTypes /\ FileInums' = FileInums /\ Data' = Data /\ 1 \in FileInums /\ 2 \in FileInums
  <2>1. BlocksTypes
    BY DEF BlocksInv
  <2> QED
    BY <2>1, DiskFacts DEF FileInums, Data
<1>2. /\ \A q \in Writers : io[q] = Idle /\ io[q].pc = "idle"
      /\ \A f \in OpenFiles : ftab[f] = NoFile /\ ftab[f].ip = 0
      /\ 1 \in named /\ 2 \in named /\ \A j \in FileInums : iowner[j] = Nobody
  BY MkfsAlone DEF BlocksInv
<1>3. BlocksTypes'
  <2>1. ip' \in [FileInums -> InoType] /\ data' \in [Data -> [Cells -> Nat]]
    BY DEF Placed
  <2> QED
    BY <1>1, <2>1 DEF BlocksTypes, IoType
<1>4. MkfsRight' /\ OwnersRight' /\ 1 \in named'
  <2>1. OwnersRight
    BY DEF BlocksInv
  <2>2. OwnersRight'
    BY <1>1, <2>1 DEF OwnersRight
  <2> QED
    BY <1>1, <1>2, <2>2 DEF MkfsRight
<1>5. ASSUME NEW j \in FileInums' PROVE InodeRight(j)'
  <2>1. j \in FileInums /\ InodeRight(j)
    BY <1>1, <1>5 DEF BlocksInv
  <2>2. CASE j = i
    BY <2>2 DEF InodeRight
  <2>3. CASE j # i
    BY <2>1, <2>3 DEF InodeRight
  <2> QED
    BY <2>2, <2>3
<1>6. \A g \in OpenFiles : OpenRight(g)'
  BY <1>2 DEF OpenRight
<1>7. ASSUME NEW q \in Writers PROVE IoRight(io[q])'
  BY <1>2 DEF IoRight, WriteRight, ChunkRight, TruncRight
<1>8. BytesRight'
  <2>1. \A j, x : Byte(j, x)' = Byte(j, x)
    BY DEF Byte
  <2> QED
    BY <1>1, <1>2, <2>1 DEF BytesRight
<1>9. PlacesRight'
  BY <1>1 DEF PlacesRight
<1> QED
  BY <1>3, <1>4, <1>5, <1>6, <1>7, <1>8, <1>9 DEF BlocksInv

LEMMA MkfsBmapKeeps ==
    ASSUME BlocksInv, MkfsBmap
    PROVE  BlocksInv'
<1>1. PICK i, bn, b : i = AppendsTo /\ bn = dip[i].size \div BSIZE /\ b = mkfs.freeblock
  OBVIOUS
<1>2. /\ ~mkfs.done /\ bn < MAXFILE /\ Lookup(dip[i], bn) = 0 /\ b < sb.size
      /\ mkfs' = [mkfs EXCEPT !.freeblock = b + 1]
      /\ dip' = [dip EXCEPT ![i] = InodeWith(dip[i], bn, b)] /\ ip' = dip'
      /\ data' = BlocksWith(data, dip[i], bn, b)
      /\ UNCHANGED <<sb, bitmap, iowner, named, ftab, io, length, blocksPanic>>
  BY <1>1 DEF MkfsBmap, Appending
<1>3. /\ ip = dip /\ (\A j \in FileInums : PastIn(io, j) = 0) /\ b \in NMeta .. sb.size
      /\ (\A c \in Data : c >= b => data[c] = ZeroBlock) /\ 1 \in named /\ 2 \in named
  BY <1>1, <1>2, MkfsAlone DEF BlocksInv
<1>4. BlocksTypes /\ ip \in [FileInums -> InoType] /\ mkfs \in [n : Nat, freeblock : Nat, done : BOOLEAN]
  BY DEF BlocksInv, BlocksTypes
<1>5. i \in {1, 2} /\ i \in FileInums /\ Data \subseteq Nat \ {0} /\ b \in Nat /\ b \in Data /\ sb.size \in Nat
  <2>1. i \in {1, 2}
    BY <1>1 DEF AppendsTo
  <2>2. /\ 1 \in FileInums /\ 2 \in FileInums /\ Data \subseteq Nat \ {0} /\ sb.size \in Nat
    BY <1>4, DiskFacts
  <2> QED
    BY <1>2, <1>3, <2>1, <2>2, BlockConstants DEF Data
<1>6. ip[i] \in InoType /\ ip[i].size \in Nat /\ bn \in 0 .. MAXFILE - 1 /\ bn \in Nat
  <2>1. ip[i] \in InoType /\ ip[i].size \in Nat
    BY <1>4, <1>5 DEF InoType
  <2>2. bn \in Nat
    BY <1>1, <1>3, <2>1, BlockOf
  <2> QED
    BY <1>2, <2>1, <2>2, BlockConstants
<1>7. PICK ins, new, e, u : ins = ip /\ new = ip' /\ e = data' /\ u = io
  OBVIOUS
<1>8. Taken = {x \in Data : x < b} /\ b \notin Taken
  BY <1>1, <1>2, <1>5 DEF Taken
<1>9. Placed(FileInums, Data, data, ins, u, Taken)
  BY <1>7 DEF BlocksInv, PlacesRight
<1>10. Enters(FileInums, Data, data, ins, u, Taken, i, bn, b, e, new)
  <2>1. Lk(data, ins[i].addrs, bn) = 0
    BY <1>2, <1>3, <1>7 DEF Lookup, Lk
  <2>2. data[b] = ZeroBlock
    BY <1>3, <1>5
  <2> QED
    BY <1>2, <1>3, <1>5, <1>6, <1>7, <1>8, <1>9, <2>1, <2>2 DEF Enters
<1>11. Placed(FileInums, Data, e, new, u, Taken \cup {b}) /\ Kept(FileInums, Data, data, ins, u, e, new)
  BY ONLY <1>10, BlockEntered
<1>12. /\ new \in [FileInums -> InoType] /\ new[i].used = ip[i].used /\ new[i].size = ip[i].size
       /\ \A j \in FileInums : j # i => new[j] = ip[j]
  <2>1. PICK r : r = InodeWith(ip[i], bn, b)
    OBVIOUS
  <2>2. r \in InoType /\ r.used = ip[i].used /\ r.size = ip[i].size
    BY ZenonT(60), <1>5, <1>6, <2>1, InodeWithIs
  <2>3. new = [ip EXCEPT ![i] = r]
    BY <1>2, <1>3, <1>7, <2>1
  <2> QED
    BY <1>4, <1>5, <2>2, <2>3
<1>13. /\ mkfs' \in [n : Nat, freeblock : Nat, done : BOOLEAN] /\ mkfs'.freeblock = b + 1 /\ ~mkfs'.done
  BY <1>2, <1>4, <1>5
<1>14. Taken' = Taken \cup {b}
  <2>1. Data' = Data
    BY <1>2 DEF Data
  <2>2. Taken' = {x \in Data : x < b + 1}
    BY <1>13, <2>1 DEF Taken
  <2>3. \A x \in Data : x < b + 1 <=> x < b \/ x = b
    BY <1>5
  <2> QED
    BY <1>5, <1>8, <2>2, <2>3
<1>15. ASSUME NEW c \in Data, c >= b + 1 PROVE data'[c] = ZeroBlock
  <2>1. data[c] = ZeroBlock /\ c \notin Taken
    BY <1>3, <1>5, <1>8, <1>15
  <2>2. CASE InInode(ip[i], bn)
    BY <1>2, <1>3, <2>1, <2>2 DEF BlocksWith
  <2>3. CASE ~InInode(ip[i], bn)
    <3>1. ins[i].addrs[NDIRECT] # 0
      BY <1>7, <2>3 DEF InInode
    <3>2. ins[i].addrs[NDIRECT] \in Taken
      BY ONLY <1>5, <1>9, <3>1, IndirectPlace
    <3>3. c # ip[i].addrs[NDIRECT]
      BY <1>7, <2>1, <3>2
    <3>4. data \in [Data -> [Cells -> Nat]]
      BY <1>4 DEF BlocksTypes
    <3> QED
      BY <1>2, <1>3, <2>1, <2>3, <3>3, <3>4 DEF BlocksWith
  <2> QED
    BY <2>2, <2>3
<1>16. ASSUME NEW j \in FileInums \ {1}, NEW x \in 0 .. new[j].size - 1 PROVE ByteAt(e, new, j, x, Byte(j, x))
  <2>1. ip[j].size \in Nat /\ ip[j].size <= MAXFILE * BSIZE /\ MAXFILE * BSIZE \in Nat /\ new[j].size = ip[j].size
    <3>1. InodeRight(j) /\ ip[j] \in InoType
      BY <1>4 DEF BlocksInv
    <3>2. ip[j].size \in Nat /\ ip[j].size <= MAXFILE * BSIZE /\ MAXFILE * BSIZE \in Nat
      BY <3>1, BlockConstants DEF InodeRight, InoType
    <3>3. new[j].size = ip[j].size
      BY <1>12
    <3> QED
      BY <3>2, <3>3
  <2>2. x \in Nat /\ x \in 0 .. ip[j].size - 1 /\ x < MAXFILE * BSIZE
    BY <2>1
  <2>3. ByteAt(data, ins, j, x, Byte(j, x))
    BY <1>2, <1>7, <2>2, MkfsAlone DEF BlocksInv, BytesRight
  <2>4. PastIn(u, j) = 0 /\ j \in FileInums
    BY <1>3, <1>7
  <2> QED
    BY ONLY <1>11, <2>2, <2>3, <2>4, BytesKept
<1>17. InodeRight(i) /\ (i \in named => ip[i].used)
  BY <1>5 DEF BlocksInv, InodeRight
<1>18. /\ ip'[i].used /\ length'[i] = ip'[i].size /\ (i # 1 => ip'[i].size <= MAXFILE * BSIZE)
       /\ length' \in [FileInums -> Nat]
  BY <1>2, <1>3, <1>4, <1>5, <1>7, <1>12, <1>17 DEF InodeRight, BlocksTypes
<1>19. mkfs'.freeblock \in NMeta .. sb.size
  BY <1>2, <1>3, <1>5, <1>13, BlockConstants
<1>20. /\ bitmap' \in [Data -> BOOLEAN] /\ ip' = dip'
       /\ \A j \in FileInums : j # i => ip'[j] = ip[j] /\ length'[j] = length[j]
  BY <1>2, <1>4, <1>7, <1>12 DEF BlocksTypes
<1>21. Placed(FileInums, Data, data', ip', io, Taken')
  BY <1>7, <1>11, <1>14
<1> QED
  BY <1>2, <1>5, <1>7, <1>13, <1>15, <1>16, <1>18, <1>19, <1>20, <1>21, MkfsStep

LEMMA MkfsCopyKeeps ==
    ASSUME BlocksInv, MkfsCopy
    PROVE  BlocksInv'
<1>1. PICK i, off, b, y : /\ i = AppendsTo /\ off = dip[i].size /\ b = Lookup(dip[i], off \div BSIZE)
                          /\ y = IF i = 1 THEN RootEntries[off + 1] ELSE Byte(i, off)
  OBVIOUS
<1>2. /\ ~mkfs.done /\ off \div BSIZE < MAXFILE /\ b # 0
      /\ data' = [data EXCEPT ![b] = [data[b] EXCEPT ![off % BSIZE] = y]]
      /\ dip' = [dip EXCEPT ![i] = [dip[i] EXCEPT !.size = off + 1]] /\ ip' = dip'
      /\ length' = [length EXCEPT ![i] = off + 1]
      /\ UNCHANGED <<sb, mkfs, bitmap, iowner, named, ftab, io, blocksPanic>>
  BY <1>1 DEF MkfsCopy, Appending
<1>3. /\ ip = dip /\ (\A j \in FileInums : PastIn(io, j) = 0) /\ mkfs.freeblock \in NMeta .. sb.size
      /\ (\A c \in Data : c >= mkfs.freeblock => data[c] = ZeroBlock) /\ 1 \in named /\ 2 \in named
  BY <1>2, MkfsAlone DEF BlocksInv
<1>4. BlocksTypes /\ ip \in [FileInums -> InoType] /\ length \in [FileInums -> Nat] /\ data \in [Data -> [Cells -> Nat]]
  BY DEF BlocksInv, BlocksTypes
<1>5. i \in {1, 2} /\ i \in FileInums /\ Data \subseteq Nat \ {0} /\ FileInums \subseteq Nat \ {0}
  BY <1>1, <1>4, DiskFacts DEF AppendsTo
<1>6. ip[i] \in InoType /\ off \in Nat /\ off \div BSIZE \in Nat /\ off % BSIZE \in Cells /\ off % BSIZE \in 0 .. BSIZE - 1
      /\ off % BSIZE <= off /\ off < MAXFILE * BSIZE
  <2>1. ip[i] \in InoType /\ off \in Nat
    BY <1>1, <1>3, <1>4, <1>5 DEF InoType
  <2>2. off \div BSIZE \in Nat /\ off % BSIZE \in Cells /\ off % BSIZE \in 0 .. BSIZE - 1 /\ off % BSIZE <= off
    BY <2>1, BlockOf
  <2>3. off \div BSIZE \in 0 .. MAXFILE - 1
    BY <1>2, <2>2, BlockConstants
  <2>4. off < MAXFILE * BSIZE
    BY <2>1, <2>3, BlockOf
  <2> QED
    BY <2>1, <2>2, <2>4
<1>7. y \in Nat
  <2>1. CASE i = 1
    <3>1. off < 3
      BY <1>1, <2>1 DEF AppendsTo, RootEntries
    <3> QED
      BY <1>1, <1>6, <2>1, <3>1 DEF RootEntries
  <2>2. CASE i # 1
    BY <1>1, <1>4, <1>5, <1>6, <2>2, ByteIs
  <2> QED
    BY <2>1, <2>2
<1>8. PICK v \in [Nat -> Nat] : v[off] = y /\ (i # 1 => \A x \in Nat : v[x] = Byte(i, x))
  <2>1. PICK v : v = [x \in Nat |-> IF i = 1 THEN y ELSE Byte(i, x)]
    OBVIOUS
  <2>2. \A x \in Nat : Byte(i, x) \in Nat
    BY <1>4, <1>5, ByteIs
  <2>3. v \in [Nat -> Nat]
    BY <1>7, <2>1, <2>2
  <2> QED
    BY <1>1, <1>6, <2>1, <2>3
<1>9. PICK ins, new, e, u : ins = ip /\ new = ip' /\ e = data' /\ u = io
  OBVIOUS
<1>10. Placed(FileInums, Data, data, ins, u, Taken) /\ PastIn(u, i) = 0
  BY <1>3, <1>5, <1>9 DEF BlocksInv, PlacesRight
<1>11. b = Lk(data, ins[i].addrs, off \div BSIZE)
  BY <1>1, <1>3, <1>9 DEF Lookup, Lk
<1>12. b \in Taken /\ b \in Data
  <2>1. PICK m \in 0 .. MAXFILE - 1 : m = off \div BSIZE
    BY <1>2, <1>6, BlockConstants
  <2>2. Lk(data, ins[i].addrs, m) # 0
    BY <1>2, <1>11, <2>1
  <2>3. Lk(data, ins[i].addrs, m) \in Taken
    BY ONLY ZenonT(60), <1>5, <1>10, <2>1, <2>2, DataPlace
  <2> QED
    BY <1>10, <1>11, <2>1, <2>3 DEF Placed
<1>13. e = Copied(data, b, off, 1, v)
  <2>1. PICK r : r = off % BSIZE
    OBVIOUS
  <2>2. r \in Cells /\ r \in Nat /\ off + r - r = off /\ data[b] \in [Cells -> Nat]
    BY <1>4, <1>6, <1>12, <2>1
  <2>3. \A c \in Cells : c \in r .. r + 1 - 1 <=> c = r
    <3>1. Cells \subseteq Int
      BY BlockConstants DEF Cells
    <3> QED
      BY <2>2, <3>1
  <2>4. [data[b] EXCEPT ![r] = y] = [c \in Cells |-> IF c \in r .. r + 1 - 1 THEN v[off + c - r] ELSE data[b][c]]
    BY <1>8, <2>2, <2>3
  <2> QED
    BY <1>2, <1>9, <2>1, <2>4 DEF Copied
<1>14. /\ Placed(FileInums, Data, e, ins, u, Taken)
       /\ \A j \in FileInums, x \in Nat : \A z :
            PastIn(u, j) = 0 /\ x < MAXFILE * BSIZE /\ ByteAt(data, ins, j, x, z)
              /\ (j = i => x \notin off .. off + 1 - 1) => ByteAt(e, ins, j, x, z)
       /\ \A x \in off .. off + 1 - 1 : ByteAt(e, ins, i, x, v[x])
  <2>1. off \in Nat /\ off \div BSIZE < MAXFILE /\ b # 0 /\ 1 \in Nat /\ (off % BSIZE) + 1 <= BSIZE /\ v \in [Nat -> Nat]
    BY <1>2, <1>6, <1>8, BlockConstants
  <2> QED
    BY ONLY <1>5, <1>10, <1>11, <1>13, <2>1, BytesCopied
<1>15. /\ new \in [FileInums -> InoType] /\ new[i].size = off + 1 /\ new[i].used = ip[i].used
       /\ new[i].addrs = ip[i].addrs /\ \A j \in FileInums : j # i => new[j] = ip[j]
  <2>1. PICK r : r = [ip[i] EXCEPT !.size = off + 1]
    OBVIOUS
  <2>2. r \in InoType /\ r.size = off + 1 /\ r.used = ip[i].used /\ r.addrs = ip[i].addrs
    <3>1. off + 1 \in Nat /\ ip[i] \in InoType
      BY <1>6
    <3> QED
      BY <2>1, <3>1 DEF InoType
  <2>3. new = [ip EXCEPT ![i] = r]
    BY <1>2, <1>3, <1>9, <2>1
  <2> QED
    BY <1>4, <1>5, <2>2, <2>3
<1>16. Placed(FileInums, Data, e, new, u, Taken)
  <2>1. AddrsKept(FileInums, ins, u, new, u)
    BY <1>9, <1>14, <1>15 DEF AddrsKept, Placed
  <2> QED
    BY ONLY <1>14, <2>1, PlacesKept
<1>17. ASSUME NEW j \in FileInums \ {1}, NEW x \in 0 .. new[j].size - 1 PROVE ByteAt(e, new, j, x, Byte(j, x))
  <2>1. ip[j].size \in Nat /\ ip[j].size <= MAXFILE * BSIZE /\ MAXFILE * BSIZE \in Nat /\ PastIn(u, j) = 0
    <3>1. InodeRight(j) /\ ip[j] \in InoType
      BY <1>4 DEF BlocksInv
    <3>2. ip[j].size \in Nat /\ ip[j].size <= MAXFILE * BSIZE /\ MAXFILE * BSIZE \in Nat
      BY SMTT(60), <3>1, BlockConstants DEF InodeRight, InoType
    <3>3. PastIn(u, j) = 0
      BY <1>3, <1>9
    <3> QED
      BY <3>2, <3>3
  <2>2. ByteAt(e, ins, j, x, Byte(j, x))
    <3>1. CASE j = i /\ x = off
      <4>1. ByteAt(e, ins, i, off, v[off])
        BY <1>6, <1>14
      <4> QED
        BY <1>6, <1>8, <3>1, <4>1
    <3>2. CASE ~(j = i /\ x = off)
      <4>1. x \in Nat /\ x \in 0 .. ip[j].size - 1 /\ x < MAXFILE * BSIZE
        BY <1>1, <1>3, <1>6, <1>15, <2>1, <3>2
      <4>2. ByteAt(data, ins, j, x, Byte(j, x))
        BY <1>2, <1>9, <4>1, MkfsAlone DEF BlocksInv, BytesRight
      <4>3. j = i => x \notin off .. off + 1 - 1
        BY <1>6, <3>2, <4>1
      <4> QED
        BY <1>14, <2>1, <4>1, <4>2, <4>3
    <3> QED
      BY <3>1, <3>2
  <2> QED
    BY <1>9, <1>15, <2>2 DEF ByteAt
<1>18. ip[i].used
  BY <1>3, <1>5 DEF BlocksInv, InodeRight
<1>19. /\ ip'[i].used /\ length'[i] = ip'[i].size /\ (i # 1 => ip'[i].size <= MAXFILE * BSIZE)
       /\ length' \in [FileInums -> Nat] /\ \A j \in FileInums : j # i => ip'[j] = ip[j] /\ length'[j] = length[j]
  <2>1. off + 1 <= MAXFILE * BSIZE
    BY <1>6, BlockConstants
  <2>2. off + 1 \in Nat /\ ip'[i].size = off + 1 /\ ip'[i].used /\ \A j \in FileInums : j # i => ip'[j] = ip[j]
    BY <1>6, <1>9, <1>15, <1>18
  <2>3. /\ length'[i] = off + 1 /\ length' \in [FileInums -> Nat]
        /\ \A j \in FileInums : j # i => length'[j] = length[j]
    BY <1>2, <1>4, <1>5, <2>2
  <2> QED
    BY <2>1, <2>2, <2>3
<1>20. ASSUME NEW c \in Data, c >= mkfs.freeblock PROVE data'[c] = ZeroBlock
  <2>1. c # b
    BY <1>2, <1>3, <1>5, <1>12, <1>20, BlockConstants DEF Taken
  <2> QED
    BY <1>2, <1>3, <1>4, <1>20, <2>1
<1>21. mkfs' = mkfs /\ mkfs \in [n : Nat, freeblock : Nat, done : BOOLEAN] /\ bitmap' \in [Data -> BOOLEAN] /\ ip' = dip'
  BY <1>2, <1>4 DEF BlocksTypes
<1>22. Placed(FileInums, Data, data', ip', io, Taken')
  <2>1. Taken' = Taken
    BY <1>2 DEF Taken, Data
  <2> QED
    BY <1>9, <1>16, <2>1
<1> QED
  BY <1>2, <1>3, <1>5, <1>9, <1>17, <1>19, <1>20, <1>21, <1>22, MkfsStep

LEMMA MkfsEndKeeps ==
    ASSUME BlocksInv, MkfsEnd
    PROVE  BlocksInv'
<1>1. PICK size : size = RoundedUp(dip[1].size)
  OBVIOUS
<1>2. /\ ~mkfs.done /\ mkfs' = [mkfs EXCEPT !.done = TRUE] /\ bitmap' = [b \in Data |-> b < mkfs.freeblock]
      /\ dip' = [dip EXCEPT ![1] = [dip[1] EXCEPT !.size = size]] /\ ip' = dip'
      /\ length' = [length EXCEPT ![1] = size]
      /\ UNCHANGED <<sb, data, iowner, named, ftab, io, blocksPanic>>
  BY <1>1 DEF MkfsEnd, BitsBelow
<1>3. ip = dip /\ (\A j \in FileInums : PastIn(io, j) = 0) /\ 1 \in named
  BY <1>2, MkfsAlone DEF BlocksInv
<1>4. /\ BlocksTypes /\ ip \in [FileInums -> InoType] /\ length \in [FileInums -> Nat]
      /\ mkfs \in [n : Nat, freeblock : Nat, done : BOOLEAN] /\ 1 \in FileInums
  <2>1. BlocksTypes
    BY DEF BlocksInv
  <2> QED
    BY <2>1, DiskFacts DEF BlocksTypes
<1>5. size \in Nat
  <2>1. dip[1].size \in Nat
    BY <1>3, <1>4 DEF InoType
  <2>2. dip[1].size \div BSIZE \in Nat
    BY <2>1, BlockOf
  <2> QED
    BY <1>1, <2>2, BlockConstants DEF RoundedUp
<1>6. PICK ins, new, u : ins = ip /\ new = ip' /\ u = io
  OBVIOUS
<1>7. /\ new \in [FileInums -> InoType] /\ new[1].size = size /\ new[1].used = ip[1].used
      /\ new[1].addrs = ip[1].addrs /\ \A j \in FileInums : j # 1 => new[j] = ip[j]
  <2>1. PICK r : r = [ip[1] EXCEPT !.size = size]
    OBVIOUS
  <2>2. r \in InoType /\ r.size = size /\ r.used = ip[1].used /\ r.addrs = ip[1].addrs
    BY <1>4, <1>5, <2>1 DEF InoType
  <2>3. new = [ip EXCEPT ![1] = r]
    BY <1>2, <1>3, <1>6, <2>1
  <2> QED
    BY <1>4, <2>2, <2>3
<1>8. Placed(FileInums, Data, data, new, u, Taken)
  <2>1. Placed(FileInums, Data, data, ins, u, Taken)
    BY <1>6 DEF BlocksInv, PlacesRight
  <2>2. AddrsKept(FileInums, ins, u, new, u)
    BY <1>6, <1>7, <2>1 DEF AddrsKept, Placed
  <2> QED
    BY ONLY <2>1, <2>2, PlacesKept
<1>9. mkfs' \in [n : Nat, freeblock : Nat, done : BOOLEAN] /\ mkfs'.done /\ bitmap' \in [Data -> BOOLEAN]
  <2>1. \A yes \in BOOLEAN : [mkfs EXCEPT !.done = yes] \in [n : Nat, freeblock : Nat, done : BOOLEAN]
                            /\ [mkfs EXCEPT !.done = yes].done = yes
    BY <1>4
  <2>2. bitmap' \in [Data -> BOOLEAN]
    BY <1>2
  <2>3. mkfs' \in [n : Nat, freeblock : Nat, done : BOOLEAN] /\ mkfs'.done = TRUE
    BY <1>2, <2>1
  <2> QED
    BY <2>2, <2>3
<1>10. Taken' = Taken
  <2>1. Data' = Data
    BY <1>2 DEF Data
  <2>2. Taken' = {b \in Data : bitmap'[b]} /\ Taken = {b \in Data : b < mkfs.freeblock}
    BY <1>2, <1>9, <2>1 DEF Taken
  <2> QED
    BY <1>2, <2>2
<1>11. ASSUME NEW j \in FileInums \ {1}, NEW x \in 0 .. ip'[j].size - 1 PROVE ByteAt(data', ip', j, x, Byte(j, x))
  <2>1. ip'[j] = ip[j]
    BY <1>6, <1>7
  <2>2. ByteAt(data, ip, j, x, Byte(j, x))
    BY <1>2, <1>11, <2>1, MkfsAlone DEF BlocksInv, BytesRight
  <2> QED
    BY <1>2, <2>1, <2>2 DEF ByteAt
<1>12. ip[1].used
  BY <1>3, <1>4 DEF BlocksInv, InodeRight
<1>13. /\ ip'[1].used /\ length'[1] = ip'[1].size /\ length' \in [FileInums -> Nat]
       /\ \A j \in FileInums : j # 1 => ip'[j] = ip[j] /\ length'[j] = length[j]
  BY <1>2, <1>4, <1>5, <1>6, <1>7, <1>12
<1>14. Placed(FileInums, Data, data', ip', io, Taken')
  BY <1>2, <1>6, <1>8, <1>10
<1>15. 1 \in {1, 2} /\ ip' = dip' /\ UNCHANGED <<sb, iowner, named, ftab, io, blocksPanic>>
  BY <1>2
<1> QED
  BY <1>2, <1>9, <1>11, <1>13, <1>14, <1>15, MkfsStep
-----------------------------------------------------------------------------
LEMMA BlocksInvInit ==
    ASSUME BlocksInit
    PROVE  BlocksInv
<1>1. PICK n \in Images : mkfs = [n |-> n, freeblock |-> NMeta, done |-> FALSE]
  BY DEF BlocksInit
<1>2. /\ sb \in Disks /\ data = [b \in Data |-> ZeroBlock] /\ bitmap = [b \in Data |-> FALSE]
      /\ dip = [i \in FileInums |-> IF i <= 2 THEN FreshInode ELSE FreeInode] /\ ip = dip
      /\ iowner = [i \in FileInums |-> Nobody] /\ named = {1, 2} /\ ftab = [f \in OpenFiles |-> NoFile]
      /\ io = [p \in Writers |-> Idle] /\ length = [i \in FileInums |-> 0] /\ blocksPanic = "no"
  BY DEF BlocksInit
<1>3. /\ sb.size \in Nat /\ sb.size > NMeta /\ 1 \in FileInums /\ 2 \in FileInums
      /\ FileInums \subseteq Nat \ {0} /\ Data \subseteq Nat \ {0}
  <2>1. sb \in [size : Nat, ninodes : Nat \ {0, 1, 2}] /\ sb.size > NMeta
    BY <1>2, BlocksAssumption
  <2> QED
    BY <2>1, BlockConstants DEF FileInums, Data
<1>4. NoAddrs \in [0 .. NDIRECT -> Nat] /\ FreshInode = [used |-> TRUE, size |-> 0, addrs |-> NoAddrs]
  BY DEF NoAddrs, FreshInode
<1>5. FreeInode = [used |-> FALSE, size |-> 0, addrs |-> NoAddrs]
  <2>1. \A no, yes, a : [[used |-> yes, size |-> 0, addrs |-> a] EXCEPT !.used = no]
                          = [used |-> no, size |-> 0, addrs |-> a]
    OBVIOUS
  <2> QED
    BY <1>4, <2>1 DEF FreeInode
<1>6. /\ FreshInode \in InoType /\ FreshInode.used = TRUE /\ FreshInode.size = 0 /\ FreshInode.addrs = NoAddrs
      /\ FreeInode \in InoType /\ FreeInode.used = FALSE /\ FreeInode.size = 0 /\ FreeInode.addrs = NoAddrs
  BY <1>4, <1>5 DEF InoType
<1>7. /\ ip \in [FileInums -> InoType] /\ \A i \in FileInums : ip[i].size = 0 /\ ip[i].addrs = NoAddrs
      /\ \A i \in FileInums : ip[i].used \/ (i \notin named /\ ip[i] = FreeInode)
  <2>1. ip \in [FileInums -> InoType]
    BY <1>2, <1>6
  <2>2. ASSUME NEW i \in FileInums
        PROVE  ip[i].size = 0 /\ ip[i].addrs = NoAddrs /\ (ip[i].used \/ (i \notin named /\ ip[i] = FreeInode))
    <3>1. CASE i <= 2
      BY <1>2, <1>6, <3>1
    <3>2. CASE ~(i <= 2)
      BY <1>2, <1>6, <3>2
    <3> QED
      BY <3>1, <3>2
  <2> QED
    BY <2>1, <2>2
<1>8. Idle \in IoType /\ Idle.pc = "idle" /\ NoFile.ip = 0 /\ NoFile \in [ip : FileInums \cup {0}, off : Nat]
  BY DEF Idle, IoType, NoFile
<1>9. BlocksTypes
  <2>1. data \in [Data -> [Cells -> Nat]]
    BY <1>2 DEF ZeroBlock
  <2>2. mkfs \in [n : Nat, freeblock : Nat, done : BOOLEAN]
    BY <1>1, BlocksAssumption
  <2>3. bitmap \in [Data -> BOOLEAN] /\ blocksPanic \in {"no", "balloc: out of blocks"}
    BY <1>2
  <2> QED
    BY <1>2, <1>3, <1>7, <1>8, <2>1, <2>2, <2>3 DEF BlocksTypes
<1>10. mkfs.freeblock = NMeta /\ mkfs.done = FALSE
  BY <1>1
<1>11. MkfsRight /\ 1 \in named
  BY <1>2, <1>3, <1>10, BlockConstants DEF MkfsRight
<1>12. OwnersRight
  BY <1>2, <1>8, BlocksAssumption DEF OwnersRight, Owners, InLocked
<1>13. ASSUME NEW i \in FileInums PROVE InodeRight(i)
  <2>1. 0 <= MAXFILE * BSIZE
    BY BlockConstants
  <2>2. \A f \in OpenFiles : ftab[f].ip # i
    BY <1>2, <1>3, <1>8
  <2> QED
    BY <1>2, <1>7, <2>1, <2>2 DEF InodeRight
<1>14. \A f \in OpenFiles : OpenRight(f)
  BY <1>2 DEF OpenRight
<1>15. ASSUME NEW q \in Writers PROVE IoRight(io[q])
  BY <1>2, <1>8 DEF IoRight, WriteRight, ChunkRight, TruncRight
<1>16. BytesRight
  BY <1>2, <1>7, <1>8 DEF BytesRight
<1>17. PlacesRight
  <2>1. Taken = {}
    BY <1>3, <1>10, BlockConstants DEF Taken, Data
  <2>2. \A i \in FileInums : PastIn(io, i) = 0
    <3>1. \A q \in Writers : \A i : ~Truncates(io, q, i)
      BY <1>2, <1>8 DEF Truncates
    <3> QED
      BY <3>1, PastNone
  <2>3. ASSUME NEW x \in SlotsOf(FileInums) PROVE ValuesOf(FileInums, data, ip, io)[x] = 0
    <3>1. x[1] \in FileInums /\ x[2] \in 0 .. MAXFILE
      BY SlotPair
    <3>2. Ad(data, ip[x[1]].addrs, x[2]) = 0
      BY <1>7, <3>1, BlockConstants DEF Ad, Lk, NoAddrs
    <3> QED
      BY <3>2 DEF ValuesOf
  <2>4. OwnedOnce(SlotsOf(FileInums), ValuesOf(FileInums, data, ip, io), Taken)
    BY <2>1, <2>3 DEF OwnedOnce
  <2>5. data \in [Data -> [Cells -> Nat]] /\ 0 \notin Data /\ Taken \subseteq Data
    BY <1>3, <1>9, <2>1 DEF BlocksTypes
  <2>6. \A i \in FileInums : PastIn(io, i) \in Nat /\ ~(PastIn(io, i) > MAXFILE)
    BY <2>2, BlockConstants
  <2> QED
    BY <1>7, <2>4, <2>5, <2>6 DEF PlacesRight, Placed
<1> QED
  BY <1>9, <1>11, <1>12, <1>13, <1>14, <1>15, <1>16, <1>17 DEF BlocksInv

LEMMA BlocksInvNext ==
    ASSUME BlocksInv, [BlocksNext]_blocksVars
    PROVE  BlocksInv'
<1>1. CASE MkfsBmap
  BY <1>1, MkfsBmapKeeps
<1>2. CASE MkfsCopy
  BY <1>2, MkfsCopyKeeps
<1>3. CASE MkfsEnd
  BY <1>3, MkfsEndKeeps
<1>4. ASSUME NEW p \in Writers, NEW f \in OpenFiles, NEW n \in Sizes, FileWrite(p, f, n) PROVE BlocksInv'
  BY <1>4, FileWriteKeeps
<1>5. ASSUME NEW p \in Writers, NEW f \in OpenFiles, NEW n \in Sizes, FileRead(p, f, n) PROVE BlocksInv'
  BY <1>5, FileReadKeeps
<1>6. ASSUME NEW p \in Writers, BeginChunk(p) PROVE BlocksInv'
  BY <1>6, BeginChunkKeeps
<1>7. ASSUME NEW p \in Writers, Bmap(p) PROVE BlocksInv'
  BY <1>7, BmapKeeps
<1>8. ASSUME NEW p \in Writers, CopyIn(p) PROVE BlocksInv'
  BY <1>8, CopyInKeeps
<1>9. ASSUME NEW p \in Writers, EndChunk(p) PROVE BlocksInv'
  BY <1>9, EndChunkKeeps
<1>10. ASSUME NEW p \in Writers, NEW i \in FileInums, OpenFile(p, i) PROVE BlocksInv'
  BY <1>10, OpenFileKeeps
<1>11. ASSUME NEW p \in Writers, NEW i \in FileInums, CreateFile(p, i) PROVE BlocksInv'
  BY <1>11, CreateFileKeeps
<1>12. ASSUME NEW p \in Writers, NEW i \in FileInums, UnlinkFile(p, i) PROVE BlocksInv'
  BY <1>12, UnlinkFileKeeps
<1>13. ASSUME NEW p \in Writers, NEW f \in OpenFiles, CloseFile(p, f) PROVE BlocksInv'
  BY <1>13, CloseFileKeeps
<1>14. ASSUME NEW p \in Writers, Bfree(p) PROVE BlocksInv'
  BY <1>14, BfreeKeeps
<1>15. ASSUME NEW p \in Writers, EndTrunc(p) PROVE BlocksInv'
  BY <1>15, EndTruncKeeps
<1>16. CASE UNCHANGED blocksVars
  <2>1. UNCHANGED <<sb, mkfs, data, bitmap, dip, ip, iowner, named, ftab, io, length, blocksPanic>>
    BY <1>16 DEF blocksVars
  <2>2. BlocksTypes' /\ MkfsRight' /\ OwnersRight' /\ 1 \in named'
    BY <2>1 DEF BlocksInv, BlocksTypes, IoType, MkfsRight, OwnersRight, Data, FileInums
  <2>3. ASSUME NEW j \in FileInums' PROVE InodeRight(j)'
    BY <2>1, <2>3 DEF BlocksInv, InodeRight, FileInums
  <2>4. \A g \in OpenFiles : OpenRight(g)'
    BY <2>1 DEF BlocksInv, OpenRight, FileInums
  <2>5. \A v : IoRight(v)' <=> IoRight(v)
    BY <2>1 DEF IoRight, WriteRight, ChunkRight, TruncRight, FileInums
  <2>6. \A q \in Writers : IoRight(io[q])'
    BY <2>1, <2>5 DEF BlocksInv
  <2>7. BytesRight' /\ PlacesRight'
    BY <2>1 DEF BlocksInv, BytesRight, ByteAt, Byte, PlacesRight, FileInums, Data, Taken
  <2> QED
    BY <2>2, <2>3, <2>4, <2>6, <2>7 DEF BlocksInv
<1> QED
  BY <1>1, <1>2, <1>3, <1>4, <1>5, <1>6, <1>7, <1>8, <1>9, <1>10, <1>11, <1>12, <1>13, <1>14, <1>15, <1>16
     DEF BlocksNext

\* A set and the values a one-to-one function gives its elements are as many.
LEMMA OneToOneCount ==
    ASSUME NEW S, NEW T, IsFiniteSet(S), NEW g \in [S -> T],
           \A o, q \in S : g[o] = g[q] => o = q,
           \A c \in T : \E o \in S : g[o] = c
    PROVE  Cardinality(S) = Cardinality(T)
<1>1. g \in Injection(S, T)
  BY DEF Injection, IsInjective
<1>2. g \in Surjection(S, T)
  BY DEF Surjection
<1>3. g \in Bijection(S, T)
  BY <1>1, <1>2 DEF Bijection
<1> QED
  BY <1>3, FS_Bijection DEF ExistsBijection

\* A bit of the bitmap is set exactly while one inode has that block, once.
LEMMA InvBlocksOwned ==
    ASSUME BlocksInv
    PROVE  BlocksOwned
<1> DEFINE v == ValuesOf(FileInums, data, ip, io)
           S == SlotsOf(FileInums)
           owned == {o \in FileInums \X (0 .. MAXFILE) : o[2] \in Owned(o[1])}
           blocks == {Addr(ip[o[1]], o[2]) : o \in owned}
<1>1. Placed(FileInums, Data, data, ip, io, Taken)
  BY DEF BlocksInv, PlacesRight
<1>2. OwnedOnce(S, v, Taken) /\ 0 \notin Taken
  BY <1>1 DEF Placed
<1>3. ASSUME NEW o \in S
      PROVE  /\ o[1] \in FileInums /\ o[2] \in 0 .. MAXFILE
             /\ o \in owned <=> v[o] # 0
             /\ o \in owned => v[o] = Addr(ip[o[1]], o[2])
  <2>1. o[1] \in FileInums /\ o[2] \in 0 .. MAXFILE /\ o[2] \in Int /\ o \in FileInums \X (0 .. MAXFILE)
    BY SlotPair, BlockConstants DEF SlotsOf
  <2>2. v[o] = IF o[2] < PastIn(io, o[1]) THEN 0 ELSE Ad(data, ip[o[1]].addrs, o[2])
    BY DEF ValuesOf
  <2>3. Addr(ip[o[1]], o[2]) = Ad(data, ip[o[1]].addrs, o[2])
    BY <2>1, BlockConstants DEF Addr, Ad, Lk
  <2>4. Past(o[1]) = PastIn(io, o[1]) /\ PastIn(io, o[1]) \in Nat
    BY <1>1, <2>1 DEF Past, PastIn, Placed
  <2>5. o \in owned <=> o[2] \in Past(o[1]) .. MAXFILE /\ Addr(ip[o[1]], o[2]) # 0
    BY <2>1 DEF Owned
  <2>6. o[2] \in Past(o[1]) .. MAXFILE <=> ~(o[2] < PastIn(io, o[1]))
    BY <2>1, <2>4, BlockConstants
  <2> QED
    BY <2>1, <2>2, <2>3, <2>5, <2>6
<1>4. owned \subseteq S
  BY DEF SlotsOf
<1> HIDE DEF v, S, owned
<1>5. blocks = Taken
  <2>1. ASSUME NEW c \in blocks PROVE c \in Taken
    <3>1. PICK o \in owned : c = Addr(ip[o[1]], o[2])
      OBVIOUS
    <3> QED
      BY <1>2, <1>3, <1>4, <3>1 DEF OwnedOnce
  <2>2. ASSUME NEW c \in Taken PROVE c \in blocks
    <3>1. PICK o \in S : v[o] = c
      BY <1>2 DEF OwnedOnce
    <3>2. o \in owned /\ c = Addr(ip[o[1]], o[2])
      BY <1>2, <1>3, <3>1
    <3> QED
      BY <3>2
  <2> QED
    BY <2>1, <2>2
<1>6. Cardinality(owned) = Cardinality(blocks)
  <2>1. PICK g : g = [o \in owned |-> Addr(ip[o[1]], o[2])]
    OBVIOUS
  <2>2. g \in [owned -> blocks]
    BY <2>1
  <2>3. \A o, q \in owned : g[o] = g[q] => o = q
    BY <1>2, <1>3, <1>4, <2>1 DEF OwnedOnce
  <2>4. \A c \in blocks : \E o \in owned : g[o] = c
    BY <2>1
  <2>5. IsFiniteSet(owned)
    <3>1. IsFiniteSet(FileInums) /\ IsFiniteSet(0 .. MAXFILE)
      <4>1. sb.ninodes \in Nat
        BY DiskFacts DEF BlocksInv
      <4> QED
        BY <4>1, BlockConstants, FS_Interval DEF FileInums
    <3>2. IsFiniteSet(FileInums \X (0 .. MAXFILE))
      BY <3>1, FS_Product
    <3> QED
      BY <1>4, <3>2, FS_Subset DEF S, SlotsOf
  <2> QED
    BY <2>2, <2>3, <2>4, <2>5, OneToOneCount
<1>7. blocksPanic # "freeing free block"
  BY DEF BlocksInv, BlocksTypes
<1> QED
  BY <1>5, <1>6, <1>7 DEF BlocksOwned, owned

\* What readi gets is what was written.
LEMMA InvReadsBack ==
    ASSUME BlocksInv
    PROVE  ReadsBack
<1>1. ASSUME NEW i \in FileInums, iowner[i] = Nobody, dip[i].used
      PROVE  dip[i].size = length[i] /\ (i # 1 => Readi(dip[i], 0, length[i]) = Written(i, length[i]))
  <2>1. InodeRight(i)
    BY DEF BlocksInv
  <2>2. ip[i] = dip[i] /\ dip[i].size = length[i]
    BY <1>1, <2>1 DEF InodeRight
  <2>3. PICK n \in Nat : n = length[i]
    BY DEF BlocksInv, BlocksTypes
  <2>4. \A q \in Writers : ~(io[q].pc = "itrunc" /\ io[q].i = i)
    BY <1>1, BlocksAssumption DEF BlocksInv, OwnersRight, Owners, InLocked
  <2>5. ASSUME i # 1 PROVE Readi(dip[i], 0, n) = Written(i, n)
    <3>1. Min2(n, dip[i].size - 0) = n
      BY <2>2, <2>3 DEF Min2
    <3>2. ASSUME NEW k \in 1 .. n
          PROVE  data[Lookup(dip[i], (0 + k - 1) \div BSIZE)][(0 + k - 1) % BSIZE] = Byte(i, k - 1)
      <4>1. PICK x \in 0 .. ip[i].size - 1 : x = k - 1 /\ x = 0 + k - 1
        BY <2>2, <2>3
      <4>2. ByteAt(data, ip, i, x, Byte(i, x))
        BY <2>4, <2>5, <4>1 DEF BlocksInv, BytesRight
      <4>3. Lookup(dip[i], x \div BSIZE) = Lk(data, ip[i].addrs, x \div BSIZE)
        BY <2>2 DEF Lookup, Lk
      <4> QED
        BY <4>1, <4>2, <4>3 DEF ByteAt
    <3> QED
      BY <3>1, <3>2 DEF Readi, Written
  <2> QED
    BY <2>2, <2>3, <2>5
<1> QED
  BY <1>1 DEF ReadsBack

\* The bitmap and the files agree at every step of writes and truncations: every
\* block in use (bitmap, balloc, bfree) is in exactly one place of one inode.
THEOREM BlocksOwnedOnce == BlocksSpec => []BlocksOwned
<1>1. BlocksInit => BlocksInv
  BY BlocksInvInit
<1>2. BlocksInv /\ [BlocksNext]_blocksVars => BlocksInv'
  BY BlocksInvNext
<1>3. BlocksInv => BlocksOwned
  BY InvBlocksOwned
<1> QED
  BY <1>1, <1>2, <1>3, PTL DEF BlocksSpec

\* An inode nobody has locked gives back from its blocks on disk (readi) every
\* byte that was written to the file (writei), after any writes, truncations and
\* uses of the same blocks by others.
THEOREM ReadsGiveWrites == BlocksSpec => []ReadsBack
<1>1. BlocksInit => BlocksInv
  BY BlocksInvInit
<1>2. BlocksInv /\ [BlocksNext]_blocksVars => BlocksInv'
  BY BlocksInvNext
<1>3. BlocksInv => ReadsBack
  BY InvReadsBack
<1> QED
  BY <1>1, <1>2, <1>3, PTL DEF BlocksSpec

=============================================================================
