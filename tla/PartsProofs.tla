---------------------------- MODULE PartsProofs ----------------------------
(***************************************************************************)
(* Physical pages and address spaces, for any number of processes, frames  *)
(* and user pages: kalloc, kfree and the clean-up of every call that fails *)
(* leave each page in one use or on the free list, and the pages mapped    *)
(* are those below sz.                                                     *)
(*                                                                         *)
(* The console, for any number of readers, any size of the ring and of the *)
(* screen, and kills at any point: no reader sleeps beside input that was  *)
(* handed over, the cursor stays on the screen, and the ring with its      *)
(* three wrapping indices is the line discipline of Terminal.              *)
(*                                                                         *)
(* The disk of p6, for any number of blocks and inodes: the blocks of the  *)
(* files are in use, apart from each other and hold what was last written. *)
(***************************************************************************)
EXTENDS Memory, Console, DiskImage, FiniteSetTheorems, SequenceTheorems,
        NaturalsInduction, WellFoundedInduction, TLAPS

\* A set of natural numbers has a least one.
LEMMA LeastNatural ==
    ASSUME NEW U \in SUBSET Nat, U # {}
    PROVE  \E x \in U : \A y \in U : x <= y
<1>1. IsWellFoundedOn(OpToRel(<, Nat), Nat)
  BY NatLessThanWellFounded
<1>2. PICK x \in U : \A y \in U : ~ (<<y, x>> \in OpToRel(<, Nat))
  BY <1>1, WFMin
<1>3. \A y \in U : ~ (<<y, x>> \in {ss \in Nat \X Nat : ss[1] < ss[2]})
  BY <1>2, Zenon DEF OpToRel
<1>4. \A y \in U : ~ (y < x)
  BY <1>3
<1> QED
  BY <1>4
-----------------------------------------------------------------------------
(***************************************************************************)
(* Physical pages and address spaces.                                      *)
(***************************************************************************)
\* The places that refer to pages: the fields of a slot and of a call under way.
Places == {<<"dir", 0>>, <<"kern", 0>>} \cup {<<"tab", t>> : t \in Tables}
          \cup {<<"page", k>> : k \in UserPages}
SlotCells == MemProcs \X {"slot"} \X (Places \cup {<<"kstack", 0>>})
JobCells == MemProcs \X {"job"} \X (Places \cup {<<"mem", 0>>})
Cells == SlotCells \cup JobCells

\* What they hold, for a process with slot s and call j.
Entry(s, n) ==
    IF n[1] = "dir" THEN s.dir ELSE IF n[1] = "kern" THEN s.kern
    ELSE IF n[1] = "tab" THEN s.tab[n[2]] ELSE s.page[n[2]]

ValueIn(s, j, w, n) ==
    IF n[1] = "kstack" THEN s.kstack ELSE IF n[1] = "mem" THEN j.mem
    ELSE Entry(IF w = "slot" THEN s.pgdir ELSE j.pgdir, n)

CellValues == [x \in Cells |-> ValueIn(slot[x[1]], job[x[1]], x[2], x[3])]

\* A page in use is in one cell of c and is not free; a page in none is free.
OwnedOnce(c, v, free) ==
    /\ free \subseteq Frames
    /\ \A x \in c : v[x] # 0 => v[x] \in Frames \ free
    /\ \A x, y \in c : v[x] # 0 /\ v[x] = v[y] => x = y
    /\ \A f \in Frames \ free : \E x \in c : v[x] = f

SpaceType == [dir : Nat, kern : Nat, tab : [Tables -> Nat], page : [UserPages -> Nat]]
SlotType == [kstack : Nat, sz : Nat, pgdir : SpaceType, faults : BOOLEAN]
JobType == [pc : {"user", "setupkvm", "kalloc", "mappages", "bad"},
            call : {"none", "sbrk", "fork", "exec", "stack"}, child : MemProcs \cup {0},
            pgdir : SpaceType, oldsz : Nat, a : Nat, end : Nat, mem : Nat]

MemTypes == slot \in [MemProcs -> SlotType] /\ job \in [MemProcs -> JobType]

\* A free slot has nothing; a call is made by a process that runs.
SlotRight(s, j) ==
    /\ s.kstack = 0 => s = UnusedSlot
    /\ j.pc = "user" => j = Quiet
    /\ j.pc # "user" => s.pgdir.dir # 0 /\ s.faults = FALSE

\* What a call has built.
JobRight(j) ==
    /\ j.pc # "mappages" => j.mem = 0
    /\ j.call = "none" => j.pc = "user"
    /\ j.call = "sbrk" => j.pgdir = NoSpace /\ j.pc \in {"kalloc", "mappages"}
    /\ j.pc = "setupkvm" => /\ j.pgdir = [NoSpace EXCEPT !.dir = j.pgdir.dir]
                            /\ j.call \in {"fork", "exec"} /\ j.a = 0
    /\ j.pc \in {"kalloc", "mappages"} =>
         j.a % PGSIZE = 0 /\ j.a <= PGROUNDUP(j.end) /\ j.end < KERNBASE
    /\ j.pc = "mappages" => j.mem # 0 /\ j.a < j.end

\* The pages mapped are those below sz, or below a, the loop variable of
\* allocuvm and copyuvm.
PagesBelow(s, sz) == \A k \in UserPages : s.page[k] # 0 <=> k * PGSIZE < sz

SizeRight(s, j) ==
    /\ s.pgdir.dir # 0 /\ s.faults = FALSE =>
         PagesBelow(s.pgdir, IF j.call = "sbrk" THEN j.a ELSE s.sz)
    /\ j.call = "sbrk" => PGROUNDUP(j.oldsz) <= j.a /\ j.oldsz = s.sz
    /\ j.call \in {"fork", "exec", "stack"} => PagesBelow(j.pgdir, j.a)
    /\ j.call = "fork" => j.end = s.sz

ProcRight(s, j) == SlotRight(s, j) /\ JobRight(j) /\ SizeRight(s, j)

\* fork has a child of its own, with a kernel stack and nothing else.
ChildrenRight ==
    /\ \A p \in MemProcs :
         /\ job[p].call # "fork" => job[p].child = 0
         /\ job[p].call = "fork" =>
              /\ job[p].child \in MemProcs /\ slot[job[p].child].kstack # 0
              /\ slot[job[p].child] = [UnusedSlot EXCEPT !.kstack = slot[job[p].child].kstack]
    /\ \A p, q \in MemProcs :
         job[p].call = "fork" /\ job[q].call = "fork" /\ job[p].child = job[q].child => p = q

Shape == MemTypes /\ (\A p \in MemProcs : ProcRight(slot[p], job[p])) /\ ChildrenRight

MemInv == Shape /\ vmPanic = FALSE /\ OwnedOnce(Cells, CellValues, freelist)
-----------------------------------------------------------------------------
\* Multiples of a page size.
LEMMA Multiples ==
    ASSUME NEW P \in Nat \ {0}, NEW a \in Nat, a % P = 0
    PROVE  /\ a \div P \in Nat /\ a = (a \div P) * P
           /\ (a + P) % P = 0 /\ \A k \in Nat : k * P \in Nat /\ (k * P) % P = 0
<1>1. a \div P \in Nat /\ a = P * (a \div P) + (a % P)
  OBVIOUS
<1>2. PICK m \in Nat : m = a \div P /\ a = m * P
  BY <1>1
<1>3. \A k \in Nat : k * P \in Nat /\ (k * P) % P = 0
  OBVIOUS
<1>4. a + P = (m + 1) * P
  BY <1>2
<1> QED
  BY <1>2, <1>3, <1>4

\* The next multiple is a page further.
LEMMA NextMultiple ==
    ASSUME NEW P \in Nat \ {0}, NEW a \in Nat, NEW b \in Nat, a % P = 0, b % P = 0, a < b
    PROVE  a + P <= b
<1>1. PICK m \in Nat : a = m * P
  BY Multiples
<1>2. PICK n \in Nat : b = n * P
  BY Multiples
<1>3. m < n
  BY <1>1, <1>2
<1>4. (n - m - 1) \in Nat
  BY <1>3
<1>5. PICK d \in Nat : n = m + 1 + d
  BY <1>4
<1>6. b = m * P + P + d * P /\ d * P \in Nat
  BY <1>2, <1>5
<1> QED
  BY <1>1, <1>6

LEMMA SameMultiple ==
    ASSUME NEW P \in Nat \ {0}, NEW k \in Nat, NEW l \in Nat, k * P = l * P
    PROVE  k = l
  OBVIOUS

\* PGROUNDUP gives the first multiple that is not below.
LEMMA RoundUp ==
    ASSUME NEW sz \in Nat
    PROVE  /\ PGROUNDUP(sz) \in Nat /\ PGROUNDUP(sz) % PGSIZE = 0
           /\ sz <= PGROUNDUP(sz) /\ PGROUNDUP(sz) < sz + PGSIZE
<1> DEFINE x == sz + PGSIZE - 1
<1>0. PGSIZE \in Nat \ {0} /\ x \in Nat
  BY MemAssumption
<1>1. PICK m \in Nat : m = x \div PGSIZE
  BY <1>0
<1>2. x = PGSIZE * (x \div PGSIZE) + (x % PGSIZE) /\ x % PGSIZE \in 0 .. PGSIZE - 1
  BY <1>0
<1>3. PICK r \in 0 .. PGSIZE - 1 : x = m * PGSIZE + r
  BY <1>0, <1>1, <1>2
<1>4. PGROUNDUP(sz) = m * PGSIZE
  BY <1>1 DEF PGROUNDUP
<1>5. m * PGSIZE \in Nat /\ (m * PGSIZE) % PGSIZE = 0
  BY <1>0
<1>6. sz <= m * PGSIZE /\ m * PGSIZE < sz + PGSIZE
  BY <1>0, <1>3, <1>5
<1> QED
  BY <1>4, <1>5, <1>6

\* The pages and page tables of user memory.
LEMMA UserMemory ==
    /\ 0 \in UserPages /\ 0 \in Tables
    /\ \A k \in UserPages :
         /\ k \in Nat /\ PDX(k) \in Tables
         /\ k * PGSIZE \in Nat /\ (k * PGSIZE) % PGSIZE = 0 /\ k * PGSIZE < KERNBASE
    /\ \A a \in Nat : a % PGSIZE = 0 /\ a < KERNBASE =>
         a \div PGSIZE \in UserPages /\ (a \div PGSIZE) * PGSIZE = a
    /\ \A k, l \in UserPages : k * PGSIZE = l * PGSIZE => k = l
<1>0. /\ PGSIZE \in Nat \ {0} /\ NPTE \in Nat \ {0} /\ KERNBASE \in Nat \ {0}
      /\ KERNBASE % PGSIZE = 0 /\ (KERNBASE \div PGSIZE) % NPTE = 0
  BY MemAssumption
<1>1. PICK N \in Nat : N = KERNBASE \div PGSIZE /\ KERNBASE = N * PGSIZE
  BY <1>0, Multiples
<1>2. PICK U \in Nat : U = N \div NPTE /\ N = U * NPTE
  BY <1>0, <1>1, Multiples
<1>3. UserPages = 0 .. N - 1 /\ Tables = 0 .. U - 1
  BY <1>1, <1>2 DEF UserPages, Tables
<1>4. N > 0 /\ U > 0
  BY <1>0, <1>1, <1>2
<1>5. ASSUME NEW k \in 0 .. N - 1
      PROVE  /\ k * PGSIZE \in Nat /\ (k * PGSIZE) % PGSIZE = 0 /\ k * PGSIZE < KERNBASE
             /\ k \div NPTE \in 0 .. U - 1
  <2>1. k * PGSIZE \in Nat /\ (k * PGSIZE) % PGSIZE = 0
    BY <1>0
  <2>2. PICK d \in Nat \ {0} : N = k + d
    <3>1. N - k \in Nat \ {0} /\ N = k + (N - k)
      BY <1>1
    <3> QED
      BY <3>1
  <2>3. N * PGSIZE = k * PGSIZE + d * PGSIZE /\ d * PGSIZE \in Nat \ {0}
    BY <1>0, <2>2
  <2>4. PICK m \in Nat : m = k \div NPTE
    BY <1>0
  <2>5. k = NPTE * (k \div NPTE) + (k % NPTE) /\ k % NPTE \in Nat
    BY <1>0
  <2>6. PICK r \in Nat : k = m * NPTE + r
    BY <1>0, <2>4, <2>5
  <2>7. m < U
    <3> SUFFICES ASSUME m >= U PROVE FALSE
      OBVIOUS
    <3>1. PICK e \in Nat : m = U + e
      <4>1. m - U \in Nat /\ m = U + (m - U)
        OBVIOUS
      <4> QED
        BY <4>1
    <3>2. m * NPTE = U * NPTE + e * NPTE /\ e * NPTE \in Nat
      BY <1>0, <3>1
    <3> QED
      BY <1>2, <2>6, <3>2
  <2> QED
    BY <1>1, <2>1, <2>3, <2>4, <2>7
<1>6. ASSUME NEW a \in Nat, a % PGSIZE = 0, a < KERNBASE
      PROVE  a \div PGSIZE \in 0 .. N - 1 /\ (a \div PGSIZE) * PGSIZE = a
  <2>1. PICK m \in Nat : m = a \div PGSIZE /\ a = m * PGSIZE
    BY <1>0, <1>6, Multiples
  <2>2. m < N
    <3> SUFFICES ASSUME m >= N PROVE FALSE
      OBVIOUS
    <3>1. PICK e \in Nat : m = N + e
      <4>1. m - N \in Nat /\ m = N + (m - N)
        OBVIOUS
      <4> QED
        BY <4>1
    <3>2. m * PGSIZE = N * PGSIZE + e * PGSIZE /\ e * PGSIZE \in Nat
      BY <1>0, <3>1
    <3>3. PICK y \in Nat : y = e * PGSIZE
      BY <3>2
    <3>4. a = KERNBASE + y
      BY <1>1, <2>1, <3>2, <3>3
    <3> QED
      BY <1>0, <1>6, <3>3, <3>4
  <2> QED
    BY <2>1, <2>2
<1>7. \A k, l \in 0 .. N - 1 : k * PGSIZE = l * PGSIZE => k = l
  <2>1. \A k \in 0 .. N - 1 : k \in Nat
    OBVIOUS
  <2> QED
    BY <1>0, <2>1, SameMultiple
<1> QED
  BY <1>3, <1>4, <1>5, <1>6, <1>7 DEF PDX
-----------------------------------------------------------------------------
\* kalloc: a free page comes into a cell that had none.
LEMMA TakePage ==
    ASSUME NEW C, NEW v, NEW w, NEW free, OwnedOnce(C, v, free),
           NEW c \in C, v[c] = 0, NEW f \in free,
           \A x \in C : w[x] = IF x = c THEN f ELSE v[x]
    PROVE  OwnedOnce(C, w, free \ {f})
<1>1. f \in Frames /\ f # 0 /\ \A x \in C : v[x] # f
  BY MemAssumption DEF OwnedOnce
<1>2. w[c] = f /\ \A x \in C \ {c} : w[x] = v[x] /\ w[x] # f
  BY <1>1
<1>3. \A x \in C : w[x] # 0 => w[x] \in Frames \ (free \ {f})
  BY <1>1, <1>2 DEF OwnedOnce
<1>4. \A x, y \in C : w[x] # 0 /\ w[x] = w[y] => x = y
  BY <1>1, <1>2 DEF OwnedOnce
<1>5. \A g \in Frames \ (free \ {f}) : \E x \in C : w[x] = g
  <2> SUFFICES ASSUME NEW g \in Frames, g \notin free, g # f PROVE \E x \in C : w[x] = g
    BY <1>2
  <2>1. PICK x \in C : v[x] = g
    BY DEF OwnedOnce
  <2>2. x # c
    BY <2>1, MemAssumption
  <2> QED
    BY <1>2, <2>1, <2>2
<1> QED
  BY <1>3, <1>4, <1>5 DEF OwnedOnce

\* kfree: the pages of some cells are free and the cells empty.
LEMMA FreePages ==
    ASSUME NEW C, NEW v, NEW w, NEW free, OwnedOnce(C, v, free),
           NEW S \in SUBSET C, NEW pages,
           \A f : f \in pages <=> \E x \in S : v[x] # 0 /\ v[x] = f,
           \A x \in C : w[x] = IF x \in S THEN 0 ELSE v[x]
    PROVE  OwnedOnce(C, w, free \cup pages)
<1>1. pages \subseteq Frames
  BY DEF OwnedOnce
<1>2. \A x \in C : w[x] # 0 => v[x] = w[x] /\ x \notin S
  OBVIOUS
<1>3. \A x \in C : w[x] # 0 => w[x] \in Frames \ (free \cup pages)
  BY <1>2 DEF OwnedOnce
<1>4. \A x, y \in C : w[x] # 0 /\ w[x] = w[y] => x = y
  BY <1>2 DEF OwnedOnce
<1>5. \A f \in Frames \ (free \cup pages) : \E x \in C : w[x] = f
  <2> SUFFICES ASSUME NEW f \in Frames, f \notin free, f \notin pages
               PROVE  \E x \in C : w[x] = f
    OBVIOUS
  <2>1. PICK x \in C : v[x] = f
    BY DEF OwnedOnce
  <2>2. f # 0
    BY MemAssumption
  <2> QED
    BY <2>1, <2>2
<1> QED
  BY <1>1, <1>3, <1>4, <1>5 DEF OwnedOnce

\* Pages change places pairwise.
LEMMA SwapPages ==
    ASSUME NEW C, NEW v, NEW w, NEW free, OwnedOnce(C, v, free),
           NEW h \in [C -> C], \A x \in C : h[h[x]] = x /\ w[x] = v[h[x]]
    PROVE  OwnedOnce(C, w, free)
<1>1. \A x, y \in C : w[x] # 0 /\ w[x] = w[y] => x = y
  BY DEF OwnedOnce
<1>2. \A f \in Frames \ free : \E x \in C : w[x] = f
  BY DEF OwnedOnce
<1> QED
  BY <1>1, <1>2 DEF OwnedOnce
-----------------------------------------------------------------------------
\* The entries of a page directory, and the directory after the code has set
\* one of them.
LEMMA EntryOf ==
    ASSUME NEW s \in SpaceType, NEW n \in Places
    PROVE  /\ Entry(s, n) \in Nat /\ Entry(NoSpace, n) = 0
           /\ n[1] \notin {"kstack", "mem"}
<1>1. \/ n = <<"dir", 0>> \/ n = <<"kern", 0>> \/ (\E t \in Tables : n = <<"tab", t>>)
      \/ \E k \in UserPages : n = <<"page", k>>
  BY DEF Places
<1> QED
  BY <1>1 DEF Entry, NoSpace, SpaceType

EntryTaken(D, E, m, f) == \A n \in Places : Entry(E, n) = IF n = m THEN f ELSE Entry(D, n)

LEMMA SetEntry ==
    ASSUME NEW s \in SpaceType, NEW f \in Nat
    PROVE  /\ [s EXCEPT !.dir = f] \in SpaceType
           /\ [s EXCEPT !.kern = f] \in SpaceType
           /\ EntryTaken(s, [s EXCEPT !.dir = f], <<"dir", 0>>, f)
           /\ EntryTaken(s, [s EXCEPT !.kern = f], <<"kern", 0>>, f)
           /\ \A k \in UserPages : /\ [s EXCEPT !.page[k] = f] \in SpaceType
                                   /\ EntryTaken(s, [s EXCEPT !.page[k] = f], <<"page", k>>, f)
           /\ \A t \in Tables : /\ [s EXCEPT !.tab[t] = f] \in SpaceType
                                /\ EntryTaken(s, [s EXCEPT !.tab[t] = f], <<"tab", t>>, f)
<1>1. \A n \in Places : \/ n = <<"dir", 0>> \/ n = <<"kern", 0>>
                        \/ (\E t \in Tables : n = <<"tab", t>>)
                        \/ \E k \in UserPages : n = <<"page", k>>
  BY DEF Places
<1>2. /\ [s EXCEPT !.dir = f] \in SpaceType /\ [s EXCEPT !.kern = f] \in SpaceType
      /\ EntryTaken(s, [s EXCEPT !.dir = f], <<"dir", 0>>, f)
      /\ EntryTaken(s, [s EXCEPT !.kern = f], <<"kern", 0>>, f)
  BY <1>1 DEF Entry, SpaceType, EntryTaken
<1>3. ASSUME NEW k \in UserPages
      PROVE  /\ [s EXCEPT !.page[k] = f] \in SpaceType
             /\ EntryTaken(s, [s EXCEPT !.page[k] = f], <<"page", k>>, f)
  BY <1>1 DEF Entry, SpaceType, EntryTaken
<1>4. ASSUME NEW t \in Tables
      PROVE  /\ [s EXCEPT !.tab[t] = f] \in SpaceType
             /\ EntryTaken(s, [s EXCEPT !.tab[t] = f], <<"tab", t>>, f)
  BY <1>1 DEF Entry, SpaceType, EntryTaken
<1> QED
  BY <1>2, <1>3, <1>4

LEMMA NoSpaceType == NoSpace \in SpaceType
  BY DEF NoSpace, SpaceType

\* deallocuvm clears the pages it frees.
LEMMA ShrunkOf ==
    ASSUME NEW s \in SpaceType, NEW oldsz \in Nat, NEW newsz \in Nat
    PROVE  /\ Shrunk(s, oldsz, newsz) \in SpaceType
           /\ \A n \in Places : Entry(Shrunk(s, oldsz, newsz), n)
                = IF \E k \in Within(s, oldsz, newsz) : n = <<"page", k>> THEN 0 ELSE Entry(s, n)
           /\ \A k \in UserPages : Shrunk(s, oldsz, newsz).page[k]
                = IF k \in Within(s, oldsz, newsz) THEN 0 ELSE s.page[k]
           /\ \A f : f \in Released(s, oldsz, newsz) <=>
                \E k \in Within(s, oldsz, newsz) : s.page[k] = f /\ f # 0
<1> DEFINE W == Within(s, oldsz, newsz)
<1>1. W \subseteq UserPages /\ \A k \in W : s.page[k] # 0
  BY DEF Within
<1>2. \A f : f \in Released(s, oldsz, newsz) <=> \E k \in W : s.page[k] = f /\ f # 0
  BY <1>1 DEF Released
<1>3. Shrunk(s, oldsz, newsz) = [s EXCEPT !.page = [k \in UserPages |-> IF k \in W THEN 0 ELSE s.page[k]]]
  BY DEF Shrunk, SpaceType
<1> HIDE DEF W
<1>4. /\ Shrunk(s, oldsz, newsz) \in SpaceType
      /\ \A k \in UserPages : Shrunk(s, oldsz, newsz).page[k] = IF k \in W THEN 0 ELSE s.page[k]
  BY <1>1, <1>3 DEF SpaceType
<1>5. ASSUME NEW n \in Places
      PROVE  Entry(Shrunk(s, oldsz, newsz), n)
               = IF \E k \in W : n = <<"page", k>> THEN 0 ELSE Entry(s, n)
  <2>1. CASE n = <<"dir", 0>> \/ n = <<"kern", 0>> \/ \E t \in Tables : n = <<"tab", t>>
    BY <1>3, <2>1 DEF Entry, SpaceType
  <2>2. CASE \E k \in UserPages : n = <<"page", k>>
    BY <1>4, <2>2 DEF Entry
  <2> QED
    BY <2>1, <2>2 DEF Places
<1> QED
  BY <1>2, <1>4, <1>5 DEF W

LEMMA ShrunkDir ==
    ASSUME NEW s \in SpaceType, NEW oldsz \in Nat, NEW newsz \in Nat
    PROVE  Shrunk(s, oldsz, newsz).dir = s.dir
  BY DEF Shrunk, SpaceType

\* freevm frees every page the directory has.
LEMMA PagesOfSpace ==
    ASSUME NEW s \in SpaceType
    PROVE  \A f : f \in PagesOf(s) <=> \E n \in Places : Entry(s, n) = f /\ f # 0
<1>1. FirstFreed(0) = 0
  <2>1. PGSIZE \in Nat \ {0} /\ PGROUNDUP(0) \in Nat /\ PGROUNDUP(0) % PGSIZE = 0
        /\ PGROUNDUP(0) < PGSIZE
    BY RoundUp, MemAssumption
  <2>2. PGROUNDUP(0) = 0
    BY <2>1
  <2> QED
    BY <2>2 DEF FirstFreed
<1>2. Within(s, KERNBASE, 0) = {k \in UserPages : s.page[k] # 0}
  <2>1. \A k \in UserPages : 0 <= k * PGSIZE /\ k * PGSIZE < KERNBASE
    BY UserMemory, MemAssumption
  <2> QED
    BY <1>1, <2>1 DEF Within
<1>3. \A f : f \in PagesOf(s) <=>
        f # 0 /\ \/ f = s.dir \/ f = s.kern \/ (\E t \in Tables : f = s.tab[t])
                 \/ \E k \in UserPages : f = s.page[k]
  BY <1>2 DEF PagesOf, Released
<1>4. \A f : (\E n \in Places : Entry(s, n) = f) <=>
        \/ f = s.dir \/ f = s.kern \/ (\E t \in Tables : f = s.tab[t])
        \/ \E k \in UserPages : f = s.page[k]
  <2> TAKE f
  <2>1. ASSUME NEW n \in Places, Entry(s, n) = f
        PROVE  \/ f = s.dir \/ f = s.kern \/ (\E t \in Tables : f = s.tab[t])
               \/ \E k \in UserPages : f = s.page[k]
    BY <2>1 DEF Places, Entry
  <2>2. /\ <<"dir", 0>> \in Places /\ Entry(s, <<"dir", 0>>) = s.dir
        /\ <<"kern", 0>> \in Places /\ Entry(s, <<"kern", 0>>) = s.kern
        /\ \A t \in Tables : <<"tab", t>> \in Places /\ Entry(s, <<"tab", t>>) = s.tab[t]
        /\ \A k \in UserPages : <<"page", k>> \in Places /\ Entry(s, <<"page", k>>) = s.page[k]
    BY DEF Places, Entry
  <2> QED
    BY <2>1, <2>2
<1> QED
  BY <1>3, <1>4

\* The cells are those of slots and of calls, one for each place, the kernel
\* stack and the page in hand.
LEMMA CellKinds ==
    /\ \A x \in Cells : \E p \in MemProcs :
         \/ x = <<p, "slot", <<"kstack", 0>>>> \/ x = <<p, "job", <<"mem", 0>>>>
         \/ \E n \in Places : x = <<p, "slot", n>> \/ x = <<p, "job", n>>
    /\ \A p \in MemProcs :
         /\ <<p, "slot", <<"kstack", 0>>>> \in Cells /\ <<p, "job", <<"mem", 0>>>> \in Cells
         /\ \A n \in Places : <<p, "slot", n>> \in Cells /\ <<p, "job", n>> \in Cells
    /\ \A n \in Places : n # <<"kstack", 0>> /\ n # <<"mem", 0>>
    /\ <<"kstack", 0>> # <<"mem", 0>>
    /\ <<"dir", 0>> \in Places /\ <<"kern", 0>> \in Places
    /\ \A t \in Tables : <<"tab", t>> \in Places
    /\ \A k \in UserPages : <<"page", k>> \in Places
<1>1. \A x \in Cells : \E p \in MemProcs :
         \/ x = <<p, "slot", <<"kstack", 0>>>> \/ x = <<p, "job", <<"mem", 0>>>>
         \/ \E n \in Places : x = <<p, "slot", n>> \/ x = <<p, "job", n>>
  BY DEF Cells, SlotCells, JobCells
<1>2. \A p \in MemProcs :
         /\ <<p, "slot", <<"kstack", 0>>>> \in Cells /\ <<p, "job", <<"mem", 0>>>> \in Cells
         /\ \A n \in Places : <<p, "slot", n>> \in Cells /\ <<p, "job", n>> \in Cells
  <2> SUFFICES ASSUME NEW p \in MemProcs
               PROVE  /\ \A n \in Places \cup {<<"kstack", 0>>} : <<p, "slot", n>> \in SlotCells
                      /\ \A n \in Places \cup {<<"mem", 0>>} : <<p, "job", n>> \in JobCells
    BY DEF Cells
  <2>1. \A n \in Places \cup {<<"kstack", 0>>} : <<p, "slot", n>> \in SlotCells
    BY DEF SlotCells
  <2>2. \A n \in Places \cup {<<"mem", 0>>} : <<p, "job", n>> \in JobCells
    BY DEF JobCells
  <2> QED
    BY <2>1, <2>2
<1>3. /\ \A n \in Places : n # <<"kstack", 0>> /\ n # <<"mem", 0>>
      /\ <<"kstack", 0>> # <<"mem", 0>>
      /\ <<"dir", 0>> \in Places /\ <<"kern", 0>> \in Places
      /\ \A t \in Tables : <<"tab", t>> \in Places
      /\ \A k \in UserPages : <<"page", k>> \in Places
  BY DEF Places
<1> QED
  BY <1>1, <1>2, <1>3

\* A step of one process changes its own cells.
LEMMA LocalValues ==
    ASSUME MemTypes, NEW p \in MemProcs, NEW s2, NEW j2,
           slot' = [slot EXCEPT ![p] = s2], job' = [job EXCEPT ![p] = j2]
    PROVE  \A x \in Cells :
             /\ x[1] # p => CellValues'[x] = CellValues[x]
             /\ x[1] = p => /\ CellValues'[x] = ValueIn(s2, j2, x[2], x[3])
                            /\ CellValues[x] = ValueIn(slot[p], job[p], x[2], x[3])
<1> TAKE x \in Cells
<1>1. /\ CellValues[x] = ValueIn(slot[x[1]], job[x[1]], x[2], x[3])
      /\ CellValues'[x] = ValueIn(slot'[x[1]], job'[x[1]], x[2], x[3])
  BY DEF CellValues
<1>2. x[1] \in MemProcs
  BY CellKinds
<1>3. /\ slot'[p] = s2 /\ job'[p] = j2
      /\ x[1] # p => slot'[x[1]] = slot[x[1]] /\ job'[x[1]] = job[x[1]]
  BY <1>2 DEF MemTypes
<1> QED
  BY <1>1, <1>3

\* The values of a process' cells.
LEMMA ValueOf ==
    ASSUME NEW s, NEW j
    PROVE  /\ ValueIn(s, j, "slot", <<"kstack", 0>>) = s.kstack
           /\ ValueIn(s, j, "job", <<"mem", 0>>) = j.mem
           /\ \A n \in Places : /\ ValueIn(s, j, "slot", n) = Entry(s.pgdir, n)
                                /\ ValueIn(s, j, "job", n) = Entry(j.pgdir, n)
<1>1. \A n \in Places : n[1] \notin {"kstack", "mem"}
  BY DEF Places
<1> QED
  BY <1>1 DEF ValueIn

\* A step that changes none of them.
LEMMA ValuesKept ==
    ASSUME MemTypes, NEW p \in MemProcs, NEW s2, NEW j2,
           slot' = [slot EXCEPT ![p] = s2], job' = [job EXCEPT ![p] = j2],
           s2.kstack = slot[p].kstack, s2.pgdir = slot[p].pgdir,
           j2.mem = job[p].mem, j2.pgdir = job[p].pgdir,
           OwnedOnce(Cells, CellValues, freelist), freelist' = freelist
    PROVE  OwnedOnce(Cells, CellValues, freelist)'
<1>1. \A x \in Cells : CellValues'[x] = CellValues[x]
  <2>1. \A x \in Cells :
          /\ x[1] # p => CellValues'[x] = CellValues[x]
          /\ x[1] = p => /\ CellValues'[x] = ValueIn(s2, j2, x[2], x[3])
                         /\ CellValues[x] = ValueIn(slot[p], job[p], x[2], x[3])
    BY LocalValues
  <2>2. \A w, n : ValueIn(s2, j2, w, n) = ValueIn(slot[p], job[p], w, n)
    BY DEF ValueIn
  <2> QED
    BY <2>1, <2>2
<1>2. OwnedOnce(Cells, CellValues', freelist')
  BY <1>1 DEF OwnedOnce
<1> QED
  BY <1>2 DEF OwnedOnce

\* The child of a fork has a kernel stack and nothing else.
LEMMA ChildSlot ==
    ASSUME ChildrenRight, NEW q \in MemProcs, job[q].call = "fork"
    PROVE  /\ job[q].child \in MemProcs /\ slot[job[q].child].kstack # 0
           /\ slot[job[q].child].pgdir = NoSpace /\ slot[job[q].child].pgdir.dir = 0
           /\ slot[job[q].child].sz = 0 /\ slot[job[q].child].faults = FALSE
<1>1. /\ job[q].child \in MemProcs /\ slot[job[q].child].kstack # 0
      /\ slot[job[q].child] = [UnusedSlot EXCEPT !.kstack = slot[job[q].child].kstack]
  BY DEF ChildrenRight
<1>2. \A k : /\ [UnusedSlot EXCEPT !.kstack = k].pgdir = NoSpace
             /\ [UnusedSlot EXCEPT !.kstack = k].sz = 0
             /\ [UnusedSlot EXCEPT !.kstack = k].faults = FALSE
  BY DEF UnusedSlot
<1>3. NoSpace.dir = 0
  BY DEF NoSpace
<1> QED
  BY <1>1, <1>2, <1>3

\* A step of a process that is no child leaves the others as they are.
LEMMA LocalShape ==
    ASSUME Shape, NEW p \in MemProcs, slot[p].pgdir.dir # 0,
           NEW s2 \in SlotType, NEW j2 \in JobType, ProcRight(s2, j2),
           slot' = [slot EXCEPT ![p] = s2], job' = [job EXCEPT ![p] = j2],
           j2.child = job[p].child, j2.call = "fork" <=> job[p].call = "fork"
    PROVE  Shape'
<1>1. MemTypes'
  BY DEF Shape, MemTypes
<1>2. /\ slot'[p] = s2 /\ job'[p] = j2
      /\ \A q \in MemProcs \ {p} : slot'[q] = slot[q] /\ job'[q] = job[q]
  BY DEF Shape, MemTypes
<1>3. \A q \in MemProcs : ProcRight(slot'[q], job'[q])
  BY <1>2 DEF Shape
<1>4. \A q \in MemProcs : job[q].call = "fork" => job[q].child \in MemProcs \ {p}
  BY ChildSlot DEF Shape
<1>5. \A q \in MemProcs : /\ job'[q].child = job[q].child
                          /\ job'[q].call = "fork" <=> job[q].call = "fork"
  BY <1>2
<1>6. \A q \in MemProcs : job[q].call = "fork" => slot'[job[q].child] = slot[job[q].child]
  BY <1>2, <1>4
<1>7. ChildrenRight'
  <2>1. \A q \in MemProcs :
          /\ job'[q].call # "fork" => job'[q].child = 0
          /\ job'[q].call = "fork" =>
               /\ job'[q].child \in MemProcs /\ slot'[job'[q].child].kstack # 0
               /\ slot'[job'[q].child]
                    = [UnusedSlot EXCEPT !.kstack = slot'[job'[q].child].kstack]
    <3> TAKE q \in MemProcs
    <3>1. CASE job[q].call # "fork"
      BY <1>5, <3>1 DEF Shape, ChildrenRight
    <3>2. CASE job[q].call = "fork"
      <4>1. slot'[job'[q].child] = slot[job[q].child] /\ job'[q].child = job[q].child
        BY <1>5, <1>6, <3>2
      <4> QED
        BY <1>5, <3>2, <4>1 DEF Shape, ChildrenRight
    <3> QED
      BY <3>1, <3>2
  <2>2. \A q, r \in MemProcs :
          job'[q].call = "fork" /\ job'[r].call = "fork" /\ job'[q].child = job'[r].child => q = r
    BY <1>5 DEF Shape, ChildrenRight
  <2> QED
    BY <2>1, <2>2 DEF ChildrenRight
<1> QED
  BY <1>1, <1>3, <1>7 DEF Shape
-----------------------------------------------------------------------------
\* The pages below sz are those below sz rounded up.
LEMMA BelowRounded ==
    ASSUME NEW sz \in Nat, NEW k \in UserPages
    PROVE  k * PGSIZE < PGROUNDUP(sz) <=> k * PGSIZE < sz
<1>1. PICK b \in Nat : b = k * PGSIZE /\ b % PGSIZE = 0
  BY UserMemory
<1>2. PICK r \in Nat : r = PGROUNDUP(sz) /\ r % PGSIZE = 0 /\ sz <= r /\ r < sz + PGSIZE
  BY RoundUp
<1>3. PGSIZE \in Nat \ {0}
  BY MemAssumption
<1>4. b < r => b + PGSIZE <= r
  BY <1>1, <1>2, <1>3, NextMultiple
<1> QED
  BY <1>1, <1>2, <1>3, <1>4

LEMMA RoundMonotone ==
    ASSUME NEW sz \in Nat, NEW end \in Nat, sz <= end
    PROVE  PGROUNDUP(sz) <= PGROUNDUP(end)
<1>1. PICK r \in Nat : r = PGROUNDUP(sz) /\ r % PGSIZE = 0 /\ r < sz + PGSIZE
  BY RoundUp
<1>2. PICK e \in Nat : e = PGROUNDUP(end) /\ e % PGSIZE = 0 /\ end <= e
  BY RoundUp
<1>3. PGSIZE \in Nat \ {0}
  BY MemAssumption
<1>4. e < r => e + PGSIZE <= r
  BY <1>1, <1>2, <1>3, NextMultiple
<1> QED
  BY <1>1, <1>2, <1>3, <1>4

\* The loops end at the first page boundary that is not below end.
LEMMA LoopEnds ==
    ASSUME NEW a \in Nat, NEW end \in Nat, a % PGSIZE = 0, a <= PGROUNDUP(end), a >= end
    PROVE  a = PGROUNDUP(end)
<1>1. PICK e \in Nat : e = PGROUNDUP(end) /\ e % PGSIZE = 0 /\ e < end + PGSIZE
  BY RoundUp
<1>2. PGSIZE \in Nat \ {0}
  BY MemAssumption
<1>3. a < e => a + PGSIZE <= e
  BY <1>1, <1>2, NextMultiple
<1> QED
  BY <1>1, <1>2, <1>3

LEMMA NothingTypes ==
    /\ NoSpace \in SpaceType /\ UnusedSlot \in SlotType /\ Quiet \in JobType
    /\ NoSpace.dir = 0 /\ UnusedSlot.pgdir = NoSpace /\ UnusedSlot.kstack = 0
    /\ Quiet.pc = "user" /\ Quiet.call = "none" /\ Quiet.child = 0 /\ Quiet.mem = 0
    /\ Quiet.pgdir = NoSpace
  BY NoSpaceType DEF UnusedSlot, Quiet, SlotType, JobType, NoSpace

\* A process that makes a call.
LEMMA Caller ==
    ASSUME Shape, NEW p \in MemProcs, InUser(p)
    PROVE  /\ job[p] = Quiet /\ slot[p] \in SlotType /\ slot[p].pgdir.dir # 0
           /\ slot[p].faults = FALSE /\ slot[p].kstack # 0
           /\ PagesBelow(slot[p].pgdir, slot[p].sz)
<1>1. slot[p] \in SlotType /\ job[p] \in JobType /\ ProcRight(slot[p], job[p])
  BY DEF Shape, MemTypes
<1>2. job[p] = Quiet /\ slot[p].pgdir.dir # 0 /\ slot[p].faults = FALSE
  BY <1>1 DEF InUser, Does, ProcRight, SlotRight, SlotType
<1>3. PagesBelow(slot[p].pgdir, slot[p].sz)
  BY <1>1, <1>2, NothingTypes DEF ProcRight, SizeRight
<1>4. slot[p].kstack # 0
  BY <1>1, <1>2, NothingTypes DEF ProcRight, SlotRight
<1> QED
  BY <1>1, <1>2, <1>3, <1>4

\* sbrk that grows: allocuvm begins at the first boundary above sz.
LEMMA GrowInv ==
    ASSUME MemInv, NEW p \in MemProcs, NEW n \in Increments, Grow(p, n)
    PROVE  MemInv'
<1> DEFINE s == slot[p]
           j2 == [Quiet EXCEPT !.pc = "kalloc", !.call = "sbrk", !.oldsz = slot[p].sz,
                               !.a = PGROUNDUP(slot[p].sz), !.end = slot[p].sz + n]
<1>1. /\ job[p] = Quiet /\ s \in SlotType /\ s.pgdir.dir # 0
      /\ s.faults = FALSE /\ s.kstack # 0 /\ PagesBelow(s.pgdir, s.sz)
  BY Caller DEF Grow, MemInv
<1>2. /\ job' = [job EXCEPT ![p] = j2] /\ slot' = [slot EXCEPT ![p] = s]
      /\ freelist' = freelist /\ vmPanic' = vmPanic /\ n > 0 /\ s.sz + n < KERNBASE
  BY DEF Grow, Job, MemInv, Shape, MemTypes
<1>3. PICK sz \in Nat : sz = s.sz
  BY <1>1 DEF SlotType
<1>4. PICK e \in Nat : e = sz + n /\ sz <= e /\ e < KERNBASE
  BY <1>2, <1>3, MemAssumption
<1>5. /\ PGROUNDUP(sz) \in Nat /\ PGROUNDUP(sz) % PGSIZE = 0 /\ PGROUNDUP(sz) <= PGROUNDUP(e)
  BY RoundUp, RoundMonotone, <1>4
<1>6. /\ j2 \in JobType /\ j2.pc = "kalloc" /\ j2.call = "sbrk" /\ j2.oldsz = sz
      /\ j2.a = PGROUNDUP(sz) /\ j2.end = e /\ j2.pgdir = NoSpace /\ j2.mem = 0 /\ j2.child = 0
  BY <1>3, <1>4, <1>5, NothingTypes DEF Quiet, JobType
<1> HIDE DEF j2
<1>7. ProcRight(s, j2)
  <2>1. SlotRight(s, j2) /\ JobRight(j2)
    BY <1>1, <1>4, <1>5, <1>6 DEF SlotRight, JobRight
  <2>2. PagesBelow(s.pgdir, PGROUNDUP(sz))
    BY <1>1, <1>3, BelowRounded DEF PagesBelow
  <2>3. SizeRight(s, j2)
    BY <1>3, <1>5, <1>6, <2>2 DEF SizeRight
  <2> QED
    BY <2>1, <2>3 DEF ProcRight
<1>8. Shape'
  BY <1>1, <1>2, <1>6, <1>7, LocalShape, NothingTypes DEF MemInv
<1>9. OwnedOnce(Cells, CellValues, freelist)'
  BY <1>1, <1>2, <1>6, ValuesKept, NothingTypes DEF MemInv, Shape
<1> QED
  BY <1>2, <1>8, <1>9 DEF MemInv

\* exec begins with an empty directory.
LEMMA ExecInv ==
    ASSUME MemInv, NEW p \in MemProcs, NEW n \in Segments, Exec(p, n)
    PROVE  MemInv'
<1> DEFINE s == slot[p]
           j2 == [Quiet EXCEPT !.pc = "setupkvm", !.call = "exec", !.end = n]
<1>1. /\ job[p] = Quiet /\ s \in SlotType /\ s.pgdir.dir # 0
      /\ s.faults = FALSE /\ s.kstack # 0 /\ PagesBelow(s.pgdir, s.sz)
  BY Caller DEF Exec, MemInv
<1>2. /\ job' = [job EXCEPT ![p] = j2] /\ slot' = [slot EXCEPT ![p] = s]
      /\ freelist' = freelist /\ vmPanic' = vmPanic
  BY DEF Exec, Job, MemInv, Shape, MemTypes
<1>3. n \in Nat
  BY MemAssumption
<1>4. /\ j2 \in JobType /\ j2.pc = "setupkvm" /\ j2.call = "exec" /\ j2.a = 0
      /\ j2.pgdir = NoSpace /\ j2.mem = 0 /\ j2.child = 0
  BY <1>3, NothingTypes DEF Quiet, JobType
<1> HIDE DEF j2
<1>5. ProcRight(s, j2)
  <2>1. NoSpace = [NoSpace EXCEPT !.dir = NoSpace.dir]
    BY DEF NoSpace
  <2>2. SlotRight(s, j2) /\ JobRight(j2)
    BY <1>1, <1>4, <2>1 DEF SlotRight, JobRight
  <2>3. PagesBelow(NoSpace, 0)
    BY UserMemory DEF PagesBelow, NoSpace
  <2>4. SizeRight(s, j2)
    BY <1>1, <1>4, <2>3 DEF SizeRight
  <2> QED
    BY <2>2, <2>4 DEF ProcRight
<1>6. Shape'
  BY <1>1, <1>2, <1>4, <1>5, LocalShape, NothingTypes DEF MemInv
<1>7. OwnedOnce(Cells, CellValues, freelist)'
  BY <1>1, <1>2, <1>4, ValuesKept, NothingTypes DEF MemInv, Shape
<1> QED
  BY <1>2, <1>6, <1>7 DEF MemInv

\* A process inside a call.
LEMMA InCall ==
    ASSUME Shape, NEW p \in MemProcs, job[p].pc # "user"
    PROVE  /\ slot[p] \in SlotType /\ job[p] \in JobType /\ ProcRight(slot[p], job[p])
           /\ slot[p].pgdir.dir # 0 /\ slot[p].faults = FALSE /\ slot[p].kstack # 0
           /\ job[p].call # "none" /\ (job[p].call # "fork" => job[p].child = 0)
<1>1. slot[p] \in SlotType /\ job[p] \in JobType /\ ProcRight(slot[p], job[p])
  BY DEF Shape, MemTypes
<1>2. slot[p].pgdir.dir # 0 /\ slot[p].faults = FALSE
  BY <1>1 DEF ProcRight, SlotRight
<1>3. slot[p].kstack # 0
  BY <1>1, <1>2, NothingTypes DEF ProcRight, SlotRight
<1>4. job[p].call # "none" /\ (job[p].call # "fork" => job[p].child = 0)
  BY <1>1 DEF ProcRight, JobRight, Shape, ChildrenRight
<1> QED
  BY <1>1, <1>2, <1>3, <1>4

\* A loop that has mapped everything: a is end rounded up.
LEMMA LoopDone ==
    ASSUME Shape, NEW p \in MemProcs, NEW call, Mapped(p, call)
    PROVE  /\ job[p].pc = "kalloc" /\ job[p].call = call /\ job[p].mem = 0
           /\ job[p].a \in Nat /\ job[p].end \in Nat /\ job[p].a = PGROUNDUP(job[p].end)
           /\ job[p].end < KERNBASE
<1>1. job[p].pc = "kalloc" /\ job[p].call = call /\ job[p].a >= job[p].end
  BY DEF Mapped, Does
<1>2. job[p] \in JobType /\ JobRight(job[p])
  BY <1>1, InCall DEF ProcRight
<1>3. /\ job[p].a \in Nat /\ job[p].end \in Nat /\ job[p].mem = 0
      /\ job[p].a % PGSIZE = 0 /\ job[p].a <= PGROUNDUP(job[p].end) /\ job[p].end < KERNBASE
  BY <1>1, <1>2 DEF JobType, JobRight
<1> QED
  BY <1>1, <1>3, LoopEnds

\* growproc stores the new size.
LEMMA EndGrowInv ==
    ASSUME MemInv, NEW p \in MemProcs, EndGrow(p)
    PROVE  MemInv'
<1> DEFINE s == slot[p]
           j == job[p]
           s2 == [slot[p] EXCEPT !.sz = job[p].end]
<1>1. /\ j.pc = "kalloc" /\ j.call = "sbrk" /\ j.mem = 0
      /\ j.a \in Nat /\ j.end \in Nat /\ j.a = PGROUNDUP(j.end)
  BY LoopDone DEF EndGrow, MemInv
<1>2. /\ s \in SlotType /\ j \in JobType /\ ProcRight(s, j)
      /\ s.pgdir.dir # 0 /\ s.faults = FALSE /\ s.kstack # 0 /\ j.child = 0
  BY <1>1, InCall DEF MemInv
<1>3. /\ slot' = [slot EXCEPT ![p] = s2] /\ job' = [job EXCEPT ![p] = Quiet]
      /\ freelist' = freelist /\ vmPanic' = vmPanic
  BY DEF EndGrow, Job
<1>4. /\ s2 \in SlotType /\ s2.kstack = s.kstack /\ s2.pgdir = s.pgdir
      /\ s2.faults = FALSE /\ s2.sz = j.end
  BY <1>1, <1>2 DEF SlotType
<1>5. j.pgdir = NoSpace /\ PagesBelow(s.pgdir, j.a)
  BY <1>1, <1>2 DEF ProcRight, JobRight, SizeRight
<1>6. PagesBelow(s.pgdir, j.end)
  BY <1>1, <1>5, BelowRounded DEF PagesBelow
<1> HIDE DEF s2
<1>7. ProcRight(s2, Quiet)
  <2>1. SlotRight(s2, Quiet) /\ JobRight(Quiet)
    BY <1>2, <1>4, NothingTypes DEF SlotRight, JobRight
  <2>2. SizeRight(s2, Quiet)
    BY <1>4, <1>6, NothingTypes DEF SizeRight
  <2> QED
    BY <2>1, <2>2 DEF ProcRight
<1>8. Shape'
  BY <1>1, <1>2, <1>3, <1>4, <1>7, LocalShape, NothingTypes DEF MemInv
<1>9. OwnedOnce(Cells, CellValues, freelist)'
  BY <1>1, <1>3, <1>4, <1>5, ValuesKept, NothingTypes DEF MemInv, Shape
<1> QED
  BY <1>3, <1>8, <1>9 DEF MemInv

\* exec goes on with the stack where the segments end.
LEMMA ExecStackInv ==
    ASSUME MemInv, NEW p \in MemProcs, ExecStack(p)
    PROVE  MemInv'
<1> DEFINE s == slot[p]
           j == job[p]
           sz == PGROUNDUP(job[p].end)
           end == sz + 2 * PGSIZE
           j2 == IF end >= KERNBASE THEN [job[p] EXCEPT !.pc = "bad"]
                 ELSE [job[p] EXCEPT !.call = "stack", !.oldsz = sz, !.a = sz, !.end = end]
<1>1. /\ j.pc = "kalloc" /\ j.call = "exec" /\ j.mem = 0
      /\ j.a \in Nat /\ j.end \in Nat /\ j.a = PGROUNDUP(j.end)
  BY LoopDone DEF ExecStack, MemInv
<1>2. /\ s \in SlotType /\ j \in JobType /\ ProcRight(s, j)
      /\ s.pgdir.dir # 0 /\ s.faults = FALSE /\ s.kstack # 0 /\ j.child = 0
  BY <1>1, InCall DEF MemInv
<1>3. /\ slot' = [slot EXCEPT ![p] = s] /\ job' = [job EXCEPT ![p] = j2]
      /\ freelist' = freelist /\ vmPanic' = vmPanic
  BY DEF ExecStack, Job, MemInv, Shape, MemTypes
<1>4. /\ PGSIZE \in Nat \ {0} /\ KERNBASE \in Nat
      /\ sz \in Nat /\ sz % PGSIZE = 0 /\ sz <= PGROUNDUP(sz + 2 * PGSIZE)
  <2>1. PGSIZE \in Nat \ {0} /\ KERNBASE \in Nat /\ sz \in Nat /\ sz % PGSIZE = 0
    BY <1>1, RoundUp, MemAssumption
  <2>2. sz + 2 * PGSIZE \in Nat /\ sz <= sz + 2 * PGSIZE
    BY <2>1
  <2>3. sz + 2 * PGSIZE <= PGROUNDUP(sz + 2 * PGSIZE) /\ PGROUNDUP(sz + 2 * PGSIZE) \in Nat
    BY <2>2, RoundUp
  <2> QED
    BY <2>1, <2>2, <2>3
<1>5. PICK e \in Nat : e = end
  BY <1>4
<1>6. /\ j2 \in JobType /\ j2.pgdir = j.pgdir /\ j2.mem = 0 /\ j2.child = 0 /\ j2.a = sz
      /\ \/ j2.pc = "bad" /\ j2.call = "exec"
         \/ j2.pc = "kalloc" /\ j2.call = "stack" /\ j2.end = e /\ e < KERNBASE
  <2>1. PICK z \in Nat : z = sz
    BY <1>4
  <2>2. CASE end >= KERNBASE
    <3>1. j2 = [j EXCEPT !.pc = "bad"]
      BY <2>2
    <3>2. /\ [j EXCEPT !.pc = "bad"] \in JobType
          /\ [j EXCEPT !.pc = "bad"].pc = "bad" /\ [j EXCEPT !.pc = "bad"].call = j.call
          /\ [j EXCEPT !.pc = "bad"].pgdir = j.pgdir /\ [j EXCEPT !.pc = "bad"].mem = j.mem
          /\ [j EXCEPT !.pc = "bad"].child = j.child /\ [j EXCEPT !.pc = "bad"].a = j.a
      BY <1>2 DEF JobType
    <3> QED
      BY <1>1, <1>2, <3>1, <3>2
  <2>3. CASE ~(end >= KERNBASE)
    <3> DEFINE i == [j EXCEPT !.call = "stack", !.oldsz = z, !.a = z, !.end = e]
    <3>1. j2 = i
      BY <1>5, <2>1, <2>3
    <3>2. /\ i \in JobType /\ i.pc = j.pc /\ i.call = "stack" /\ i.pgdir = j.pgdir
          /\ i.mem = j.mem /\ i.child = j.child /\ i.a = z /\ i.end = e
      BY <1>2 DEF JobType
    <3>3. e < KERNBASE
      BY <1>4, <1>5, <2>3
    <3> QED
      BY <1>1, <1>2, <2>1, <3>1, <3>2, <3>3
  <2> QED
    BY <2>2, <2>3
<1>7. PagesBelow(j.pgdir, sz) /\ PagesBelow(s.pgdir, s.sz)
  BY <1>1, <1>2 DEF ProcRight, SizeRight
<1> HIDE DEF j2
<1>8. ProcRight(s, j2)
  <2>1. SlotRight(s, j2) /\ JobRight(j2)
    BY <1>2, <1>4, <1>5, <1>6 DEF SlotRight, JobRight
  <2>2. SizeRight(s, j2)
    BY <1>6, <1>7 DEF SizeRight
  <2> QED
    BY <2>1, <2>2 DEF ProcRight
<1>9. Shape'
  BY <1>1, <1>2, <1>3, <1>6, <1>8, LocalShape DEF MemInv
<1>10. OwnedOnce(Cells, CellValues, freelist)'
  BY <1>1, <1>3, <1>6, ValuesKept DEF MemInv, Shape
<1> QED
  BY <1>3, <1>9, <1>10 DEF MemInv
-----------------------------------------------------------------------------
\* A page goes from a cell to an empty one.
LEMMA MovePage ==
    ASSUME NEW C, NEW v, NEW w, NEW free, OwnedOnce(C, v, free),
           NEW c \in C, NEW d \in C, c # d, v[d] = 0,
           \A x \in C : w[x] = IF x = c THEN 0 ELSE IF x = d THEN v[c] ELSE v[x]
    PROVE  OwnedOnce(C, w, free)
<1> DEFINE h == [x \in C |-> IF x = c THEN d ELSE IF x = d THEN c ELSE x]
<1>1. h \in [C -> C] /\ \A x \in C : h[h[x]] = x /\ w[x] = v[h[x]]
  OBVIOUS
<1> HIDE DEF h
<1> QED
  BY <1>1, SwapPages

\* The directory a call has built becomes that of a slot that has none.
LEMMA MoveSpace ==
    ASSUME NEW v, NEW w, NEW free, OwnedOnce(Cells, v, free),
           NEW p \in MemProcs, NEW q \in MemProcs,
           \A n \in Places : v[<<q, "slot", n>>] = 0,
           \A n \in Places : w[<<q, "slot", n>>] = v[<<p, "job", n>>] /\ w[<<p, "job", n>>] = 0,
           \A x \in Cells : (\A n \in Places : x # <<q, "slot", n>> /\ x # <<p, "job", n>>)
                              => w[x] = v[x]
    PROVE  OwnedOnce(Cells, w, free)
<1> DEFINE InSlot(x) == x[1] = q /\ x[2] = "slot" /\ x[3] \in Places
           InJob(x) == x[1] = p /\ x[2] = "job" /\ x[3] \in Places
           h == [x \in Cells |-> IF InSlot(x) THEN <<p, "job", x[3]>>
                                 ELSE IF InJob(x) THEN <<q, "slot", x[3]>> ELSE x]
<1>1. \A n \in Places : <<q, "slot", n>> \in Cells /\ <<p, "job", n>> \in Cells
  BY CellKinds
<1>2. ASSUME NEW x \in Cells
      PROVE  h[x] \in Cells /\ h[h[x]] = x /\ w[x] = v[h[x]]
  <2>1. CASE \E n \in Places : x = <<q, "slot", n>>
    <3>1. PICK n \in Places : x = <<q, "slot", n>>
      BY <2>1
    <3>2. h[x] = <<p, "job", n>> /\ h[<<p, "job", n>>] = <<q, "slot", n>>
      BY <1>1, <3>1
    <3> QED
      BY <1>1, <3>1, <3>2
  <2>2. CASE \E n \in Places : x = <<p, "job", n>>
    <3>1. PICK n \in Places : x = <<p, "job", n>>
      BY <2>2
    <3>2. h[x] = <<q, "slot", n>> /\ h[<<q, "slot", n>>] = <<p, "job", n>>
      BY <1>1, <3>1
    <3> QED
      BY <1>1, <3>1, <3>2
  <2>3. CASE \A n \in Places : x # <<q, "slot", n>> /\ x # <<p, "job", n>>
    <3>1. x = <<x[1], x[2], x[3]>>
      BY CellKinds
    <3>2. ~ InSlot(x) /\ ~ InJob(x)
      BY <2>3, <3>1
    <3>3. h[x] = x
      BY <3>2
    <3> QED
      BY <2>3, <3>3
  <2> QED
    BY <2>1, <2>2, <2>3
<1>3. h \in [Cells -> Cells]
  BY <1>2
<1>4. \A x \in Cells : h[h[x]] = x /\ w[x] = v[h[x]]
  BY <1>2
<1> HIDE DEF h
<1> QED
  BY <1>3, <1>4, SwapPages

\* kalloc gives a page of the free list.
LEMMA PageFree ==
    ASSUME OwnedOnce(Cells, CellValues, freelist), freelist # {}
    PROVE  Page \in freelist /\ Page \in Nat /\ Page # 0
<1>1. freelist \subseteq Nat \ {0}
  BY MemAssumption DEF OwnedOnce
<1>2. \E f \in freelist : \A g \in freelist : f <= g
  BY <1>1, LeastNatural
<1> QED
  BY <1>1, <1>2 DEF Page

\* The values of the cells of a process with slot s and call j.
CellsAre(v, p, s, j) ==
    /\ v[<<p, "slot", <<"kstack", 0>>>>] = s.kstack /\ v[<<p, "job", <<"mem", 0>>>>] = j.mem
    /\ \A n \in Places : v[<<p, "slot", n>>] = Entry(s.pgdir, n) /\ v[<<p, "job", n>>] = Entry(j.pgdir, n)
Elsewhere(v, w, p) == \A x \in Cells : x[1] # p => w[x] = v[x]

LEMMA CellsOf ==
    ASSUME NEW p \in MemProcs
    PROVE  CellsAre(CellValues, p, slot[p], job[p]) /\ CellsAre(CellValues', p, slot'[p], job'[p])
<1>1. /\ <<p, "slot", <<"kstack", 0>>>> \in Cells /\ <<p, "job", <<"mem", 0>>>> \in Cells
      /\ \A n \in Places : <<p, "slot", n>> \in Cells /\ <<p, "job", n>> \in Cells
  BY CellKinds
<1>2. CellsAre(CellValues, p, slot[p], job[p])
  <2>1. /\ ValueIn(slot[p], job[p], "slot", <<"kstack", 0>>) = slot[p].kstack
        /\ ValueIn(slot[p], job[p], "job", <<"mem", 0>>) = job[p].mem
        /\ \A n \in Places : /\ ValueIn(slot[p], job[p], "slot", n) = Entry(slot[p].pgdir, n)
                             /\ ValueIn(slot[p], job[p], "job", n) = Entry(job[p].pgdir, n)
    BY ValueOf
  <2>2. \A x \in Cells : CellValues[x] = ValueIn(slot[x[1]], job[x[1]], x[2], x[3])
    BY DEF CellValues
  <2> QED
    BY <1>1, <2>1, <2>2 DEF CellsAre
<1>3. CellsAre(CellValues', p, slot'[p], job'[p])
  <2>1. /\ ValueIn(slot'[p], job'[p], "slot", <<"kstack", 0>>) = slot'[p].kstack
        /\ ValueIn(slot'[p], job'[p], "job", <<"mem", 0>>) = job'[p].mem
        /\ \A n \in Places : /\ ValueIn(slot'[p], job'[p], "slot", n) = Entry(slot'[p].pgdir, n)
                             /\ ValueIn(slot'[p], job'[p], "job", n) = Entry(job'[p].pgdir, n)
    BY ValueOf
  <2>2. \A x \in Cells : CellValues'[x] = ValueIn(slot'[x[1]], job'[x[1]], x[2], x[3])
    BY DEF CellValues
  <2> QED
    BY <1>1, <2>1, <2>2 DEF CellsAre
<1> QED
  BY <1>2, <1>3

LEMMA LocalCells ==
    ASSUME MemTypes, NEW p \in MemProcs, NEW s2, NEW j2,
           slot' = [slot EXCEPT ![p] = s2], job' = [job EXCEPT ![p] = j2]
    PROVE  /\ CellsAre(CellValues, p, slot[p], job[p]) /\ CellsAre(CellValues', p, s2, j2)
           /\ Elsewhere(CellValues, CellValues', p)
<1>1. slot'[p] = s2 /\ job'[p] = j2
  BY DEF MemTypes
<1>2. CellsAre(CellValues, p, slot[p], job[p]) /\ CellsAre(CellValues', p, s2, j2)
  BY <1>1, CellsOf
<1>3. \A x \in Cells : x[1] # p => CellValues'[x] = CellValues[x]
  BY LocalValues
<1> QED
  BY <1>2, <1>3 DEF Elsewhere

\* kalloc for one of the process' own cells: the one of u (slot or job) at m.
CellTaken(s, j, s2, j2, u, m, f) ==
    /\ s2.kstack = s.kstack
    /\ j2.mem = IF u = "job" /\ m = <<"mem", 0>> THEN f ELSE j.mem
    /\ \A n \in Places :
         /\ Entry(s2.pgdir, n) = IF u = "slot" /\ m = n THEN f ELSE Entry(s.pgdir, n)
         /\ Entry(j2.pgdir, n) = IF u = "job" /\ m = n THEN f ELSE Entry(j.pgdir, n)

LEMMA TakeCell ==
    ASSUME NEW v, NEW w, NEW free, OwnedOnce(Cells, v, free), NEW f \in free,
           NEW p \in MemProcs, NEW s, NEW j, NEW s2, NEW j2,
           CellsAre(v, p, s, j), CellsAre(w, p, s2, j2), Elsewhere(v, w, p),
           NEW u, NEW m, <<p, u, m>> \in Cells, v[<<p, u, m>>] = 0, m # <<"kstack", 0>>,
           CellTaken(s, j, s2, j2, u, m, f)
    PROVE  OwnedOnce(Cells, w, free \ {f})
<1> DEFINE c == <<p, u, m>>
<1>1. ASSUME NEW x \in Cells
      PROVE  w[x] = IF x = c THEN f ELSE v[x]
  <2>1. CASE x[1] # p
    BY <2>1 DEF Elsewhere
  <2>2. CASE x = <<p, "slot", <<"kstack", 0>>>>
    BY <2>2 DEF CellsAre, CellTaken
  <2>3. CASE x = <<p, "job", <<"mem", 0>>>>
    BY <2>3 DEF CellsAre, CellTaken
  <2>4. ASSUME NEW n \in Places, x = <<p, "slot", n>>
        PROVE  w[x] = IF x = c THEN f ELSE v[x]
    BY <2>4 DEF CellsAre, CellTaken
  <2>5. ASSUME NEW n \in Places, x = <<p, "job", n>>
        PROVE  w[x] = IF x = c THEN f ELSE v[x]
    BY <2>5 DEF CellsAre, CellTaken
  <2> QED
    BY <2>1, <2>2, <2>3, <2>4, <2>5, CellKinds
<1>2. c \in Cells /\ v[c] = 0 /\ OwnedOnce(Cells, v, free) /\ f \in free
  OBVIOUS
<1> HIDE DEF c
<1> QED
  BY ONLY <1>1, <1>2, TakePage

\* The pages of some places of a slot and the page in hand are freed.
PagesFreed(v, p, A) == ({v[<<p, "job", <<"mem", 0>>>>]} \cup {v[<<p, "slot", n>>] : n \in A}) \ {0}
CellsFreed(v, w, p, A) ==
    /\ \A n \in Places : w[<<p, "slot", n>>] = IF n \in A THEN 0 ELSE v[<<p, "slot", n>>]
    /\ w[<<p, "job", <<"mem", 0>>>>] = 0
    /\ \A x \in Cells : x # <<p, "job", <<"mem", 0>>>> /\ (\A n \in Places : x # <<p, "slot", n>>)
                          => w[x] = v[x]

LEMMA FreeCells ==
    ASSUME NEW v, NEW w, NEW free, OwnedOnce(Cells, v, free),
           NEW p \in MemProcs, NEW A \in SUBSET Places, CellsFreed(v, w, p, A)
    PROVE  OwnedOnce(Cells, w, free \cup PagesFreed(v, p, A))
<1> DEFINE m == <<p, "job", <<"mem", 0>>>>
           S == {x \in Cells : x = m \/ \E n \in A : x = <<p, "slot", n>>}
<1>1. m \in Cells /\ \A n \in Places : <<p, "slot", n>> \in Cells
  BY CellKinds
<1>2. ASSUME NEW x \in Cells
      PROVE  w[x] = IF x \in S THEN 0 ELSE v[x]
  <2>1. CASE x = m
    BY <1>1, <2>1 DEF CellsFreed
  <2>2. ASSUME NEW n \in Places, x = <<p, "slot", n>>
        PROVE  w[x] = IF x \in S THEN 0 ELSE v[x]
    <3>1. x \in S <=> n \in A
      BY <1>1, <2>2
    <3> QED
      BY <2>2, <3>1 DEF CellsFreed
  <2>3. CASE x # m /\ \A n \in Places : x # <<p, "slot", n>>
    <3>1. x \notin S
      BY <2>3
    <3> QED
      BY <2>3, <3>1 DEF CellsFreed
  <2> QED
    BY <2>1, <2>2, <2>3
<1> DEFINE pages == PagesFreed(v, p, A)
<1>3. \A f : f \in pages <=> \E x \in S : v[x] # 0 /\ v[x] = f
  <2> TAKE f
  <2>1. ASSUME f \in pages PROVE \E x \in S : v[x] # 0 /\ v[x] = f
    BY <1>1, <2>1 DEF PagesFreed
  <2>2. ASSUME NEW x \in S, v[x] # 0, v[x] = f PROVE f \in pages
    BY <2>2 DEF PagesFreed
  <2> QED
    BY <2>1, <2>2
<1>4. S \in SUBSET Cells /\ OwnedOnce(Cells, v, free)
  OBVIOUS
<1> HIDE DEF S, m, pages
<1>5. OwnedOnce(Cells, w, free \cup pages)
  BY ONLY <1>2, <1>3, <1>4, FreePages
<1> QED
  BY <1>5 DEF pages

\* A step of fork changes its own call and the slot of the child.
LEMMA FamilyShape ==
    ASSUME Shape, NEW p \in MemProcs, NEW c \in MemProcs,
           slot[p].pgdir.dir # 0, slot[c].pgdir.dir = 0,
           NEW s2 \in SlotType, NEW j2 \in JobType, ProcRight(slot[p], j2), ProcRight(s2, job[c]),
           slot' = [slot EXCEPT ![c] = s2], job' = [job EXCEPT ![p] = j2],
           \A q \in MemProcs \ {p} : job[q].call = "fork" => job[q].child # c,
           \/ j2.call # "fork" /\ j2.child = 0
           \/ /\ j2.call = "fork" /\ j2.child = c
              /\ s2.kstack # 0 /\ s2 = [UnusedSlot EXCEPT !.kstack = s2.kstack]
    PROVE  Shape'
<1>0. p # c
  OBVIOUS
<1>1. MemTypes'
  BY DEF Shape, MemTypes
<1>2. /\ slot'[c] = s2 /\ job'[p] = j2
      /\ \A q \in MemProcs \ {c} : slot'[q] = slot[q]
      /\ \A q \in MemProcs \ {p} : job'[q] = job[q]
  BY DEF Shape, MemTypes
<1>3. \A q \in MemProcs : ProcRight(slot'[q], job'[q])
  BY <1>0, <1>2 DEF Shape
<1>4. ASSUME NEW q \in MemProcs \ {p}
      PROVE  /\ job'[q].call # "fork" => job'[q].child = 0
             /\ job'[q].call = "fork" =>
                  /\ job'[q].child \in MemProcs \ {c} /\ slot'[job'[q].child].kstack # 0
                  /\ slot'[job'[q].child]
                       = [UnusedSlot EXCEPT !.kstack = slot'[job'[q].child].kstack]
  <2>1. job'[q] = job[q]
    BY <1>2
  <2>2. CASE job[q].call # "fork"
    BY <2>1, <2>2 DEF Shape, ChildrenRight
  <2>3. CASE job[q].call = "fork"
    <3>1. job[q].child \in MemProcs \ {c}
      BY <2>3 DEF Shape, ChildrenRight
    <3>2. slot'[job[q].child] = slot[job[q].child]
      BY <1>2, <3>1
    <3> QED
      BY ZenonT(60), <2>1, <2>3, <3>1, <3>2 DEF Shape, ChildrenRight
  <2> QED
    BY <2>2, <2>3
<1>5. /\ job'[p].call # "fork" => job'[p].child = 0
      /\ job'[p].call = "fork" =>
           /\ job'[p].child = c /\ slot'[job'[p].child].kstack # 0
           /\ slot'[job'[p].child]
                = [UnusedSlot EXCEPT !.kstack = slot'[job'[p].child].kstack]
  BY <1>2
<1>6. ASSUME NEW q \in MemProcs, NEW r \in MemProcs,
             job'[q].call = "fork", job'[r].call = "fork", job'[q].child = job'[r].child
      PROVE  q = r
  <2>1. CASE q # p /\ r # p
    BY <1>2, <1>6, <2>1 DEF Shape, ChildrenRight
  <2>2. CASE q = p \/ r = p
    BY <1>4, <1>5, <1>6, <2>2
  <2> QED
    BY <2>1, <2>2
<1>7. ChildrenRight'
  <2>1. \A q \in MemProcs :
          /\ job'[q].call # "fork" => job'[q].child = 0
          /\ job'[q].call = "fork" =>
               /\ job'[q].child \in MemProcs /\ slot'[job'[q].child].kstack # 0
               /\ slot'[job'[q].child]
                    = [UnusedSlot EXCEPT !.kstack = slot'[job'[q].child].kstack]
    BY <1>4, <1>5
  <2> QED
    BY <1>6, <2>1 DEF ChildrenRight
<1> QED
  BY <1>1, <1>3, <1>7 DEF Shape
-----------------------------------------------------------------------------
\* After deallocuvm the pages below newsz are left, if those below a were
\* mapped and oldsz reaches them.
LEMMA ShrunkBelow ==
    ASSUME NEW s \in SpaceType, NEW a \in Nat, NEW oldsz \in Nat, NEW newsz \in Nat,
           PagesBelow(s, a), newsz <= a, a <= PGROUNDUP(oldsz)
    PROVE  PagesBelow(Shrunk(s, oldsz, newsz), newsz)
<1> SUFFICES ASSUME NEW k \in UserPages
             PROVE  Shrunk(s, oldsz, newsz).page[k] # 0 <=> k * PGSIZE < newsz
  BY DEF PagesBelow
<1>1. Shrunk(s, oldsz, newsz).page[k] = IF k \in Within(s, oldsz, newsz) THEN 0 ELSE s.page[k]
  BY ONLY ShrunkOf, s \in SpaceType, oldsz \in Nat, newsz \in Nat, k \in UserPages
<1>2. PICK b \in Nat : b = k * PGSIZE
  BY UserMemory
<1>3. s.page[k] # 0 <=> b < a
  BY <1>2 DEF PagesBelow
<1>4. b < PGROUNDUP(newsz) <=> b < newsz
  BY <1>2, BelowRounded
<1>5. b < PGROUNDUP(oldsz) <=> b < oldsz
  BY <1>2, BelowRounded
<1>6. PGROUNDUP(newsz) \in Nat /\ PGROUNDUP(oldsz) \in Nat
  BY RoundUp
<1>7. k \in Within(s, oldsz, newsz) <=> b < a /\ PGROUNDUP(newsz) <= b /\ b < oldsz
  BY <1>2, <1>3 DEF Within, FirstFreed
<1> QED
  BY <1>1, <1>2, <1>3, <1>4, <1>5, <1>6, <1>7

\* deallocuvm on the process' own directory, with the page in hand freed too.
LEMMA ShrinkCells ==
    ASSUME NEW v, NEW w, NEW free, OwnedOnce(Cells, v, free),
           NEW p \in MemProcs, NEW s, NEW j, NEW s2, NEW j2,
           CellsAre(v, p, s, j), CellsAre(w, p, s2, j2), Elsewhere(v, w, p),
           NEW D \in SpaceType, NEW e \in Nat, NEW o \in Nat, D = s.pgdir,
           s2.kstack = s.kstack, s2.pgdir = Shrunk(D, e, o), j2.mem = 0, j2.pgdir = j.pgdir
    PROVE  OwnedOnce(Cells, w, free \cup (({j.mem} \ {0}) \cup Released(D, e, o)))
<1> DEFINE d == Shrunk(D, e, o)
           W == Within(D, e, o)
           A == {<<"page", k>> : k \in W}
           pages == ({j.mem} \ {0}) \cup Released(D, e, o)
<1>1. /\ \A n \in Places : Entry(d, n) = IF \E k \in W : n = <<"page", k>> THEN 0 ELSE Entry(D, n)
      /\ \A f : f \in Released(D, e, o) <=> \E k \in W : D.page[k] = f /\ f # 0
  <2>1. \A n \in Places : Entry(d, n) = IF \E k \in W : n = <<"page", k>> THEN 0 ELSE Entry(D, n)
    BY ONLY ShrunkOf, D \in SpaceType, e \in Nat, o \in Nat
  <2>2. \A f : f \in Released(D, e, o) <=> \E k \in W : D.page[k] = f /\ f # 0
    BY ONLY ShrunkOf, D \in SpaceType, e \in Nat, o \in Nat
  <2> QED
    BY <2>1, <2>2
<1>2. W \subseteq UserPages
  BY DEF Within
<1> HIDE DEF W, d
<1>3. A \in SUBSET Places
  BY <1>2, CellKinds
<1>4. \A n \in Places : w[<<p, "slot", n>>] = IF n \in A THEN 0 ELSE v[<<p, "slot", n>>]
  <2>1. \A n \in Places : w[<<p, "slot", n>>] = Entry(d, n) /\ v[<<p, "slot", n>>] = Entry(D, n)
    BY DEF CellsAre, d
  <2>2. \A n : n \in A <=> \E k \in W : n = <<"page", k>>
    OBVIOUS
  <2> HIDE DEF A
  <2> QED
    BY ONLY <1>1, <2>1, <2>2
<1>5. w[<<p, "job", <<"mem", 0>>>>] = 0 /\ v[<<p, "job", <<"mem", 0>>>>] = j.mem
  BY DEF CellsAre
<1>6. ASSUME NEW x \in Cells, x # <<p, "job", <<"mem", 0>>>>, \A n \in Places : x # <<p, "slot", n>>
      PROVE  w[x] = v[x]
  <2>1. CASE x = <<p, "slot", <<"kstack", 0>>>>
    BY <2>1 DEF CellsAre
  <2>2. ASSUME NEW n \in Places, x = <<p, "job", n>>
        PROVE  w[x] = v[x]
    BY <2>2 DEF CellsAre
  <2>3. CASE x[1] # p
    BY <2>3 DEF Elsewhere
  <2> QED
    BY <1>6, <2>1, <2>2, <2>3, CellKinds
<1>7. CellsFreed(v, w, p, A)
  <2> HIDE DEF A
  <2> QED
    BY ONLY <1>4, <1>5, <1>6 DEF CellsFreed
<1>8. pages = PagesFreed(v, p, A)
  <2>1. \A k \in W : <<"page", k>> \in Places /\ v[<<p, "slot", <<"page", k>>>>] = D.page[k]
    BY <1>2, CellKinds DEF Entry, CellsAre
  <2>2. \A f : (\E n \in A : v[<<p, "slot", n>>] = f) <=> \E k \in W : D.page[k] = f
    BY ONLY <2>1
  <2>3. \A f : f \in PagesFreed(v, p, A) <=>
               f # 0 /\ (j.mem = f \/ \E n \in A : v[<<p, "slot", n>>] = f)
    BY ONLY <1>5 DEF PagesFreed
  <2> QED
    BY ONLY <1>1, <2>2, <2>3
<1>9. OwnedOnce(Cells, v, free) /\ p \in MemProcs
  OBVIOUS
<1> HIDE DEF A, pages
<1>10. OwnedOnce(Cells, w, free \cup pages)
  BY ONLY <1>3, <1>7, <1>8, <1>9, FreeCells
<1> QED
  BY <1>10 DEF pages

\* sbrk fails: allocuvm frees the pages from the old size on and the one in hand.
LEMMA FailedGrow ==
    ASSUME MemInv, NEW p \in MemProcs, NEW inHand, Fail(p, inHand), job[p].call = "sbrk",
           job[p].a < job[p].end, inHand = {job[p].mem} \ {0}, vmPanic' = vmPanic
    PROVE  MemInv'
<1> DEFINE s == slot[p]
           j == job[p]
<1>1. j \in JobType /\ JobRight(j)
  BY DEF MemInv, Shape, MemTypes, ProcRight
<1>2. j.pc \in {"kalloc", "mappages"} /\ j.pgdir = NoSpace
  BY <1>1 DEF JobRight
<1>3. /\ s \in SlotType /\ ProcRight(s, j)
      /\ s.pgdir.dir # 0 /\ s.faults = FALSE /\ s.kstack # 0 /\ j.child = 0
  BY <1>2, InCall DEF MemInv
<1>4. PICK D \in SpaceType, e \in Nat, o \in Nat, a \in Nat :
        D = s.pgdir /\ e = j.end /\ o = j.oldsz /\ a = j.a
  BY <1>1, <1>3 DEF SlotType, JobType
<1> DEFINE d == Shrunk(D, e, o)
           s2 == [slot[p] EXCEPT !.pgdir = d]
<1>5. /\ slot' = [slot EXCEPT ![p] = s2] /\ job' = [job EXCEPT ![p] = Quiet]
      /\ freelist' = freelist \cup (inHand \cup Released(D, e, o))
  BY <1>4 DEF Fail, Job, Kfree
<1>6. d \in SpaceType
  BY ShrunkOf
<1>7. d.dir # 0
  BY <1>3, <1>4, ShrunkDir
<1>8. PagesBelow(d, s.sz)
  <2>1. PagesBelow(D, a) /\ PGROUNDUP(o) <= a /\ o = s.sz /\ a <= PGROUNDUP(e)
    BY <1>1, <1>2, <1>3, <1>4 DEF ProcRight, SizeRight, JobRight
  <2>2. o <= PGROUNDUP(o) /\ PGROUNDUP(o) \in Nat
    BY RoundUp
  <2>3. o <= a
    BY <2>1, <2>2
  <2>4. PagesBelow(d, o)
    BY <2>1, <2>3, ShrunkBelow
  <2> QED
    BY <2>1, <2>4
<1> HIDE DEF d
<1>9. /\ s2 \in SlotType /\ s2.kstack = s.kstack /\ s2.pgdir = d
       /\ s2.faults = FALSE /\ s2.sz = s.sz
  BY <1>3, <1>6 DEF SlotType
<1> HIDE DEF s2
<1>10. ProcRight(s2, Quiet)
  <2>1. SlotRight(s2, Quiet) /\ JobRight(Quiet)
    BY <1>3, <1>7, <1>9, NothingTypes DEF SlotRight, JobRight
  <2>2. SizeRight(s2, Quiet)
    BY <1>8, <1>9, NothingTypes DEF SizeRight
  <2> QED
    BY <2>1, <2>2 DEF ProcRight
<1>11. Shape'
  BY <1>3, <1>5, <1>9, <1>10, LocalShape, NothingTypes DEF MemInv
<1>12. OwnedOnce(Cells, CellValues', freelist \cup (({j.mem} \ {0}) \cup Released(D, e, o)))
  <2>1. /\ CellsAre(CellValues, p, s, j) /\ CellsAre(CellValues', p, s2, Quiet)
        /\ Elsewhere(CellValues, CellValues', p)
    BY <1>5, LocalCells DEF MemInv, Shape
  <2>2. /\ OwnedOnce(Cells, CellValues, freelist) /\ D = s.pgdir /\ s2.kstack = s.kstack
        /\ s2.pgdir = Shrunk(D, e, o) /\ Quiet.mem = 0 /\ Quiet.pgdir = j.pgdir
    BY <1>2, <1>4, <1>9, NothingTypes DEF MemInv, d
  <2> QED
    BY ONLY <2>1, <2>2, ShrinkCells, p \in MemProcs, D \in SpaceType, e \in Nat, o \in Nat
<1> QED
  BY <1>5, <1>11, <1>12 DEF MemInv, OwnedOnce

\* sbrk that shrinks.  With nothing left the process faults.
LEMMA ShrinkInv ==
    ASSUME MemInv, NEW p \in MemProcs, NEW n \in Increments, Shrink(p, n)
    PROVE  MemInv'
<1> DEFINE s == slot[p]
<1>1. /\ job[p] = Quiet /\ s \in SlotType /\ s.pgdir.dir # 0
      /\ s.faults = FALSE /\ s.kstack # 0 /\ PagesBelow(s.pgdir, s.sz)
  BY Caller DEF Shrink, MemInv
<1>2. PICK D \in SpaceType, sz \in Nat : D = s.pgdir /\ sz = s.sz
  BY <1>1 DEF SlotType
<1>3. PICK to \in Nat : to = SizeAfter(p, n) /\ to <= sz
  <2>1. n \in Int /\ n < 0
    BY MemAssumption DEF Shrink
  <2>2. CASE sz + n >= 0
    BY <1>2, <2>1, <2>2 DEF SizeAfter
  <2>3. CASE ~(sz + n >= 0)
    BY <1>2, <2>1, <2>3 DEF SizeAfter
  <2> QED
    BY <2>2, <2>3
<1> DEFINE d == Shrunk(D, sz, to)
           s2 == [s EXCEPT !.pgdir = d, !.faults = to = 0, !.sz = IF to = 0 THEN sz ELSE to]
<1>4. /\ slot' = [slot EXCEPT ![p] = s2] /\ job' = [job EXCEPT ![p] = Quiet]
      /\ freelist' = freelist \cup Released(D, sz, to) /\ vmPanic' = vmPanic
  <2>1. job' = [job EXCEPT ![p] = Quiet]
    BY <1>1 DEF Shrink, MemInv, Shape, MemTypes
  <2>2. slot' = [slot EXCEPT ![p] =
                   [slot[p] EXCEPT !.pgdir = Shrunk(slot[p].pgdir, slot[p].sz, SizeAfter(p, n)),
                                   !.faults = SizeAfter(p, n) = 0,
                                   !.sz = IF SizeAfter(p, n) = 0 THEN slot[p].sz ELSE SizeAfter(p, n)]]
    BY Zenon DEF Shrink
  <2>3. slot' = [slot EXCEPT ![p] = s2]
    BY ONLY <1>2, <1>3, <2>2, Zenon
  <2>4. freelist' = freelist \cup Released(D, sz, to) /\ vmPanic' = vmPanic
    BY <1>2, <1>3 DEF Shrink, Kfree
  <2> QED
    BY <2>1, <2>3, <2>4
<1>5. d \in SpaceType
  BY ShrunkOf
<1>6. d.dir # 0
  BY <1>1, <1>2, ShrunkDir
<1>7. PagesBelow(d, to)
  <2>1. sz <= PGROUNDUP(sz)
    BY RoundUp
  <2> QED
    BY <1>1, <1>2, <1>3, <2>1, ShrunkBelow
<1> HIDE DEF d
<1>8. /\ s2 \in SlotType /\ s2.kstack = s.kstack /\ s2.pgdir = d
      /\ s2.faults = FALSE => s2.sz = to
  <2>1. CASE to = 0
    BY <1>1, <1>5, <2>1 DEF SlotType
  <2>2. CASE to # 0
    BY <1>1, <1>5, <2>2 DEF SlotType
  <2> QED
    BY <2>1, <2>2
<1> HIDE DEF s2
<1>9. ProcRight(s2, Quiet)
  <2>1. SlotRight(s2, Quiet) /\ JobRight(Quiet)
    BY <1>1, <1>6, <1>8, NothingTypes DEF SlotRight, JobRight
  <2>2. SizeRight(s2, Quiet)
    BY <1>7, <1>8, NothingTypes DEF SizeRight
  <2> QED
    BY <2>1, <2>2 DEF ProcRight
<1>10. Shape'
  BY <1>1, <1>4, <1>8, <1>9, LocalShape, NothingTypes DEF MemInv
<1>11. OwnedOnce(Cells, CellValues', freelist \cup (({Quiet.mem} \ {0}) \cup Released(D, sz, to)))
  <2>1. /\ CellsAre(CellValues, p, s, Quiet) /\ CellsAre(CellValues', p, s2, Quiet)
        /\ Elsewhere(CellValues, CellValues', p)
    BY <1>1, <1>4, LocalCells DEF MemInv, Shape
  <2>2. /\ OwnedOnce(Cells, CellValues, freelist) /\ D = s.pgdir /\ s2.kstack = s.kstack
        /\ s2.pgdir = Shrunk(D, sz, to) /\ Quiet.mem = 0 /\ Quiet.pgdir = Quiet.pgdir
    BY <1>2, <1>8, NothingTypes DEF MemInv, d
  <2> QED
    BY ONLY <2>1, <2>2, ShrinkCells, p \in MemProcs, D \in SpaceType, sz \in Nat, to \in Nat
<1>12. ({Quiet.mem} \ {0}) \cup Released(D, sz, to) = Released(D, sz, to)
  BY NothingTypes
<1> QED
  BY <1>4, <1>10, <1>11, <1>12 DEF MemInv, OwnedOnce
-----------------------------------------------------------------------------
\* A call's directory and the page in hand are freed ...
LEMMA FreeCall ==
    ASSUME NEW v, NEW w, NEW free, OwnedOnce(Cells, v, free),
           NEW p \in MemProcs, NEW s, NEW j, CellsAre(v, p, s, j),
           NEW D \in SpaceType, D = j.pgdir,
           \A x \in Cells : w[x] = IF x[1] = p /\ x[2] = "job" THEN 0 ELSE v[x]
    PROVE  OwnedOnce(Cells, w, free \cup (({j.mem} \ {0}) \cup PagesOf(D)))
<1> DEFINE S == {x \in Cells : x[1] = p /\ x[2] = "job"}
           pages == ({j.mem} \ {0}) \cup PagesOf(D)
<1>1. \A f : f \in PagesOf(D) <=> \E n \in Places : Entry(D, n) = f /\ f # 0
  BY ONLY PagesOfSpace, D \in SpaceType
<1>2. /\ <<p, "job", <<"mem", 0>>>> \in S /\ \A n \in Places : <<p, "job", n>> \in S
      /\ \A x \in S : x = <<p, "job", <<"mem", 0>>>> \/ \E n \in Places : x = <<p, "job", n>>
  <2>1. <<p, "job", <<"mem", 0>>>> \in S /\ \A n \in Places : <<p, "job", n>> \in S
    BY ONLY CellKinds, p \in MemProcs
  <2>2. \A x \in S : x = <<p, "job", <<"mem", 0>>>> \/ \E n \in Places : x = <<p, "job", n>>
    BY ONLY CellKinds, p \in MemProcs
  <2> QED
    BY ONLY <2>1, <2>2
<1>3. /\ v[<<p, "job", <<"mem", 0>>>>] = j.mem
      /\ \A n \in Places : v[<<p, "job", n>>] = Entry(D, n)
  BY DEF CellsAre
<1>4. \A x \in Cells : w[x] = IF x \in S THEN 0 ELSE v[x]
  OBVIOUS
<1>5. S \in SUBSET Cells /\ OwnedOnce(Cells, v, free)
  OBVIOUS
<1>6. ASSUME NEW f
      PROVE  f \in pages <=> \E x \in S : v[x] # 0 /\ v[x] = f
  <2> HIDE DEF S
  <2>1. CASE f = 0
    BY ONLY <1>1, <2>1
  <2>2. CASE f # 0
    <3>1. f \in pages <=> f = j.mem \/ \E n \in Places : Entry(D, n) = f
      BY ONLY <1>1, <2>2
    <3>2. (\E x \in S : v[x] # 0 /\ v[x] = f) <=> f = j.mem \/ \E n \in Places : Entry(D, n) = f
      BY ONLY <1>2, <1>3, <2>2
    <3> QED
      BY ONLY <3>1, <3>2
  <2> QED
    BY <2>1, <2>2
<1> HIDE DEF S, pages
<1>7. OwnedOnce(Cells, w, free \cup pages)
  BY ONLY ZenonT(60), <1>4, <1>5, <1>6, FreePages
<1> QED
  BY <1>7 DEF pages

\* ... and so is a kernel stack.
LEMMA FreeCell ==
    ASSUME NEW v, NEW w, NEW free, OwnedOnce(Cells, v, free),
           NEW c \in Cells, v[c] # 0, \A x \in Cells : w[x] = IF x = c THEN 0 ELSE v[x]
    PROVE  OwnedOnce(Cells, w, free \cup {v[c]})
<1> DEFINE S == {c}
           pages == {v[c]}
<1>1. /\ S \in SUBSET Cells /\ \A x \in Cells : w[x] = IF x \in S THEN 0 ELSE v[x]
      /\ OwnedOnce(Cells, v, free) /\ \A f : f \in pages <=> \E x \in S : v[x] # 0 /\ v[x] = f
  OBVIOUS
<1> HIDE DEF S, pages
<1>2. OwnedOnce(Cells, w, free \cup pages)
  BY ONLY <1>1, FreePages
<1> QED
  BY <1>2 DEF pages

\* The cells of a process that a step leaves alone.
LEMMA SameCells ==
    ASSUME NEW q \in MemProcs, slot'[q] = slot[q], job'[q] = job[q]
    PROVE  \A x \in Cells : x[1] = q => CellValues'[x] = CellValues[x]
<1>1. \A x \in Cells : /\ CellValues'[x] = ValueIn(slot'[x[1]], job'[x[1]], x[2], x[3])
                       /\ CellValues[x] = ValueIn(slot[x[1]], job[x[1]], x[2], x[3])
  BY DEF CellValues
<1> QED
  BY <1>1

\* The end of a call that leaves the process as it was.
LEMMA BackToUser ==
    ASSUME Shape, NEW p \in MemProcs, job[p].pc # "user", job[p].call # "sbrk"
    PROVE  ProcRight(slot[p], Quiet)
<1> DEFINE s == slot[p]
           j == job[p]
<1>1. ProcRight(s, j) /\ s.pgdir.dir # 0 /\ s.faults = FALSE /\ s.kstack # 0
  BY InCall
<1>2. PagesBelow(s.pgdir, s.sz)
  BY <1>1 DEF ProcRight, SizeRight
<1>3. SlotRight(s, Quiet) /\ JobRight(Quiet)
  BY <1>1, NothingTypes DEF SlotRight, JobRight
<1>4. SizeRight(s, Quiet)
  BY <1>2, NothingTypes DEF SizeRight
<1> QED
  BY <1>3, <1>4 DEF ProcRight

\* exec fails, or fork: the directory it has built is freed, and the child's
\* stack and slot are free again.
LEMMA FailedBuild ==
    ASSUME MemInv, NEW p \in MemProcs, NEW inHand, Fail(p, inHand), job[p].pc # "user",
           job[p].call # "sbrk", inHand = {job[p].mem} \ {0}, vmPanic' = vmPanic
    PROVE  MemInv'
<1> DEFINE s == slot[p]
           j == job[p]
           c == job[p].child
<1>1. /\ s \in SlotType /\ j \in JobType /\ ProcRight(s, j)
      /\ s.pgdir.dir # 0 /\ s.faults = FALSE /\ s.kstack # 0
      /\ j.call # "none" /\ (j.call # "fork" => c = 0)
  BY InCall DEF MemInv
<1>2. PICK D \in SpaceType : D = j.pgdir
  BY <1>1 DEF JobType
<1>3. /\ job' = [job EXCEPT ![p] = Quiet]
      /\ slot' = [q \in MemProcs |-> IF q = c THEN UnusedSlot ELSE slot[q]]
      /\ freelist' = freelist \cup (inHand \cup PagesOf(D) \cup {slot[q].kstack : q \in MemProcs \cap {c}})
  BY <1>2 DEF Fail, Job, Kfree
<1>4. ProcRight(s, Quiet)
  BY BackToUser DEF MemInv
<1>5. CellsAre(CellValues, p, s, j) /\ OwnedOnce(Cells, CellValues, freelist)
  BY CellsOf DEF MemInv
<1>6. job'[p] = Quiet /\ \A q \in MemProcs \ {p} : job'[q] = job[q]
  BY <1>3 DEF MemInv, Shape, MemTypes
<1> DEFINE V == [x \in Cells |-> IF x[1] = p /\ x[2] = "job" THEN 0 ELSE CellValues[x]]
           pages == ({j.mem} \ {0}) \cup PagesOf(D)
<1>7. OwnedOnce(Cells, V, freelist \cup pages)
  <2>1. \A x \in Cells : V[x] = IF x[1] = p /\ x[2] = "job" THEN 0 ELSE CellValues[x]
    OBVIOUS
  <2> HIDE DEF V
  <2> QED
    BY ONLY <1>2, <1>5, <2>1, FreeCall, p \in MemProcs, D \in SpaceType
<1>8. \A x \in Cells : x[1] = p /\ slot'[p] = s => CellValues'[x] = V[x]
  <2> SUFFICES ASSUME NEW x \in Cells, x[1] = p, slot'[p] = s PROVE CellValues'[x] = V[x]
    OBVIOUS
  <2>1. CellsAre(CellValues', p, s, Quiet)
    BY <1>6, CellsOf
  <2>2. V[x] = IF x[2] = "job" THEN 0 ELSE CellValues[x]
    OBVIOUS
  <2> HIDE DEF V
  <2>3. CASE x = <<p, "slot", <<"kstack", 0>>>>
    BY <1>5, <2>1, <2>2, <2>3 DEF CellsAre
  <2>4. CASE x = <<p, "job", <<"mem", 0>>>>
    <3>1. CellValues'[<<p, "job", <<"mem", 0>>>>] = 0
      BY <2>1, NothingTypes DEF CellsAre
    <3> QED
      BY ONLY <2>2, <2>4, <3>1
  <2>5. ASSUME NEW n \in Places, x = <<p, "slot", n>>
        PROVE  CellValues'[x] = V[x]
    <3>1. CellValues'[<<p, "slot", n>>] = CellValues[<<p, "slot", n>>]
      BY <1>5, <2>1 DEF CellsAre
    <3> QED
      BY ONLY <2>2, <2>5, <3>1
  <2>6. ASSUME NEW n \in Places, x = <<p, "job", n>>
        PROVE  CellValues'[x] = V[x]
    <3>1. Entry(NoSpace, n) = 0
      BY EntryOf, NoSpaceType
    <3>2. CellValues'[<<p, "job", n>>] = 0
      BY <2>1, <3>1, NothingTypes DEF CellsAre
    <3> QED
      BY ONLY <2>2, <2>6, <3>2
  <2> QED
    BY <2>3, <2>4, <2>5, <2>6, CellKinds
<1>9. CASE j.call # "fork"
  <2>1. c = 0 /\ 0 \notin MemProcs
    BY <1>1, <1>9, MemAssumption
  <2>2. slot' = [slot EXCEPT ![p] = s] /\ slot'[p] = s /\ \A q \in MemProcs : slot'[q] = slot[q]
    BY <1>3, <2>1 DEF MemInv, Shape, MemTypes
  <2>3. Shape'
    BY <1>1, <1>3, <1>4, <1>9, <2>1, <2>2, LocalShape, NothingTypes DEF MemInv
  <2>4. \A x \in Cells : CellValues'[x] = V[x]
    <3>1. ASSUME NEW x \in Cells, x[1] # p PROVE CellValues'[x] = V[x]
      <4>1. x[1] \in MemProcs
        BY CellKinds
      <4>2. CellValues'[x] = CellValues[x]
        BY <1>6, <2>2, <3>1, <4>1, SameCells
      <4>3. V[x] = CellValues[x]
        BY <3>1
      <4> QED
        BY <4>2, <4>3
    <3> HIDE DEF V
    <3> QED
      BY <1>8, <2>2, <3>1
  <2>5. freelist' = freelist \cup pages
    BY <1>3, <2>1
  <2>6. OwnedOnce(Cells, CellValues', freelist \cup pages)
    <3> HIDE DEF V, pages
    <3> QED
      BY ONLY <1>7, <2>4 DEF OwnedOnce
  <2> QED
    BY <2>3, <2>5, <2>6 DEF MemInv, OwnedOnce
<1>10. CASE j.call = "fork"
  <2> DEFINE k == <<c, "slot", <<"kstack", 0>>>>
  <2>1. /\ c \in MemProcs /\ slot[c].kstack # 0
        /\ slot[c].pgdir = NoSpace /\ slot[c].pgdir.dir = 0
    BY <1>10, ChildSlot DEF MemInv, Shape
  <2>2. c # p
    BY <1>1, <2>1
  <2>3. job[c] = Quiet
    <3>1. ProcRight(slot[c], job[c])
      BY <2>1 DEF MemInv, Shape
    <3> QED
      BY <2>1, <3>1 DEF ProcRight, SlotRight
  <2>4. slot' = [slot EXCEPT ![c] = UnusedSlot] /\ slot'[p] = s /\ slot'[c] = UnusedSlot
        /\ \A q \in MemProcs \ {c} : slot'[q] = slot[q]
    BY <1>3, <2>1, <2>2 DEF MemInv, Shape, MemTypes
  <2>5. Shape'
    <3>1. ProcRight(UnusedSlot, Quiet)
      BY NothingTypes DEF ProcRight, SlotRight, JobRight, SizeRight
    <3>2. \A q \in MemProcs \ {p} : job[q].call = "fork" => job[q].child # c
      BY <1>10 DEF MemInv, Shape, ChildrenRight
    <3> QED
      BY <1>1, <1>3, <1>4, <2>1, <2>3, <2>4, <3>1, <3>2, FamilyShape, NothingTypes DEF MemInv
  <2>6. k \in Cells /\ CellValues[k] = slot[c].kstack /\ V[k] = slot[c].kstack
    <3>1. k \in Cells
      BY <2>1, CellKinds
    <3>2. CellValues[k] = slot[c].kstack
      BY <2>1, CellsOf DEF CellsAre
    <3> QED
      BY <2>2, <3>1, <3>2
  <2>7. ASSUME NEW x \in Cells
        PROVE  CellValues'[x] = IF x = k THEN 0 ELSE V[x]
    <3>1. CASE x[1] = p
      <4> HIDE DEF V
      <4> QED
        BY <1>8, <2>2, <2>4, <3>1
    <3>2. CASE x[1] = c
      <4>1. CellsAre(CellValues', c, UnusedSlot, Quiet) /\ CellsAre(CellValues, c, slot[c], Quiet)
        BY <1>6, <2>1, <2>2, <2>3, <2>4, CellsOf
      <4>2. V[x] = CellValues[x]
        BY <2>2, <3>2
      <4>3. CASE x = k
        BY <4>1, <4>3, NothingTypes DEF CellsAre
      <4>4. CASE x # k
        <5>1. /\ \A n \in Places : CellValues'[<<c, "slot", n>>] = CellValues[<<c, "slot", n>>]
              /\ \A n \in Places : CellValues'[<<c, "job", n>>] = CellValues[<<c, "job", n>>]
              /\ CellValues'[<<c, "job", <<"mem", 0>>>>] = CellValues[<<c, "job", <<"mem", 0>>>>]
          BY <2>1, <4>1, NothingTypes DEF CellsAre
        <5>2. \/ x = <<c, "job", <<"mem", 0>>>>
              \/ \E n \in Places : x = <<c, "slot", n>> \/ x = <<c, "job", n>>
          BY <3>2, <4>4, CellKinds
        <5>3. CellValues'[x] = CellValues[x]
          BY ONLY <5>1, <5>2
        <5> QED
          BY ONLY <4>2, <4>4, <5>3
      <4> QED
        BY <4>3, <4>4
    <3>3. CASE x[1] # p /\ x[1] # c
      <4>1. x[1] \in MemProcs
        BY CellKinds
      <4>2. CellValues'[x] = CellValues[x]
        BY <1>6, <2>4, <3>3, <4>1, SameCells
      <4> QED
        BY <3>3, <4>2
    <3> QED
      BY <3>1, <3>2, <3>3
  <2>8. OwnedOnce(Cells, CellValues', (freelist \cup pages) \cup {V[k]})
    <3>1. V[k] # 0 /\ k \in Cells
      BY <2>1, <2>6
    <3> HIDE DEF V, k, pages
    <3> QED
      BY ONLY <1>7, <2>7, <3>1, FreeCell
  <2>9. freelist' = (freelist \cup pages) \cup {V[k]}
    <3>1. {slot[q].kstack : q \in MemProcs \cap {c}} = {slot[c].kstack}
      BY <2>1
    <3> HIDE DEF V, k
    <3> QED
      BY <1>3, <2>6, <3>1
  <2> QED
    BY <2>5, <2>8, <2>9 DEF MemInv, OwnedOnce
<1> QED
  BY <1>9, <1>10
-----------------------------------------------------------------------------
\* kalloc for a place of the directory a call builds.
LEMMA TakeForBuild ==
    ASSUME MemTypes, OwnedOnce(Cells, CellValues, freelist), NEW p \in MemProcs,
           NEW D, D = job[p].pgdir, NEW j2, j2.mem = job[p].mem, NEW m \in Places, Entry(D, m) = 0,
           NEW f \in freelist, EntryTaken(D, j2.pgdir, m, f),
           slot' = [slot EXCEPT ![p] = slot[p]], job' = [job EXCEPT ![p] = j2]
    PROVE  OwnedOnce(Cells, CellValues', freelist \ {f})
<1> DEFINE s == slot[p]
           j == job[p]
<1>1. /\ CellsAre(CellValues, p, s, j) /\ CellsAre(CellValues', p, s, j2)
      /\ Elsewhere(CellValues, CellValues', p)
  <2>1. MemTypes /\ slot' = [slot EXCEPT ![p] = s] /\ job' = [job EXCEPT ![p] = j2]
    OBVIOUS
  <2> QED
    BY ONLY <2>1, LocalCells, p \in MemProcs
<1>2. <<p, "job", m>> \in Cells /\ m # <<"kstack", 0>> /\ m # <<"mem", 0>>
  BY CellKinds
<1>3. CellValues[<<p, "job", m>>] = 0
  BY <1>1 DEF CellsAre
<1>4. CellTaken(s, j, s, j2, "job", m, f)
  BY <1>2 DEF CellTaken, EntryTaken
<1>5. OwnedOnce(Cells, CellValues, freelist) /\ f \in freelist
  OBVIOUS
<1> QED
  BY ONLY <1>1, <1>2, <1>3, <1>4, <1>5, TakeCell, p \in MemProcs

\* setupkvm: the directory and the kernel's page tables.
LEMMA SetupkvmInv ==
    ASSUME MemInv, NEW p \in MemProcs, Setupkvm(p)
    PROVE  MemInv'
<1> DEFINE s == slot[p]
           j == job[p]
<1>1. j.pc = "setupkvm" /\ vmPanic' = vmPanic
  BY DEF Setupkvm, Does
<1>2. /\ s \in SlotType /\ j \in JobType /\ ProcRight(s, j)
      /\ s.pgdir.dir # 0 /\ s.faults = FALSE /\ s.kstack # 0
      /\ j.call # "none" /\ (j.call # "fork" => j.child = 0)
  BY <1>1, InCall DEF MemInv
<1>3. /\ j.mem = 0 /\ j.call \in {"fork", "exec"} /\ j.a = 0
      /\ j.pgdir = [NoSpace EXCEPT !.dir = j.pgdir.dir]
      /\ PagesBelow(j.pgdir, 0) /\ PagesBelow(s.pgdir, s.sz) /\ (j.call = "fork" => j.end = s.sz)
  BY <1>1, <1>2 DEF ProcRight, JobRight, SizeRight
<1>4. CASE freelist = {} /\ Fail(p, {})
  <2>1. {} = {j.mem} \ {0} /\ j.call # "sbrk" /\ j.pc # "user"
    BY <1>1, <1>3
  <2> QED
    BY <1>1, <1>4, <2>1, FailedBuild
<1>5. CASE Kalloc /\ UNCHANGED slot
  <2>1. PICK f \in freelist : f = Page /\ f \in Nat /\ f # 0 /\ freelist' = freelist \ {f}
    BY <1>5, PageFree DEF Kalloc, MemInv
  <2>2. PICK D \in SpaceType : D = j.pgdir
    BY <1>2 DEF JobType
  <2>3. /\ \A k \in UserPages : D.page[k] = 0
        /\ D.kern = 0 /\ Entry(D, <<"kern", 0>>) = 0 /\ Entry(D, <<"dir", 0>>) = D.dir
    BY <1>3, <2>2 DEF NoSpace, Entry
  <2>4. slot' = [slot EXCEPT ![p] = s]
    BY <1>5 DEF MemInv, Shape, MemTypes
  <2>5. <<"dir", 0>> \in Places /\ <<"kern", 0>> \in Places
    BY CellKinds
  <2>6. PagesBelow(D, 0)
    BY <1>3, <2>2
  <2>7. CASE D.dir = 0
    <3> DEFINE E == [D EXCEPT !.dir = f]
               j2 == [j EXCEPT !.pgdir = E]
    <3>1. job' = [job EXCEPT ![p] = j2]
      BY <1>4, <1>5, <2>1, <2>2, <2>7 DEF Setupkvm, Job, Kalloc
    <3>2. E \in SpaceType /\ EntryTaken(D, E, <<"dir", 0>>, f)
      BY <2>1, SetEntry
    <3>3. E = [NoSpace EXCEPT !.dir = E.dir] /\ E.page = D.page
      BY <1>3, <2>2 DEF NoSpace, SpaceType
    <3>4. PagesBelow(E, 0)
      BY <2>6, <3>3 DEF PagesBelow
    <3> HIDE DEF E
    <3>5. /\ j2 \in JobType /\ j2.pgdir = E /\ j2.mem = 0 /\ j2.pc = "setupkvm"
          /\ j2.call = j.call /\ j2.child = j.child /\ j2.a = 0 /\ j2.end = j.end
      BY <1>1, <1>2, <1>3, <3>2 DEF JobType
    <3> HIDE DEF j2
    <3>6. ProcRight(s, j2)
      <4>1. SlotRight(s, j2) /\ JobRight(j2)
        BY <1>2, <1>3, <3>3, <3>5 DEF SlotRight, JobRight
      <4>2. SizeRight(s, j2)
        BY <1>3, <3>4, <3>5 DEF SizeRight
      <4> QED
        BY <4>1, <4>2 DEF ProcRight
    <3>7. Shape'
      BY <1>2, <2>4, <3>1, <3>5, <3>6, LocalShape DEF MemInv
    <3>8. OwnedOnce(Cells, CellValues', freelist \ {f})
      <4>1. MemTypes /\ OwnedOnce(Cells, CellValues, freelist) /\ j2.mem = j.mem
            /\ Entry(D, <<"dir", 0>>) = 0
            /\ EntryTaken(D, j2.pgdir, <<"dir", 0>>, f)
        BY <1>3, <2>3, <2>7, <3>2, <3>5 DEF MemInv, Shape
      <4> QED
        BY ONLY <2>2, <2>4, <2>5, <3>1, <4>1, TakeForBuild, p \in MemProcs, f \in freelist
    <3> QED
      BY <1>1, <2>1, <3>7, <3>8 DEF MemInv, OwnedOnce
  <2>8. CASE D.dir # 0
    <3> DEFINE E == [D EXCEPT !.kern = f]
               pc == IF j.end = 0 \/ j.end >= KERNBASE THEN "bad" ELSE "kalloc"
               j2 == [j EXCEPT !.pgdir = E, !.pc = pc]
    <3>1. job' = [job EXCEPT ![p] = j2]
      BY <1>4, <1>5, <2>1, <2>2, <2>8 DEF Setupkvm, Job, Kalloc
    <3>2. E \in SpaceType /\ EntryTaken(D, E, <<"kern", 0>>, f)
      BY <2>1, SetEntry
    <3>3. E.page = D.page
      BY DEF SpaceType
    <3>4. PagesBelow(E, 0)
      BY <2>6, <3>3 DEF PagesBelow
    <3>5. pc \in {"bad", "kalloc"} /\ (pc = "kalloc" => j.end < KERNBASE) /\ j.end \in Nat
      BY <1>2, MemAssumption DEF JobType
    <3> HIDE DEF E, pc
    <3>6. /\ j2 \in JobType /\ j2.pgdir = E /\ j2.mem = 0 /\ j2.pc = pc
          /\ j2.call = j.call /\ j2.child = j.child /\ j2.a = 0 /\ j2.end = j.end
      BY <1>2, <1>3, <3>2, <3>5 DEF JobType
    <3> HIDE DEF j2
    <3>7. ProcRight(s, j2)
      <4>1. 0 % PGSIZE = 0 /\ 0 <= PGROUNDUP(j.end)
        <5>1. PGSIZE \in Nat \ {0}
          BY MemAssumption
        <5>2. PICK e \in Nat : e = j.end
          BY <3>5
        <5>3. PGROUNDUP(e) \in Nat
          BY ONLY RoundUp, e \in Nat
        <5> QED
          BY ONLY <5>1, <5>2, <5>3
      <4>2. SlotRight(s, j2) /\ JobRight(j2)
        BY <1>2, <1>3, <3>5, <3>6, <4>1 DEF SlotRight, JobRight
      <4>3. SizeRight(s, j2)
        BY <1>3, <3>4, <3>6 DEF SizeRight
      <4> QED
        BY <4>2, <4>3 DEF ProcRight
    <3>8. Shape'
      BY <1>2, <2>4, <3>1, <3>6, <3>7, LocalShape DEF MemInv
    <3>9. OwnedOnce(Cells, CellValues', freelist \ {f})
      <4>1. MemTypes /\ OwnedOnce(Cells, CellValues, freelist) /\ j2.mem = j.mem
            /\ Entry(D, <<"kern", 0>>) = 0
            /\ EntryTaken(D, j2.pgdir, <<"kern", 0>>, f)
        BY <1>3, <2>3, <3>2, <3>6 DEF MemInv, Shape
      <4> QED
        BY ONLY <2>2, <2>4, <2>5, <3>1, <4>1, TakeForBuild, p \in MemProcs, f \in freelist
    <3> QED
      BY <1>1, <2>1, <3>8, <3>9 DEF MemInv, OwnedOnce
  <2> QED
    BY <2>7, <2>8
<1> QED
  BY <1>4, <1>5 DEF Setupkvm

\* The loop variable below end: its page is one of user memory.
LEMMA LoopPage ==
    ASSUME Shape, NEW p \in MemProcs, job[p].pc \in {"kalloc", "mappages"}, job[p].a < job[p].end
    PROVE  /\ job[p].a \in Nat /\ job[p].end \in Nat /\ job[p].a % PGSIZE = 0
           /\ job[p].a \div PGSIZE \in UserPages /\ (job[p].a \div PGSIZE) * PGSIZE = job[p].a
<1>1. job[p] \in JobType /\ JobRight(job[p])
  BY DEF Shape, MemTypes, ProcRight
<1>2. PICK a \in Nat, e \in Nat : a = job[p].a /\ e = job[p].end /\ a % PGSIZE = 0 /\ e < KERNBASE
  BY <1>1 DEF JobType, JobRight
<1>3. a < KERNBASE
  BY <1>2, MemAssumption
<1>4. a \div PGSIZE \in UserPages /\ (a \div PGSIZE) * PGSIZE = a
  BY <1>2, <1>3, UserMemory
<1> QED
  BY <1>2, <1>4

\* A call in a loop that fails.
LEMMA FailInv ==
    ASSUME MemInv, NEW p \in MemProcs, NEW inHand, Fail(p, inHand), job[p].pc # "user",
           job[p].call = "sbrk" => job[p].a < job[p].end,
           inHand = {job[p].mem} \ {0}, vmPanic' = vmPanic
    PROVE  MemInv'
  BY FailedGrow, FailedBuild

\* kalloc in a loop: copyuvm finds the parent's page present.
LEMMA AllocPageInv ==
    ASSUME MemInv, NEW p \in MemProcs, AllocPage(p)
    PROVE  MemInv'
<1> DEFINE s == slot[p]
           j == job[p]
<1>1. j.pc = "kalloc" /\ j.a < j.end
  BY DEF AllocPage, Does
<1>2. /\ s \in SlotType /\ j \in JobType /\ ProcRight(s, j)
      /\ s.pgdir.dir # 0 /\ s.faults = FALSE /\ s.kstack # 0
      /\ j.call # "none" /\ (j.call # "fork" => j.child = 0)
  BY <1>1, InCall DEF MemInv
<1>3. PICK k \in UserPages : k = j.a \div PGSIZE /\ k * PGSIZE = j.a
  BY <1>1, LoopPage DEF MemInv
<1>4. ~ (j.call = "fork" /\ s.pgdir.page[k] = 0)
  <2>1. j.call = "fork" => PagesBelow(s.pgdir, j.end)
    BY <1>2 DEF ProcRight, SizeRight
  <2> QED
    BY <1>1, <1>3, <2>1 DEF PagesBelow
<1>5. j.mem = 0
  BY <1>1, <1>2 DEF ProcRight, JobRight
<1>6. /\ vmPanic' = vmPanic
      /\ \/ freelist = {} /\ Fail(p, {})
         \/ Kalloc /\ Job(p, [j EXCEPT !.pc = "mappages", !.mem = Page]) /\ UNCHANGED slot
  BY <1>3, <1>4 DEF AllocPage
<1>7. CASE Fail(p, {})
  <2>1. {} = {j.mem} \ {0}
    BY <1>5
  <2> QED
    BY <1>1, <1>6, <1>7, <2>1, FailInv
<1>8. CASE Kalloc /\ Job(p, [j EXCEPT !.pc = "mappages", !.mem = Page]) /\ UNCHANGED slot
  <2>1. PICK f \in freelist : f = Page /\ f \in Nat /\ f # 0 /\ freelist' = freelist \ {f}
    BY <1>8, PageFree DEF Kalloc, MemInv
  <2> DEFINE j2 == [j EXCEPT !.pc = "mappages", !.mem = f]
  <2>2. slot' = [slot EXCEPT ![p] = s] /\ job' = [job EXCEPT ![p] = j2]
    BY <1>8, <2>1 DEF Job, MemInv, Shape, MemTypes
  <2>3. /\ j2 \in JobType /\ j2.pc = "mappages" /\ j2.mem = f /\ j2.call = j.call
        /\ j2.child = j.child /\ j2.pgdir = j.pgdir /\ j2.oldsz = j.oldsz /\ j2.a = j.a
        /\ j2.end = j.end
    BY <1>2, <2>1 DEF JobType
  <2> HIDE DEF j2
  <2>4. ProcRight(s, j2)
    <3>1. SlotRight(s, j2)
      BY <1>2, <2>3 DEF SlotRight
    <3>2. JobRight(j2)
      BY <1>1, <1>2, <2>1, <2>3 DEF ProcRight, JobRight
    <3>3. SizeRight(s, j2)
      BY <1>2, <2>3 DEF ProcRight, SizeRight
    <3> QED
      BY <3>1, <3>2, <3>3 DEF ProcRight
  <2>5. Shape'
    BY <1>2, <2>2, <2>3, <2>4, LocalShape DEF MemInv
  <2>6. OwnedOnce(Cells, CellValues', freelist \ {f})
    <3>1. /\ CellsAre(CellValues, p, s, j) /\ CellsAre(CellValues', p, s, j2)
          /\ Elsewhere(CellValues, CellValues', p)
      BY <2>2, LocalCells DEF MemInv, Shape
    <3>2. <<p, "job", <<"mem", 0>>>> \in Cells /\ <<"mem", 0>> # <<"kstack", 0>>
          /\ \A n \in Places : n # <<"mem", 0>>
      BY CellKinds
    <3>3. CellValues[<<p, "job", <<"mem", 0>>>>] = 0
      BY <1>5, <3>1 DEF CellsAre
    <3>4. CellTaken(s, j, s, j2, "job", <<"mem", 0>>, f)
      BY <2>3, <3>2 DEF CellTaken
    <3>5. OwnedOnce(Cells, CellValues, freelist) /\ f \in freelist
      BY DEF MemInv
    <3> QED
      BY ONLY <3>1, <3>2, <3>3, <3>4, <3>5, TakeCell, p \in MemProcs
  <2> QED
    BY <1>6, <2>1, <2>5, <2>6 DEF MemInv, OwnedOnce
<1> QED
  BY <1>6, <1>7, <1>8
-----------------------------------------------------------------------------
\* The page in hand is mapped: it comes into the cell of u at m.
CellMoved(s, j, s2, j2, u, m) ==
    /\ s2.kstack = s.kstack /\ j2.mem = 0
    /\ \A n \in Places :
         /\ Entry(s2.pgdir, n) = IF u = "slot" /\ m = n THEN j.mem ELSE Entry(s.pgdir, n)
         /\ Entry(j2.pgdir, n) = IF u = "job" /\ m = n THEN j.mem ELSE Entry(j.pgdir, n)

LEMMA MoveCell ==
    ASSUME NEW v, NEW w, NEW free, OwnedOnce(Cells, v, free),
           NEW p \in MemProcs, NEW s, NEW j, NEW s2, NEW j2,
           CellsAre(v, p, s, j), CellsAre(w, p, s2, j2), Elsewhere(v, w, p),
           NEW u \in {"slot", "job"}, NEW m \in Places, v[<<p, u, m>>] = 0,
           CellMoved(s, j, s2, j2, u, m)
    PROVE  OwnedOnce(Cells, w, free)
<1> DEFINE c == <<p, "job", <<"mem", 0>>>>
           d == <<p, u, m>>
<1>1. c \in Cells /\ d \in Cells /\ c # d
  BY CellKinds
<1>2. v[c] = j.mem
  BY DEF CellsAre
<1>3. ASSUME NEW x \in Cells
      PROVE  w[x] = IF x = c THEN 0 ELSE IF x = d THEN v[c] ELSE v[x]
  <2>1. CASE x[1] # p
    BY <2>1 DEF Elsewhere
  <2>2. CASE x = <<p, "slot", <<"kstack", 0>>>>
    <3>1. x # d /\ x # c
      BY <2>2, CellKinds
    <3> QED
      BY <2>2, <3>1 DEF CellsAre, CellMoved
  <2>3. CASE x = c
    BY <2>3 DEF CellsAre, CellMoved
  <2>4. ASSUME NEW n \in Places, x = <<p, "slot", n>>
        PROVE  w[x] = IF x = c THEN 0 ELSE IF x = d THEN v[c] ELSE v[x]
    <3>1. w[x] = IF u = "slot" /\ m = n THEN v[c] ELSE v[x]
      BY <1>2, <2>4 DEF CellsAre, CellMoved
    <3> QED
      BY ONLY <2>4, <3>1
  <2>5. ASSUME NEW n \in Places, x = <<p, "job", n>>
        PROVE  w[x] = IF x = c THEN 0 ELSE IF x = d THEN v[c] ELSE v[x]
    <3>1. w[x] = IF u = "job" /\ m = n THEN v[c] ELSE v[x]
      BY <1>2, <2>5 DEF CellsAre, CellMoved
    <3>2. x # c
      BY <2>5, CellKinds
    <3> QED
      BY ONLY <2>5, <3>1, <3>2
  <2> QED
    BY <2>1, <2>2, <2>3, <2>4, <2>5, CellKinds
<1>4. OwnedOnce(Cells, v, free) /\ v[d] = 0
  OBVIOUS
<1> HIDE DEF c, d
<1> QED
  BY ONLY <1>1, <1>3, <1>4, MovePage

\* The pages below a + PGSIZE are mapped once the one at a is.
LEMMA MapBelow ==
    ASSUME NEW D \in SpaceType, NEW E \in SpaceType, NEW a \in Nat, a % PGSIZE = 0,
           NEW k \in UserPages, k * PGSIZE = a, PagesBelow(D, a), E.page[k] # 0,
           \A l \in UserPages \ {k} : E.page[l] = D.page[l]
    PROVE  PagesBelow(E, a + PGSIZE)
<1> SUFFICES ASSUME NEW l \in UserPages
             PROVE  E.page[l] # 0 <=> l * PGSIZE < a + PGSIZE
  BY DEF PagesBelow
<1>1. PGSIZE \in Nat \ {0}
  BY MemAssumption
<1>2. CASE l = k
  BY <1>1, <1>2
<1>3. CASE l # k
  <2>1. PICK b \in Nat : b = l * PGSIZE /\ b % PGSIZE = 0 /\ b # a
    BY <1>3, UserMemory
  <2>2. a < b => a + PGSIZE <= b
    BY <1>1, <2>1, NextMultiple
  <2>3. E.page[l] # 0 <=> b < a
    BY <1>3, <2>1 DEF PagesBelow
  <2>4. b < a <=> b < a + PGSIZE
    BY ONLY <1>1, <2>1, <2>2, a \in Nat
  <2> QED
    BY ONLY <2>1, <2>3, <2>4
<1> QED
  BY <1>2, <1>3

\* The slot and the call of p after a round that leaves the directory E.
SlotWith(p, E) == IF job[p].call = "sbrk" THEN [slot[p] EXCEPT !.pgdir = E] ELSE slot[p]
NextRound(p) == [job[p] EXCEPT !.pc = "kalloc", !.a = @ + PGSIZE, !.mem = 0]
JobWith(p, E) == IF job[p].call = "sbrk" THEN NextRound(p) ELSE [NextRound(p) EXCEPT !.pgdir = E]

LEMMA WithFields ==
    ASSUME NEW p \in MemProcs, slot[p] \in SlotType, job[p] \in JobType, NEW E \in SpaceType
    PROVE  /\ SlotWith(p, E) \in SlotType /\ JobWith(p, E) \in JobType
           /\ SlotWith(p, E).kstack = slot[p].kstack /\ SlotWith(p, E).sz = slot[p].sz
           /\ SlotWith(p, E).faults = slot[p].faults
           /\ JobWith(p, E).pc = "kalloc" /\ JobWith(p, E).call = job[p].call
           /\ JobWith(p, E).child = job[p].child /\ JobWith(p, E).oldsz = job[p].oldsz
           /\ JobWith(p, E).a = job[p].a + PGSIZE /\ JobWith(p, E).end = job[p].end
           /\ JobWith(p, E).mem = 0
           /\ job[p].call = "sbrk" => SlotWith(p, E).pgdir = E /\ JobWith(p, E).pgdir = job[p].pgdir
           /\ job[p].call # "sbrk" => SlotWith(p, E) = slot[p] /\ JobWith(p, E).pgdir = E
<1> DEFINE j == NextRound(p)
<1>1. PICK b \in Nat : b = job[p].a + PGSIZE
  BY MemAssumption DEF JobType
<1>2. j = [job[p] EXCEPT !.pc = "kalloc", !.a = b, !.mem = 0]
  BY <1>1 DEF NextRound
<1>3. /\ j \in JobType /\ j.pc = "kalloc" /\ j.call = job[p].call /\ j.child = job[p].child
      /\ j.oldsz = job[p].oldsz /\ j.a = b /\ j.end = job[p].end /\ j.mem = 0
      /\ j.pgdir = job[p].pgdir
  <2>1. PICK J \in JobType : J = job[p]
    OBVIOUS
  <2> DEFINE i == [J EXCEPT !.pc = "kalloc", !.a = b, !.mem = 0]
  <2>2. /\ i \in JobType /\ i.pc = "kalloc" /\ i.call = J.call /\ i.child = J.child
        /\ i.oldsz = J.oldsz /\ i.a = b /\ i.end = J.end /\ i.mem = 0 /\ i.pgdir = J.pgdir
    BY ONLY J \in JobType, b \in Nat DEF JobType
  <2>3. j = i
    BY <1>2, <2>1
  <2> HIDE DEF i, j
  <2> QED
    BY ONLY <2>1, <2>2, <2>3
<1> HIDE DEF j
<1>4. CASE job[p].call = "sbrk"
  <2>1. SlotWith(p, E) = [slot[p] EXCEPT !.pgdir = E] /\ JobWith(p, E) = j
    BY <1>4 DEF SlotWith, JobWith, j
  <2>2. /\ SlotWith(p, E) \in SlotType /\ SlotWith(p, E).kstack = slot[p].kstack
        /\ SlotWith(p, E).sz = slot[p].sz /\ SlotWith(p, E).faults = slot[p].faults
        /\ SlotWith(p, E).pgdir = E
    BY <2>1 DEF SlotType
  <2> QED
    BY <1>1, <1>3, <1>4, <2>1, <2>2
<1>5. CASE job[p].call # "sbrk"
  <2>1. SlotWith(p, E) = slot[p] /\ JobWith(p, E) = [j EXCEPT !.pgdir = E]
    BY <1>5 DEF SlotWith, JobWith, j
  <2> DEFINE i == [j EXCEPT !.pgdir = E]
  <2>2. /\ i \in JobType /\ i.pc = j.pc /\ i.call = j.call /\ i.child = j.child
        /\ i.oldsz = j.oldsz /\ i.a = j.a /\ i.end = j.end /\ i.mem = j.mem /\ i.pgdir = E
    BY <1>3 DEF JobType
  <2> HIDE DEF i
  <2>3. JobWith(p, E) = i
    BY <2>1 DEF i
  <2> QED
    BY <1>1, <1>3, <1>5, <2>1, <2>2, <2>3
<1> QED
  BY <1>4, <1>5

LEMMA MapShape ==
    ASSUME Shape, NEW p \in MemProcs, job[p].pc = "mappages", NEW E \in SpaceType, E.dir # 0 \/ job[p].call # "sbrk",
           PagesBelow(E, job[p].a + PGSIZE),
           slot' = [slot EXCEPT ![p] = SlotWith(p, E)], job' = [job EXCEPT ![p] = JobWith(p, E)]
    PROVE  Shape'
<1> DEFINE s == slot[p]
           j == job[p]
           s2 == SlotWith(p, E)
           j2 == JobWith(p, E)
<1>1. /\ s \in SlotType /\ j \in JobType /\ ProcRight(s, j)
      /\ s.pgdir.dir # 0 /\ s.faults = FALSE /\ s.kstack # 0
      /\ j.call # "none" /\ (j.call # "fork" => j.child = 0)
  BY InCall
<1>2. /\ s2 \in SlotType /\ j2 \in JobType /\ s2.kstack = s.kstack /\ s2.sz = s.sz
      /\ s2.faults = s.faults /\ j2.pc = "kalloc" /\ j2.call = j.call /\ j2.child = j.child
      /\ j2.oldsz = j.oldsz /\ j2.a = j.a + PGSIZE /\ j2.end = j.end /\ j2.mem = 0
      /\ j.call = "sbrk" => s2.pgdir = E /\ j2.pgdir = j.pgdir
      /\ j.call # "sbrk" => s2 = s /\ j2.pgdir = E
  BY <1>1, WithFields
<1> HIDE DEF s2, j2
<1>3. PICK a \in Nat, e \in Nat, o \in Nat :
        /\ a = j.a /\ e = j.end /\ o = j.oldsz /\ a % PGSIZE = 0 /\ e < KERNBASE /\ a < e
        /\ j.call = "sbrk" => PGROUNDUP(o) <= a /\ o = s.sz
        /\ j.call # "sbrk" => PagesBelow(s.pgdir, s.sz)
        /\ j.call = "sbrk" => j.pgdir = NoSpace
        /\ j.call = "fork" => e = s.sz
  BY <1>1 DEF JobType, ProcRight, JobRight, SizeRight
<1>4. /\ (a + PGSIZE) % PGSIZE = 0 /\ a + PGSIZE <= PGROUNDUP(e) /\ a + PGSIZE \in Nat
      /\ PGROUNDUP(o) <= a => PGROUNDUP(o) <= a + PGSIZE
  <2>1. PGSIZE \in Nat \ {0} /\ PGROUNDUP(e) \in Nat /\ PGROUNDUP(o) \in Nat
        /\ PGROUNDUP(e) % PGSIZE = 0 /\ e <= PGROUNDUP(e)
    BY MemAssumption, RoundUp
  <2>2. a + PGSIZE <= PGROUNDUP(e)
    BY <1>3, <2>1, NextMultiple
  <2>3. (a + PGSIZE) % PGSIZE = 0
    BY <1>3, <2>1, Multiples
  <2> QED
    BY <2>1, <2>2, <2>3
<1>5. ProcRight(s2, j2)
  <2>1. s2.pgdir.dir # 0
    BY <1>1, <1>2
  <2>2. SlotRight(s2, j2)
    BY <1>1, <1>2, <2>1 DEF SlotRight
  <2>3. JobRight(j2)
    BY <1>1, <1>2, <1>3, <1>4 DEF JobRight
  <2>4. SizeRight(s2, j2)
    <3>1. CASE j.call = "sbrk"
      BY <1>2, <1>3, <1>4, <3>1 DEF SizeRight
    <3>2. CASE j.call # "sbrk"
      BY <1>2, <1>3, <3>2 DEF SizeRight
    <3> QED
      BY <3>1, <3>2
  <2> QED
    BY <2>2, <2>3, <2>4 DEF ProcRight
<1>6. slot' = [slot EXCEPT ![p] = s2] /\ job' = [job EXCEPT ![p] = j2]
  BY DEF s2, j2
<1> QED
  BY <1>1, <1>2, <1>5, <1>6, LocalShape

\* mappages: the page in hand is mapped at a, which is not mapped, with a new
\* page table where there is none.
LEMMA MappagesInv ==
    ASSUME MemInv, NEW p \in MemProcs, Mappages(p)
    PROVE  MemInv'
<1> DEFINE s == slot[p]
           j == job[p]
           u == IF job[p].call = "sbrk" THEN "slot" ELSE "job"
<1>1. j.pc = "mappages"
  BY DEF Mappages, Does
<1>2. /\ s \in SlotType /\ j \in JobType /\ ProcRight(s, j)
      /\ s.pgdir.dir # 0 /\ s.faults = FALSE /\ s.kstack # 0
      /\ j.call # "none" /\ (j.call # "fork" => j.child = 0)
  BY <1>1, InCall DEF MemInv
<1>3. PICK h \in Nat \ {0} : h = j.mem
  BY <1>1, <1>2 DEF ProcRight, JobRight, JobType
<1>4. j.a < j.end
  BY <1>1, <1>2 DEF ProcRight, JobRight
<1>5. PICK a \in Nat, k \in UserPages :
        a = j.a /\ a % PGSIZE = 0 /\ k = j.a \div PGSIZE /\ k * PGSIZE = a
  BY <1>1, <1>4, LoopPage DEF MemInv
<1>6. PICK D \in SpaceType : D = Space(p)
  BY <1>2 DEF Space, SlotType, JobType
<1>7. /\ j.call = "sbrk" => D = s.pgdir /\ D.dir # 0
      /\ j.call # "sbrk" => D = j.pgdir
  BY <1>2, <1>6 DEF Space
<1>8. PagesBelow(D, a)
  BY <1>2, <1>5, <1>7 DEF ProcRight, SizeRight, JobType
<1>9. D.page[k] = 0
  BY <1>5, <1>8 DEF PagesBelow
<1>10. PICK t \in Tables : t = PDX(k)
  BY UserMemory
<1> DEFINE E == [D EXCEPT !.page[k] = h]
<1>11. E \in SpaceType /\ EntryTaken(D, E, <<"page", k>>, h)
  BY SetEntry
<1>12. /\ E.dir = D.dir /\ E.page[k] = h /\ \A l \in UserPages \ {k} : E.page[l] = D.page[l]
       /\ E.tab = D.tab
  BY DEF SpaceType
<1>13. PagesBelow(E, a + PGSIZE)
  BY <1>5, <1>8, <1>11, <1>12, MapBelow
<1>14. /\ vmPanic' = vmPanic
       /\ \/ SetSpace(p, E, NextRound(p)) /\ UNCHANGED freelist
          \/ freelist = {} /\ Fail(p, {h})
          \/ /\ Kalloc /\ D.tab[t] = 0
             /\ SetSpace(p, [E EXCEPT !.tab[t] = Page], NextRound(p))
  BY <1>3, <1>5, <1>6, <1>9, <1>10 DEF Mappages, NextRound, FailToMap
<1> HIDE DEF E
<1>15. \A F : SetSpace(p, F, NextRound(p)) =>
         slot' = [slot EXCEPT ![p] = SlotWith(p, F)] /\ job' = [job EXCEPT ![p] = JobWith(p, F)]
  BY DEF SetSpace, Job, SlotWith, JobWith, MemInv, Shape, MemTypes
<1>16. /\ SlotWith(p, E).kstack = s.kstack /\ JobWith(p, E).mem = 0
       /\ j.call = "sbrk" => SlotWith(p, E).pgdir = E /\ JobWith(p, E).pgdir = j.pgdir
       /\ j.call # "sbrk" => SlotWith(p, E) = s /\ JobWith(p, E).pgdir = E
  BY <1>2, <1>11, WithFields
<1>17. CellMoved(s, j, SlotWith(p, E), JobWith(p, E), u, <<"page", k>>)
  <2>1. CASE j.call = "sbrk"
    BY <1>3, <1>7, <1>11, <1>16, <2>1 DEF CellMoved, EntryTaken
  <2>2. CASE j.call # "sbrk"
    BY <1>3, <1>7, <1>11, <1>16, <2>2 DEF CellMoved, EntryTaken
  <2> QED
    BY <2>1, <2>2
<1>18. <<"page", k>> \in Places /\ <<"tab", t>> \in Places /\ u \in {"slot", "job"}
  BY CellKinds
<1>19. /\ OwnedOnce(Cells, CellValues, freelist) /\ CellsAre(CellValues, p, s, j)
       /\ CellValues[<<p, u, <<"page", k>>>>] = 0
  <2>1. OwnedOnce(Cells, CellValues, freelist) /\ CellsAre(CellValues, p, s, j)
    BY CellsOf DEF MemInv
  <2>2. CellValues[<<p, u, <<"page", k>>>>] = Entry(D, <<"page", k>>)
    BY <1>7, <1>18, <2>1 DEF CellsAre
  <2>3. Entry(D, <<"page", k>>) = D.page[k]
    BY DEF Entry
  <2> QED
    BY <1>9, <2>1, <2>2, <2>3
<1>20. CASE SetSpace(p, E, NextRound(p)) /\ UNCHANGED freelist
  <2>1. /\ slot' = [slot EXCEPT ![p] = SlotWith(p, E)] /\ job' = [job EXCEPT ![p] = JobWith(p, E)]
    BY <1>15, <1>20
  <2>2. Shape'
    BY <1>1, <1>5, <1>7, <1>11, <1>12, <1>13, <2>1, MapShape DEF MemInv
  <2>3. CellsAre(CellValues', p, SlotWith(p, E), JobWith(p, E)) /\ Elsewhere(CellValues, CellValues', p)
    BY <2>1, LocalCells DEF MemInv, Shape
  <2>4. OwnedOnce(Cells, CellValues', freelist)
    <3> HIDE DEF u
    <3> QED
      BY ONLY <1>17, <1>18, <1>19, <2>3, MoveCell, p \in MemProcs
  <2> QED
    BY <1>14, <1>20, <2>2, <2>4 DEF MemInv, OwnedOnce
<1>21. CASE Fail(p, {h})
  <2>1. {h} = {j.mem} \ {0}
    BY <1>3
  <2> QED
    BY <1>1, <1>4, <1>14, <1>21, <2>1, FailInv
<1>22. CASE Kalloc /\ D.tab[t] = 0 /\ SetSpace(p, [E EXCEPT !.tab[t] = Page], NextRound(p))
  <2>1. PICK f \in freelist : f = Page /\ f \in Nat /\ f # 0 /\ freelist' = freelist \ {f}
    BY <1>22, PageFree DEF Kalloc, MemInv
  <2> DEFINE F == [E EXCEPT !.tab[t] = f]
  <2>2. F \in SpaceType /\ EntryTaken(E, F, <<"tab", t>>, f)
    BY <1>11, <2>1, SetEntry
  <2>3. F.dir = E.dir /\ F.page = E.page
    BY <1>11 DEF SpaceType
  <2>4. PagesBelow(F, a + PGSIZE)
    BY <1>13, <2>3 DEF PagesBelow
  <2>5. SetSpace(p, F, NextRound(p))
    BY <1>22, <2>1
  <2> HIDE DEF F
  <2>6. slot' = [slot EXCEPT ![p] = SlotWith(p, F)] /\ job' = [job EXCEPT ![p] = JobWith(p, F)]
    BY <1>15, <2>5
  <2>7. Shape'
    BY <1>1, <1>5, <1>7, <1>12, <2>2, <2>3, <2>4, <2>6, MapShape DEF MemInv
  <2>8. CellsAre(CellValues', p, SlotWith(p, F), JobWith(p, F)) /\ Elsewhere(CellValues, CellValues', p)
    BY <2>6, LocalCells DEF MemInv, Shape
  <2> DEFINE V == [x \in Cells |-> IF x[1] = p THEN ValueIn(SlotWith(p, E), JobWith(p, E), x[2], x[3])
                                   ELSE CellValues[x]]
  <2>9. CellsAre(V, p, SlotWith(p, E), JobWith(p, E))
    <3>1. /\ <<p, "slot", <<"kstack", 0>>>> \in Cells /\ <<p, "job", <<"mem", 0>>>> \in Cells
          /\ \A n \in Places : <<p, "slot", n>> \in Cells /\ <<p, "job", n>> \in Cells
      BY CellKinds
    <3>2. \A z, m : <<p, z, m>> \in Cells => V[<<p, z, m>>] = ValueIn(SlotWith(p, E), JobWith(p, E), z, m)
      OBVIOUS
    <3> HIDE DEF V
    <3> QED
      BY <3>1, <3>2, ValueOf DEF CellsAre
  <2>10. Elsewhere(CellValues, V, p) /\ Elsewhere(V, CellValues', p)
    BY <2>8 DEF Elsewhere
  <2> HIDE DEF V, u
  <2>11. OwnedOnce(Cells, V, freelist)
    BY ONLY <1>17, <1>18, <1>19, <2>9, <2>10, MoveCell, p \in MemProcs
  <2>12. /\ SlotWith(p, F).kstack = s.kstack /\ JobWith(p, F).mem = 0
         /\ j.call = "sbrk" => SlotWith(p, F).pgdir = F /\ JobWith(p, F).pgdir = j.pgdir
         /\ j.call # "sbrk" => SlotWith(p, F) = s /\ JobWith(p, F).pgdir = F
    BY <1>2, <2>2, WithFields
  <2>13. <<"tab", t>> # <<"kstack", 0>> /\ <<"tab", t>> # <<"mem", 0>> /\ <<p, u, <<"tab", t>>>> \in Cells
    BY <1>18, CellKinds
  <2>14. CellTaken(SlotWith(p, E), JobWith(p, E), SlotWith(p, F), JobWith(p, F), u, <<"tab", t>>, f)
    <3>1. CASE j.call = "sbrk"
      BY <1>16, <2>2, <2>12, <2>13, <3>1 DEF CellTaken, EntryTaken, u
    <3>2. CASE j.call # "sbrk"
      BY <1>16, <2>2, <2>12, <2>13, <3>2 DEF CellTaken, EntryTaken, u
    <3> QED
      BY <3>1, <3>2
  <2>15. V[<<p, u, <<"tab", t>>>>] = 0
    <3>1. V[<<p, u, <<"tab", t>>>>] = Entry(E, <<"tab", t>>)
      BY <1>16, <1>18, <2>9 DEF CellsAre, u
    <3>2. Entry(E, <<"tab", t>>) = E.tab[t]
      BY DEF Entry
    <3> QED
      BY <1>12, <1>22, <3>1, <3>2
  <2>16. OwnedOnce(Cells, CellValues', freelist \ {f})
    BY ONLY <2>8, <2>9, <2>10, <2>11, <2>13, <2>14, <2>15, TakeCell, p \in MemProcs, f \in freelist
  <2> QED
    BY <1>14, <2>1, <2>7, <2>16 DEF MemInv, OwnedOnce
<1> QED
  BY <1>14, <1>20, <1>21, <1>22
-----------------------------------------------------------------------------
\* A process whose pages stay where they are.
LEMMA FieldsSame ==
    ASSUME NEW v, NEW w, NEW p \in MemProcs, NEW s, NEW j, NEW s2, NEW j2,
           CellsAre(v, p, s, j), CellsAre(w, p, s2, j2),
           s2.pgdir = s.pgdir, j2.mem = j.mem, j2.pgdir = j.pgdir,
           NEW x \in Cells, x[1] = p, x # <<p, "slot", <<"kstack", 0>>>> \/ s2.kstack = s.kstack
    PROVE  w[x] = v[x]
<1>1. CASE x = <<p, "slot", <<"kstack", 0>>>>
  BY <1>1 DEF CellsAre
<1>2. CASE x = <<p, "job", <<"mem", 0>>>>
  BY <1>2 DEF CellsAre
<1>3. ASSUME NEW n \in Places, x = <<p, "slot", n>> PROVE w[x] = v[x]
  BY <1>3 DEF CellsAre
<1>4. ASSUME NEW n \in Places, x = <<p, "job", n>> PROVE w[x] = v[x]
  BY <1>4 DEF CellsAre
<1> QED
  BY <1>1, <1>2, <1>3, <1>4, CellKinds

\* A free slot has nothing and its process is in no call.
LEMMA FreeSlot ==
    ASSUME Shape, NEW c \in MemProcs, slot[c].pgdir.dir = 0
    PROVE  job[c] = Quiet /\ (slot[c].kstack = 0 => slot[c] = UnusedSlot)
<1>1. ProcRight(slot[c], job[c])
  BY DEF Shape
<1> QED
  BY <1>1 DEF ProcRight, SlotRight

\* allocproc takes a free slot for the child and a page for its stack.
LEMMA ForkInv ==
    ASSUME MemInv, NEW p \in MemProcs, Fork(p)
    PROVE  MemInv'
<1> DEFINE s == slot[p]
           free == {q \in MemProcs : slot[q].kstack = 0}
<1>1. /\ job[p] = Quiet /\ s \in SlotType /\ s.pgdir.dir # 0
      /\ s.faults = FALSE /\ s.kstack # 0 /\ PagesBelow(s.pgdir, s.sz)
  BY Caller DEF Fork, MemInv
<1>2. PICK c \in MemProcs :
        /\ slot[c].kstack = 0 /\ Kalloc /\ vmPanic' = vmPanic
        /\ slot' = [slot EXCEPT ![c].kstack = Page]
        /\ Job(p, [Quiet EXCEPT !.pc = "setupkvm", !.call = "fork", !.child = c, !.end = s.sz])
  <2>1. free \in SUBSET Nat /\ free # {}
    BY MemAssumption DEF Fork
  <2>2. \E q \in free : \A r \in free : q <= r
    BY <2>1, LeastNatural
  <2> DEFINE np == CHOOSE q \in free : \A r \in free : q <= r
  <2>3. np \in free
    BY <2>2
  <2>4. /\ Kalloc /\ vmPanic' = vmPanic
        /\ slot' = [slot EXCEPT ![np].kstack = Page]
        /\ Job(p, [Quiet EXCEPT !.pc = "setupkvm", !.call = "fork", !.child = np, !.end = s.sz])
    BY DEF Fork
  <2> HIDE DEF np
  <2> QED
    BY <2>3, <2>4
<1>3. PICK f \in freelist : f = Page /\ f \in Nat /\ f # 0 /\ freelist' = freelist \ {f}
  BY <1>2, PageFree DEF Kalloc, MemInv
<1> DEFINE s2 == [UnusedSlot EXCEPT !.kstack = f]
           j2 == [Quiet EXCEPT !.pc = "setupkvm", !.call = "fork", !.child = c, !.end = s.sz]
           k == <<c, "slot", <<"kstack", 0>>>>
<1>4. slot[c] = UnusedSlot /\ slot[c].pgdir = NoSpace /\ slot[c].pgdir.dir = 0 /\ job[c] = Quiet /\ c # p
  <2>1. slot[c] = UnusedSlot
    BY <1>2 DEF MemInv, Shape, ProcRight, SlotRight
  <2> QED
    BY <1>1, <2>1, NothingTypes, FreeSlot DEF MemInv
<1>5. slot' = [slot EXCEPT ![c] = s2] /\ job' = [job EXCEPT ![p] = j2]
  BY <1>2, <1>3, <1>4 DEF Job, MemInv, Shape, MemTypes
<1>6. /\ s2 \in SlotType /\ s2.kstack = f /\ s2.pgdir = NoSpace
      /\ s2 = [UnusedSlot EXCEPT !.kstack = s2.kstack]
  BY <1>3, NothingTypes DEF UnusedSlot, SlotType
<1>7. /\ j2 \in JobType /\ j2.pc = "setupkvm" /\ j2.call = "fork" /\ j2.child = c /\ j2.a = 0
      /\ j2.pgdir = NoSpace /\ j2.mem = 0 /\ j2.end = s.sz
  BY <1>1, NothingTypes DEF Quiet, JobType, SlotType
<1> HIDE DEF s2, j2
<1>8. ProcRight(s, j2)
  <2>1. NoSpace = [NoSpace EXCEPT !.dir = NoSpace.dir]
    BY DEF NoSpace
  <2>2. SlotRight(s, j2) /\ JobRight(j2)
    BY <1>1, <1>7, <2>1 DEF SlotRight, JobRight
  <2>3. PagesBelow(NoSpace, 0)
    BY UserMemory DEF PagesBelow, NoSpace
  <2>4. SizeRight(s, j2)
    BY <1>1, <1>7, <2>3 DEF SizeRight
  <2> QED
    BY <2>2, <2>4 DEF ProcRight
<1>9. ProcRight(s2, Quiet)
  BY <1>3, <1>6, NothingTypes DEF ProcRight, SlotRight, JobRight, SizeRight
<1>10. \A q \in MemProcs \ {p} : job[q].call = "fork" => job[q].child # c
  BY <1>2, ChildSlot DEF MemInv, Shape
<1>11. Shape'
  <2>1. Shape /\ s.pgdir.dir # 0 /\ slot[c].pgdir.dir = 0 /\ ProcRight(s2, job[c])
    BY <1>1, <1>4, <1>9 DEF MemInv
  <2>2. /\ j2.call = "fork" /\ j2.child = c
        /\ s2.kstack # 0 /\ s2 = [UnusedSlot EXCEPT !.kstack = s2.kstack]
        /\ s2 \in SlotType /\ j2 \in JobType
    BY <1>3, <1>6, <1>7
  <2> QED
    BY ONLY <1>5, <1>8, <1>10, <2>1, <2>2, FamilyShape, p \in MemProcs, c \in MemProcs
<1>12. /\ slot'[c] = s2 /\ slot'[p] = s /\ job'[p] = j2 /\ job'[c] = Quiet
       /\ \A q \in MemProcs \ {p, c} : slot'[q] = slot[q] /\ job'[q] = job[q]
  BY <1>4, <1>5 DEF MemInv, Shape, MemTypes
<1>13. /\ CellsAre(CellValues, p, s, Quiet) /\ CellsAre(CellValues', p, s, j2)
       /\ CellsAre(CellValues, c, slot[c], Quiet) /\ CellsAre(CellValues', c, s2, Quiet)
  BY <1>1, <1>4, <1>12, CellsOf
<1>14. k \in Cells /\ CellValues[k] = 0 /\ CellValues'[k] = f
  BY <1>2, <1>6, <1>13, CellKinds DEF CellsAre
<1>15. ASSUME NEW x \in Cells
       PROVE  CellValues'[x] = IF x = k THEN f ELSE CellValues[x]
  <2>1. CASE x[1] = p
    <3>1. CellValues'[x] = CellValues[x]
      BY <1>7, <1>13, <2>1, FieldsSame, NothingTypes
    <3>2. x # k
      BY <1>4, <2>1
    <3> QED
      BY <3>1, <3>2
  <2>2. CASE x[1] = c /\ x # k
    BY <1>4, <1>6, <1>13, <2>2, FieldsSame
  <2>3. CASE x = k
    BY <1>14, <2>3
  <2>4. CASE x[1] # p /\ x[1] # c
    <3>1. x[1] \in MemProcs
      BY CellKinds
    <3>2. CellValues'[x] = CellValues[x]
      BY <1>12, <2>4, <3>1, SameCells
    <3>3. x # k
      BY <2>4
    <3> QED
      BY <3>2, <3>3
  <2> QED
    BY <2>1, <2>2, <2>3, <2>4
<1>16. OwnedOnce(Cells, CellValues', freelist \ {f})
  <2>1. OwnedOnce(Cells, CellValues, freelist) /\ k \in Cells /\ CellValues[k] = 0
    BY <1>14 DEF MemInv
  <2> HIDE DEF k
  <2> QED
    BY ONLY <1>15, <2>1, TakePage, f \in freelist
<1> QED
  BY <1>2, <1>3, <1>11, <1>16 DEF MemInv, OwnedOnce

\* copyuvm is done: the child has the directory.
LEMMA EndForkInv ==
    ASSUME MemInv, NEW p \in MemProcs, EndFork(p)
    PROVE  MemInv'
<1> DEFINE s == slot[p]
           j == job[p]
           c == job[p].child
<1>1. /\ j.pc = "kalloc" /\ j.call = "fork" /\ j.mem = 0
      /\ j.a \in Nat /\ j.end \in Nat /\ j.a = PGROUNDUP(j.end)
  BY LoopDone DEF EndFork, MemInv
<1>2. /\ s \in SlotType /\ j \in JobType /\ ProcRight(s, j)
      /\ s.pgdir.dir # 0 /\ s.faults = FALSE /\ s.kstack # 0
  BY <1>1, InCall DEF MemInv
<1>3. /\ c \in MemProcs /\ slot[c].kstack # 0 /\ slot[c].pgdir = NoSpace
      /\ slot[c].pgdir.dir = 0 /\ slot[c].faults = FALSE /\ slot[c] \in SlotType
  BY <1>1, ChildSlot DEF MemInv, Shape, MemTypes
<1>4. PICK D \in SpaceType, sz \in Nat : D = j.pgdir /\ sz = s.sz /\ j.end = sz
  BY <1>1, <1>2 DEF JobType, SlotType, ProcRight, SizeRight
<1> DEFINE s2 == [slot[c] EXCEPT !.sz = sz, !.pgdir = D]
<1>5. /\ slot' = [slot EXCEPT ![c] = s2] /\ job' = [job EXCEPT ![p] = Quiet]
      /\ freelist' = freelist /\ vmPanic' = vmPanic
  BY <1>4 DEF EndFork, Job
<1>6. /\ s2 \in SlotType /\ s2.kstack = slot[c].kstack /\ s2.pgdir = D /\ s2.sz = sz
      /\ s2.faults = FALSE
  BY <1>3 DEF SlotType
<1> HIDE DEF s2
<1>7. PagesBelow(D, sz)
  <2>1. PagesBelow(D, PGROUNDUP(sz))
    BY <1>1, <1>2, <1>4 DEF ProcRight, SizeRight
  <2> QED
    BY <2>1, BelowRounded DEF PagesBelow
<1>8. c # p /\ job[c] = Quiet
  BY <1>2, <1>3, FreeSlot DEF MemInv
<1>9. Shape'
  <2>1. ProcRight(s2, Quiet)
    BY <1>3, <1>6, <1>7, NothingTypes DEF ProcRight, SlotRight, JobRight, SizeRight
  <2>2. ProcRight(s, Quiet)
    BY <1>1, BackToUser DEF MemInv
  <2>3. \A q \in MemProcs \ {p} : job[q].call = "fork" => job[q].child # c
    BY <1>1 DEF MemInv, Shape, ChildrenRight
  <2> QED
    BY <1>2, <1>3, <1>5, <1>6, <1>8, <2>1, <2>2, <2>3, FamilyShape, NothingTypes DEF MemInv
<1>10. /\ slot'[c] = s2 /\ slot'[p] = s /\ job'[p] = Quiet /\ job'[c] = Quiet
       /\ \A q \in MemProcs \ {p, c} : slot'[q] = slot[q] /\ job'[q] = job[q]
  BY <1>3, <1>5, <1>8 DEF MemInv, Shape, MemTypes
<1>11. /\ CellsAre(CellValues, p, s, j) /\ CellsAre(CellValues', p, s, Quiet)
       /\ CellsAre(CellValues, c, slot[c], Quiet) /\ CellsAre(CellValues', c, s2, Quiet)
  BY <1>3, <1>8, <1>10, CellsOf
<1>12. \A n \in Places : CellValues[<<c, "slot", n>>] = 0
  BY <1>3, <1>11, EntryOf, NoSpaceType DEF CellsAre
<1>13. \A n \in Places : /\ CellValues'[<<c, "slot", n>>] = CellValues[<<p, "job", n>>]
                         /\ CellValues'[<<p, "job", n>>] = 0
  <2>1. \A n \in Places : Entry(NoSpace, n) = 0
    BY EntryOf, NoSpaceType
  <2> QED
    BY ZenonT(60), <1>4, <1>6, <1>11, <2>1, NothingTypes DEF CellsAre
<1>14. ASSUME NEW x \in Cells, \A n \in Places : x # <<c, "slot", n>> /\ x # <<p, "job", n>>
       PROVE  CellValues'[x] = CellValues[x]
  <2>1. CASE x = <<p, "slot", <<"kstack", 0>>>>
    BY <1>11, <2>1 DEF CellsAre
  <2>2. CASE x = <<p, "job", <<"mem", 0>>>>
    BY <1>1, <1>11, <2>2, NothingTypes DEF CellsAre
  <2>3. ASSUME NEW n \in Places, x = <<p, "slot", n>> PROVE CellValues'[x] = CellValues[x]
    BY <1>11, <2>3 DEF CellsAre
  <2>4. CASE x = <<c, "slot", <<"kstack", 0>>>>
    BY <1>6, <1>11, <2>4 DEF CellsAre
  <2>5. CASE x = <<c, "job", <<"mem", 0>>>>
    BY <1>11, <2>5 DEF CellsAre
  <2>6. ASSUME NEW n \in Places, x = <<c, "job", n>> PROVE CellValues'[x] = CellValues[x]
    BY <1>11, <2>6 DEF CellsAre
  <2>7. CASE x[1] # p /\ x[1] # c
    <3>1. x[1] \in MemProcs
      BY CellKinds
    <3> QED
      BY <1>10, <2>7, <3>1, SameCells
  <2> QED
    BY <1>14, <2>1, <2>2, <2>3, <2>4, <2>5, <2>6, <2>7, CellKinds
<1>15. OwnedOnce(Cells, CellValues', freelist)
  <2>1. OwnedOnce(Cells, CellValues, freelist)
    BY DEF MemInv
  <2>2. PICK e \in MemProcs : e = c
    BY <1>3
  <2>3. \A n \in Places : /\ CellValues[<<e, "slot", n>>] = 0
                          /\ CellValues'[<<e, "slot", n>>] = CellValues[<<p, "job", n>>]
                          /\ CellValues'[<<p, "job", n>>] = 0
    BY <1>12, <1>13, <2>2
  <2>4. \A x \in Cells : (\A n \in Places : x # <<e, "slot", n>> /\ x # <<p, "job", n>>)
                           => CellValues'[x] = CellValues[x]
    BY <1>14, <2>2
  <2> QED
    BY ONLY <2>1, <2>3, <2>4, MoveSpace, p \in MemProcs, e \in MemProcs
<1> QED
  BY <1>5, <1>9, <1>15 DEF MemInv, OwnedOnce

\* exec commits: the old image is freed and the new directory is the process'.
LEMMA ExecCommitsInv ==
    ASSUME MemInv, NEW p \in MemProcs, ExecCommits(p)
    PROVE  MemInv'
<1> DEFINE s == slot[p]
           j == job[p]
<1>1. /\ j.pc = "kalloc" /\ j.call = "stack" /\ j.mem = 0
      /\ j.a \in Nat /\ j.end \in Nat /\ j.a = PGROUNDUP(j.end)
  BY LoopDone DEF ExecCommits, MemInv
<1>2. /\ s \in SlotType /\ j \in JobType /\ ProcRight(s, j)
      /\ s.pgdir.dir # 0 /\ s.faults = FALSE /\ s.kstack # 0 /\ j.child = 0
  BY <1>1, InCall DEF MemInv
<1>3. PICK D \in SpaceType, O \in SpaceType, e \in Nat : D = j.pgdir /\ O = s.pgdir /\ e = j.end
  BY <1>1, <1>2 DEF JobType, SlotType
<1> DEFINE s2 == [s EXCEPT !.pgdir = D, !.sz = e]
<1>4. /\ slot' = [slot EXCEPT ![p] = s2] /\ job' = [job EXCEPT ![p] = Quiet]
      /\ freelist' = freelist \cup PagesOf(O) /\ vmPanic' = vmPanic
  BY <1>3 DEF ExecCommits, Job, Kfree
<1>5. /\ s2 \in SlotType /\ s2.kstack = s.kstack /\ s2.pgdir = D /\ s2.sz = e /\ s2.faults = FALSE
  BY <1>2 DEF SlotType
<1> HIDE DEF s2
<1>6. PagesBelow(D, e)
  <2>1. PagesBelow(D, PGROUNDUP(e))
    BY <1>1, <1>2, <1>3 DEF ProcRight, SizeRight
  <2> QED
    BY <2>1, BelowRounded DEF PagesBelow
<1>7. Shape'
  <2>1. ProcRight(s2, Quiet)
    BY <1>2, <1>5, <1>6, NothingTypes DEF ProcRight, SlotRight, JobRight, SizeRight
  <2> QED
    BY <1>1, <1>2, <1>4, <1>5, <2>1, LocalShape, NothingTypes DEF MemInv
<1>8. /\ CellsAre(CellValues, p, s, j) /\ CellsAre(CellValues', p, s2, Quiet)
      /\ Elsewhere(CellValues, CellValues', p)
  BY <1>4, LocalCells DEF MemInv, Shape
<1> DEFINE V == [x \in Cells |-> IF x[1] = p /\ x[2] = "slot" /\ x[3] \in Places THEN 0 ELSE CellValues[x]]
<1>9. /\ \A n \in Places : V[<<p, "slot", n>>] = 0 /\ V[<<p, "job", n>>] = CellValues[<<p, "job", n>>]
      /\ V[<<p, "job", <<"mem", 0>>>>] = 0
      /\ \A x \in Cells : (\A n \in Places : x # <<p, "slot", n>>) => V[x] = CellValues[x]
  <2>1. /\ \A n \in Places : <<p, "slot", n>> \in Cells /\ <<p, "job", n>> \in Cells
        /\ <<p, "job", <<"mem", 0>>>> \in Cells
    BY CellKinds
  <2>2. \A n \in Places : V[<<p, "slot", n>>] = 0 /\ V[<<p, "job", n>>] = CellValues[<<p, "job", n>>]
    BY <2>1
  <2>3. V[<<p, "job", <<"mem", 0>>>>] = 0
    BY <1>1, <1>8, <2>1 DEF CellsAre
  <2>4. ASSUME NEW x \in Cells, \A n \in Places : x # <<p, "slot", n>>
        PROVE  V[x] = CellValues[x]
    <3>1. x = <<x[1], x[2], x[3]>>
      BY CellKinds
    <3>2. ~ (x[1] = p /\ x[2] = "slot" /\ x[3] \in Places)
      BY <2>4, <3>1
    <3> QED
      BY <3>2
  <2> HIDE DEF V
  <2> QED
    BY ONLY <2>2, <2>3, <2>4
<1> HIDE DEF V
<1>10. OwnedOnce(Cells, V, freelist \cup PagesFreed(CellValues, p, Places))
  <2>1. CellsFreed(CellValues, V, p, Places)
    BY <1>9 DEF CellsFreed
  <2>2. OwnedOnce(Cells, CellValues, freelist) /\ Places \in SUBSET Places
    BY DEF MemInv
  <2> QED
    BY ONLY <2>1, <2>2, FreeCells, p \in MemProcs
<1>11. PagesFreed(CellValues, p, Places) = PagesOf(O)
  <2>1. \A f : f \in PagesFreed(CellValues, p, Places) <=> \E n \in Places : Entry(O, n) = f /\ f # 0
    <3>1. \A n \in Places : CellValues[<<p, "slot", n>>] = Entry(O, n)
      BY <1>3, <1>8 DEF CellsAre
    <3>2. CellValues[<<p, "job", <<"mem", 0>>>>] = 0
      BY <1>1, <1>8 DEF CellsAre
    <3> QED
      BY ONLY <3>1, <3>2 DEF PagesFreed
  <2>2. \A f : f \in PagesOf(O) <=> \E n \in Places : Entry(O, n) = f /\ f # 0
    BY ONLY PagesOfSpace, O \in SpaceType
  <2> QED
    BY ONLY <2>1, <2>2
<1>12. \A n \in Places : CellValues'[<<p, "slot", n>>] = V[<<p, "job", n>>] /\ CellValues'[<<p, "job", n>>] = 0
  <2>1. \A n \in Places : Entry(NoSpace, n) = 0
    BY EntryOf, NoSpaceType
  <2> QED
    BY <1>3, <1>5, <1>8, <1>9, <2>1, NothingTypes DEF CellsAre
<1>13. ASSUME NEW x \in Cells, \A n \in Places : x # <<p, "slot", n>> /\ x # <<p, "job", n>>
       PROVE  CellValues'[x] = V[x]
  <2>1. V[x] = CellValues[x]
    BY <1>9, <1>13
  <2>2. CASE x = <<p, "slot", <<"kstack", 0>>>>
    BY <1>5, <1>8, <2>1, <2>2 DEF CellsAre
  <2>3. CASE x = <<p, "job", <<"mem", 0>>>>
    BY <1>1, <1>8, <2>1, <2>3, NothingTypes DEF CellsAre
  <2>4. CASE x[1] # p
    BY <1>8, <2>1, <2>4 DEF Elsewhere
  <2> QED
    BY <1>13, <2>2, <2>3, <2>4, CellKinds
<1>14. OwnedOnce(Cells, CellValues', freelist \cup PagesOf(O))
  <2>1. OwnedOnce(Cells, V, freelist \cup PagesOf(O))
    BY <1>10, <1>11
  <2>2. \A n \in Places : V[<<p, "slot", n>>] = 0
    BY <1>9
  <2> QED
    BY ONLY <1>12, <1>13, <2>1, <2>2, MoveSpace, p \in MemProcs
<1> QED
  BY <1>4, <1>7, <1>14 DEF MemInv, OwnedOnce

LEMMA ExecBadInv ==
    ASSUME MemInv, NEW p \in MemProcs, ExecBad(p)
    PROVE  MemInv'
<1> DEFINE j == job[p]
<1>1. /\ j.pc \in {"bad", "kalloc"} /\ (j.pc = "kalloc" => j.call \in {"exec", "stack"})
      /\ Fail(p, {}) /\ vmPanic' = vmPanic
  BY DEF ExecBad, Does, Mapped
<1>2. JobRight(j)
  BY DEF MemInv, Shape, ProcRight
<1>3. {} = {j.mem} \ {0} /\ j.call # "sbrk" /\ j.pc # "user"
  BY <1>1, <1>2 DEF JobRight
<1> QED
  BY <1>1, <1>3, FailInv

\* wait frees the stack and the directory of a process that has exited.
LEMMA ReapInv ==
    ASSUME MemInv, NEW p \in MemProcs, Reap(p)
    PROVE  MemInv'
<1> DEFINE s == slot[p]
           S == {x \in Cells : x[1] = p}
<1>1. s \in SlotType /\ ProcRight(s, job[p]) /\ s.pgdir.dir # 0
  BY DEF MemInv, Shape, MemTypes, Reap
<1>2. job[p] = Quiet /\ s.kstack # 0
  BY <1>1, NothingTypes DEF Reap, Does, ProcRight, SlotRight
<1>3. PICK O \in SpaceType : O = s.pgdir
  BY <1>1 DEF SlotType
<1> DEFINE pages == {s.kstack} \cup PagesOf(O)
<1>4. /\ slot' = [slot EXCEPT ![p] = UnusedSlot] /\ job' = [job EXCEPT ![p] = Quiet]
      /\ freelist' = freelist \cup pages /\ vmPanic' = vmPanic
  BY <1>2, <1>3 DEF Reap, Kfree, MemInv, Shape, MemTypes
<1>5. Shape'
  <2>1. ProcRight(UnusedSlot, Quiet)
    BY NothingTypes DEF ProcRight, SlotRight, JobRight, SizeRight
  <2> QED
    BY <1>1, <1>2, <1>4, <2>1, LocalShape, NothingTypes DEF MemInv
<1>6. /\ CellsAre(CellValues, p, s, Quiet) /\ CellsAre(CellValues', p, UnusedSlot, Quiet)
      /\ Elsewhere(CellValues, CellValues', p)
  BY <1>2, <1>4, LocalCells DEF MemInv, Shape
<1>7. \A n \in Places : Entry(NoSpace, n) = 0
  BY EntryOf, NoSpaceType
<1>8. /\ CellValues[<<p, "slot", <<"kstack", 0>>>>] = s.kstack
      /\ CellValues[<<p, "job", <<"mem", 0>>>>] = 0
      /\ \A n \in Places : CellValues[<<p, "slot", n>>] = Entry(O, n) /\ CellValues[<<p, "job", n>>] = 0
      /\ CellValues'[<<p, "slot", <<"kstack", 0>>>>] = 0 /\ CellValues'[<<p, "job", <<"mem", 0>>>>] = 0
      /\ \A n \in Places : CellValues'[<<p, "slot", n>>] = 0 /\ CellValues'[<<p, "job", n>>] = 0
  BY <1>3, <1>6, <1>7, NothingTypes DEF CellsAre
<1>9. /\ S \in SUBSET Cells /\ <<p, "slot", <<"kstack", 0>>>> \in S
      /\ \A n \in Places : <<p, "slot", n>> \in S
      /\ \A x \in S : \/ x = <<p, "slot", <<"kstack", 0>>>> \/ x = <<p, "job", <<"mem", 0>>>>
                      \/ \E n \in Places : x = <<p, "slot", n>> \/ x = <<p, "job", n>>
  <2>1. /\ S \in SUBSET Cells /\ <<p, "slot", <<"kstack", 0>>>> \in S
        /\ \A n \in Places : <<p, "slot", n>> \in S
    BY CellKinds
  <2>2. \A x \in S : \/ x = <<p, "slot", <<"kstack", 0>>>> \/ x = <<p, "job", <<"mem", 0>>>>
                     \/ \E n \in Places : x = <<p, "slot", n>> \/ x = <<p, "job", n>>
    BY CellKinds
  <2> QED
    BY <2>1, <2>2
<1>10. \A x \in Cells : CellValues'[x] = IF x \in S THEN 0 ELSE CellValues[x]
  <2>1. ASSUME NEW x \in Cells, x \in S PROVE CellValues'[x] = 0
    <3> HIDE DEF S
    <3> QED
      BY <1>8, <1>9, <2>1
  <2>2. ASSUME NEW x \in Cells, x \notin S PROVE CellValues'[x] = CellValues[x]
    BY <1>6, <2>2 DEF Elsewhere
  <2> HIDE DEF S
  <2> QED
    BY <2>1, <2>2
<1> HIDE DEF S
<1>11. \A f : f \in pages <=> \E x \in S : CellValues[x] # 0 /\ CellValues[x] = f
  <2>1. \A f : f \in PagesOf(O) <=> \E n \in Places : Entry(O, n) = f /\ f # 0
    BY ONLY PagesOfSpace, O \in SpaceType
  <2>2. \A f : f \in pages <=> f = s.kstack \/ \E n \in Places : Entry(O, n) = f /\ f # 0
    BY ONLY <2>1
  <2> TAKE f
  <2>3. ASSUME f \in pages PROVE \E x \in S : CellValues[x] # 0 /\ CellValues[x] = f
    BY ONLY <1>2, <1>8, <1>9, <2>2, <2>3
  <2>4. ASSUME NEW x \in S, CellValues[x] # 0, CellValues[x] = f PROVE f \in pages
    BY ONLY <1>8, <1>9, <2>2, <2>4, x \in S
  <2> QED
    BY ONLY <2>3, <2>4
<1> HIDE DEF pages
<1>12. OwnedOnce(Cells, CellValues', freelist \cup pages)
  <2>1. OwnedOnce(Cells, CellValues, freelist) /\ S \in SUBSET Cells
    BY <1>9 DEF MemInv
  <2> QED
    BY ONLY ZenonT(60), <1>10, <1>11, <2>1, FreePages
<1> QED
  BY <1>4, <1>5, <1>12 DEF MemInv, OwnedOnce

LEMMA MemNextInv ==
    ASSUME MemInv, [MemNext]_memVars
    PROVE  MemInv'
<1>1. CASE UNCHANGED memVars
  <2>1. slot' = slot /\ job' = job /\ freelist' = freelist /\ vmPanic' = vmPanic
    BY <1>1 DEF memVars
  <2>2. Shape'
    BY <2>1 DEF MemInv, Shape, MemTypes, ChildrenRight
  <2>3. CellValues' = CellValues
    BY <2>1 DEF CellValues
  <2> QED
    BY <2>1, <2>2, <2>3 DEF MemInv, OwnedOnce
<1>2. CASE MemNext
  <2>1. PICK p \in MemProcs :
          \/ \E n \in Increments : Grow(p, n) \/ Shrink(p, n)
          \/ \E n \in Segments : Exec(p, n)
          \/ Fork(p) \/ Setupkvm(p) \/ AllocPage(p) \/ Mappages(p) \/ EndGrow(p) \/ EndFork(p)
          \/ ExecStack(p) \/ ExecCommits(p) \/ ExecBad(p) \/ Reap(p)
    BY <1>2 DEF MemNext
  <2>2. ASSUME NEW n \in Increments, Grow(p, n) PROVE MemInv'
    BY <2>2, GrowInv
  <2>3. ASSUME NEW n \in Increments, Shrink(p, n) PROVE MemInv'
    BY <2>3, ShrinkInv
  <2>4. ASSUME NEW n \in Segments, Exec(p, n) PROVE MemInv'
    BY <2>4, ExecInv
  <2>5. CASE Fork(p)
    BY <2>5, ForkInv
  <2>6. CASE Setupkvm(p)
    BY <2>6, SetupkvmInv
  <2>7. CASE AllocPage(p)
    BY <2>7, AllocPageInv
  <2>8. CASE Mappages(p)
    BY <2>8, MappagesInv
  <2>9. CASE EndGrow(p)
    BY <2>9, EndGrowInv
  <2>10. CASE EndFork(p)
    BY <2>10, EndForkInv
  <2>11. CASE ExecStack(p)
    BY <2>11, ExecStackInv
  <2>12. CASE ExecCommits(p)
    BY <2>12, ExecCommitsInv
  <2>13. CASE ExecBad(p)
    BY <2>13, ExecBadInv
  <2>14. CASE Reap(p)
    BY <2>14, ReapInv
  <2> QED
    BY <2>1, <2>2, <2>3, <2>4, <2>5, <2>6, <2>7, <2>8, <2>9, <2>10, <2>11, <2>12, <2>13, <2>14
<1> QED
  BY <1>1, <1>2
-----------------------------------------------------------------------------
\* The first process has the pages 1 .. 5, the last one mapped at 0.
LEMMA FirstSpaceRight ==
    /\ FirstSpace \in SpaceType /\ FirstSpace.dir = 2
    /\ PagesBelow(FirstSpace, PGSIZE)
    /\ \A n \in Places :
         Entry(FirstSpace, n) = IF n = <<"dir", 0>> THEN 2 ELSE IF n = <<"kern", 0>> THEN 3
                                ELSE IF n = <<"tab", 0>> THEN 4 ELSE IF n = <<"page", 0>> THEN 5 ELSE 0
<1> DEFINE A == [NoSpace EXCEPT !.dir = 2]
           B == [A EXCEPT !.kern = 3]
           C == [B EXCEPT !.tab[0] = 4]
           D == [C EXCEPT !.page[0] = 5]
<1>1. 0 \in UserPages /\ 0 \in Tables
  BY UserMemory
<1>2. A \in SpaceType /\ EntryTaken(NoSpace, A, <<"dir", 0>>, 2)
  BY SetEntry, NoSpaceType
<1>3. B \in SpaceType /\ EntryTaken(A, B, <<"kern", 0>>, 3)
  <2> HIDE DEF A
  <2> QED
    BY <1>2, SetEntry
<1>4. C \in SpaceType /\ EntryTaken(B, C, <<"tab", 0>>, 4)
  <2> HIDE DEF B
  <2> QED
    BY <1>1, <1>3, SetEntry
<1>5. D \in SpaceType /\ EntryTaken(C, D, <<"page", 0>>, 5)
  <2> HIDE DEF C
  <2> QED
    BY <1>1, <1>4, SetEntry
<1>6. FirstSpace = D
  BY <1>1 DEF FirstSpace, NoSpace
<1> HIDE DEF A, B, C, D
<1>7. \A n \in Places : Entry(NoSpace, n) = 0
  BY EntryOf, NoSpaceType
<1>8. \A n \in Places :
        Entry(D, n) = IF n = <<"dir", 0>> THEN 2 ELSE IF n = <<"kern", 0>> THEN 3
                      ELSE IF n = <<"tab", 0>> THEN 4 ELSE IF n = <<"page", 0>> THEN 5 ELSE 0
  BY <1>2, <1>3, <1>4, <1>5, <1>7 DEF EntryTaken
<1>9. D.dir = 2
  <2>1. Entry(D, <<"dir", 0>>) = 2 /\ Entry(D, <<"dir", 0>>) = D.dir
    BY <1>8, CellKinds DEF Entry
  <2> QED
    BY <2>1
<1>10. \A k \in UserPages : D.page[k] = IF k = 0 THEN 5 ELSE 0
  <2>1. \A k \in UserPages : <<"page", k>> \in Places /\ Entry(D, <<"page", k>>) = D.page[k]
    BY CellKinds DEF Entry
  <2>2. \A k \in UserPages : Entry(D, <<"page", k>>) = IF k = 0 THEN 5 ELSE 0
    BY ONLY <1>8, <2>1
  <2> QED
    BY ONLY <2>1, <2>2
<1>11. \A k \in UserPages : k = 0 <=> k * PGSIZE < PGSIZE
  <2> TAKE k \in UserPages
  <2>1. PGSIZE \in Nat \ {0} /\ k \in Nat
    BY MemAssumption, UserMemory
  <2>2. k # 0 => k * PGSIZE >= PGSIZE
    <3> SUFFICES ASSUME k # 0 PROVE k * PGSIZE >= PGSIZE
      OBVIOUS
    <3>1. PICK i \in Nat : k = i + 1
      <4>1. k - 1 \in Nat /\ k = (k - 1) + 1
        BY <2>1
      <4> QED
        BY <4>1
    <3>2. k * PGSIZE = i * PGSIZE + PGSIZE /\ i * PGSIZE \in Nat
      BY <2>1, <3>1
    <3> QED
      BY <2>1, <3>2
  <2>3. k = 0 => k * PGSIZE = 0
    BY <2>1
  <2>4. k * PGSIZE \in Nat
    BY <2>1
  <2> QED
    BY ONLY <2>1, <2>2, <2>3, <2>4
<1>12. PagesBelow(D, PGSIZE)
  BY <1>10, <1>11 DEF PagesBelow
<1> QED
  BY <1>5, <1>6, <1>8, <1>9, <1>12

LEMMA MemInitInv ==
    ASSUME MemInit
    PROVE  MemInv
<1> DEFINE s1 == [kstack |-> 1, sz |-> PGSIZE, faults |-> FALSE, pgdir |-> FirstSpace]
<1>1. /\ 1 \in MemProcs /\ slot[1] = s1 /\ freelist = Frames \ 1 .. 5 /\ vmPanic = FALSE
      /\ \A p \in MemProcs : job[p] = Quiet /\ (p # 1 => slot[p] = UnusedSlot)
  BY MemAssumption DEF MemInit
<1>2. /\ s1 \in SlotType /\ s1.kstack = 1 /\ s1.sz = PGSIZE /\ s1.faults = FALSE
      /\ s1.pgdir = FirstSpace
  BY FirstSpaceRight, MemAssumption DEF SlotType
<1> HIDE DEF s1
<1>3. MemTypes
  <2>1. slot \in [MemProcs -> SlotType]
    BY <1>1, <1>2, NothingTypes DEF MemInit, s1
  <2>2. job \in [MemProcs -> JobType]
    BY NothingTypes DEF MemInit
  <2> QED
    BY <2>1, <2>2 DEF MemTypes
<1>4. ASSUME NEW p \in MemProcs PROVE ProcRight(slot[p], job[p])
  <2>1. ProcRight(UnusedSlot, Quiet)
    BY NothingTypes DEF ProcRight, SlotRight, JobRight, SizeRight
  <2>2. ProcRight(s1, Quiet)
    BY <1>2, FirstSpaceRight, NothingTypes DEF ProcRight, SlotRight, JobRight, SizeRight
  <2> QED
    BY <1>1, <2>1, <2>2
<1>5. ChildrenRight
  BY <1>1, NothingTypes DEF ChildrenRight
<1> DEFINE H == <<<<1, "slot", <<"kstack", 0>>>>, <<1, "slot", <<"dir", 0>>>>, <<1, "slot", <<"kern", 0>>>>,
                  <<1, "slot", <<"tab", 0>>>>, <<1, "slot", <<"page", 0>>>>>>
<1>6. CellsAre(CellValues, 1, s1, Quiet)
  BY <1>1, CellsOf
<1>7. /\ H[1] \in Cells /\ H[2] \in Cells /\ H[3] \in Cells /\ H[4] \in Cells /\ H[5] \in Cells
      /\ CellValues[H[1]] = 1 /\ CellValues[H[2]] = 2 /\ CellValues[H[3]] = 3 /\ CellValues[H[4]] = 4
      /\ CellValues[H[5]] = 5
  <2>1. /\ <<"dir", 0>> \in Places /\ <<"kern", 0>> \in Places
        /\ <<"tab", 0>> \in Places /\ <<"page", 0>> \in Places
    BY CellKinds, UserMemory
  <2>2. /\ H[1] \in Cells /\ H[2] \in Cells /\ H[3] \in Cells /\ H[4] \in Cells /\ H[5] \in Cells
    BY <1>1, <2>1, CellKinds
  <2>3. /\ CellValues[H[1]] = 1 /\ CellValues[H[2]] = 2 /\ CellValues[H[3]] = 3 /\ CellValues[H[4]] = 4
        /\ CellValues[H[5]] = 5
    BY <1>2, <1>6, <2>1, FirstSpaceRight DEF CellsAre
  <2> QED
    BY <2>2, <2>3
<1>8. \A i \in 1 .. 5 : H[i] \in Cells /\ CellValues[H[i]] = i
  BY ONLY <1>7
<1>9. ASSUME NEW x \in Cells, CellValues[x] # 0
      PROVE  \E i \in 1 .. 5 : x = H[i]
  <2>1. PICK p \in MemProcs :
          \/ x = <<p, "slot", <<"kstack", 0>>>> \/ x = <<p, "job", <<"mem", 0>>>>
          \/ \E n \in Places : x = <<p, "slot", n>> \/ x = <<p, "job", n>>
    BY CellKinds
  <2>2. \A n \in Places : Entry(NoSpace, n) = 0
    BY EntryOf, NoSpaceType
  <2>3. CellsAre(CellValues, p, slot[p], Quiet)
    BY <1>1, CellsOf
  <2>4. CellValues[<<p, "job", <<"mem", 0>>>>] = 0 /\ \A n \in Places : CellValues[<<p, "job", n>>] = 0
    BY <2>2, <2>3, NothingTypes DEF CellsAre
  <2>5. p = 1
    <3>1. p # 1 => /\ CellValues[<<p, "slot", <<"kstack", 0>>>>] = 0
                   /\ \A n \in Places : CellValues[<<p, "slot", n>>] = 0
      BY <1>1, <2>2, <2>3, NothingTypes DEF CellsAre
    <3> QED
      BY ONLY <1>9, <2>1, <2>4, <3>1
  <2>6. CASE x = <<1, "slot", <<"kstack", 0>>>>
    BY <2>6
  <2>7. ASSUME NEW n \in Places, x = <<1, "slot", n>>
        PROVE  \E i \in 1 .. 5 : x = H[i]
    <3>1. CellValues[x] = Entry(FirstSpace, n)
      BY <1>2, <1>6, <2>7 DEF CellsAre
    <3>2. n = <<"dir", 0>> \/ n = <<"kern", 0>> \/ n = <<"tab", 0>> \/ n = <<"page", 0>>
      BY <1>9, <3>1, FirstSpaceRight
    <3> QED
      BY ONLY <2>7, <3>2
  <2> QED
    BY ONLY <1>9, <2>1, <2>4, <2>5, <2>6, <2>7
<1> HIDE DEF H
<1>10. OwnedOnce(Cells, CellValues, freelist)
  <2>1. \A x \in Cells : CellValues[x] # 0 => CellValues[x] \in 1 .. 5
    BY <1>8, <1>9
  <2>2. \A x, y \in Cells : CellValues[x] # 0 /\ CellValues[x] = CellValues[y] => x = y
    BY ONLY <1>8, <1>9
  <2>3. 1 .. 5 \subseteq Frames
    BY MemAssumption
  <2>4. \A f \in Frames \ freelist : \E x \in Cells : CellValues[x] = f
    BY <1>1, <1>8
  <2> QED
    BY <1>1, <2>1, <2>2, <2>3, <2>4 DEF OwnedOnce
<1> QED
  BY <1>1, <1>3, <1>4, <1>5, <1>10 DEF MemInv, Shape
-----------------------------------------------------------------------------
\* References lists what the cells hold.
RefOf(x, f) == <<x[1], x[2], <<x[3][1], x[3][2], f>>>>

LEMMA EntriesOf ==
    ASSUME NEW s
    PROVE  \A e : e \in Entries(s) <=> \E n \in Places : e = <<n[1], n[2], Entry(s, n)>>
<1> TAKE e
<1>1. ASSUME e \in Entries(s)
      PROVE  \E n \in Places : e = <<n[1], n[2], Entry(s, n)>>
  <2>1. /\ <<"dir", 0>> \in Places /\ Entry(s, <<"dir", 0>>) = s.dir
        /\ <<"kern", 0>> \in Places /\ Entry(s, <<"kern", 0>>) = s.kern
        /\ \A t \in Tables : <<"tab", t>> \in Places /\ Entry(s, <<"tab", t>>) = s.tab[t]
        /\ \A k \in UserPages : <<"page", k>> \in Places /\ Entry(s, <<"page", k>>) = s.page[k]
    BY CellKinds DEF Entry
  <2>2. \/ e = <<"dir", 0, s.dir>> \/ e = <<"kern", 0, s.kern>>
        \/ (\E t \in Tables : e = <<"tab", t, s.tab[t]>>)
        \/ \E k \in UserPages : e = <<"page", k, s.page[k]>>
    BY <1>1 DEF Entries
  <2> QED
    BY ONLY <2>1, <2>2
<1>2. ASSUME NEW n \in Places, e = <<n[1], n[2], Entry(s, n)>>
      PROVE  e \in Entries(s)
  BY <1>2 DEF Places, Entry, Entries
<1> QED
  BY <1>1, <1>2

LEMMA ReferencesOf ==
    \A r : r \in References <=> \E x \in Cells : r = RefOf(x, CellValues[x])
<1> TAKE r
<1>1. \A p \in MemProcs : CellsAre(CellValues, p, slot[p], job[p])
  BY CellsOf
<1>2. r \in References <=>
        \E p \in MemProcs :
          \/ r = <<p, "slot", <<"kstack", 0, slot[p].kstack>>>>
          \/ r = <<p, "job", <<"mem", 0, job[p].mem>>>>
          \/ \E e \in Entries(slot[p].pgdir) : r = <<p, "slot", e>>
          \/ \E e \in Entries(job[p].pgdir) : r = <<p, "job", e>>
  BY DEF References
<1>3. ASSUME NEW p \in MemProcs
      PROVE  /\ (\E e \in Entries(slot[p].pgdir) : r = <<p, "slot", e>>)
                  <=> \E n \in Places : r = <<p, "slot", <<n[1], n[2], Entry(slot[p].pgdir, n)>>>>
             /\ (\E e \in Entries(job[p].pgdir) : r = <<p, "job", e>>)
                  <=> \E n \in Places : r = <<p, "job", <<n[1], n[2], Entry(job[p].pgdir, n)>>>>
  <2>1. \A e : e \in Entries(slot[p].pgdir)
                 <=> \E n \in Places : e = <<n[1], n[2], Entry(slot[p].pgdir, n)>>
    BY EntriesOf
  <2>2. \A e : e \in Entries(job[p].pgdir)
                 <=> \E n \in Places : e = <<n[1], n[2], Entry(job[p].pgdir, n)>>
    BY EntriesOf
  <2>3. (\E e \in Entries(slot[p].pgdir) : r = <<p, "slot", e>>)
          <=> \E n \in Places : r = <<p, "slot", <<n[1], n[2], Entry(slot[p].pgdir, n)>>>>
    BY ONLY <2>1
  <2>4. (\E e \in Entries(job[p].pgdir) : r = <<p, "job", e>>)
          <=> \E n \in Places : r = <<p, "job", <<n[1], n[2], Entry(job[p].pgdir, n)>>>>
    BY ONLY <2>2
  <2> QED
    BY <2>3, <2>4
<1>4. ASSUME NEW p \in MemProcs
      PROVE  /\ RefOf(<<p, "slot", <<"kstack", 0>>>>, CellValues[<<p, "slot", <<"kstack", 0>>>>])
                  = <<p, "slot", <<"kstack", 0, slot[p].kstack>>>>
             /\ RefOf(<<p, "job", <<"mem", 0>>>>, CellValues[<<p, "job", <<"mem", 0>>>>])
                  = <<p, "job", <<"mem", 0, job[p].mem>>>>
             /\ \A n \in Places :
                  /\ RefOf(<<p, "slot", n>>, CellValues[<<p, "slot", n>>])
                       = <<p, "slot", <<n[1], n[2], Entry(slot[p].pgdir, n)>>>>
                  /\ RefOf(<<p, "job", n>>, CellValues[<<p, "job", n>>])
                       = <<p, "job", <<n[1], n[2], Entry(job[p].pgdir, n)>>>>
  BY <1>1 DEF CellsAre, RefOf
<1>5. r \in References =>
        \E p \in MemProcs :
          \/ r = RefOf(<<p, "slot", <<"kstack", 0>>>>, CellValues[<<p, "slot", <<"kstack", 0>>>>])
          \/ r = RefOf(<<p, "job", <<"mem", 0>>>>, CellValues[<<p, "job", <<"mem", 0>>>>])
          \/ \E n \in Places : \/ r = RefOf(<<p, "slot", n>>, CellValues[<<p, "slot", n>>])
                               \/ r = RefOf(<<p, "job", n>>, CellValues[<<p, "job", n>>])
  BY ONLY <1>2, <1>3, <1>4
<1>6. ASSUME NEW x \in Cells, r = RefOf(x, CellValues[x])
      PROVE  r \in References
  <2>1. PICK p \in MemProcs :
          \/ x = <<p, "slot", <<"kstack", 0>>>> \/ x = <<p, "job", <<"mem", 0>>>>
          \/ \E n \in Places : x = <<p, "slot", n>> \/ x = <<p, "job", n>>
    BY CellKinds
  <2>2. \/ r = <<p, "slot", <<"kstack", 0, slot[p].kstack>>>>
        \/ r = <<p, "job", <<"mem", 0, job[p].mem>>>>
        \/ \E n \in Places : \/ r = <<p, "slot", <<n[1], n[2], Entry(slot[p].pgdir, n)>>>>
                             \/ r = <<p, "job", <<n[1], n[2], Entry(job[p].pgdir, n)>>>>
    BY ONLY <1>4, <1>6, <2>1, p \in MemProcs
  <2> QED
    BY ONLY <1>2, <1>3, <2>2, p \in MemProcs
<1>7. ASSUME NEW p \in MemProcs
      PROVE  /\ <<p, "slot", <<"kstack", 0>>>> \in Cells /\ <<p, "job", <<"mem", 0>>>> \in Cells
             /\ \A n \in Places : <<p, "slot", n>> \in Cells /\ <<p, "job", n>> \in Cells
  BY CellKinds
<1> QED
  BY ONLY <1>5, <1>6, <1>7

LEMMA OwnedPages ==
    ASSUME OwnedOnce(Cells, CellValues, freelist)
    PROVE  PagesOwned
<1> DEFINE used == {r \in References : r[3][3] # 0}
           pages == {r[3][3] : r \in used}
           F == [r \in used |-> r[3][3]]
<1>1. ASSUME NEW r
      PROVE  r \in used <=> \E x \in Cells : r = RefOf(x, CellValues[x]) /\ CellValues[x] # 0
  <2>1. \A x : RefOf(x, CellValues[x])[3][3] = CellValues[x]
    BY DEF RefOf
  <2> QED
    BY <2>1, ReferencesOf
<1>2. \A r \in used : \E x \in Cells : r = RefOf(x, CellValues[x]) /\ r[3][3] = CellValues[x] /\ CellValues[x] # 0
  BY <1>1 DEF RefOf
<1>3. \A x \in Cells : CellValues[x] # 0 => RefOf(x, CellValues[x]) \in used /\ RefOf(x, CellValues[x])[3][3] = CellValues[x]
  BY <1>1 DEF RefOf
<1>4. F \in [used -> pages]
  OBVIOUS
<1>5. \A r \in used : F[r] = r[3][3]
  OBVIOUS
<1>6. \A f \in pages : \E r \in used : F[r] = f
  BY <1>5
<1>7. \A f : f \in pages <=> \E r \in used : r[3][3] = f
  OBVIOUS
<1> HIDE DEF used, pages, F
<1>8. pages = Frames \ freelist
  <2>1. \A f \in pages : f \in Frames \ freelist
    BY <1>2, <1>7 DEF OwnedOnce
  <2>2. ASSUME NEW f \in Frames \ freelist PROVE f \in pages
    <3>1. PICK x \in Cells : CellValues[x] = f
      BY DEF OwnedOnce
    <3>2. f # 0
      BY MemAssumption
    <3> QED
      BY <1>3, <1>7, <3>1, <3>2
  <2> QED
    BY <2>1, <2>2
<1>9. \A r, q \in used : F[r] = F[q] => r = q
  <2> SUFFICES ASSUME NEW r \in used, NEW q \in used, F[r] = F[q] PROVE r = q
    OBVIOUS
  <2>1. PICK x \in Cells : r = RefOf(x, CellValues[x]) /\ r[3][3] = CellValues[x] /\ CellValues[x] # 0
    BY <1>2
  <2>2. PICK y \in Cells : q = RefOf(y, CellValues[y]) /\ q[3][3] = CellValues[y] /\ CellValues[y] # 0
    BY <1>2
  <2>3. CellValues[x] = CellValues[y]
    BY <1>5, <2>1, <2>2
  <2>4. x = y
    BY <2>1, <2>3 DEF OwnedOnce
  <2> QED
    BY <2>1, <2>2, <2>4
<1>10. F \in Injection(used, pages) /\ F \in Surjection(used, pages)
  BY <1>4, <1>6, <1>9 DEF Injection, IsInjective, Surjection
<1>11. IsFiniteSet(pages)
  BY <1>8, MemAssumption, FS_Subset
<1>12. Cardinality(used) = Cardinality(pages)
  BY <1>10, <1>11, FS_Injection
<1> QED
  BY <1>8, <1>12 DEF PagesOwned, used, pages

\* However the calls of the processes are interleaved and whichever kalloc
\* fails in them, every page of memory is on the free list or in one place: a
\* kernel stack, a page directory, a page table, a user page, or the hand of
\* allocuvm or copyuvm.
THEOREM EveryPageOwned == MemSpec => []PagesOwned
<1>1. MemSpec => []MemInv
  BY MemInitInv, MemNextInv, PTL DEF MemSpec
<1>2. MemInv => PagesOwned
  BY OwnedPages DEF MemInv
<1> QED
  BY <1>1, <1>2, PTL

\* growproc, copyuvm and exec keep sz and the page table in step, so that
\* mappages never finds a page mapped already and copyuvm never misses one.
THEOREM SizesRight == MemSpec => []SizeMapped
<1>1. MemSpec => []MemInv
  BY MemInitInv, MemNextInv, PTL DEF MemSpec
<1>2. ASSUME MemInv PROVE SizeMapped
  <2>1. \A p \in MemProcs : slot[p].faults \in BOOLEAN /\ SizeRight(slot[p], job[p])
    BY <1>2 DEF MemInv, Shape, MemTypes, SlotType, ProcRight
  <2>2. ~vmPanic
    BY <1>2 DEF MemInv
  <2> QED
    BY <2>1, <2>2 DEF SizeRight, PagesBelow, SizeMapped
<1> QED
  BY <1>1, <1>2, PTL
-----------------------------------------------------------------------------
(***************************************************************************)
(* The console.                                                            *)
(***************************************************************************)
Index == 0 .. IndexMod - 1
Screen == 0 .. Columns * (Rows - 1) - 1
Chars == {"zero", "char", "nl", "eof"}
ReaderPlaces == {"user", "woken", "loop", "sleep", "asleep"}

ConsTypes ==
    /\ ring \in [0 .. INPUT_BUF - 1 -> Chars]
    /\ rIndex \in Index /\ wIndex \in Index /\ eIndex \in Index
    /\ consLock \in ConsReaders \cup {NoReader}
    /\ rd \in [ConsReaders -> [pc : ReaderPlaces, n : ReadCounts \cup {0}, dst : Seq(Chars)]]
    /\ rdKilled \subseteq ConsReaders

\* cons.lock is held by the reader inside consoleread's loop, and by nobody else.
LockHeld == \A p \in ConsReaders : rd[p].pc \in {"loop", "sleep"} <=> consLock = p

\* Whoever sleeps, or is about to, has seen that nothing is handed over.
Waiting == \A p \in ConsReaders : rd[p].pc \in {"sleep", "asleep"} => rIndex = wIndex

\* A reader inside read wants the count it was called with.
Counting == \A p \in ConsReaders : rd[p].pc # "user" => rd[p].n \in ReadCounts

\* What is in the ring, by position; e and w never more than it holds ahead of r.
Size(i, j) == Plus(j, -i)
RingBounded == Size(rIndex, wIndex) + Size(wIndex, eIndex) <= INPUT_BUF

\* The line that is edited has no newline: one would have handed it over.
LineClean == \A k \in 1 .. Size(wIndex, eIndex) : ring[(wIndex + k - 1) % INPUT_BUF] # "nl"

ConsInv == ConsTypes /\ LockHeld /\ Waiting /\ Counting /\ RingBounded /\ LineClean
-----------------------------------------------------------------------------
\* Facts about remainders.
LEMMA Division ==
    ASSUME NEW d \in Nat \ {0}, NEW a \in Int
    PROVE  \E q \in Int, r \in 0 .. d - 1 : a = q * d + r /\ a % d = r
<1>1. a = (a \div d) * d + (a % d) /\ a \div d \in Int /\ a % d \in 0 .. d - 1
  OBVIOUS
<1> QED
  BY <1>1

LEMMA Remainder ==
    ASSUME NEW d \in Nat \ {0}, NEW q \in Int, NEW r \in 0 .. d - 1
    PROVE  (q * d + r) % d = r
  OBVIOUS

\* What is known of the sizes without remainders.
LEMMA SizesOrder ==
    /\ INPUT_BUF \in Nat \ {0} /\ IndexMod \in Nat \ {0} /\ INPUT_BUF < IndexMod
    /\ Columns \in Nat \ {0} /\ Rows \in Nat \ {0, 1}
  BY ConsAssumption

LEMMA PlusInRange == \A i \in Int, k \in Int : Plus(i, k) \in Index
<1> TAKE i \in Int, k \in Int
<1>1. i + k \in Int
  OBVIOUS
<1>2. (i + k) % IndexMod \in 0 .. IndexMod - 1
  BY <1>1, SizesOrder
<1> QED
  BY <1>2 DEF Plus, Index

LEMMA CellInRange == \A i \in Int : Cell(i) \in 0 .. INPUT_BUF - 1
  BY SizesOrder DEF Cell

LEMMA IndexInt == Index \subseteq Int /\ INPUT_BUF \in Int
  BY SizesOrder DEF Index

LEMMA RemainderNear ==
    ASSUME NEW d \in Nat \ {0}, NEW a \in -d .. 2 * d - 1
    PROVE  a % d = IF a < 0 THEN a + d ELSE IF a < d THEN a ELSE a - d
<1>1. CASE a < 0
  BY <1>1
<1>2. CASE 0 <= a /\ a < d
  BY <1>2
<1>3. CASE d <= a
  BY <1>3
<1> QED
  BY <1>1, <1>2, <1>3

\* An index moved by no more than its range.
LEMMA PlusNear ==
    ASSUME NEW i \in Index, NEW k \in -IndexMod .. IndexMod
    PROVE  Plus(i, k) = IF i + k < 0 THEN i + k + IndexMod
                        ELSE IF i + k < IndexMod THEN i + k ELSE i + k - IndexMod
<1>1. PICK a \in -IndexMod .. 2 * IndexMod - 1 : a = i + k
  BY SizesOrder DEF Index
<1>2. a % IndexMod = IF a < 0 THEN a + IndexMod
                     ELSE IF a < IndexMod THEN a ELSE a - IndexMod
  BY SizesOrder, RemainderNear
<1>3. Plus(i, k) = a % IndexMod /\ i \in Int
  BY <1>1, IndexInt DEF Plus
<1> QED
  BY <1>1, <1>2, <1>3, SizesOrder

\* An index that wraps around comes to the same place of the ring, because
\* INPUT_BUF divides 2^32.
LEMMA CellOfPlus == \A i \in Int, k \in Int : Cell(Plus(i, k)) = (i + k) % INPUT_BUF
<1> TAKE i \in Int, k \in Int
<1>1. PICK m \in Int : IndexMod = m * INPUT_BUF + 0
  BY ConsAssumption, Division
<1>2. PICK a \in Int : a = i + k
  OBVIOUS
<1>3. PICK q \in Int, r \in 0 .. IndexMod - 1 : a = q * IndexMod + r /\ a % IndexMod = r
  BY <1>2, SizesOrder, Division
<1>4. PICK t \in Int, c \in 0 .. INPUT_BUF - 1 : r = t * INPUT_BUF + c /\ r % INPUT_BUF = c
  BY SizesOrder, Division
<1>5. a = (q * m + t) * INPUT_BUF + c
  <2>1. INPUT_BUF \in Int /\ q * IndexMod = (q * m) * INPUT_BUF
    BY <1>1, SizesOrder
  <2>2. a = (q * m) * INPUT_BUF + (t * INPUT_BUF + c)
    BY <1>3, <1>4, <2>1
  <2> QED
    BY <2>1, <2>2
<1>6. ((q * m + t) * INPUT_BUF + c) % INPUT_BUF = c
  <2>1. q * m + t \in Int
    OBVIOUS
  <2> QED
    BY <2>1, SizesOrder, Remainder
<1> QED
  BY <1>2, <1>3, <1>4, <1>5, <1>6 DEF Cell, Plus

\* Indices less than INPUT_BUF apart come to different places.
LEMMA CellsApart ==
    ASSUME NEW c \in Int, NEW e \in 1 .. INPUT_BUF - 1
    PROVE  (c + e) % INPUT_BUF # c % INPUT_BUF
<1>1. PICK q \in Int, r \in 0 .. INPUT_BUF - 1 : c = q * INPUT_BUF + r /\ c % INPUT_BUF = r
  BY SizesOrder, Division
<1>2. CASE r + e < INPUT_BUF
  <2>1. c + e = q * INPUT_BUF + (r + e) /\ r + e \in 0 .. INPUT_BUF - 1
    BY <1>1, <1>2, SizesOrder
  <2>2. (q * INPUT_BUF + (r + e)) % INPUT_BUF = r + e
    BY <2>1, SizesOrder, Remainder
  <2> QED
    BY <1>1, <2>1, <2>2, SizesOrder
<1>3. CASE r + e >= INPUT_BUF
  <2>1. PICK s \in 0 .. INPUT_BUF - 1 : s = r + e - INPUT_BUF
    BY <1>3, SizesOrder
  <2>2. c + e = (q + 1) * INPUT_BUF + s
    BY <1>1, <2>1, SizesOrder
  <2>3. ((q + 1) * INPUT_BUF + s) % INPUT_BUF = s
    BY SizesOrder, Remainder
  <2> QED
    BY <1>1, <2>1, <2>2, <2>3, SizesOrder
<1> QED
  BY <1>1, <1>2, <1>3, SizesOrder

\* How far apart two indices are.
LEMMA SizeIs ==
    ASSUME NEW i \in Index, NEW j \in Index
    PROVE  /\ Size(i, j) = IF i <= j THEN j - i ELSE j - i + IndexMod
           /\ Size(i, j) \in 0 .. IndexMod - 1
<1>1. j \in Int /\ -i \in Int /\ -i \in -IndexMod .. IndexMod
  BY SizesOrder DEF Index
<1> QED
  BY <1>1, PlusNear, SizesOrder DEF Size, Index

\* The place an index comes to is that of any index before it, and the distance.
LEMMA CellAhead ==
    ASSUME NEW i \in Index, NEW j \in Index
    PROVE  Cell(j) = (i + Size(i, j)) % INPUT_BUF
<1>1. Size(i, j) \in Int /\ i \in Int
  BY SizeIs, IndexInt, SizesOrder
<1>2. Plus(i, Size(i, j)) = j
  <2>1. PICK n \in -IndexMod .. IndexMod : n = Size(i, j)
    BY SizeIs, SizesOrder
  <2>2. n = IF i <= j THEN j - i ELSE j - i + IndexMod
    BY <2>1, SizeIs
  <2>3. Plus(i, n) = IF i + n < 0 THEN i + n + IndexMod
                     ELSE IF i + n < IndexMod THEN i + n ELSE i + n - IndexMod
    BY PlusNear
  <2> QED
    BY <2>1, <2>2, <2>3, SizesOrder DEF Index
<1> QED
  BY <1>1, <1>2, CellOfPlus

\* Two distances in a row, as long as together they are less than the range.
LEMMA SizesAdd ==
    ASSUME NEW i \in Index, NEW j \in Index, NEW k \in Index,
           Size(i, j) + Size(j, k) < IndexMod
    PROVE  Size(i, k) = Size(i, j) + Size(j, k)
<1>1. /\ Size(i, j) = IF i <= j THEN j - i ELSE j - i + IndexMod
      /\ Size(j, k) = IF j <= k THEN k - j ELSE k - j + IndexMod
      /\ Size(i, k) = IF i <= k THEN k - i ELSE k - i + IndexMod
  BY SizeIs
<1> QED
  BY <1>1, SizesOrder DEF Index

\* Distances after an index moves by one.
LEMMA SizeAfterOne ==
    ASSUME NEW i \in Index, NEW j \in Index
    PROVE  /\ Size(i, j) + 1 < IndexMod => Size(i, Plus(j, 1)) = Size(i, j) + 1
           /\ i # j => Size(i, Plus(j, -1)) = Size(i, j) - 1
           /\ i # j => Size(Plus(i, 1), j) = Size(i, j) - 1
           /\ Size(i, i) = 0
           /\ i # j <=> Size(i, j) > 0
<1>1. 1 \in -IndexMod .. IndexMod /\ -1 \in -IndexMod .. IndexMod
  BY SizesOrder
<1>2. /\ Plus(j, 1) = IF j + 1 < IndexMod THEN j + 1 ELSE 0
      /\ Plus(i, 1) = IF i + 1 < IndexMod THEN i + 1 ELSE 0
      /\ Plus(j, -1) = IF j = 0 THEN IndexMod - 1 ELSE j - 1
  BY <1>1, PlusNear, SizesOrder DEF Index
<1>3. Plus(j, 1) \in Index /\ Plus(i, 1) \in Index /\ Plus(j, -1) \in Index
  BY <1>2, SizesOrder DEF Index
<1>4. /\ Size(i, j) = IF i <= j THEN j - i ELSE j - i + IndexMod
      /\ Size(i, i) = IF i <= i THEN i - i ELSE i - i + IndexMod
      /\ Size(i, Plus(j, 1)) = IF i <= Plus(j, 1) THEN Plus(j, 1) - i ELSE Plus(j, 1) - i + IndexMod
      /\ Size(i, Plus(j, -1)) = IF i <= Plus(j, -1) THEN Plus(j, -1) - i
                                ELSE Plus(j, -1) - i + IndexMod
      /\ Size(Plus(i, 1), j) = IF Plus(i, 1) <= j THEN j - Plus(i, 1)
                               ELSE j - Plus(i, 1) + IndexMod
  BY <1>3, SizeIs
<1> QED
  BY <1>2, <1>4, SizesOrder DEF Index
-----------------------------------------------------------------------------
\* n characters of a ring, from index i on.
Window(rg, i, n) == [k \in 1 .. n |-> rg[(i + k - 1) % INPUT_BUF]]

Rings == [0 .. INPUT_BUF - 1 -> Chars]

LEMMA WindowIs ==
    ASSUME NEW rg \in Rings, NEW i \in Index, NEW n \in Nat
    PROVE  /\ Window(rg, i, n) \in Seq(Chars) /\ Len(Window(rg, i, n)) = n
           /\ \A k \in 1 .. n : Window(rg, i, n)[k] = rg[(i + k - 1) % INPUT_BUF]
           /\ \A k \in Int : (i + k - 1) % INPUT_BUF \in 0 .. INPUT_BUF - 1
<1>1. \A k \in Int : (i + k - 1) % INPUT_BUF \in 0 .. INPUT_BUF - 1
  <2> TAKE k \in Int
  <2>1. i + k - 1 \in Int
    BY IndexInt
  <2> QED
    BY <2>1, SizesOrder
<1>2. \A k \in 1 .. n : rg[(i + k - 1) % INPUT_BUF] \in Chars
  BY <1>1 DEF Rings
<1>3. Window(rg, i, n) \in Seq(Chars) /\ Len(Window(rg, i, n)) = n
  BY <1>2 DEF Window
<1> QED
  BY <1>1, <1>3 DEF Window

\* What Between describes, of the ring before and after a step.
LEMMA BetweenIs ==
    ASSUME NEW rg, NEW i \in Index, NEW j \in Index
    PROVE  [k \in 1 .. Plus(j, -i) |-> rg[Cell(Plus(i, k - 1))]] = Window(rg, i, Size(i, j))
<1>1. i \in Int
  BY IndexInt
<1>2. \A k \in Int : Cell(Plus(i, k - 1)) = (i + k - 1) % INPUT_BUF
  <2> TAKE k \in Int
  <2>1. k - 1 \in Int /\ i + (k - 1) = i + k - 1
    BY <1>1
  <2> QED
    BY <1>1, <2>1, CellOfPlus
<1>3. \A k \in 1 .. Plus(j, -i) : rg[Cell(Plus(i, k - 1))] = rg[(i + k - 1) % INPUT_BUF]
  BY <1>2
<1> QED
  BY <1>3 DEF Window, Size

\* One more character, written behind the others.
LEMMA WindowAppend ==
    ASSUME NEW rg \in Rings, NEW i \in Index, NEW n \in 0 .. INPUT_BUF - 1, NEW c \in Chars
    PROVE  Window([rg EXCEPT ![(i + n) % INPUT_BUF] = c], i, n + 1) = Append(Window(rg, i, n), c)
<1> DEFINE new == [rg EXCEPT ![(i + n) % INPUT_BUF] = c]
<1>1. n \in Nat /\ n + 1 \in Nat /\ i \in Int /\ new \in Rings
  BY IndexInt, SizesOrder DEF Rings
<1>2. \A k \in 1 .. n : new[(i + k - 1) % INPUT_BUF] = rg[(i + k - 1) % INPUT_BUF]
  <2> TAKE k \in 1 .. n
  <2>1. PICK a \in Int : a = i + k - 1
    BY <1>1
  <2>2. n - k + 1 \in 1 .. INPUT_BUF - 1 /\ a + (n - k + 1) = i + n
    BY <1>1, <2>1, SizesOrder
  <2>3. (i + n) % INPUT_BUF # a % INPUT_BUF
    BY <2>2, CellsApart
  <2> QED
    BY <2>1, <2>3 DEF Rings
<1>3. new[(i + (n + 1) - 1) % INPUT_BUF] = c
  <2>1. i + (n + 1) - 1 = i + n /\ i + n \in Int
    BY <1>1
  <2>2. (i + n) % INPUT_BUF \in 0 .. INPUT_BUF - 1
    BY <2>1, SizesOrder
  <2> QED
    BY <2>1, <2>2 DEF Rings
<1> HIDE DEF new
<1>4. /\ Window(rg, i, n) \in Seq(Chars) /\ Len(Window(rg, i, n)) = n
      /\ \A k \in 1 .. n : Window(rg, i, n)[k] = rg[(i + k - 1) % INPUT_BUF]
  BY <1>1, WindowIs
<1>5. /\ Window(new, i, n + 1) \in Seq(Chars) /\ Len(Window(new, i, n + 1)) = n + 1
      /\ \A k \in 1 .. n + 1 : Window(new, i, n + 1)[k] = new[(i + k - 1) % INPUT_BUF]
  BY <1>1, WindowIs
<1>6. /\ Append(Window(rg, i, n), c) \in Seq(Chars) /\ Len(Append(Window(rg, i, n), c)) = n + 1
      /\ \A k \in 1 .. n : Append(Window(rg, i, n), c)[k] = Window(rg, i, n)[k]
      /\ Append(Window(rg, i, n), c)[n + 1] = c
  BY <1>4, AppendProperties
<1>7. ASSUME NEW k \in 1 .. n + 1 PROVE Window(new, i, n + 1)[k] = Append(Window(rg, i, n), c)[k]
  <2>1. k \in 1 .. n \/ k = n + 1
    BY <1>1
  <2> QED
    BY <1>2, <1>3, <1>4, <1>5, <1>6, <2>1
<1>8. Window(new, i, n + 1) = Append(Window(rg, i, n), c)
  BY <1>5, <1>6, <1>7, SeqEqual
<1> QED
  BY <1>8 DEF new

\* A character written behind a window leaves the window alone.
LEMMA WindowKept ==
    ASSUME NEW rg \in Rings, NEW i \in Index, NEW n \in Nat, NEW m \in 0 .. INPUT_BUF - 1,
           NEW c \in Chars, n <= m
    PROVE  Window([rg EXCEPT ![(i + m) % INPUT_BUF] = c], i, n) = Window(rg, i, n)
<1> DEFINE new == [rg EXCEPT ![(i + m) % INPUT_BUF] = c]
<1>1. i \in Int
  BY IndexInt
<1>2. \A k \in 1 .. n : new[(i + k - 1) % INPUT_BUF] = rg[(i + k - 1) % INPUT_BUF]
  <2> TAKE k \in 1 .. n
  <2>1. PICK a \in Int : a = i + k - 1
    BY <1>1
  <2>2. m - k + 1 \in 1 .. INPUT_BUF - 1 /\ a + (m - k + 1) = i + m
    BY <1>1, <2>1, SizesOrder
  <2>3. (i + m) % INPUT_BUF # a % INPUT_BUF
    BY <2>2, CellsApart
  <2> QED
    BY <2>1, <2>3 DEF Rings
<1> HIDE DEF new
<1>3. Window(new, i, n) = Window(rg, i, n)
  BY <1>2 DEF Window
<1> QED
  BY <1>3 DEF new

\* One character less at the end.
LEMMA WindowShort ==
    ASSUME NEW rg \in Rings, NEW i \in Index, NEW n \in Nat \ {0}
    PROVE  Window(rg, i, n - 1) = SubSeq(Window(rg, i, n), 1, n - 1)
<1>1. n - 1 \in Nat /\ n \in Nat
  OBVIOUS
<1>2. /\ Window(rg, i, n) \in Seq(Chars) /\ Len(Window(rg, i, n)) = n
      /\ \A k \in 1 .. n : Window(rg, i, n)[k] = rg[(i + k - 1) % INPUT_BUF]
  BY WindowIs
<1>3. /\ Window(rg, i, n - 1) \in Seq(Chars) /\ Len(Window(rg, i, n - 1)) = n - 1
      /\ \A k \in 1 .. n - 1 : Window(rg, i, n - 1)[k] = rg[(i + k - 1) % INPUT_BUF]
  BY <1>1, WindowIs
<1>4. /\ SubSeq(Window(rg, i, n), 1, n - 1) \in Seq(Chars)
      /\ Len(SubSeq(Window(rg, i, n), 1, n - 1)) = n - 1
      /\ \A k \in 1 .. n - 1 : SubSeq(Window(rg, i, n), 1, n - 1)[k] = Window(rg, i, n)[k]
  <2>1. \A k \in 1 .. n - 1 : Window(rg, i, n)[k] \in Chars
    BY <1>2
  <2> HIDE DEF Chars
  <2> QED
    BY <1>1, <1>2, <2>1
<1>5. \A k \in 1 .. n - 1 : Window(rg, i, n - 1)[k] = SubSeq(Window(rg, i, n), 1, n - 1)[k]
  <2> TAKE k \in 1 .. n - 1
  <2>1. k \in 1 .. n
    BY <1>1
  <2> QED
    BY <1>2, <1>3, <1>4, <2>1
<1> QED
  BY <1>3, <1>4, <1>5, SeqEqual

\* An index that wraps around comes to the same place.
LEMMA CellAfterWrap == \A c \in Int : (c + IndexMod) % INPUT_BUF = c % INPUT_BUF
<1> TAKE c \in Int
<1>1. PICK m \in Int : IndexMod = m * INPUT_BUF + 0
  BY ConsAssumption, Division
<1>2. PICK q \in Int, r \in 0 .. INPUT_BUF - 1 : c = q * INPUT_BUF + r /\ c % INPUT_BUF = r
  BY SizesOrder, Division
<1>3. c + IndexMod = (q + m) * INPUT_BUF + r
  BY <1>1, <1>2, SizesOrder
<1>4. ((q + m) * INPUT_BUF + r) % INPUT_BUF = r
  BY <1>2, SizesOrder, Remainder
<1> QED
  BY <1>2, <1>3, <1>4

\* One character less at the front.
LEMMA WindowTail ==
    ASSUME NEW rg \in Rings, NEW i \in Index, NEW n \in Nat \ {0}
    PROVE  /\ Window(rg, Plus(i, 1), n - 1) = Tail(Window(rg, i, n))
           /\ Head(Window(rg, i, n)) = rg[Cell(i)] /\ Window(rg, i, n) # <<>>
<1>1. n - 1 \in Nat /\ n \in Nat /\ i \in Int /\ Plus(i, 1) \in Index /\ Plus(i, 1) \in Int
  <2>1. i \in Int /\ 1 \in Int
    BY IndexInt
  <2>2. Plus(i, 1) \in Index
    BY <2>1, PlusInRange
  <2>3. Plus(i, 1) \in Int
    BY <2>2, IndexInt
  <2> QED
    BY <2>1, <2>2, <2>3
<1>2. /\ Window(rg, i, n) \in Seq(Chars) /\ Len(Window(rg, i, n)) = n
      /\ \A k \in 1 .. n : Window(rg, i, n)[k] = rg[(i + k - 1) % INPUT_BUF]
  BY WindowIs
<1>3. /\ Window(rg, Plus(i, 1), n - 1) \in Seq(Chars) /\ Len(Window(rg, Plus(i, 1), n - 1)) = n - 1
      /\ \A k \in 1 .. n - 1 :
           Window(rg, Plus(i, 1), n - 1)[k] = rg[(Plus(i, 1) + k - 1) % INPUT_BUF]
  BY <1>1, WindowIs
<1>4. Window(rg, i, n) # <<>>
  BY <1>2
<1>5. /\ Tail(Window(rg, i, n)) \in Seq(Chars) /\ Len(Tail(Window(rg, i, n))) = n - 1
      /\ \A k \in 1 .. n - 1 : Tail(Window(rg, i, n))[k] = Window(rg, i, n)[k + 1]
  BY <1>2, <1>4, HeadTailProperties
<1>6. ASSUME NEW k \in 1 .. n - 1
      PROVE  (Plus(i, 1) + k - 1) % INPUT_BUF = (i + (k + 1) - 1) % INPUT_BUF
  <2>1. Plus(i, 1) = i + 1 \/ Plus(i, 1) + IndexMod = i + 1
    <3>1. 1 \in -IndexMod .. IndexMod
      BY SizesOrder
    <3>2. Plus(i, 1) = IF i + 1 < 0 THEN i + 1 + IndexMod
                       ELSE IF i + 1 < IndexMod THEN i + 1 ELSE i + 1 - IndexMod
      BY <3>1, PlusNear
    <3> QED
      BY <1>1, <3>2, SizesOrder DEF Index
  <2>2. PICK c \in Int : c = Plus(i, 1) + k - 1
    BY <1>1
  <2>3. i + (k + 1) - 1 = c \/ i + (k + 1) - 1 = c + IndexMod
    BY <1>1, <2>1, <2>2, SizesOrder
  <2> QED
    BY <2>2, <2>3, CellAfterWrap
<1>7. ASSUME NEW k \in 1 .. n - 1
      PROVE  Window(rg, Plus(i, 1), n - 1)[k] = Tail(Window(rg, i, n))[k]
  <2>1. k + 1 \in 1 .. n
    BY <1>1
  <2> QED
    BY <1>2, <1>3, <1>5, <1>6, <2>1
<1>8. Window(rg, Plus(i, 1), n - 1) = Tail(Window(rg, i, n))
  BY <1>3, <1>5, <1>7, SeqEqual
<1>9. Head(Window(rg, i, n)) = rg[Cell(i)]
  <2>1. i + 1 - 1 = i /\ 1 \in 1 .. n
    BY <1>1
  <2>2. Head(Window(rg, i, n)) = Window(rg, i, n)[1]
    BY <1>2, <1>4
  <2> QED
    BY <1>2, <2>1, <2>2 DEF Cell
<1> QED
  BY <1>4, <1>8, <1>9

\* A window is its two parts.
LEMMA WindowJoin ==
    ASSUME NEW rg \in Rings, NEW i \in Index, NEW j \in Index, NEW n \in Nat
    PROVE  Window(rg, i, Size(i, j) + n) = Window(rg, i, Size(i, j)) \o Window(rg, j, n)
<1>1. PICK m \in Nat : m = Size(i, j)
  BY SizeIs, SizesOrder
<1>2. i \in Int /\ j \in Int /\ m + n \in Nat
  BY IndexInt, <1>1
<1>3. i + m = j \/ i + m = j + IndexMod
  BY <1>1, <1>2, SizeIs, SizesOrder
<1>4. \A k \in Int : (i + (m + k) - 1) % INPUT_BUF = (j + k - 1) % INPUT_BUF
  <2> TAKE k \in Int
  <2>1. PICK c \in Int : c = j + k - 1
    BY <1>2
  <2>2. i + (m + k) - 1 = c \/ i + (m + k) - 1 = c + IndexMod
    BY <1>2, <1>3, <2>1, SizesOrder
  <2> QED
    BY <2>1, <2>2, CellAfterWrap
<1>5. /\ Window(rg, i, m) \in Seq(Chars) /\ Len(Window(rg, i, m)) = m
      /\ \A k \in 1 .. m : Window(rg, i, m)[k] = rg[(i + k - 1) % INPUT_BUF]
  BY WindowIs
<1>6. /\ Window(rg, j, n) \in Seq(Chars) /\ Len(Window(rg, j, n)) = n
      /\ \A k \in 1 .. n : Window(rg, j, n)[k] = rg[(j + k - 1) % INPUT_BUF]
  BY WindowIs
<1>7. /\ Window(rg, i, m + n) \in Seq(Chars) /\ Len(Window(rg, i, m + n)) = m + n
      /\ \A k \in 1 .. m + n : Window(rg, i, m + n)[k] = rg[(i + k - 1) % INPUT_BUF]
  BY <1>2, WindowIs
<1>8. /\ Window(rg, i, m) \o Window(rg, j, n) \in Seq(Chars)
      /\ Len(Window(rg, i, m) \o Window(rg, j, n)) = m + n
      /\ \A k \in 1 .. m + n : (Window(rg, i, m) \o Window(rg, j, n))[k] =
            IF k <= m THEN Window(rg, i, m)[k] ELSE Window(rg, j, n)[k - m]
  <2> DEFINE a == Window(rg, i, m)
             b == Window(rg, j, n)
  <2>1. a \in Seq(Chars) /\ Len(a) = m /\ b \in Seq(Chars) /\ Len(b) = n
    BY <1>5, <1>6
  <2> HIDE DEF a, b
  <2>2. /\ a \o b \in Seq(Chars) /\ Len(a \o b) = m + n
        /\ \A k \in 1 .. m + n : (a \o b)[k] = IF k <= m THEN a[k] ELSE b[k - m]
    BY <2>1, ConcatProperties
  <2> QED
    BY <2>2 DEF a, b
<1>9. ASSUME NEW k \in 1 .. m + n
      PROVE  Window(rg, i, m + n)[k] = (Window(rg, i, m) \o Window(rg, j, n))[k]
  <2>1. CASE k <= m
    <3>1. k \in 1 .. m
      BY <2>1
    <3> QED
      BY <1>5, <1>7, <1>8, <2>1, <3>1
  <2>2. CASE ~(k <= m)
    <3>1. k - m \in 1 .. n /\ k - m \in Int /\ m + (k - m) = k
      BY <1>2, <2>2
    <3>2. (i + k - 1) % INPUT_BUF = (j + (k - m) - 1) % INPUT_BUF
      BY <1>4, <3>1
    <3> QED
      BY <1>6, <1>7, <1>8, <2>2, <3>1, <3>2
  <2> QED
    BY <2>1, <2>2
<1>10. Window(rg, i, m + n) = Window(rg, i, m) \o Window(rg, j, n)
  BY <1>7, <1>8, <1>9, SeqEqual
<1> QED
  BY <1>1, <1>10
-----------------------------------------------------------------------------
RingInv == ConsTypes /\ RingBounded /\ LineClean

LEMMA RingSizes ==
    ASSUME ConsTypes, RingBounded
    PROVE  /\ Size(rIndex, wIndex) \in 0 .. INPUT_BUF /\ Size(wIndex, eIndex) \in 0 .. INPUT_BUF
           /\ Size(rIndex, eIndex) = Size(rIndex, wIndex) + Size(wIndex, eIndex)
           /\ Size(rIndex, eIndex) \in 0 .. INPUT_BUF
<1>1. rIndex \in Index /\ wIndex \in Index /\ eIndex \in Index
  BY DEF ConsTypes
<1>2. Size(rIndex, wIndex) \in 0 .. IndexMod - 1 /\ Size(wIndex, eIndex) \in 0 .. IndexMod - 1
  BY <1>1, SizeIs
<1>3. Size(rIndex, wIndex) + Size(wIndex, eIndex) < IndexMod
  BY <1>2, SizesOrder DEF RingBounded
<1>4. Size(rIndex, eIndex) = Size(rIndex, wIndex) + Size(wIndex, eIndex)
  BY <1>1, <1>3, SizesAdd
<1> QED
  BY <1>2, <1>4, SizesOrder DEF RingBounded

\* ^U goes back to w: the line has no newline to stop at.
LEMMA LineStartIs == RingInv => LineStart = Size(wIndex, eIndex)
<1> SUFFICES ASSUME RingInv PROVE LineStart = Size(wIndex, eIndex)
  OBVIOUS
<1>1. wIndex \in Index /\ eIndex \in Index /\ wIndex \in Int /\ eIndex \in Int
  BY IndexInt DEF RingInv, ConsTypes
<1>2. PICK n \in 0 .. INPUT_BUF : n = Size(wIndex, eIndex)
  BY RingSizes DEF RingInv
<1>3. n = IF wIndex <= eIndex THEN eIndex - wIndex ELSE eIndex - wIndex + IndexMod
  BY <1>1, <1>2, SizeIs
<1>4. ASSUME NEW j \in 0 .. n
      PROVE  Plus(eIndex, -j) = IF eIndex - j < 0 THEN eIndex - j + IndexMod ELSE eIndex - j
  <2>1. -j \in -IndexMod .. IndexMod
    BY <1>2, SizesOrder
  <2>2. Plus(eIndex, -j) = IF eIndex + (-j) < 0 THEN eIndex + (-j) + IndexMod
                           ELSE IF eIndex + (-j) < IndexMod THEN eIndex + (-j)
                                ELSE eIndex + (-j) - IndexMod
    BY <1>1, <2>1, PlusNear
  <2>3. eIndex < IndexMod
    BY <1>1, SizesOrder DEF Index
  <2> QED
    BY <1>1, <2>2, <2>3, SizesOrder
<1>5. Plus(eIndex, -n) = wIndex
  <2>1. n \in 0 .. n
    BY <1>2, SizesOrder
  <2>2. Plus(eIndex, -n) = IF eIndex - n < 0 THEN eIndex - n + IndexMod ELSE eIndex - n
    BY <1>4, <2>1
  <2> QED
    BY <1>1, <1>2, <1>3, <2>2, SizesOrder DEF Index
<1>6. ASSUME NEW j \in 0 .. n - 1
      PROVE  /\ Plus(eIndex, -j) # wIndex
             /\ ring[Cell(Plus(eIndex, -(j + 1)))] # "nl"
  <2>1. j \in 0 .. n /\ j \in Int
    BY <1>2, SizesOrder
  <2>2. Plus(eIndex, -j) # wIndex
    <3>1. Plus(eIndex, -j) = IF eIndex - j < 0 THEN eIndex - j + IndexMod ELSE eIndex - j
      BY <1>4, <2>1
    <3> QED
      BY <1>1, <1>2, <1>3, <3>1, SizesOrder DEF Index
  <2>3. PICK a \in Int : a = eIndex - (j + 1)
    BY <1>1, <2>1
  <2>4. Cell(Plus(eIndex, -(j + 1))) = a % INPUT_BUF
    <3>1. -(j + 1) \in Int /\ eIndex + (-(j + 1)) = a
      BY <1>1, <2>1, <2>3
    <3> QED
      BY <1>1, <3>1, CellOfPlus
  <2>5. PICK k \in 1 .. n : k = n - j
    BY <1>2, SizesOrder
  <2>6. wIndex + k - 1 = a \/ wIndex + k - 1 = a + IndexMod
    BY <1>1, <1>2, <1>3, <2>1, <2>3, <2>5, SizesOrder
  <2>7. (wIndex + k - 1) % INPUT_BUF = a % INPUT_BUF
    BY <2>3, <2>6, CellAfterWrap
  <2>8. ring[(wIndex + k - 1) % INPUT_BUF] # "nl"
    BY <1>2 DEF RingInv, LineClean
  <2> QED
    BY <2>2, <2>4, <2>7, <2>8
<1> DEFINE back == {k \in 0 .. INPUT_BUF :
                      /\ \A j \in 0 .. k - 1 : Plus(eIndex, -j) # wIndex
                                               /\ ring[Cell(Plus(eIndex, -(j + 1)))] # "nl"}
<1>7. \A k \in back : k \in Int /\ k <= n
  <2> SUFFICES ASSUME NEW k \in back, ~(k <= n) PROVE FALSE
    BY SizesOrder
  <2>1. k \in Int /\ n \in 0 .. k - 1
    BY <1>2, SizesOrder
  <2> QED
    BY <1>5, <2>1
<1>8. n \in back
  BY <1>2, <1>6, SizesOrder
<1>9. LineStart = CHOOSE k \in back : \A j \in back : j <= k
  BY DEF LineStart
<1> HIDE DEF back
<1>10. \A k \in back : (\A j \in back : j <= k) => k = n
  BY <1>2, <1>7, <1>8
<1>11. (CHOOSE k \in back : \A j \in back : j <= k) = n
  BY <1>7, <1>8, <1>10
<1> QED
  BY <1>2, <1>9, <1>11

\* What Terminal sees of the ring.
RingView ==
    /\ Between(rIndex, wIndex) = Window(ring, rIndex, Size(rIndex, wIndex))
    /\ Between(wIndex, eIndex) = Window(ring, wIndex, Size(wIndex, eIndex))

LEMMA RingViewIs == ConsTypes => RingView
<1> SUFFICES ASSUME ConsTypes PROVE RingView
  OBVIOUS
<1>1. rIndex \in Index /\ wIndex \in Index /\ eIndex \in Index
  BY DEF ConsTypes
<1>2. \A i, j \in Index : Between(i, j) = Window(ring, i, Size(i, j))
  BY BetweenIs DEF Between
<1> QED
  BY <1>1, <1>2 DEF RingView

LEMMA RingViewNext == ConsTypes' => RingView'
  BY RingViewIs, PTL

LEMMA RingParts ==
    ASSUME ConsTypes, RingBounded
    PROVE  /\ Between(rIndex, wIndex) \in Seq(Chars) /\ Between(wIndex, eIndex) \in Seq(Chars)
           /\ Len(Between(rIndex, wIndex)) = Size(rIndex, wIndex)
           /\ Len(Between(wIndex, eIndex)) = Size(wIndex, eIndex)
           /\ Between(rIndex, wIndex) = <<>> <=> rIndex = wIndex
           /\ Between(wIndex, eIndex) = <<>> <=> wIndex = eIndex
           /\ \A k \in 1 .. Size(wIndex, eIndex) :
                 Between(wIndex, eIndex)[k] = ring[(wIndex + k - 1) % INPUT_BUF]
<1>1. rIndex \in Index /\ wIndex \in Index /\ eIndex \in Index /\ ring \in Rings
  BY DEF ConsTypes, Rings
<1>2. Size(rIndex, wIndex) \in Nat /\ Size(wIndex, eIndex) \in Nat
  BY RingSizes, SizesOrder
<1>3. /\ Window(ring, rIndex, Size(rIndex, wIndex)) \in Seq(Chars)
      /\ Len(Window(ring, rIndex, Size(rIndex, wIndex))) = Size(rIndex, wIndex)
      /\ Window(ring, wIndex, Size(wIndex, eIndex)) \in Seq(Chars)
      /\ Len(Window(ring, wIndex, Size(wIndex, eIndex))) = Size(wIndex, eIndex)
      /\ \A k \in 1 .. Size(wIndex, eIndex) : Window(ring, wIndex, Size(wIndex, eIndex))[k]
            = ring[(wIndex + k - 1) % INPUT_BUF]
  BY <1>1, <1>2, WindowIs
<1>4. rIndex # wIndex <=> Size(rIndex, wIndex) > 0
  BY <1>1, SizeAfterOne
<1>5. wIndex # eIndex <=> Size(wIndex, eIndex) > 0
  BY <1>1, SizeAfterOne
<1>6. \A s \in Seq(Chars) : s = <<>> <=> Len(s) = 0
  BY EmptySeq
<1> QED
  BY <1>2, <1>3, <1>4, <1>5, <1>6, RingViewIs DEF RingView
-----------------------------------------------------------------------------
\* ^H takes the last character of the line.
LEMMA EraseRing ==
    ASSUME RingInv, ConsTypes', eIndex # wIndex, eIndex' = Plus(eIndex, -1),
           UNCHANGED <<ring, rIndex, wIndex>>
    PROVE  /\ RingBounded' /\ LineClean'
           /\ Between(wIndex, eIndex) # <<>>
           /\ Between(wIndex, eIndex)' =
                SubSeq(Between(wIndex, eIndex), 1, Len(Between(wIndex, eIndex)) - 1)
           /\ Between(rIndex, wIndex)' = Between(rIndex, wIndex)
<1>1. rIndex \in Index /\ wIndex \in Index /\ eIndex \in Index /\ ring \in Rings
  BY DEF RingInv, ConsTypes, Rings
<1>2. Size(wIndex, eIndex) \in Nat \ {0} /\ Size(wIndex', eIndex') = Size(wIndex, eIndex) - 1
  BY <1>1, SizeAfterOne, RingSizes, SizesOrder DEF RingInv
<1>3. Size(rIndex', wIndex') = Size(rIndex, wIndex) /\ Size(rIndex, wIndex) \in Nat
  BY RingSizes, SizesOrder DEF RingInv
<1>4. RingBounded'
  BY <1>2, <1>3, SizesOrder DEF RingInv, RingBounded
<1>5. LineClean'
  BY <1>2, <1>3 DEF RingInv, LineClean
<1>6. RingView /\ RingView'
  BY RingViewIs, RingViewNext DEF RingInv
<1>7. Between(rIndex, wIndex)' = Between(rIndex, wIndex)
  BY <1>3, <1>6 DEF RingView
<1>8. Between(wIndex, eIndex)' = SubSeq(Between(wIndex, eIndex), 1, Size(wIndex, eIndex) - 1)
  BY <1>1, <1>2, <1>6, WindowShort DEF RingView
<1>9. Between(wIndex, eIndex) # <<>> /\ Len(Between(wIndex, eIndex)) = Size(wIndex, eIndex)
  BY RingParts DEF RingInv
<1> QED
  BY <1>4, <1>5, <1>7, <1>8, <1>9

\* ^U takes them all.
LEMMA KillRing ==
    ASSUME RingInv, ConsTypes', eIndex' = Plus(eIndex, -LineStart),
           UNCHANGED <<ring, rIndex, wIndex>>
    PROVE  /\ RingBounded' /\ LineClean'
           /\ Between(wIndex, eIndex)' = <<>>
           /\ Between(rIndex, wIndex)' = Between(rIndex, wIndex)
<1>1. rIndex \in Index /\ wIndex \in Index /\ eIndex \in Index /\ ring \in Rings
  BY DEF RingInv, ConsTypes, Rings
<1>2. PICK n \in 0 .. INPUT_BUF : n = Size(wIndex, eIndex)
  BY RingSizes DEF RingInv
<1>3. eIndex' = wIndex
  <2>1. n = IF wIndex <= eIndex THEN eIndex - wIndex ELSE eIndex - wIndex + IndexMod
    BY <1>1, <1>2, SizeIs
  <2>2. -n \in -IndexMod .. IndexMod
    BY <1>2, SizesOrder
  <2>3. Plus(eIndex, -n) = IF eIndex + (-n) < 0 THEN eIndex + (-n) + IndexMod
                           ELSE IF eIndex + (-n) < IndexMod THEN eIndex + (-n)
                                ELSE eIndex + (-n) - IndexMod
    BY <1>1, <2>2, PlusNear
  <2>4. Plus(eIndex, -n) = wIndex
    BY <1>1, <1>2, <2>1, <2>3, SizesOrder DEF Index
  <2> QED
    BY <1>2, <2>4, LineStartIs
<1>4. Size(wIndex', eIndex') = 0 /\ Size(rIndex', wIndex') = Size(rIndex, wIndex)
  BY <1>1, <1>3, SizeAfterOne
<1>5. RingBounded' /\ LineClean'
  BY <1>4, RingSizes, SizesOrder DEF RingInv, RingBounded, LineClean
<1>6. RingView /\ RingView'
  BY RingViewIs, RingViewNext DEF RingInv
<1>7. Between(wIndex, eIndex)' = <<>>
  <2>1. Window(ring', wIndex', 0) = <<>>
    BY DEF Window
  <2> QED
    BY <1>4, <1>6, <2>1 DEF RingView
<1> QED
  BY <1>4, <1>5, <1>6, <1>7 DEF RingView

\* A reader takes the first character that was handed over.
LEMMA TakeRing ==
    ASSUME RingInv, ConsTypes', rIndex # wIndex, rIndex' = Plus(rIndex, 1),
           UNCHANGED <<ring, wIndex, eIndex>>
    PROVE  /\ RingBounded' /\ LineClean'
           /\ Between(rIndex, wIndex)' = Tail(Between(rIndex, wIndex))
           /\ Between(wIndex, eIndex)' = Between(wIndex, eIndex)
<1>1. rIndex \in Index /\ wIndex \in Index /\ eIndex \in Index /\ ring \in Rings
  BY DEF RingInv, ConsTypes, Rings
<1>2. Size(rIndex, wIndex) \in Nat \ {0} /\ Size(rIndex', wIndex') = Size(rIndex, wIndex) - 1
  BY <1>1, SizeAfterOne, RingSizes, SizesOrder DEF RingInv
<1>3. Size(wIndex', eIndex') = Size(wIndex, eIndex) /\ Size(wIndex, eIndex) \in Nat
  BY RingSizes, SizesOrder DEF RingInv
<1>4. RingBounded'
  BY <1>2, <1>3, SizesOrder DEF RingInv, RingBounded
<1>5. LineClean'
  BY <1>3 DEF RingInv, LineClean
<1>6. RingView /\ RingView'
  BY RingViewIs, RingViewNext DEF RingInv
<1>7. Between(rIndex, wIndex)' = Tail(Between(rIndex, wIndex))
  BY <1>1, <1>2, <1>6, WindowTail DEF RingView
<1> QED
  BY <1>3, <1>4, <1>5, <1>6, <1>7 DEF RingView

\* What a reader finds first.
LEMMA FirstInRing ==
    ASSUME RingInv, rIndex # wIndex
    PROVE  Between(rIndex, wIndex) # <<>> /\ Head(Between(rIndex, wIndex)) = ring[Cell(rIndex)]
<1>1. rIndex \in Index /\ wIndex \in Index /\ ring \in Rings
  BY DEF RingInv, ConsTypes, Rings
<1>2. Size(rIndex, wIndex) \in Nat \ {0}
  BY <1>1, SizeAfterOne, RingSizes, SizesOrder DEF RingInv
<1>3. RingView
  BY RingViewIs DEF RingInv
<1> QED
  BY <1>1, <1>2, <1>3, WindowTail DEF RingView

\* Where a character goes that is typed while the ring has room, and when it
\* fills the ring.
LEMMA KeyPlace ==
    ASSUME RingInv, Plus(eIndex, -rIndex) < INPUT_BUF
    PROVE  /\ Size(rIndex, eIndex) \in 0 .. INPUT_BUF - 1
           /\ Size(wIndex, eIndex) \in 0 .. INPUT_BUF - 1
           /\ Cell(eIndex) = (wIndex + Size(wIndex, eIndex)) % INPUT_BUF
           /\ Cell(eIndex) = (rIndex + Size(rIndex, eIndex)) % INPUT_BUF
           /\ Plus(eIndex, 1) = Plus(rIndex, INPUT_BUF) <=> Size(rIndex, eIndex) + 1 = INPUT_BUF
           /\ Size(rIndex, Plus(eIndex, 1)) = Size(rIndex, eIndex) + 1
           /\ Size(wIndex, Plus(eIndex, 1)) = Size(wIndex, eIndex) + 1
<1>1. rIndex \in Index /\ wIndex \in Index /\ eIndex \in Index
  BY DEF RingInv, ConsTypes
<1>2. /\ Size(rIndex, eIndex) \in 0 .. INPUT_BUF - 1
      /\ Size(wIndex, eIndex) \in 0 .. INPUT_BUF - 1
  <2>1. Size(rIndex, eIndex) < INPUT_BUF
    BY DEF Size
  <2> QED
    BY <2>1, RingSizes, SizesOrder DEF RingInv
<1>3. /\ Cell(eIndex) = (wIndex + Size(wIndex, eIndex)) % INPUT_BUF
      /\ Cell(eIndex) = (rIndex + Size(rIndex, eIndex)) % INPUT_BUF
  BY <1>1, CellAhead
<1>4. /\ Size(rIndex, Plus(eIndex, 1)) = Size(rIndex, eIndex) + 1
      /\ Size(wIndex, Plus(eIndex, 1)) = Size(wIndex, eIndex) + 1
  <2>1. Size(rIndex, eIndex) + 1 < IndexMod /\ Size(wIndex, eIndex) + 1 < IndexMod
    BY <1>2, SizesOrder
  <2> QED
    BY <1>1, <2>1, SizeAfterOne
<1>5. Plus(eIndex, 1) = Plus(rIndex, INPUT_BUF) <=> Size(rIndex, eIndex) + 1 = INPUT_BUF
  <2>1. 1 \in -IndexMod .. IndexMod /\ INPUT_BUF \in -IndexMod .. IndexMod
    BY SizesOrder
  <2>2. Plus(eIndex, 1) = IF eIndex + 1 < 0 THEN eIndex + 1 + IndexMod
                          ELSE IF eIndex + 1 < IndexMod THEN eIndex + 1 ELSE eIndex + 1 - IndexMod
    BY <1>1, <2>1, PlusNear
  <2>3. Plus(rIndex, INPUT_BUF) = IF rIndex + INPUT_BUF < 0 THEN rIndex + INPUT_BUF + IndexMod
                                  ELSE IF rIndex + INPUT_BUF < IndexMod THEN rIndex + INPUT_BUF
                                       ELSE rIndex + INPUT_BUF - IndexMod
    BY <1>1, <2>1, PlusNear
  <2>4. Size(rIndex, eIndex) = IF rIndex <= eIndex THEN eIndex - rIndex
                               ELSE eIndex - rIndex + IndexMod
    BY <1>1, SizeIs
  <2> QED
    BY <1>1, <1>2, <2>2, <2>3, <2>4, SizesOrder DEF Index
<1> QED
  BY <1>2, <1>3, <1>4, <1>5

\* A character that does not end the line.
LEMMA KeyRing ==
    ASSUME RingInv, ConsTypes', Plus(eIndex, -rIndex) < INPUT_BUF, NEW c \in Chars, c # "nl",
           ring' = [ring EXCEPT ![Cell(eIndex)] = c], eIndex' = Plus(eIndex, 1),
           UNCHANGED <<rIndex, wIndex>>
    PROVE  /\ RingBounded' /\ LineClean'
           /\ Between(wIndex, eIndex)' = Append(Between(wIndex, eIndex), c)
           /\ Between(rIndex, wIndex)' = Between(rIndex, wIndex)
<1>1. /\ rIndex \in Index /\ wIndex \in Index /\ eIndex \in Index /\ ring \in Rings
      /\ eIndex' \in Index /\ ring' \in Rings
  BY DEF RingInv, ConsTypes, Rings
<1>2. PICK m \in 0 .. INPUT_BUF - 1 : m = Size(rIndex, eIndex)
  BY KeyPlace
<1>3. PICK n \in 0 .. INPUT_BUF - 1 : n = Size(wIndex, eIndex)
  BY KeyPlace
<1>4. PICK l \in Nat : l = Size(rIndex, wIndex) /\ m = l + n
  BY <1>2, <1>3, RingSizes, SizesOrder DEF RingInv
<1>5. Size(wIndex', eIndex') = n + 1 /\ Size(rIndex', wIndex') = l
  BY <1>3, <1>4, KeyPlace
<1>6. RingView /\ RingView'
  BY RingViewIs, RingViewNext DEF RingInv
<1>7. Between(wIndex, eIndex)' = Append(Between(wIndex, eIndex), c)
  <2>1. ring' = [ring EXCEPT ![(wIndex + n) % INPUT_BUF] = c]
    BY <1>3, KeyPlace
  <2>2. Window([ring EXCEPT ![(wIndex + n) % INPUT_BUF] = c], wIndex, n + 1)
          = Append(Window(ring, wIndex, n), c)
    BY <1>1, WindowAppend
  <2>3. Window(ring', wIndex, n + 1) = Append(Window(ring, wIndex, n), c)
    BY <2>1, <2>2, Zenon
  <2> QED
    BY <1>3, <1>5, <1>6, <2>3 DEF RingView
<1>8. Between(rIndex, wIndex)' = Between(rIndex, wIndex)
  <2>1. ring' = [ring EXCEPT ![(rIndex + m) % INPUT_BUF] = c]
    BY <1>2, KeyPlace
  <2>2. l <= m
    BY <1>3, <1>4, SizesOrder
  <2>3. Window([ring EXCEPT ![(rIndex + m) % INPUT_BUF] = c], rIndex, l)
          = Window(ring, rIndex, l)
    <3>1. /\ ring \in Rings /\ rIndex \in Index /\ l \in Nat /\ m \in 0 .. INPUT_BUF - 1
          /\ c \in Chars /\ l <= m
      BY <1>1, <2>2
    <3> HIDE DEF Rings, Chars, Index
    <3> QED
      BY ONLY <3>1, WindowKept
  <2>4. Window(ring', rIndex, l) = Window(ring, rIndex, l)
    BY <2>1, <2>3, Zenon
  <2> QED
    BY <1>4, <1>5, <1>6, <2>4 DEF RingView
<1>9. RingBounded'
  BY <1>2, <1>3, <1>4, <1>5, SizesOrder DEF RingBounded
<1>10. LineClean'
  <2>1. ASSUME NEW k \in 1 .. n + 1 PROVE ring'[(wIndex + k - 1) % INPUT_BUF] # "nl"
    <3>1. n + 1 \in Nat /\ n \in Nat /\ (k \in 1 .. n \/ k = n + 1)
      BY <1>3, SizesOrder
    <3>2. Window(ring', wIndex, n + 1)[k] = ring'[(wIndex + k - 1) % INPUT_BUF]
      BY <3>1, Zenon DEF Window
    <3>3. /\ Window(ring, wIndex, n) \in Seq(Chars) /\ Len(Window(ring, wIndex, n)) = n
          /\ \A j \in 1 .. n : Window(ring, wIndex, n)[j] = ring[(wIndex + j - 1) % INPUT_BUF]
      BY ZenonT(60), <1>1, <3>1, WindowIs
    <3>4. /\ \A j \in 1 .. n : Append(Window(ring, wIndex, n), c)[j] = Window(ring, wIndex, n)[j]
          /\ Append(Window(ring, wIndex, n), c)[n + 1] = c
      BY <3>3, AppendProperties
    <3>5. Window(ring', wIndex, n + 1) = Append(Window(ring, wIndex, n), c)
      BY <1>3, <1>5, <1>6, <1>7 DEF RingView
    <3>6. \A j \in 1 .. n : ring[(wIndex + j - 1) % INPUT_BUF] # "nl"
      BY <1>3 DEF RingInv, LineClean
    <3>7. CASE k \in 1 .. n
      BY <3>2, <3>3, <3>4, <3>5, <3>6, <3>7
    <3>8. CASE k = n + 1
      BY <3>2, <3>4, <3>5, <3>8
    <3> QED
      BY <3>1, <3>7, <3>8
  <2> QED
    BY <1>5, <2>1 DEF LineClean
<1> QED
  BY <1>7, <1>8, <1>9, <1>10

\* A character that ends it, or fills the ring: the line is handed over.
LEMMA HandOverRing ==
    ASSUME RingInv, ConsTypes', Plus(eIndex, -rIndex) < INPUT_BUF, NEW c \in Chars,
           ring' = [ring EXCEPT ![Cell(eIndex)] = c], eIndex' = Plus(eIndex, 1),
           wIndex' = eIndex', rIndex' = rIndex
    PROVE  /\ RingBounded' /\ LineClean'
           /\ Between(wIndex, eIndex)' = <<>>
           /\ Between(rIndex, wIndex)' =
                Between(rIndex, wIndex) \o Append(Between(wIndex, eIndex), c)
<1>1. /\ rIndex \in Index /\ wIndex \in Index /\ eIndex \in Index /\ ring \in Rings
      /\ eIndex' \in Index /\ ring' \in Rings
  BY DEF RingInv, ConsTypes, Rings
<1>2. PICK m \in 0 .. INPUT_BUF - 1 : m = Size(rIndex, eIndex)
  BY KeyPlace
<1>3. PICK n \in 0 .. INPUT_BUF - 1 : n = Size(wIndex, eIndex)
  BY KeyPlace
<1>4. PICK l \in Nat : l = Size(rIndex, wIndex) /\ m = l + n
  BY <1>2, <1>3, RingSizes, SizesOrder DEF RingInv
<1>5. Size(wIndex', eIndex') = 0 /\ Size(rIndex', wIndex') = m + 1
  BY <1>1, <1>2, KeyPlace, SizeAfterOne
<1>6. RingView /\ RingView'
  BY RingViewIs, RingViewNext DEF RingInv
<1>7. Between(wIndex, eIndex)' = <<>>
  <2>1. Window(ring', wIndex', 0) = <<>>
    BY DEF Window
  <2> QED
    BY <1>5, <1>6, <2>1 DEF RingView
<1>8. Between(rIndex, wIndex)' = Append(Window(ring, rIndex, m), c)
  <2>1. ring' = [ring EXCEPT ![(rIndex + m) % INPUT_BUF] = c]
    BY <1>2, KeyPlace
  <2>2. Window([ring EXCEPT ![(rIndex + m) % INPUT_BUF] = c], rIndex, m + 1)
          = Append(Window(ring, rIndex, m), c)
    BY <1>1, WindowAppend
  <2>3. Window(ring', rIndex, m + 1) = Append(Window(ring, rIndex, m), c)
    BY <2>1, <2>2, Zenon
  <2> QED
    BY <1>5, <1>6, <2>3 DEF RingView
<1>9. Window(ring, rIndex, m) = Between(rIndex, wIndex) \o Between(wIndex, eIndex)
  <2>1. n \in Nat
    BY SizesOrder
  <2>2. Window(ring, rIndex, Size(rIndex, wIndex) + n)
          = Window(ring, rIndex, Size(rIndex, wIndex)) \o Window(ring, wIndex, n)
    BY ZenonT(60), <1>1, <2>1, WindowJoin
  <2> QED
    BY <1>3, <1>4, <1>6, <2>2 DEF RingView
<1>10. \A s, t \in Seq(Chars) : Append(s \o t, c) = s \o Append(t, c)
  <2> TAKE s, t \in Seq(Chars)
  <2> HIDE DEF Chars
  <2>1. s \o t \in Seq(Chars) /\ <<c>> \in Seq(Chars)
    BY ConcatProperties
  <2>2. Append(s \o t, c) = (s \o t) \o <<c>> /\ Append(t, c) = t \o <<c>>
    BY <2>1, AppendIsConcat
  <2>3. (s \o t) \o <<c>> = s \o (t \o <<c>>)
    BY <2>1, ConcatAssociative
  <2> QED
    BY <2>2, <2>3
<1>11. Between(rIndex, wIndex) \in Seq(Chars) /\ Between(wIndex, eIndex) \in Seq(Chars)
  BY RingParts DEF RingInv
<1>12. RingBounded' /\ LineClean'
  BY <1>5, SizesOrder DEF RingBounded, LineClean
<1> QED
  BY <1>7, <1>8, <1>9, <1>10, <1>11, <1>12
-----------------------------------------------------------------------------
\* The rows of the screen.
LEMMA RowsBelow ==
    ASSUME NEW d \in Nat \ {0}, NEW m \in Nat, NEW x \in Nat
    PROVE  x \div d >= m <=> x >= d * m
<1>1. PICK q \in Nat, r \in 0 .. d - 1 : x = q * d + r /\ x \div d = q
  <2>1. x = (x \div d) * d + (x % d) /\ x \div d \in Nat /\ x % d \in 0 .. d - 1
    OBVIOUS
  <2> QED
    BY <2>1
<1>2. CASE q >= m
  <2>1. q * d >= m * d
    BY <1>2
  <2> QED
    BY <1>1, <1>2, <2>1
<1>3. CASE ~(q >= m)
  <2>1. q + 1 <= m
    BY <1>3
  <2>2. (q + 1) * d <= m * d
    BY <2>1
  <2>3. (q + 1) * d = q * d + d
    OBVIOUS
  <2> QED
    BY <1>1, <1>3, <2>2, <2>3
<1> QED
  BY <1>2, <1>3

LEMMA NextRow ==
    ASSUME NEW d \in Nat \ {0}, NEW m \in Nat, NEW x \in Nat, x < d * m
    PROVE  x + d - (x % d) \in 0 .. d * m
<1>1. PICK q \in Nat, r \in 0 .. d - 1 : x = q * d + r /\ x % d = r
  <2>1. x = (x \div d) * d + (x % d) /\ x \div d \in Nat /\ x % d \in 0 .. d - 1
    OBVIOUS
  <2> QED
    BY <2>1
<1>2. q + 1 <= m
  <2>1. CASE ~(q + 1 <= m)
    <3>1. q >= m
      BY <2>1
    <3>2. q * d >= m * d
      BY <3>1
    <3> QED
      BY <1>1, <3>2
  <2> QED
    BY <2>1
<1>3. (q + 1) * d <= m * d /\ (q + 1) * d = q * d + d
  BY <1>2
<1>4. x + d - (x % d) = q * d + d
  BY <1>1
<1>5. q * d + d \in Int /\ q * d + d >= 0
  OBVIOUS
<1> QED
  BY <1>3, <1>4, <1>5

\* cgaputc, on a screen of n cells.
LEMMA PutcOnScreen ==
    ASSUME NEW pos \in Screen, NEW c
    PROVE  /\ Putc(pos, c) \in Screen
           /\ c = "bs" => Putc(pos, c) = IF pos > 0 THEN pos - 1 ELSE pos
<1>1. PICK m \in Nat \ {0} : m = Rows - 1
  BY SizesOrder
<1>2. PICK n \in Nat : n = Columns * m
  BY SizesOrder
<1>3. n >= Columns
  <2>1. \A d \in Nat, k \in Nat \ {0} : d * k >= d
    OBVIOUS
  <2> QED
    BY <1>2, <2>1, SizesOrder
<1>4. Screen = 0 .. n - 1 /\ pos \in 0 .. n - 1
  BY <1>1, <1>2 DEF Screen
<1>5. \A x \in Nat : x \div Columns >= m <=> x >= n
  BY <1>2, RowsBelow, SizesOrder
<1>6. Moved(pos, c) \in 0 .. n
  <2>1. CASE c = "nl"
    <3>1. pos \in Nat /\ pos < Columns * m
      BY <1>2, <1>4
    <3>2. pos + Columns - (pos % Columns) \in 0 .. Columns * m
      BY <3>1, NextRow, SizesOrder
    <3> QED
      BY <1>2, <2>1, <3>2 DEF Moved
  <2>2. CASE c = "bs"
    BY <1>4, <2>2 DEF Moved
  <2>3. CASE c # "nl" /\ c # "bs"
    BY <1>4, <2>3 DEF Moved
  <2> QED
    BY <2>1, <2>2, <2>3
<1>7. \A x \in 0 .. n : Scrolled(x) = IF x >= n THEN x - Columns ELSE x
  BY <1>1, <1>5 DEF Scrolled
<1>8. Putc(pos, c) = IF Moved(pos, c) >= n THEN Moved(pos, c) - Columns ELSE Moved(pos, c)
  BY <1>6, <1>7 DEF Putc
<1>9. Putc(pos, c) \in Screen
  BY <1>3, <1>4, <1>6, <1>8, SizesOrder
<1>10. c = "bs" => Putc(pos, c) = IF pos > 0 THEN pos - 1 ELSE pos
  <2> SUFFICES ASSUME c = "bs" PROVE Putc(pos, c) = IF pos > 0 THEN pos - 1 ELSE pos
    OBVIOUS
  <2>1. Moved(pos, c) = IF pos > 0 THEN pos - 1 ELSE pos
    BY DEF Moved
  <2>2. ~(Moved(pos, c) >= n)
    BY <1>4, <2>1
  <2> QED
    BY <1>8, <2>1, <2>2
<1> QED
  BY <1>9, <1>10

\* ^U takes the cursor back on the screen: k backspaces from there end at the
\* left upper corner or k places back.
LEMMA BackspacesOnScreen ==
    ASSUME cursor \in Screen
    PROVE  \A k \in 0 .. INPUT_BUF :
             /\ Backspaces[k] \in Screen
             /\ Backspaces[k] = IF cursor >= k THEN cursor - k ELSE 0
<1> DEFINE g == [k \in 0 .. INPUT_BUF |-> IF cursor >= k THEN cursor - k ELSE 0]
<1>1. Screen \subseteq Nat /\ cursor \in Nat
  BY DEF Screen
<1>2. \A k \in 0 .. INPUT_BUF : g[k] \in Screen
  <2> TAKE k \in 0 .. INPUT_BUF
  <2>1. \A x \in Nat : x <= cursor => x \in Screen
    <3>1. PICK n \in Int : Screen = 0 .. n
      BY SizesOrder DEF Screen
    <3> QED
      BY <3>1
  <2>2. g[k] \in Nat /\ g[k] <= cursor
    BY <1>1
  <2> QED
    BY <2>1, <2>2
<1>3. \A k \in 0 .. INPUT_BUF : g[k] = IF k = 0 THEN cursor ELSE Putc(g[k - 1], "bs")
  <2> TAKE k \in 0 .. INPUT_BUF
  <2>1. CASE k = 0
    BY <1>1, <2>1, SizesOrder
  <2>2. CASE k # 0
    <3>1. k - 1 \in 0 .. INPUT_BUF
      BY <2>2, SizesOrder
    <3>2. Putc(g[k - 1], "bs") = IF g[k - 1] > 0 THEN g[k - 1] - 1 ELSE g[k - 1]
      <4> HIDE DEF g
      <4> QED
        BY <1>2, <3>1, PutcOnScreen
    <3>3. g[k - 1] = IF cursor >= k - 1 THEN cursor - (k - 1) ELSE 0
      BY <3>1
    <3>4. g[k] = IF cursor >= k THEN cursor - k ELSE 0
      OBVIOUS
    <3> HIDE DEF g
    <3> QED
      BY <1>1, <2>2, <3>2, <3>3, <3>4
  <2> QED
    BY <2>1, <2>2
<1>4. g = [k \in 0 .. INPUT_BUF |-> IF k = 0 THEN cursor ELSE Putc(g[k - 1], "bs")]
  <2>1. g = [k \in 0 .. INPUT_BUF |-> g[k]]
    OBVIOUS
  <2> HIDE DEF g
  <2> QED
    BY <1>3, <2>1
<1>5. Backspaces = [k \in 0 .. INPUT_BUF |->
                      IF k = 0 THEN cursor ELSE Putc(Backspaces[k - 1], "bs")]
  <2> HIDE DEF g
  <2>1. \E f : f = [k \in 0 .. INPUT_BUF |-> IF k = 0 THEN cursor ELSE Putc(f[k - 1], "bs")]
    BY <1>4, Zenon
  <2> QED
    BY <2>1, Zenon DEF Backspaces
<1>6. \A k \in 0 .. INPUT_BUF : Backspaces[k] = g[k]
  <2> DEFINE wrong == {k \in 0 .. INPUT_BUF : Backspaces[k] # g[k]}
  <2> HIDE DEF g
  <2> SUFFICES ASSUME wrong # {} PROVE FALSE
    OBVIOUS
  <2>1. wrong \in SUBSET Nat
    BY SizesOrder
  <2>2. PICK k \in wrong : \A j \in wrong : k <= j
    <3> HIDE DEF wrong
    <3> QED
      BY <2>1, LeastNatural
  <2>3. CASE k = 0
    BY <1>3, <1>5, <2>3
  <2>4. CASE k # 0
    <3>1. k - 1 \in 0 .. INPUT_BUF /\ ~(k <= k - 1)
      BY <2>4, SizesOrder
    <3>2. Backspaces[k - 1] = g[k - 1]
      BY <2>2, <3>1
    <3> QED
      BY <1>3, <1>5, <2>4, <3>2
  <2> QED
    BY <2>3, <2>4
<1> QED
  BY <1>2, <1>6
-----------------------------------------------------------------------------
\* A step of one reader.
LEMMA SetRdTypes ==
    ASSUME ConsTypes, NEW p \in ConsReaders,
           NEW r \in [pc : ReaderPlaces, n : ReadCounts \cup {0}, dst : Seq(Chars)],
           rd' = [rd EXCEPT ![p] = r]
    PROVE  /\ rd' \in [ConsReaders -> [pc : ReaderPlaces, n : ReadCounts \cup {0}, dst : Seq(Chars)]]
           /\ rd'[p] = r /\ \A q \in ConsReaders : q # p => rd'[q] = rd[q]
  BY DEF ConsTypes

\* The readers Woken wakes.
LEMMA WokenIs ==
    ASSUME ConsTypes, rd' = Woken
    PROVE  /\ rd' \in [ConsReaders -> [pc : ReaderPlaces, n : ReadCounts \cup {0}, dst : Seq(Chars)]]
           /\ \A q \in ConsReaders : /\ rd'[q].n = rd[q].n /\ rd'[q].dst = rd[q].dst
                                     /\ rd'[q].pc = IF rd[q].pc = "asleep" THEN "woken" ELSE rd[q].pc
<1>1. ASSUME NEW q \in ConsReaders
      PROVE  /\ rd'[q] \in [pc : ReaderPlaces, n : ReadCounts \cup {0}, dst : Seq(Chars)]
             /\ rd'[q].n = rd[q].n /\ rd'[q].dst = rd[q].dst
             /\ rd'[q].pc = IF rd[q].pc = "asleep" THEN "woken" ELSE rd[q].pc
  <2>1. rd'[q] = IF rd[q].pc = "asleep" THEN [rd[q] EXCEPT !.pc = "woken"] ELSE rd[q]
    BY DEF Woken
  <2>2. rd[q] \in [pc : ReaderPlaces, n : ReadCounts \cup {0}, dst : Seq(Chars)]
    BY DEF ConsTypes
  <2>3. "woken" \in ReaderPlaces
    BY DEF ReaderPlaces
  <2>4. CASE rd[q].pc = "asleep"
    BY <2>1, <2>2, <2>3, <2>4
  <2>5. CASE rd[q].pc # "asleep"
    BY <2>1, <2>2, <2>5
  <2> QED
    BY <2>4, <2>5
<1>2. rd' = [q \in ConsReaders |-> rd'[q]]
  BY DEF Woken
<1> QED
  BY <1>1, <1>2

\* A step that Terminal may take, or does not see.
TermMove == [T!Next]_(T!vars)

\* What Terminal sees of the readers.
LEMMA SameReaders ==
    ASSUME \A q \in ConsReaders : /\ rd'[q].n = rd[q].n /\ rd'[q].dst = rd[q].dst
                                  /\ rd'[q].pc = "user" <=> rd[q].pc = "user"
    PROVE  /\ [p \in ConsReaders |-> IF rd[p].pc = "user" THEN 0 ELSE rd[p].n]'
                = [p \in ConsReaders |-> IF rd[p].pc = "user" THEN 0 ELSE rd[p].n]
           /\ [p \in ConsReaders |-> rd[p].dst]' = [p \in ConsReaders |-> rd[p].dst]
<1>1. \A p \in ConsReaders : (IF rd'[p].pc = "user" THEN 0 ELSE rd'[p].n)
                               = (IF rd[p].pc = "user" THEN 0 ELSE rd[p].n)
  OBVIOUS
<1> QED
  BY <1>1

\* A step that moves no index and does not change what a reader wants or has.
LEMMA UnseenStep ==
    ASSUME UNCHANGED <<ring, rIndex, wIndex, eIndex>>,
           \A q \in ConsReaders : /\ rd'[q].n = rd[q].n /\ rd'[q].dst = rd[q].dst
                                  /\ rd'[q].pc = "user" <=> rd[q].pc = "user"
    PROVE  TermMove
<1>1. UNCHANGED <<Between(rIndex, wIndex), Between(wIndex, eIndex)>>
  BY DEF Between
<1> QED
  BY <1>1, SameReaders DEF TermMove, T!vars

\* Steps that move no index keep what is known of the ring.
LEMMA RingUnmoved ==
    ASSUME RingInv, UNCHANGED <<ring, rIndex, wIndex, eIndex>>
    PROVE  RingBounded' /\ LineClean'
  BY DEF RingInv, RingBounded, LineClean

LEMMA EraseStep ==
    ASSUME ConsInv, EraseChar, consLock = NoReader, UNCHANGED <<consLock, rdKilled>>
    PROVE  ConsInv' /\ TermMove
<1>1. /\ eIndex # wIndex /\ eIndex' = Plus(eIndex, -1)
      /\ UNCHANGED <<ring, rIndex, wIndex, rd>>
  BY DEF EraseChar
<1>2. eIndex \in Int /\ -1 \in Int
  BY IndexInt DEF ConsInv, ConsTypes
<1>3. ConsTypes'
  BY <1>1, <1>2, PlusInRange DEF ConsInv, ConsTypes
<1>4. RingInv
  BY DEF RingInv, ConsInv
<1>5. LockHeld' /\ Waiting' /\ Counting'
  BY <1>1 DEF ConsInv, LockHeld, Waiting, Counting
<1>6. /\ RingBounded' /\ LineClean'
      /\ Between(wIndex, eIndex) # <<>>
      /\ Between(wIndex, eIndex)' =
           SubSeq(Between(wIndex, eIndex), 1, Len(Between(wIndex, eIndex)) - 1)
      /\ Between(rIndex, wIndex)' = Between(rIndex, wIndex)
  BY <1>1, <1>3, <1>4, EraseRing
<1>7. T!Erase
  BY <1>1, <1>6 DEF T!Erase
<1> QED
  BY <1>3, <1>5, <1>6, <1>7 DEF ConsInv, TermMove, T!Next

LEMMA KillLineStep ==
    ASSUME ConsInv, KillLine, consLock = NoReader, UNCHANGED <<consLock, rdKilled>>
    PROVE  ConsInv' /\ TermMove
<1>1. /\ eIndex' = Plus(eIndex, -LineStart)
      /\ UNCHANGED <<ring, rIndex, wIndex, rd>>
  BY DEF KillLine
<1>2. RingInv
  BY DEF RingInv, ConsInv
<1>3. eIndex \in Int /\ -LineStart \in Int
  <2>1. Size(wIndex, eIndex) \in Int
    BY <1>2, RingSizes, SizesOrder DEF RingInv
  <2> QED
    BY <1>2, <2>1, IndexInt, LineStartIs DEF ConsInv, ConsTypes
<1>4. ConsTypes'
  BY <1>1, <1>3, PlusInRange DEF ConsInv, ConsTypes
<1>5. LockHeld' /\ Waiting' /\ Counting'
  BY <1>1 DEF ConsInv, LockHeld, Waiting, Counting
<1>6. /\ RingBounded' /\ LineClean'
      /\ Between(wIndex, eIndex)' = <<>>
      /\ Between(rIndex, wIndex)' = Between(rIndex, wIndex)
  BY <1>1, <1>2, <1>4, KillRing
<1>7. T!KillLine
  BY <1>1, <1>6 DEF T!KillLine
<1> QED
  BY <1>4, <1>5, <1>6, <1>7 DEF ConsInv, TermMove, T!Next

LEMMA KeyStep ==
    ASSUME ConsInv, NEW c \in {"char", "nl", "eof"}, Key(c), consLock = NoReader,
           UNCHANGED <<consLock, rdKilled>>
    PROVE  ConsInv' /\ TermMove
<1>1. /\ Plus(eIndex, -rIndex) < INPUT_BUF /\ rIndex' = rIndex
      /\ ring' = [ring EXCEPT ![Cell(eIndex)] = c] /\ eIndex' = Plus(eIndex, 1)
      /\ \/ HandsOver(c) /\ wIndex' = eIndex' /\ rd' = Woken
         \/ ~HandsOver(c) /\ wIndex' = wIndex /\ rd' = rd
  BY DEF Key
<1>2. RingInv /\ c \in Chars
  BY DEF RingInv, ConsInv, Chars
<1>3. eIndex \in Int /\ 1 \in Int /\ eIndex' \in Index
  <2>1. eIndex \in Int
    BY IndexInt DEF ConsInv, ConsTypes
  <2> QED
    BY <1>1, <2>1, PlusInRange
<1>4. /\ rd' \in [ConsReaders -> [pc : ReaderPlaces, n : ReadCounts \cup {0}, dst : Seq(Chars)]]
      /\ \A q \in ConsReaders : /\ rd'[q].n = rd[q].n /\ rd'[q].dst = rd[q].dst
                                /\ rd'[q].pc = rd[q].pc \/ (rd[q].pc = "asleep" /\ rd'[q].pc = "woken")
                                /\ HandsOver(c) => rd'[q].pc # "asleep"
  <2>1. CASE rd' = Woken
    BY <2>1, WokenIs DEF ConsInv
  <2>2. CASE ~HandsOver(c) /\ rd' = rd
    BY <2>2 DEF ConsInv, ConsTypes
  <2> QED
    BY <1>1, <2>1, <2>2
<1>5. ConsTypes'
  <2>1. ring' \in [0 .. INPUT_BUF - 1 -> Chars]
    BY <1>1, <1>2 DEF ConsInv, ConsTypes
  <2> QED
    BY <1>1, <1>3, <1>4, <2>1 DEF ConsInv, ConsTypes
<1>6. LockHeld' /\ Waiting' /\ Counting'
  <2>1. \A q \in ConsReaders : rd[q].pc \notin {"loop", "sleep"}
    BY ConsAssumption DEF ConsInv, LockHeld
  <2>2. LockHeld'
    BY <1>4, <2>1 DEF ConsInv, LockHeld
  <2>3. Waiting'
    BY <1>1, <1>4, <2>1 DEF ConsInv, Waiting
  <2>4. Counting'
    BY <1>4 DEF ConsInv, Counting
  <2> QED
    BY <2>2, <2>3, <2>4
<1>7. /\ Len(Between(rIndex, wIndex)) + Len(Between(wIndex, eIndex)) < INPUT_BUF
      /\ Len(Append(Between(wIndex, eIndex), c)) = Len(Between(wIndex, eIndex)) + 1
      /\ HandsOver(c) <=> \/ c \in {"nl", "eof"}
                          \/ Len(Between(rIndex, wIndex)) + Len(Append(Between(wIndex, eIndex), c)) = INPUT_BUF
  <2>1. /\ Len(Between(rIndex, wIndex)) = Size(rIndex, wIndex)
        /\ Len(Between(wIndex, eIndex)) = Size(wIndex, eIndex)
        /\ Between(wIndex, eIndex) \in Seq(Chars)
    BY <1>2, RingParts DEF RingInv
  <2>2. Len(Append(Between(wIndex, eIndex), c)) = Size(wIndex, eIndex) + 1
    BY <1>2, <2>1, AppendProperties
  <2>3. /\ Size(rIndex, eIndex) = Size(rIndex, wIndex) + Size(wIndex, eIndex)
        /\ Size(rIndex, eIndex) \in 0 .. INPUT_BUF /\ Size(rIndex, wIndex) \in 0 .. INPUT_BUF
        /\ Size(wIndex, eIndex) \in 0 .. INPUT_BUF
    BY <1>2, RingSizes DEF RingInv
  <2>4. /\ Size(rIndex, eIndex) \in 0 .. INPUT_BUF - 1
        /\ Plus(eIndex, 1) = Plus(rIndex, INPUT_BUF) <=> Size(rIndex, eIndex) + 1 = INPUT_BUF
    BY <1>1, <1>2, KeyPlace
  <2>5. Size(rIndex, wIndex) + (Size(wIndex, eIndex) + 1) = Size(rIndex, eIndex) + 1
    BY <2>3, SizesOrder
  <2> QED
    BY <2>1, <2>2, <2>3, <2>4, <2>5, SizesOrder DEF HandsOver
<1>8. /\ [p \in ConsReaders |-> IF rd[p].pc = "user" THEN 0 ELSE rd[p].n]'
           = [p \in ConsReaders |-> IF rd[p].pc = "user" THEN 0 ELSE rd[p].n]
      /\ [p \in ConsReaders |-> rd[p].dst]' = [p \in ConsReaders |-> rd[p].dst]
  <2>1. \A q \in ConsReaders : /\ rd'[q].n = rd[q].n /\ rd'[q].dst = rd[q].dst
                               /\ rd'[q].pc = "user" <=> rd[q].pc = "user"
    BY <1>4
  <2> QED
    BY <2>1, SameReaders
<1>9. CASE HandsOver(c) /\ wIndex' = eIndex'
  <2>1. /\ RingBounded' /\ LineClean'
        /\ Between(wIndex, eIndex)' = <<>>
        /\ Between(rIndex, wIndex)' = Between(rIndex, wIndex) \o Append(Between(wIndex, eIndex), c)
    BY <1>1, <1>2, <1>5, <1>9, HandOverRing
  <2>2. T!Type(c)
    BY <1>7, <1>8, <1>9, <2>1 DEF T!Type
  <2> QED
    BY <1>5, <1>6, <2>1, <2>2 DEF ConsInv, TermMove, T!Next
<1>10. CASE ~HandsOver(c) /\ wIndex' = wIndex
  <2>1. c # "nl"
    BY <1>10 DEF HandsOver
  <2>2. /\ RingBounded' /\ LineClean'
        /\ Between(wIndex, eIndex)' = Append(Between(wIndex, eIndex), c)
        /\ Between(rIndex, wIndex)' = Between(rIndex, wIndex)
    BY <1>1, <1>2, <1>5, <1>10, <2>1, KeyRing
  <2>3. T!Type(c)
    BY <1>7, <1>8, <1>10, <2>2 DEF T!Type
  <2> QED
    BY <1>5, <1>6, <2>2, <2>3 DEF ConsInv, TermMove, T!Next
<1> QED
  BY <1>1, <1>9, <1>10
-----------------------------------------------------------------------------
LEMMA CountsPositive == \A n \in ReadCounts : n \in Nat /\ n > 0
<1> TAKE n \in ReadCounts
<1>1. n \in Nat \ {0}
  BY ConsAssumption
<1> QED
  BY <1>1

\* The record of a reader that changes its place only.
LEMMA MovedReader ==
    ASSUME ConsTypes, NEW p \in ConsReaders, NEW l \in ReaderPlaces,
           rd' = [rd EXCEPT ![p] = [rd[p] EXCEPT !.pc = l]]
    PROVE  /\ rd' \in [ConsReaders -> [pc : ReaderPlaces, n : ReadCounts \cup {0}, dst : Seq(Chars)]]
           /\ rd'[p].pc = l /\ rd'[p].n = rd[p].n /\ rd'[p].dst = rd[p].dst
           /\ \A q \in ConsReaders : q # p => rd'[q] = rd[q]
<1>1. rd[p] \in [pc : ReaderPlaces, n : ReadCounts \cup {0}, dst : Seq(Chars)]
  BY DEF ConsTypes
<1>2. [rd[p] EXCEPT !.pc = l] \in [pc : ReaderPlaces, n : ReadCounts \cup {0}, dst : Seq(Chars)]
  BY <1>1
<1>3. /\ [rd[p] EXCEPT !.pc = l].pc = l /\ [rd[p] EXCEPT !.pc = l].n = rd[p].n
      /\ [rd[p] EXCEPT !.pc = l].dst = rd[p].dst
  BY <1>1
<1> QED
  BY <1>2, <1>3, SetRdTypes

\* The rest of ConsInv after a step of reader p that moves no index.
LEMMA ReaderStep ==
    ASSUME ConsInv, NEW p \in ConsReaders, UNCHANGED <<ring, rIndex, wIndex, eIndex>>,
           consLock' \in ConsReaders \cup {NoReader}, rdKilled' \subseteq ConsReaders,
           rd' \in [ConsReaders -> [pc : ReaderPlaces, n : ReadCounts \cup {0}, dst : Seq(Chars)]],
           \A q \in ConsReaders : q # p => rd'[q] = rd[q],
           rd'[p].pc \in {"loop", "sleep"} <=> consLock' = p,
           \A q \in ConsReaders : q # p => (consLock' = q <=> consLock = q),
           rd'[p].pc \in {"sleep", "asleep"} => rIndex = wIndex,
           rd'[p].pc # "user" => rd'[p].n \in ReadCounts
    PROVE  ConsInv'
<1>1. ConsTypes'
  BY DEF ConsInv, ConsTypes
<1>2. LockHeld'
  BY DEF ConsInv, LockHeld
<1>3. Waiting'
  BY DEF ConsInv, Waiting
<1>4. Counting'
  BY SMTT(60) DEF ConsInv, Counting
<1>5. RingBounded' /\ LineClean'
  BY RingUnmoved DEF ConsInv, RingInv
<1> QED
  BY <1>1, <1>2, <1>3, <1>4, <1>5 DEF ConsInv

LEMMA CallReadStep ==
    ASSUME ConsInv, NEW p \in ConsReaders, NEW n \in ReadCounts, CallRead(p, n)
    PROVE  ConsInv' /\ TermMove
<1>1. /\ rd[p].pc = "user" /\ rd' = [rd EXCEPT ![p] = [pc |-> "woken", n |-> n, dst |-> <<>>]]
      /\ UNCHANGED <<ring, rIndex, wIndex, eIndex, consLock, rdKilled>>
  BY DEF CallRead, SetRd, RingVars
<1>2. [pc |-> "woken", n |-> n, dst |-> <<>>] \in [pc : ReaderPlaces, n : ReadCounts \cup {0}, dst : Seq(Chars)]
  BY DEF ReaderPlaces
<1>3. /\ rd' \in [ConsReaders -> [pc : ReaderPlaces, n : ReadCounts \cup {0}, dst : Seq(Chars)]]
      /\ rd'[p] = [pc |-> "woken", n |-> n, dst |-> <<>>]
      /\ \A q \in ConsReaders : q # p => rd'[q] = rd[q]
  BY <1>1, <1>2, SetRdTypes DEF ConsInv
<1>4. ConsInv'
  <2>1. consLock # p
    BY <1>1 DEF ConsInv, LockHeld
  <2>2. rd'[p].pc = "woken" /\ rd'[p].n = n
    BY <1>3
  <2> QED
    BY <1>1, <1>3, <2>1, <2>2, ReaderStep DEF ConsInv, ConsTypes
<1>5. UNCHANGED <<Between(rIndex, wIndex), Between(wIndex, eIndex)>>
  BY <1>1 DEF Between
<1>6. T!StartRead(p, n)
  <2>1. [q \in ConsReaders |-> IF rd[q].pc = "user" THEN 0 ELSE rd[q].n]'
          = [[q \in ConsReaders |-> IF rd[q].pc = "user" THEN 0 ELSE rd[q].n] EXCEPT ![p] = n]
    <3>1. \A q \in ConsReaders : (IF rd'[q].pc = "user" THEN 0 ELSE rd'[q].n)
                = IF q = p THEN n ELSE IF rd[q].pc = "user" THEN 0 ELSE rd[q].n
      BY <1>3
    <3> QED
      BY <3>1
  <2>2. [q \in ConsReaders |-> rd[q].dst]'
          = [[q \in ConsReaders |-> rd[q].dst] EXCEPT ![p] = <<>>]
    <3>1. \A q \in ConsReaders : rd'[q].dst = IF q = p THEN <<>> ELSE rd[q].dst
      BY <1>3
    <3> QED
      BY <3>1
  <2> QED
    BY <1>1, <1>5, <2>1, <2>2 DEF T!StartRead
<1> QED
  BY <1>4, <1>6 DEF TermMove, T!Next

LEMMA LockStep ==
    ASSUME ConsInv, NEW p \in ConsReaders, Lock(p)
    PROVE  ConsInv' /\ TermMove
<1>1. /\ rd[p].pc = "woken" /\ consLock = NoReader /\ consLock' = p
      /\ rd' = [rd EXCEPT ![p] = [rd[p] EXCEPT !.pc = "loop"]] /\ "loop" \in ReaderPlaces
      /\ UNCHANGED <<ring, rIndex, wIndex, eIndex, rdKilled>>
  BY DEF Lock, SetRd, RingVars, ReaderPlaces
<1>2. /\ rd' \in [ConsReaders -> [pc : ReaderPlaces, n : ReadCounts \cup {0}, dst : Seq(Chars)]]
      /\ rd'[p].pc = "loop" /\ rd'[p].n = rd[p].n /\ rd'[p].dst = rd[p].dst
      /\ \A q \in ConsReaders : q # p => rd'[q] = rd[q]
  BY <1>1, MovedReader DEF ConsInv
<1>3. rd[p].n \in ReadCounts /\ rdKilled' \subseteq ConsReaders
  BY <1>1 DEF ConsInv, Counting, ConsTypes
<1>4. ConsInv'
  BY <1>1, <1>2, <1>3, ConsAssumption, ReaderStep
<1>5. TermMove
  BY <1>1, <1>2, UnseenStep
<1> QED
  BY <1>4, <1>5

LEMMA SleepStep ==
    ASSUME ConsInv, NEW p \in ConsReaders, Sleep(p)
    PROVE  ConsInv' /\ TermMove
<1>1. /\ rd[p].pc = "sleep" /\ consLock' = NoReader
      /\ rd' = [rd EXCEPT ![p] = [rd[p] EXCEPT !.pc = "asleep"]] /\ "asleep" \in ReaderPlaces
      /\ UNCHANGED <<ring, rIndex, wIndex, eIndex, rdKilled>>
  BY DEF Sleep, SetRd, RingVars, ReaderPlaces
<1>2. /\ rd' \in [ConsReaders -> [pc : ReaderPlaces, n : ReadCounts \cup {0}, dst : Seq(Chars)]]
      /\ rd'[p].pc = "asleep" /\ rd'[p].n = rd[p].n /\ rd'[p].dst = rd[p].dst
      /\ \A q \in ConsReaders : q # p => rd'[q] = rd[q]
  BY <1>1, MovedReader DEF ConsInv
<1>3. /\ rd[p].n \in ReadCounts /\ rdKilled' \subseteq ConsReaders /\ rIndex = wIndex
      /\ consLock = p
  BY <1>1 DEF ConsInv, Counting, ConsTypes, Waiting, LockHeld
<1>4. ConsInv'
  BY <1>1, <1>2, <1>3, ConsAssumption, ReaderStep
<1>5. TermMove
  BY <1>1, <1>2, UnseenStep
<1> QED
  BY <1>4, <1>5

LEMMA KillReaderStep ==
    ASSUME ConsInv, NEW p \in ConsReaders, KillReader(p)
    PROVE  ConsInv' /\ TermMove
<1> DEFINE l == IF rd[p].pc = "asleep" THEN "woken" ELSE rd[p].pc
<1>1. /\ rdKilled' = rdKilled \cup {p}
      /\ rd' = [rd EXCEPT ![p] = [rd[p] EXCEPT !.pc = l]]
      /\ UNCHANGED <<ring, rIndex, wIndex, eIndex, consLock>>
  BY DEF KillReader, SetRd, RingVars
<1>2. rd[p].pc \in ReaderPlaces /\ l \in ReaderPlaces
  BY DEF ConsInv, ConsTypes, ReaderPlaces
<1>3. /\ rd' \in [ConsReaders -> [pc : ReaderPlaces, n : ReadCounts \cup {0}, dst : Seq(Chars)]]
      /\ rd'[p].pc = l /\ rd'[p].n = rd[p].n /\ rd'[p].dst = rd[p].dst
      /\ \A q \in ConsReaders : q # p => rd'[q] = rd[q]
  <2> HIDE DEF l
  <2> QED
    BY <1>1, <1>2, MovedReader DEF ConsInv
<1>4. /\ rd[p].pc # "user" => rd[p].n \in ReadCounts
      /\ rdKilled' \subseteq ConsReaders /\ consLock' \in ConsReaders \cup {NoReader}
      /\ rd[p].pc \in {"sleep", "asleep"} => rIndex = wIndex
      /\ rd[p].pc \in {"loop", "sleep"} <=> consLock = p
  BY <1>1 DEF ConsInv, Counting, ConsTypes, Waiting, LockHeld
<1>5. ConsInv'
  BY <1>1, <1>3, <1>4, ReaderStep
<1>6. TermMove
  BY <1>1, <1>3, UnseenStep
<1> QED
  BY <1>5, <1>6

LEMMA NothingStep ==
    ASSUME ConsInv, NEW p \in ConsReaders, NothingToRead(p)
    PROVE  ConsInv' /\ TermMove
<1>1. /\ rd[p].pc = "loop" /\ rIndex = wIndex
      /\ UNCHANGED <<ring, rIndex, wIndex, eIndex, rdKilled>>
  BY DEF NothingToRead, RingVars
<1>2. /\ rd[p].n \in ReadCounts /\ rdKilled' \subseteq ConsReaders /\ consLock = p
  BY <1>1 DEF ConsInv, Counting, ConsTypes, LockHeld
<1>3. "user" \in ReaderPlaces /\ "sleep" \in ReaderPlaces
  BY DEF ReaderPlaces
<1>4. CASE /\ consLock' = NoReader
           /\ rd' = [rd EXCEPT ![p] = [rd[p] EXCEPT !.pc = "user"]]
  <2>1. /\ rd' \in [ConsReaders -> [pc : ReaderPlaces, n : ReadCounts \cup {0}, dst : Seq(Chars)]]
        /\ rd'[p].pc = "user" /\ rd'[p].n = rd[p].n /\ rd'[p].dst = rd[p].dst
        /\ \A q \in ConsReaders : q # p => rd'[q] = rd[q]
    BY <1>3, <1>4, MovedReader DEF ConsInv
  <2>2. ConsInv'
    BY <1>1, <1>2, <1>4, <2>1, ConsAssumption, ReaderStep
  <2>3. /\ UNCHANGED <<Between(rIndex, wIndex), Between(wIndex, eIndex)>>
        /\ Between(rIndex, wIndex) = <<>>
    BY <1>1, RingParts DEF Between, ConsInv
  <2>4. /\ [q \in ConsReaders |-> IF rd[q].pc = "user" THEN 0 ELSE rd[q].n]'
             = [[q \in ConsReaders |-> IF rd[q].pc = "user" THEN 0 ELSE rd[q].n] EXCEPT ![p] = 0]
        /\ [q \in ConsReaders |-> rd[q].dst]' = [q \in ConsReaders |-> rd[q].dst]
    <3>1. \A q \in ConsReaders : (IF rd'[q].pc = "user" THEN 0 ELSE rd'[q].n)
                = IF q = p THEN 0 ELSE IF rd[q].pc = "user" THEN 0 ELSE rd[q].n
      BY <2>1
    <3>2. \A q \in ConsReaders : rd'[q].dst = rd[q].dst
      BY <2>1
    <3> QED
      BY <3>1, <3>2
  <2>5. rd[p].n > 0 /\ rd[p].pc # "user"
    BY <1>1, <1>2, CountsPositive
  <2>6. T!Interrupted(p)
    BY <2>3, <2>4, <2>5 DEF T!Interrupted
  <2> QED
    BY <2>2, <2>6 DEF TermMove, T!Next
<1>5. CASE /\ consLock' = consLock
           /\ rd' = [rd EXCEPT ![p] = [rd[p] EXCEPT !.pc = "sleep"]]
  <2>1. /\ rd' \in [ConsReaders -> [pc : ReaderPlaces, n : ReadCounts \cup {0}, dst : Seq(Chars)]]
        /\ rd'[p].pc = "sleep" /\ rd'[p].n = rd[p].n /\ rd'[p].dst = rd[p].dst
        /\ \A q \in ConsReaders : q # p => rd'[q] = rd[q]
    BY <1>3, <1>5, MovedReader DEF ConsInv
  <2>2. ConsInv'
    BY <1>1, <1>2, <1>5, <2>1, ReaderStep
  <2>3. TermMove
    BY <1>1, <2>1, UnseenStep
  <2> QED
    BY <2>2, <2>3
<1> QED
  BY <1>4, <1>5 DEF NothingToRead, Leave, SetRd

\* What TakeChar keeps of ConsInv, beside the ring.
LEMMA TakerStep ==
    ASSUME ConsInv, NEW p \in ConsReaders, rd[p].pc = "loop", rIndex # wIndex,
           rd' \in [ConsReaders -> [pc : ReaderPlaces, n : ReadCounts \cup {0}, dst : Seq(Chars)]],
           \A q \in ConsReaders : q # p => rd'[q] = rd[q],
           rd'[p].pc \in {"user", "loop"}, rd'[p].n = rd[p].n,
           consLock' = IF rd'[p].pc = "user" THEN NoReader ELSE consLock
    PROVE  LockHeld' /\ Waiting' /\ Counting' /\ consLock' \in ConsReaders \cup {NoReader}
<1>1. consLock = p /\ NoReader \notin ConsReaders
  BY ConsAssumption DEF ConsInv, LockHeld
<1>2. \A q \in ConsReaders : q # p => rd[q].pc \notin {"loop", "sleep", "asleep"}
  BY <1>1 DEF ConsInv, LockHeld, Waiting
<1>3. LockHeld'
  BY <1>1, <1>2 DEF LockHeld
<1>4. Waiting'
  BY <1>2 DEF Waiting
<1>5. Counting'
  BY DEF ConsInv, Counting
<1>6. consLock' \in ConsReaders \cup {NoReader}
  BY <1>1
<1> QED
  BY <1>3, <1>4, <1>5, <1>6

\* An end of file, which a reader leaves for the next read if it has something.
LEMMA EofStep ==
    ASSUME ConsInv, NEW p \in ConsReaders, rd[p].pc = "loop", rIndex # wIndex,
           ring[Cell(rIndex)] = "eof", rIndex' = EofLeft(p), Leave(p),
           UNCHANGED <<ring, wIndex, eIndex, rdKilled>>
    PROVE  ConsInv' /\ TermMove
<1>1. "user" \in ReaderPlaces /\ consLock' = NoReader
      /\ rd' = [rd EXCEPT ![p] = [rd[p] EXCEPT !.pc = "user"]]
  BY DEF ReaderPlaces, Leave, SetRd
<1>2. /\ rd' \in [ConsReaders -> [pc : ReaderPlaces, n : ReadCounts \cup {0}, dst : Seq(Chars)]]
      /\ rd'[p].pc = "user" /\ rd'[p].n = rd[p].n /\ rd'[p].dst = rd[p].dst
      /\ \A q \in ConsReaders : q # p => rd'[q] = rd[q]
  BY <1>1, MovedReader DEF ConsInv
<1>3. LockHeld' /\ Waiting' /\ Counting' /\ consLock' \in ConsReaders \cup {NoReader}
  BY <1>1, <1>2, TakerStep
<1>4. RingInv
  BY DEF ConsInv, RingInv
<1>5. rIndex \in Int /\ rIndex \in Index /\ Plus(rIndex, 1) \in Index
  <2>1. rIndex \in Index /\ rIndex \in Int /\ 1 \in Int
    BY IndexInt DEF ConsInv, ConsTypes
  <2> QED
    BY <2>1, PlusInRange
<1>6. ConsTypes'
  <2>1. rIndex' \in Index
    BY <1>5 DEF EofLeft
  <2> QED
    BY <1>2, <1>3, <2>1 DEF ConsInv, ConsTypes
<1>7. /\ RingBounded' /\ LineClean' /\ Between(wIndex, eIndex)' = Between(wIndex, eIndex)
      /\ Between(rIndex, wIndex)' = IF rd[p].dst = <<>> THEN Tail(Between(rIndex, wIndex))
                                    ELSE Between(rIndex, wIndex)
  <2>1. CASE rd[p].dst = <<>>
    <3>1. rIndex' = Plus(rIndex, 1)
      BY <2>1 DEF EofLeft
    <3> QED
      BY <1>4, <1>6, <2>1, <3>1, TakeRing
  <2>2. CASE rd[p].dst # <<>>
    <3>1. rIndex' = rIndex
      BY <2>2 DEF EofLeft
    <3>2. RingBounded' /\ LineClean'
      BY <1>4, <3>1, RingUnmoved
    <3>3. UNCHANGED <<Between(rIndex, wIndex), Between(wIndex, eIndex)>>
      BY <3>1 DEF Between
    <3> QED
      BY <2>2, <3>2, <3>3
  <2> QED
    BY <2>1, <2>2
<1>8. Between(rIndex, wIndex) # <<>> /\ Head(Between(rIndex, wIndex)) = "eof"
  BY <1>4, FirstInRing
<1>9. /\ [q \in ConsReaders |-> IF rd[q].pc = "user" THEN 0 ELSE rd[q].n]'
           = [[q \in ConsReaders |-> IF rd[q].pc = "user" THEN 0 ELSE rd[q].n] EXCEPT ![p] = 0]
      /\ [q \in ConsReaders |-> rd[q].dst]' = [q \in ConsReaders |-> rd[q].dst]
  <2>1. \A q \in ConsReaders : (IF rd'[q].pc = "user" THEN 0 ELSE rd'[q].n)
              = IF q = p THEN 0 ELSE IF rd[q].pc = "user" THEN 0 ELSE rd[q].n
    BY <1>2
  <2>2. \A q \in ConsReaders : rd'[q].dst = rd[q].dst
    BY <1>2
  <2> QED
    BY <2>1, <2>2
<1>10. rd[p].n > 0 /\ rd[p].pc # "user"
  BY CountsPositive DEF ConsInv, Counting
<1>11. T!EndOfFile(p)
  BY <1>7, <1>8, <1>9, <1>10 DEF T!EndOfFile
<1> QED
  BY <1>3, <1>6, <1>7, <1>11 DEF ConsInv, TermMove, T!Next

\* A character, which ends the read if it is a newline or the last one wanted.
LEMMA CharStep ==
    ASSUME ConsInv, NEW p \in ConsReaders, rd[p].pc = "loop", rIndex # wIndex,
           NEW c, c = ring[Cell(rIndex)], c # "eof", rIndex' = Plus(rIndex, 1),
           NEW ending \in BOOLEAN, ending <=> (c = "nl" \/ Len(rd[p].dst) + 1 = rd[p].n),
           rd' = [rd EXCEPT ![p] = [rd[p] EXCEPT !.dst = Append(rd[p].dst, c),
                                                 !.pc = IF ending THEN "user" ELSE rd[p].pc]],
           consLock' = IF ending THEN NoReader ELSE consLock,
           UNCHANGED <<ring, wIndex, eIndex, rdKilled>>
    PROVE  ConsInv' /\ TermMove
<1>1. /\ rIndex \in Int /\ rIndex \in Index /\ Plus(rIndex, 1) \in Index
      /\ c \in Chars
  <2>1. rIndex \in Index /\ rIndex \in Int /\ 1 \in Int
    BY IndexInt DEF ConsInv, ConsTypes
  <2>2. Cell(rIndex) \in 0 .. INPUT_BUF - 1
    BY <2>1, CellInRange
  <2> QED
    BY <2>1, <2>2, PlusInRange DEF ConsInv, ConsTypes
<1>2. rd[p] \in [pc : ReaderPlaces, n : ReadCounts \cup {0}, dst : Seq(Chars)] /\ "user" \in ReaderPlaces
  BY DEF ConsInv, ConsTypes, ReaderPlaces
<1>3. Append(rd[p].dst, c) \in Seq(Chars)
  BY <1>1, <1>2, AppendProperties
<1> DEFINE new == [rd[p] EXCEPT !.dst = Append(rd[p].dst, c),
                                !.pc = IF ending THEN "user" ELSE rd[p].pc]
<1>4. /\ new \in [pc : ReaderPlaces, n : ReadCounts \cup {0}, dst : Seq(Chars)]
      /\ new.pc = (IF ending THEN "user" ELSE "loop") /\ new.n = rd[p].n
      /\ new.dst = Append(rd[p].dst, c)
  <2> HIDE DEF ReaderPlaces, Chars
  <2> QED
    BY <1>2, <1>3
<1>5. rd' = [rd EXCEPT ![p] = new]
  OBVIOUS
<1> HIDE DEF new
<1>6. /\ rd' \in [ConsReaders -> [pc : ReaderPlaces, n : ReadCounts \cup {0}, dst : Seq(Chars)]]
      /\ rd'[p] = new /\ \A q \in ConsReaders : q # p => rd'[q] = rd[q]
  BY <1>4, <1>5, SetRdTypes DEF ConsInv
<1>7. /\ rd'[p].pc \in {"user", "loop"} /\ rd'[p].n = rd[p].n
      /\ rd'[p].dst = Append(rd[p].dst, c)
      /\ rd'[p].pc = "user" <=> ending
  BY <1>4, <1>6
<1>8. LockHeld' /\ Waiting' /\ Counting' /\ consLock' \in ConsReaders \cup {NoReader}
  <2>1. consLock' = IF rd'[p].pc = "user" THEN NoReader ELSE consLock
    BY <1>7
  <2> QED
    BY <1>6, <1>7, <2>1, TakerStep
<1>9. RingInv /\ ConsTypes'
  BY <1>1, <1>6, <1>8 DEF ConsInv, RingInv, ConsTypes
<1>10. /\ RingBounded' /\ LineClean' /\ Between(wIndex, eIndex)' = Between(wIndex, eIndex)
       /\ Between(rIndex, wIndex)' = Tail(Between(rIndex, wIndex))
  BY <1>9, TakeRing
<1>11. Between(rIndex, wIndex) # <<>> /\ Head(Between(rIndex, wIndex)) = c
  BY <1>9, FirstInRing
<1>12. [q \in ConsReaders |-> rd[q].dst]'
         = [[q \in ConsReaders |-> rd[q].dst] EXCEPT ![p] = Append(rd[p].dst, c)]
  <2>1. \A q \in ConsReaders : rd'[q].dst = IF q = p THEN Append(rd[p].dst, c) ELSE rd[q].dst
    BY <1>6, <1>7
  <2> QED
    BY <2>1
<1>13. [q \in ConsReaders |-> IF rd[q].pc = "user" THEN 0 ELSE rd[q].n]'
         = [[q \in ConsReaders |-> IF rd[q].pc = "user" THEN 0 ELSE rd[q].n]
              EXCEPT ![p] = IF c = "nl" \/ Len(rd[p].dst) + 1 = rd[p].n THEN 0 ELSE rd[p].n]
  <2>1. \A q \in ConsReaders : (IF rd'[q].pc = "user" THEN 0 ELSE rd'[q].n)
          = IF q = p THEN IF c = "nl" \/ Len(rd[p].dst) + 1 = rd[p].n THEN 0 ELSE rd[p].n
            ELSE IF rd[q].pc = "user" THEN 0 ELSE rd[q].n
    BY <1>6, <1>7
  <2> QED
    BY <2>1
<1>14. rd[p].n > 0 /\ rd[p].pc # "user"
  BY CountsPositive DEF ConsInv, Counting
<1>15. T!Take(p)
  BY <1>10, <1>11, <1>12, <1>13, <1>14 DEF T!Take
<1> QED
  BY <1>8, <1>9, <1>10, <1>15 DEF ConsInv, TermMove, T!Next

LEMMA TakeStep ==
    ASSUME ConsInv, NEW p \in ConsReaders, TakeChar(p)
    PROVE  ConsInv' /\ TermMove
<1>1. /\ rd[p].pc = "loop" /\ rIndex # wIndex
      /\ UNCHANGED <<ring, wIndex, eIndex, rdKilled>>
  BY DEF TakeChar, RingVars
<1>2. CASE ring[Cell(rIndex)] = "eof"
  BY <1>1, <1>2, EofStep DEF TakeChar
<1>3. CASE ring[Cell(rIndex)] # "eof"
  <2> DEFINE c == ring[Cell(rIndex)]
             ending == c = "nl" \/ Len(rd[p].dst) + 1 = rd[p].n
  <2>1. /\ rIndex' = Plus(rIndex, 1)
        /\ rd' = [rd EXCEPT ![p] = [rd[p] EXCEPT !.dst = Append(rd[p].dst, c),
                                                 !.pc = IF ending THEN "user" ELSE rd[p].pc]]
        /\ consLock' = IF ending THEN NoReader ELSE consLock
    BY <1>3 DEF TakeChar, SetRd
  <2>2. ending \in BOOLEAN
    OBVIOUS
  <2> QED
    BY <1>1, <1>3, <2>1, <2>2, CharStep
<1> QED
  BY <1>2, <1>3

LEMMA WriteStep ==
    ASSUME ConsInv, (\E c \in {"char", "nl"} : Consolewrite(c)) \/ UNCHANGED consVars
    PROVE  ConsInv' /\ TermMove
<1>1. UNCHANGED <<ring, rIndex, wIndex, eIndex, consLock, rd, rdKilled>>
  BY DEF Consolewrite, RingVars, consVars
<1>2. ConsTypes' /\ LockHeld' /\ Waiting' /\ Counting'
  BY <1>1 DEF ConsInv, ConsTypes, LockHeld, Waiting, Counting
<1>3. RingBounded' /\ LineClean'
  BY <1>1, RingUnmoved DEF ConsInv, RingInv
<1>4. TermMove
  BY <1>1, UnseenStep
<1> QED
  BY <1>2, <1>3, <1>4 DEF ConsInv

LEMMA NextInv == ConsInv /\ [ConsNext]_consVars => ConsInv' /\ TermMove
<1> SUFFICES ASSUME ConsInv, [ConsNext]_consVars PROVE ConsInv' /\ TermMove
  OBVIOUS
<1>1. CASE Consoleintr
  BY <1>1, EraseStep, KillLineStep, KeyStep DEF Consoleintr
<1>2. CASE ConsNext /\ ~Consoleintr
  BY <1>2, WriteStep, CallReadStep, LockStep, NothingStep, SleepStep, TakeStep, KillReaderStep
     DEF ConsNext
<1>3. CASE UNCHANGED consVars
  BY <1>3, WriteStep
<1> QED
  BY <1>1, <1>2, <1>3

LEMMA InitInv == ConsInit => ConsInv /\ T!Init
<1> SUFFICES ASSUME ConsInit PROVE ConsInv /\ T!Init
  OBVIOUS
<1>1. /\ rIndex = 0 /\ wIndex = 0 /\ eIndex = 0 /\ consLock = NoReader /\ rdKilled = {}
      /\ ring = [k \in 0 .. INPUT_BUF - 1 |-> "zero"]
      /\ rd = [p \in ConsReaders |-> [pc |-> "user", n |-> 0, dst |-> <<>>]]
  BY DEF ConsInit, Away
<1>2. 0 \in Index /\ Size(0, 0) = 0
  <2>1. 0 \in Index
    BY SizesOrder DEF Index
  <2> QED
    BY <2>1, SizeAfterOne
<1>3. [pc |-> "user", n |-> 0, dst |-> <<>>] \in [pc : ReaderPlaces, n : ReadCounts \cup {0}, dst : Seq(Chars)]
  BY DEF ReaderPlaces
<1>4. ConsTypes
  BY <1>1, <1>2, <1>3 DEF ConsTypes, Chars
<1>5. \A p \in ConsReaders : rd[p].pc = "user" /\ rd[p].dst = <<>>
  BY <1>1
<1>6. LockHeld /\ Waiting /\ Counting
  BY <1>1, <1>5, ConsAssumption DEF LockHeld, Waiting, Counting
<1>7. RingBounded /\ LineClean
  BY <1>1, <1>2, SizesOrder DEF RingBounded, LineClean
<1>8. Between(rIndex, wIndex) = <<>> /\ Between(wIndex, eIndex) = <<>>
  BY <1>1, <1>4, <1>7, RingParts
<1>9. T!Init
  BY <1>5, <1>8 DEF T!Init
<1> QED
  BY <1>4, <1>6, <1>7, <1>9 DEF ConsInv
-----------------------------------------------------------------------------
\* The inductive invariant holds in every reachable state.
THEOREM Inductive == ConsSpec => []ConsInv
  BY InitInv, NextInv, PTL DEF ConsSpec

\* No reader sleeps in consoleread beside a line that was handed over.
THEOREM NoReaderMissed == ConsSpec => []ReadersWoken
<1>1. ConsInv => ReadersWoken
  BY DEF ConsInv, Waiting, ReadersWoken
<1> QED
  BY <1>1, Inductive, PTL

\* The ring and its three indices are the line discipline of Terminal.
THEOREM ConsoleIsTerminal == ConsSpec => IsTerminal
  BY InitInv, NextInv, PTL DEF ConsSpec, IsTerminal, T!Spec, TermMove

\* Whatever is typed, erased or written, the cursor stays on the screen.
THEOREM CursorStays == ConsSpec => []CursorOnScreen
<1>1. ConsInit => CursorOnScreen
  BY DEF ConsInit, CursorOnScreen
<1>2. CursorOnScreen /\ ConsInv /\ [ConsNext]_consVars => CursorOnScreen'
  <2> SUFFICES ASSUME CursorOnScreen, ConsInv, [ConsNext]_consVars PROVE CursorOnScreen'
    OBVIOUS
  <2>1. cursor \in Screen
    BY DEF CursorOnScreen, Screen
  <2>2. \A c : Putc(cursor, c) \in Screen
    BY <2>1, PutcOnScreen
  <2>3. ASSUME KillLine PROVE cursor' \in Screen
    <3>1. LineStart \in 0 .. INPUT_BUF
      BY LineStartIs, RingSizes DEF ConsInv, RingInv
    <3> QED
      BY <2>1, <2>3, <3>1, BackspacesOnScreen DEF KillLine
  <2>4. ASSUME EraseChar \/ (\E c : Key(c) \/ Consolewrite(c)) PROVE cursor' \in Screen
    BY <2>2, <2>4 DEF EraseChar, Key, Consolewrite
  <2>5. ASSUME NEW p \in ConsReaders,
               \/ \E n \in ReadCounts : CallRead(p, n)
               \/ Lock(p) \/ NothingToRead(p) \/ Sleep(p) \/ TakeChar(p) \/ KillReader(p)
        PROVE  cursor' = cursor
    BY <2>5 DEF CallRead, Lock, NothingToRead, Sleep, TakeChar, KillReader
  <2>6. cursor' \in Screen
    BY <2>1, <2>3, <2>4, <2>5 DEF ConsNext, Consoleintr, consVars
  <2> QED
    BY <2>6 DEF CursorOnScreen, Screen
<1> QED
  BY <1>1, <1>2, Inductive, PTL DEF ConsSpec
-----------------------------------------------------------------------------
(***************************************************************************)
(* The disk of p6, of any size.                                            *)
(***************************************************************************)
Data == Values \cup {0}
FileType == [used : BOOLEAN, name : FileNames \cup {FreeInode.name}, blocks : Seq(DiskBlocks)]
WriteType == [inode : Inodes, value : FileType]

ImageTypes ==
    /\ blocklist \in [DiskBlocks -> BOOLEAN] /\ inodes \in [Inodes -> FileType]
    /\ contents \in [DiskBlocks -> Data] /\ last \in [Inodes -> Seq(Data)] /\ torn \in BOOLEAN
    /\ buffered = NoWrite \/ buffered \in WriteType

\* The files of a disk: their blocks are in use, hold what was last written and are
\* in one place each.
FileSound(files, list, data, written, i) ==
    files[i].used =>
        /\ Len(written[i]) = Len(files[i].blocks)
        /\ \A k \in 1 .. Len(files[i].blocks) :
             /\ files[i].blocks[k] # 0 /\ list[files[i].blocks[k]]
             /\ data[files[i].blocks[k]] = written[i][k]

Apart(files) ==
    \A i, j \in Inodes : files[i].used /\ files[j].used =>
        \A k \in 1 .. Len(files[i].blocks), m \in 1 .. Len(files[j].blocks) :
            files[i].blocks[k] = files[j].blocks[m] => i = j /\ k = m

FilesSound(files, list, data, written) ==
    /\ list[0] /\ Apart(files) /\ \A i \in Inodes : FileSound(files, list, data, written, i)

\* A creation in the stream's buffer is of an inode that is free on the disk.
BufferRight ==
    buffered # NoWrite /\ buffered.value.used => ~inodes[buffered.inode].used

ImageInv ==
    /\ ImageTypes
    /\ ~torn => FilesSound(Current, blocklist, contents, last) /\ BufferRight

\* Facts about the types.
LEMMA ImageNumbers ==
    /\ 0 \in DiskBlocks /\ DiskBlocks \subseteq Nat /\ Inodes \subseteq Nat /\ 0 \notin Inodes
    /\ FreeInode \in FileType /\ ~FreeInode.used /\ FreeInode.blocks = <<>>
  BY ImageAssumption DEF DiskBlocks, Inodes, FreeInode, FileType

\* What the program sees: the inodes, with what is in the buffer.
LEMMA CurrentType ==
    ASSUME ImageTypes
    PROVE  /\ Current \in [Inodes -> FileType]
           /\ buffered # NoWrite => /\ buffered \in WriteType /\ buffered.inode \in Inodes
                                    /\ buffered.value \in FileType
                                    /\ Current = [inodes EXCEPT ![buffered.inode] = buffered.value]
           /\ buffered = NoWrite => Current = inodes
  BY DEF ImageTypes, Current, WriteType

LEMMA FlushedKeeps ==
    ASSUME ImageTypes, Flushed
    PROVE  /\ inodes' \in [Inodes -> FileType] /\ buffered' = NoWrite /\ Current' = Current /\ BufferRight'
  BY CurrentType DEF Flushed, Current, BufferRight

LEMMA BufferKeeps ==
    ASSUME ImageTypes, NEW i \in Inodes, NEW f \in FileType, Buffer(i, f)
    PROVE  /\ inodes' \in [Inodes -> FileType] /\ buffered' \in WriteType
           /\ Current' = [Current EXCEPT ![i] = f]
           /\ (f.used => ~Current[i].used) => BufferRight'
<1>1. PICK w : w = [inode |-> i, value |-> f]
  OBVIOUS
<1>2. w \in WriteType /\ w.inode = i /\ w.value = f
  BY <1>1 DEF WriteType
<1>3. buffered' = w /\ inodes' = Current
  BY <1>1 DEF Buffer
<1>4. w # NoWrite
  <2>1. NoWrite.inode = 0
    BY DEF NoWrite
  <2> QED
    BY <1>2, <2>1, ImageNumbers
<1>5. Current' = [Current EXCEPT ![i] = f]
  BY <1>2, <1>3, <1>4 DEF Current
<1>6. (f.used => ~Current[i].used) => BufferRight'
  BY <1>2, <1>3 DEF BufferRight
<1> QED
  BY <1>2, <1>3, <1>5, <1>6, CurrentType

\* The first of the inodes that an operation looks for.
LEMMA FirstIs ==
    ASSUME NEW is \in SUBSET Inodes, is # {}
    PROVE  FirstInode(is) \in is
<1>1. is \in SUBSET Nat
  BY ImageNumbers
<1>2. \E i \in is : \A j \in is : i <= j
  BY <1>1, LeastNatural
<1> QED
  BY <1>2 DEF FirstInode

\* The free blocks below a block, and the block that has so many below it.
Below(b) == {c \in FreeBlocks : c < b}
HasBelow(n) == \E b \in FreeBlocks : Cardinality(Below(b)) = n

LEMMA FreeFinite ==
    /\ IsFiniteSet(FreeBlocks) /\ FreeBlocks \in SUBSET Nat /\ Cardinality(FreeBlocks) \in Nat
    /\ \A b : IsFiniteSet(Below(b)) /\ Cardinality(Below(b)) \in Nat
<1>1. IsFiniteSet(DiskBlocks)
  <2>1. 0 \in Int /\ NBlocks - 1 \in Int
    BY ImageAssumption
  <2> QED
    BY <2>1, FS_Interval DEF DiskBlocks
<1>2. FreeBlocks \subseteq DiskBlocks
  BY DEF FreeBlocks
<1>3. IsFiniteSet(FreeBlocks) /\ Cardinality(FreeBlocks) \in Nat
  BY <1>1, <1>2, FS_Subset, FS_CardinalityType
<1>4. ASSUME NEW b PROVE IsFiniteSet(Below(b)) /\ Cardinality(Below(b)) \in Nat
  <2>1. Below(b) \subseteq FreeBlocks
    BY DEF Below
  <2> QED
    BY <1>3, <2>1, FS_Subset, FS_CardinalityType
<1> QED
  BY <1>2, <1>3, <1>4, ImageNumbers

\* The next free block has one more below it.
LEMMA NextFree ==
    ASSUME NEW n \in Nat, n < Cardinality(FreeBlocks), n > 0 => HasBelow(n - 1)
    PROVE  HasBelow(n)
<1>1. CASE n = 0
  <2>1. FreeBlocks # {}
    BY <1>1, FS_EmptySet
  <2>2. PICK b \in FreeBlocks : \A c \in FreeBlocks : b <= c
    BY <2>1, FreeFinite, LeastNatural
  <2>3. Below(b) = {}
    <3> SUFFICES ASSUME NEW c \in FreeBlocks, c < b PROVE FALSE
      BY DEF Below
    <3> QED
      BY <2>2, FreeFinite
  <2>4. Cardinality(Below(b)) = 0
    BY <2>3, FS_EmptySet
  <2> QED
    BY <1>1, <2>4 DEF HasBelow
<1>2. CASE n > 0
  <2>1. PICK a \in FreeBlocks : Cardinality(Below(a)) = n - 1
    BY <1>2 DEF HasBelow
  <2>2. PICK U : U = Below(a) \cup {a}
    OBVIOUS
  <2>3. a \notin Below(a) /\ a \in Nat
    BY FreeFinite DEF Below
  <2>4. IsFiniteSet(U) /\ Cardinality(U) = n
    <3>1. IsFiniteSet(Below(a))
      BY FreeFinite
    <3>2. IsFiniteSet(U) /\ Cardinality(U) = Cardinality(Below(a)) + 1
      BY <2>2, <2>3, <3>1, FS_AddElement
    <3> QED
      BY <2>1, <3>2
  <2>5. PICK W : W = {c \in FreeBlocks : c > a}
    OBVIOUS
  <2>6. W # {}
    <3> SUFFICES ASSUME W = {} PROVE FALSE
      OBVIOUS
    <3>1. FreeBlocks \subseteq U
      <4> SUFFICES ASSUME NEW c \in FreeBlocks PROVE c \in U
        OBVIOUS
      <4>1. c \in Nat /\ ~(c > a)
        BY <2>5, FreeFinite
      <4>2. c < a \/ c = a
        BY <2>3, <4>1
      <4> QED
        BY <2>2, <4>2 DEF Below
    <3>2. Cardinality(FreeBlocks) <= Cardinality(U)
      BY <2>4, <3>1, FS_Subset
    <3> QED
      BY <2>4, <3>2, FreeFinite
  <2>7. PICK b \in W : \A c \in W : b <= c
    <3>1. W \in SUBSET Nat
      BY <2>5, FreeFinite
    <3> QED
      BY <2>6, <3>1, LeastNatural
  <2>8. b \in FreeBlocks /\ b \in Nat /\ b > a
    BY <2>5, <2>7, FreeFinite
  <2>9. ASSUME NEW c \in FreeBlocks PROVE c < b <=> c < a \/ c = a
    <3>1. c \in Nat
      BY FreeFinite
    <3>2. c > a => b <= c
      BY <2>5, <2>7
    <3> QED
      BY <2>3, <2>8, <3>1, <3>2
  <2>10. Below(b) = U
    BY <2>2, <2>9 DEF Below
  <2> QED
    BY <2>4, <2>8, <2>10 DEF HasBelow
<1> QED
  BY <1>1, <1>2

LEMMA FreeInOrder ==
    ASSUME NEW n \in Nat, n < Cardinality(FreeBlocks)
    PROVE  HasBelow(n)
<1>1. PICK U : U = {m \in Nat : m < Cardinality(FreeBlocks) /\ ~HasBelow(m)}
  OBVIOUS
<1>2. ASSUME U # {} PROVE FALSE
  <2>1. PICK m \in U : \A x \in U : m <= x
    BY <1>1, <1>2, LeastNatural
  <2>2. m \in Nat /\ m < Cardinality(FreeBlocks) /\ ~HasBelow(m)
    BY <1>1, <2>1
  <2>3. m > 0 => HasBelow(m - 1)
    <3> SUFFICES ASSUME m > 0 PROVE HasBelow(m - 1)
      OBVIOUS
    <3>1. m - 1 \in Nat /\ m - 1 < Cardinality(FreeBlocks) /\ m - 1 \notin U
      BY <1>1, <2>1, <2>2, FreeFinite
    <3> QED
      BY <1>1, <3>1
  <2> QED
    BY <2>2, <2>3, NextFree
<1> QED
  BY <1>1, <1>2

\* create_file takes as many different free blocks as the file has.
LEMMA AllocatedRight ==
    ASSUME NEW size \in Nat, size <= Cardinality(FreeBlocks)
    PROVE  /\ Allocated(size) \in Seq(DiskBlocks) /\ Len(Allocated(size)) = size
           /\ \A k \in 1 .. size : Allocated(size)[k] \in FreeBlocks
           /\ \A k, m \in 1 .. size : Allocated(size)[k] = Allocated(size)[m] => k = m
<1>1. PICK bs : bs = Allocated(size)
  OBVIOUS
<1>2. ASSUME NEW k \in 1 .. size
      PROVE  bs[k] \in FreeBlocks /\ Cardinality(Below(bs[k])) = k - 1
  <2>1. k - 1 \in Nat /\ k - 1 < Cardinality(FreeBlocks)
    BY FreeFinite
  <2>2. \E b \in FreeBlocks : Cardinality({c \in FreeBlocks : c < b}) = k - 1
    BY <2>1, FreeInOrder DEF HasBelow, Below
  <2>3. bs[k] = CHOOSE b \in FreeBlocks : Cardinality({c \in FreeBlocks : c < b}) = k - 1
    BY <1>1 DEF Allocated
  <2> QED
    BY <2>2, <2>3 DEF Below
<1>3. bs \in [1 .. size -> DiskBlocks]
  BY <1>1, <1>2 DEF Allocated, FreeBlocks
<1>4. bs \in Seq(DiskBlocks) /\ Len(bs) = size
  BY <1>3
<1>5. \A k, m \in 1 .. size : bs[k] = bs[m] => k = m
  <2> SUFFICES ASSUME NEW k \in 1 .. size, NEW m \in 1 .. size, bs[k] = bs[m] PROVE k = m
    OBVIOUS
  <2>1. k - 1 = m - 1
    BY <1>2
  <2> QED
    BY <2>1
<1> QED
  BY <1>1, <1>2, <1>4, <1>5

-----------------------------------------------------------------------------
\* A creation: the new file has blocks that were free.
TakesFree(f, list, data, l, list2) ==
    /\ f \in FileType /\ l \in Seq(Data) /\ Len(l) = Len(f.blocks)
    /\ \A k \in 1 .. Len(f.blocks) : ~list[f.blocks[k]] /\ data[f.blocks[k]] = l[k]
    /\ \A k, m \in 1 .. Len(f.blocks) : f.blocks[k] = f.blocks[m] => k = m
    /\ list2 = [b \in DiskBlocks |-> list[b] \/ \E k \in 1 .. Len(f.blocks) : f.blocks[k] = b]

LEMMA CreateSound ==
    ASSUME NEW files \in [Inodes -> FileType], NEW list \in [DiskBlocks -> BOOLEAN], NEW data,
           NEW written \in [Inodes -> Seq(Data)], FilesSound(files, list, data, written),
           NEW i \in Inodes, ~files[i].used, NEW f, NEW l, NEW list2, TakesFree(f, list, data, l, list2)
    PROVE  FilesSound([files EXCEPT ![i] = f], list2, data, [written EXCEPT ![i] = l])
<1> USE DEF TakesFree
<1>1. PICK files2, written2 : files2 = [files EXCEPT ![i] = f] /\ written2 = [written EXCEPT ![i] = l]
  OBVIOUS
<1>2. /\ files2[i] = f /\ written2[i] = l
      /\ \A j \in Inodes : j # i => files2[j] = files[j] /\ written2[j] = written[j]
  BY <1>1
<1>3. ASSUME NEW j \in Inodes
      PROVE  /\ files[j] \in FileType /\ Len(files[j].blocks) \in Nat
             /\ \A k \in 1 .. Len(files[j].blocks) : files[j].blocks[k] \in DiskBlocks
  BY DEF FileType
<1>4. Len(f.blocks) \in Nat /\ \A k \in 1 .. Len(f.blocks) : f.blocks[k] \in DiskBlocks
  BY DEF FileType
<1>5. \A b \in DiskBlocks : list[b] => list2[b]
  OBVIOUS
<1>6. list2[0] /\ list[0]
  BY <1>5, ImageNumbers DEF FilesSound
<1>7. ASSUME NEW j \in Inodes PROVE FileSound(files2, list2, data, written2, j)
  <2>1. CASE j = i
    <3>1. ASSUME NEW k \in 1 .. Len(f.blocks)
          PROVE  f.blocks[k] # 0 /\ list2[f.blocks[k]] /\ data[f.blocks[k]] = l[k]
      BY <1>4, <1>6
    <3> QED
      BY <1>2, <2>1, <3>1 DEF FileSound
  <2>2. CASE j # i
    <3>1. FileSound(files, list, data, written, j)
      BY DEF FilesSound
    <3> QED
      BY <1>2, <1>3, <1>5, <2>2, <3>1 DEF FileSound
  <2> QED
    BY <2>1, <2>2
<1>8. ASSUME NEW j \in Inodes, j # i, files[j].used, NEW k \in 1 .. Len(f.blocks),
             NEW m \in 1 .. Len(files[j].blocks)
      PROVE  f.blocks[k] # files[j].blocks[m]
  <2>1. FileSound(files, list, data, written, j)
    BY DEF FilesSound
  <2>2. list[files[j].blocks[m]] /\ ~list[f.blocks[k]]
    BY <1>8, <2>1 DEF FileSound
  <2> QED
    BY <2>2
<1>9. Apart(files2)
  <2> SUFFICES ASSUME NEW a \in Inodes, NEW b \in Inodes, files2[a].used /\ files2[b].used,
                      NEW k \in 1 .. Len(files2[a].blocks), NEW m \in 1 .. Len(files2[b].blocks),
                      files2[a].blocks[k] = files2[b].blocks[m]
               PROVE  a = b /\ k = m
    BY DEF Apart
  <2>1. CASE a = i /\ b = i
    BY <1>2, <2>1
  <2>2. CASE a = i /\ b # i
    BY <1>2, <1>8, <2>2
  <2>3. CASE a # i /\ b = i
    BY <1>2, <1>8, <2>3
  <2>4. CASE a # i /\ b # i
    BY SMTT(60), <1>2, <2>4 DEF FilesSound, Apart
  <2> QED
    BY <2>1, <2>2, <2>3, <2>4
<1> QED
  BY <1>1, <1>6, <1>7, <1>9 DEF FilesSound

\* A deletion: the blocks that become free are in no other file.
LEMMA DeleteSound ==
    ASSUME NEW files \in [Inodes -> FileType], NEW list \in [DiskBlocks -> BOOLEAN], NEW data,
           NEW written \in [Inodes -> Seq(Data)], FilesSound(files, list, data, written),
           NEW i \in Inodes, files[i].used,
           NEW list2, list2 = [b \in DiskBlocks |->
                                 list[b] /\ \A k \in 1 .. Len(files[i].blocks) : files[i].blocks[k] # b]
    PROVE  FilesSound([files EXCEPT ![i] = FreeInode], list2, data, [written EXCEPT ![i] = <<>>])
<1>1. PICK files2, written2 : files2 = [files EXCEPT ![i] = FreeInode] /\ written2 = [written EXCEPT ![i] = <<>>]
  OBVIOUS
<1>2. /\ ~files2[i].used
      /\ \A j \in Inodes : j # i => files2[j] = files[j] /\ written2[j] = written[j]
  BY <1>1, ImageNumbers
<1>3. ASSUME NEW j \in Inodes
      PROVE  /\ files[j] \in FileType /\ Len(files[j].blocks) \in Nat
             /\ \A k \in 1 .. Len(files[j].blocks) : files[j].blocks[k] \in DiskBlocks
  BY DEF FileType
<1>4. list2[0]
  <2>1. FileSound(files, list, data, written, i) /\ list[0]
    BY DEF FilesSound
  <2> QED
    BY <2>1, ImageNumbers DEF FileSound
<1>5. ASSUME NEW j \in Inodes PROVE FileSound(files2, list2, data, written2, j)
  <2>1. CASE j = i
    BY <1>2, <2>1 DEF FileSound
  <2>2. CASE j # i /\ files[j].used
    <3>1. FileSound(files, list, data, written, j) /\ Apart(files)
      BY DEF FilesSound
    <3>2. ASSUME NEW k \in 1 .. Len(files[j].blocks) PROVE list2[files[j].blocks[k]]
      <4>1. \A m \in 1 .. Len(files[i].blocks) : files[i].blocks[m] # files[j].blocks[k]
        BY <2>2, <3>1 DEF Apart
      <4>2. list[files[j].blocks[k]] /\ files[j].blocks[k] \in DiskBlocks
        BY <1>3, <2>2, <3>1 DEF FileSound
      <4> QED
        BY <4>1, <4>2
    <3> QED
      BY <1>2, <2>2, <3>1, <3>2 DEF FileSound
  <2>3. CASE j # i /\ ~files[j].used
    BY <1>2, <2>3 DEF FileSound
  <2> QED
    BY <2>1, <2>2, <2>3
<1>6. Apart(files2)
  <2>1. Apart(files)
    BY DEF FilesSound
  <2> SUFFICES ASSUME NEW a \in Inodes, NEW b \in Inodes, files2[a].used /\ files2[b].used,
                      NEW k \in 1 .. Len(files2[a].blocks), NEW m \in 1 .. Len(files2[b].blocks),
                      files2[a].blocks[k] = files2[b].blocks[m]
               PROVE  a = b /\ k = m
    BY DEF Apart
  <2>2. a # i /\ b # i
    BY <1>2
  <2> QED
    BY <1>2, <2>1, <2>2 DEF Apart
<1> QED
  BY <1>1, <1>4, <1>5, <1>6 DEF FilesSound

\* A write: the block is in no other place.
WritesOne(files, data, written, i, data2, written2) ==
    \E n \in 1 .. Len(files[i].blocks), v \in Data :
        /\ data2 = [data EXCEPT ![files[i].blocks[n]] = v]
        /\ written2 = [written EXCEPT ![i] = [written[i] EXCEPT ![n] = v]]

LEMMA WriteSound ==
    ASSUME NEW files \in [Inodes -> FileType], NEW list, NEW data \in [DiskBlocks -> Data],
           NEW written \in [Inodes -> Seq(Data)], FilesSound(files, list, data, written),
           NEW i \in Inodes, files[i].used, NEW data2, NEW written2,
           WritesOne(files, data, written, i, data2, written2)
    PROVE  FilesSound(files, list, data2, written2) /\ data2 \in [DiskBlocks -> Data]
           /\ written2 \in [Inodes -> Seq(Data)]
<1>0. PICK n \in 1 .. Len(files[i].blocks), v \in Data :
         /\ data2 = [data EXCEPT ![files[i].blocks[n]] = v]
         /\ written2 = [written EXCEPT ![i] = [written[i] EXCEPT ![n] = v]]
  BY DEF WritesOne
<1>1. FileSound(files, list, data, written, i) /\ Apart(files) /\ list[0]
  BY DEF FilesSound
<1>2. PICK l, l2 : l = written[i] /\ l2 = [l EXCEPT ![n] = v]
  OBVIOUS
<1>3. l \in Seq(Data) /\ Len(l) = Len(files[i].blocks) /\ n \in 1 .. Len(l)
  BY <1>1, <1>2 DEF FileSound
<1>4. l2 \in Seq(Data) /\ Len(l2) = Len(l) /\ l2[n] = v /\ \A k \in 1 .. Len(l) : k # n => l2[k] = l[k]
  BY <1>2, <1>3
<1>5. written2 \in [Inodes -> Seq(Data)] /\ written2[i] = l2 /\ \A j \in Inodes : j # i => written2[j] = written[j]
  BY <1>0, <1>2, <1>4
<1>6. ASSUME NEW j \in Inodes
      PROVE  /\ files[j] \in FileType /\ Len(files[j].blocks) \in Nat
             /\ \A k \in 1 .. Len(files[j].blocks) : files[j].blocks[k] \in DiskBlocks
  BY DEF FileType
<1>7. /\ data2 \in [DiskBlocks -> Data] /\ data2[files[i].blocks[n]] = v
      /\ \A b \in DiskBlocks : b # files[i].blocks[n] => data2[b] = data[b]
  BY <1>0, <1>6
<1>8. ASSUME NEW j \in Inodes, files[j].used PROVE FileSound(files, list, data2, written2, j)
  <2>1. FileSound(files, list, data, written, j)
    BY DEF FilesSound
  <2>2. ASSUME NEW k \in 1 .. Len(files[j].blocks) PROVE data2[files[j].blocks[k]] = written2[j][k]
    <3>1. CASE j = i /\ k = n
      BY <1>4, <1>5, <1>7, <3>1
    <3>2. CASE j = i /\ k # n
      <4>1. files[j].blocks[k] # files[i].blocks[n]
        BY <1>1, <1>8, <3>2 DEF Apart
      <4> QED
        BY <1>2, <1>3, <1>4, <1>5, <1>6, <1>7, <1>8, <2>1, <3>2, <4>1 DEF FileSound
    <3>3. CASE j # i
      <4>1. files[j].blocks[k] # files[i].blocks[n]
        BY <1>1, <1>8, <3>3 DEF Apart
      <4> QED
        BY <1>5, <1>6, <1>7, <1>8, <2>1, <3>3, <4>1 DEF FileSound
    <3> QED
      BY <3>1, <3>2, <3>3
  <2>3. Len(written2[j]) = Len(files[j].blocks)
    BY <1>2, <1>3, <1>4, <1>5, <1>8, <2>1 DEF FileSound
  <2> QED
    BY <1>8, <2>1, <2>2, <2>3 DEF FileSound
<1>9. \A j \in Inodes : FileSound(files, list, data2, written2, j)
  BY <1>8 DEF FileSound
<1> QED
  BY <1>1, <1>5, <1>7, <1>9 DEF FilesSound

-----------------------------------------------------------------------------
\* The operations.
LEMMA QuietImage ==
    ASSUME ImageInv, ~torn, Flushed, UNCHANGED <<blocklist, contents, last, torn>>
    PROVE  ImageInv'
<1>1. ImageTypes /\ FilesSound(Current, blocklist, contents, last)
  BY DEF ImageInv
<1>2. inodes' \in [Inodes -> FileType] /\ buffered' = NoWrite /\ Current' = Current /\ BufferRight'
  BY <1>1, FlushedKeeps
<1>3. ImageTypes'
  BY <1>1, <1>2 DEF ImageTypes
<1>4. FilesSound(Current, blocklist, contents, last)'
  <2>1. PICK files : files = Current
    OBVIOUS
  <2>2. FilesSound(files, blocklist, contents, last)' <=> FilesSound(files, blocklist, contents, last)
    BY DEF FilesSound, FileSound
  <2> QED
    BY <1>1, <1>2, <2>1, <2>2 DEF FilesSound, FileSound
<1> QED
  BY <1>2, <1>3, <1>4 DEF ImageInv

\* The disk after a step, in terms of what the program sees.
LEMMA ImageTo ==
    ASSUME ImageInv, NEW files, NEW list, NEW data, NEW written,
           Current' = files /\ blocklist' = list /\ contents' = data /\ last' = written,
           ImageTypes', BufferRight', FilesSound(files, list, data, written)
    PROVE  ImageInv'
  BY DEF ImageInv, FilesSound, FileSound, Apart

LEMMA CreateKeeps ==
    ASSUME ImageInv, ~torn, NEW name \in FileNames, NEW size \in Sizes, create_file(name, size)
    PROVE  ImageInv'
<1>1. CASE Cardinality(FreeBlocks) < size \/ UnusedInodes = {}
  BY <1>1, QuietImage DEF create_file
<1>2. CASE ~(Cardinality(FreeBlocks) < size \/ UnusedInodes = {})
  <2>1. PICK i, bs, f, l, files, written, list :
          /\ i = FirstInode(UnusedInodes) /\ bs = Allocated(size)
          /\ f = [used |-> TRUE, name |-> name, blocks |-> bs]
          /\ l = [k \in 1 .. size |-> contents[bs[k]]]
          /\ files = Current /\ written = [last EXCEPT ![i] = l] /\ list = blocklist'
    OBVIOUS
  <2>2. /\ ImageTypes /\ FilesSound(files, blocklist, contents, last) /\ files \in [Inodes -> FileType]
        /\ blocklist \in [DiskBlocks -> BOOLEAN] /\ contents \in [DiskBlocks -> Data]
        /\ last \in [Inodes -> Seq(Data)]
    BY <2>1, CurrentType DEF ImageInv, ImageTypes
  <2>3. size \in Nat /\ size <= Cardinality(FreeBlocks)
    BY <1>2, ImageAssumption, FreeFinite
  <2>4. /\ list = [b \in DiskBlocks |-> blocklist[b] \/ \E k \in 1 .. size : bs[k] = b]
        /\ Buffer(i, f) /\ last' = written /\ contents' = contents /\ torn' = torn
    BY <1>2, <2>1 DEF create_file
  <2>5. i \in Inodes /\ ~files[i].used
    <3>1. i \in UnusedInodes
      BY <1>2, <2>1, FirstIs DEF UnusedInodes
    <3> QED
      BY <2>1, <3>1 DEF UnusedInodes
  <2>6. /\ bs \in Seq(DiskBlocks) /\ Len(bs) = size /\ \A k \in 1 .. size : bs[k] \in FreeBlocks
        /\ \A k, m \in 1 .. size : bs[k] = bs[m] => k = m
    BY <2>1, <2>3, AllocatedRight
  <2>7. f \in FileType /\ f.used /\ f.blocks = bs
    BY <2>1, <2>6 DEF FileType
  <2>8. l \in Seq(Data) /\ Len(l) = size /\ \A k \in 1 .. size : l[k] = contents[bs[k]]
    <3>1. l \in [1 .. size -> Data]
      BY <2>1, <2>2, <2>6 DEF FreeBlocks
    <3> QED
      BY <2>1, <2>3, <3>1
  <2>9. TakesFree(f, blocklist, contents, l, list)
    BY <2>4, <2>6, <2>7, <2>8 DEF TakesFree, FreeBlocks
  <2>10. FilesSound([files EXCEPT ![i] = f], list, contents, written)
    BY <2>1, <2>2, <2>5, <2>9, CreateSound
  <2>11. inodes' \in [Inodes -> FileType] /\ buffered' \in WriteType /\ Current' = [files EXCEPT ![i] = f]
         /\ BufferRight'
    BY <2>1, <2>2, <2>4, <2>5, <2>7, BufferKeeps
  <2>12. ImageTypes'
    <3>1. list \in [DiskBlocks -> BOOLEAN]
      BY <2>4
    <3>2. written \in [Inodes -> Seq(Data)]
      BY <2>1, <2>2, <2>8
    <3> QED
      BY <2>1, <2>2, <2>4, <2>11, <3>1, <3>2 DEF ImageTypes
  <2> QED
    BY <2>1, <2>4, <2>10, <2>11, <2>12, ImageTo
<1> QED
  BY <1>1, <1>2

LEMMA DeleteKeeps ==
    ASSUME ImageInv, ~torn, NEW name \in FileNames, delete_file(name)
    PROVE  ImageInv'
<1>1. CASE Named(name) = {}
  BY <1>1, QuietImage DEF delete_file
<1>2. CASE Named(name) # {}
  <2>1. PICK i, files, written, list :
          /\ i = FirstInode(Named(name)) /\ files = Current /\ written = [last EXCEPT ![i] = <<>>]
          /\ list = blocklist'
    OBVIOUS
  <2>2. /\ ImageTypes /\ FilesSound(files, blocklist, contents, last) /\ files \in [Inodes -> FileType]
        /\ blocklist \in [DiskBlocks -> BOOLEAN] /\ last \in [Inodes -> Seq(Data)]
    BY <2>1, CurrentType DEF ImageInv, ImageTypes
  <2>3. /\ list = [b \in DiskBlocks |->
                     blocklist[b] /\ \A k \in DOMAIN files[i].blocks : files[i].blocks[k] # b]
        /\ Buffer(i, FreeInode) /\ last' = written /\ contents' = contents /\ torn' = torn
    BY <1>2, <2>1 DEF delete_file
  <2>4. i \in Inodes /\ files[i].used
    <3>1. i \in Named(name)
      BY <1>2, <2>1, FirstIs DEF Named
    <3> QED
      BY <2>1, <3>1 DEF Named
  <2>5. DOMAIN files[i].blocks = 1 .. Len(files[i].blocks)
    BY <2>2, <2>4 DEF FileType
  <2>6. FilesSound([files EXCEPT ![i] = FreeInode], list, contents, written)
    <3>1. list = [b \in DiskBlocks |->
                    blocklist[b] /\ \A k \in 1 .. Len(files[i].blocks) : files[i].blocks[k] # b]
      BY <2>3, <2>5
    <3>2. FilesSound([files EXCEPT ![i] = FreeInode], list, contents, [last EXCEPT ![i] = <<>>])
      BY ONLY <2>2, <2>4, <3>1, DeleteSound
    <3> QED
      BY <2>1, <3>2
  <2>7. inodes' \in [Inodes -> FileType] /\ buffered' \in WriteType
        /\ Current' = [files EXCEPT ![i] = FreeInode] /\ BufferRight'
    BY <2>1, <2>2, <2>3, <2>4, BufferKeeps, ImageNumbers
  <2>8. ImageTypes'
    <3>1. list \in [DiskBlocks -> BOOLEAN]
      BY <2>3
    <3>2. written \in [Inodes -> Seq(Data)]
      <4>1. <<>> \in Seq(Data)
        OBVIOUS
      <4>2. PICK e \in Seq(Data) : e = <<>>
        BY <4>1
      <4> QED
        BY <2>1, <2>2, <4>2
    <3> QED
      BY <2>1, <2>2, <2>3, <2>7, <3>1, <3>2 DEF ImageTypes
  <2> QED
    BY <2>1, <2>3, <2>6, <2>7, <2>8, ImageTo
<1> QED
  BY <1>1, <1>2

LEMMA WriteKeeps ==
    ASSUME ImageInv, ~torn, NEW name \in FileNames, NEW n \in BlockNums, NEW v \in Values, write(name, n, v)
    PROVE  ImageInv'
<1>1. PICK i, files : i = FirstInode(Matches(name)) /\ files = Current
  OBVIOUS
<1>2. CASE Matches(name) = {} \/ n >= Len(files[i].blocks)
  BY <1>1, <1>2, QuietImage DEF write
<1>3. CASE ~(Matches(name) = {} \/ n >= Len(files[i].blocks))
  <2>1. PICK k, addr, l, data, written :
          /\ k = n + 1 /\ addr = files[i].blocks[k] /\ data = [contents EXCEPT ![addr] = v]
          /\ l = [last[i] EXCEPT ![k] = v] /\ written = [last EXCEPT ![i] = l]
    OBVIOUS
  <2>2. /\ ImageTypes /\ FilesSound(files, blocklist, contents, last) /\ files \in [Inodes -> FileType]
        /\ contents \in [DiskBlocks -> Data] /\ last \in [Inodes -> Seq(Data)]
    BY <1>1, CurrentType DEF ImageInv, ImageTypes
  <2>3. Flushed /\ contents' = data /\ last' = written /\ blocklist' = blocklist /\ torn' = torn
    BY <1>1, <1>3, <2>1 DEF write
  <2>4. i \in Inodes /\ files[i].used
    <3>1. i \in Matches(name)
      BY <1>1, <1>3, FirstIs DEF Matches, Named
    <3> QED
      BY <1>1, <3>1 DEF Matches, Named
  <2>5. k \in 1 .. Len(files[i].blocks) /\ v \in Data
    BY <1>3, <2>1, <2>2, <2>4, ImageAssumption DEF FileType, Data, BlockNums
  <2>6. /\ FilesSound(files, blocklist, data, written) /\ data \in [DiskBlocks -> Data]
        /\ written \in [Inodes -> Seq(Data)]
    <3>1. WritesOne(files, contents, last, i, data, written)
      BY <2>1, <2>5 DEF WritesOne
    <3> QED
      BY ONLY <2>2, <2>4, <3>1, WriteSound
  <2>7. inodes' \in [Inodes -> FileType] /\ buffered' = NoWrite /\ Current' = files /\ BufferRight'
    BY <1>1, <2>2, <2>3, FlushedKeeps
  <2>8. ImageTypes'
    BY <2>2, <2>3, <2>6, <2>7 DEF ImageTypes
  <2> QED
    BY <2>3, <2>6, <2>7, <2>8, ImageTo
<1> QED
  BY <1>2, <1>3

\* A creation that is lost leaves the files there were.
LEMMA KilledKeeps ==
    ASSUME ImageInv, ~torn, Killed
    PROVE  ImageInv'
<1>1. /\ ImageTypes /\ BufferRight /\ FilesSound(Current, blocklist, contents, last)
  BY DEF ImageInv
<1>2. /\ buffered # NoWrite /\ torn' = ~buffered.value.used /\ buffered' = NoWrite
      /\ UNCHANGED <<blocklist, inodes, contents, last>>
  BY DEF Killed
<1>3. PICK i, f, files : i = buffered.inode /\ f = buffered.value /\ files = Current
  OBVIOUS
<1>4. /\ i \in Inodes /\ f \in FileType /\ files = [inodes EXCEPT ![i] = f]
      /\ inodes \in [Inodes -> FileType] /\ f.used \in BOOLEAN
  BY <1>1, <1>2, <1>3, CurrentType DEF ImageTypes, FileType
<1>5. ImageTypes'
  BY <1>1, <1>2, <1>3, <1>4 DEF ImageTypes
<1>6. CASE ~f.used
  BY <1>2, <1>3, <1>5, <1>6 DEF ImageInv
<1>7. CASE f.used
  <2>1. ~inodes[i].used /\ \A j \in Inodes : j # i => files[j] = inodes[j]
    BY <1>1, <1>2, <1>3, <1>4, <1>7 DEF BufferRight
  <2>2. ASSUME NEW j \in Inodes PROVE FileSound(inodes, blocklist, contents, last, j)
    <3>1. FileSound(files, blocklist, contents, last, j)
      BY <1>1, <1>3 DEF FilesSound
    <3> QED
      BY <2>1, <3>1 DEF FileSound
  <2>3. Apart(inodes)
    <3>1. Apart(files)
      BY <1>1, <1>3 DEF FilesSound
    <3>2. \A j \in Inodes : inodes[j].used => j # i /\ files[j] = inodes[j]
      BY <2>1
    <3> SUFFICES ASSUME NEW a \in Inodes, NEW b \in Inodes, inodes[a].used /\ inodes[b].used,
                        NEW k \in 1 .. Len(inodes[a].blocks), NEW m \in 1 .. Len(inodes[b].blocks),
                        inodes[a].blocks[k] = inodes[b].blocks[m]
                 PROVE  a = b /\ k = m
      BY DEF Apart
    <3>3. files[a] = inodes[a] /\ files[b] = inodes[b]
      BY <3>2
    <3> QED
      BY <3>1, <3>3 DEF Apart
  <2>4. FilesSound(inodes, blocklist, contents, last)
    BY <1>1, <2>2, <2>3 DEF FilesSound
  <2>5. Current' = inodes /\ BufferRight'
    BY <1>2 DEF Current, BufferRight
  <2> QED
    BY <1>2, <1>5, <2>4, <2>5, ImageTo
<1> QED
  BY <1>4, <1>6, <1>7

LEMMA ImageInitRight ==
    ASSUME ImageInit
    PROVE  ImageInv
<1>1. ImageTypes
  BY ImageNumbers DEF ImageInit, ImageTypes, Data
<1>2. Current = inodes /\ BufferRight /\ \A i \in Inodes : ~inodes[i].used
  BY ImageNumbers DEF ImageInit, Current, BufferRight
<1>3. blocklist[0]
  BY ImageNumbers DEF ImageInit
<1> QED
  BY <1>1, <1>2, <1>3 DEF ImageInv, FilesSound, FileSound, Apart

LEMMA ImageNextRight ==
    ASSUME ImageInv, [ImageNext]_imageVars
    PROVE  ImageInv'
<1>1. CASE UNCHANGED imageVars
  BY <1>1 DEF imageVars, ImageInv, ImageTypes, BufferRight, Current, FilesSound, FileSound, Apart
<1>2. CASE ImageNext
  <2> USE <1>2 DEF ImageNext
  <2>1. ~torn
    OBVIOUS
  <2>2. CASE \E name \in FileNames, size \in Sizes : create_file(name, size)
    BY <2>1, <2>2, CreateKeeps
  <2>3. CASE \E name \in FileNames : delete_file(name)
    BY <2>1, <2>3, DeleteKeeps
  <2>4. CASE \E name \in FileNames, k \in BlockNums, v \in Values : write(name, k, v)
    BY <2>1, <2>4, WriteKeeps
  <2>5. CASE read
    BY <2>1, <2>5, QuietImage DEF read
  <2>6. CASE Killed
    BY <2>1, <2>6, KilledKeeps
  <2> QED
    BY <2>2, <2>3, <2>4, <2>5, <2>6
<1> QED
  BY <1>1, <1>2

\* Until a deletion is cut in half, every block of a file is marked in use, in no
\* other file, not the super block, and holds what was last written to it
\* through that file, for disks of any size and kills between the two writes
\* of an operation (fs.cpp, create_file, delete_file and write).
THEOREM DiskStaysSound == ImageSpec => []ImageSound
<1>1. ImageInit => ImageInv
  BY ImageInitRight
<1>2. ImageInv /\ [ImageNext]_imageVars => ImageInv'
  BY ImageNextRight
<1>3. ASSUME ImageInv PROVE ImageSound
  <2>1. PICK files : files = Current
    OBVIOUS
  <2> SUFFICES ASSUME ~torn, NEW i \in Inodes, files[i].used, NEW k \in DOMAIN files[i].blocks
               PROVE  /\ files[i].blocks[k] # 0 /\ blocklist[files[i].blocks[k]]
                      /\ contents[files[i].blocks[k]] = last[i][k]
                      /\ \A j \in Inodes : files[j].used => \A m \in DOMAIN files[j].blocks :
                            files[j].blocks[m] = files[i].blocks[k] => j = i /\ m = k
    BY <2>1 DEF ImageSound
  <2>2. FilesSound(files, blocklist, contents, last) /\ files \in [Inodes -> FileType]
    BY <1>3, <2>1, CurrentType DEF ImageInv
  <2>3. \A j \in Inodes : DOMAIN files[j].blocks = 1 .. Len(files[j].blocks)
    BY <2>2 DEF FileType
  <2>4. FileSound(files, blocklist, contents, last, i) /\ Apart(files)
    BY <2>2 DEF FilesSound
  <2>5. k \in 1 .. Len(files[i].blocks)
    BY <2>3
  <2>6. /\ files[i].blocks[k] # 0 /\ blocklist[files[i].blocks[k]]
        /\ contents[files[i].blocks[k]] = last[i][k]
    BY <2>4, <2>5 DEF FileSound
  <2>7. ASSUME NEW j \in Inodes, files[j].used, NEW m \in DOMAIN files[j].blocks,
               files[j].blocks[m] = files[i].blocks[k]
        PROVE  j = i /\ m = k
    <3>1. m \in 1 .. Len(files[j].blocks)
      BY <2>3, <2>7
    <3> QED
      BY <2>4, <2>5, <2>7, <3>1 DEF Apart
  <2> QED
    BY <2>6, <2>7
<1> QED
  BY <1>1, <1>2, <1>3, PTL DEF ImageSpec
=============================================================================
