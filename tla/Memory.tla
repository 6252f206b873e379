------------------------------- MODULE Memory -------------------------------
(***************************************************************************)
(* Physical pages and address spaces of xv6-public (kalloc.c, vm.c) under  *)
(* the calls that change them: sbrk (growproc), fork (copyuvm), exec and   *)
(* the end of a process.  Every kalloc is a step and fails when the free   *)
(* list is empty, which the other processes decide; each failure runs the  *)
(* code's own clean-up.  Addresses are counted in units of which PGSIZE    *)
(* make a page and KERNBASE is the end of user memory.  The free list is a *)
(* set: which page kalloc hands out does not matter.                       *)
(***************************************************************************)
EXTENDS Integers, FiniteSets

CONSTANTS MemProcs,        \* slots of the process table; 1 is the first process
          Frames,       \* physical pages, numbers above 0
          PGSIZE, KERNBASE, NPTE,
          Increments,   \* arguments of sbrk
          Segments      \* ends (vaddr + memsz) of the segments exec loads

\* Page 1 .. 5 are the first process'.  User memory is a number of full page
\* tables.
ASSUME MemAssumption ==
    /\ MemProcs \subseteq Nat \ {0} /\ 1 \in MemProcs
    /\ IsFiniteSet(Frames) /\ Frames \subseteq Nat \ {0} /\ 1 .. 5 \subseteq Frames
    /\ PGSIZE \in Nat \ {0} /\ NPTE \in Nat \ {0} /\ KERNBASE \in Nat \ {0}
    /\ KERNBASE % PGSIZE = 0 /\ (KERNBASE \div PGSIZE) % NPTE = 0
    /\ Increments \subseteq Int /\ Segments \subseteq Nat

UserPages == 0 .. (KERNBASE \div PGSIZE) - 1
Tables == 0 .. ((KERNBASE \div PGSIZE) \div NPTE) - 1
PDX(k) == k \div NPTE
PGROUNDUP(sz) == ((sz + PGSIZE - 1) \div PGSIZE) * PGSIZE

\* A page directory: its page, the kernel's page tables (as one), the user's
\* page tables and the user's pages, 0 where there is none.
NoSpace == [dir |-> 0, kern |-> 0, tab |-> [t \in Tables |-> 0], page |-> [k \in UserPages |-> 0]]
UnusedSlot == [kstack |-> 0, sz |-> 0, pgdir |-> NoSpace, faults |-> FALSE]

\* A call under way: pgdir is the directory it builds, a the loop variable of
\* allocuvm or copyuvm, end its bound, mem the page it has got and not mapped.
Quiet == [pc |-> "user", call |-> "none", child |-> 0, pgdir |-> NoSpace, oldsz |-> 0,
          a |-> 0, end |-> 0, mem |-> 0]

VARIABLES freelist, slot, job, vmPanic

memVars == <<freelist, slot, job, vmPanic>>

\* inituvm has mapped one page.
FirstSpace == [NoSpace EXCEPT !.dir = 2, !.kern = 3, !.tab[0] = 4, !.page[0] = 5]

\* After kinit2 and userinit.
MemInit ==
    /\ slot = [p \in MemProcs |->
                 IF p # 1 THEN UnusedSlot
                 ELSE [kstack |-> 1, sz |-> PGSIZE, faults |-> FALSE, pgdir |-> FirstSpace]]
    /\ freelist = Frames \ 1 .. 5
    /\ job = [p \in MemProcs |-> Quiet]
    /\ vmPanic = FALSE
-----------------------------------------------------------------------------
Does(p, label) == job[p].pc = label /\ ~vmPanic
Job(p, j) == job' = [job EXCEPT ![p] = j]

\* panic("remap") and panic("copyuvm: page not present").
Panics == vmPanic' = TRUE /\ UNCHANGED <<freelist, slot, job>>

\* kalloc.
Page == CHOOSE f \in freelist : \A g \in freelist : f <= g
Kalloc == freelist # {} /\ freelist' = freelist \ {Page}

Kfree(pages) == freelist' = freelist \cup pages

\* The directory a call works on: sbrk changes the process' own.
Space(p) == IF job[p].call = "sbrk" THEN slot[p].pgdir ELSE job[p].pgdir
SetSpace(p, s, j) ==
    IF job[p].call = "sbrk"
    THEN slot' = [slot EXCEPT ![p].pgdir = s] /\ Job(p, j)
    ELSE UNCHANGED slot /\ Job(p, [j EXCEPT !.pgdir = s])

FirstFreedDown(newsz) == (newsz \div PGSIZE) * PGSIZE                          \* mutant

\* Where deallocuvm starts, the pages it frees, and the directory after it.
FirstFreed(newsz) == PGROUNDUP(newsz)
Within(s, oldsz, newsz) ==
    {k \in UserPages : s.page[k] # 0 /\ FirstFreed(newsz) <= k * PGSIZE /\ k * PGSIZE < oldsz}
Released(s, oldsz, newsz) == {s.page[k] : k \in Within(s, oldsz, newsz)}
Shrunk(s, oldsz, newsz) ==
    [s EXCEPT !.page = [k \in UserPages |-> IF k \in Within(s, oldsz, newsz) THEN 0 ELSE @[k]]]

\* The pages freevm frees.
PagesOf(s) == ({s.dir, s.kern} \cup {s.tab[t] : t \in Tables} \cup Released(s, KERNBASE, 0)) \ {0}

\* A call fails: allocuvm takes back its pages; a half-built directory and the
\* child's stack are freed.
Fail(p, inHand) ==
    LET j == job[p]
    IN  /\ Job(p, Quiet)
        /\ IF j.call = "sbrk"
           THEN /\ slot' = [slot EXCEPT ![p].pgdir = Shrunk(@, j.end, j.oldsz)]
                /\ Kfree(inHand \cup Released(slot[p].pgdir, j.end, j.oldsz))
           ELSE /\ slot' = [q \in MemProcs |-> IF q = j.child THEN UnusedSlot ELSE slot[q]]
                /\ Kfree(inHand \cup PagesOf(j.pgdir) \cup {slot[q].kstack : q \in MemProcs \cap {j.child}})

FailKeepingPage(p, inHand) == Fail(p, {})                                     \* mutant

\* mappages failed for the page in hand: it is freed too.
FailToMap(p, inHand) == Fail(p, inHand)
-----------------------------------------------------------------------------
InUser(p) == Does(p, "user") /\ slot[p].pgdir.dir # 0 /\ ~slot[p].faults

\* sbrk with n > 0: allocuvm from sz to sz + n.  A size of KERNBASE or more is
\* refused before anything is changed.
Grow(p, n) ==
    LET sz == slot[p].sz
    IN  /\ InUser(p) /\ n > 0
        /\ sz + n < KERNBASE
        /\ Job(p, [Quiet EXCEPT !.pc = "kalloc", !.call = "sbrk", !.oldsz = sz,
                                !.a = PGROUNDUP(sz), !.end = sz + n])
        /\ UNCHANGED <<freelist, slot, vmPanic>>

\* The size growproc stores after deallocuvm, which leaves it alone if sz + n
\* wraps around.
SizeAfter(p, n) == IF slot[p].sz + n >= 0 THEN slot[p].sz + n ELSE slot[p].sz

\* sbrk with n < 0.  growproc takes the new size 0 for a failure and keeps sz;
\* the process has no page left to run on.
Shrink(p, n) ==
    LET sz == slot[p].sz
        to == SizeAfter(p, n)
    IN  /\ InUser(p) /\ n < 0
        /\ slot' = [slot EXCEPT ![p] = [@ EXCEPT !.pgdir = Shrunk(slot[p].pgdir, sz, to),
                                                 !.faults = to = 0,
                                                 !.sz = IF to = 0 THEN sz ELSE to]]
        /\ Kfree(Released(slot[p].pgdir, sz, to))
        /\ UNCHANGED <<job, vmPanic>>

\* fork: allocproc takes the first free slot and a kernel stack.
Fork(p) ==
    LET free == {q \in MemProcs : slot[q].kstack = 0}
        np == CHOOSE q \in free : \A r \in free : q <= r
    IN  /\ InUser(p) /\ free # {}
        /\ Kalloc
        /\ slot' = [slot EXCEPT ![np].kstack = Page]
        /\ Job(p, [Quiet EXCEPT !.pc = "setupkvm", !.call = "fork", !.child = np, !.end = slot[p].sz])
        /\ UNCHANGED vmPanic

\* exec of a program whose segment ends at n.
Exec(p, n) ==
    /\ InUser(p)
    /\ Job(p, [Quiet EXCEPT !.pc = "setupkvm", !.call = "exec", !.end = n])
    /\ UNCHANGED <<freelist, slot, vmPanic>>

\* setupkvm: the directory, then the page tables of the kernel's mappings.
Setupkvm(p) ==
    LET j == job[p]
    IN  /\ Does(p, "setupkvm")
        /\ \/ /\ freelist = {}
              /\ Fail(p, {})
           \/ /\ Kalloc
              /\ IF j.pgdir.dir = 0
                 THEN Job(p, [j EXCEPT !.pgdir.dir = Page])
                 ELSE Job(p, [j EXCEPT !.pgdir.kern = Page,
                                       !.pc = IF j.end = 0 \/ j.end >= KERNBASE THEN "bad" ELSE "kalloc"])
              /\ UNCHANGED slot
        /\ UNCHANGED vmPanic

\* A round of allocuvm or copyuvm: kalloc ...
AllocPage(p) ==
    LET j == job[p]
        k == j.a \div PGSIZE
    IN  /\ Does(p, "kalloc") /\ j.a < j.end
        /\ IF j.call = "fork" /\ slot[p].pgdir.page[k] = 0
           THEN Panics
           ELSE /\ \/ freelist = {} /\ Fail(p, {})
                   \/ Kalloc /\ Job(p, [j EXCEPT !.pc = "mappages", !.mem = Page]) /\ UNCHANGED slot
                /\ UNCHANGED vmPanic

\* ... and mappages, for which walkpgdir may need a page table.
Mappages(p) ==
    LET j == job[p]
        s == Space(p)
        k == j.a \div PGSIZE
        next == [j EXCEPT !.pc = "kalloc", !.a = @ + PGSIZE, !.mem = 0]
        mapped == [s EXCEPT !.page[k] = j.mem]
    IN  /\ Does(p, "mappages")
        /\ IF s.page[k] # 0 THEN Panics
           ELSE /\ IF s.tab[PDX(k)] # 0
                   THEN SetSpace(p, mapped, next) /\ UNCHANGED freelist
                   ELSE \/ freelist = {} /\ FailToMap(p, {j.mem})
                        \/ Kalloc /\ SetSpace(p, [mapped EXCEPT !.tab[PDX(k)] = Page], next)
                /\ UNCHANGED vmPanic

Mapped(p, call) == Does(p, "kalloc") /\ job[p].a >= job[p].end /\ job[p].call = call

EndGrow(p) ==
    /\ Mapped(p, "sbrk")
    /\ slot' = [slot EXCEPT ![p].sz = job[p].end]
    /\ Job(p, Quiet)
    /\ UNCHANGED <<freelist, vmPanic>>

EndFork(p) ==
    /\ Mapped(p, "fork")
    /\ slot' = [slot EXCEPT ![job[p].child] = [@ EXCEPT !.sz = slot[p].sz, !.pgdir = job[p].pgdir]]
    /\ Job(p, Quiet)
    /\ UNCHANGED <<freelist, vmPanic>>

\* exec after its segments: two pages at the next boundary.
ExecStack(p) ==
    LET sz == PGROUNDUP(job[p].end)
        end == sz + 2 * PGSIZE
    IN  /\ Mapped(p, "exec")
        /\ Job(p, IF end >= KERNBASE THEN [job[p] EXCEPT !.pc = "bad"]
                  ELSE [job[p] EXCEPT !.call = "stack", !.oldsz = sz, !.a = sz, !.end = end])
        /\ UNCHANGED <<freelist, slot, vmPanic>>

\* exec commits and frees the old image.
ExecCommits(p) ==
    /\ Mapped(p, "stack")
    /\ slot' = [slot EXCEPT ![p] = [@ EXCEPT !.pgdir = job[p].pgdir, !.sz = job[p].end]]
    /\ Kfree(PagesOf(slot[p].pgdir))
    /\ Job(p, Quiet)
    /\ UNCHANGED vmPanic

\* The label bad of exec, with what has been built: a program header that cannot
\* be read or makes no sense, a segment that is not aligned or cannot be loaded
\* once its pages are mapped, arguments that do not fit.
ExecBad(p) ==
    /\ \/ Does(p, "bad") \/ Mapped(p, "exec") \/ Mapped(p, "stack")
       \/ Does(p, "kalloc") /\ job[p].call = "exec" /\ job[p].a = 0
    /\ Fail(p, {})
    /\ UNCHANGED vmPanic

\* exit, and the wait that frees what the process had.
Reap(p) ==
    /\ p # 1 /\ Does(p, "user") /\ slot[p].pgdir.dir # 0
    /\ Kfree({slot[p].kstack} \cup PagesOf(slot[p].pgdir))
    /\ slot' = [slot EXCEPT ![p] = UnusedSlot]
    /\ UNCHANGED <<job, vmPanic>>

MemNext ==
    \E p \in MemProcs :
        \/ \E n \in Increments : Grow(p, n) \/ Shrink(p, n)
        \/ \E n \in Segments : Exec(p, n)
        \/ Fork(p) \/ Setupkvm(p) \/ AllocPage(p) \/ Mappages(p) \/ EndGrow(p) \/ EndFork(p)
        \/ ExecStack(p) \/ ExecCommits(p) \/ ExecBad(p) \/ Reap(p)

MemSpec == MemInit /\ [][MemNext]_memVars
-----------------------------------------------------------------------------
Entries(s) == {<<"dir", 0, s.dir>>, <<"kern", 0, s.kern>>} \cup {<<"tab", t, s.tab[t]>> : t \in Tables}
              \cup {<<"page", k, s.page[k]>> : k \in UserPages}

References ==
    UNION {{<<p, "slot", e>> : e \in Entries(slot[p].pgdir) \cup {<<"kstack", 0, slot[p].kstack>>}}
           \cup {<<p, "job", e>> : e \in Entries(job[p].pgdir) \cup {<<"mem", 0, job[p].mem>>}} :
           p \in MemProcs}

\* Every page is on the free list or has one use, whatever fails and wherever:
\* no page is lost, freed while mapped, or in two address spaces.
PagesOwned ==
    LET used == {r \in References : r[3][3] # 0}
        pages == {r[3][3] : r \in used}
    IN  /\ pages = Frames \ freelist
        /\ Cardinality(used) = Cardinality(pages)

\* Outside sbrk a process has exactly the pages below its sz mapped, which
\* copyuvm, loaduvm and the checks of pointers in syscall.c rely on; so the
\* panics "remap" and "copyuvm: page not present" do not happen.
SizeMapped ==
    /\ ~vmPanic
    /\ \A p \in MemProcs :
         slot[p].pgdir.dir # 0 /\ job[p].call # "sbrk" /\ ~slot[p].faults =>
             \A k \in UserPages : slot[p].pgdir.page[k] # 0 <=> k * PGSIZE < slot[p].sz
=============================================================================
