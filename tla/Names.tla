------------------------------- MODULE Names -------------------------------
(***************************************************************************)
(* Directories, path names and the inode cache of xv6-public (fs.c) under  *)
(* the system calls that use them (sysfile.c) and the close of a file      *)
(* (file.c).  A step goes from one acquisition of an inode's sleep-lock to *)
(* the next; iput takes three, since it reads ip->ref, frees the inode and *)
(* drops the reference under different locks.  What files contain is in    *)
(* FileBlocks, transactions and crashes are in Log.  A cache entry is      *)
(* known by its inode number: iget() makes one entry at most for each.     *)
(***************************************************************************)
EXTENDS Integers, Sequences, FiniteSets

CONSTANTS Users,        \* processes
          NoUser,
          NInodes,      \* sb.ninodes - 1, the last inode number
          Elems,        \* path elements besides "." and ".."
          Requests      \* the system calls processes may make

\* What namex is given: no path is empty, and any may go through "." and "..".
DirElems == Elems \cup {".", ".."}
Paths == [abs : BOOLEAN, elems : Seq(DirElems) \ {<<>>}]
Ops == {"open", "create", "mkdir", "unlink", "link", "chdir"}

ASSUME NamesAssumption ==
    /\ IsFiniteSet(Users) /\ NoUser \notin Users /\ NInodes \in Nat \ {0}
    /\ IsFiniteSet(Elems) /\ "." \notin Elems /\ ".." \notin Elems
    /\ \A r \in Requests : r.op \in Ops /\ r.path \in Paths /\ (r.op = "link" => r.new \in Paths)

Root == 1
Inums == 1 .. NInodes
NoEnts == [n \in DirElems |-> 0]

VARIABLES dinode,       \* on disk: type, nlink, directory entries
          inode,        \* the cache: ref, valid, type, nlink, and who has the lock
          cwd, ofile,   \* of each process; it has one descriptor
          call,         \* where each process is in a call, and its locals
          fsPanic,
          strayed       \* history: a lookup of ".." has come to an inode of no link

namesVars == <<dinode, inode, cwd, ofile, call, fsPanic, strayed>>

\* w is the inode namex has reached, rest what is left of the path; ip is the
\* local of the system call, put the argument of iput; ok, bad and ret are
\* where namex and iput return to.
Outside == [pc |-> "user", req |-> [op |-> "none"], w |-> 0, rest |-> <<>>, par |-> FALSE,
            ok |-> "user", bad |-> "user", ip |-> 0, put |-> 0, ret |-> "user"]

NamesInit ==
    /\ dinode = [i \in Inums |->
                   IF i = Root
                   THEN [type |-> "dir", nlink |-> 1,
                         ents |-> [NoEnts EXCEPT !["."] = Root, ![".."] = Root]]
                   ELSE [type |-> "free", nlink |-> 0, ents |-> NoEnts]]
    /\ inode = [i \in Inums |->
                  [ref |-> IF i = Root THEN Cardinality(Users) ELSE 0, valid |-> FALSE,
                   type |-> "free", nlink |-> 0, lock |-> NoUser]]
    /\ cwd = [p \in Users |-> Root]
    /\ ofile = [p \in Users |-> 0]
    /\ call = [p \in Users |-> Outside]
    /\ fsPanic = "no"
    /\ strayed = FALSE

At(p, label) == call[p].pc = label /\ fsPanic = "no"
Go(p, c) == call' = [call EXCEPT ![p] = c]
GoTo(p, label) == Go(p, [call[p] EXCEPT !.pc = label])
Return(p) == Go(p, Outside)
FsPanic(what) == fsPanic' = what /\ UNCHANGED <<dinode, inode, cwd, ofile, call>>

\* iget and idup: an entry that nobody referred to is recycled.
Got(entry) == [entry EXCEPT !.ref = @ + 1, !.valid = @ /\ entry.ref > 0]

\* The entry once ilock has read it from disk if necessary.
Loaded(i) ==
    IF inode[i].valid THEN inode[i]
    ELSE [inode[i] EXCEPT !.valid = TRUE, !.type = dinode[i].type, !.nlink = dinode[i].nlink]

\* The next element of a path, which skipelem has cut off.
Elem(p) == Head(call[p].rest)

\* The inode number a directory has for a name, or 0.
dirlookup(d, name) == dinode[d].ents[name]

\* The cache once dirlookup has taken a reference to i, which may be the
\* directory itself.
With(cached, i) == [cached EXCEPT ![i] = Got(cached[i])]

\* ilock(i) goes on once iunlock has given the lock back.
CanLock(i) == inode[i].lock = NoUser
Typeless(i) == ~inode[i].valid /\ dinode[i].type = "free"

\* A step at a label that waits for the lock of i.
Locking(p, label, i) == At(p, label) /\ CanLock(i)
-----------------------------------------------------------------------------
\* begin_op and the start of namex, after what the caller did to the cache.
NamexFrom(p, cached, path, par, ok, bad, c) ==
    LET start == IF path.abs THEN Root ELSE cwd[p]
    IN  /\ inode' = With(cached, start)
        /\ Go(p, [c EXCEPT !.pc = "walk", !.w = start, !.rest = path.elems, !.par = par,
                           !.ok = ok, !.bad = bad])

\* The calls that begin with nameiparent; the others begin with namei.
Parent(op) == op \in {"create", "mkdir", "unlink"}

Begin(p, r) ==
    /\ At(p, "user")
    /\ NamexFrom(p, inode, r.path, Parent(r.op),
                 IF r.op = "mkdir" THEN "create" ELSE r.op, "user", [call[p] EXCEPT !.req = r])
    /\ UNCHANGED <<dinode, cwd, ofile, fsPanic>>

\* iput(i), for a caller that has set its locals to c and goes on at ret.
PutThen(p, c, i, ret) == Go(p, [c EXCEPT !.pc = "put", !.put = i, !.ret = ret])

\* One round of namex: lock, look up, unlock, and put the directory back.
Walk(p) ==
    LET c == call[p]
        i == c.w
        next == dirlookup(i, Elem(p))
    IN  /\ Locking(p, "walk", i)
        /\ IF Typeless(i) THEN FsPanic("ilock: no type")
           ELSE /\ UNCHANGED <<dinode, cwd, ofile, fsPanic>>
                /\ \/ /\ Loaded(i).type # "dir" \/ (next = 0 /\ ~(c.par /\ Len(c.rest) = 1))
                      /\ inode' = [inode EXCEPT ![i] = Loaded(i)]
                      /\ PutThen(p, [c EXCEPT !.w = 0], i, c.bad)
                   \/ /\ Loaded(i).type = "dir" /\ c.par /\ Len(c.rest) = 1
                      /\ inode' = [inode EXCEPT ![i] = Loaded(i)]
                      /\ GoTo(p, c.ok)
                   \/ /\ Loaded(i).type = "dir" /\ next # 0 /\ ~(c.par /\ Len(c.rest) = 1)
                      /\ inode' = With([inode EXCEPT ![i] = Loaded(i)], next)
                      /\ PutThen(p, [c EXCEPT !.w = next, !.rest = Tail(c.rest)], i,
                                 IF Len(c.rest) = 1 THEN c.ok ELSE "walk")
-----------------------------------------------------------------------------
LastReferenceAny(i) == inode[i].valid /\ inode[i].nlink = 0   \* mutant

\* iput's test: no links, and this is the only reference.
LastReference(i) == inode[i].valid /\ inode[i].nlink = 0 /\ inode[i].ref = 1

\* iput under ip->lock: if the inode is to be freed the lock is kept.
Iput(p) ==
    LET i == call[p].put
    IN  /\ Locking(p, "put", i)
        /\ inode' = [inode EXCEPT ![i].lock = IF LastReference(i) THEN p ELSE @]
        /\ GoTo(p, IF LastReference(i) THEN "free" ELSE "drop")
        /\ UNCHANGED <<dinode, cwd, ofile, fsPanic>>

\* itrunc, type = 0, iupdate, valid = 0, releasesleep.
Ifree(p) ==
    LET i == call[p].put
    IN  /\ At(p, "free")
        /\ dinode' = [dinode EXCEPT ![i] = [dinode[i] EXCEPT !.type = "free", !.ents = NoEnts]]
        /\ inode' = [inode EXCEPT ![i] = [inode[i] EXCEPT !.type = "free", !.valid = FALSE,
                                                          !.lock = NoUser]]
        /\ GoTo(p, "drop")
        /\ UNCHANGED <<cwd, ofile, fsPanic>>

\* ip->ref-- under icache.lock, and back to the caller.
Idrop(p) ==
    LET c == call[p]
    IN  /\ At(p, "drop")
        /\ inode' = [inode EXCEPT ![c.put].ref = @ - 1]
        /\ IF c.ret = "user" THEN Return(p) ELSE Go(p, [c EXCEPT !.pc = c.ret, !.put = 0])
        /\ UNCHANGED <<dinode, cwd, ofile, fsPanic>>
-----------------------------------------------------------------------------
\* sys_open without O_CREATE, after namei.
Open(p) ==
    LET c == call[p]
        i == c.w
    IN  /\ Locking(p, "open", i)
        /\ IF Typeless(i) THEN FsPanic("ilock: no type")
           ELSE /\ inode' = [inode EXCEPT ![i] = Loaded(i)]
                /\ \/ /\ (Loaded(i).type = "dir" /\ c.req.mode # "rdonly") \/ ofile[p] # 0
                      /\ PutThen(p, [c EXCEPT !.w = 0], i, "user")
                      /\ UNCHANGED ofile
                   \/ /\ ~(Loaded(i).type = "dir" /\ c.req.mode # "rdonly") /\ ofile[p] = 0
                      /\ ofile' = [ofile EXCEPT ![p] = i]
                      /\ Return(p)
                /\ UNCHANGED <<dinode, cwd, fsPanic>>

TypeOf(op) == IF op = "mkdir" THEN "dir" ELSE "file"

\* The inodes that ialloc can find on disk.
FreeInums == {i \in Inums : dinode[i].type = "free"}

\* create() with dp locked: the name exists, or ialloc takes the first free inode.
Create(p) ==
    LET c == call[p]
        d == c.w
        there == dirlookup(d, Elem(p))
        new == CHOOSE i \in FreeInums : \A j \in FreeInums : i <= j
    IN  /\ Locking(p, "create", d)
        /\ \/ /\ there # 0
              /\ inode' = With([inode EXCEPT ![d] = Loaded(d)], there)
              /\ PutThen(p, [c EXCEPT !.w = 0, !.ip = there], d, "existing")
              /\ UNCHANGED <<dinode, cwd, ofile, fsPanic>>
           \/ /\ there = 0 /\ FreeInums = {}
              /\ FsPanic("ialloc: no inodes")
           \/ /\ there = 0 /\ FreeInums # {}
              /\ dinode' = [dinode EXCEPT ![new] = [type |-> TypeOf(c.req.op), nlink |-> 0,
                                                    ents |-> NoEnts]]
              /\ inode' = [inode EXCEPT ![d] = [Loaded(d) EXCEPT !.lock = p], ![new] = Got(inode[new])]
              /\ Go(p, [c EXCEPT !.pc = "new", !.ip = new])
              /\ UNCHANGED <<cwd, ofile, fsPanic>>

\* sys_open has the inode locked and looks for a descriptor.
TakeFile(p, i) ==
    \/ /\ call[p].req.op = "create" /\ ofile[p] = 0
       /\ ofile' = [ofile EXCEPT ![p] = i]
       /\ Return(p)
    \/ /\ call[p].req.op # "create" \/ ofile[p] # 0
       /\ UNCHANGED ofile
       /\ PutThen(p, [call[p] EXCEPT !.ip = 0], i, "user")

\* create() found the name: fine for a file that is to be opened.
Existing(p) ==
    LET i == call[p].ip
    IN  /\ Locking(p, "existing", i)
        /\ IF Typeless(i) THEN FsPanic("ilock: no type")
           ELSE /\ inode' = [inode EXCEPT ![i] = Loaded(i)]
                /\ IF call[p].req.op = "create" /\ Loaded(i).type = "file"
                   THEN TakeFile(p, i)
                   ELSE PutThen(p, [call[p] EXCEPT !.ip = 0], i, "user") /\ UNCHANGED ofile
                /\ UNCHANGED <<dinode, cwd, fsPanic>>

\* dirlink and the erasing of an entry write i under a name of d, and d's count
\* of links; d's cache entry after iupdate and iunlock.
Entered(d, name, i, nlink) ==
    [dinode[d] EXCEPT !.nlink = nlink, !.ents = [dinode[d].ents EXCEPT ![name] = i]]
Unlocked(d, nlink) == [inode[d] EXCEPT !.nlink = nlink, !.lock = NoUser]

\* create() locks the new inode, counts its links and enters it: "." and ".."
\* first, then the name.  It still has the new inode locked when it puts dp.
EnterNew(p) ==
    LET c == call[p]
        d == c.w
        i == c.ip
        isDir == c.req.op = "mkdir"
        up == IF isDir THEN 1 ELSE 0
        dots == IF isDir THEN [dinode[i].ents EXCEPT !["."] = i, ![".."] = d] ELSE dinode[i].ents
    IN  /\ Locking(p, "new", i)
        /\ IF Typeless(i) THEN FsPanic("ilock: no type")
           ELSE /\ dinode' = [dinode EXCEPT ![i] = [dinode[i] EXCEPT !.nlink = 1, !.ents = dots],
                                            ![d] = Entered(d, Elem(p), i, inode[d].nlink + up)]
                /\ inode' = [inode EXCEPT ![i] = [Loaded(i) EXCEPT !.nlink = 1, !.lock = p],
                                          ![d] = Unlocked(d, inode[d].nlink + up)]
                /\ PutThen(p, [c EXCEPT !.w = 0], d, "made")
                /\ UNCHANGED <<cwd, ofile, fsPanic>>

\* create() is back in its caller with the new inode locked.
Made(p) ==
    LET i == call[p].ip
    IN  /\ At(p, "made")
        /\ inode' = [inode EXCEPT ![i].lock = NoUser]
        /\ TakeFile(p, i)
        /\ UNCHANGED <<dinode, cwd, fsPanic>>
-----------------------------------------------------------------------------
\* sys_unlink with dp locked: "bad" if there is no such name.
Unlink(p) ==
    LET c == call[p]
        d == c.w
        i == dirlookup(d, Elem(p))
    IN  /\ Locking(p, "unlink", d)
        /\ \/ /\ Elem(p) \in {".", ".."} \/ i = 0
              /\ inode' = [inode EXCEPT ![d] = Loaded(d)]
              /\ PutThen(p, [c EXCEPT !.w = 0], d, "user")
           \/ /\ Elem(p) \notin {".", ".."} /\ i # 0
              /\ inode' = [inode EXCEPT ![d] = [Loaded(d) EXCEPT !.lock = p], ![i] = Got(inode[i])]
              /\ Go(p, [c EXCEPT !.pc = "erase", !.ip = i])
        /\ UNCHANGED <<dinode, cwd, ofile, fsPanic>>

Full(i) == \E n \in Elems : dinode[i].ents[n] # 0

\* sys_unlink refuses a directory with entries besides "." and "..".
Refuses(i) == Loaded(i).type = "dir" /\ Full(i)

\* sys_unlink with both locked: erase the entry, put dp, ip still locked.
Erase(p) ==
    LET c == call[p]
        d == c.w
        i == c.ip
        up == IF Loaded(i).type = "dir" THEN 1 ELSE 0
    IN  /\ Locking(p, "erase", i)
        /\ IF Typeless(i) THEN FsPanic("ilock: no type")
           ELSE IF Loaded(i).nlink < 1 THEN FsPanic("unlink: nlink < 1")
           ELSE /\ UNCHANGED <<cwd, ofile, fsPanic>>
                /\ \/ /\ Refuses(i)
                      /\ inode' = [inode EXCEPT ![i] = Loaded(i)]
                      /\ PutThen(p, [c EXCEPT !.ip = 0], i, "refused")
                      /\ UNCHANGED dinode
                   \/ /\ ~Refuses(i)
                      /\ dinode' = [dinode EXCEPT ![d] = Entered(d, Elem(p), 0, inode[d].nlink - up)]
                      /\ inode' = [inode EXCEPT ![i] = [Loaded(i) EXCEPT !.lock = p],
                                                ![d] = Unlocked(d, inode[d].nlink - up)]
                      /\ PutThen(p, [c EXCEPT !.w = 0], d, "unlinked")

Refused(p) ==
    /\ At(p, "refused")
    /\ inode' = [inode EXCEPT ![call[p].w].lock = NoUser]
    /\ PutThen(p, [call[p] EXCEPT !.w = 0], call[p].w, "user")
    /\ UNCHANGED <<dinode, cwd, ofile, fsPanic>>

LinksTo(i, n) == /\ dinode' = [dinode EXCEPT ![i].nlink = n]
                 /\ inode' = [inode EXCEPT ![i] = [Loaded(i) EXCEPT !.nlink = n, !.lock = NoUser]]

\* ip->nlink--, iupdate, iunlockput: the end of sys_unlink, with ip locked.
Unlinked(p) ==
    LET i == call[p].ip
    IN  /\ At(p, "unlinked")
        /\ LinksTo(i, inode[i].nlink - 1)
        /\ PutThen(p, [call[p] EXCEPT !.ip = 0], i, "user")
        /\ UNCHANGED <<cwd, ofile, fsPanic>>
-----------------------------------------------------------------------------
LinkUncounted(i) == Loaded(i).nlink   \* mutant

\* ip->nlink++ of sys_link.
LinkCounted(i) == Loaded(i).nlink + 1

\* sys_link counts the link first, then looks for the directory of the new name.
Link(p) ==
    LET c == call[p]
        i == c.w
    IN  /\ Locking(p, "link", i)
        /\ IF Typeless(i) THEN FsPanic("ilock: no type")
           ELSE \/ /\ Loaded(i).type = "dir"
                   /\ inode' = [inode EXCEPT ![i] = Loaded(i)]
                   /\ PutThen(p, [c EXCEPT !.w = 0], i, "user")
                   /\ UNCHANGED <<dinode, cwd, ofile, fsPanic>>
                \/ /\ Loaded(i).type # "dir"
                   /\ dinode' = [dinode EXCEPT ![i].nlink = LinkCounted(i)]
                   /\ NamexFrom(p, [inode EXCEPT ![i] = [Loaded(i) EXCEPT !.nlink = LinkCounted(i)]],
                                c.req.new, TRUE, "dirlink", "linkbad", [c EXCEPT !.ip = i])
                   /\ UNCHANGED <<cwd, ofile, fsPanic>>

\* sys_link with dp locked: dirlink fails if the name is there, and puts what
\* it found while dp is locked: for ever, if that is dp itself.
Dirlink(p) ==
    LET c == call[p]
        d == c.w
        there == dirlookup(d, Elem(p))
    IN  /\ Locking(p, "dirlink", d)
        /\ \/ /\ there # 0
              /\ inode' = With([inode EXCEPT ![d] = [Loaded(d) EXCEPT !.lock = p]], there)
              /\ PutThen(p, c, there, "exists")
              /\ UNCHANGED dinode
           \/ /\ there = 0
              /\ dinode' = [dinode EXCEPT ![d] = Entered(d, Elem(p), c.ip, dinode[d].nlink)]
              /\ inode' = [inode EXCEPT ![d] = Loaded(d)]
              /\ PutThen(p, [c EXCEPT !.w = 0], d, "linked")
        /\ UNCHANGED <<cwd, ofile, fsPanic>>

Exists(p) ==
    /\ At(p, "exists")
    /\ inode' = [inode EXCEPT ![call[p].w].lock = NoUser]
    /\ PutThen(p, [call[p] EXCEPT !.w = 0], call[p].w, "linkbad")
    /\ UNCHANGED <<dinode, cwd, ofile, fsPanic>>

Linked(p) ==
    /\ At(p, "linked")
    /\ PutThen(p, [call[p] EXCEPT !.ip = 0], call[p].ip, "user")
    /\ UNCHANGED <<dinode, inode, cwd, ofile, fsPanic>>

\* The label bad of sys_link takes the count back.
LinkBad(p) ==
    LET i == call[p].ip
    IN  /\ Locking(p, "linkbad", i)
        /\ LinksTo(i, Loaded(i).nlink - 1)
        /\ PutThen(p, [call[p] EXCEPT !.ip = 0], i, "user")
        /\ UNCHANGED <<cwd, ofile, fsPanic>>
-----------------------------------------------------------------------------
\* sys_chdir puts the old directory before it stores the new one.
Chdir(p) ==
    LET i == call[p].w
    IN  /\ Locking(p, "chdir", i)
        /\ IF Typeless(i) THEN FsPanic("ilock: no type")
           ELSE /\ inode' = [inode EXCEPT ![i] = Loaded(i)]
                /\ IF Loaded(i).type = "dir"
                   THEN /\ PutThen(p, [call[p] EXCEPT !.w = 0, !.ip = i], cwd[p], "newcwd")
                        /\ cwd' = [cwd EXCEPT ![p] = 0]
                   ELSE PutThen(p, [call[p] EXCEPT !.w = 0], i, "user") /\ UNCHANGED cwd
                /\ UNCHANGED <<dinode, ofile, fsPanic>>

NewCwd(p) ==
    /\ At(p, "newcwd")
    /\ cwd' = [cwd EXCEPT ![p] = call[p].ip]
    /\ Return(p)
    /\ UNCHANGED <<dinode, inode, ofile, fsPanic>>

\* fileclose of the last reference to an open file.
Close(p) ==
    /\ At(p, "user") /\ ofile[p] # 0
    /\ PutThen(p, call[p], ofile[p], "user")
    /\ ofile' = [ofile EXCEPT ![p] = 0]
    /\ UNCHANGED <<dinode, inode, cwd, fsPanic>>

InCall(p) ==
    \/ Walk(p) \/ Iput(p) \/ Ifree(p) \/ Idrop(p) \/ Open(p) \/ Create(p)
    \/ Existing(p) \/ EnterNew(p) \/ Made(p) \/ Unlink(p) \/ Erase(p)
    \/ Refused(p) \/ Unlinked(p) \/ Link(p) \/ Dirlink(p) \/ Exists(p)
    \/ Linked(p) \/ LinkBad(p) \/ Chdir(p) \/ NewCwd(p)

\* p is to look up "..", and finds an inode that has lost its links: it is being
\* freed, or free, or just allocated again.
Strays(p) ==
    LET c == call[p]
        up == dirlookup(c.w, "..")
    IN  /\ c.pc \in {"walk", "create", "dirlink"} /\ ~(c.pc = "walk" /\ c.par /\ Len(c.rest) = 1)
        /\ Elem(p) = ".." /\ up # 0 /\ dinode[up].nlink = 0

NamesNext ==
    \E p \in Users : /\ (\E r \in Requests : Begin(p, r)) \/ Close(p) \/ InCall(p)
                     /\ strayed' = (strayed \/ Strays(p))

NamesSpec == NamesInit /\ [][NamesNext]_namesVars
-----------------------------------------------------------------------------
Named(i) == {e \in Inums \X Elems : dinode[e[1]].type = "dir" /\ dinode[e[1]].ents[e[2]] = i}
Children(i) == {d \in Inums \ {Root} : dinode[d].ents[".."] = i /\ Named(d) # {}}

\* No name dangles, whatever calls race: an inode with a name is allocated, and
\* its link count covers its names and the ".." of its subdirectories, so that
\* no iput can free it while it can be looked up; ilock never finds an inode of
\* no type, nor sys_unlink one of no links, and ialloc alone may panic.  One
\* lookup can end that, since nothing counts the ".." of a directory that has
\* been removed: that ".." may lead to an inode of no link, and nothing else does.
LinksHold ==
    \/ strayed
    \/ /\ \A i \in Inums :
            /\ Named(i) # {} => dinode[i].type # "free"
            /\ Cardinality(Named(i)) + Cardinality(Children(i)) <= dinode[i].nlink
       /\ \A p \in Users : Strays(p) => call[p].w # Root /\ Named(call[p].w) = {}
       /\ fsPanic \in {"no", "ialloc: no inodes"}

Pointers(p) == <<cwd[p], ofile[p], call[p].w, call[p].ip, call[p].put>>

\* ip->ref is the number of pointers to a cache entry, and an inode somebody
\* points to is not freed, but by the last iput itself: an unlinked file stays
\* until it is closed.  Again, as long as no ".." of a removed directory has
\* come to an inode of no link.
InUseKept ==
    strayed \/ \A i \in Inums :
        LET to == {t \in Users \X (1 .. 5) : Pointers(t[1])[t[2]] = i}
        IN  /\ inode[i].ref = Cardinality(to)
            /\ \A t \in to : dinode[i].type # "free" \/ call[t[1]].pc = "drop"

\* The lock a process waits for.
Wants(p) ==
    LET c == call[p]
    IN  IF c.pc = "put" THEN c.put
        ELSE IF c.pc \in {"walk", "open", "create", "unlink", "link", "dirlink", "chdir"} THEN c.w
        ELSE IF c.pc \in {"existing", "new", "erase", "linkbad"} THEN c.ip
        ELSE 0

\* No two processes wait for each other's inodes.
NoCircularWait ==
    \A p, q \in Users :
        ~(/\ Wants(p) # 0 /\ inode[Wants(p)].lock = q
          /\ Wants(q) # 0 /\ inode[Wants(q)].lock = p)
=============================================================================
