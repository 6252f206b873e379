-------------------------------- MODULE Shell --------------------------------
(***************************************************************************)
(* xv6's shell (sh.c) over the file table (file.c), descriptors (sysfile.c)*)
(* and the copies of them that fork and exit make (proc.c).  runcmd of a   *)
(* command is a sequence of system calls, each a step; a process runs its  *)
(* own and others run between.  Programs are what the shell's liveness     *)
(* depends on: one that reads, ends when its input does.                   *)
(***************************************************************************)
EXTENDS Integers, Sequences, FiniteSets

CONSTANTS ShProcs,      \* slots of the process table; the shell has slot 1
          NFILE, NOFILE, NPipes,
          Commands,     \* the commands of the lines that are typed, and their parts
          Lines,        \* what parsecmd makes of a line: {command}, or {} when it panics
          Filters       \* the words that name programs which read their input

\* A command as parsecmd makes it: redirections are of 0 and 1.
IsCommand(c) ==
    \/ c.type = "EXEC"
    \/ c.type = "REDIR" /\ c.fd \in 0 .. 1 /\ c.cmd \in Commands
    \/ c.type \in {"LIST", "PIPE"} /\ c.left \in Commands /\ c.right \in Commands
    \/ c.type = "BACK" /\ c.cmd \in Commands

\* There is room for the console and the two ends of a pipe.
ASSUME ShellAssumption ==
    /\ IsFiniteSet(ShProcs) /\ ShProcs \subseteq Nat \ {0} /\ 1 \in ShProcs
    /\ NFILE \in Nat \ {0} /\ NPipes \in Nat /\ NOFILE \in Nat /\ NOFILE >= 5
    /\ (\A c \in Commands : IsCommand(c)) /\ Lines \subseteq SUBSET Commands

Fds == 0 .. NOFILE - 1
FileIds == 1 .. NFILE
PipeIds == 1 .. NPipes
ClosedFile == [type |-> "none", ref |-> 0, pipe |-> 0, end |-> "r"]
NoFds == [k \in Fds |-> 0]

VARIABLES sh,           \* of each process: state, parent, calls left, descriptors, the array p
          ftable,       \* struct file: type, ref, pipe and end
          pipes         \* the ends of each pipe that are open

shVars == <<sh, ftable, pipes>>

Absent == [state |-> "unused", parent |-> 0, calls |-> <<>>, ofile |-> NoFds, p |-> <<0, 0>>]
Console3 == [k \in Fds |-> IF k <= 2 THEN 1 ELSE 0]
Prompt == <<[op |-> "prompt"]>>

\* init has opened the console as its three descriptors and started the shell,
\* which inherits them.
ShellInit ==
    /\ sh = [q \in ShProcs |-> IF q = 1 THEN [Absent EXCEPT !.state = "runs", !.calls = Prompt,
                                                            !.ofile = Console3]
                               ELSE Absent]
    /\ ftable = [f \in FileIds |-> IF f = 1 THEN [ClosedFile EXCEPT !.type = "dev", !.ref = 6]
                                   ELSE ClosedFile]
    /\ pipes = [i \in PipeIds |-> {}]
-----------------------------------------------------------------------------
Do(op) == [op |-> op]
With(op, x) == [op |-> op, arg |-> x]

\* What the two children and the parent of a pipe do with its ends: p[0] is the
\* read end, p[1] the write end.
LeftEnds == <<With("close", 1), With("dup", 2), With("closep", 1), With("closep", 2)>>
RightEnds == <<With("close", 0), With("dup", 1), With("closep", 1), With("closep", 2)>>
ParentEndsOne == <<With("closep", 1)>>                                        \* mutant
ParentEnds == <<With("closep", 1), With("closep", 2)>>

Run(c) == With("runcmd", c)

\* The system calls of runcmd; the calls after an exec or an exit are not made.
runcmd(c) ==
    CASE c.type = "EXEC" -> IF c.argv = <<>> THEN <<Do("exit")>> ELSE <<With("exec", c.argv[1]), Do("exit")>>
      [] c.type = "REDIR" -> <<With("close", c.fd), Do("open"), Run(c.cmd)>>
      [] c.type = "LIST" -> <<With("fork", <<Run(c.left)>>), Do("wait"), Run(c.right)>>
      [] c.type = "PIPE" -> <<Do("pipe"), With("fork", Append(LeftEnds, Run(c.left))),
                              With("fork", Append(RightEnds, Run(c.right)))>>
                            \o ParentEnds \o <<Do("wait"), Do("wait"), Do("exit")>>
      [] c.type = "BACK" -> <<With("fork", <<Run(c.cmd)>>), Do("exit")>>

Calls(q, op) == sh[q].state = "runs" /\ sh[q].calls # <<>> /\ Head(sh[q].calls).op = op
Arg(q) == Head(sh[q].calls).arg
Set(q, s) == sh' = [sh EXCEPT ![q] = s]
After(q) == [sh[q] EXCEPT !.calls = Tail(@)]
Exits == <<Do("exit")>>
-----------------------------------------------------------------------------
\* main: getcmd returns -1 at the end of the input, and the shell exits.
EndOfInput(q) ==
    /\ Calls(q, "prompt")
    /\ Set(q, [sh[q] EXCEPT !.calls = Exits])
    /\ UNCHANGED <<ftable, pipes>>

\* main reads a line and forks a child that parses and runs it (a cd changes
\* nothing that is modelled, and main reads on).
ReadLine(q, line) ==
    LET child == IF line = {} THEN Exits ELSE <<Run(CHOOSE c \in line : TRUE)>>
    IN  /\ Calls(q, "prompt")
        /\ Set(q, [sh[q] EXCEPT !.calls = <<With("fork", child), Do("wait")>> \o Prompt])
        /\ UNCHANGED <<ftable, pipes>>

Runcmd(q) ==
    /\ Calls(q, "runcmd")
    /\ Set(q, [sh[q] EXCEPT !.calls = runcmd(Arg(q))])
    /\ UNCHANGED <<ftable, pipes>>

CountedOnce(q) == ftable                                                      \* mutant

\* The descriptors of a process, out of some, that refer to a file.
FdsOf(q, fds, f) == {k \in fds : sh[q].ofile[k] = f}

\* filedup for each descriptor of a process.
Dupped(q) == [f \in FileIds |-> [ftable[f] EXCEPT !.ref = @ + Cardinality(FdsOf(q, Fds, f))]]

\* fork; without a free slot fork1 panics, which is an exit.
Fork1(q) ==
    LET free == {r \in ShProcs : sh[r].state = "unused"}
        np == CHOOSE r \in free : \A t \in free : r <= t
    IN  /\ Calls(q, "fork")
        /\ \/ /\ free = {}
              /\ Set(q, [sh[q] EXCEPT !.calls = Exits])
              /\ UNCHANGED ftable
           \/ /\ free # {}
              /\ sh' = [sh EXCEPT ![q] = After(q),
                                  ![np] = [sh[q] EXCEPT !.parent = q, !.calls = Arg(q)]]
              /\ ftable' = Dupped(q)
        /\ UNCHANGED pipes

\* The files of which the last descriptors are closed.
GoneWith(q, fds) ==
    {f \in FileIds : LET n == Cardinality(FdsOf(q, fds, f)) IN n > 0 /\ ftable[f].ref = n}

\* fileclose of a set of descriptors of a process, and pipeclose of the ends of
\* which that was the last.
Closing(q, fds) ==
    /\ ftable' = [f \in FileIds |-> IF f \in GoneWith(q, fds) THEN ClosedFile
                                    ELSE [ftable[f] EXCEPT !.ref = @ - Cardinality(FdsOf(q, fds, f))]]
    /\ pipes' = [i \in PipeIds |->
                    pipes[i] \ {ftable[f].end : f \in {g \in GoneWith(q, fds) : ftable[g].pipe = i}}]

Close(q, fd) ==
    /\ Closing(q, {fd})
    /\ Set(q, [After(q) EXCEPT !.ofile[fd] = 0])

CloseCall(q) == \/ Calls(q, "close") /\ Close(q, Arg(q))
                \/ Calls(q, "closep") /\ Close(q, sh[q].p[Arg(q)])

\* fdalloc.
FreeFds(q) == {k \in Fds : sh[q].ofile[k] = 0}
LowestFd(fds) == CHOOSE k \in fds : \A j \in fds : k <= j

Dup(q) ==
    LET f == sh[q].ofile[sh[q].p[Arg(q)]]
    IN  /\ Calls(q, "dup") /\ FreeFds(q) # {}
        /\ Set(q, [After(q) EXCEPT !.ofile[LowestFd(FreeFds(q))] = f])
        /\ ftable' = [ftable EXCEPT ![f].ref = @ + 1]
        /\ UNCHANGED pipes

\* filealloc.
FreeFiles == {f \in FileIds : ftable[f].ref = 0}
FirstFile(files) == CHOOSE f \in files : \A g \in files : f <= g

\* open: a file that is not there, or no struct file, and runcmd exits.
OpenCall(q) ==
    LET f == FirstFile(FreeFiles)
    IN  /\ Calls(q, "open")
        /\ \/ /\ Set(q, [sh[q] EXCEPT !.calls = Exits])
              /\ UNCHANGED ftable
           \/ /\ FreeFiles # {}
              /\ Set(q, [After(q) EXCEPT !.ofile[LowestFd(FreeFds(q))] = f])
              /\ ftable' = [ftable EXCEPT ![f] = [ClosedFile EXCEPT !.type = "inode", !.ref = 1]]
        /\ UNCHANGED pipes

\* pipe, which needs two struct files and a page; runcmd panics without.
PipeCall(q) ==
    LET rf == FirstFile(FreeFiles)
        wf == FirstFile(FreeFiles \ {rf})
        fd0 == LowestFd(FreeFds(q))
        fd1 == LowestFd(FreeFds(q) \ {fd0})
        unused == {i \in PipeIds : pipes[i] = {}}
        pi == CHOOSE i \in unused : TRUE
    IN  /\ Calls(q, "pipe")
        /\ \/ /\ Cardinality(FreeFiles) < 2 \/ unused = {}
              /\ Set(q, [sh[q] EXCEPT !.calls = Exits])
              /\ UNCHANGED <<ftable, pipes>>
           \/ /\ Cardinality(FreeFiles) >= 2 /\ unused # {}
              /\ ftable' = [ftable EXCEPT ![rf] = [type |-> "pipe", ref |-> 1, pipe |-> pi, end |-> "r"],
                                          ![wf] = [type |-> "pipe", ref |-> 1, pipe |-> pi, end |-> "w"]]
              /\ pipes' = [pipes EXCEPT ![pi] = {"r", "w"}]
              /\ Set(q, [After(q) EXCEPT !.ofile[fd0] = rf, !.ofile[fd1] = wf, !.p = <<fd0, fd1>>])

\* exec: the program runs with the descriptors it was given, or is not found.
Exec1(q) ==
    /\ Calls(q, "exec")
    /\ Set(q, [sh[q] EXCEPT !.state = IF Arg(q) \in Filters THEN "filter" ELSE "program", !.calls = Exits])
    /\ UNCHANGED <<ftable, pipes>>

ExecFails(q) ==
    /\ Calls(q, "exec")
    /\ Set(q, [sh[q] EXCEPT !.calls = Exits])
    /\ UNCHANGED <<ftable, pipes>>

\* A program ends; a filter, when there is nothing to read any more.
AtEnd(q) ==
    LET f == ftable[sh[q].ofile[0]]
    IN  sh[q].ofile[0] # 0 /\ f.type = "pipe" => "w" \notin pipes[f.pipe]

ProgramEnds(q) ==
    /\ sh[q].state = "program" \/ (sh[q].state = "filter" /\ AtEnd(q))
    /\ Set(q, [sh[q] EXCEPT !.state = "runs"])
    /\ UNCHANGED <<ftable, pipes>>

\* exit closes the descriptors one after the other.
UsedFds(q) == {k \in Fds : sh[q].ofile[k] # 0}

ExitCloses(q) ==
    LET fd == LowestFd(UsedFds(q))
    IN  /\ Calls(q, "exit") /\ UsedFds(q) # {}
        /\ Closing(q, {fd})
        /\ Set(q, [sh[q] EXCEPT !.ofile[fd] = 0])

\* The rest of exit: init takes over the children, and waits for those that
\* have exited.
Exit1(q) ==
    /\ Calls(q, "exit") /\ UsedFds(q) = {}
    /\ sh' = [r \in ShProcs |->
                IF r = q THEN IF sh[q].parent = 0 THEN Absent
                              ELSE [Absent EXCEPT !.state = "zombie", !.parent = sh[q].parent]
                ELSE IF sh[r].state # "unused" /\ sh[r].parent = q
                     THEN IF sh[r].state = "zombie" THEN Absent ELSE [sh[r] EXCEPT !.parent = 0]
                ELSE sh[r]]
    /\ UNCHANGED <<ftable, pipes>>

\* wait: the shell only waits while it has a child.
WaitCall(q) ==
    /\ Calls(q, "wait")
    /\ \E r \in ShProcs : /\ sh[r].state = "zombie" /\ sh[r].parent = q
                          /\ sh' = [sh EXCEPT ![q] = After(q), ![r] = Absent]
    /\ UNCHANGED <<ftable, pipes>>

\* init.c starts the shell again when it has exited.
Restart ==
    /\ sh[1].state = "unused"
    /\ Set(1, [Absent EXCEPT !.state = "runs", !.calls = Prompt, !.ofile = Console3])
    /\ ftable' = [ftable EXCEPT ![1].ref = @ + 3]
    /\ UNCHANGED pipes

\* init.c's own fork can fail, for want of a slot or of memory: init exits, and
\* the kernel panics.
InitFails ==
    /\ sh[1].state = "unused"
    /\ Set(1, [Absent EXCEPT !.state = "panic"])
    /\ UNCHANGED <<ftable, pipes>>

Panicked == sh[1].state = "panic"

ShellStep(q) ==
    /\ ~Panicked
    /\ \/ Runcmd(q) \/ Fork1(q) \/ CloseCall(q) \/ Dup(q) \/ OpenCall(q) \/ PipeCall(q)
       \/ Exec1(q) \/ ExecFails(q) \/ ProgramEnds(q) \/ ExitCloses(q) \/ Exit1(q) \/ WaitCall(q)

ShellNext ==
    \/ Restart \/ InitFails
    \/ \E q \in ShProcs : ShellStep(q) \/ EndOfInput(q) \/ \E line \in Lines : ReadLine(q, line)

\* Processes are scheduled, and programs end if their input does; nobody has to
\* type a line.
ShellFairness == WF_shVars(Restart) /\ \A q \in ShProcs : WF_shVars(ShellStep(q))

ShellSpec == ShellInit /\ [][ShellNext]_shVars /\ ShellFairness
-----------------------------------------------------------------------------
\* f->ref is the number of descriptors that refer to a file, in all processes
\* (init's three too), and an end of a pipe is open exactly while some process
\* has it.
FilesExact ==
    /\ \A f \in FileIds :
         ftable[f].ref = Cardinality({o \in ShProcs \X Fds : sh[o[1]].ofile[o[2]] = f})
                         + IF f = 1 THEN 3 ELSE 0
    /\ \A i \in PipeIds :
         pipes[i] = {ftable[f].end : f \in {g \in FileIds : ftable[g].type = "pipe" /\ ftable[g].pipe = i}}

\* The shell comes back to its prompt after every line: no process of a
\* pipeline waits for an end of file that a forgotten descriptor holds back.  Only
\* init's own failure to fork ends the system instead.
PipelinesEnd == []<>(Calls(1, "prompt") \/ Panicked)
=============================================================================
