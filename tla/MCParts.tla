------------------------------- MODULE MCParts -------------------------------
(***************************************************************************)
(* Parts of the repository that share no state, for TLC: the log, the      *)
(* address spaces, the console and the parser of the shell of xv6, the     *)
(* scheduling algorithms of p2 and the disk of p6.  A behaviour runs one   *)
(* of them, which `part' says, and leaves the others as they begin.        *)
(***************************************************************************)
EXTENDS Log, Memory, Console, ShellParser, Scheduling, DiskImage

CONSTANT Parts

VARIABLE part

\* sbrk by one and a half pages, and down by one and two and a half.
MCIncrements == {1, 3, -2, -5}

PartsInit ==
    /\ part \in Parts
    /\ Init /\ MemInit /\ ConsInit /\ ParserInit /\ SchedInit /\ ImageInit
    /\ part # "console" => cursor = 0

LogPart == part = "log" /\ Next /\ UNCHANGED <<memVars, consVars, command, schedVars, imageVars>>
MemPart == part = "memory" /\ MemNext /\ UNCHANGED <<vars, consVars, command, schedVars, imageVars>>
ConsPart == part = "console" /\ ConsNext /\ UNCHANGED <<vars, memVars, command, schedVars, imageVars>>
ParserPart == part = "parser" /\ ParserNext /\ UNCHANGED <<vars, memVars, consVars, schedVars, imageVars>>
SchedPart == part = "scheduling" /\ SchedNext /\ UNCHANGED <<vars, memVars, consVars, command, imageVars>>
ImagePart == part = "image" /\ ImageNext /\ UNCHANGED <<vars, memVars, consVars, command, schedVars>>

\* The parser or the algorithms have returned; half a deletion is on the disk; the
\* first process has given all its memory back.
Ended ==
    /\ command # EXEC(<<>>) \/ alg > 4 \/ torn \/ slot[1].faults
    /\ UNCHANGED <<vars, memVars, consVars, command, schedVars, imageVars>>

PartsNext ==
    /\ LogPart \/ MemPart \/ ConsPart \/ ParserPart \/ SchedPart \/ ImagePart \/ Ended
    /\ UNCHANGED part

\* The fairness of Log, when it runs.
PartsSpec ==
    /\ PartsInit /\ [][PartsNext]_<<part, vars, memVars, consVars, command, schedVars, imageVars>>
    /\ \A p \in Procs : /\ WF_vars(part = "log" /\ LogAppend(p))
                        /\ SF_vars(part = "log" /\ EndOp(p))
                        /\ WF_vars(part = "log" /\ Step(p))
    /\ WF_vars(part = "log" /\ Recover)
=============================================================================
