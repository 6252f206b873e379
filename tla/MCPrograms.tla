----------------------------- MODULE MCPrograms -----------------------------
(***************************************************************************)
(* Two programs and what must happen in them, for TLC: the shell of xv6    *)
(* and the producer-consumer program of p3.  A behaviour runs one of them, *)
(* which `program' says.                                                   *)
(***************************************************************************)
EXTENDS ShellParser, Shell, ProducerConsumer

CONSTANT Programs

VARIABLE program

\* What is typed: pipes with and without redirections, in a list, nested, a
\* command in the background, and lines that are not commands.
Typed ==
    {<<"a", "|", "f", "<", "a">>, <<"f", "|", "f", ">", "a">>, <<"a", "|", "f", "|", "f">>,
     <<"f", ";", "a", "|", "f">>, <<"f", "<", "a">>, <<"a", "&">>, <<"|", "|">>, <<"<">>}

MCLines == {parsecmd(line) : line \in Typed}

RECURSIVE WithParts(_)
WithParts(c) ==
    {c} \cup CASE c.type = "EXEC" -> {}
               [] c.type \in {"REDIR", "BACK"} -> WithParts(c.cmd)
               [] OTHER -> WithParts(c.left) \cup WithParts(c.right)
MCCommands == UNION {UNION {WithParts(c) : c \in line} : line \in MCLines}

\* What the idle buffer has in it does not matter.
ProgramsInit ==
    /\ program \in Programs
    /\ ParserInit /\ ShellInit /\ Init
    /\ program = "shell" => buffer = [k \in DOMAIN buffer |-> 1] /\ item = [t \in Threads |-> 1]

ShellProgram == program = "shell" /\ ShellNext /\ UNCHANGED <<program, command, vars>>
BufferProgram == program = "buffer" /\ Next /\ UNCHANGED <<program, command, shVars>>

\* The fairness of the two, for the program that runs.
ProgramsSpec ==
    /\ ProgramsInit /\ [][ShellProgram \/ BufferProgram]_<<program, command, shVars, vars>>
    /\ \A p \in Producers : WF_vars(program = "buffer" /\ (Producer(p) \/ Waits(p)))
    /\ \A c \in Consumers : WF_vars(program = "buffer" /\ (Consumer(c) \/ Waits(c)))
    /\ WF_shVars(program = "shell" /\ Restart)
    /\ \A q \in ShProcs : WF_shVars(program = "shell" /\ ShellStep(q))
=============================================================================
