----------------------------- MODULE ShellParser -----------------------------
(***************************************************************************)
(* The parser of xv6's shell (sh.c) on the tokens that gettoken makes of a *)
(* line.  A parser maps the tokens left to the set with the command it     *)
(* found and the tokens after it, which is empty when the code calls panic.*)
(***************************************************************************)
EXTENDS Integers, Sequences, SequencesExt

CONSTANTS Words,        \* words on a command line
          MAXARGS

VARIABLE command        \* a command whose text is given to the parser

Symbols == {"<", ">", ">>", "|", "&", ";", "(", ")"}

EXEC(argv) == [type |-> "EXEC", argv |-> argv]
REDIR(cmd, file, fd) == [type |-> "REDIR", cmd |-> cmd, file |-> file, fd |-> fd]
PIPE(left, right) == [type |-> "PIPE", left |-> left, right |-> right]
LIST(left, right) == [type |-> "LIST", left |-> left, right |-> right]
BACK(cmd) == [type |-> "BACK", cmd |-> cmd]

Peek(toks, these) == toks # <<>> /\ Head(toks) \in these
Result(cmd, rest) == [cmd |-> cmd, rest |-> rest]

\* nulterminate cuts the words out of the line: the tokens are words already.
RECURSIVE parseline(_), parsepipe(_), parseexec(_), parseargs(_, _, _), parseredirs(_, _)

\* The redirections at the front of the line after those found so far; ">>" is
\* opened like ">".
parseredirs(toks, redirs) ==
    IF ~Peek(toks, {"<", ">", ">>"}) THEN {[redirs |-> redirs, rest |-> toks]}
    ELSE IF ~Peek(Tail(toks), Words) THEN {}
    ELSE parseredirs(Tail(Tail(toks)),
                     Append(redirs, <<toks[2], IF toks[1] = "<" THEN 0 ELSE 1>>))

WrappedReverse(cmd, redirs) ==                                                \* mutant
    FoldLeft(LAMBDA c, r : REDIR(c, r[1], r[2]), cmd, Reverse(redirs))

\* redircmd around a command, the first redirection innermost.
Wrapped(cmd, redirs) == FoldLeft(LAMBDA c, r : REDIR(c, r[1], r[2]), cmd, redirs)

EndsArgs(toks) == toks = <<>> \/ Peek(toks, {"|", ")", "&", ";"})

\* The loop of parseexec, with the words and redirections found so far.
parseargs(toks, argv, redirs) ==
    IF EndsArgs(toks) THEN {Result(Wrapped(EXEC(argv), redirs), toks)}
    ELSE IF ~Peek(toks, Words) \/ Len(argv) + 1 >= MAXARGS THEN {}
    ELSE UNION {parseargs(r.rest, Append(argv, toks[1]), r.redirs) : r \in parseredirs(Tail(toks), redirs)}

parseblock(toks) ==
    UNION {IF Peek(block.rest, {")"})
           THEN {Result(Wrapped(block.cmd, r.redirs), r.rest) : r \in parseredirs(Tail(block.rest), <<>>)}
           ELSE {} : block \in parseline(Tail(toks))}

parseexec(toks) ==
    IF Peek(toks, {"("}) THEN parseblock(toks)
    ELSE UNION {parseargs(r.rest, <<>>, r.redirs) : r \in parseredirs(toks, <<>>)}

parsepipe(toks) ==
    UNION {IF Peek(left.rest, {"|"})
           THEN {Result(PIPE(left.cmd, right.cmd), right.rest) : right \in parsepipe(Tail(left.rest))}
           ELSE {left} : left \in parseexec(toks)}

\* The "&" after a pipe.
Ampersands(toks) == CHOOSE n \in 0 .. Len(toks) : /\ \A k \in 1 .. n : toks[k] = "&"
                                                  /\ n < Len(toks) => toks[n + 1] # "&"
InBackground(pipe) ==
    {Result(FoldLeft(LAMBDA c, k : BACK(c), pipe.cmd, [k \in 1 .. n |-> k]),
            SubSeq(pipe.rest, n + 1, Len(pipe.rest))) : n \in {Ampersands(pipe.rest)}}

parseline(toks) ==
    UNION {IF Peek(left.rest, {";"})
           THEN {Result(LIST(left.cmd, right.cmd), right.rest) : right \in parseline(Tail(left.rest))}
           ELSE {left} : left \in UNION {InBackground(pipe) : pipe \in parsepipe(toks)}}

parsecmd(toks) == {line.cmd : line \in {r \in parseline(toks) : r.rest = <<>>}}
-----------------------------------------------------------------------------
\* The reference: how a command is written, with parentheses where the grammar
\* needs them.
Simple(c) == c.type = "EXEC" \/ c.type = "REDIR"

RECURSIVE Text(_)
Block(c) == <<"(">> \o Text(c) \o <<")">>
TextIf(test, c) == IF test THEN Text(c) ELSE Block(c)

Text(c) ==
    CASE c.type = "EXEC" -> c.argv
      [] c.type = "REDIR" -> TextIf(Simple(c.cmd), c.cmd) \o <<IF c.fd = 0 THEN "<" ELSE ">", c.file>>
      [] c.type = "PIPE" -> TextIf(Simple(c.left), c.left) \o <<"|">>
                            \o TextIf(Simple(c.right) \/ c.right.type = "PIPE", c.right)
      [] c.type = "BACK" -> TextIf(c.cmd.type # "LIST", c.cmd) \o <<"&">>
      [] c.type = "LIST" -> TextIf(c.left.type # "LIST", c.left) \o <<";">> \o Text(c.right)

AWord == CHOOSE w \in Words : TRUE
Over(cmds, right) ==
    cmds \cup {REDIR(c, AWord, fd) : c \in cmds, fd \in 0 .. 1} \cup {BACK(c) : c \in cmds}
    \cup {PIPE(c, d) : c \in cmds, d \in right} \cup {LIST(c, d) : c \in cmds, d \in right}

Level0 == {EXEC(<<>>), EXEC(<<AWord>>)}
Level1 == Over(Level0, Level0)
Level2 == Over(Level1, Level1)

\* A command is written on a line.
ParserInit == command = EXEC(<<>>)
ParserNext == command = EXEC(<<>>) /\ command' \in Level2

\* Every command up to two operators deep, written out, is parsed back to the
\* same tree: precedence, grouping and the order of redirections survive.
ParsesBack == parsecmd(Text(command)) = {command}
==============================================================================
