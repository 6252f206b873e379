------------------------------ MODULE Terminal ------------------------------
(***************************************************************************)
(* What the console promises its readers: characters are edited on the     *)
(* current line, a line is handed over by a newline, an end of file or a   *)
(* full buffer, and reads take what was handed over in order, one line or  *)
(* end of file at most per read.                                           *)
(***************************************************************************)
EXTENDS Naturals, Sequences

CONSTANTS Readers, Room, Counts

VARIABLES ready, line, want, got

vars == <<ready, line, want, got>>

Init ==
    /\ ready = <<>> /\ line = <<>>
    /\ want = [p \in Readers |-> 0]
    /\ got = [p \in Readers |-> <<>>]

Erase == line # <<>> /\ line' = SubSeq(line, 1, Len(line) - 1) /\ UNCHANGED <<ready, want, got>>

KillLine == line' = <<>> /\ UNCHANGED <<ready, want, got>>

Type(c) ==
    LET typed == Append(line, c)
        full == Len(ready) + Len(typed) = Room
    IN  /\ Len(ready) + Len(line) < Room
        /\ IF c \in {"nl", "eof"} \/ full
           THEN ready' = ready \o typed /\ line' = <<>>
           ELSE line' = typed /\ UNCHANGED ready
        /\ UNCHANGED <<want, got>>

StartRead(p, n) ==
    /\ want[p] = 0
    /\ want' = [want EXCEPT ![p] = n] /\ got' = [got EXCEPT ![p] = <<>>]
    /\ UNCHANGED <<ready, line>>

Take(p) ==
    LET c == Head(ready)
    IN  /\ want[p] > 0 /\ ready # <<>> /\ c # "eof"
        /\ ready' = Tail(ready)
        /\ got' = [got EXCEPT ![p] = Append(@, c)]
        /\ want' = [want EXCEPT ![p] = IF c = "nl" \/ Len(got[p]) + 1 = @ THEN 0 ELSE @]
        /\ UNCHANGED line

\* A read ends before an end of file; a read that has nothing yet takes it.
EndOfFile(p) ==
    /\ want[p] > 0 /\ ready # <<>> /\ Head(ready) = "eof"
    /\ ready' = IF got[p] = <<>> THEN Tail(ready) ELSE ready
    /\ want' = [want EXCEPT ![p] = 0]
    /\ UNCHANGED <<line, got>>

Interrupted(p) ==
    /\ want[p] > 0 /\ ready = <<>>
    /\ want' = [want EXCEPT ![p] = 0]
    /\ UNCHANGED <<ready, line, got>>

Next ==
    \/ Erase \/ KillLine
    \/ \E c \in {"char", "nl", "eof"} : Type(c)
    \/ \E p \in Readers : \/ \E n \in Counts : StartRead(p, n)
                          \/ Take(p) \/ EndOfFile(p) \/ Interrupted(p)

Spec == Init /\ [][Next]_vars
=============================================================================
