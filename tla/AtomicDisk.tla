----------------------------- MODULE AtomicDisk -----------------------------
(***************************************************************************)
(* What the log promises the file system (log.c, opening comment): the     *)
(* updates of the operations that ran together reach the disk all at once, *)
(* and only when none of them is still running; a crash loses what was not *)
(* committed and nothing else.                                             *)
(***************************************************************************)
EXTENDS Naturals

CONSTANTS Blocks, Data, Empty

VARIABLES stable,   \* the blocks as a restart after a crash finds them
          current,  \* the blocks as running operations see them
          open      \* operations between begin_op and end_op

vars == <<stable, current, open>>

Init ==
    /\ stable = [b \in Blocks |-> Empty]
    /\ current = stable
    /\ open = 0

Begin == open' = open + 1 /\ UNCHANGED <<stable, current>>

Write(b, d) ==
    /\ open > 0
    /\ current' = [current EXCEPT ![b] = d]
    /\ UNCHANGED <<stable, open>>

End == open > 0 /\ open' = open - 1 /\ UNCHANGED <<stable, current>>

Commit ==
    /\ open = 0
    /\ stable' = current
    /\ UNCHANGED <<current, open>>

Crash == current' = stable /\ open' = 0 /\ UNCHANGED stable

Next == \/ Begin \/ End \/ Commit \/ Crash
        \/ \E b \in Blocks, d \in Data : Write(b, d)

Spec == Init /\ [][Next]_vars
=============================================================================
