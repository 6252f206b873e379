----------------------------- MODULE ByteStream -----------------------------
(***************************************************************************)
(* What a pipe promises the programs at its two ends: bytes come out in    *)
(* the order in which they went in, at most Capacity of them are inside,   *)
(* a read says "end of file" only when the pipe is empty and nobody can    *)
(* write to it any more, and a call fails only when nobody can read what   *)
(* is inside, or its caller is being killed.                               *)
(***************************************************************************)
EXTENDS Naturals, Sequences

CONSTANTS Procs, None, Data, Capacity

VARIABLES queue,      \* the bytes in the pipe
          readable, writable,   \* whether the read and the write end are open
          doomed,     \* processes that have been killed
          out         \* the byte or answer that the last step gave a process

vars == <<queue, readable, writable, doomed, out>>

Give(p, w) == out' = [to |-> p, what |-> w]
Silent == Give(None, "quiet")

Init ==
    /\ queue = <<>>
    /\ readable = TRUE /\ writable = TRUE
    /\ doomed = {}
    /\ out = [to |-> None, what |-> "quiet"]

Put(d) ==
    /\ writable /\ Len(queue) < Capacity
    /\ queue' = Append(queue, d)
    /\ Silent
    /\ UNCHANGED <<readable, writable, doomed>>

Get(p) ==
    /\ readable /\ queue # <<>>
    /\ Give(p, Head(queue))
    /\ queue' = Tail(queue)
    /\ UNCHANGED <<readable, writable, doomed>>

Answer(p, a) ==
    /\ a = "eof" => queue = <<>> /\ ~writable
    /\ a = "fail" => p \in doomed \/ ~readable
    /\ Give(p, a)
    /\ UNCHANGED <<queue, readable, writable, doomed>>

CloseRead == readable' = FALSE /\ Silent /\ UNCHANGED <<queue, writable, doomed>>
CloseWrite == writable' = FALSE /\ Silent /\ UNCHANGED <<queue, readable, doomed>>
Doom(p) == doomed' = doomed \cup {p} /\ Silent /\ UNCHANGED <<queue, readable, writable>>
Internal == Silent /\ UNCHANGED <<queue, readable, writable, doomed>>

Next ==
    \/ CloseRead \/ CloseWrite \/ Internal
    \/ \E d \in Data : Put(d)
    \/ \E p \in Procs : Get(p) \/ Doom(p) \/ \E a \in {"ok", "eof", "fail"} : Answer(p, a)

Spec == Init /\ [][Next]_vars
=============================================================================
