------------------------------- MODULE Console -------------------------------
(***************************************************************************)
(* The console of xv6-public (console.c): the ring of input characters     *)
(* with its three indices, which count modulo 2^32 in the code and modulo  *)
(* IndexMod here, filled by the interrupt handler and emptied by readers   *)
(* under cons.lock; and the cursor of the screen.  kill takes another lock *)
(* and can fall between a reader's test of killed and its sleep.           *)
(***************************************************************************)
EXTENDS Integers, Sequences

CONSTANTS ConsReaders, NoReader,
          INPUT_BUF, IndexMod,  \* INPUT_BUF divides IndexMod
          ReadCounts,           \* counts given to read
          Columns, Rows         \* 80 and 25

ASSUME ConsAssumption ==
    /\ NoReader \notin ConsReaders /\ ReadCounts \subseteq Nat \ {0}
    /\ INPUT_BUF \in Nat \ {0} /\ IndexMod \in Nat \ {0}
    /\ INPUT_BUF < IndexMod /\ IndexMod % INPUT_BUF = 0
    /\ Columns \in Nat \ {0} /\ Rows \in Nat \ {0, 1}

VARIABLES ring, rIndex, wIndex, eIndex,
          consLock,             \* the reader inside a section under cons.lock
          rd,                   \* of a reader: where it is, n, and what it has copied
          rdKilled,
          cursor                \* pos of cgaputc

consVars == <<ring, rIndex, wIndex, eIndex, consLock, rd, rdKilled, cursor>>

Plus(i, k) == (i + k) % IndexMod
Cell(i) == i % INPUT_BUF
Away == [pc |-> "user", n |-> 0, dst |-> <<>>]

\* The cursor is where the BIOS left it, above the last row.
ConsInit ==
    /\ ring = [k \in 0 .. INPUT_BUF - 1 |-> "zero"]
    /\ rIndex = 0 /\ wIndex = 0 /\ eIndex = 0
    /\ consLock = NoReader
    /\ rd = [p \in ConsReaders |-> Away]
    /\ rdKilled = {}
    /\ cursor \in 0 .. Columns * (Rows - 1) - 1
-----------------------------------------------------------------------------
\* cgaputc: the cursor after a character, the last row scrolled away.
Moved(pos, c) ==
    IF c = "nl" THEN pos + Columns - (pos % Columns)
    ELSE IF c = "bs" THEN IF pos > 0 THEN pos - 1 ELSE pos
    ELSE pos + 1

ScrolledLate(pos) == IF pos \div Columns >= Rows THEN pos - Columns ELSE pos   \* mutant
Scrolled(pos) == IF pos \div Columns >= Rows - 1 THEN pos - Columns ELSE pos

Putc(pos, c) == Scrolled(Moved(pos, c))

Backspaces[k \in 0 .. INPUT_BUF] == IF k = 0 THEN cursor ELSE Putc(Backspaces[k - 1], "bs")

\* ^U: back to w, or to a newline.
LineStart ==
    LET back == {k \in 0 .. INPUT_BUF :
                   /\ \A j \in 0 .. k - 1 : Plus(eIndex, -j) # wIndex
                                            /\ ring[Cell(Plus(eIndex, -(j + 1)))] # "nl"}
    IN  CHOOSE k \in back : \A j \in back : j <= k

KillLine ==
    /\ eIndex' = Plus(eIndex, -LineStart)
    /\ cursor' = Backspaces[LineStart]
    /\ UNCHANGED <<ring, rIndex, wIndex, rd>>

EraseChar ==
    /\ eIndex # wIndex
    /\ eIndex' = Plus(eIndex, -1)
    /\ cursor' = Putc(cursor, "bs")
    /\ UNCHANGED <<ring, rIndex, wIndex, rd>>

WokenNobody == rd                                                             \* mutant

\* wakeup(&input.r).
Woken == [p \in ConsReaders |-> IF rd[p].pc = "asleep" THEN [rd[p] EXCEPT !.pc = "woken"] ELSE rd[p]]

\* A line is handed over: newline, end of file, or the ring is full.
HandsOver(c) == c \in {"nl", "eof"} \/ Plus(eIndex, 1) = Plus(rIndex, INPUT_BUF)

Key(c) ==
    /\ Plus(eIndex, -rIndex) < INPUT_BUF
    /\ ring' = [ring EXCEPT ![Cell(eIndex)] = c]
    /\ eIndex' = Plus(eIndex, 1)
    /\ cursor' = Putc(cursor, c)
    /\ IF HandsOver(c)
       THEN wIndex' = eIndex' /\ rd' = Woken
       ELSE UNCHANGED <<wIndex, rd>>
    /\ UNCHANGED rIndex

\* consoleintr, one character; a full ring drops it.
Consoleintr ==
    /\ consLock = NoReader
    /\ KillLine \/ EraseChar \/ \E c \in {"char", "nl", "eof"} : Key(c)
    /\ UNCHANGED <<consLock, rdKilled>>
-----------------------------------------------------------------------------
SetRd(p, r) == rd' = [rd EXCEPT ![p] = r]
RingVars == <<ring, wIndex, eIndex>>

\* consoleread: after iunlock, and again after a wakeup, take cons.lock.
CallRead(p, n) ==
    /\ rd[p].pc = "user"
    /\ SetRd(p, [pc |-> "woken", n |-> n, dst |-> <<>>])
    /\ UNCHANGED <<RingVars, rIndex, consLock, rdKilled, cursor>>

Lock(p) ==
    /\ rd[p].pc = "woken" /\ consLock = NoReader
    /\ consLock' = p
    /\ SetRd(p, [rd[p] EXCEPT !.pc = "loop"])
    /\ UNCHANGED <<RingVars, rIndex, rdKilled, cursor>>

Leave(p) == consLock' = NoReader /\ SetRd(p, [rd[p] EXCEPT !.pc = "user"])

\* Nothing to read: leave if killed, otherwise on to sleep, which gives up
\* cons.lock under ptable.lock.
NothingToRead(p) ==
    /\ rd[p].pc = "loop" /\ rIndex = wIndex
    /\ \/ p \in rdKilled /\ Leave(p)
       \/ p \notin rdKilled /\ SetRd(p, [rd[p] EXCEPT !.pc = "sleep"]) /\ UNCHANGED consLock
    /\ UNCHANGED <<RingVars, rIndex, rdKilled, cursor>>

Sleep(p) ==
    /\ rd[p].pc = "sleep"
    /\ consLock' = NoReader
    /\ SetRd(p, [rd[p] EXCEPT !.pc = "asleep"])
    /\ UNCHANGED <<RingVars, rIndex, rdKilled, cursor>>

EofTaken(p) == Plus(rIndex, 1)                                                \* mutant

\* input.r after an end of file: put back if the caller has got characters.
EofLeft(p) == IF rd[p].dst # <<>> THEN rIndex ELSE Plus(rIndex, 1)

TakeChar(p) ==
    LET c == ring[Cell(rIndex)]
        r == rd[p]
        last == c = "nl" \/ Len(r.dst) + 1 = r.n
    IN  /\ r.pc = "loop" /\ rIndex # wIndex
        /\ \/ /\ c = "eof"
              /\ rIndex' = EofLeft(p)
              /\ Leave(p)
           \/ /\ c # "eof"
              /\ rIndex' = Plus(rIndex, 1)
              /\ SetRd(p, [r EXCEPT !.dst = Append(@, c), !.pc = IF last THEN "user" ELSE @])
              /\ consLock' = IF last THEN NoReader ELSE consLock
        /\ UNCHANGED <<RingVars, rdKilled, cursor>>

\* consolewrite of one character, or cprintf.
Consolewrite(c) ==
    /\ consLock = NoReader
    /\ cursor' = Putc(cursor, c)
    /\ UNCHANGED <<RingVars, rIndex, consLock, rd, rdKilled>>

KillReader(p) ==
    /\ p \notin rdKilled
    /\ rdKilled' = rdKilled \cup {p}
    /\ SetRd(p, [rd[p] EXCEPT !.pc = IF @ = "asleep" THEN "woken" ELSE @])
    /\ UNCHANGED <<RingVars, rIndex, consLock, cursor>>

ConsNext ==
    \/ Consoleintr
    \/ \E c \in {"char", "nl"} : Consolewrite(c)
    \/ \E p \in ConsReaders :
         \/ \E n \in ReadCounts : CallRead(p, n)
         \/ Lock(p) \/ NothingToRead(p) \/ Sleep(p) \/ TakeChar(p) \/ KillReader(p)

ConsSpec == ConsInit /\ [][ConsNext]_consVars
-----------------------------------------------------------------------------
Between(i, j) == [k \in 1 .. Plus(j, -i) |-> ring[Cell(Plus(i, k - 1))]]

T == INSTANCE Terminal WITH
        Readers <- ConsReaders, Room <- INPUT_BUF, Counts <- ReadCounts,
        ready <- Between(rIndex, wIndex), line <- Between(wIndex, eIndex),
        want <- [p \in ConsReaders |-> IF rd[p].pc = "user" THEN 0 ELSE rd[p].n],
        got <- [p \in ConsReaders |-> rd[p].dst]

\* The ring with its three wrapping indices is the line discipline of Terminal:
\* what readers get is what was typed, edited and handed over, in order and
\* once, and an end of file ends one read.
IsTerminal == T!Spec

\* Nobody sleeps in consoleread while something has been handed over.
ReadersWoken == \A p \in ConsReaders : rd[p].pc = "asleep" => rIndex = wIndex

\* cgaputc leaves the cursor on a row of the screen, so that its panic is not
\* reached and the blank it writes there is not past the screen's memory.
CursorOnScreen == cursor \in 0 .. Columns * (Rows - 1) - 1
=============================================================================
