------------------------------ MODULE Console ------------------------------
(***************************************************************************)
(* The input side of the console (kernel/console.c): the ring of keys that *)
(* the interrupt handler fills and read() empties.  The echo of a key is   *)
(* output (module Uart).  A region under cons.lock is one step, except     *)
(* that a reader takes one character a step, with the lock held.           *)
(***************************************************************************)
EXTENDS Integers, Sequences

CONSTANTS
    Reader,            \* processes in read() of the console
    INPUT_BUF_SIZE,
    CONSWRAP,          \* 2^32: the range of the indices
    MaxRead,           \* largest n of a read()
    NoReader

ASSUME ConsoleSizes ==
    /\ INPUT_BUF_SIZE \in Nat \ {0} /\ MaxRead \in Nat
    /\ CONSWRAP % INPUT_BUF_SIZE = 0 /\ CONSWRAP > INPUT_BUF_SIZE

VARIABLES
    buf, r, w, e,   \* cons: the ring and its read, write and edit index
    consLock,       \* the reader that holds cons.lock
    rd              \* the read() of each reader

consVars == <<buf, r, w, e, consLock, rd>>

Key == {"letter", "newline", "eof", "erase", "kill"}

NoRead == [pc |-> "idle", left |-> 0, got |-> 0, killed |-> FALSE]

ConsoleInit ==
    /\ buf = [i \in 0..(INPUT_BUF_SIZE - 1) |-> NoReader] /\ r = 0 /\ w = 0 /\ e = 0
    /\ consLock = NoReader /\ rd = [p \in Reader |-> NoRead]

Plus(i, k) == (i + k) % CONSWRAP
Minus(i, k) == (i - k) % CONSWRAP

-----------------------------------------------------------------------------
(* consoleread() *)

\* read() of n bytes; the caller does not hold cons.lock yet.
Read(p, n) ==
    /\ rd[p].pc = "idle"
    /\ rd' = [rd EXCEPT ![p] = [NoRead EXCEPT !.pc = "run", !.left = n]]
    /\ UNCHANGED <<buf, r, w, e, consLock>>

\* kill() marks the process and wakes it if it sleeps.
Kill(p) ==
    /\ rd[p].pc \in {"run", "sleep"} /\ ~rd[p].killed
    /\ rd' = [rd EXCEPT ![p] = [@ EXCEPT !.killed = TRUE, !.pc = "run"]]
    /\ UNCHANGED <<buf, r, w, e, consLock>>

ReadReturns(p) == rd' = [rd EXCEPT ![p] = NoRead] /\ consLock' = NoReader

\* The read index after ^D.
AfterEof(p) == IF rd[p].got > 0 THEN r ELSE Plus(r, 1)

\* One turn of the loop of consoleread(), under cons.lock.
ReadChar(p) ==
    LET c == buf[r % INPUT_BUF_SIZE]
        last == c = "newline" \/ rd[p].left = 1 IN
    /\ rd[p].pc = "run" /\ consLock \in {NoReader, p}
    /\ \/ /\ r = w
          /\ IF rd[p].killed THEN ReadReturns(p)
             ELSE rd' = [rd EXCEPT ![p].pc = "sleep"] /\ consLock' = NoReader
          /\ UNCHANGED r
       \/ /\ r # w /\ c = "eof"
          /\ r' = AfterEof(p)
          /\ ReadReturns(p)
       \/ \* the byte is copied; or copyout() fails, and the byte is lost
          /\ r # w /\ c # "eof"
          /\ r' = Plus(r, 1)
          /\ \/ ReadReturns(p)
             \/ /\ ~last
                /\ rd' = [rd EXCEPT ![p].left = @ - 1, ![p].got = @ + 1]
                /\ consLock' = p
    /\ UNCHANGED <<buf, w, e>>

-----------------------------------------------------------------------------
(* consoleintr() *)

\* The line is finished by key c.
Commit(c) == c \in {"newline", "eof"} \/ Minus(Plus(e, 1), r) = INPUT_BUF_SIZE

\* MUTANT: the comparison of indices is not modulo 2^32.
RoomNoWrap == e < r + INPUT_BUF_SIZE

Room == Minus(e, r) < INPUT_BUF_SIZE

\* MUTANT: a ring that has become full wakes nobody.
WakeAtNewline(c) ==
    rd' = [p \in Reader |-> IF c = "newline" /\ rd[p].pc = "sleep" THEN [rd[p] EXCEPT !.pc = "run"] ELSE rd[p]]

\* wakeup(&cons.r)
WakeReaders(c) ==
    rd' = [p \in Reader |-> IF Commit(c) /\ rd[p].pc = "sleep" THEN [rd[p] EXCEPT !.pc = "run"] ELSE rd[p]]

\* The key goes into the ring; wakeup(&cons.r) when a line is finished.
KeyStored(c) ==
    /\ c \notin {"kill", "erase"} /\ consLock = NoReader /\ Room
    /\ buf' = [buf EXCEPT ![e % INPUT_BUF_SIZE] = c]
    /\ e' = Plus(e, 1)
    /\ w' = IF Commit(c) THEN Plus(e, 1) ELSE w
    /\ WakeReaders(c)
    /\ UNCHANGED <<r, consLock>>

\* ^H and ^U go back at most to the start of the unfinished line; a ring
\* without room ignores other keys.
KeyEdits(c) ==
    /\ c \in {"kill", "erase"} /\ consLock = NoReader /\ e # w
    /\ e' = IF c = "kill" THEN w ELSE Minus(e, 1)
    /\ UNCHANGED <<buf, r, w, consLock, rd>>

-----------------------------------------------------------------------------
ConsoleNext ==
    \/ \E p \in Reader : ReadChar(p) \/ Kill(p) \/ \E n \in 1..MaxRead : Read(p, n)
    \/ \E c \in Key : KeyStored(c) \/ KeyEdits(c)

-----------------------------------------------------------------------------
(* Properties *)

Ring(from, to) == [i \in 1..Minus(to, from) |-> buf[(from + i - 1) % INPUT_BUF_SIZE]]

Line == INSTANCE LineDiscipline WITH 
    Size <- INPUT_BUF_SIZE, ready <- Ring(r, w), line <- Ring(w, e), some <- {p \in Reader : rd[p].got > 0}

\* consoleintr() and consoleread() implement the line discipline on a ring
\* whose three indices wrap around, also when it is full, when a line is erased
\* and when several readers share a line; ^D is taken out of the ring only by a
\* read() that returns 0 ("to make sure caller gets a 0-byte result").
LineSpec == Line!Spec

\* A process sleeps in consoleread() only while there is nothing to read, and
\* not while the ring is full: then no key could finish the line any more.
ReadersHaveReason == \A p \in Reader : rd[p].pc = "sleep" => r = w /\ Room
=============================================================================
