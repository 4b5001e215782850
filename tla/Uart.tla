-------------------------------- MODULE Uart --------------------------------
(***************************************************************************)
(* The driver of the serial port (kernel/uart.c) with the UART as the      *)
(* driver relies on it.  What a key does to the console is in module       *)
(* Console; here it is a number of bytes to echo.                          *)
(*                                                                         *)
(* One CPU at a time handles the interrupt of the UART (the PLIC sees to   *)
(* that); writers run on the others.  The line status register is read in  *)
(* one step and the transmit register written in another, since            *)
(* uartputc_sync() echoes without uart_tx_lock.                            *)
(***************************************************************************)
EXTENDS Integers, Sequences

CONSTANTS
    Writer,            \* processes in write() of the console
    Byte,              \* what write() sends
    UART_TX_BUF_SIZE,
    TXWRAP,            \* 2^64: the range of the indices
    FIFO,              \* bytes the transmitter of the UART holds
    MaxEcho,           \* bytes a key echoes
    None

ASSUME UartSizes ==
    /\ UART_TX_BUF_SIZE \in Nat \ {0} /\ FIFO \in Nat \ {0} /\ MaxEcho \in Nat
    /\ TXWRAP % UART_TX_BUF_SIZE = 0 /\ TXWRAP > UART_TX_BUF_SIZE

VARIABLES
    txbuf, txw, txr,\* uart_tx_buf, uart_tx_w, uart_tx_r
    txLock,         \* who holds uart_tx_lock
    hand,           \* the byte uartstart() has taken from the ring, or None
    wr,             \* the write() of each writer: one byte
    intr,           \* uartintr(): where it is, and the bytes left to echo
    fifo,           \* UART: bytes to transmit, None for one of the echo
    thre,           \* UART: transmitter-empty interrupt
    rx,             \* UART: a key was received
    wire            \* the last byte of a write() that was transmitted

txVars == <<txbuf, txw, txr>>
uartVars == <<txbuf, txw, txr, txLock, hand, wr, intr, fifo, thre, rx, wire>>

NoIntr == [pc |-> "idle", echo |-> 0]

\* uartinit(): both interrupts enabled, the FIFOs empty.
UartInit ==
    /\ txbuf = [i \in 0..(UART_TX_BUF_SIZE - 1) |-> None] /\ txw = 0 /\ txr = 0
    /\ txLock = None /\ hand = None /\ wr = [p \in Writer |-> [pc |-> "idle", b |-> None]]
    /\ intr = NoIntr
    /\ fifo = <<>> /\ thre = FALSE /\ rx = FALSE /\ wire \in Byte

Inc(i, k) == (i + k) % TXWRAP

-----------------------------------------------------------------------------
(* uartintr() *)

IntrEnter ==
    /\ intr.pc = "idle" /\ (rx \/ thre)
    /\ intr' = [intr EXCEPT !.pc = "getc"]
    /\ UNCHANGED <<txVars, txLock, hand, wr, fifo, thre, rx, wire>>

\* uartgetc() finds a key, which echoes k bytes.
IntrKey(k) ==
    /\ intr.pc = "getc" /\ rx
    /\ intr' = [pc |-> "echo", echo |-> k]
    /\ rx' = FALSE
    /\ UNCHANGED <<txVars, txLock, hand, wr, fifo, thre, wire>>

\* uartgetc() finds none.
IntrNoKey ==
    /\ intr.pc = "getc" /\ ~rx
    /\ intr' = [intr EXCEPT !.pc = "start"]
    /\ UNCHANGED <<txVars, txLock, hand, wr, fifo, thre, rx, wire>>

\* Writing the transmit register ends the interrupt.  A byte is lost when the
\* transmitter is full.
Transmit(b) == /\ fifo' = IF Len(fifo) < FIFO THEN Append(fifo, b) ELSE fifo
               /\ thre' = FALSE

\* MUTANT: uartputc_sync() does not wait.
EchoNoWait ==
    /\ intr.pc = "echo" /\ intr.echo > 0
    /\ intr' = [intr EXCEPT !.pc = "echo_write"]
    /\ UNCHANGED <<txVars, txLock, hand, wr, fifo, thre, rx, wire>>

\* uartputc_sync(): wait for an idle transmitter, then write.
EchoWait ==
    /\ intr.pc = "echo" /\ intr.echo > 0 /\ fifo = <<>>
    /\ intr' = [intr EXCEPT !.pc = "echo_write"]
    /\ UNCHANGED <<txVars, txLock, hand, wr, fifo, thre, rx, wire>>

EchoWrite ==
    /\ intr.pc = "echo_write"
    /\ Transmit(None)
    /\ intr' = [pc |-> "echo", echo |-> intr.echo - 1]
    /\ UNCHANGED <<txVars, txLock, hand, wr, rx, wire>>

EchoDone ==
    /\ intr.pc = "echo" /\ intr.echo = 0
    /\ intr' = [intr EXCEPT !.pc = "getc"]
    /\ UNCHANGED <<txVars, txLock, hand, wr, fifo, thre, rx, wire>>

IntrStart ==
    /\ intr.pc = "start" /\ txLock = None
    /\ txLock' = "intr"
    /\ UNCHANGED <<txVars, hand, wr, intr, fifo, thre, rx, wire>>

-----------------------------------------------------------------------------
(* uartputc() and uartstart() *)

\* The next byte of consolewrite().
Write(p, b) ==
    /\ wr[p].pc = "idle"
    /\ wr' = [wr EXCEPT ![p] = [pc |-> "put", b |-> b]]
    /\ UNCHANGED <<txVars, txLock, hand, intr, fifo, thre, rx, wire>>

TxFull == txw = Inc(txr, UART_TX_BUF_SIZE)

\* uartputc() up to uartstart(): sleep, or put the byte into the ring.
Uartputc(p) ==
    /\ wr[p].pc = "put" /\ txLock = None
    /\ \/ /\ TxFull
          /\ wr' = [wr EXCEPT ![p].pc = "sleep"]
          /\ UNCHANGED <<txVars, txLock>>
       \/ /\ ~TxFull
          /\ txbuf' = [txbuf EXCEPT ![txw % UART_TX_BUF_SIZE] = wr[p].b]
          /\ txw' = Inc(txw, 1)
          /\ txLock' = p
          /\ wr' = [wr EXCEPT ![p] = [pc |-> "start", b |-> None]]
          /\ UNCHANGED txr
    /\ UNCHANGED <<hand, intr, fifo, thre, rx, wire>>

\* release() by whoever called uartstart().
StartReturns == /\ txLock' = None
                /\ wr' = [p \in Writer |-> IF p = txLock THEN [wr[p] EXCEPT !.pc = "idle"] ELSE wr[p]]
                /\ intr' = IF txLock = "intr" THEN NoIntr ELSE intr

\* MUTANT: uartstart() wakes nobody.
WakeNobody == UNCHANGED wr

\* wakeup(&uart_tx_r)
WakeWriters == wr' = [p \in Writer |-> IF wr[p].pc = "sleep" THEN [wr[p] EXCEPT !.pc = "put"] ELSE wr[p]]

\* One turn of the loop of uartstart(), up to the write of the byte: the ring
\* is empty, and reading ISR ends the interrupt unless a key is the more urgent
\* reason; or the transmitter is busy; or it is idle and the byte is taken.
Uartstart ==
    /\ txLock # None /\ hand = None
    /\ \/ /\ txw = txr
          /\ thre' = (thre /\ rx)
          /\ StartReturns
          /\ UNCHANGED <<txr, hand>>
       \/ /\ txw # txr /\ fifo # <<>>
          /\ StartReturns
          /\ UNCHANGED <<txr, hand, thre>>
       \/ /\ txw # txr /\ fifo = <<>>
          /\ hand' = txbuf[txr % UART_TX_BUF_SIZE]
          /\ txr' = Inc(txr, 1)
          /\ WakeWriters
          /\ UNCHANGED <<txLock, intr, thre>>
    /\ UNCHANGED <<txbuf, txw, fifo, rx, wire>>

UartstartWrite ==
    /\ hand # None
    /\ Transmit(hand)
    /\ hand' = None
    /\ UNCHANGED <<txVars, txLock, wr, intr, rx, wire>>

-----------------------------------------------------------------------------
(* The UART *)

\* It transmits a byte, and interrupts when none is left.
Transmitted ==
    /\ fifo # <<>>
    /\ fifo' = Tail(fifo)
    /\ thre' = (thre \/ Len(fifo) = 1)
    /\ wire' = IF Head(fifo) = None THEN wire ELSE Head(fifo)
    /\ UNCHANGED <<txVars, txLock, hand, wr, intr, rx>>

Received ==
    /\ ~rx
    /\ rx' = TRUE
    /\ UNCHANGED <<txVars, txLock, hand, wr, intr, fifo, thre, wire>>

-----------------------------------------------------------------------------
Intr == \/ IntrEnter \/ IntrNoKey \/ EchoWait \/ EchoWrite \/ EchoDone \/ IntrStart
        \/ \E k \in 0..MaxEcho : IntrKey(k)
Tx == Uartstart \/ UartstartWrite

UartNext ==
    \/ \E p \in Writer : Uartputc(p) \/ \E b \in Byte : Write(p, b)
    \/ Intr \/ Tx
    \/ Transmitted \/ Received

-----------------------------------------------------------------------------
(* Properties *)

\* Bytes of write() that are not yet on the wire, oldest first.
Pending == SelectSeq(fifo, LAMBDA b : b # None)
           \o (IF hand = None THEN <<>> ELSE <<hand>>)
           \o [i \in 1..((txw - txr) % TXWRAP) |-> txbuf[(txr + i - 1) % UART_TX_BUF_SIZE]]

Output == INSTANCE Fifo WITH queue <- Pending, last <- wire, freed <- FALSE,
                             Size <- UART_TX_BUF_SIZE + 1 + FIFO

\* The bytes of write() reach the wire once each and in order, although the echo
\* writes the transmit register without uart_tx_lock.
OutputSpec == Output!Spec

\* A process asleep in uartputc() is not forgotten.  The ring is full as long as
\* it sleeps, and uartstart(), which wakes it, is running or still to come: the
\* transmitter is busy, or its interrupt is pending or being handled.  So the
\* interrupt that announces an idle transmitter is not lost when the ring runs
\* empty, when a key came first or when the echo had the transmitter.
WritersHaveWaker ==
    \A p \in Writer : wr[p].pc = "sleep" =>
        TxFull /\ (txLock # None \/ fifo # <<>> \/ thre \/ intr.pc # "idle")
=============================================================================
