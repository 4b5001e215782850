----------------------------- MODULE Interrupts -----------------------------
(***************************************************************************)
(* Spin locks and what they do to interrupts (kernel/spinlock.c), the      *)
(* timer interrupt (kernel/trap.c), the switch between a process and the   *)
(* scheduler (kernel/proc.c), and sleep(n) (kernel/sysproc.c), which waits *)
(* for the timer.  Interrupts of devices are in modules Uart and Virtio.   *)
(*                                                                         *)
(* A thread is a process or the scheduler of a CPU, which has the number   *)
(* of its CPU.  A handler runs on the stack of the thread it interrupts.   *)
(* A critical section that takes no other lock is one step.                *)
(***************************************************************************)
EXTENDS Integers, FiniteSets, FiniteSetsExt

CONSTANTS
    NCPU, NIPROC,
    TICKWRAP,     \* 2^32: the range of ticks
    Naps          \* arguments of sleep()

ASSUME InterruptSizes ==
    /\ NCPU \in Nat \ {0} /\ NIPROC \in Nat \ {0}
    /\ TICKWRAP \in Nat /\ \A n \in Naps : n \in Nat /\ n < TICKWRAP - 1

VARIABLES
    lock,    \* the CPU that holds each lock
    cpu,     \* noff and intena of a CPU, its interrupt-enable bit, and its thread
    thread,  \* where each thread is: pc, stage of acquire(), interrupted code, ...
    ticks,
    nap,     \* n and ticks0 of sys_sleep() of each process
    iproc,   \* state and killed of each process
    halted   \* panic() was reached

intrVars == <<lock, cpu, thread, ticks, nap, iproc, halted>>

Cpu == 0..(NCPU - 1)
IProc == NCPU..(NCPU + NIPROC - 1)
tickslock == NCPU + NIPROC
Unheld == NCPU

InterruptsInit ==
    /\ lock = [l \in IProc \cup {tickslock} |-> Unheld]
    /\ cpu = [c \in Cpu |-> [noff |-> 0, intena |-> FALSE, ien |-> FALSE, on |-> c]]
    /\ thread = [t \in Cpu \cup IProc |->
          [pc |-> IF t \in Cpu THEN "idle" ELSE "forkret", acq |-> "no", frame |-> <<>>,
           intena |-> FALSE, arg |-> NCPU]]
    /\ ticks = 0
    /\ nap = [p \in IProc |-> [n |-> 0, from |-> 0]]
    /\ iproc = [p \in IProc |-> [state |-> "RUNNABLE", killed |-> FALSE]]
    /\ halted = FALSE

\* The thread on c is at label pc, and not in acquire().
Me(c) == thread[cpu[c].on]
AtPc(c, pc) == ~halted /\ Me(c).pc = pc /\ Me(c).acq = "no"
JumpTo(c, pc) == thread' = [thread EXCEPT ![cpu[c].on].pc = pc]

-----------------------------------------------------------------------------
(* spinlock.c *)

\* The lock that acquire() at this point takes, and the label behind it.
Wanted(c) == IF Me(c).pc \in {"nap", "sleep_again", "clock"} THEN tickslock
             ELSE IF cpu[c].on \in Cpu THEN Me(c).arg ELSE cpu[c].on
Behind(pc) == CASE pc = "nap" -> "nap_from"       [] pc = "sleep" -> "sleep_locked"
                [] pc = "sleep_again" -> "nap_loop" [] pc = "clock" -> "tick"
                [] pc = "yield" -> "yield_locked" [] pc = "pick" -> "picked"
                [] pc = "exit" -> "exit_locked"   [] OTHER -> pc

\* push_off(): intr_get(), which sees that interrupts are on and may itself be
\* followed by one; and the rest of it, with interrupts off.  Then the test of
\* acquire() for a lock that this CPU holds already.
IntrGet(c) ==
    /\ ~halted /\ Behind(Me(c).pc) # Me(c).pc /\ Me(c).acq = "no" /\ cpu[c].ien
    /\ thread' = [thread EXCEPT ![cpu[c].on].acq = "off"]
    /\ UNCHANGED <<lock, cpu, ticks, nap, iproc, halted>>

PushOff(k, old) == [k EXCEPT !.ien = FALSE, !.noff = @ + 1,
                             !.intena = IF k.noff = 0 THEN old ELSE @]

IntrOff(c) ==
    /\ ~halted /\ Behind(Me(c).pc) # Me(c).pc
    /\ Me(c).acq = "off" \/ (Me(c).acq = "no" /\ ~cpu[c].ien)
    /\ cpu' = [cpu EXCEPT ![c] = PushOff(@, Me(c).acq = "off")]
    /\ thread' = [thread EXCEPT ![cpu[c].on].acq = "spin"]
    /\ halted' = (lock[Wanted(c)] = c)
    /\ UNCHANGED <<lock, ticks, nap, iproc>>

Acquired(c) ==
    /\ ~halted /\ Me(c).acq = "spin" /\ lock[Wanted(c)] = Unheld
    /\ lock' = [lock EXCEPT ![Wanted(c)] = c]
    /\ thread' = [thread EXCEPT ![cpu[c].on] = [@ EXCEPT !.acq = "no", !.pc = Behind(@)]]
    /\ UNCHANGED <<cpu, ticks, nap, iproc, halted>>

PopOff(k) == [k EXCEPT !.noff = @ - 1, !.ien = k.noff = 1 /\ k.intena]

\* release() of l by a CPU in state k.
Release(c, l, k) ==
    /\ lock' = [lock EXCEPT ![l] = Unheld]
    /\ cpu' = [cpu EXCEPT ![c] = PopOff(k)]
    /\ halted' = (lock[l] # c \/ k.ien \/ k.noff < 1)

-----------------------------------------------------------------------------
(* sched() and scheduler() *)

\* sched() by the process on c, whose state is now s and whose CPU is in state
\* k; it goes on at pc.  intena belongs to the thread, not to the CPU.
Sched(c, k, s, pc) ==
    LET p == cpu[c].on IN
    /\ halted' = (lock[p] # c \/ k.noff # 1 \/ k.ien)
    /\ iproc' = [iproc EXCEPT ![p].state = s]
    /\ thread' = [thread EXCEPT ![p] = [@ EXCEPT !.pc = pc, !.intena = k.intena]]
    /\ cpu' = [cpu EXCEPT ![c] = [k EXCEPT !.on = c]]

\* MUTANT: the CPU keeps the intena that the scheduler left in it.
RestoreNot(c) == cpu[c]

\* The end of sched(), on whatever CPU the process is now.
Restore(c) == [cpu[c] EXCEPT !.intena = Me(c).intena]

\* The start of a pass: interrupts on.
SchedIdle(c) ==
    /\ AtPc(c, "idle")
    /\ cpu' = [cpu EXCEPT ![c].ien = TRUE]
    /\ thread' = [thread EXCEPT ![c] = [@ EXCEPT !.pc = "pick", !.arg = NCPU]]
    /\ UNCHANGED <<lock, ticks, nap, iproc, halted>>

\* With p->lock held: switch to the process, or go on to the next one.
SchedPick(c) ==
    /\ AtPc(c, "picked") /\ iproc[Me(c).arg].state = "RUNNABLE"
    /\ iproc' = [iproc EXCEPT ![Me(c).arg].state = "RUNNING"]
    /\ cpu' = [cpu EXCEPT ![c].on = Me(c).arg]
    /\ JumpTo(c, "back")
    /\ UNCHANGED <<lock, ticks, nap, halted>>

SchedNext(c) ==
    LET p == Me(c).arg IN
    /\ AtPc(c, "back") \/ (AtPc(c, "picked") /\ iproc[p].state # "RUNNABLE")
    /\ Release(c, p, cpu[c])
    /\ thread' = [thread EXCEPT ![c] =
          IF p = Max(IProc) THEN [@ EXCEPT !.pc = "idle"] ELSE [@ EXCEPT !.pc = "pick", !.arg = p + 1]]
    /\ UNCHANGED <<ticks, nap, iproc>>

Forkret(c) ==
    /\ AtPc(c, "forkret")
    /\ Release(c, cpu[c].on, cpu[c])
    /\ JumpTo(c, "userret")
    /\ UNCHANGED <<ticks, nap, iproc>>

-----------------------------------------------------------------------------
(* usertrap(), and sys_sleep() as the system call *)

\* usertrapret(), to the sret that turns interrupts on.
Usertrapret(c) ==
    /\ AtPc(c, "userret")
    /\ cpu' = [cpu EXCEPT ![c].ien = TRUE]
    /\ JumpTo(c, "user")
    /\ UNCHANGED <<lock, ticks, nap, iproc, halted>>

\* killed() takes p->lock for a moment.
NotLocked(p) == lock[p] = Unheld

Syscall(c, n) ==
    LET p == cpu[c].on IN
    /\ AtPc(c, "user") /\ NotLocked(p)
    /\ nap' = [nap EXCEPT ![p] = [n |-> n, from |-> 0]]
    /\ JumpTo(c, IF iproc[p].killed THEN "exit" ELSE "nap")
    /\ UNCHANGED <<lock, cpu, ticks, iproc, halted>>

NapFrom(c) ==
    /\ AtPc(c, "nap_from")
    /\ nap' = [nap EXCEPT ![cpu[c].on].from = ticks]
    /\ JumpTo(c, "nap_loop")
    /\ UNCHANGED <<lock, cpu, ticks, iproc, halted>>

\* MUTANT: the time to wake up is computed beforehand.
TooEarlyNoWrap(p) == ticks < (nap[p].from + nap[p].n) % TICKWRAP

\* ticks - ticks0 < n
Elapsed(p) == (ticks - nap[p].from) % TICKWRAP
TooEarly(p) == Elapsed(p) < nap[p].n

NapLoop(c) ==
    LET p == cpu[c].on IN
    /\ AtPc(c, "nap_loop")
    /\ \/ /\ TooEarly(p) /\ NotLocked(p) /\ ~iproc[p].killed
          /\ JumpTo(c, "sleep")
          /\ UNCHANGED <<lock, cpu, nap, halted>>
       \/ /\ ~TooEarly(p) \/ (NotLocked(p) /\ iproc[p].killed)
          /\ Release(c, tickslock, cpu[c])
          /\ JumpTo(c, "ret")
          /\ nap' = [nap EXCEPT ![p] = [n |-> 0, from |-> 0]]
    /\ UNCHANGED <<ticks, iproc>>

\* sleep(), with p->lock: release(lk) and sched(); and what follows sched().
Sleep(c) ==
    /\ AtPc(c, "sleep_locked")
    /\ lock' = [lock EXCEPT ![tickslock] = Unheld]
    /\ Sched(c, PopOff(cpu[c]), "SLEEPING", "slept")
    /\ UNCHANGED <<ticks, nap>>

Slept(c) ==
    /\ AtPc(c, "slept")
    /\ Release(c, cpu[c].on, Restore(c))
    /\ thread' = [thread EXCEPT ![cpu[c].on] = [@ EXCEPT !.pc = "sleep_again", !.intena = FALSE]]
    /\ UNCHANGED <<ticks, nap, iproc>>

\* The end of usertrap().
Ret(c) ==
    /\ AtPc(c, "ret") /\ NotLocked(cpu[c].on)
    /\ JumpTo(c, IF iproc[cpu[c].on].killed THEN "exit" ELSE "userret")
    /\ UNCHANGED <<lock, cpu, ticks, nap, iproc, halted>>

\* The end of exit(): sched() does not return.
ExitSched(c) ==
    /\ AtPc(c, "exit_locked")
    /\ Sched(c, cpu[c], "ZOMBIE", "gone")
    /\ UNCHANGED <<lock, ticks, nap>>

\* kill() by somebody else.
KillNap(p) ==
    /\ ~halted /\ NotLocked(p) /\ ~iproc[p].killed
    /\ iproc' = [iproc EXCEPT ![p] = [killed |-> TRUE, state |-> IF @.state = "SLEEPING" THEN "RUNNABLE" ELSE @.state]]
    /\ UNCHANGED <<lock, cpu, thread, ticks, nap, halted>>

-----------------------------------------------------------------------------
(* The timer interrupt: kerneltrap(), usertrap() and clockintr() *)

\* The code a thread is in, below a handler.
Code(t) == IF thread[t].frame = <<>> THEN thread[t].pc ELSE thread[t].frame[1].pc

\* No process waits 2^32 ticks for a CPU.
Napping(p) == Code(p) \in {"nap_loop", "sleep", "sleep_locked", "slept", "sleep_again"}
MayTick == \A p \in IProc : Napping(p) => Elapsed(p) < TICKWRAP - 1

\* CPU 0 counts ticks.
Interrupt(c) ==
    /\ ~halted /\ cpu[c].ien /\ (c = 0 => MayTick)
    /\ cpu' = [cpu EXCEPT ![c].ien = FALSE]
    /\ thread' = [thread EXCEPT ![cpu[c].on] =
          [@ EXCEPT !.frame = <<Me(c)>>, !.acq = "no", !.pc = IF c = 0 THEN "clock" ELSE "clocked"]]
    /\ UNCHANGED <<lock, ticks, nap, iproc, halted>>

\* ticks++, and wakeup(&ticks): all processes but the one that runs here.
Tick(c) ==
    /\ AtPc(c, "tick")
    /\ ticks' = (ticks + 1) % TICKWRAP
    /\ thread' = [thread EXCEPT ![cpu[c].on] = [@ EXCEPT !.pc = "wakeup", !.arg = NCPU]]
    /\ UNCHANGED <<lock, cpu, nap, iproc, halted>>

Wakeup(c) ==
    LET p == Me(c).arg
        skip == p = cpu[c].on IN
    /\ AtPc(c, "wakeup") /\ p \in IProc
    /\ skip \/ lock[p] \in {Unheld, c}
    /\ halted' = (~skip /\ lock[p] = c)
    /\ iproc' = [iproc EXCEPT ![p].state = IF ~skip /\ @ = "SLEEPING" THEN "RUNNABLE" ELSE @]
    /\ thread' = [thread EXCEPT ![cpu[c].on].arg = @ + 1]
    /\ UNCHANGED <<lock, cpu, ticks, nap>>

Ticked(c) ==
    /\ AtPc(c, "wakeup") /\ Me(c).arg \notin IProc
    /\ Release(c, tickslock, cpu[c])
    /\ thread' = [thread EXCEPT ![cpu[c].on] = [@ EXCEPT !.pc = "clocked", !.arg = NCPU]]
    /\ UNCHANGED <<ticks, nap, iproc>>

\* A process yields; one that was in user mode first looks whether it was
\* killed.
Clocked(c) ==
    LET p == cpu[c].on IN
    /\ AtPc(c, "clocked")
    /\ p \in IProc => NotLocked(p)
    /\ JumpTo(c, CASE p \in Cpu -> "iret"
                   [] p \in IProc /\ Code(p) = "user" /\ iproc[p].killed -> "exit"
                   [] OTHER -> "yield")
    /\ UNCHANGED <<lock, cpu, ticks, nap, iproc, halted>>

Yield(c) ==
    /\ AtPc(c, "yield_locked")
    /\ Sched(c, cpu[c], "RUNNABLE", "yielded")
    /\ UNCHANGED <<lock, ticks, nap>>

Yielded(c) ==
    /\ AtPc(c, "yielded")
    /\ Release(c, cpu[c].on, Restore(c))
    /\ thread' = [thread EXCEPT ![cpu[c].on] = [@ EXCEPT !.pc = "iret", !.intena = FALSE]]
    /\ UNCHANGED <<ticks, nap, iproc>>

\* The registers are restored, with them the interrupt-enable bit.
Iret(c) ==
    /\ AtPc(c, "iret")
    /\ thread' = [thread EXCEPT ![cpu[c].on] = @.frame[1]]
    /\ cpu' = [cpu EXCEPT ![c].ien = TRUE]
    /\ UNCHANGED <<lock, ticks, nap, iproc, halted>>

-----------------------------------------------------------------------------
InterruptsNext ==
    \/ \E c \in Cpu :
          \/ IntrGet(c) \/ IntrOff(c) \/ Acquired(c)
          \/ SchedIdle(c) \/ SchedPick(c) \/ SchedNext(c) \/ Forkret(c)
          \/ Usertrapret(c) \/ NapFrom(c) \/ NapLoop(c) \/ Sleep(c) \/ Slept(c) \/ Ret(c) \/ ExitSched(c)
          \/ Interrupt(c) \/ Tick(c) \/ Wakeup(c) \/ Ticked(c) \/ Clocked(c) \/ Yield(c) \/ Yielded(c) \/ Iret(c)
          \/ \E n \in Naps : Syscall(c, n)
    \/ \E p \in IProc : KillNap(p)

-----------------------------------------------------------------------------
(* Properties *)

Held(c) == {l \in DOMAIN lock : lock[l] = c}

\* noff counts the locks of a CPU, interrupts are off while it has one, so that
\* no handler waits for a lock its own CPU holds, and when the last lock is
\* released a process has interrupts again exactly if it had them before, on
\* whatever CPU it is now.  None of the panics of acquire(), release(),
\* pop_off() and sched() is reached.
InterruptsExact ==
    /\ ~halted
    /\ \A c \in Cpu :
          /\ cpu[c].noff = Cardinality(Held(c)) + (IF Me(c).acq = "spin" THEN 1 ELSE 0)
          /\ cpu[c].noff > 0 => ~cpu[c].ien
          /\ cpu[c].on \in IProc /\ cpu[c].noff = 0 /\ Me(c).pc # "userret"
                => cpu[c].ien = (Me(c).frame = <<>>)

\* sleep(n) returns after n ticks and not before, unless the process is killed,
\* and nobody sleeps on after that; ticks may wrap around meanwhile.
SleepExact ==
    [][\A p \in IProc :
          /\ Code(p) = "nap_loop" /\ Code(p)' = "ret" => Elapsed(p) >= nap[p].n \/ iproc[p].killed
          /\ iproc'[p].state = "SLEEPING" /\ lock'[tickslock] = Unheld => Elapsed(p)' < nap[p].n]_intrVars
=============================================================================
