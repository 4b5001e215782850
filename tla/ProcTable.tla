------------------------------ MODULE ProcTable ------------------------------
(***************************************************************************)
(* The process table of kernel/proc.c: fork, exit, wait, kill, sleep and   *)
(* wakeup, and the scheduler that runs on every CPU, at the granularity of *)
(* the locks.  A region that runs under one lock and touches only what     *)
(* that lock protects is one step.                                         *)
(*                                                                         *)
(* p->lock is kept across swtch(): a process takes it before it changes    *)
(* its state, and the scheduler it switches to releases it.  wait_lock     *)
(* covers p->parent and comes before any p->lock.                          *)
(***************************************************************************)
EXTENDS Naturals, FiniteSets

CONSTANTS Proc,        \* slots of proc[]
          InitProc,    \* initproc
          CPU,
          KillTargets, \* pids that programs pass to kill()
          MaxPid,      \* bound on nextpid
          NULL

ASSUME ProcTableConstants == /\ InitProc \in Proc
                             /\ NULL \notin Proc
                             /\ MaxPid \in Nat \ {0}
                             /\ 1 \notin KillTargets   \* nobody kills init

VARIABLES state,      \* p->state
          pid,        \* p->pid
          parent,     \* p->parent
          killed,     \* p->killed
          chan,       \* p->chan: the process whose children it waits for, or NULL
          locked,     \* p->lock is held
          wait_lock,  \* the process that holds wait_lock, or NULL
          cproc,      \* c->proc
          nextpid,    \* the last pid that was handed out
          pc,         \* where the kernel code of a process stands
          np          \* the child that a fork() is making

vars == <<state, pid, parent, killed, chan, locked, wait_lock, cproc, nextpid, pc, np>>

\* After userinit(), the first process runs user/init.c.
Init == /\ state = [p \in Proc |-> IF p = InitProc THEN "RUNNABLE" ELSE "UNUSED"]
        /\ pid = [p \in Proc |-> IF p = InitProc THEN 1 ELSE 0]
        /\ parent = [p \in Proc |-> NULL]
        /\ killed = [p \in Proc |-> FALSE]
        /\ chan = [p \in Proc |-> NULL]
        /\ locked = [p \in Proc |-> FALSE]
        /\ wait_lock = NULL
        /\ cproc = [c \in CPU |-> NULL]
        /\ nextpid = 1
        /\ pc = [p \in Proc |-> "user"]
        /\ np = [p \in Proc |-> NULL]

OnCpu(p) == \E c \in CPU : cproc[c] = p

\* p executes its own kernel or user code at label l.
At(p, l) == OnCpu(p) /\ state[p] = "RUNNING" /\ pc[p] = l

Goto(p, l) == pc' = [pc EXCEPT ![p] = l]

\* acquire(&p->lock).
Acquire(p) == ~locked[p] /\ locked' = [locked EXCEPT ![p] = TRUE]

-----------------------------------------------------------------------------
(* The scheduler and the switch to it.                                     *)

\* MUTANT: the scheduler looks at p->state without taking p->lock.
MayPickUnlocked(p) == state[p] = "RUNNABLE"

MayPick(p) == ~locked[p] /\ state[p] = "RUNNABLE"

\* scheduler() finds p and switches to it; the code of p after sched(), or
\* forkret(), clears chan and releases p->lock.
SchedPick(c, p) ==
    /\ cproc[c] = NULL
    /\ MayPick(p)
    /\ state' = [state EXCEPT ![p] = "RUNNING"]
    /\ chan' = [chan EXCEPT ![p] = NULL]
    /\ cproc' = [cproc EXCEPT ![c] = p]
    /\ UNCHANGED <<pid, parent, killed, locked, wait_lock, nextpid, pc, np>>

\* Back in scheduler() after swtch(): the process is off this CPU's stack.
SchedReturn(c) ==
    LET p == cproc[c]
    IN  /\ p # NULL
        /\ state[p] # "RUNNING"
        /\ cproc' = [cproc EXCEPT ![c] = NULL]
        /\ locked' = [locked EXCEPT ![p] = FALSE]
        /\ UNCHANGED <<state, pid, parent, killed, chan, wait_lock, nextpid, pc, np>>

\* Labels at which a process holds no lock, so that the timer can interrupt it.
Preemptible == {"user", "ret", "fork_parent", "fork_run", "wait", "exit"}

\* yield(), from usertrap() unless the process is killed, and from kerneltrap().
Yield(p) ==
    /\ \E l \in Preemptible : At(p, l)
    /\ pc[p] = "user" => ~killed[p]
    /\ Acquire(p)
    /\ state' = [state EXCEPT ![p] = "RUNNABLE"]
    /\ UNCHANGED <<pid, parent, killed, chan, wait_lock, cproc, nextpid, pc, np>>

\* acquire(&wait_lock) begins: from here on interrupts are off and the process
\* spins on its CPU until it gets the lock.
Spin(p) ==
    /\ \/ At(p, "fork_parent") /\ Goto(p, "fork_spin")
       \/ At(p, "wait") /\ Goto(p, "wait_spin")
       \/ At(p, "exit") /\ Goto(p, "exit_spin")
    /\ UNCHANGED <<state, pid, parent, killed, chan, locked, wait_lock, cproc, nextpid, np>>

-----------------------------------------------------------------------------
(* Traps.                                                                  *)

\* MUTANT: only the end of a system call looks at p->killed.
KilledAtReturn(p) == ~locked[p] /\ killed[p] /\ pc[p] = "ret"

\* killed(), where usertrap() starts and where it ends.
Killed(p) == ~locked[p] /\ killed[p]
NotKilled(p) == ~locked[p] /\ ~killed[p]

\* usertrap(): a process that was killed exits.
TrapKilled(p) ==
    /\ At(p, "user") \/ At(p, "ret")
    /\ Killed(p)
    /\ Goto(p, "exit")
    /\ UNCHANGED <<state, pid, parent, killed, chan, locked, wait_lock, cproc, nextpid, np>>

TrapReturn(p) ==
    /\ At(p, "ret")
    /\ NotKilled(p)
    /\ Goto(p, "user")
    /\ UNCHANGED <<state, pid, parent, killed, chan, locked, wait_lock, cproc, nextpid, np>>

\* syscall() into wait() or exit(); init never calls exit().
Syscall(p, call) ==
    /\ At(p, "user")
    /\ NotKilled(p)
    /\ call = "exit" => p # InitProc
    /\ Goto(p, call)
    /\ UNCHANGED <<state, pid, parent, killed, chan, locked, wait_lock, cproc, nextpid, np>>

-----------------------------------------------------------------------------
(* fork().                                                                 *)

\* allocproc(), up to the first release of the lock of the child.  killed and
\* parent keep what freeproc() left there.
Fork(p, q) ==
    /\ At(p, "user") /\ NotKilled(p)
    /\ state[q] = "UNUSED" /\ ~locked[q]
    /\ nextpid < MaxPid
    /\ nextpid' = nextpid + 1
    /\ pid' = [pid EXCEPT ![q] = nextpid']
    /\ state' = [state EXCEPT ![q] = "USED"]
    /\ np' = [np EXCEPT ![p] = q]
    /\ pc' = [pc EXCEPT ![p] = "fork_parent", ![q] = "user"]
    /\ UNCHANGED <<parent, killed, chan, locked, wait_lock, cproc>>

ForkParent(p) ==
    /\ At(p, "fork_spin")
    /\ wait_lock = NULL
    /\ parent' = [parent EXCEPT ![np[p]] = p]
    /\ Goto(p, "fork_run")
    /\ UNCHANGED <<state, pid, killed, chan, locked, wait_lock, cproc, nextpid, np>>

ForkRun(p) ==
    /\ At(p, "fork_run")
    /\ ~locked[np[p]]
    /\ state' = [state EXCEPT ![np[p]] = "RUNNABLE"]
    /\ np' = [np EXCEPT ![p] = NULL]
    /\ Goto(p, "ret")
    /\ UNCHANGED <<pid, parent, killed, chan, locked, wait_lock, cproc, nextpid>>

-----------------------------------------------------------------------------
(* sleep() and wakeup().  wakeup() visits every slot under its lock; only  *)
(* the visit to a process that sleeps on the channel has an effect, and    *)
(* the only process that sleeps on channel q in wait() is q itself.        *)

\* MUTANT: the sleepers are looked for on another channel.
WakeupNobody(q) == state

\* The state of the table after wakeup(q).
Wakeup(q) == IF state[q] = "SLEEPING" /\ chan[q] = q
             THEN [state EXCEPT ![q] = "RUNNABLE"] ELSE state

\* MUTANT: sleep() gives up the condition's lock without holding p->lock.
SleepLockNone(p) == locked' = locked

SleepLock(p) == Acquire(p)

\* sleep(p, &wait_lock): acquire(&p->lock), release(lk).
SleepRelease(p) ==
    /\ At(p, "sleep")
    /\ SleepLock(p)
    /\ wait_lock' = NULL
    /\ Goto(p, "sleeping")
    /\ UNCHANGED <<state, pid, parent, killed, chan, cproc, nextpid, np>>

\* The rest of sleep() up to sched().  Afterwards it takes wait_lock again.
SleepSched(p) ==
    /\ At(p, "sleeping")
    /\ chan' = [chan EXCEPT ![p] = p]
    /\ state' = [state EXCEPT ![p] = "SLEEPING"]
    /\ Goto(p, "wait")
    /\ UNCHANGED <<pid, parent, killed, locked, wait_lock, cproc, nextpid, np>>

-----------------------------------------------------------------------------
(* exit().  Its work on files and memory comes first and is not here.      *)

ExitLock(p) ==
    /\ At(p, "exit_spin")
    /\ wait_lock = NULL
    /\ wait_lock' = p
    /\ Goto(p, "reparent")
    /\ UNCHANGED <<state, pid, parent, killed, chan, locked, cproc, nextpid, np>>

Children(p) == {q \in Proc : parent[q] = p}

\* MUTANT: the children keep the parent that is gone.
NewParentSame(p) == parent

\* What reparent() makes of p->parent.
NewParent(p) == [q \in Proc |-> IF parent[q] = p THEN InitProc ELSE parent[q]]

\* wakeup(initproc), for every child that is passed on.
ReparentWakeup(p) == IF Children(p) # {} THEN Wakeup(InitProc) ELSE state

\* reparent().
Reparent(p) ==
    /\ At(p, "reparent")
    /\ Children(p) # {} => ~locked[InitProc]
    /\ parent' = NewParent(p)
    /\ state' = ReparentWakeup(p)
    /\ Goto(p, "wakeup_parent")
    /\ UNCHANGED <<pid, killed, chan, locked, wait_lock, cproc, nextpid, np>>

WakeupParent(p) ==
    /\ At(p, "wakeup_parent")
    /\ ~locked[parent[p]]
    /\ state' = Wakeup(parent[p])
    /\ Goto(p, "zombie")
    /\ UNCHANGED <<pid, parent, killed, chan, locked, wait_lock, cproc, nextpid, np>>

\* acquire(&p->lock), ZOMBIE, release(&wait_lock); sched() never returns.
Zombie(p) ==
    /\ At(p, "zombie")
    /\ Acquire(p)
    /\ state' = [state EXCEPT ![p] = "ZOMBIE"]
    /\ wait_lock' = NULL
    /\ UNCHANGED <<pid, parent, killed, chan, cproc, nextpid, pc, np>>

-----------------------------------------------------------------------------
(* wait().                                                                 *)

WaitLock(p) ==
    /\ At(p, "wait_spin")
    /\ wait_lock = NULL
    /\ wait_lock' = p
    /\ Goto(p, "scan")
    /\ UNCHANGED <<state, pid, parent, killed, chan, locked, cproc, nextpid, np>>

\* MUTANT: a child is freed while it may still be on its way to the scheduler.
MayFreeUnlocked(q) == state[q] = "ZOMBIE"

MayFree(q) == ~locked[q] /\ state[q] = "ZOMBIE"

\* The scan finds an exited child: freeproc(), release(&wait_lock).
Reap(p) ==
    /\ At(p, "scan")
    /\ \E q \in Children(p) :
        /\ MayFree(q)
        /\ state' = [state EXCEPT ![q] = "UNUSED"]
        /\ pid' = [pid EXCEPT ![q] = 0]
        /\ parent' = [parent EXCEPT ![q] = NULL]
        /\ chan' = [chan EXCEPT ![q] = NULL]
        /\ killed' = [killed EXCEPT ![q] = FALSE]
    /\ wait_lock' = NULL
    /\ Goto(p, "ret")
    /\ UNCHANGED <<locked, cproc, nextpid, np>>

\* copyout() of the exit status fails: the child stays.  init passes no address.
WaitCopyFail(p) ==
    /\ At(p, "scan") /\ p # InitProc
    /\ \E q \in Children(p) : MayFree(q)
    /\ wait_lock' = NULL
    /\ Goto(p, "ret")
    /\ UNCHANGED <<state, pid, parent, killed, chan, locked, cproc, nextpid, np>>

\* The scan finds none: return -1 without children or when killed.
NoneToReap(p) == At(p, "scan") /\ \A q \in Children(p) : state[q] # "ZOMBIE"

WaitFail(p) ==
    /\ NoneToReap(p)
    /\ ~locked[p] /\ (Children(p) = {} \/ killed[p])
    /\ wait_lock' = NULL
    /\ Goto(p, "ret")
    /\ UNCHANGED <<state, pid, parent, killed, chan, locked, cproc, nextpid, np>>

WaitSleep(p) ==
    /\ NoneToReap(p)
    /\ NotKilled(p) /\ Children(p) # {}
    /\ Goto(p, "sleep")
    /\ UNCHANGED <<state, pid, parent, killed, chan, locked, wait_lock, cproc, nextpid, np>>

-----------------------------------------------------------------------------
\* kill(n): the first slot with that pid, under its lock.  init never calls it.
Kill(p, n) ==
    /\ At(p, "user") /\ NotKilled(p) /\ p # InitProc
    /\ \E q \in Proc :
        /\ pid[q] = n /\ ~locked[q]
        /\ killed' = [killed EXCEPT ![q] = TRUE]
        /\ state' = [state EXCEPT ![q] = IF @ = "SLEEPING" THEN "RUNNABLE" ELSE @]
    /\ Goto(p, "ret")
    /\ UNCHANGED <<pid, parent, chan, locked, wait_lock, cproc, nextpid, np>>

-----------------------------------------------------------------------------
\* Kernel code of p, which runs to its end once it is started.
Step(p) == \/ TrapKilled(p) \/ TrapReturn(p) \/ Spin(p)
           \/ ForkParent(p) \/ ForkRun(p)
           \/ SleepRelease(p) \/ SleepSched(p)
           \/ ExitLock(p) \/ Reparent(p) \/ WakeupParent(p) \/ Zombie(p)
           \/ WaitLock(p) \/ Reap(p) \/ WaitCopyFail(p) \/ WaitFail(p) \/ WaitSleep(p)

Next == \/ \E c \in CPU : SchedReturn(c) \/ \E p \in Proc : SchedPick(c, p)
        \/ \E p \in Proc :
            \/ Step(p)
            \/ Yield(p)
            \/ Syscall(p, "wait") \/ Syscall(p, "exit")
            \/ \E q \in Proc : Fork(p, q)
            \/ \E n \in KillTargets : Kill(p, n)

Spec == Init /\ [][Next]_vars

\* Every CPU runs its scheduler, whose round robin over the table reaches every
\* runnable process; a timer interrupt stays pending until interrupts are on;
\* spinlocks are not starved; and init calls wait() again and again.
Fairness ==
    /\ \A c \in CPU : WF_vars(SchedReturn(c))
    /\ \A p \in Proc : /\ SF_vars(\E c \in CPU : SchedPick(c, p))
                       /\ SF_vars(Step(p))
                       /\ SF_vars(Yield(p))
    /\ SF_vars(Syscall(InitProc, "wait"))

FairSpec == Spec /\ Fairness

-----------------------------------------------------------------------------
Labels == {"user", "ret", "fork_parent", "fork_spin", "fork_run", "wait", "wait_spin", "scan",
           "sleep", "sleeping", "exit", "exit_spin", "reparent", "wakeup_parent", "zombie"}

\* The types of struct proc and struct cpu; what a CPU executes is running, or
\* on its way out with its lock held.
TypeOK ==
    /\ state \in [Proc -> {"UNUSED", "USED", "SLEEPING", "RUNNABLE", "RUNNING", "ZOMBIE"}]
    /\ pid \in [Proc -> 0..MaxPid]
    /\ parent \in [Proc -> Proc \cup {NULL}]
    /\ killed \in [Proc -> BOOLEAN]
    /\ chan \in [Proc -> Proc \cup {NULL}]
    /\ locked \in [Proc -> BOOLEAN]
    /\ wait_lock \in Proc \cup {NULL}
    /\ cproc \in [CPU -> Proc \cup {NULL}]
    /\ nextpid \in 1..MaxPid
    /\ pc \in [Proc -> Labels]
    /\ np \in [Proc -> Proc \cup {NULL}]
    /\ \A p \in Proc : OnCpu(p) => state[p] = "RUNNING" \/ locked[p]

\* Two CPUs never run the same process: p->lock, held across swtch(), keeps
\* another scheduler from a process that is runnable again but still on the
\* stack it is leaving.  (With the types.)
OneCpu == TypeOK /\ \A c, d \in CPU : cproc[c] = cproc[d] /\ cproc[c] # NULL => c = d

\* wait() frees a child only after the child has left its CPU for good, so its
\* kernel stack and page table are no longer in use.
FreedOffCpu == \A p \in Proc : state[p] = "UNUSED" => ~OnCpu(p)

\* A process that sleeps in wait() has no exited child: sleep() lets go of
\* wait_lock only when no wakeup can be missed, and reparent() wakes init for
\* the children it inherits, exited ones included.
NoLostChildWakeup ==
    \A p \in Proc : state[p] = "SLEEPING" => \A q \in Children(p) : state[q] # "ZOMBIE"

\* Every process but init has a parent that can still wait for it, however
\* fork, exit and wait of three generations interleave.
ParentAlive ==
    \A p \in Proc \ {InitProc} : state[p] \notin {"UNUSED", "USED"} =>
        parent[p] # NULL /\ state[parent[p]] \notin {"UNUSED", "USED", "ZOMBIE"}

-----------------------------------------------------------------------------
(* The inductive invariant behind these four.                              *)

Section == {"scan", "sleep", "reparent", "wakeup_parent", "zombie"}
Forking == {"fork_parent", "fork_spin", "fork_run"}
Exiting == {"exit", "exit_spin", "reparent", "wakeup_parent", "zombie"}

\* p is between the scan of wait() and its sleep, or asleep.
Dozing(p) == state[p] = "SLEEPING" \/ (state[p] = "RUNNING" /\ pc[p] \in {"sleep", "sleeping"})

\* A process that runs, or whose lock is held, is on a CPU; the lock is held
\* from sleep(), yield() or exit() to the scheduler.
CpuInv ==
    \A p \in Proc : /\ state[p] = "RUNNING" => OnCpu(p) /\ (locked[p] <=> pc[p] = "sleeping")
                    /\ locked[p] => OnCpu(p) /\ state[p] \notin {"UNUSED", "USED"}

\* Where a process stands that does not run, and which code holds wait_lock.
PcInv ==
    \A p \in Proc : /\ state[p] = "RUNNABLE" => pc[p] \in Preemptible
                    /\ state[p] = "SLEEPING" => pc[p] = "wait" /\ chan[p] = p
                    /\ state[p] = "USED" => pc[p] = "user"
                    /\ wait_lock = p <=> state[p] = "RUNNING" /\ pc[p] \in Section

\* The child that a fork() makes is its own until it is runnable.
ForkInv ==
    \A p \in Proc :
        /\ np[p] # NULL <=> state[p] \in {"RUNNING", "RUNNABLE"} /\ pc[p] \in Forking
        /\ np[p] # NULL => /\ state[np[p]] = "USED"
                           /\ pc[p] = "fork_run" => parent[np[p]] = p
                           /\ \A q \in Proc : np[q] = np[p] => q = p

\* A process that has passed on its children gets no more of them.
ChildrenGone ==
    \A p \in Proc : state[p] = "RUNNING" /\ pc[p] \in {"wakeup_parent", "zombie"} => \A q \in Proc : parent[q] # p

\* A process that has woken its parent finds it awake when it exits.
ParentAwake == \A p \in Proc : state[p] = "RUNNING" /\ pc[p] = "zombie" => ~Dozing(parent[p])

\* A parent on its way to sleep has no exited child.
NoExitedChild == \A p \in Proc : Dozing(p) => \A q \in Proc : parent[q] = p => state[q] # "ZOMBIE"

InitInv == /\ state[InitProc] \in {"SLEEPING", "RUNNABLE", "RUNNING"}
           /\ pid[InitProc] = 1 /\ ~killed[InitProc] /\ pc[InitProc] \notin Exiting

TableInv == OneCpu /\ CpuInv /\ PcInv /\ ForkInv
            /\ ChildrenGone /\ ParentAwake /\ NoExitedChild /\ InitInv /\ ParentAlive

-----------------------------------------------------------------------------
\* A child of init that exits is freed, through whatever wakeups, preemptions
\* and inheritances: no zombie stays in the table for ever.
InitReaps ==
    \A p \in Proc \ {InitProc} : (state[p] = "ZOMBIE" /\ parent[p] = InitProc) ~> (state[p] = "UNUSED")

\* A process that is killed while it runs user code, or before its first run,
\* exits, even if it never makes a system call.
KilledExits ==
    \A p \in Proc \ {InitProc} : (killed[p] /\ pc[p] = "user") ~> (state[p] = "ZOMBIE")

\* kill() marks processes only: no free slot of the table carries the mark into
\* the process that is made there next.
KillMarksProcesses == \A p \in Proc : killed[p] => state[p] # "UNUSED"
==============================================================================
