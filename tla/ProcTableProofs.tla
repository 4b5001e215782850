-------------------------- MODULE ProcTableProofs ---------------------------
(***************************************************************************)
(* The invariants of the process table, for any number of processes and    *)
(* CPUs.  TableInv is inductive: one lemma for each action, with one step   *)
(* for each conjunct.                                                      *)
(***************************************************************************)
EXTENDS ProcTable, TLAPS

USE ProcTableConstants

\* The table after userinit().
LEMMA TableInit == Init => TableInv
  <1> USE DEF Init, OnCpu
  <1>1. Init => OneCpu /\ CpuInv
    BY DEF OneCpu, TypeOK, Labels, CpuInv
  <1>2. Init => PcInv /\ ForkInv /\ InitInv
    BY DEF PcInv, Preemptible, ForkInv, Forking, InitInv, Exiting
  <1>3. Init => ChildrenGone /\ ParentAwake /\ NoExitedChild /\ ParentAlive
    BY DEF ChildrenGone, ParentAwake, NoExitedChild, Dozing, ParentAlive
  <1> QED
    BY <1>1, <1>2, <1>3 DEF TableInv

\* The scheduler picks a process: only one that is on no CPU, since its lock is
\* free.
LEMMA SchedPickKeeps ==
    ASSUME NEW c \in CPU, NEW p \in Proc, TableInv, SchedPick(c, p)
    PROVE  TableInv'
  <1> USE DEF TableInv, OneCpu, TypeOK, OnCpu, SchedPick, MayPick
  <1>1. OneCpu'
    BY DEF Labels
  <1>2. CpuInv'
    BY DEF CpuInv, PcInv, Preemptible
  <1>3. PcInv'
    BY DEF PcInv, Section, Preemptible
  <1>4. ForkInv'
    BY DEF ForkInv
  <1>5. ChildrenGone'
    BY DEF ChildrenGone, PcInv, Preemptible
  <1>6. ParentAwake'
    BY DEF ParentAwake, Dozing, PcInv, Preemptible
  <1>7. NoExitedChild'
    BY DEF NoExitedChild, Dozing, PcInv, Preemptible
  <1>8. InitInv'
    BY DEF InitInv
  <1>9. ParentAlive'
    BY DEF ParentAlive
  <1> QED
    BY <1>1, <1>2, <1>3, <1>4, <1>5, <1>6, <1>7, <1>8, <1>9

\* Back in the scheduler, the process is off its CPU and its lock is free.
LEMMA SchedReturnKeeps ==
    ASSUME NEW c \in CPU, TableInv, SchedReturn(c)
    PROVE  TableInv'
  <1> USE DEF TableInv, OneCpu, TypeOK, OnCpu, SchedReturn
  <1>1. OneCpu'
    BY DEF Labels
  <1>2. CpuInv'
    BY DEF CpuInv
  <1>3. PcInv'
    BY DEF PcInv
  <1>4. ForkInv'
    BY DEF ForkInv
  <1>5. ChildrenGone'
    BY DEF ChildrenGone
  <1>6. ParentAwake'
    BY DEF ParentAwake, Dozing
  <1>7. NoExitedChild'
    BY DEF NoExitedChild, Dozing
  <1>8. InitInv'
    BY DEF InitInv
  <1>9. ParentAlive'
    BY DEF ParentAlive
  <1> QED
    BY <1>1, <1>2, <1>3, <1>4, <1>5, <1>6, <1>7, <1>8, <1>9

\* A process that yields keeps its lock until the scheduler has it.
LEMMA YieldKeeps ==
    ASSUME NEW p \in Proc, TableInv, Yield(p)
    PROVE  TableInv'
  <1> USE DEF TableInv, OneCpu, TypeOK, OnCpu, Yield, Acquire, At, Preemptible
  <1>1. OneCpu'
    BY DEF Labels
  <1>2. CpuInv'
    BY DEF CpuInv
  <1>3. PcInv'
    BY DEF PcInv, Section
  <1>4. ForkInv'
    BY DEF ForkInv
  <1>5. ChildrenGone'
    BY DEF ChildrenGone
  <1>6. ParentAwake'
    BY DEF ParentAwake, Dozing
  <1>7. NoExitedChild'
    BY DEF NoExitedChild, Dozing
  <1>8. InitInv'
    BY DEF InitInv
  <1>9. ParentAlive'
    BY DEF ParentAlive
  <1> QED
    BY <1>1, <1>2, <1>3, <1>4, <1>5, <1>6, <1>7, <1>8, <1>9

\* Waiting for wait_lock changes nothing for others.
LEMMA SpinKeeps ==
    ASSUME NEW p \in Proc, TableInv, Spin(p)
    PROVE  TableInv'
  <1> USE DEF TableInv, OneCpu, TypeOK, OnCpu, Spin, At, Goto
  <1>1. OneCpu'
    BY DEF Labels
  <1>2. CpuInv'
    BY DEF CpuInv
  <1>3. PcInv'
    BY DEF PcInv, Section
  <1>4. ForkInv'
    BY DEF ForkInv, Forking
  <1>5. ChildrenGone'
    BY DEF ChildrenGone
  <1>6. ParentAwake'
    BY DEF ParentAwake, Dozing, InitInv, Exiting, ParentAlive
  <1>7. NoExitedChild'
    BY DEF NoExitedChild, Dozing
  <1>8. InitInv'
    BY DEF InitInv, Exiting
  <1>9. ParentAlive'
    BY DEF ParentAlive
  <1> QED
    BY <1>1, <1>2, <1>3, <1>4, <1>5, <1>6, <1>7, <1>8, <1>9

\* A killed process, which is not init, goes to exit().
LEMMA TrapKilledKeeps ==
    ASSUME NEW p \in Proc, TableInv, TrapKilled(p)
    PROVE  TableInv'
  <1> USE DEF TableInv, OneCpu, TypeOK, OnCpu, TrapKilled, At, Goto, Killed
  <1>1. OneCpu'
    BY DEF Labels
  <1>2. CpuInv'
    BY DEF CpuInv
  <1>3. PcInv'
    BY DEF PcInv, Section
  <1>4. ForkInv'
    BY DEF ForkInv, Forking
  <1>5. ChildrenGone'
    BY DEF ChildrenGone
  <1>6. ParentAwake'
    BY DEF ParentAwake, Dozing
  <1>7. NoExitedChild'
    BY DEF NoExitedChild, Dozing
  <1>8. InitInv'
    BY DEF InitInv
  <1>9. ParentAlive'
    BY DEF ParentAlive
  <1> QED
    BY <1>1, <1>2, <1>3, <1>4, <1>5, <1>6, <1>7, <1>8, <1>9

\* Return to user mode.
LEMMA TrapReturnKeeps ==
    ASSUME NEW p \in Proc, TableInv, TrapReturn(p)
    PROVE  TableInv'
  <1> USE DEF TableInv, OneCpu, TypeOK, OnCpu, TrapReturn, At, Goto, NotKilled
  <1>1. OneCpu'
    BY DEF Labels
  <1>2. CpuInv'
    BY DEF CpuInv
  <1>3. PcInv'
    BY DEF PcInv, Section
  <1>4. ForkInv'
    BY DEF ForkInv, Forking
  <1>5. ChildrenGone'
    BY DEF ChildrenGone
  <1>6. ParentAwake'
    BY DEF ParentAwake, Dozing
  <1>7. NoExitedChild'
    BY DEF NoExitedChild, Dozing
  <1>8. InitInv'
    BY DEF InitInv, Exiting
  <1>9. ParentAlive'
    BY DEF ParentAlive
  <1> QED
    BY <1>1, <1>2, <1>3, <1>4, <1>5, <1>6, <1>7, <1>8, <1>9

\* A system call; init does not call exit().
LEMMA SyscallKeeps ==
    ASSUME NEW p \in Proc, NEW call \in {"wait", "exit"}, TableInv, Syscall(p, call)
    PROVE  TableInv'
  <1> USE DEF TableInv, OneCpu, TypeOK, OnCpu, Syscall, At, Goto, NotKilled
  <1>1. OneCpu'
    BY DEF Labels
  <1>2. CpuInv'
    BY DEF CpuInv
  <1>3. PcInv'
    BY DEF PcInv, Section
  <1>4. ForkInv'
    BY DEF ForkInv, Forking
  <1>5. ChildrenGone'
    BY DEF ChildrenGone
  <1>6. ParentAwake'
    BY DEF ParentAwake, Dozing
  <1>7. NoExitedChild'
    BY DEF NoExitedChild, Dozing
  <1>8. InitInv'
    BY DEF InitInv, Exiting
  <1>9. ParentAlive'
    BY DEF ParentAlive
  <1> QED
    BY <1>1, <1>2, <1>3, <1>4, <1>5, <1>6, <1>7, <1>8, <1>9

\* The slot that fork() takes belongs to nobody and is on no CPU.
LEMMA ForkKeeps ==
    ASSUME NEW p \in Proc, NEW q \in Proc, TableInv, Fork(p, q)
    PROVE  TableInv'
  <1> USE DEF TableInv, OneCpu, TypeOK, OnCpu, Fork, At, NotKilled
  <1>1. OneCpu'
    BY DEF Labels
  <1>2. CpuInv'
    BY DEF CpuInv
  <1>3. PcInv'
    BY DEF PcInv, Section
  <1>4. ForkInv'
    BY DEF ForkInv, Forking
  <1>5. ChildrenGone'
    BY DEF ChildrenGone
  <1>6. ParentAwake'
    BY DEF ParentAwake, Dozing, InitInv, Exiting, ParentAlive
  <1>7. NoExitedChild'
    BY DEF NoExitedChild, Dozing
  <1>8. InitInv'
    BY DEF InitInv, Exiting
  <1>9. ParentAlive'
    BY DEF ParentAlive
  <1> QED
    BY <1>1, <1>2, <1>3, <1>4, <1>5, <1>6, <1>7, <1>8, <1>9

\* The new child gets its parent under wait_lock, so that no parent on its way
\* out gets it.
LEMMA ForkParentKeeps ==
    ASSUME NEW p \in Proc, TableInv, ForkParent(p)
    PROVE  TableInv'
  <1> USE DEF TableInv, OneCpu, TypeOK, OnCpu, ForkParent, At, Goto
  <1>1. OneCpu'
    BY Zenon DEF Labels
  <1>2. CpuInv'
    BY DEF CpuInv
  <1>3. PcInv'
    BY DEF PcInv, Section
  <1>4. ForkInv'
    BY DEF ForkInv, Forking
  <1>5. ChildrenGone'
    BY DEF ChildrenGone
  <1>6. ParentAwake'
    BY DEF ParentAwake, Dozing
  <1>7. NoExitedChild'
    BY DEF NoExitedChild, Dozing
  <1>8. InitInv'
    BY DEF InitInv, Exiting
  <1>9. ParentAlive'
    BY DEF ParentAlive
  <1> QED
    BY <1>1, <1>2, <1>3, <1>4, <1>5, <1>6, <1>7, <1>8, <1>9

\* The new child becomes runnable, with a living parent.
LEMMA ForkRunKeeps ==
    ASSUME NEW p \in Proc, TableInv, ForkRun(p)
    PROVE  TableInv'
  <1> USE DEF TableInv, OneCpu, TypeOK, OnCpu, ForkRun, At, Goto
  <1>1. OneCpu'
    BY DEF ForkInv, Forking, Labels
  <1>2. CpuInv'
    BY DEF CpuInv
  <1>3. PcInv'
    BY DEF PcInv, ForkInv, Forking, Section, Preemptible
  <1>4. ForkInv'
    BY DEF ForkInv, PcInv, Forking
  <1>5. ChildrenGone'
    BY DEF ChildrenGone
  <1>6. ParentAwake'
    BY DEF ParentAwake, Dozing
  <1>7. NoExitedChild'
    BY DEF NoExitedChild, Dozing
  <1>8. InitInv'
    BY DEF InitInv, Exiting
  <1>9. ParentAlive'
    BY DEF ParentAlive, ForkInv, Forking
  <1> QED
    BY <1>1, <1>2, <1>3, <1>4, <1>5, <1>6, <1>7, <1>8, <1>9

\* wait_lock is given up, but p->lock is held: no wakeup is missed.
LEMMA SleepReleaseKeeps ==
    ASSUME NEW p \in Proc, TableInv, SleepRelease(p)
    PROVE  TableInv'
  <1> USE DEF TableInv, OneCpu, TypeOK, OnCpu, SleepRelease, At, Goto, SleepLock, Acquire
  <1>1. OneCpu'
    BY DEF Labels
  <1>2. CpuInv'
    BY DEF CpuInv
  <1>3. PcInv'
    BY DEF PcInv, Section
  <1>4. ForkInv'
    BY DEF ForkInv, Forking
  <1>5. ChildrenGone'
    BY DEF ChildrenGone
  <1>6. ParentAwake'
    BY DEF ParentAwake, Dozing
  <1>7. NoExitedChild'
    BY DEF NoExitedChild, Dozing
  <1>8. InitInv'
    BY DEF InitInv, Exiting
  <1>9. ParentAlive'
    BY DEF ParentAlive
  <1> QED
    BY <1>1, <1>2, <1>3, <1>4, <1>5, <1>6, <1>7, <1>8, <1>9

\* The process sleeps; since its scan no child has exited.
LEMMA SleepSchedKeeps ==
    ASSUME NEW p \in Proc, TableInv, SleepSched(p)
    PROVE  TableInv'
  <1> USE DEF TableInv, OneCpu, TypeOK, OnCpu, SleepSched, At, Goto
  <1>1. OneCpu'
    BY DEF CpuInv, Labels
  <1>2. CpuInv'
    BY DEF CpuInv
  <1>3. PcInv'
    BY DEF PcInv, Section
  <1>4. ForkInv'
    BY DEF ForkInv, Forking
  <1>5. ChildrenGone'
    BY DEF ChildrenGone
  <1>6. ParentAwake'
    BY DEF ParentAwake, Dozing
  <1>7. NoExitedChild'
    BY DEF NoExitedChild, Dozing
  <1>8. InitInv'
    BY DEF InitInv, Exiting
  <1>9. ParentAlive'
    BY DEF ParentAlive
  <1> QED
    BY <1>1, <1>2, <1>3, <1>4, <1>5, <1>6, <1>7, <1>8, <1>9

\* exit() takes wait_lock.
LEMMA ExitLockKeeps ==
    ASSUME NEW p \in Proc, TableInv, ExitLock(p)
    PROVE  TableInv'
  <1> USE DEF TableInv, OneCpu, TypeOK, OnCpu, ExitLock, At, Goto
  <1>1. OneCpu'
    BY DEF Labels
  <1>2. CpuInv'
    BY DEF CpuInv
  <1>3. PcInv'
    BY DEF PcInv, Section
  <1>4. ForkInv'
    BY DEF ForkInv, Forking
  <1>5. ChildrenGone'
    BY DEF ChildrenGone
  <1>6. ParentAwake'
    BY DEF ParentAwake, Dozing
  <1>7. NoExitedChild'
    BY DEF NoExitedChild, Dozing
  <1>8. InitInv'
    BY DEF InitInv, Exiting
  <1>9. ParentAlive'
    BY DEF ParentAlive
  <1> QED
    BY <1>1, <1>2, <1>3, <1>4, <1>5, <1>6, <1>7, <1>8, <1>9

\* Init inherits the children, and is awake if one of them has exited.
LEMMA ReparentKeeps ==
    ASSUME NEW p \in Proc, TableInv, Reparent(p)
    PROVE  TableInv'
  <1> USE DEF TableInv, OneCpu, TypeOK, OnCpu, Reparent, At, Goto, NewParent, ReparentWakeup, Wakeup, Children
  <1>1. OneCpu'
    BY DEF Labels
  <1>2. CpuInv'
    BY DEF CpuInv
  <1>3. PcInv'
    BY DEF PcInv, Section, Preemptible
  <1>4. ForkInv'
    BY DEF ForkInv, PcInv, Forking
  <1>5. ChildrenGone'
    BY DEF ChildrenGone, PcInv, Section, InitInv, Exiting
  <1>6. ParentAwake'
    BY DEF ParentAwake, Dozing, PcInv, Section
  <1>7. NoExitedChild'
    BY DEF NoExitedChild, Dozing, PcInv, CpuInv, Section
  <1>8. InitInv'
    BY DEF InitInv, Exiting
  <1>9. ParentAlive'
    BY DEF ParentAlive, InitInv
  <1> QED
    BY <1>1, <1>2, <1>3, <1>4, <1>5, <1>6, <1>7, <1>8, <1>9

\* The parent is awake, and cannot go to sleep while wait_lock is held.
LEMMA WakeupParentKeeps ==
    ASSUME NEW p \in Proc, TableInv, WakeupParent(p)
    PROVE  TableInv'
  <1> USE DEF TableInv, OneCpu, TypeOK, OnCpu, WakeupParent, At, Goto, Wakeup
  <1>1. OneCpu'
    BY Zenon DEF Labels
  <1>2. CpuInv'
    BY DEF CpuInv
  <1>3. PcInv'
    BY DEF PcInv, Section, Preemptible
  <1>4. ForkInv'
    BY DEF ForkInv, PcInv, Forking
  <1>5. ChildrenGone'
    BY DEF ChildrenGone
  <1>6. ParentAwake'
    BY DEF ParentAwake, Dozing, PcInv, CpuInv, Section, InitInv, Exiting, ParentAlive
  <1>7. NoExitedChild'
    BY DEF NoExitedChild, Dozing
  <1>8. InitInv'
    BY DEF InitInv, Exiting
  <1>9. ParentAlive'
    BY DEF ParentAlive
  <1> QED
    BY <1>1, <1>2, <1>3, <1>4, <1>5, <1>6, <1>7, <1>8, <1>9

\* The process exits without children, and its parent is awake.
LEMMA ZombieKeeps ==
    ASSUME NEW p \in Proc, TableInv, Zombie(p)
    PROVE  TableInv'
  <1> USE DEF TableInv, OneCpu, TypeOK, OnCpu, Zombie, At, Acquire
  <1>1. OneCpu'
    BY DEF Labels
  <1>2. CpuInv'
    BY DEF CpuInv
  <1>3. PcInv'
    BY DEF PcInv, Section
  <1>4. ForkInv'
    BY DEF ForkInv, Forking
  <1>5. ChildrenGone'
    BY DEF ChildrenGone
  <1>6. ParentAwake'
    BY DEF ParentAwake, Dozing
  <1>7. NoExitedChild'
    BY DEF NoExitedChild, Dozing, ParentAwake
  <1>8. InitInv'
    BY DEF InitInv, Exiting
  <1>9. ParentAlive'
    BY DEF ParentAlive, ChildrenGone
  <1> QED
    BY <1>1, <1>2, <1>3, <1>4, <1>5, <1>6, <1>7, <1>8, <1>9

\* wait() takes wait_lock.
LEMMA WaitLockKeeps ==
    ASSUME NEW p \in Proc, TableInv, WaitLock(p)
    PROVE  TableInv'
  <1> USE DEF TableInv, OneCpu, TypeOK, OnCpu, WaitLock, At, Goto
  <1>1. OneCpu'
    BY DEF Labels
  <1>2. CpuInv'
    BY DEF CpuInv
  <1>3. PcInv'
    BY DEF PcInv, Section
  <1>4. ForkInv'
    BY DEF ForkInv, Forking
  <1>5. ChildrenGone'
    BY DEF ChildrenGone
  <1>6. ParentAwake'
    BY DEF ParentAwake, Dozing
  <1>7. NoExitedChild'
    BY DEF NoExitedChild, Dozing
  <1>8. InitInv'
    BY DEF InitInv, Exiting
  <1>9. ParentAlive'
    BY DEF ParentAlive
  <1> QED
    BY <1>1, <1>2, <1>3, <1>4, <1>5, <1>6, <1>7, <1>8, <1>9

\* The child that is freed is on no CPU and has no children.
LEMMA ReapKeeps ==
    ASSUME NEW p \in Proc, TableInv, Reap(p)
    PROVE  TableInv'
  <1> USE DEF TableInv, OneCpu, TypeOK, OnCpu, Reap, At, Goto, MayFree, Children
  <1>1. OneCpu'
    BY DEF Labels
  <1>2. CpuInv'
    BY DEF CpuInv
  <1>3. PcInv'
    BY DEF PcInv, Section
  <1>4. ForkInv'
    BY DEF ForkInv, Forking
  <1>5. ChildrenGone'
    BY DEF ChildrenGone
  <1>6. ParentAwake'
    BY DEF ParentAwake, Dozing
  <1>7. NoExitedChild'
    BY DEF NoExitedChild, Dozing
  <1>8. InitInv'
    BY DEF InitInv, Exiting
  <1>9. ParentAlive'
    BY DEF ParentAlive
  <1> QED
    BY <1>1, <1>2, <1>3, <1>4, <1>5, <1>6, <1>7, <1>8, <1>9

\* wait() returns and leaves the child.
LEMMA WaitCopyFailKeeps ==
    ASSUME NEW p \in Proc, TableInv, WaitCopyFail(p)
    PROVE  TableInv'
  <1> USE DEF TableInv, OneCpu, TypeOK, OnCpu, WaitCopyFail, At, Goto
  <1>1. OneCpu'
    BY DEF Labels
  <1>2. CpuInv'
    BY DEF CpuInv
  <1>3. PcInv'
    BY DEF PcInv, Section
  <1>4. ForkInv'
    BY DEF ForkInv, Forking
  <1>5. ChildrenGone'
    BY DEF ChildrenGone
  <1>6. ParentAwake'
    BY DEF ParentAwake, Dozing
  <1>7. NoExitedChild'
    BY DEF NoExitedChild, Dozing
  <1>8. InitInv'
    BY DEF InitInv
  <1>9. ParentAlive'
    BY DEF ParentAlive
  <1> QED
    BY <1>1, <1>2, <1>3, <1>4, <1>5, <1>6, <1>7, <1>8, <1>9

\* wait() returns without a child.
LEMMA WaitFailKeeps ==
    ASSUME NEW p \in Proc, TableInv, WaitFail(p)
    PROVE  TableInv'
  <1> USE DEF TableInv, OneCpu, TypeOK, OnCpu, WaitFail, At, Goto, NoneToReap
  <1>1. OneCpu'
    BY DEF Labels
  <1>2. CpuInv'
    BY DEF CpuInv
  <1>3. PcInv'
    BY DEF PcInv, Section
  <1>4. ForkInv'
    BY DEF ForkInv, Forking
  <1>5. ChildrenGone'
    BY DEF ChildrenGone
  <1>6. ParentAwake'
    BY DEF ParentAwake, Dozing
  <1>7. NoExitedChild'
    BY DEF NoExitedChild, Dozing
  <1>8. InitInv'
    BY DEF InitInv, Exiting
  <1>9. ParentAlive'
    BY DEF ParentAlive
  <1> QED
    BY <1>1, <1>2, <1>3, <1>4, <1>5, <1>6, <1>7, <1>8, <1>9

\* wait() is about to sleep: no child has exited.
LEMMA WaitSleepKeeps ==
    ASSUME NEW p \in Proc, TableInv, WaitSleep(p)
    PROVE  TableInv'
  <1> USE DEF TableInv, OneCpu, TypeOK, OnCpu, WaitSleep, At, Goto, NoneToReap, NotKilled, Children
  <1>1. OneCpu'
    BY DEF Labels
  <1>2. CpuInv'
    BY DEF CpuInv
  <1>3. PcInv'
    BY DEF PcInv, Section
  <1>4. ForkInv'
    BY DEF ForkInv, Forking
  <1>5. ChildrenGone'
    BY DEF ChildrenGone
  <1>6. ParentAwake'
    BY DEF ParentAwake, Dozing, PcInv, Section
  <1>7. NoExitedChild'
    BY DEF NoExitedChild, Dozing
  <1>8. InitInv'
    BY DEF InitInv, Exiting
  <1>9. ParentAlive'
    BY DEF ParentAlive
  <1> QED
    BY <1>1, <1>2, <1>3, <1>4, <1>5, <1>6, <1>7, <1>8, <1>9

\* A killed process wakes up; it is not init.
LEMMA KillKeeps ==
    ASSUME NEW p \in Proc, NEW n \in KillTargets, TableInv, Kill(p, n)
    PROVE  TableInv'
  <1> USE DEF TableInv, OneCpu, TypeOK, OnCpu, Kill, At, Goto, NotKilled
  <1>1. OneCpu'
    BY DEF Labels
  <1>2. CpuInv'
    BY DEF CpuInv
  <1>3. PcInv'
    BY DEF PcInv, Section, Preemptible
  <1>4. ForkInv'
    BY DEF ForkInv, PcInv, Forking
  <1>5. ChildrenGone'
    BY DEF ChildrenGone
  <1>6. ParentAwake'
    BY DEF ParentAwake, Dozing
  <1>7. NoExitedChild'
    BY DEF NoExitedChild, Dozing
  <1>8. InitInv'
    BY DEF InitInv
  <1>9. ParentAlive'
    BY DEF ParentAlive
  <1> QED
    BY <1>1, <1>2, <1>3, <1>4, <1>5, <1>6, <1>7, <1>8, <1>9

\* Every step of the table keeps the invariant.
LEMMA TableStep == TableInv /\ [Next]_vars => TableInv'
  <1> SUFFICES ASSUME TableInv, [Next]_vars PROVE TableInv'
    OBVIOUS
  <1>1. CASE UNCHANGED vars
    <2> USE <1>1 DEF vars, TableInv, OneCpu, TypeOK, OnCpu
    <2>1. OneCpu'
      OBVIOUS
    <2>2. CpuInv'
      BY DEF CpuInv
    <2>3. PcInv' /\ ForkInv'
      BY DEF PcInv, ForkInv
    <2>4. ChildrenGone' /\ ParentAwake'
      BY DEF ChildrenGone, ParentAwake, Dozing
    <2>5. NoExitedChild' /\ InitInv' /\ ParentAlive'
      BY DEF NoExitedChild, Dozing, InitInv, ParentAlive
    <2> QED
      BY <2>1, <2>2, <2>3, <2>4, <2>5
  <1>2. ASSUME NEW c \in CPU, SchedReturn(c) \/ \E p \in Proc : SchedPick(c, p)
       PROVE  TableInv'
    BY <1>2, SchedReturnKeeps, SchedPickKeeps
  <1>3. ASSUME NEW p \in Proc, Step(p) PROVE TableInv'
    BY <1>3, SpinKeeps, TrapKilledKeeps, TrapReturnKeeps, ForkParentKeeps, ForkRunKeeps,
       SleepReleaseKeeps, SleepSchedKeeps, ExitLockKeeps, ReparentKeeps,
       WakeupParentKeeps, ZombieKeeps, WaitLockKeeps, ReapKeeps, WaitCopyFailKeeps,
       WaitFailKeeps, WaitSleepKeeps
       DEF Step
  <1>4. ASSUME NEW p \in Proc, Yield(p) \/ Syscall(p, "wait") \/ Syscall(p, "exit")
       PROVE  TableInv'
    BY <1>4, YieldKeeps, SyscallKeeps
  <1>5. ASSUME NEW p \in Proc, (\E q \in Proc : Fork(p, q)) \/ (\E n \in KillTargets : Kill(p, n))
       PROVE  TableInv'
    BY <1>5, ForkKeeps, KillKeeps
  <1> QED
    BY <1>1, <1>2, <1>3, <1>4, <1>5 DEF Next

\* The inductive invariant holds in every reachable state of the table.
THEOREM TableSafety == Spec => []TableInv
  BY TableInit, TableStep, PTL DEF Spec

\* No two CPUs run the same process, whatever yields, sleeps and wakeups happen
\* on them; and struct proc keeps its types.
THEOREM RunsOnOneCpu == Spec => []OneCpu
  <1>1. TableInv => OneCpu
    BY DEF TableInv
  <1> QED
    BY <1>1, TableSafety, PTL

\* wait() frees a process only after it has left its CPU for good.
THEOREM FreedProcessesAreOff == Spec => []FreedOffCpu
  <1>1. TableInv => FreedOffCpu
    BY DEF TableInv, OneCpu, TypeOK, CpuInv, FreedOffCpu
  <1> QED
    BY <1>1, TableSafety, PTL

\* No process sleeps in wait() while a child of it has exited.
THEOREM ExitsAreNoticed == Spec => []NoLostChildWakeup
  <1>1. TableInv => NoLostChildWakeup
    BY DEF TableInv, NoExitedChild, Dozing, NoLostChildWakeup, Children
  <1> QED
    BY <1>1, TableSafety, PTL

\* Every process but init has a parent that can wait for it.
THEOREM ParentsLive == Spec => []ParentAlive
  <1>1. TableInv => ParentAlive
    BY DEF TableInv
  <1> QED
    BY <1>1, TableSafety, PTL
=============================================================================
