----------------------------- MODULE ProgressMC -----------------------------
(***************************************************************************)
(* Liveness of the process table (ProcTable) and of the log (Log).  The    *)
(* two share no variable, so that their product would only multiply their  *)
(* states: a behaviour recovers the log, and from then on explores either  *)
(* the log or the table, while the other rests where nothing has to        *)
(* happen.                                                                 *)
(***************************************************************************)
EXTENDS ProcTable

CONSTANTS LogProc, Block, v0, LOGSIZE, MAXOPBLOCKS, NLOG, NotCached, Torn, NoProc, MaxOps, MaxCrash,
          Watched  \* the processes EveryCallBegins is about; all are alike

VARIABLES disk, diskLog, diskHead, cache, pin, lh, outstanding, committing, logPc, wrote, ops,
          phase, tail, committer, recovering, panic, crashes,
          part  \* the one that is explored

logVars == <<disk, diskLog, diskHead, cache, pin, lh, outstanding, committing, logPc, wrote, ops,
             phase, tail, committer, recovering, panic, crashes>>

L == INSTANCE LogMC WITH Proc <- LogProc, pc <- logPc, Value <- {v0}, MkfsImage <- [b \in Block |-> v0]

\* No process, so that nothing is to be scheduled.
TableRests ==
    LET all(v) == [p \in Proc |-> v] IN
    /\ state = all("UNUSED") /\ pid = all(0) /\ parent = all(NULL) /\ killed = all(FALSE)
    /\ chan = all(NULL) /\ locked = all(FALSE) /\ wait_lock = NULL /\ cproc = [c \in CPU |-> NULL]
    /\ nextpid = 1 /\ pc = all("user") /\ np = all(NULL)

ProgressInit == part = "log" /\ L!Init /\ TableRests

\* Instead of the first call on the log: the state Init of ProcTable.
StartTable == /\ part = "log" /\ L!Up /\ ops = [p \in LogProc |-> 0]
              /\ cache = [b \in Block |-> NotCached]
              /\ part' = "table"
              /\ state' = [state EXCEPT ![InitProc] = "RUNNABLE"] /\ pid' = [pid EXCEPT ![InitProc] = 1]
              /\ UNCHANGED <<parent, killed, chan, locked, wait_lock, cproc, nextpid, pc, np, logVars>>

ProgressNext ==
    \/ part = "log" /\ L!Next /\ UNCHANGED <<vars, part>>
    \/ part = "table" /\ Next /\ UNCHANGED <<logVars, part>>
    \/ StartTable

ProgressSpec == /\ ProgressInit /\ [][ProgressNext]_<<vars, logVars, part>>
                /\ Fairness /\ L!Fairness

\* begin_op() reserves enough log space for the calls it admits (LogMC).
ReservationCovers == L!ReservationCovers

\* A call that waits in begin_op() for space or for a commit is let in once the
\* others, which make at most MaxOps calls each, leave room.  The bound matters:
\* begin_op() keeps no queue, so that an endless stream of other calls may
\* overtake a waiting one for ever.
EveryCallBegins == \A p \in Watched : logPc[p] = "asleep" ~> logPc[p] = "inop"
=============================================================================
