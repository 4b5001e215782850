----------------------------- MODULE AtomicDisk -----------------------------
(***************************************************************************)
(* What kernel/log.c promises to the file system above it.                 *)
(*                                                                         *)
(* The disk is a map from blocks to values.  `current' is what a system    *)
(* call reads and writes, `durable' is what the next boot will find.  The  *)
(* two are made equal in one step, and only at a moment when no system     *)
(* call is between begin_op() and end_op(): a crash keeps all the writes   *)
(* of a call or none of them.                                              *)
(***************************************************************************)
CONSTANTS Proc,       \* processes that make file-system calls
          Block,      \* home blocks, those outside the log area
          Value,      \* contents of a block
          MkfsImage   \* contents of the disk that mkfs wrote

VARIABLES durable, current, active

vars == <<durable, current, active>>

Init == /\ durable = MkfsImage
        /\ current = MkfsImage
        /\ active = {}

\* begin_op() returns: the call of p is now part of the open transaction.
Begin(p) == /\ p \notin active
            /\ active' = active \cup {p}
            /\ UNCHANGED <<durable, current>>

\* log_write(): visible to every reader at once, durable only later.
Write(p, b, v) == /\ p \in active
                  /\ current' = [current EXCEPT ![b] = v]
                  /\ UNCHANGED <<durable, active>>

\* end_op() is entered: p makes no more writes in this call.
End(p) == /\ p \in active
          /\ active' = active \ {p}
          /\ UNCHANGED <<durable, current>>

\* All finished calls become durable together.
Commit == /\ active = {}
          /\ durable' = current
          /\ UNCHANGED <<current, active>>

\* Power loss: what was not durable is gone, whoever was writing it.
Crash == /\ current' = durable
         /\ active' = {}
         /\ UNCHANGED durable

Next == \/ \E p \in Proc : Begin(p) \/ End(p)
        \/ \E p \in Proc, b \in Block, v \in Value : Write(p, b, v)
        \/ Commit
        \/ Crash

Spec == Init /\ [][Next]_vars
=============================================================================
