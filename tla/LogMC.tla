------------------------------- MODULE LogMC -------------------------------
(***************************************************************************)
(* Instances of Log for TLC, and the properties that need a sum over the   *)
(* open calls.                                                             *)
(***************************************************************************)
EXTENDS Log, FiniteSetsExt, TLC

CONSTANT v0   \* what mkfs writes

MCImage == [b \in Block |-> v0]
Symmetry == Permutations(Proc) \cup Permutations(Block)

\* The admission test of begin_op() reserves enough: the blocks already logged
\* and the blocks that open calls may still add fit in the header's block[]
\* array, whatever the mix of calls that began and ended in the transaction.
ReservationCovers ==
    Len(lh) + MapThenSumSet(LAMBDA p : MAXOPBLOCKS - Cardinality(wrote[p]), Active)
        <= LOGSIZE

\* "max data blocks in on-disk log" is LOGSIZE (param.h:10), and begin_op()
\* admits calls up to that many blocks: log_write() never finds the log full.
NeverTooBig == ~panic
=============================================================================
