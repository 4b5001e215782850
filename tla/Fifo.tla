-------------------------------- MODULE Fifo --------------------------------
(* What a pipe promises: the bytes that were put in come out once each and *)
(* in order, never more than Size of them are inside, and what is still    *)
(* inside may be thrown away only after both ends are closed.              *)
EXTENDS Naturals, Sequences

CONSTANTS Byte, Size

VARIABLES queue,  \* the bytes inside, oldest first
          last,   \* the byte that came out last
          freed   \* both ends are closed

Init == queue = <<>> /\ last \in Byte /\ freed = FALSE

Put == \E b \in Byte : /\ ~freed /\ Len(queue) < Size
                       /\ queue' = Append(queue, b)
                       /\ UNCHANGED <<last, freed>>

Get == /\ ~freed /\ queue # <<>>
       /\ last' = Head(queue)
       /\ queue' = Tail(queue)
       /\ UNCHANGED freed

Free == ~freed /\ freed' = TRUE /\ UNCHANGED <<queue, last>>

Next == Put \/ Get \/ Free

Spec == Init /\ [][Next]_<<queue, last, freed>>
=============================================================================
