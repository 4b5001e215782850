--------------------------- MODULE LineDiscipline ---------------------------
(* What the console promises to the processes that read from it: keys      *)
(* collect in an unfinished line that can still be edited, a line becomes  *)
(* readable when it is finished or when there is no room left, and every   *)
(* readable character is taken once and in order.  End of file is a        *)
(* character that only a read() without any other characters takes.        *)
EXTENDS Naturals, Sequences, SequencesExt

CONSTANTS Size, Reader

VARIABLES ready,  \* characters that can be read, oldest first
          line,   \* the unfinished line
          some    \* the readers whose read() has characters already

Init == ready = <<>> /\ line = <<>> /\ some = {}

Type(c) == LET l == Append(line, c)
               full == Len(ready) + Len(l) = Size
           IN  /\ Len(ready) + Len(line) < Size
               /\ IF c \in {"newline", "eof"} \/ full
                  THEN ready' = ready \o l /\ line' = <<>>
                  ELSE line' = l /\ UNCHANGED ready
               /\ UNCHANGED some

Erase == line # <<>> /\ line' = Front(line) /\ UNCHANGED <<ready, some>>
KillLine == line' = <<>> /\ UNCHANGED <<ready, some>>

\* p takes a character; its read() goes on or ends.
Take(p) ==
    /\ ready # <<>> /\ ready' = Tail(ready)
    /\ IF Head(ready) = "eof" THEN p \notin some /\ UNCHANGED some
       ELSE some' \in {some \cup {p}, some \ {p}}
    /\ UNCHANGED line

End(p) == some' = some \ {p} /\ UNCHANGED <<ready, line>>

Next == \/ \E c \in {"letter", "newline", "eof"} : Type(c)
        \/ Erase \/ KillLine
        \/ \E p \in Reader : Take(p) \/ End(p)

Spec == Init /\ [][Next]_<<ready, line, some>>
=============================================================================
