------------------------------ MODULE PartsMC ------------------------------
(***************************************************************************)
(* Parts of the system that share no variable: the buffer cache (Bcache),  *)
(* pages and page tables (Vm), the heap of a program (Malloc), the console *)
(* (Console), the serial port (Uart), the shell (Shell), and spin locks    *)
(* with the timer interrupt (Interrupts).  Their product would only        *)
(* multiply their states: a behaviour explores one of them while the       *)
(* others rest.                                                            *)
(***************************************************************************)
EXTENDS Bcache, Vm, Malloc, Console, Uart, ShellSpec, Interrupts

VARIABLE part  \* the one that is explored

vars == <<bcacheVars, vmVars, mallocVars, consVars, uartVars, shellVars, intrVars, part>>

-----------------------------------------------------------------------------
\* Programs with a text segment that ends inside a page, alone and before data.
ElfFiles == {<<[vaddr |-> 0, memsz |-> 3, kind |-> "text"]>>,
             <<[vaddr |-> 0, memsz |-> 2, kind |-> "text"], [vaddr |-> 2, memsz |-> 1, kind |-> "data"]>>}

\* sbrk() by less than a page, across pages, and by more than the process has.
Sbrk == {-20, -3, -1, 1, 3}

\* All lines of at most four tokens are parsed, those of at most three are run,
\* and some longer ones with nested pipes, lists and redirections.
Tokens == {"a", "|", ";", "&", ">", "<", "(", ")"}
Short == UNION {[1..n -> Tokens] : n \in 0..3}
Long == {<<"a", "|", "a", "|", "a">>,
         <<"(", "a", "|", "a", ")", "|", "a", ">", "a">>,
         <<"a", "|", "(", "a", ">>", "a", "&", ";", "a", ")">>,
         <<"a", ">", "a", ">", "a", "<", "a", "&", ";", "a", "|", "a">>}
RunLines == Short \cup Long
AllLines == RunLines \cup [1..4 -> Tokens] \cup [1..5 -> Tokens \ {"<", "&"}]

-----------------------------------------------------------------------------
\* Vm at rest.
NoProcesses == /\ mem = [free |-> {}, pt |-> <<>>, panic |-> FALSE] /\ ours = {} /\ ncall = 0
               /\ vp = [p \in VProc |-> Unused]

Init ==
    /\ part \in {"buffers", "pages", "heap", "console", "uart", "shell", "interrupts"}
    /\ IF part = "pages" THEN VmInit ELSE NoProcesses
    /\ BcacheInit /\ MallocInit /\ ConsoleInit /\ UartInit /\ ShellInit /\ InterruptsInit
    /\ part # "uart" => wire = CHOOSE b \in Byte : TRUE
    /\ part # "shell" => line = <<>>

Next ==
    \/ /\ part = "buffers" /\ BcacheNext
       /\ UNCHANGED <<vmVars, mallocVars, consVars, uartVars, shellVars, intrVars, part>>
    \/ /\ part = "pages" /\ VmNext
       /\ UNCHANGED <<bcacheVars, mallocVars, consVars, uartVars, shellVars, intrVars, part>>
    \/ /\ part = "heap" /\ MallocNext
       /\ UNCHANGED <<bcacheVars, vmVars, consVars, uartVars, shellVars, intrVars, part>>
    \/ /\ part = "console" /\ ConsoleNext
       /\ UNCHANGED <<bcacheVars, vmVars, mallocVars, uartVars, shellVars, intrVars, part>>
    \/ /\ part = "uart" /\ UartNext
       /\ UNCHANGED <<bcacheVars, vmVars, mallocVars, consVars, shellVars, intrVars, part>>
    \/ /\ part = "shell" /\ ShellNext
       /\ UNCHANGED <<bcacheVars, vmVars, mallocVars, consVars, uartVars, intrVars, part>>
    \/ /\ part = "interrupts" /\ InterruptsNext
       /\ UNCHANGED <<bcacheVars, vmVars, mallocVars, consVars, uartVars, shellVars, part>>

Spec == Init /\ [][Next]_vars
=============================================================================
