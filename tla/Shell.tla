------------------------------- MODULE Shell -------------------------------
(***************************************************************************)
(* The shell (user/sh.c): the parser, and the tree of processes that       *)
(* runcmd() makes to run a command line.                                   *)
(*                                                                         *)
(* A command line is a sequence of tokens, as gettoken() returns them: "a" *)
(* is a word.  A word is named by its position, and so is a pipe, by the   *)
(* position of its |.  fork(), pipe() and wait() are the kernel's (modules *)
(* ProcTable, Pipe); here they always succeed.                             *)
(***************************************************************************)
EXTENDS Integers, Sequences, FiniteSets, FiniteSetsExt

CONSTANTS
    Lines,      \* the command lines
    Runs,       \* those that are run, and not only parsed
    MaxLine,    \* tokens of a line
    MAXARGS,
    NSHPROC     \* processes

ASSUME ShellSizes == Runs \subseteq Lines /\ MaxLine \in Nat /\ MAXARGS \in Nat \ {0} /\ NSHPROC \in Nat \ {0}

VARIABLES line,  \* buf of main()
          sh     \* the processes; 1 is the shell

shellVars == <<line, sh>>

-----------------------------------------------------------------------------
(* Commands *)

Cmd(type, sub, args, fd) == [type |-> type, sub |-> sub, args |-> args, fd |-> fd]
execcmd(args) == Cmd("exec", <<>>, args, 0)
redircmd(c, file, fd) == Cmd("redir", <<c>>, <<file>>, fd)
pipecmd(l, r, pos) == Cmd("pipe", <<l, r>>, <<pos>>, 0)
listcmd(l, r) == Cmd("list", <<l, r>>, <<>>, 0)
backcmd(c) == Cmd("back", <<c>>, <<>>, 0)
NoCmd == Cmd("none", <<>>, <<>>, 0)

\* Redirections are put around a command one by one: the last is outermost.
RECURSIVE Redirect(_, _)
Redirect(c, rs) == IF rs = <<>> THEN c ELSE Redirect(redircmd(c, rs[1][1], rs[1][2]), Tail(rs))

-----------------------------------------------------------------------------
(* The parser.  A result has ok = FALSE after panic(). *)

Result(c, i) == [ok |-> TRUE, cmd |-> c, at |-> i]
Panic == [ok |-> FALSE, cmd |-> NoCmd, at |-> 0]

\* peek() and gettoken() at position i.
Tok(i) == IF i <= Len(line) THEN line[i] ELSE "end"

Redirs == {"<", ">", ">>"}
RedirFd(tok) == IF tok = "<" THEN 0 ELSE 1

\* parseredirs(): the redirections from position i on.
RECURSIVE parseredirs(_, _)
parseredirs(rs, i) ==
    IF Tok(i) \notin Redirs THEN [ok |-> TRUE, rs |-> rs, at |-> i]
    ELSE IF Tok(i + 1) # "a" THEN [ok |-> FALSE, rs |-> <<>>, at |-> 0]
    ELSE parseredirs(Append(rs, <<i + 1, RedirFd(Tok(i))>>), i + 2)

\* The loop of parseexec().
RECURSIVE parseargs(_, _, _)
parseargs(args, rs, i) ==
    LET more == parseredirs(rs, i + 1) IN
    IF Tok(i) \in {"|", ")", "&", ";", "end"} THEN Result(Redirect(execcmd(args), rs), i)
    ELSE IF Tok(i) # "a" \/ Len(args) + 1 >= MAXARGS \/ ~more.ok THEN Panic
    ELSE parseargs(Append(args, i), more.rs, more.at)

\* MUTANT: a single & only.
backloopOnce(c, i) == IF Tok(i) = "&" THEN Result(backcmd(c), i + 1) ELSE Result(c, i)

\* The loop of parseline().
RECURSIVE backloop(_, _)
backloop(c, i) == IF Tok(i) = "&" THEN backloop(backcmd(c), i + 1) ELSE Result(c, i)

RECURSIVE parseline(_), parsepipe(_), parseblock(_)
parseexec(i) ==
    LET first == parseredirs(<<>>, i) IN
    IF Tok(i) = "(" THEN parseblock(i)
    ELSE IF first.ok THEN parseargs(<<>>, first.rs, first.at) ELSE Panic

parseblock(i) ==
    LET c == parseline(i + 1)
        tail == parseredirs(<<>>, c.at + 1) IN
    IF ~c.ok \/ Tok(c.at) # ")" \/ ~tail.ok THEN Panic
    ELSE Result(Redirect(c.cmd, tail.rs), tail.at)

parsepipe(i) ==
    LET l == parseexec(i)
        r == parsepipe(l.at + 1) IN
    IF ~l.ok \/ Tok(l.at) # "|" THEN l
    ELSE IF ~r.ok THEN Panic
    ELSE Result(pipecmd(l.cmd, r.cmd, l.at), r.at)

parseline(i) ==
    LET p == parsepipe(i)
        b == backloop(p.cmd, p.at)
        r == parseline(b.at + 1) IN
    IF ~p.ok THEN Panic
    ELSE IF Tok(b.at) # ";" THEN b
    ELSE IF ~r.ok THEN Panic
    ELSE Result(listcmd(b.cmd, r.cmd), r.at)

\* The words whose end nulterminate() marks.
RECURSIVE nulterminate(_)
nulterminate(c) ==
    UNION {nulterminate(c.sub[k]) : k \in DOMAIN c.sub}
    \cup (IF c.type \in {"exec", "redir"} THEN {c.args[k] : k \in DOMAIN c.args} ELSE {})

\* Leftovers are a syntax error.
parsecmd == LET c == parseline(1) IN IF c.ok /\ Tok(c.at) = "end" THEN c ELSE Panic

-----------------------------------------------------------------------------
(* Processes: fd lists what descriptors are open to *)

ShPid == 1..NSHPROC
Std == {0, 1, 2}
Tty == <<"console", 0>>
NoProc == [pc |-> "free", cmd |-> NoCmd, parent |-> 0, bg |-> FALSE, fd |-> <<>>]

ShellInit ==
    /\ line \in Lines
    /\ sh = [p \in ShPid |-> IF p = 1 THEN [NoProc EXCEPT !.pc = "prompt", !.fd = [f \in Std |-> Tty]]
                             ELSE NoProc]

\* dup() and open() take the lowest free descriptor, pipe() the two lowest.
Lowest(fds) == Min((0..(Cardinality(DOMAIN fds))) \ DOMAIN fds)
OpenAs(fds, what) == [f \in DOMAIN fds \cup {Lowest(fds)} |-> IF f = Lowest(fds) THEN what ELSE fds[f]]
CloseFd(fds, fd) == [f \in DOMAIN fds \ {fd} |-> fds[f]]

ReadEnd(c) == <<"read", c.args[1]>>
WriteEnd(c) == <<"write", c.args[1]>>
FdOf(fds, what) == Max({f \in DOMAIN fds : fds[f] = what})

\* fork1(): a child that runs c with descriptors fds; the parent goes on at pc.
Child == Min({p \in ShPid : sh[p].pc = "free"})
Fork(p, pc, c, at, bg) ==
    sh' = [sh EXCEPT ![p].pc = pc,
                     ![Child] = [sh[p] EXCEPT !.pc = at, !.cmd = c, !.parent = p, !.bg = @ \/ bg]]

At(p, pc) == sh[p].pc = pc
Running(p, type) == At(p, "run") /\ sh[p].cmd.type = type /\ line \in Runs
Become(p, c) == sh' = [sh EXCEPT ![p].pc = "run", ![p].cmd = c]

\* exit(): descriptors are closed, children go to init, which is parent 0 and
\* reaps them; a child of init is freed at once.
Exit(p) ==
    sh' = [q \in ShPid |->
        CASE q = p -> IF sh[p].parent = 0 THEN NoProc ELSE [NoProc EXCEPT !.pc = "zombie", !.parent = sh[p].parent]
          [] q # p /\ sh[q].parent = p -> IF At(q, "zombie") THEN NoProc ELSE [sh[q] EXCEPT !.parent = 0]
          [] OTHER -> sh[q]]

\* main(): a child parses and runs the line.
Main == /\ At(1, "prompt")
        /\ Fork(1, "main_wait", NoCmd, "parse", FALSE)
        /\ UNCHANGED line

Parse(p) == /\ At(p, "parse")
            /\ \E c \in {parsecmd} : IF c.ok THEN Become(p, c.cmd) ELSE Exit(p)
            /\ UNCHANGED line

\* The next pc of a process that waits, for each of the calls of wait().
AfterWait(pc) == CASE pc = "main_wait" -> "done"
                   [] pc = "list_wait" -> "run"
                   [] pc = "pipe_wait" -> "pipe_wait2"
                   [] pc = "pipe_wait2" -> "exit"
                   [] OTHER -> pc

Wait(p) ==
    /\ AfterWait(sh[p].pc) # sh[p].pc
    /\ \E q \in ShPid :
          /\ At(q, "zombie") /\ sh[q].parent = p
          /\ sh' = [sh EXCEPT ![q] = NoProc, ![p].pc = AfterWait(@),
                              ![p].cmd = IF At(p, "list_wait") THEN @.sub[2] ELSE @]
    /\ UNCHANGED line

\* An empty command exits; else exec() starts the program, or fails.
RunExec(p) ==
    /\ Running(p, "exec")
    /\ \/ sh[p].cmd.args # <<>> /\ sh' = [sh EXCEPT ![p].pc = "program"]
       \/ Exit(p)
    /\ UNCHANGED line

\* The file is opened as the descriptor just closed, or open() fails.
RunRedir(p) ==
    LET c == sh[p].cmd
        fds == CloseFd(sh[p].fd, c.fd) IN
    /\ Running(p, "redir")
    /\ \/ sh' = [sh EXCEPT ![p].cmd = c.sub[1], ![p].fd = OpenAs(fds, <<"file", c.args[1]>>)]
       \/ Exit(p)
    /\ UNCHANGED line

RunList(p) == /\ Running(p, "list")
              /\ Fork(p, "list_wait", sh[p].cmd.sub[1], "run", FALSE)
              /\ UNCHANGED line

RunBack(p) == /\ Running(p, "back")
              /\ Fork(p, "exit", sh[p].cmd.sub[1], "run", TRUE)
              /\ UNCHANGED line

\* pipe() and the first fork1().
RunPipe(p) ==
    LET c == sh[p].cmd
        fds == OpenAs(OpenAs(sh[p].fd, ReadEnd(c)), WriteEnd(c)) IN
    /\ Running(p, "pipe")
    /\ sh' = [sh EXCEPT ![p].pc = "pipe_fork", ![p].fd = fds,
                        ![Child] = [sh[p] EXCEPT !.pc = "pipe_left", !.fd = fds, !.parent = p]]
    /\ UNCHANGED line

PipeFork(p) == /\ At(p, "pipe_fork")
               /\ Fork(p, "pipe_close", sh[p].cmd, "pipe_right", FALSE)
               /\ UNCHANGED line

\* close(p[0]); close(p[1])
CloseBoth(fds, c) == CloseFd(CloseFd(fds, FdOf(fds, ReadEnd(c))), FdOf(fds, WriteEnd(c)))

\* MUTANT: the parent keeps both ends while it waits.
PipeCloseNot(p) == /\ At(p, "pipe_close")
                   /\ sh' = [sh EXCEPT ![p].pc = "pipe_wait"]
                   /\ UNCHANGED line

PipeClose(p) == /\ At(p, "pipe_close")
                /\ sh' = [sh EXCEPT ![p].pc = "pipe_wait", ![p].fd = CloseBoth(@, sh[p].cmd)]
                /\ UNCHANGED line

\* MUTANT: the right child keeps the write end.
PlumbKeepsWrite(fds, c, fd, end) ==
    LET d == OpenAs(CloseFd(fds, fd), end)
    IN  IF fd = 0 THEN CloseFd(d, FdOf(d, ReadEnd(c))) ELSE CloseBoth(d, c)

\* A child of a pipe: close(fd); dup(end); close both ends.
Plumb(fds, c, fd, end) == CloseBoth(OpenAs(CloseFd(fds, fd), end), c)

PipeLeft(p) ==
    LET c == sh[p].cmd IN
    /\ At(p, "pipe_left")
    /\ sh' = [sh EXCEPT ![p].pc = "run", ![p].cmd = c.sub[1], ![p].fd = Plumb(@, c, 1, WriteEnd(c))]
    /\ UNCHANGED line

PipeRight(p) ==
    LET c == sh[p].cmd IN
    /\ At(p, "pipe_right")
    /\ sh' = [sh EXCEPT ![p].pc = "run", ![p].cmd = c.sub[2], ![p].fd = Plumb(@, c, 0, ReadEnd(c))]
    /\ UNCHANGED line

RunExit(p) == At(p, "exit") /\ Exit(p) /\ UNCHANGED line

\* A program may read its standard input to the end: from a pipe, until nobody
\* can write to it any more.
AtEof(p) == \A k \in 1..MaxLine : sh[p].fd[0] = <<"read", k>> =>
                \A q \in ShPid : \A f \in DOMAIN sh[q].fd : sh[q].fd[f] # <<"write", k>>

ProgramEnds(p) == At(p, "program") /\ AtEof(p) /\ Exit(p) /\ UNCHANGED line

\* The shell is back at the prompt and nothing runs any more; or the line was
\* only to be parsed.
ShellDone == /\ \/ At(1, "done") /\ \A p \in ShPid \ {1} : At(p, "free")
                \/ line \notin Runs /\ At(2, "run")
             /\ UNCHANGED shellVars

ShellStep(p) ==
    \/ Parse(p) \/ Wait(p) \/ RunExec(p) \/ RunRedir(p) \/ RunList(p) \/ RunBack(p)
    \/ RunPipe(p) \/ PipeFork(p) \/ PipeClose(p) \/ PipeLeft(p) \/ PipeRight(p)
    \/ RunExit(p) \/ ProgramEnds(p)

ShellNext == Main \/ (\E p \in ShPid : ShellStep(p)) \/ ShellDone
=============================================================================
