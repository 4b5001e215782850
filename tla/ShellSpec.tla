----------------------------- MODULE ShellSpec -----------------------------
(***************************************************************************)
(* What the shell promises: the grammar of command lines, told by          *)
(* splitting a line instead of by parsing it, and what a command runs.     *)
(***************************************************************************)
EXTENDS Shell

\* Positions lo..hi with sym outside parentheses.
Depth(lo, i) == Cardinality({j \in lo..(i - 1) : line[j] = "("}) - Cardinality({j \in lo..(i - 1) : line[j] = ")"})
Split(lo, hi, sym) == {i \in lo..hi : line[i] = sym /\ Depth(lo, i) = 0}

Bad == Cmd("bad", <<>>, <<>>, 0)
Whole(c) == IF \E k \in DOMAIN c.sub : c.sub[k].type = "bad" THEN Bad ELSE c

\* The words of lo..hi: arguments, or files after a redirection.
FileNames(lo, hi) == {i \in lo..hi : i > lo /\ line[i - 1] \in Redirs}
Sorted(S) == [k \in 1..Cardinality(S) |-> CHOOSE i \in S : Cardinality({j \in S : j < i}) = k - 1]
Redirections(lo, hi) == LET fs == Sorted(FileNames(lo, hi)) IN [k \in DOMAIN fs |-> <<fs[k], RedirFd(line[fs[k] - 1])>>]

Wellformed(lo, hi) == /\ \A i \in lo..hi : line[i] \in Redirs \cup {"a"}
                      /\ \A i \in FileNames(lo, hi) : line[i] = "a"
                      /\ hi >= lo => line[hi] \notin Redirs

RECURSIVE ListOf(_, _), BackOf(_, _), PipeOf(_, _)

\* Arguments and redirections, or a line in parentheses with redirections.
SimpleOf(lo, hi) ==
    LET words == {i \in lo..hi : line[i] = "a"} \ FileNames(lo, hi)
        close == {i \in lo..hi : line[i] = ")" /\ Depth(lo, i) = 1}
        end == Min(close) IN
    IF lo <= hi /\ line[lo] = "("
    THEN IF close = {} \/ ~Wellformed(end + 1, hi) \/ FileNames(end + 1, hi) # {i \in (end + 1)..hi : line[i] = "a"}
         THEN Bad
         ELSE LET c == ListOf(lo + 1, end - 1)
              IN  IF c = Bad THEN Bad ELSE Redirect(c, Redirections(end + 1, hi))
    ELSE IF ~Wellformed(lo, hi) \/ Cardinality(words) >= MAXARGS THEN Bad
    ELSE Redirect(execcmd(Sorted(words)), Redirections(lo, hi))

\* A pipeline is a command, | and a pipeline.
PipeOf(lo, hi) ==
    LET bars == Split(lo, hi, "|") IN
    IF bars = {} THEN SimpleOf(lo, hi)
    ELSE Whole(pipecmd(SimpleOf(lo, Min(bars) - 1), PipeOf(Min(bars) + 1, hi), Min(bars)))

\* A pipeline with any number of & behind it.
BackOf(lo, hi) == IF lo <= hi /\ line[hi] = "&" THEN Whole(backcmd(BackOf(lo, hi - 1))) ELSE PipeOf(lo, hi)

\* Such commands with ; between them.
ListOf(lo, hi) ==
    LET semis == Split(lo, hi, ";") IN
    IF semis = {} THEN BackOf(lo, hi)
    ELSE Whole(listcmd(BackOf(lo, Min(semis) - 1), ListOf(Min(semis) + 1, hi)))

\* The recursive-descent parser accepts exactly the command lines of the
\* grammar and builds their commands, and nulterminate() ends every word.
ParserRight ==
    [][\A p \in ShPid : At(p, "parse") /\ sh'[p].pc # "parse" =>
          \E c \in {ListOf(1, Len(line))} :
             IF c = Bad THEN sh'[p].pc = "zombie"
             ELSE /\ sh'[p].cmd = c
                  /\ nulterminate(c) = {i \in DOMAIN line : line[i] = "a"}]_shellVars

\* The programs a command runs, with standard input and output.
RECURSIVE Programs(_, _, _)
Programs(c, in, out) ==
    CASE c.type = "exec" -> {<<c.args, in, out>>}
      [] c.type = "redir" -> IF c.fd = 0 THEN Programs(c.sub[1], <<"file", c.args[1]>>, out)
                             ELSE Programs(c.sub[1], in, <<"file", c.args[1]>>)
      [] c.type = "pipe" -> Programs(c.sub[1], in, WriteEnd(c)) \cup Programs(c.sub[2], ReadEnd(c), out)
      [] OTHER -> UNION {Programs(c.sub[k], in, out) : k \in DOMAIN c.sub}

\* Every program runs with the standard input and output that the command gives
\* it, standard error is the console, and no other descriptor is open: the dups
\* and closes of runcmd() leave no end of a pipe behind.
DescriptorsRight ==
    \A p \in ShPid : At(p, "program") =>
        /\ DOMAIN sh[p].fd = Std /\ sh[p].fd[2] = Tty
        /\ \E c \in {ListOf(1, Len(line))} :
              <<sh[p].cmd.args, sh[p].fd[0], sh[p].fd[1]>> \in Programs(c, Tty, Tty)

\* A process in wait() waits for its children, a program that reads to the end
\* of a pipe for everybody who can write to the pipe.
WaitsFor(p, q) ==
    \/ AfterWait(sh[p].pc) # sh[p].pc /\ sh[q].parent = p /\ ~At(q, "free") /\ ~At(q, "zombie")
    \/ /\ At(p, "program")
       /\ \E k \in 1..MaxLine : sh[p].fd[0] = <<"read", k>> /\ \E f \in DOMAIN sh[q].fd : sh[q].fd[f] = <<"write", k>>

\* No process waits for the end of a pipe that it holds open itself, or that is
\* held open by somebody who waits for it, so every command comes to its end;
\* and the prompt comes back when all of the command but its & parts is over,
\* not before: each wait() of runcmd() waits for the child it is meant for.
CommandEnds ==
    LET waiting == {p \in ShPid : \E q \in ShPid : WaitsFor(p, q)} IN
    /\ \A C \in SUBSET waiting \ {{}} : \E p \in C : \A q \in C : ~WaitsFor(p, q)
    /\ At(1, "done") => \A p \in ShPid \ {1} : sh[p].pc \in {"free", "zombie"} \/ sh[p].bg
=============================================================================
