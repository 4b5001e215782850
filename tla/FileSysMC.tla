----------------------------- MODULE FileSysMC -----------------------------
(* FileSys for TLC: one process and nested directories.                    *)
EXTENDS FileSys

Call(op, path) == [op |-> op, path |-> path, new |-> <<>>, mode |-> "trunc"]

\* A directory b in a directory a; both are removed while b is the current
\* directory, whose .. then leads to the inode a had.
DirCalls == {Call("mkdir", <<"a">>), Call("mkdir", <<"a", "b">>), Call("chdir", <<"a", "b">>),
             Call("unlink", <<"/", "a", "b">>), Call("unlink", <<"/", "a">>), Call("open", <<"..">>)}

NoFiles == <<>>
=============================================================================
